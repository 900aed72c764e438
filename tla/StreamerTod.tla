---------------------------- MODULE StreamerTod -----------------------------
(***************************************************************************)
(* Transfer of a block from a controller to an IO device through a ring in *)
(* a memory block ("tod"): ioc_streamer_controller_write, driven by an     *)
(* application, and ioc_streamer_device_read, driven by the device's       *)
(* control stream, which stores a persistent block or programs the device. *)
(* The conventions are those of StreamerFrd: snapshots of the two memory   *)
(* blocks, the bytes themselves as their checksum, "late" for a timer that *)
(* has run out.                                                            *)
(***************************************************************************)
EXTENDS StreamerRing

CONSTANTS Block,         \* values of the select signal; 0 before it is first set
          FlashProgram,  \* OS_PBNR_FLASH_PROGRAM
          MaxLine,       \* snapshots of one direction under way
          Environments   \* the circumstances a behaviour may have, see below

\* An environment: what the application has for each block, a sequence of
\* bytes; the blocks it sends; the ends whose timers may run out, and whether
\* only when nothing else can happen; what may go wrong.
ASSUME StreamerTodAssumption ==
    /\ MaxLine \in Nat \ {0} /\ 0 \in Block
    /\ \A v \in Environments :
          /\ v.content \in [Block -> Seq(Nat)] /\ v.blocks \subseteq Block \ {0}
          /\ v.late \subseteq {"dev", "ctl"} /\ v.prompt \in BOOLEAN
          /\ v.faults \subseteq {"open", "write", "interrupt", "break"}

VARIABLES dev,      \* device: iocStreamer and iocControlStreamState
          exp,      \* device's signals
          disk,     \* how the last transfer ended in the device's storage
          ctl,      \* controller: iocStreamer and its application
          imp,      \* controller's signals
          expLine, impLine, expSeen, impSeen, link,
          opened,   \* the block the device has open, or had open last
          selected, \* the block the controller's application sends
          env       \* the environment of this behaviour

vars == <<dev, exp, disk, ctl, imp, expLine, impLine, expSeen, impSeen, link, opened, selected, env>>

Content(b) == env.content[b]

Going == {"RUNNING", "COMPLETED"}

\* Zero in the checksum signal, which is not the checksum of no data.
NoSum == <<-1>>

Status(step) ==
    CASE step = "ALL_COMPLETED" -> "COMPLETED"
      [] step \in {"INITIALIZED", "FAILED_AND_IDLE_SET"} -> "ERROR"
      [] OTHER -> "SUCCESS"

NoStore == [open |-> FALSE, step |-> "INITIALIZED", tail |-> 0, sum |-> <<>>,
            kind |-> "none", stored |-> <<>>, poll |-> FALSE]
NoWriter == [open |-> FALSE, step |-> "INITIALIZED", head |-> 0, sum |-> <<>>,
             pos |-> 0, result |-> "none"]

Init ==
    /\ dev = NoStore
    /\ exp = [state |-> "IDLE", tail |-> 0, err |-> "SUCCESS"]
    /\ disk = [end |-> "none", bytes |-> <<>>, err |-> "SUCCESS",
               status |-> "NO_BLOCK_TRANSFERRED"]
    /\ ctl = NoWriter
    /\ imp = [cmd |-> "IDLE", head |-> 0, cs |-> NoSum, sel |-> 0, buf |-> [i \in Position |-> 0]]
    /\ expLine = <<>> /\ impLine = <<>>
    /\ expSeen = [sig |-> exp, conn |-> TRUE]
    /\ impSeen = [sig |-> imp, conn |-> TRUE]
    /\ link = "up"
    /\ opened = 0 /\ selected = 0
    /\ env \in Environments

----------------------------------------------------------------------------
(* The device.  d is [s |-> dev, x |-> exp, k |-> disk, got |-> bytes].    *)

cmd == impSeen.sig.cmd

IsError(e) == e \notin {"SUCCESS", "COMPLETED"}

ReadData(d, late) ==
    LET k == ReadCount(impSeen.sig.head, d.s.tail, BufSz - 1)
        t == (d.s.tail + k) % BufSz
        bytes == Fetched(impSeen.sig.buf, d.s.tail, k)
        r == [d EXCEPT !.got = bytes, !.s.tail = t, !.x.tail = IF k > 0 THEN t ELSE @,
                       !.s.sum = @ \o bytes]
    IN  CASE cmd = "RUNNING" /\ k = 0 /\ late -> [r EXCEPT !.s.step = "FAILED"]
          [] cmd = "RUNNING" /\ ~(k = 0 /\ late) -> r
          [] OTHER -> [r EXCEPT !.s.step = "TRANSFER_DONE"]

TransferData(d, interrupt, late) ==
    IF cmd \notin Going \/ interrupt THEN [d EXCEPT !.s.step = "FAILED"]
    ELSE ReadData(d, late)

\* The switch over the step in ioc_streamer_device_read.
StepOfRead(d, interrupt, late) ==
    CASE d.s.step = "INITIALIZED" ->
           IF cmd \notin Going THEN [d EXCEPT !.s.step = "FAILED"]
           ELSE TransferData([d EXCEPT !.x.state = "RUNNING", !.s.step = "TRANSFER_DATA"],
                             interrupt, late)
      [] d.s.step = "TRANSFER_DATA" -> TransferData(d, interrupt, late)
      [] d.s.step = "TRANSFER_DONE" -> [d EXCEPT !.x.state = "IDLE", !.s.step = "ALL_COMPLETED"]
      [] d.s.step = "FAILED" -> [d EXCEPT !.x.state = "INTERRUPT", !.s.step = "FAILED2"]
      [] d.s.step = "FAILED2" ->
           IF cmd \in Going /\ impSeen.conn /\ ~late THEN d
           ELSE [d EXCEPT !.x.state = "IDLE", !.s.step = "FAILED_AND_IDLE_SET"]
      [] OTHER -> d

\* ioc_streamer_device_read.
DeviceRead(d0, interrupt, late) ==
    LET e == [d0 EXCEPT !.got = <<>>]
    IN  StepOfRead(IF impSeen.conn \/ e.s.step = "FAILED_AND_IDLE_SET" THEN e
                   ELSE [e EXCEPT !.x.state = "IDLE", !.s.step = "FAILED_AND_IDLE_SET"],
                   interrupt, late)

\* The end of ioc_streamer_read.
Verdict(d) ==
    IF Status(d.s.step) = "COMPLETED" /\ d.s.sum # impSeen.sig.cs THEN "CHECKSUM_ERROR"
    ELSE Status(d.s.step)

\* osal_program_device or os_persistent_write.
Store(d, badWrite) ==
    CASE d.got = <<>> \/ d.s.kind = "none" -> d
      [] d.got # <<>> /\ d.s.kind # "none" /\ badWrite ->
           [d EXCEPT !.x.err = IF d.s.kind = "block" THEN "WRITING_FILE_FAILED"
                               ELSE "DEVICE_PROGRAMMING_FAILED"]
      [] OTHER -> [d EXCEPT !.s.stored = @ \o d.got]

\* Mutant of ToDeviceEnd: a failed transfer is kept as well.
ToDeviceEndKeeps(d, s) ==
    LET c == IF s = "CHECKSUM_ERROR" THEN [d EXCEPT !.x.err = s] ELSE d
    IN  [c EXCEPT !.s = [NoStore EXCEPT !.poll = d.s.poll \/ (d.s.kind = "program" /\ s = "COMPLETED")],
                  !.x.state = "IDLE", !.x.tail = 0,
                  !.x.err = IF d.s.kind = "block" /\ ~IsError(@) THEN "COMPLETED" ELSE @,
                  !.k = IF d.s.kind = "none" THEN @
                        ELSE [end |-> "kept", bytes |-> d.s.stored, err |-> c.x.err,
                              status |-> IF d.s.kind = "block" THEN "BLOCK_WRITTEN" ELSE @.status]]

\* The end of ioc_ctrl_stream_to_device.
ToDeviceEnd(d, s) ==
    LET c == IF s = "CHECKSUM_ERROR" THEN [d EXCEPT !.x.err = s] ELSE d
    IN  [c EXCEPT !.s = [NoStore EXCEPT !.poll = d.s.poll \/ (d.s.kind = "program" /\ s = "COMPLETED")],
                  !.x.state = "IDLE", !.x.tail = 0,
                  !.x.err = IF d.s.kind = "block" /\ ~IsError(@) THEN "COMPLETED" ELSE @,
                  !.k = IF d.s.kind = "none" THEN @
                        ELSE [end |-> IF s = "COMPLETED" THEN "kept" ELSE "dropped",
                              bytes |-> d.s.stored, err |-> c.x.err,
                              status |-> IF d.s.kind = "block" THEN "BLOCK_WRITTEN" ELSE @.status]]

\* ioc_ctrl_stream_to_device.  A read empties the ring, so that the loop runs
\* at most twice.
ToDevice(d, late, badWrite) ==
    LET interrupt == d.s.kind = "none"
        a == DeviceRead(d, interrupt, late)
        b == Store(a, badWrite)
        failed == a.got # <<>> /\ badWrite /\ d.s.kind = "program"
        c == DeviceRead(b, interrupt, FALSE)
    IN  CASE a.got = <<>> /\ Verdict(a) = "SUCCESS" -> b
          [] failed -> ToDeviceEnd(b, "DEVICE_PROGRAMMING_FAILED")
          [] a.got # <<>> /\ ~failed /\ Verdict(a) = "SUCCESS" ->
               IF Verdict(c) = "SUCCESS" THEN c ELSE ToDeviceEnd(c, Verdict(c))
          [] OTHER -> ToDeviceEnd(b, Verdict(a))

\* ioc_streamer_open, then os_persistent_open or osal_start_device_programming,
\* which may refuse: no block is written, or the stream is closed again.
DeviceOpen(d, kind, refused) ==
    LET o == [d EXCEPT !.x = [state |-> "IDLE", tail |-> 0, err |-> "SUCCESS"],
                       !.s = [NoStore EXCEPT !.open = TRUE, !.kind = kind, !.poll = d.s.poll]]
    IN  CASE ~refused -> o
          [] refused /\ kind = "block" ->
               [o EXCEPT !.s.kind = "none", !.x.err = "NO_ACCESS_RIGHT"]
          [] OTHER -> [o EXCEPT !.s = [NoStore EXCEPT !.poll = d.s.poll],
                                !.x.err = "DEVICE_PROGRAMMING_FAILED"]

\* get_device_programming_status, polled once a program has been passed on.
Polled(d, rval) ==
    IF d.s.poll /\ rval # "PENDING" THEN [d EXCEPT !.x.err = rval, !.s.poll = FALSE] ELSE d

----------------------------------------------------------------------------
(* The controller.  c is [s |-> ctl, x |-> imp].                           *)

state == expSeen.sig.state

\* The rest of the data into the ring, or the mark of a completed transfer.
WriteData(c) ==
    LET rest == SubSeq(Content(selected), c.s.pos + 1, Len(Content(selected)))
        k == WriteCount(c.s.head, expSeen.sig.tail, Len(rest))
        h == (c.s.head + k) % BufSz
    IN  IF rest = <<>>
        THEN [c EXCEPT !.x.cs = c.s.sum, !.x.cmd = "COMPLETED", !.s.step = "TRANSFER_DONE"]
        ELSE [c EXCEPT !.s.head = h, !.x.head = IF k > 0 THEN h ELSE @,
                       !.x.buf = Stored(@, c.s.head, SubSeq(rest, 1, k)),
                       !.s.sum = @ \o SubSeq(rest, 1, k), !.s.pos = @ + k]

TransferOut(c, interrupt) ==
    IF state # "RUNNING" \/ interrupt THEN [c EXCEPT !.s.step = "FAILED"]
    ELSE WriteData([c EXCEPT !.s.step = "TRANSFER_DATA"])

AwaitStart(c, interrupt, late) ==
    CASE interrupt \/ (late /\ state # "RUNNING") -> [c EXCEPT !.s.step = "FAILED"]
      [] ~interrupt /\ state = "RUNNING" -> TransferOut(c, interrupt)
      [] OTHER -> c

\* Mutant of WaitsForDevice: the last acknowledgement is not waited for.
WaitsForNothing(late) == FALSE

WaitsForDevice(late) == state = "RUNNING" /\ ~late

\* ioc_streamer_controller_write.
ControllerWrite(c0, interrupt, late) ==
    LET c == IF expSeen.conn \/ c0.s.step = "FAILED_AND_IDLE_SET" THEN c0
             ELSE [c0 EXCEPT !.x.cmd = "IDLE", !.s.step = "FAILED_AND_IDLE_SET"]
    IN  CASE c.s.step = "INITIALIZED" ->
               [c EXCEPT !.x.sel = selected, !.x.cmd = "RUNNING", !.s.step = "INITIALIZED2"]
          [] c.s.step = "INITIALIZED2" -> AwaitStart(c, interrupt, late)
          [] c.s.step = "TRANSFER_DATA" -> TransferOut(c, interrupt)
          [] c.s.step = "TRANSFER_DONE" ->
               IF WaitsForDevice(late) THEN c ELSE [c EXCEPT !.x.cmd = "IDLE", !.s.step = "ALL_COMPLETED"]
          [] c.s.step = "FAILED" -> [c EXCEPT !.x.cmd = "INTERRUPT", !.s.step = "FAILED2"]
          [] c.s.step = "FAILED2" ->
               IF WaitsForDevice(late) THEN c ELSE [c EXCEPT !.x.cmd = "IDLE", !.s.step = "FAILED_AND_IDLE_SET"]
          [] OTHER -> c

----------------------------------------------------------------------------
(* The calls of the two ends.                                              *)

Device0 == [s |-> dev, x |-> exp, k |-> disk, got |-> <<>>]
Controller0 == [s |-> ctl, x |-> imp]

\* Nothing is under way and neither end goes on without its timer.
AllWait ==
    /\ expLine = <<>> /\ impLine = <<>> /\ exp = expSeen.sig /\ imp = impSeen.sig
    /\ IF dev.open THEN ToDevice(Device0, FALSE, FALSE) = Device0
       ELSE ~(cmd = "RUNNING" /\ impSeen.conn)
    /\ ctl.open => ControllerWrite(Controller0, FALSE, FALSE) = Controller0

\* What a block is written to.
Kind(b) == IF b = FlashProgram THEN "program" ELSE "block"

\* Mutant of OpenBlock: the selection is read at every call.
OpenBlockNow(b) == impSeen.sig.sel

\* The block the device has open in this call; b before it.
OpenBlock(b) == IF ~dev.open /\ cmd = "RUNNING" /\ impSeen.conn THEN impSeen.sig.sel ELSE b

\* ioc_run_control_stream: the selection is read when the transfer starts.
RunControlStream(refused, rval, late, badWrite) ==
    /\ refused => "open" \in env.faults /\ ~dev.open
    /\ rval # "PENDING" => dev.poll
    /\ late => "dev" \in env.late /\ (env.prompt => AllWait)
    /\ badWrite => "write" \in env.faults
    /\ dev.open \/ dev.poll \/ (cmd = "RUNNING" /\ impSeen.conn)
    /\ LET p == Polled([Device0 EXCEPT !.k.status = "NO_BLOCK_TRANSFERRED"], rval)
           b == OpenBlock(opened)
           d == IF ~dev.open /\ cmd = "RUNNING" /\ impSeen.conn
                THEN DeviceOpen(p, Kind(b), refused) ELSE p
           r == IF d.s.open THEN ToDevice(d, late, badWrite) ELSE d
       IN  dev' = r.s /\ exp' = r.x /\ disk' = r.k /\ opened' = b
    /\ UNCHANGED <<ctl, imp, expLine, impLine, expSeen, impSeen, link, selected, env>>

\* Mutant of IdleCommand: the command stays as it is.
StaleCommand == [imp EXCEPT !.head = 0]

\* ioc_streamer_close, and the beginning of ioc_streamer_open.
IdleCommand == [imp EXCEPT !.cmd = "IDLE", !.head = 0]

\* ioc_start_stream_write and the ioc_streamer_open of the first ioc_run_stream.
OpenWrite(b) ==
    /\ ~ctl.open
    /\ ctl' = [NoWriter EXCEPT !.open = TRUE]
    /\ imp' = [IdleCommand EXCEPT !.cs = NoSum]
    /\ selected' = b
    /\ UNCHANGED <<dev, exp, disk, expLine, impLine, expSeen, impSeen, link, opened, env>>

\* ioc_run_stream: ioc_streamer_write until it returns a result.
Write(interrupt, late) ==
    /\ late => "ctl" \in env.late /\ (env.prompt => AllWait)
    /\ interrupt => "interrupt" \in env.faults
    /\ ctl.open /\ ctl.result = "none"
    /\ LET c == ControllerWrite(Controller0, interrupt, late)
           r == CASE Status(c.s.step) = "SUCCESS" -> "none"
                  [] Status(c.s.step) = "COMPLETED" -> "completed"
                  [] OTHER -> "failed"
       IN  ctl' = [c.s EXCEPT !.result = r] /\ imp' = c.x
    /\ UNCHANGED <<dev, exp, disk, expLine, impLine, expSeen, impSeen, link, opened, selected, env>>

\* ioc_release_stream, at the end or (env.faults) in the middle of a transfer.
CloseWrite ==
    /\ ctl.open /\ (ctl.result # "none" \/ "interrupt" \in env.faults)
    /\ ctl' = NoWriter
    /\ imp' = IdleCommand
    /\ UNCHANGED <<dev, exp, disk, expLine, impLine, expSeen, impSeen, link, opened, selected, env>>

----------------------------------------------------------------------------
(* The memory blocks: ioc_send, ioc_receive and the connection.            *)

SendExp ==
    /\ link = "up" /\ Len(expLine) < MaxLine
    /\ exp # (IF expLine = <<>> THEN expSeen.sig ELSE expLine[Len(expLine)])
    /\ expLine' = Append(expLine, exp)
    /\ UNCHANGED <<dev, exp, disk, ctl, imp, impLine, expSeen, impSeen, link, opened, selected, env>>

SendImp ==
    /\ link = "up" /\ Len(impLine) < MaxLine
    /\ imp # (IF impLine = <<>> THEN impSeen.sig ELSE impLine[Len(impLine)])
    /\ impLine' = Append(impLine, imp)
    /\ UNCHANGED <<dev, exp, disk, ctl, imp, expLine, expSeen, impSeen, link, opened, selected, env>>

ReceiveExp ==
    /\ expLine # <<>>
    /\ expSeen' = [sig |-> Head(expLine), conn |-> TRUE]
    /\ expLine' = Tail(expLine)
    /\ UNCHANGED <<dev, exp, disk, ctl, imp, impLine, impSeen, link, opened, selected, env>>

ReceiveImp ==
    /\ impLine # <<>>
    /\ impSeen' = [sig |-> Head(impLine), conn |-> TRUE]
    /\ impLine' = Tail(impLine)
    /\ UNCHANGED <<dev, exp, disk, ctl, imp, expLine, expSeen, link, opened, selected, env>>

Break ==
    /\ link = "up" /\ "break" \in env.faults
    /\ link' = "down" /\ expLine' = <<>> /\ impLine' = <<>>
    /\ UNCHANGED <<dev, exp, disk, ctl, imp, expSeen, impSeen, opened, selected, env>>

Notice ==
    /\ link = "down"
    /\ \/ expSeen.conn /\ expSeen' = [expSeen EXCEPT !.conn = FALSE] /\ UNCHANGED impSeen
       \/ impSeen.conn /\ impSeen' = [impSeen EXCEPT !.conn = FALSE] /\ UNCHANGED expSeen
    /\ UNCHANGED <<dev, exp, disk, ctl, imp, expLine, impLine, link, opened, selected, env>>

Relink ==
    /\ link = "down" /\ ~expSeen.conn /\ ~impSeen.conn
    /\ link' = "up" /\ expLine' = <<exp>> /\ impLine' = <<imp>>
    /\ UNCHANGED <<dev, exp, disk, ctl, imp, expSeen, impSeen, opened, selected, env>>

Device ==
    \E rval \in {"PENDING", "COMPLETED", "DEVICE_PROGRAMMING_FAILED"},
       refused, late, badWrite \in BOOLEAN :
          RunControlStream(refused, rval, late, badWrite)
Controller == \E interrupt, late \in BOOLEAN : Write(interrupt, late)
Open == \E b \in env.blocks : OpenWrite(b)
Blocks == SendExp \/ SendImp \/ ReceiveExp \/ ReceiveImp

Next == Device \/ Controller \/ Open \/ CloseWrite \/ Blocks \/ Break \/ Notice \/ Relink

Spec == Init /\ [][Next]_vars

\* As in StreamerFrd; the application releases a stream that has a result.
DeviceCan(late) ==
    /\ late => "dev" \in env.late /\ (env.prompt => AllWait)
    /\ IF dev.open THEN ToDevice(Device0, late, FALSE) # Device0
       ELSE dev.poll \/ (cmd = "RUNNING" /\ impSeen.conn)
ControllerCan(late) ==
    /\ late => "ctl" \in env.late /\ (env.prompt => AllWait)
    /\ ctl.open /\ ctl.result = "none"
    /\ ControllerWrite(Controller0, FALSE, late) # Controller0

DeviceCalled(late) ==
    \E refused \in BOOLEAN :
        RunControlStream(refused, IF dev.poll THEN "COMPLETED" ELSE "PENDING", late, FALSE)
ControllerCalled(late) == Write(FALSE, late)

Fairness ==
    /\ []<>(~DeviceCan(FALSE)) \/ []<><<DeviceCalled(FALSE)>>_vars
    /\ []<>(~ControllerCan(FALSE)) \/ []<><<ControllerCalled(FALSE)>>_vars
    /\ <>[](~DeviceCan(TRUE)) \/ []<><<DeviceCalled(TRUE)>>_vars
    /\ <>[](~ControllerCan(TRUE)) \/ []<><<ControllerCalled(TRUE)>>_vars
    /\ WF_vars(ctl.result # "none" /\ CloseWrite)
    /\ WF_vars(SendExp) /\ WF_vars(SendImp) /\ WF_vars(ReceiveExp) /\ WF_vars(ReceiveImp)
    /\ WF_vars(Notice) /\ WF_vars(Relink)

----------------------------------------------------------------------------
Undisturbed == env.late = {} /\ env.faults = {}

\* Storage is finished normally (os_persistent_close without
\* OSAL_STREAM_INTERRUPT, osal_finish_device_programming) only for what the
\* controller sent of one block in one transfer, whole.  A block with a failed
\* write has its error shown, unless get_device_programming_status, polled in
\* the middle of the block for a program sent before, has replaced it.  Where
\* something disturbs a transfer it may be the content of one block that is
\* stored as another: the device reads "select" only when it opens a block,
\* and if the controller releases the stream and sends another block before
\* IOC_STREAM_IDLE is sent, the device goes on with the first.
KeptIsWhole ==
    disk.end = "kept" =>
        \/ \E b \in Block : disk.bytes = Content(b)
        \/ disk.err \in {"WRITING_FILE_FAILED", "COMPLETED", "DEVICE_PROGRAMMING_FAILED"}

\* The bytes of an open transfer are a beginning of what the controller has
\* for this block, also when the device came into it late or saw a snapshot of
\* the transfer before.
StoredIsBeginning ==
    Undisturbed /\ exp.err # "WRITING_FILE_FAILED" =>
        dev.stored = SubSeq(Content(opened), 1, Len(dev.stored))

\* Without faults ioc_streamer_write returns OSAL_COMPLETED only when the
\* device has stored all, as the block the application asked for.
CompletedIsKept ==
    Undisturbed /\ ctl.result = "completed" =>
        disk.end = "kept" /\ disk.bytes = Content(selected) /\ opened = selected

\* Where timers run out, a transfer ends at the controller, whatever fails,
\* and once the application starts no more transfers the device comes to rest
\* and shows IOC_STREAM_IDLE: no old command makes it start again.
TransfersEnd ==
    env.late = {"dev", "ctl"} =>
        /\ ctl.open ~> ~ctl.open
        /\ <>[](~ctl.open) => <>[](~dev.open /\ exp.state = "IDLE")
=============================================================================
