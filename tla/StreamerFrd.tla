---------------------------- MODULE StreamerFrd -----------------------------
(***************************************************************************)
(* Transfer of a block from an IO device to a controller through a ring in *)
(* a memory block ("frd"): ioc_streamer_device_write, driven by the        *)
(* device's control stream, and ioc_streamer_controller_read, driven by an *)
(* application.  The signals of each end travel in a memory block as whole *)
(* snapshots in order, as in SnapshotChannel; each end acts on the         *)
(* snapshot it received last.                                              *)
(*                                                                         *)
(* A checksum is the sequence of the bytes it was computed of.  A timer    *)
(* that has run out is the parameter "late" of a call.                     *)
(***************************************************************************)
EXTENDS StreamerRing

CONSTANTS Block,         \* values of the select signal; 0 before it is first set
          Defaults,      \* OS_PBNR_DEFAULTS
          MaxLine,       \* snapshots of one direction under way
          Environments   \* the circumstances a behaviour may have, see below

\* An environment: the content of each persistent block, a sequence of bytes;
\* the buffer sizes the controller's application reads with; the ends whose
\* timers may run out, and whether only when nothing else can happen; what may
\* go wrong.
ASSUME StreamerFrdAssumption ==
    /\ MaxLine \in Nat \ {0} /\ 0 \in Block
    /\ \A v \in Environments :
          /\ v.content \in [Block -> Seq(Nat)] /\ v.sizes \subseteq Nat \ {0}
          /\ v.late \subseteq {"dev", "ctl"} /\ v.prompt \in BOOLEAN
          /\ v.faults \subseteq {"read", "open", "interrupt", "break"}

VARIABLES dev,      \* device: iocStreamer and iocControlStreamState
          exp,      \* device's signals
          ctl,      \* controller: iocStreamer and its application
          imp,      \* controller's signals
          expLine,  \* snapshots of exp on the way to the controller
          impLine,  \* snapshots of imp on the way to the device
          expSeen,  \* the controller's copy of exp, and its CONNECTED bit
          impSeen,  \* the device's copy of imp, and its CONNECTED bit
          link,     \* whether the connection is up
          opened,   \* the block the device has open, or had open last
          selected, \* the block the controller's application asks for
          env       \* the environment of this behaviour

vars == <<dev, exp, ctl, imp, expLine, impLine, expSeen, impSeen, link, opened, selected, env>>

Content(b) == env.content[b]

Going == {"RUNNING", "COMPLETED"}

\* Zero in the checksum signal, which is not the checksum of no data.
NoSum == <<-1>>

\* The value a call of read or write returns for a step.
Status(step) ==
    CASE step = "ALL_COMPLETED" -> "COMPLETED"
      [] step \in {"INITIALIZED", "FAILED_AND_IDLE_SET"} -> "ERROR"
      [] OTHER -> "SUCCESS"

NoFile == [open |-> FALSE, step |-> "INITIALIZED", head |-> 0, sum |-> <<>>,
           pos |-> 0, file |-> "none", ok |-> FALSE]
NoReader == [open |-> FALSE, step |-> "INITIALIZED", tail |-> 0, sum |-> <<>>,
             result |-> "none"]
NoCommand == [cmd |-> "IDLE", tail |-> 0, sel |-> 0]

Init ==
    /\ dev = NoFile
    /\ exp = [state |-> "IDLE", head |-> 0, cs |-> NoSum,
              buf |-> [i \in Position |-> 0], err |-> "SUCCESS"]
    /\ ctl = NoReader
    /\ imp = NoCommand
    /\ expLine = <<>> /\ impLine = <<>>
    /\ expSeen = [sig |-> exp, conn |-> TRUE]
    /\ impSeen = [sig |-> imp, conn |-> TRUE]
    /\ link = "up"
    /\ opened = 0 /\ selected = 0
    /\ env \in Environments

----------------------------------------------------------------------------
(* The device.  d is [s |-> dev, x |-> exp].                               *)

cmd == impSeen.sig.cmd

SetError(d, e) == [d EXCEPT !.x.err = e]

\* Bytes to the ring, or the mark of a completed transfer (n = -1).
WriteData(d, bytes, done, late) ==
    LET k == WriteCount(d.s.head, impSeen.sig.tail, Len(bytes))
        h == (d.s.head + k) % BufSz
    IN  CASE k > 0 -> [d EXCEPT !.s.head = h, !.x.head = h,
                                !.x.buf = Stored(@, d.s.head, SubSeq(bytes, 1, k)),
                                !.s.sum = @ \o SubSeq(bytes, 1, k)]
          [] k = 0 /\ done -> [d EXCEPT !.x.cs = d.s.sum, !.x.state = "COMPLETED",
                                        !.s.step = "TRANSFER_DONE"]
          [] k = 0 /\ ~done -> IF late THEN [d EXCEPT !.s.step = "FAILED"] ELSE d

TransferData(d, bytes, done, interrupt, late) ==
    IF cmd \notin Going \/ interrupt THEN [d EXCEPT !.s.step = "FAILED"]
    ELSE WriteData(d, bytes, done, late)

\* The other end still shows the transfer and the timer has not run out.
DeviceWaits(late) == cmd = "RUNNING" /\ impSeen.conn /\ ~late

\* ioc_streamer_device_write.
DeviceWrite(d0, bytes, done, interrupt, late) ==
    LET d == IF impSeen.conn \/ d0.s.step = "FAILED_AND_IDLE_SET" THEN d0
             ELSE [d0 EXCEPT !.x.state = "IDLE", !.s.step = "FAILED_AND_IDLE_SET"]
        idle == [d EXCEPT !.x.state = "IDLE", !.x.head = 0]
    IN  CASE d.s.step = "INITIALIZED" ->
               IF cmd \notin Going THEN [d EXCEPT !.s.step = "FAILED"]
               ELSE TransferData([d EXCEPT !.x.state = "RUNNING",
                                           !.s.step = "TRANSFER_DATA"],
                                 bytes, done, interrupt, late)
          [] d.s.step = "TRANSFER_DATA" -> TransferData(d, bytes, done, interrupt, late)
          [] d.s.step = "TRANSFER_DONE" ->
               IF DeviceWaits(late) THEN d ELSE [idle EXCEPT !.s.step = "ALL_COMPLETED"]
          [] d.s.step = "FAILED" -> [d EXCEPT !.x.state = "INTERRUPT", !.s.step = "FAILED2"]
          [] d.s.step = "FAILED2" ->
               IF DeviceWaits(late) THEN d
               ELSE [idle EXCEPT !.s.step = "FAILED_AND_IDLE_SET"]
          [] OTHER -> d

\* ioc_streamer_close, after the last error code is set.
DeviceClose(d) ==
    [s |-> NoFile,
     x |-> [d.x EXCEPT !.state = "IDLE", !.head = 0,
                       !.err = IF @ \in {"SUCCESS", "COMPLETED"} THEN "COMPLETED" ELSE @]]

\* End of ioc_ctrl_stream_from_device: ioc_streamer_flush, close unless pending.
\* transferring_default_config stays set, so default data is "read" again.
Finish(d, late) ==
    LET e == IF d.s.ok THEN d ELSE SetError(d, "READING_FILE_FAILED")
        f == DeviceWrite([e EXCEPT !.s.file = IF @ = "defaults" THEN @ ELSE "none"], <<>>, TRUE, ~d.s.ok, late)
    IN  IF Status(f.s.step) = "SUCCESS" THEN f ELSE DeviceClose(f)

\* Mutant of PassOn: data that fills the ring is taken for the last.
PassOnOnce(d, bytes, n, late) ==
    LET k == LesserOf(n, Len(bytes) - d.s.pos)
        w == IF k = 0 THEN d
             ELSE DeviceWrite(d, SubSeq(bytes, d.s.pos + 1, d.s.pos + k), FALSE, FALSE, late)
        success == k = 0 \/ Status(w.s.step) = "SUCCESS"
        v == [w EXCEPT !.s.pos = @ + k]
    IN  IF k <= n \/ ~success THEN Finish(v, late) ELSE v

\* The next bytes of the open block to a ring with room for n.
PassOn(d, bytes, n, late) ==
    LET k == LesserOf(n, Len(bytes) - d.s.pos)
        w == IF k = 0 THEN d
             ELSE DeviceWrite(d, SubSeq(bytes, d.s.pos + 1, d.s.pos + k), FALSE, FALSE, late)
        success == k = 0 \/ Status(w.s.step) = "SUCCESS"
        v == [w EXCEPT !.s.pos = @ + k]
    IN  IF k < n \/ ~success THEN Finish(v, late) ELSE v

\* Mutant of WaitForSpace: without a timer.
WaitForSpaceForever(d, late) == d

WaitForSpace(d, late) == IF late THEN Finish(SetError(d, "TIMEOUT"), late) ELSE d

\* ioc_ctrl_stream_from_device, with the bytes of the open block.
FromDevice(d, bytes, late, badRead) ==
    LET n == IF impSeen.conn THEN TxAvailable(d.s.head, impSeen.sig.tail) ELSE -1
    IN  CASE d.s.file = "none" -> Finish(d, late)
          [] d.s.file # "none" /\ n <= 0 -> WaitForSpace(d, late)
          [] d.s.file # "none" /\ n > 0 /\ badRead -> Finish([d EXCEPT !.s.ok = FALSE], late)
          [] OTHER -> PassOn(d, bytes, n, late)

\* What block b is opened as: a persistent block, the default network
\* configuration, or a block that could not be opened.
FileOf(b, found) ==
    CASE b = Defaults -> "defaults"
      [] b # Defaults /\ found -> "block"
      [] OTHER -> "none"

\* ioc_streamer_open and os_persistent_open.
DeviceOpen(file) ==
    [s |-> [NoFile EXCEPT !.open = TRUE, !.file = file, !.ok = file # "none"],
     x |-> [exp EXCEPT !.state = "IDLE", !.head = 0, !.cs = NoSum,
                       !.err = IF file # "none" THEN "SUCCESS" ELSE "READING_FILE_FAILED"]]

----------------------------------------------------------------------------
(* The controller.  c is [s |-> ctl, x |-> imp].                           *)

state == expSeen.sig.state

\* What the ring holds, at most n bytes.
ReadData(c, n, late) ==
    LET k == ReadCount(expSeen.sig.head, c.s.tail, n)
        t == (c.s.tail + k) % BufSz
        d == [c EXCEPT !.s.tail = t, !.x.tail = IF k > 0 THEN t ELSE @,
                       !.s.sum = @ \o Fetched(expSeen.sig.buf, c.s.tail, k)]
    IN  CASE state = "RUNNING" /\ k = 0 /\ late -> [d EXCEPT !.s.step = "FAILED"]
          [] state = "RUNNING" /\ ~(k = 0 /\ late) -> d
          [] OTHER -> [d EXCEPT !.x.cmd = "IDLE", !.s.step = "TRANSFER_DONE2"]

\* Mutant of ControllerWaits: it does not wait for the device.
ControllerDoesNotWait(states, late) == FALSE

ControllerWaits(states, late) == state \in states /\ ~late

AwaitStart(c, late) ==
    CASE state \in Going -> [c EXCEPT !.s.step = "TRANSFER_DATA"]
      [] state \notin Going /\ late -> [c EXCEPT !.s.step = "FAILED"]
      [] OTHER -> c

\* ioc_streamer_controller_read.
ControllerRead(c0, n, interrupt, late) ==
    LET c == IF expSeen.conn \/ c0.s.step = "FAILED_AND_IDLE_SET" THEN c0
             ELSE [c0 EXCEPT !.x.cmd = "IDLE", !.s.step = "FAILED_AND_IDLE_SET"]
    IN  CASE c.s.step = "INITIALIZED" ->
               [c EXCEPT !.x.sel = selected, !.x.cmd = "RUNNING", !.s.step = "INITIALIZED2"]
          [] c.s.step = "INITIALIZED2" -> AwaitStart(c, late)
          [] c.s.step = "TRANSFER_DATA" ->
               IF state \notin Going \/ interrupt THEN [c EXCEPT !.s.step = "FAILED"]
               ELSE ReadData(c, n, late)
          [] c.s.step = "TRANSFER_DONE2" ->
               IF ControllerWaits(Going, late) THEN c
               ELSE [c EXCEPT !.s.step = "ALL_COMPLETED", !.x.tail = 0]
          [] c.s.step = "FAILED" -> [c EXCEPT !.x.cmd = "IDLE", !.s.step = "FAILED2"]
          [] c.s.step = "FAILED2" ->
               IF ControllerWaits({"RUNNING"}, late) THEN c
               ELSE [c EXCEPT !.s.step = "FAILED_AND_IDLE_SET"]
          [] OTHER -> c

----------------------------------------------------------------------------
(* The calls of the two ends.                                              *)

Device0 == [s |-> dev, x |-> exp]
Controller0 == [s |-> ctl, x |-> imp]

\* Nothing is under way and neither end goes on without its timer.
AllWait ==
    /\ expLine = <<>> /\ impLine = <<>> /\ exp = expSeen.sig /\ imp = impSeen.sig
    /\ dev.open => FromDevice(Device0, Content(opened), FALSE, FALSE) = Device0
    /\ ctl.open => \A n \in env.sizes :
          ControllerRead(Controller0, n, FALSE, FALSE) = Controller0

\* Mutant of OpenBlock: the selection is read at every call.
OpenBlockNow(b) == impSeen.sig.sel

\* The block the device has open in this call; b before it.
OpenBlock(b) == IF dev.open THEN b ELSE impSeen.sig.sel

\* ioc_run_control_stream: the selection is read when the transfer starts.
RunControlStream(found, late, badRead) ==
    /\ ~found => "open" \in env.faults
    /\ late => "dev" \in env.late /\ (env.prompt => AllWait)
    /\ badRead => "read" \in env.faults
    /\ dev.open \/ (cmd = "RUNNING" /\ impSeen.conn)
    /\ LET b == OpenBlock(opened)
           d == IF dev.open THEN Device0 ELSE DeviceOpen(FileOf(b, found))
           r == FromDevice(d, Content(b), late, badRead)
       IN  dev' = r.s /\ exp' = r.x /\ opened' = b
    /\ UNCHANGED <<ctl, imp, expLine, impLine, expSeen, impSeen, link, selected, env>>

\* ioc_streamer_close, and the beginning of ioc_streamer_open.
IdleCommand == [imp EXCEPT !.cmd = "IDLE", !.tail = 0]

\* ioc_start_stream_read and the ioc_streamer_open of the first ioc_run_stream.
OpenRead(b) ==
    /\ ~ctl.open
    /\ ctl' = [NoReader EXCEPT !.open = TRUE]
    /\ imp' = IdleCommand
    /\ selected' = b
    /\ UNCHANGED <<dev, exp, expLine, impLine, expSeen, impSeen, link, opened, env>>

\* ioc_run_stream: ioc_streamer_read, which compares the checksum when all is
\* there; the stream is closed as soon as there is a result.
Read(n, interrupt, late) ==
    /\ late => "ctl" \in env.late /\ (env.prompt => AllWait)
    /\ interrupt => "interrupt" \in env.faults
    /\ ctl.open
    /\ LET c == ControllerRead(Controller0, n, interrupt, late)
           r == CASE Status(c.s.step) = "SUCCESS" -> "none"
                  [] Status(c.s.step) = "ERROR" -> "failed"
                  [] OTHER -> IF c.s.sum = expSeen.sig.cs THEN "completed" ELSE "failed"
       IN  /\ ctl' = [c.s EXCEPT !.result = r, !.open = r = "none"]
           /\ imp' = IF r = "none" THEN c.x ELSE IdleCommand
    /\ UNCHANGED <<dev, exp, expLine, impLine, expSeen, impSeen, link, opened, selected, env>>

\* ioc_release_stream in the middle of a transfer.
CloseRead ==
    /\ ctl.open /\ "interrupt" \in env.faults
    /\ ctl' = NoReader
    /\ imp' = IdleCommand
    /\ UNCHANGED <<dev, exp, expLine, impLine, expSeen, impSeen, link, opened, selected, env>>

----------------------------------------------------------------------------
(* The memory blocks: ioc_send, ioc_receive and the connection.            *)

SendExp ==
    /\ link = "up" /\ Len(expLine) < MaxLine
    /\ exp # (IF expLine = <<>> THEN expSeen.sig ELSE expLine[Len(expLine)])
    /\ expLine' = Append(expLine, exp)
    /\ UNCHANGED <<dev, exp, ctl, imp, impLine, expSeen, impSeen, link, opened, selected, env>>

SendImp ==
    /\ link = "up" /\ Len(impLine) < MaxLine
    /\ imp # (IF impLine = <<>> THEN impSeen.sig ELSE impLine[Len(impLine)])
    /\ impLine' = Append(impLine, imp)
    /\ UNCHANGED <<dev, exp, ctl, imp, expLine, expSeen, impSeen, link, opened, selected, env>>

ReceiveExp ==
    /\ expLine # <<>>
    /\ expSeen' = [sig |-> Head(expLine), conn |-> TRUE]
    /\ expLine' = Tail(expLine)
    /\ UNCHANGED <<dev, exp, ctl, imp, impLine, impSeen, link, opened, selected, env>>

ReceiveImp ==
    /\ impLine # <<>>
    /\ impSeen' = [sig |-> Head(impLine), conn |-> TRUE]
    /\ impLine' = Tail(impLine)
    /\ UNCHANGED <<dev, exp, ctl, imp, expLine, expSeen, link, opened, selected, env>>

Break ==
    /\ link = "up" /\ "break" \in env.faults
    /\ link' = "down" /\ expLine' = <<>> /\ impLine' = <<>>
    /\ UNCHANGED <<dev, exp, ctl, imp, expSeen, impSeen, opened, selected, env>>

\* ioc_tbuf_disconnect_signals at either end.
Notice ==
    /\ link = "down"
    /\ \/ expSeen.conn /\ expSeen' = [expSeen EXCEPT !.conn = FALSE] /\ UNCHANGED impSeen
       \/ impSeen.conn /\ impSeen' = [impSeen EXCEPT !.conn = FALSE] /\ UNCHANGED expSeen
    /\ UNCHANGED <<dev, exp, ctl, imp, expLine, impLine, link, opened, selected, env>>

\* Linked again: each end starts with a key frame.
Relink ==
    /\ link = "down" /\ ~expSeen.conn /\ ~impSeen.conn
    /\ link' = "up" /\ expLine' = <<exp>> /\ impLine' = <<imp>>
    /\ UNCHANGED <<dev, exp, ctl, imp, expSeen, impSeen, opened, selected, env>>

Device == \E found, late, badRead \in BOOLEAN : RunControlStream(found, late, badRead)
Controller == \E n \in env.sizes, interrupt, late \in BOOLEAN : Read(n, interrupt, late)
Open == \E b \in Block \ {0} : OpenRead(b)
Blocks == SendExp \/ SendImp \/ ReceiveExp \/ ReceiveImp

Next == Device \/ Controller \/ Open \/ CloseRead \/ Blocks \/ Break \/ Notice \/ Relink

Spec == Init /\ [][Next]_vars

\* The device runs its control stream in its main loop and the application
\* calls ioc_run_stream until it gets a result; both go on for ever, so that a
\* timer that is waited for runs out.  The memory blocks are sent and received
\* by the connection's own thread.  Can tells when a call would change
\* something; fairness is weak for a call, strong for one whose timer has run
\* out, since a timer goes on when the other end's runs out first.
DeviceCan(late) ==
    /\ late => "dev" \in env.late /\ (env.prompt => AllWait)
    /\ IF dev.open THEN FromDevice(Device0, Content(opened), late, FALSE) # Device0
       ELSE cmd = "RUNNING" /\ impSeen.conn
ControllerCan(late) ==
    /\ late => "ctl" \in env.late /\ (env.prompt => AllWait)
    /\ ctl.open
    /\ \E n \in env.sizes : ControllerRead(Controller0, n, FALSE, late) # Controller0

DeviceCalled(late) == RunControlStream(TRUE, late, FALSE)
ControllerCalled(late) == \E n \in env.sizes : Read(n, FALSE, late)

Fairness ==
    /\ []<>(~DeviceCan(FALSE)) \/ []<><<DeviceCalled(FALSE)>>_vars
    /\ []<>(~ControllerCan(FALSE)) \/ []<><<ControllerCalled(FALSE)>>_vars
    /\ <>[](~DeviceCan(TRUE)) \/ []<><<DeviceCalled(TRUE)>>_vars
    /\ <>[](~ControllerCan(TRUE)) \/ []<><<ControllerCalled(TRUE)>>_vars
    /\ WF_vars(SendExp) /\ WF_vars(SendImp) /\ WF_vars(ReceiveExp) /\ WF_vars(ReceiveImp)
    /\ WF_vars(Notice) /\ WF_vars(Relink)

----------------------------------------------------------------------------
Undisturbed == env.late = {} /\ env.faults = {}

\* When ioc_streamer_read of the controller says OSAL_COMPLETED, the bytes
\* it returned are a whole persistent block, whatever is left over of an
\* earlier transfer in either memory block.  It is the block asked for where
\* nothing disturbs a transfer.  Elsewhere it may be another one: the device
\* reads "select" only when it opens a block, and if the controller releases
\* the stream and asks for another block before IOC_STREAM_IDLE is sent, the
\* device goes on with the first.
CompletedIsWhole ==
    ctl.result = "completed" =>
        /\ \E b \in Block : ctl.sum = Content(b)
        /\ Undisturbed => ctl.sum = Content(selected)

\* While both ends are in the data phase of an undisturbed transfer, the
\* bytes taken by the controller and the bytes in the ring from its tail to
\* the device's head are together all that the device has put there: nothing
\* is overwritten, skipped or read twice, however old the positions are that
\* each end has of the other one.
RingHoldsUnread ==
    Undisturbed /\ dev.open /\ {dev.step, ctl.step} = {"TRANSFER_DATA"} =>
        ctl.sum \o Fetched(exp.buf, ctl.tail, (dev.head - ctl.tail) % BufSz) = dev.sum

\* Without faults and timeouts no transfer fails, if the application's buffers
\* take all that the ring can hold: no snapshot of the other end is too old or
\* too new for the step this end is in.  (With a smaller buffer the bytes that
\* are left in the ring when COMPLETED is seen are never read.)
CleanTransferSucceeds ==
    Undisturbed /\ (\A n \in env.sizes : n >= BufSz - 1) => ctl.result # "failed"

\* Where timers run out, a transfer ends at both ends, whatever fails: no wait
\* for the other end's signals is without a way out.
TransfersEnd ==
    env.late = {"dev", "ctl"} => (ctl.open ~> ~ctl.open) /\ (dev.open ~> ~dev.open)
=============================================================================
