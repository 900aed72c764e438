------------------------------- MODULE Brick -------------------------------
(***************************************************************************)
(* The flat brick buffer (code/ioc_brick.c): a camera at the device stores *)
(* a picture, its size, its checksum and a frame count in the device's     *)
(* exported memory block; the controller asks for bricks by counting up a  *)
(* command in the block that travels the other way and takes a brick when  *)
(* the frame count it sees has changed.  The two blocks are carried as     *)
(* SnapshotChannel promises: whole snapshots, in order, lost with the      *)
(* connection.  A brick is named <<epoch, frame count>>, the epoch being   *)
(* the number of times the device has started.                             *)
(***************************************************************************)
EXTENDS Naturals, Sequences

CONSTANTS FrameCounts,  \* last value of flat_frame_count (65535 in the code)
          CmdCounts,    \* number of values of the command other than zero
          MaxEvents     \* bound: connections lost, restarts, and calls of
                        \* ioc_brick_set_receive, together

ASSUME BrickAssumption == /\ FrameCounts \in Nat /\ FrameCounts >= 3
                          /\ CmdCounts \in Nat /\ CmdCounts >= 2
                          /\ MaxEvents \in Nat

VARIABLES
  dev,   \* the device: its two blocks and its iocBrickBuffer
  ctl,   \* the controller: its two blocks and its iocBrickBuffer
  link,  \* are the blocks linked to each other, with target buffers
  wire,  \* snapshots on their way, at most one in each direction
  events \* how many bounded events have happened

vars == <<dev, ctl, link, wire, events>>

NoBrick == <<0, 0>>

\* rec_state, rec_buf, and rec_head with rec_cs and the brick header, which
\* are written together.  conn is the CONNECTED bit of rec_state.
EmptyExp == [state |-> 0, conn |-> FALSE, buf |-> NoBrick, head |-> NoBrick]

\* rec_cmd with its CONNECTED bit.
EmptyImp == [cmd |-> 0, conn |-> FALSE]

NewDevice(epoch) ==
  [exp |-> EmptyExp, imp |-> EmptyImp, storing |-> FALSE, epoch |-> epoch,
   frame |-> 0, prev |-> 0, ready |-> FALSE, connected |-> FALSE]

NewController ==
  [exp |-> EmptyExp, imp |-> EmptyImp, enabled |-> TRUE, connected |-> FALSE,
   prevState |-> 0, prevEpoch |-> 0, status |-> "success"]

Quiet == [toDev |-> <<>>, toCtl |-> <<>>]

Init == /\ dev = NewDevice(1)
        /\ ctl = NewController
        /\ link = FALSE
        /\ wire = Quiet
        /\ events = 0

\* Both counters pass over zero, which means "no brick" and "no request".
NextFrame(n) == (n % FrameCounts) + 1
NextCmd(n) == (n % CmdCounts) + 1
-----------------------------------------------------------------------------
(* The device.                                                             *)

\* The camera callback: a photo is stored when the buffer is ready and
\* someone has asked for it.  ioc_compress_brick takes the lock and moves the
\* picture first.  The frame count does not come round to a value the
\* controller has not moved on from: with 65535 values the controller would
\* have to sleep for more than half an hour of thirty frames a second.
NotLapped == \/ NextFrame(dev.frame) # ctl.prevState
             \/ ctl.prevEpoch # dev.epoch

StorePicture ==
  /\ dev.ready /\ dev.connected /\ ~dev.storing
  /\ NotLapped
  /\ dev' = [dev EXCEPT !.storing = TRUE,
                        !.exp.buf = <<dev.epoch, NextFrame(dev.frame)>>]
  /\ UNCHANGED <<ctl, link, wire, events>>

\* Checksum, header, size, and last the frame count; then the lock is given
\* back.
StoreFrameCount ==
  /\ dev.storing
  /\ LET n == NextFrame(dev.frame)
     IN  dev' = [dev EXCEPT !.storing = FALSE, !.frame = n,
                            !.exp = [state |-> n, conn |-> TRUE, buf |-> @.buf,
                                     head |-> <<dev.epoch, n>>]]
  /\ UNCHANGED <<ctl, link, wire, events>>

\* Somebody is there, and counts up the command.
Heard == link /\ dev.imp.conn
NewRequest == Heard /\ dev.imp.cmd # 0 /\ dev.imp.cmd # dev.prev

\* Mutant of StaysConnected: the timer is not looked at.
ConnectedForEver(elapsed) == Heard /\ dev.connected

\* Is flat_connected still set when ten seconds may have passed since the
\* last request?
StaysConnected(elapsed) == Heard /\ dev.connected /\ ~elapsed

\* ioc_run_brick_send, called from the device's loop.
RunBrickSend(elapsed) ==
  /\ ~dev.storing
  /\ dev' = [dev EXCEPT !.prev = dev.imp.cmd,
                        !.ready = NewRequest \/ (Heard /\ @),
                        !.connected = NewRequest \/ StaysConnected(elapsed),
                        !.exp.conn = TRUE]
  /\ UNCHANGED <<ctl, link, wire, events>>

\* Mutant of MaySync: the lock is not waited for.
MaySyncAnyTime == TRUE

\* ioc_send takes its snapshot under the lock.
MaySync == ~dev.storing

DeviceSends ==
  /\ link
  /\ MaySync
  /\ wire.toCtl = <<>> /\ ctl.exp # dev.exp
  /\ wire' = [wire EXCEPT !.toCtl = <<dev.exp>>]
  /\ UNCHANGED <<dev, ctl, link, events>>

DeviceReceives ==
  /\ wire.toDev # <<>>
  /\ dev' = [dev EXCEPT !.imp = Head(wire.toDev)]
  /\ wire' = [wire EXCEPT !.toDev = <<>>]
  /\ UNCHANGED <<ctl, link, events>>
-----------------------------------------------------------------------------
(* The controller.                                                         *)

ControllerSends ==
  /\ link
  /\ wire.toDev = <<>> /\ ctl.imp # dev.imp
  /\ wire' = [wire EXCEPT !.toDev = <<ctl.imp>>]
  /\ UNCHANGED <<dev, ctl, link, events>>

ControllerReceives ==
  /\ wire.toCtl # <<>>
  /\ ctl' = [ctl EXCEPT !.exp = Head(wire.toCtl)]
  /\ wire' = [wire EXCEPT !.toCtl = <<>>]
  /\ UNCHANGED <<dev, link, events>>

\* ioc_run_brick_receive when receiving is not enabled, or there is no
\* connection: the request is taken back once.
Receivable == ctl.enabled /\ link /\ ctl.exp.conn

StopAsking ==
  /\ ~Receivable
  /\ ctl' = [ctl EXCEPT !.imp = IF ctl.connected
                                THEN [cmd |-> 0, conn |-> TRUE] ELSE @,
                        !.connected = FALSE,
                        !.status = "success"]
  /\ UNCHANGED <<dev, link, wire, events>>

\* ioc_process_flat_brick_data: size, header and checksum must fit the data.
Fits(e) == e.head # NoBrick /\ e.head = e.buf

Outcome(e, seen) ==
  IF e.state = seen \/ e.state = 0 THEN "success"
  ELSE IF Fits(e) THEN "completed" ELSE "failed"

\* Mutant of TimeToAsk: a request is not repeated.
AskOnChange(elapsed) == ~ctl.connected \/ ctl.exp.state # ctl.prevState

\* Time to ask: at first, after three seconds, or when the count has changed.
TimeToAsk(elapsed) == ~ctl.connected \/ elapsed \/ ctl.exp.state # ctl.prevState

\* The request counts on from the command signal: prev_cmd is read from it
\* when asking begins and written to it each time after that.
RequestAfter == NextCmd(ctl.imp.cmd)

\* Three seconds are longer than a request takes to the device.
Settled == dev.imp = ctl.imp /\ dev.prev = ctl.imp.cmd

RunBrickReceive(elapsed) ==
  /\ Receivable
  /\ elapsed => Settled
  /\ ctl' = IF TimeToAsk(elapsed)
            THEN [ctl EXCEPT !.status = Outcome(ctl.exp, ctl.prevState),
                             !.prevState = ctl.exp.state,
                             !.prevEpoch = ctl.exp.head[1],
                             !.connected = TRUE,
                             !.imp = [cmd |-> RequestAfter, conn |-> TRUE]]
            ELSE [ctl EXCEPT !.status = "success"]
  /\ UNCHANGED <<dev, link, wire, events>>

\* ioc_brick_set_receive.
SetReceive ==
  /\ events < MaxEvents
  /\ ctl' = [ctl EXCEPT !.enabled = ~@]
  /\ events' = events + 1
  /\ UNCHANGED <<dev, link, wire>>
-----------------------------------------------------------------------------
(* Connections and restarts.  A block keeps its last value when its target *)
(* buffer is released.                                                     *)

Establish ==
  /\ ~link
  /\ link' = TRUE
  /\ UNCHANGED <<dev, ctl, wire, events>>

Break ==
  /\ events < MaxEvents
  /\ link
  /\ link' = FALSE /\ wire' = Quiet
  /\ events' = events + 1
  /\ UNCHANGED <<dev, ctl>>

RestartOf(d, c) ==
  /\ events < MaxEvents
  /\ dev' = d /\ ctl' = c
  /\ link' = FALSE /\ wire' = Quiet
  /\ events' = events + 1

RestartDevice == RestartOf(NewDevice(dev.epoch + 1), ctl)
RestartController == RestartOf(dev, NewController)

Next == \/ StorePicture \/ StoreFrameCount
        \/ \E elapsed \in BOOLEAN : RunBrickSend(elapsed)
        \/ DeviceSends \/ DeviceReceives
        \/ ControllerSends \/ ControllerReceives
        \/ StopAsking \/ \E elapsed \in BOOLEAN : RunBrickReceive(elapsed)
        \/ SetReceive
        \/ Establish \/ Break \/ RestartDevice \/ RestartController

\* Every loop keeps running, timers run out, connections come back.  Whoever
\* waits for the lock gets it in the end, hence SF for what needs it.  The
\* camera takes many frames in the ten seconds that follow a request, so it
\* does not miss all the times that it could store one.
Fairness ==
  /\ SF_vars(StorePicture) /\ WF_vars(StoreFrameCount)
  /\ \A elapsed \in BOOLEAN : SF_vars(RunBrickSend(elapsed))
  /\ SF_vars(DeviceSends) /\ WF_vars(DeviceReceives)
  /\ WF_vars(ControllerSends) /\ WF_vars(ControllerReceives)
  /\ WF_vars(StopAsking)
  /\ \A elapsed \in BOOLEAN : WF_vars(RunBrickReceive(elapsed))
  /\ WF_vars(Establish)

Spec == Init /\ [][Next]_vars
FairSpec == Spec /\ Fairness
-----------------------------------------------------------------------------
(* Properties.                                                             *)

\* When the frame count has changed, the size, the header and the checksum
\* the controller finds are those of the picture it finds: no picture is
\* thrown away by ioc_process_flat_brick_data, whatever the camera stores,
\* the connection loses or a restart leaves behind in the blocks.
PicturesWhole == ctl.status # "failed"

\* While the controller wants bricks they keep coming.  A request can be lost
\* (after a reconnect the command may start from the value the device saw
\* last) and a brick can pass unnoticed (a restarted device counts from one
\* again): asking anew after three seconds repairs both.
BricksKeepComing == <>[]ctl.enabled => []<>(ctl.status = "completed")

\* When the controller no longer wants bricks the camera stops storing them.
CameraStops == <>[]~ctl.enabled => <>[]~dev.connected
=============================================================================
