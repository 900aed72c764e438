---------------------------- MODULE Brick_proofs ----------------------------
(***************************************************************************)
(* Proof that no brick is thrown away by the controller, for every number  *)
(* of frame counts and requests and any number of broken connections and   *)
(* restarts.                                                               *)
(***************************************************************************)
EXTENDS Brick, TLAPS

\* A brick in a memory block: the picture's name, and one that is not
\* NoBrick, since the device counts its starts from one.
BrickName == (Nat \ {0}) \X (1 .. FrameCounts)

\* Frame count set: the header, size and checksum are those of the picture.
Whole(e) == e.state # 0 => e.head = e.buf /\ e.head \in BrickName

\* The device's block is whole unless the camera is storing, the block on its
\* way and the controller's copy always are.
BlocksWhole ==
  /\ ~dev.storing => Whole(dev.exp)
  /\ \A i \in 1 .. Len(wire.toCtl) : Whole(wire.toCtl[i])
  /\ Whole(ctl.exp)

ExpType == [state : 0 .. FrameCounts, conn : BOOLEAN,
            buf : BrickName \union {NoBrick}, head : BrickName \union {NoBrick}]
ImpType == [cmd : 0 .. CmdCounts, conn : BOOLEAN]

DevType == [exp : ExpType, imp : ImpType, storing : BOOLEAN, epoch : Nat \ {0},
            frame : 0 .. FrameCounts, prev : 0 .. CmdCounts, ready : BOOLEAN,
            connected : BOOLEAN]
CtlType == [exp : ExpType, imp : ImpType, enabled : BOOLEAN, connected : BOOLEAN,
            prevState : 0 .. FrameCounts, prevEpoch : Nat,
            status : {"success", "completed", "failed"}]

\* The variables have their types; while a picture is being stored its
\* buffer is named already as the frame count will be.
BrickTypeOK ==
  /\ dev \in DevType /\ ctl \in CtlType
  /\ wire \in [toDev : Seq(ImpType), toCtl : Seq(ExpType)]
  /\ dev.storing => dev.exp.buf = <<dev.epoch, NextFrame(dev.frame)>>

BrickInv == BrickTypeOK /\ BlocksWhole /\ PicturesWhole

\* What a name is made of.
LEMMA NameFacts ==
  /\ NoBrick \notin BrickName
  /\ \A n \in 0 .. FrameCounts : NextFrame(n) \in 1 .. FrameCounts
  /\ \A n \in 0 .. CmdCounts : NextCmd(n) \in 1 .. CmdCounts
  /\ \A e \in Nat \ {0}, n \in 0 .. FrameCounts : <<e, NextFrame(n)>> \in BrickName
  /\ \A b \in BrickName \union {NoBrick} : b[1] \in Nat
<1>1. NoBrick \notin BrickName
  BY DEF NoBrick, BrickName
<1>2. \A n \in 0 .. FrameCounts : NextFrame(n) \in 1 .. FrameCounts
  BY BrickAssumption DEF NextFrame
<1>3. \A n \in 0 .. CmdCounts : NextCmd(n) \in 1 .. CmdCounts
  BY BrickAssumption DEF NextCmd
<1>4. \A e \in Nat \ {0}, n \in 0 .. FrameCounts : <<e, NextFrame(n)>> \in BrickName
  BY <1>2 DEF BrickName
<1>5. \A b \in BrickName \union {NoBrick} : b[1] \in Nat
  BY DEF BrickName, NoBrick
<1> QED
  BY <1>1, <1>2, <1>3, <1>4, <1>5

\* Empty blocks are whole: they hold no frame count.
LEMMA EmptyFacts ==
  /\ EmptyExp \in ExpType /\ Whole(EmptyExp)
  /\ EmptyImp \in ImpType
BY BrickAssumption DEF EmptyExp, EmptyImp, ExpType, ImpType, Whole

\* ioc_process_flat_brick_data accepts what is whole.
LEMMA WholeFits ==
  ASSUME NEW e \in ExpType, Whole(e), NEW seen
  PROVE  Outcome(e, seen) \in {"success", "completed"}
BY NameFacts DEF Outcome, Fits, Whole, ExpType

LEMMA BrickInit == Init => BrickInv
BY EmptyFacts, BrickAssumption
   DEF Init, NewDevice, NewController, Quiet, BrickInv, BrickTypeOK, BlocksWhole, PicturesWhole,
       DevType, CtlType

\* The parts of the state.
LEMMA Parts ==
  ASSUME BrickInv
  PROVE  /\ dev.exp \in ExpType /\ dev.imp \in ImpType /\ dev.imp.cmd \in 0 .. CmdCounts
         /\ dev.epoch \in Nat \ {0} /\ dev.frame \in 0 .. FrameCounts
         /\ ctl.exp \in ExpType /\ ctl.imp \in ImpType /\ ctl.imp.cmd \in 0 .. CmdCounts
         /\ ctl.exp.state \in 0 .. FrameCounts /\ ctl.exp.head[1] \in Nat
BY NameFacts DEF BrickInv, BrickTypeOK, DevType, CtlType, ExpType, ImpType

\* The camera's two steps.
LEMMA StoreSteps ==
  ASSUME BrickInv, StorePicture \/ StoreFrameCount
  PROVE  BrickInv'
<1>1. CASE StorePicture
  <2> DEFINE b == <<dev.epoch, NextFrame(dev.frame)>>
  <2>1. b \in BrickName
    BY Parts, NameFacts
  <2> HIDE DEF b
  <2>2. [dev.exp EXCEPT !.buf = b] \in ExpType
    BY <2>1, Parts DEF ExpType
  <2>3. dev' = [dev EXCEPT !.storing = TRUE, !.exp = [dev.exp EXCEPT !.buf = b]]
    BY <1>1 DEF StorePicture, BrickInv, BrickTypeOK, DevType, b
  <2>4. /\ dev' \in DevType /\ dev'.storing
        /\ dev'.epoch = dev.epoch /\ dev'.frame = dev.frame /\ dev'.exp.buf = b
    BY <2>2, <2>3 DEF BrickInv, BrickTypeOK, DevType, ExpType
  <2> QED
    BY <1>1, <2>4 DEF StorePicture, BrickInv, BrickTypeOK, BlocksWhole, PicturesWhole, b
<1>2. CASE StoreFrameCount
  <2> DEFINE n == NextFrame(dev.frame)
             x == [state |-> n, conn |-> TRUE, buf |-> dev.exp.buf, head |-> <<dev.epoch, n>>]
  <2>1. /\ n \in 1 .. FrameCounts /\ n \in 0 .. FrameCounts
        /\ <<dev.epoch, n>> \in BrickName /\ dev.exp.buf = <<dev.epoch, n>>
    BY <1>2, Parts, NameFacts DEF StoreFrameCount, BrickInv, BrickTypeOK
  <2>2. x \in ExpType /\ Whole(x)
    BY <2>1, BrickAssumption DEF ExpType, Whole
  <2>3. dev' = [dev EXCEPT !.storing = FALSE, !.frame = n, !.exp = x]
    BY <1>2 DEF StoreFrameCount
  <2> HIDE DEF x, n
  <2>4. dev' \in DevType /\ ~dev'.storing /\ dev'.exp = x
    <3>1. dev \in DevType
      BY DEF BrickInv, BrickTypeOK
    <3> QED
      BY <2>1, <2>2, <2>3, <3>1 DEF DevType
  <2> QED
    BY <1>2, <2>2, <2>4 DEF StoreFrameCount, BrickInv, BrickTypeOK, BlocksWhole, PicturesWhole
<1> QED
  BY <1>1, <1>2

\* The device's loop and its two blocks.
LEMMA DeviceSteps ==
  ASSUME BrickInv,
         \/ \E elapsed \in BOOLEAN : RunBrickSend(elapsed)
         \/ DeviceSends \/ DeviceReceives
  PROVE  BrickInv'
<1>1. ASSUME NEW elapsed \in BOOLEAN, RunBrickSend(elapsed) PROVE BrickInv'
  <2>1. /\ dev'.exp = [dev.exp EXCEPT !.conn = TRUE]
        /\ dev'.exp \in ExpType /\ (Whole(dev.exp) => Whole(dev'.exp))
    BY <1>1, Parts DEF RunBrickSend, BrickInv, BrickTypeOK, DevType, ExpType, Whole
  <2>2. dev' \in DevType /\ ~dev.storing /\ ~dev'.storing
    BY <1>1, <2>1, Parts DEF RunBrickSend, BrickInv, BrickTypeOK, DevType, Heard, NewRequest, StaysConnected
  <2> QED
    BY <1>1, <2>1, <2>2 DEF RunBrickSend, BrickInv, BrickTypeOK, BlocksWhole, PicturesWhole
<1>2. CASE DeviceSends
  <2>1. Whole(dev.exp) /\ <<dev.exp>> \in Seq(ExpType)
    BY <1>2, Parts DEF DeviceSends, MaySync, BrickInv, BlocksWhole
  <2>2. /\ wire' \in [toDev : Seq(ImpType), toCtl : Seq(ExpType)]
        /\ wire'.toCtl = <<dev.exp>>
    BY <1>2, <2>1 DEF DeviceSends, BrickInv, BrickTypeOK
  <2> QED
    BY <1>2, <2>1, <2>2 DEF DeviceSends, BrickInv, BrickTypeOK, BlocksWhole, PicturesWhole
<1>3. CASE DeviceReceives
  <2>1. Head(wire.toDev) \in ImpType
    BY <1>3 DEF DeviceReceives, BrickInv, BrickTypeOK
  <2>2. /\ dev' \in DevType /\ dev'.exp = dev.exp /\ dev'.storing = dev.storing
        /\ dev'.epoch = dev.epoch /\ dev'.frame = dev.frame
    BY <1>3, <2>1 DEF DeviceReceives, BrickInv, BrickTypeOK, DevType
  <2>3. /\ wire' \in [toDev : Seq(ImpType), toCtl : Seq(ExpType)]
        /\ wire'.toCtl = wire.toCtl
    <3>1. <<>> \in Seq(ImpType) /\ wire \in [toDev : Seq(ImpType), toCtl : Seq(ExpType)]
      BY DEF BrickInv, BrickTypeOK
    <3> QED
      BY <1>3, <3>1 DEF DeviceReceives
  <2> QED
    BY <1>3, <2>2, <2>3 DEF DeviceReceives, BrickInv, BrickTypeOK, BlocksWhole, PicturesWhole
<1> QED
  BY <1>1, <1>2, <1>3

\* A step of the controller that leaves a whole block and no failed brick.
LEMMA ControllerStep ==
  ASSUME BrickInv, ctl' \in CtlType, Whole(ctl'.exp), ctl'.status # "failed",
         dev' = dev,
         wire' \in [toDev : Seq(ImpType), toCtl : Seq(ExpType)],
         wire'.toCtl \in {wire.toCtl, <<>>}
  PROVE  BrickInv'
BY DEF BrickInv, BrickTypeOK, BlocksWhole, PicturesWhole

\* The controller's loop and its two blocks.
LEMMA ControllerSteps ==
  ASSUME BrickInv,
         \/ ControllerSends \/ ControllerReceives \/ StopAsking \/ SetReceive
         \/ \E elapsed \in BOOLEAN : RunBrickReceive(elapsed)
  PROVE  BrickInv'
<1>0. /\ Whole(ctl.exp) /\ ctl.status # "failed" /\ ctl \in CtlType
      /\ wire \in [toDev : Seq(ImpType), toCtl : Seq(ExpType)]
  BY DEF BrickInv, BrickTypeOK, BlocksWhole, PicturesWhole
<1>1. CASE ControllerSends
  <2>1. <<ctl.imp>> \in Seq(ImpType)
    BY Parts
  <2> QED
    BY <1>0, <1>1, <2>1, ControllerStep DEF ControllerSends
<1>2. CASE ControllerReceives
  <2>1. Head(wire.toCtl) \in ExpType /\ Whole(Head(wire.toCtl))
    BY <1>2 DEF ControllerReceives, BrickInv, BrickTypeOK, BlocksWhole
  <2>2. ctl' \in CtlType /\ ctl'.exp = Head(wire.toCtl) /\ ctl'.status = ctl.status
    BY <1>0, <1>2, <2>1 DEF ControllerReceives, CtlType
  <2>3. <<>> \in Seq(ExpType)
    OBVIOUS
  <2>4. /\ wire' \in [toDev : Seq(ImpType), toCtl : Seq(ExpType)]
        /\ wire'.toCtl = <<>>
    BY <1>0, <1>2, <2>3 DEF ControllerReceives
  <2> QED
    BY <1>0, <1>2, <2>1, <2>2, <2>4, ControllerStep DEF ControllerReceives
<1>3. CASE StopAsking
  <2>1. [cmd |-> 0, conn |-> TRUE] \in ImpType
    BY BrickAssumption DEF ImpType
  <2>2. ctl' \in CtlType /\ ctl'.exp = ctl.exp /\ ctl'.status = "success"
    BY <1>0, <1>3, <2>1 DEF StopAsking, CtlType
  <2> QED
    BY <1>0, <1>3, <2>2, ControllerStep DEF StopAsking
<1>4. CASE SetReceive
  <2>1. ctl' \in CtlType /\ ctl'.exp = ctl.exp /\ ctl'.status = ctl.status
    BY <1>0, <1>4 DEF SetReceive, CtlType
  <2> QED
    BY <1>0, <1>4, <2>1, ControllerStep DEF SetReceive
<1>5. ASSUME NEW elapsed \in BOOLEAN, RunBrickReceive(elapsed) PROVE BrickInv'
  <2>1. Outcome(ctl.exp, ctl.prevState) \in {"success", "completed"}
    BY <1>0, Parts, WholeFits
  <2>2. [cmd |-> RequestAfter, conn |-> TRUE] \in ImpType
    BY Parts, NameFacts DEF ImpType, RequestAfter
  <2>3. /\ ctl' \in CtlType /\ ctl'.exp = ctl.exp
        /\ ctl'.status \in {"success", "completed"}
    BY <1>0, <1>5, <2>1, <2>2, Parts DEF RunBrickReceive, CtlType
  <2> QED
    BY <1>0, <1>5, <2>3, ControllerStep DEF RunBrickReceive
<1> QED
  BY <1>1, <1>2, <1>3, <1>4, <1>5

\* Connections and restarts: what is left behind in a block is whole.
LEMMA EventSteps ==
  ASSUME BrickInv, Establish \/ Break \/ RestartDevice \/ RestartController
  PROVE  BrickInv'
<1>0. Quiet \in [toDev : Seq(ImpType), toCtl : Seq(ExpType)] /\ Quiet.toCtl = <<>>
  BY DEF Quiet
<1>1. CASE Establish \/ Break
  BY <1>0, <1>1 DEF Establish, Break, BrickInv, BrickTypeOK, BlocksWhole, PicturesWhole
<1>2. CASE RestartDevice
  <2>1. dev' \in DevType /\ dev'.exp = EmptyExp /\ ~dev'.storing
    BY <1>2, Parts, EmptyFacts, BrickAssumption DEF RestartDevice, RestartOf, NewDevice, DevType
  <2> QED
    BY <1>0, <1>2, <2>1, EmptyFacts
       DEF RestartDevice, RestartOf, BrickInv, BrickTypeOK, BlocksWhole, PicturesWhole
<1>3. CASE RestartController
  <2>1. ctl' \in CtlType /\ ctl'.exp = EmptyExp /\ ctl'.status = "success"
    BY <1>3, EmptyFacts, BrickAssumption DEF RestartController, RestartOf, NewController, CtlType
  <2> QED
    BY <1>0, <1>3, <2>1, EmptyFacts, ControllerStep DEF RestartController, RestartOf
<1> QED
  BY <1>1, <1>2, <1>3

\* The blocks are whole in every reachable state.
THEOREM BrickInvariance == Spec => []BrickInv
<1>1. BrickInv /\ [Next]_vars => BrickInv'
  <2> SUFFICES ASSUME BrickInv, [Next]_vars PROVE BrickInv'
    OBVIOUS
  <2>1. CASE UNCHANGED vars
    BY <2>1 DEF vars, BrickInv, BrickTypeOK, BlocksWhole, PicturesWhole
  <2> QED
    BY <2>1, StoreSteps, DeviceSteps, ControllerSteps, EventSteps DEF Next
<1> QED
  BY <1>1, BrickInit, PTL DEF Spec

\* ioc_process_flat_brick_data never refuses a brick: size, header and
\* checksum belong to the picture they are found with, after any sequence of
\* lost connections and restarts of either end.
THEOREM PicturesStayWhole == Spec => []PicturesWhole
<1>1. BrickInv => PicturesWhole
  BY DEF BrickInv
<1> QED
  BY <1>1, BrickInvariance, PTL
=============================================================================
