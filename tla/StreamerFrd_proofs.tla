------------------------- MODULE StreamerFrd_proofs -------------------------
(***************************************************************************)
(* Proofs, for every ring size, block content and read size: a transfer    *)
(* the controller takes for completed is whole, as long as the device's    *)
(* own timer does not cut it; and in a transfer that nothing disturbs      *)
(* nothing is overwritten in the ring and the controller does not fail.    *)
(***************************************************************************)
EXTENDS StreamerFrd, TLAPS, SequenceTheorems

----------------------------------------------------------------------------
(* The ring.                                                               *)

\* A position in the ring, however it is computed.
LEMMA RingIndex ==
    ASSUME NEW i \in Int
    PROVE  i % BufSz \in Position
BY BufSzAssumption DEF Position

\* What ioc_streamer_tx_available promises, ioc_streamer_write_internal takes.
LEMMA WriteAll ==
    ASSUME NEW head \in Position, NEW tail \in Position, NEW n \in Nat,
           n <= TxAvailable(head, tail)
    PROVE  WriteCount(head, tail, n) = n
BY BufSzAssumption DEF Position, TxAvailable, WriteCount, WriteToEnd, Wrapped, LesserOf

LEMMA WriteSome ==
    ASSUME NEW head \in Position, NEW tail \in Position, NEW n \in Nat
    PROVE  WriteCount(head, tail, n) \in 0 .. n
BY BufSzAssumption DEF Position, WriteCount, WriteToEnd, Wrapped, LesserOf

LEMMA ReadSome ==
    ASSUME NEW head \in Position, NEW tail \in Position, NEW n \in Nat
    PROVE  ReadCount(head, tail, n) \in 0 .. n
BY BufSzAssumption DEF Position, ReadCount, ReadToEnd, Wrapped, LesserOf

LEMMA StoredType ==
    ASSUME NEW buf \in [Position -> Nat], NEW head \in Position, NEW bytes \in Seq(Nat)
    PROVE  Stored(buf, head, bytes) \in [Position -> Nat]
<1>1. ASSUME NEW i \in Position
      PROVE  (i - head) % BufSz \in Position
  <2>1. i - head \in Int
    BY BufSzAssumption DEF Position
  <2> QED  BY <2>1, RingIndex
<1>2. \A k \in Position : k < Len(bytes) => bytes[k + 1] \in Nat
  BY BufSzAssumption DEF Position
<1> QED  BY <1>1, <1>2 DEF Stored

LEMMA FetchedType ==
    ASSUME NEW buf \in [Position -> Nat], NEW tail \in Position, NEW n \in Nat
    PROVE  Fetched(buf, tail, n) \in Seq(Nat)
<1>1. ASSUME NEW k \in 1 .. n
      PROVE  buf[(tail + k - 1) % BufSz] \in Nat
  <2>1. tail + k - 1 \in Int
    BY BufSzAssumption DEF Position
  <2>2. (tail + k - 1) % BufSz \in Position
    BY <2>1, RingIndex
  <2> QED  BY <2>2
<1>2. Fetched(buf, tail, n) \in [1 .. n -> Nat]
  BY <1>1 DEF Fetched
<1> QED  BY <1>2, SeqDef

----------------------------------------------------------------------------
(* The inductive invariant.                                                *)

Steps == {"INITIALIZED", "INITIALIZED2", "TRANSFER_DATA", "TRANSFER_DONE", "TRANSFER_DONE2",
          "ALL_COMPLETED", "FAILED", "FAILED2", "FAILED_AND_IDLE_SET"}
Errors == {"SUCCESS", "COMPLETED", "READING_FILE_FAILED", "TIMEOUT"}
DevType == [open : BOOLEAN, step : Steps, head : Position, sum : Seq(Nat), pos : Nat,
            file : {"none", "block", "defaults"}, ok : BOOLEAN]
States == {"IDLE", "RUNNING", "COMPLETED", "INTERRUPT"}
ExpType == [state : States, head : Position,
            cs : Seq(Nat) \union {NoSum}, buf : [Position -> Nat], err : Errors]
DevPair == [s : DevType, x : ExpType]
CtlType == [open : BOOLEAN, step : Steps, tail : Position, sum : Seq(Nat),
            result : {"none", "completed", "failed"}]
ImpType == [cmd : {"IDLE", "RUNNING"}, tail : Position, sel : Block]
CtlPair == [s : CtlType, x : ImpType]
ExpCopy == [sig : ExpType, conn : BOOLEAN]
ImpCopy == [sig : ImpType, conn : BOOLEAN]

\* What the blocks hold, and the content of the block the device has open.
Contents == {Content(b) : b \in Block}
Data == Content(opened)

Types ==
    /\ env \in Environments
    /\ dev \in DevType /\ exp \in ExpType /\ ctl \in CtlType /\ imp \in ImpType
    /\ expLine \in Seq(ExpType) /\ impLine \in Seq(ImpType)
    /\ expSeen \in ExpCopy /\ impSeen \in ImpCopy
    /\ opened \in Block /\ selected \in Block
    /\ dev.pos <= Len(Data)

\* The steps in which a checksum may still be made.
DataSteps == {"INITIALIZED", "TRANSFER_DATA"}

\* The checksum signal holds none, or that of a whole block.
SumOK(cs) == cs = NoSum \/ cs \in Contents

\* While data can still be passed on, the checksum is that of all bytes read
\* from the block, and a closed block has been read to its end.
DevOK(s, content) ==
    s.ok /\ s.step \in DataSteps =>
        /\ s.sum = SubSeq(content, 1, s.pos)
        /\ s.file = "none" => s.pos = Len(content)

\* No checksum of a part is on its way.
Whole ==
    /\ dev.open => DevOK(dev, Data)
    /\ SumOK(exp.cs) /\ SumOK(expSeen.sig.cs)
    /\ \A i \in 1 .. Len(expLine) : SumOK(expLine[i].cs)
    /\ ctl.result = "completed" => ctl.sum \in Contents

FrdInv == Types /\ ("dev" \notin env.late => Whole)

----------------------------------------------------------------------------
(* The device.                                                             *)

\* What ioc_streamer_device_write_data does: r for d.
DataWritten(d, bytes, done, r) ==
    /\ r \in DevPair
    /\ r.s.open = d.s.open /\ r.s.pos = d.s.pos /\ r.s.file = d.s.file /\ r.s.ok = d.s.ok
    /\ r.s.step # "INITIALIZED"
    /\ r.s.step \in DataSteps => ~done
    /\ r.s.step \in DataSteps /\ Len(bytes) <= TxAvailable(d.s.head, impSeen.sig.tail)
          => r.s.sum = d.s.sum \o bytes
    /\ r.x.cs = d.x.cs \/ (done /\ r.x.cs = d.s.sum)

LEMMA WriteDataFacts ==
    ASSUME impSeen \in ImpCopy, NEW d \in DevPair, NEW bytes \in Seq(Nat),
           NEW done \in BOOLEAN, NEW late \in BOOLEAN, done => bytes = <<>>,
           d.s.step = "TRANSFER_DATA"
    PROVE  DataWritten(d, bytes, done, WriteData(d, bytes, done, late))
<1>r. PICK r : r = WriteData(d, bytes, done, late)
  OBVIOUS
<1> SUFFICES DataWritten(d, bytes, done, r)
  BY <1>r
<1> USE DEF DataWritten
<1> DEFINE tail == impSeen.sig.tail
           k == WriteCount(d.s.head, tail, Len(bytes))
           h == (d.s.head + k) % BufSz
           part == SubSeq(bytes, 1, k)
           b2 == Stored(d.x.buf, d.s.head, part)
           s2 == d.s.sum \o part
<1>0. d.s \in DevType /\ d.x \in ExpType /\ d = [s |-> d.s, x |-> d.x]
  BY DEF DevPair
<1>1. d.s.head \in Position /\ tail \in Position /\ Len(bytes) \in Nat
      /\ d.s.sum \in Seq(Nat) /\ d.x.buf \in [Position -> Nat]
  BY <1>0 DEF DevType, ExpType, ImpCopy, ImpType
<1>2. k \in 0 .. Len(bytes)
  BY <1>1, WriteSome
<1>3. h \in Position
  <2>1. d.s.head + k \in Int
    BY <1>1, <1>2, BufSzAssumption, SMTT(30) DEF Position
  <2> HIDE DEF k
  <2> QED  BY <2>1, RingIndex
<1>4. part \in Seq(Nat) /\ s2 \in Seq(Nat) /\ (k = Len(bytes) => part = bytes)
  <2> HIDE DEF k
  <2> QED  BY <1>1, <1>2
<1>5. b2 \in [Position -> Nat]
  BY <1>1, <1>4, StoredType
<1>6. Len(bytes) <= TxAvailable(d.s.head, tail) => k = Len(bytes)
  BY <1>1, WriteAll
<1>7. done => k = 0
  BY <1>2
<1> HIDE DEF k, h, b2, s2
<1>8. CASE k > 0
  <2>1. r = [d EXCEPT !.s.head = h, !.x.head = h, !.x.buf = b2, !.s.sum = s2]
    BY <1>r, <1>8 DEF WriteData, k, h, b2, s2
  <2>2. r = [s |-> [d.s EXCEPT !.head = h, !.sum = s2],
             x |-> [d.x EXCEPT !.head = h, !.buf = b2]]
    BY <1>0, <2>1
  <2>3. [d.s EXCEPT !.head = h, !.sum = s2] \in DevType
    BY <1>0, <1>3, <1>4 DEF DevType
  <2>4. [d.x EXCEPT !.head = h, !.buf = b2] \in ExpType
    BY <1>0, <1>3, <1>5 DEF ExpType
  <2>5. /\ r.s = [d.s EXCEPT !.head = h, !.sum = s2]
        /\ r.x = [d.x EXCEPT !.head = h, !.buf = b2] /\ r \in DevPair
    BY <2>2, <2>3, <2>4 DEF DevPair
  <2>6. r.s.open = d.s.open /\ r.s.pos = d.s.pos /\ r.s.file = d.s.file
        /\ r.s.ok = d.s.ok /\ r.s.step = "TRANSFER_DATA" /\ r.s.sum = s2
    BY <1>0, <2>5 DEF DevType
  <2>7. r.x.cs = d.x.cs
    BY <1>0, <2>5 DEF ExpType
  <2>8. ~done
    BY <1>7, <1>8
  <2>9. Len(bytes) <= TxAvailable(d.s.head, tail) => r.s.sum = d.s.sum \o bytes
    BY <1>4, <1>6, <2>6 DEF s2
  <2> QED  BY <2>5, <2>6, <2>7, <2>8, <2>9
<1>9. CASE k = 0 /\ done
  <2>1. r = [d EXCEPT !.x.cs = d.s.sum, !.x.state = "COMPLETED", !.s.step = "TRANSFER_DONE"]
    BY <1>r, <1>9 DEF WriteData, k
  <2>2. r = [s |-> [d.s EXCEPT !.step = "TRANSFER_DONE"],
             x |-> [d.x EXCEPT !.cs = d.s.sum, !.state = "COMPLETED"]]
    BY <1>0, <2>1
  <2>3. [d.s EXCEPT !.step = "TRANSFER_DONE"] \in DevType
    BY <1>0 DEF DevType, Steps
  <2>4. [d.x EXCEPT !.cs = d.s.sum, !.state = "COMPLETED"] \in ExpType
    <3>1. "COMPLETED" \in States
      BY DEF States
    <3> QED  BY <1>0, <1>1, <3>1 DEF ExpType
  <2>5. /\ r.s = [d.s EXCEPT !.step = "TRANSFER_DONE"]
        /\ r.x = [d.x EXCEPT !.cs = d.s.sum, !.state = "COMPLETED"] /\ r \in DevPair
    BY <2>2, <2>3, <2>4 DEF DevPair
  <2>6. r.s.open = d.s.open /\ r.s.pos = d.s.pos /\ r.s.file = d.s.file
        /\ r.s.ok = d.s.ok /\ r.s.step = "TRANSFER_DONE"
    BY <1>0, <2>5 DEF DevType
  <2>7. r.x.cs = d.s.sum
    BY <1>0, <2>5 DEF ExpType
  <2> QED  BY <1>9, <2>5, <2>6, <2>7 DEF DataSteps
<1>10. CASE k = 0 /\ ~done
  <2>1. r = d \/ r = [d EXCEPT !.s.step = "FAILED"]
    BY <1>r, <1>10 DEF WriteData, k
  <2>2. CASE r = d
    <3>1. Len(bytes) <= TxAvailable(d.s.head, impSeen.sig.tail) => r.s.sum = d.s.sum \o bytes
      BY <1>1, <1>4, <1>6, <1>10, <2>2, ConcatEmptySeq
    <3> QED  BY <1>10, <2>2, <3>1
  <2>3. CASE r = [d EXCEPT !.s.step = "FAILED"]
    <3>1. r = [s |-> [d.s EXCEPT !.step = "FAILED"], x |-> d.x]
      BY <1>0, <2>3
    <3>2. [d.s EXCEPT !.step = "FAILED"] \in DevType
      BY <1>0 DEF DevType, Steps
    <3>3. r \in DevPair /\ r.s.open = d.s.open /\ r.s.pos = d.s.pos /\ r.s.file = d.s.file
          /\ r.s.ok = d.s.ok /\ r.s.step = "FAILED" /\ r.x = d.x
      BY <1>0, <3>1, <3>2 DEF DevPair, DevType
    <3> QED  BY <3>3 DEF DataSteps
  <2> QED  BY <2>1, <2>2, <2>3
<1> QED  BY <1>2, <1>8, <1>9, <1>10

\* The ways in which the code changes the step, the state and the head signal
\* and nothing else.
SetStep(d, t) == [d EXCEPT !.s.step = t]
SetState(d, st, t) == [d EXCEPT !.x.state = st, !.s.step = t]
SetIdle(d, t) == [[d EXCEPT !.x.state = "IDLE", !.x.head = 0] EXCEPT !.s.step = t]

\* r is d with the step t, but for the state and head signals.
Stepped(d, t, r) ==
    /\ r \in DevPair /\ r.s.step = t
    /\ r.s.open = d.s.open /\ r.s.pos = d.s.pos /\ r.s.file = d.s.file /\ r.s.ok = d.s.ok
    /\ r.s.sum = d.s.sum /\ r.s.head = d.s.head /\ r.x.cs = d.x.cs

WithStep(d, t, y) == [s |-> [d.s EXCEPT !.step = t], x |-> y]

LEMMA SteppedPair ==
    ASSUME NEW d \in DevPair, NEW t \in Steps, NEW y \in ExpType, y.cs = d.x.cs
    PROVE  Stepped(d, t, WithStep(d, t, y))
<1>r. PICK r : r = WithStep(d, t, y)
  OBVIOUS
<1> SUFFICES Stepped(d, t, r)
  BY <1>r
<1>0. d.s \in DevType
  BY DEF DevPair
<1>1. [d.s EXCEPT !.step = t] \in DevType
  BY <1>0 DEF DevType
<1>2. r \in DevPair /\ r.s = [d.s EXCEPT !.step = t] /\ r.x = y
  BY <1>r, <1>1 DEF DevPair, WithStep
<1>3. /\ r.s.open = d.s.open /\ r.s.pos = d.s.pos /\ r.s.file = d.s.file /\ r.s.ok = d.s.ok
      /\ r.s.sum = d.s.sum /\ r.s.step = t /\ r.s.head = d.s.head
  BY <1>0, <1>2 DEF DevType
<1> QED  BY <1>2, <1>3 DEF Stepped

LEMMA StepChanges ==
    ASSUME NEW d \in DevPair, NEW t \in Steps, NEW st \in States
    PROVE  Stepped(d, t, SetStep(d, t)) /\ Stepped(d, t, SetState(d, st, t))
           /\ Stepped(d, t, SetIdle(d, t))
<1>0. d = [s |-> d.s, x |-> d.x] /\ d.s \in DevType /\ d.x \in ExpType
  BY DEF DevPair
<1>y. PICK y : y = [d.x EXCEPT !.state = st]
  OBVIOUS
<1>z. PICK z : z = [d.x EXCEPT !.state = "IDLE", !.head = 0]
  OBVIOUS
<1>1. SetStep(d, t) = WithStep(d, t, d.x)
  BY <1>0 DEF SetStep, WithStep
<1>2. SetState(d, st, t) = WithStep(d, t, y)
  <2>1. SetState(d, st, t) = [s |-> [d.s EXCEPT !.step = t], x |-> [d.x EXCEPT !.state = st]]
    <3>r. PICK r : r = SetState(d, st, t)
      OBVIOUS
    <3>1. r = [d EXCEPT !.x.state = st, !.s.step = t]
      BY <3>r DEF SetState
    <3>2. r = [s |-> [d.s EXCEPT !.step = t], x |-> [d.x EXCEPT !.state = st]]
      BY <1>0, <3>1
    <3> QED  BY <3>r, <3>2
  <2> QED  BY <1>y, <2>1 DEF WithStep
<1>3. SetIdle(d, t) = WithStep(d, t, z)
  <2>1. SetIdle(d, t) = [s |-> [d.s EXCEPT !.step = t],
                         x |-> [d.x EXCEPT !.state = "IDLE", !.head = 0]]
    <3>r. PICK r : r = SetIdle(d, t)
      OBVIOUS
    <3>1. r = [[d EXCEPT !.x.state = "IDLE", !.x.head = 0] EXCEPT !.s.step = t]
      BY <3>r DEF SetIdle
    <3>2. r = [s |-> [d.s EXCEPT !.step = t], x |-> [d.x EXCEPT !.state = "IDLE", !.head = 0]]
      BY <1>0, <3>1
    <3> QED  BY <3>r, <3>2
  <2> QED  BY <1>z, <2>1 DEF WithStep
<1>4. y \in ExpType /\ y.cs = d.x.cs
  BY <1>0, <1>y DEF ExpType
<1>5. z \in ExpType /\ z.cs = d.x.cs
  <2>1. "IDLE" \in States /\ 0 \in Position
    BY BufSzAssumption DEF States, Position
  <2> QED  BY <1>0, <1>z, <2>1 DEF ExpType
<1>6. Stepped(d, t, WithStep(d, t, d.x))
  BY <1>0, SteppedPair
<1>7. Stepped(d, t, WithStep(d, t, y))
  BY <1>4, SteppedPair
<1>8. Stepped(d, t, WithStep(d, t, z))
  BY <1>5, SteppedPair
<1> QED  BY <1>1, <1>2, <1>3, <1>6, <1>7, <1>8

\* What a call of ioc_streamer_device_write promises: r for d.
Written(d, bytes, done, interrupt, r) ==
    /\ r \in DevPair
    /\ r.s.open = d.s.open /\ r.s.pos = d.s.pos /\ r.s.file = d.s.file /\ r.s.ok = d.s.ok
    /\ r.s.step \in DataSteps =>
          /\ d.s.step \in DataSteps /\ ~done
          /\ Len(bytes) <= TxAvailable(d.s.head, impSeen.sig.tail) => r.s.sum = d.s.sum \o bytes
    /\ r.x.cs = d.x.cs \/ (done /\ ~interrupt /\ d.s.step \in DataSteps /\ r.x.cs = d.s.sum)

LEMMA DeviceWriteFacts ==
    ASSUME impSeen \in ImpCopy, NEW d0 \in DevPair, NEW bytes \in Seq(Nat),
           NEW done \in BOOLEAN, NEW interrupt \in BOOLEAN, NEW late \in BOOLEAN,
           done => bytes = <<>>
    PROVE  /\ Written(d0, bytes, done, interrupt, DeviceWrite(d0, bytes, done, interrupt, late))
           /\ DeviceWrite(d0, bytes, done, interrupt, late).s.step # "INITIALIZED"
<1>r. PICK r : r = DeviceWrite(d0, bytes, done, interrupt, late)
  OBVIOUS
<1> SUFFICES Written(d0, bytes, done, interrupt, r) /\ r.s.step # "INITIALIZED"
  BY <1>r
<1>1. PICK d : d = IF impSeen.conn \/ d0.s.step = "FAILED_AND_IDLE_SET" THEN d0
                   ELSE [d0 EXCEPT !.x.state = "IDLE", !.s.step = "FAILED_AND_IDLE_SET"]
  OBVIOUS
<1>2. "FAILED_AND_IDLE_SET" \in Steps /\ "IDLE" \in States
  BY DEF Steps, States
<1>3. /\ d \in DevPair
      /\ d.s.open = d0.s.open /\ d.s.pos = d0.s.pos /\ d.s.file = d0.s.file /\ d.s.ok = d0.s.ok
      /\ d.s.sum = d0.s.sum /\ d.s.head = d0.s.head /\ d.x.cs = d0.x.cs
      /\ d.s.step = d0.s.step \/ d.s.step = "FAILED_AND_IDLE_SET"
  <2>1. CASE d = d0
    BY <2>1
  <2>2. CASE d = SetState(d0, "IDLE", "FAILED_AND_IDLE_SET")
    <3>1. Stepped(d0, "FAILED_AND_IDLE_SET", d)
      BY <1>2, <2>2, StepChanges
    <3> QED  BY <3>1 DEF Stepped
  <2> QED  BY <1>1, <2>1, <2>2 DEF SetState
\* A step that makes no checksum.
<1>5. ASSUME NEW t, t \notin DataSteps, Stepped(d, t, r)
      PROVE  Written(d0, bytes, done, interrupt, r) /\ r.s.step # "INITIALIZED"
  <2>1. r.s.step \notin DataSteps
    BY <1>5 DEF Stepped
  <2>2. /\ r \in DevPair
        /\ r.s.open = d.s.open /\ r.s.pos = d.s.pos /\ r.s.file = d.s.file /\ r.s.ok = d.s.ok
        /\ r.x.cs = d.x.cs
    BY <1>5 DEF Stepped
  <2> QED  BY <1>3, <2>1, <2>2 DEF Written, DataSteps
\* The data phase.
<1>6. ASSUME NEW e, Stepped(d, "TRANSFER_DATA", e), d.s.step \in DataSteps,
             r = TransferData(e, bytes, done, interrupt, late)
      PROVE  Written(d0, bytes, done, interrupt, r) /\ r.s.step # "INITIALIZED"
  <2>0. d0.s.step \in DataSteps
    BY <1>3, <1>6 DEF DataSteps
  <2>1. /\ e \in DevPair /\ e.s.step = "TRANSFER_DATA"
        /\ e.s.open = d0.s.open /\ e.s.pos = d0.s.pos /\ e.s.file = d0.s.file
        /\ e.s.ok = d0.s.ok /\ e.s.sum = d0.s.sum /\ e.s.head = d0.s.head /\ e.x.cs = d0.x.cs
    BY <1>3, <1>6 DEF Stepped
  <2>2. CASE cmd \notin Going \/ interrupt
    <3>1. "FAILED" \in Steps /\ r = SetStep(e, "FAILED") /\ "FAILED" \notin DataSteps
      BY <1>6, <2>2 DEF TransferData, Steps, SetStep, DataSteps
    <3>2. Stepped(e, "FAILED", r)
      BY <1>2, <2>1, <3>1, StepChanges
    <3> QED  BY <2>1, <3>1, <3>2 DEF Written, Stepped, DataSteps
  <2>3. CASE ~(cmd \notin Going \/ interrupt)
    <3>1. r = WriteData(e, bytes, done, late)
      BY <1>6, <2>3 DEF TransferData
    <3>2. DataWritten(e, bytes, done, r)
      BY <2>1, <3>1, WriteDataFacts
    <3>3. /\ r \in DevPair
          /\ r.s.open = d0.s.open /\ r.s.pos = d0.s.pos /\ r.s.file = d0.s.file
          /\ r.s.ok = d0.s.ok /\ r.s.step # "INITIALIZED"
          /\ r.s.step \in DataSteps => ~done
          /\ r.s.step \in DataSteps /\ Len(bytes) <= TxAvailable(d0.s.head, impSeen.sig.tail)
                => r.s.sum = d0.s.sum \o bytes
          /\ r.x.cs = d0.x.cs \/ (done /\ r.x.cs = d0.s.sum)
      BY <2>1, <3>2 DEF DataWritten
    <3> QED  BY <2>0, <2>3, <3>3 DEF Written
  <2> QED  BY <2>2, <2>3
<1>7. ASSUME NEW t \in Steps, NEW st \in States
      PROVE  Stepped(d, t, SetStep(d, t)) /\ Stepped(d, t, SetState(d, st, t))
             /\ Stepped(d, t, SetIdle(d, t))
  BY <1>3, StepChanges
<1>8. CASE d.s.step = "INITIALIZED" /\ cmd \notin Going
  <2>1. "FAILED" \in Steps /\ "FAILED" \notin DataSteps /\ r = SetStep(d, "FAILED")
    BY <1>r, <1>1, <1>8 DEF DeviceWrite, Steps, DataSteps, SetStep
  <2> QED  BY <1>2, <1>5, <1>7, <2>1
<1>9. CASE d.s.step = "INITIALIZED" /\ cmd \in Going
  <2>1. r = TransferData(SetState(d, "RUNNING", "TRANSFER_DATA"), bytes, done, interrupt, late)
        /\ d.s.step \in DataSteps
    BY <1>r, <1>1, <1>9 DEF DeviceWrite, DataSteps, SetState
  <2>2. "TRANSFER_DATA" \in Steps /\ "RUNNING" \in States
    BY DEF Steps, States
  <2> QED  BY <1>6, <1>7, <2>1, <2>2
<1>10. CASE d.s.step = "TRANSFER_DATA"
  <2>1. r = TransferData(d, bytes, done, interrupt, late) /\ d.s.step \in DataSteps
    BY <1>r, <1>1, <1>10 DEF DeviceWrite, DataSteps
  <2>2. Stepped(d, "TRANSFER_DATA", d)
    BY <1>3, <1>10 DEF Stepped
  <2> QED  BY <1>6, <2>1, <2>2
<1>11. CASE d.s.step \notin DataSteps
  <2>1. \/ r = d
        \/ r = SetIdle(d, "ALL_COMPLETED")
        \/ r = SetState(d, "INTERRUPT", "FAILED2")
        \/ r = SetIdle(d, "FAILED_AND_IDLE_SET")
    BY <1>r, <1>1, <1>11 DEF DeviceWrite, DataSteps, SetIdle, SetState
  <2>2. {"ALL_COMPLETED", "FAILED2", "FAILED_AND_IDLE_SET"} \subseteq Steps \ DataSteps
        /\ {"IDLE", "INTERRUPT"} \subseteq States
    BY DEF Steps, DataSteps, States
  <2>3. CASE r = d
    <3>1. Stepped(d, d.s.step, d)
      BY <1>3 DEF Stepped
    <3> QED  BY <1>5, <1>11, <2>3, <3>1
  <2>4. CASE r # d
    BY <1>5, <1>7, <2>1, <2>2, <2>4
  <2> QED  BY <2>3, <2>4
<1> QED  BY <1>8, <1>9, <1>10, <1>11 DEF DataSteps

\* A persistent block is a sequence of bytes.
LEMMA ContentType ==
    ASSUME env \in Environments
    PROVE  /\ \A b \in Block : Content(b) \in Seq(Nat) /\ Len(Content(b)) \in Nat
           /\ \A content \in Contents : content \in Seq(Nat) /\ Len(content) \in Nat
<1>1. env.content \in [Block -> Seq(Nat)]
  BY StreamerFrdAssumption
<1>2. \A b \in Block : Content(b) \in Seq(Nat) /\ Len(Content(b)) \in Nat
  BY <1>1 DEF Content
<1> QED  BY <1>2 DEF Contents

\* A device that may be open is in order, and so is its checksum signal.
PairOK(d, content) == d.s.open => DevOK(d.s, content)
Settled(r, content) ==
    /\ r \in DevPair /\ r.s.pos <= Len(content)
    /\ "dev" \notin env.late => PairOK(r, content) /\ SumOK(r.x.cs)

\* Any of the error codes may be set.
LEMMA ErrorSet ==
    ASSUME NEW d \in DevPair, NEW e \in Errors
    PROVE  /\ SetError(d, e) \in DevPair
           /\ SetError(d, e).s = d.s /\ SetError(d, e).x.cs = d.x.cs
<1>r. PICK r : r = SetError(d, e)
  OBVIOUS
<1>0. d = [s |-> d.s, x |-> d.x] /\ d.s \in DevType /\ d.x \in ExpType
  BY DEF DevPair
<1>1. r = [s |-> d.s, x |-> [d.x EXCEPT !.err = e]]
  BY <1>r, <1>0 DEF SetError
<1>2. [d.x EXCEPT !.err = e] \in ExpType /\ [d.x EXCEPT !.err = e].cs = d.x.cs
  BY <1>0 DEF ExpType
<1>3. r \in DevPair /\ r.s = d.s /\ r.x.cs = d.x.cs
  BY <1>0, <1>1, <1>2 DEF DevPair
<1> QED  BY <1>r, <1>3

\* A closed streamer leaves the checksum signal as it is.
LEMMA Closed ==
    ASSUME NEW d \in DevPair
    PROVE  /\ DeviceClose(d) \in DevPair /\ DeviceClose(d).s.pos = 0
           /\ ~DeviceClose(d).s.open /\ DeviceClose(d).x.cs = d.x.cs
<1>r. PICK r : r = DeviceClose(d)
  OBVIOUS
<1>0. d.x \in ExpType
  BY DEF DevPair
<1>e. PICK e \in Errors : e = IF d.x.err \in {"SUCCESS", "COMPLETED"} THEN "COMPLETED" ELSE d.x.err
  BY <1>0 DEF ExpType, Errors
<1>x. PICK x : x = [d.x EXCEPT !.state = "IDLE", !.head = 0, !.err = e]
  OBVIOUS
<1>1. r = [s |-> NoFile, x |-> x]
  BY <1>r, <1>e, <1>x DEF DeviceClose
<1>2. "IDLE" \in States /\ 0 \in Position
  BY BufSzAssumption DEF States, Position
<1>3. x \in ExpType /\ x.cs = d.x.cs
  BY <1>0, <1>x, <1>2 DEF ExpType
<1>4. NoFile \in DevType /\ ~NoFile.open /\ NoFile.pos = 0
  BY <1>2 DEF NoFile, DevType, Steps
<1>5. r \in DevPair /\ r.s = NoFile /\ r.x = x
  BY <1>1, <1>3, <1>4 DEF DevPair
<1> QED  BY <1>r, <1>3, <1>4, <1>5

\* The end of a transfer that has been read to its end, or cannot go on.
LEMMA FinishSettles ==
    ASSUME impSeen \in ImpCopy, NEW d \in DevPair, NEW late \in BOOLEAN,
           NEW content \in Contents, d.s.pos <= Len(content), env \in Environments,
           "dev" \notin env.late =>
              /\ SumOK(d.x.cs)
              /\ d.s.ok /\ d.s.step \in DataSteps => d.s.sum = content
    PROVE  Settled(Finish(d, late), content)
<1>r. PICK r : r = Finish(d, late)
  OBVIOUS
<1> SUFFICES Settled(r, content)
  BY <1>r
<1>e. PICK e : e = IF d.s.ok THEN d ELSE SetError(d, "READING_FILE_FAILED")
  OBVIOUS
<1>1. e \in DevPair /\ e.s = d.s /\ e.x.cs = d.x.cs
  <2>1. "READING_FILE_FAILED" \in Errors
    BY DEF Errors
  <2> QED  BY <1>e, <2>1, ErrorSet
<1>g. PICK g : g = [e EXCEPT !.s.file = IF @ = "defaults" THEN @ ELSE "none"]
  OBVIOUS
<1>2. g \in DevPair /\ g.x.cs = d.x.cs /\ g.s.open = d.s.open /\ g.s.pos = d.s.pos
      /\ g.s.ok = d.s.ok /\ g.s.step = d.s.step /\ g.s.sum = d.s.sum
  <2>0. e = [s |-> e.s, x |-> e.x] /\ e.s \in DevType /\ e.x \in ExpType
    BY <1>1 DEF DevPair
  <2>f. PICK file : file = IF e.s.file = "defaults" THEN e.s.file ELSE "none"
    OBVIOUS
  <2>1. g = [s |-> [e.s EXCEPT !.file = file], x |-> e.x]
    BY <1>g, <2>0, <2>f
  <2>2. file \in {"none", "block", "defaults"}
    BY <2>f
  <2>3. [e.s EXCEPT !.file = file] \in DevType
    BY <2>0, <2>2 DEF DevType
  <2>4. g \in DevPair /\ g.s = [e.s EXCEPT !.file = file] /\ g.x = e.x
    BY <2>0, <2>1, <2>3 DEF DevPair
  <2>5. g.s.open = e.s.open /\ g.s.pos = e.s.pos
        /\ g.s.ok = e.s.ok /\ g.s.step = e.s.step /\ g.s.sum = e.s.sum
    BY <2>0, <2>4 DEF DevType
  <2> QED  BY <1>1, <2>4, <2>5
<1>3. d.s.ok \in BOOLEAN /\ <<>> \in Seq(Nat)
  <2>1. d.s \in DevType
    BY DEF DevPair
  <2>2. d.s.ok \in BOOLEAN
    BY <2>1 DEF DevType
  <2> QED  BY <2>2
<1>f. PICK f : f = DeviceWrite(g, <<>>, TRUE, ~d.s.ok, late)
  OBVIOUS
<1>4. Written(g, <<>>, TRUE, ~d.s.ok, f)
  BY <1>2, <1>3, <1>f, DeviceWriteFacts
<1>5. f \in DevPair /\ f.s.pos = d.s.pos /\ f.s.step \notin DataSteps
      /\ (f.x.cs = d.x.cs \/ (d.s.ok /\ d.s.step \in DataSteps /\ f.x.cs = d.s.sum))
  BY <1>2, <1>4 DEF Written
<1>6. "dev" \notin env.late => SumOK(f.x.cs) /\ DevOK(f.s, content)
  BY <1>5 DEF SumOK, DevOK
<1>7. r = IF Status(f.s.step) = "SUCCESS" THEN f ELSE DeviceClose(f)
  BY <1>r, <1>e, <1>g, <1>f DEF Finish
<1>8. CASE r = f
  BY <1>5, <1>6, <1>8 DEF Settled, PairOK
<1>9. CASE r = DeviceClose(f)
  <2>1. r \in DevPair /\ ~r.s.open /\ r.x.cs = f.x.cs /\ r.s.pos = 0
    BY <1>5, <1>9, Closed
  <2> QED  BY <1>6, <2>1, ContentType DEF Settled, PairOK
<1> QED  BY <1>7, <1>8, <1>9

\* The next k bytes of a sequence of which p have been read.
LEMMA ReadOn ==
    ASSUME NEW c \in Seq(Nat), NEW p \in Nat, NEW k \in Nat, p + k <= Len(c)
    PROVE  /\ SubSeq(c, p + 1, p + k) \in Seq(Nat) /\ Len(SubSeq(c, p + 1, p + k)) = k
           /\ SubSeq(c, 1, p) \o SubSeq(c, p + 1, p + k) = SubSeq(c, 1, p + k)
<1>1. Len(c) \in Nat /\ \A i \in 1 .. Len(c) : c[i] \in Nat
  OBVIOUS
<1>q. PICK q : q = p + k
  OBVIOUS
<1>2. q \in Int /\ p + 1 \in Int /\ (\A i \in p + 1 .. q : c[i] \in Nat)
  BY <1>1, <1>q
<1>3. SubSeq(c, p + 1, q) \in Seq(Nat)
      /\ Len(SubSeq(c, p + 1, q)) = IF p + 1 <= q THEN q - (p + 1) + 1 ELSE 0
  BY <1>2, SubSeqProperties
<1>4. SubSeq(c, 1, p) \o SubSeq(c, p + 1, q) = SubSeq(c, 1, q)
  <2>1. 1 \in 1 .. Len(c) + 1 /\ p \in 1 - 1 .. Len(c) /\ q \in p .. Len(c)
    BY <1>1, <1>q
  <2> QED  BY <2>1, ConcatAdjacentSubSeq
<1>5. Len(SubSeq(c, p + 1, q)) = k
  BY <1>3, <1>q
<1> QED  BY <1>3, <1>4, <1>5, <1>q

\* What the device may be in when it reads on from its block.
Reading(d, content) ==
    /\ d \in DevPair /\ d.s.open /\ d.s.pos <= Len(content)
    /\ "dev" \notin env.late => DevOK(d.s, content) /\ SumOK(d.x.cs)

\* The room for n bytes is what ioc_streamer_tx_available promised.
LEMMA PassOnSettles ==
    ASSUME impSeen \in ImpCopy, env \in Environments, NEW content \in Contents, NEW d, Reading(d, content),
           NEW n \in Nat, n = TxAvailable(d.s.head, impSeen.sig.tail), NEW late \in BOOLEAN
    PROVE  Settled(PassOn(d, content, n, late), content)
<1>r. PICK r : r = PassOn(d, content, n, late)
  OBVIOUS
<1> SUFFICES Settled(r, content)
  BY <1>r
<1>0. /\ d \in DevPair /\ d.s.open /\ d.s.pos <= Len(content) /\ d.s \in DevType
      /\ "dev" \notin env.late => DevOK(d.s, content) /\ SumOK(d.x.cs)
  BY DEF Reading, DevPair
<1>1. d.s.pos \in Nat /\ d.s.sum \in Seq(Nat)
  BY <1>0 DEF DevType
<1>2. content \in Seq(Nat) /\ Len(content) \in Nat
  BY ContentType
<1>k. PICK k : k = LesserOf(n, Len(content) - d.s.pos)
  OBVIOUS
<1>3. k \in 0 .. n /\ k \in 0 .. Len(content) - d.s.pos /\ (k < n => k = Len(content) - d.s.pos)
  BY <1>0, <1>1, <1>2, <1>k DEF LesserOf
<1>b. PICK bytes : bytes = SubSeq(content, d.s.pos + 1, d.s.pos + k)
  OBVIOUS
<1>4. bytes \in Seq(Nat) /\ Len(bytes) = k
      /\ SubSeq(content, 1, d.s.pos) \o bytes = SubSeq(content, 1, d.s.pos + k)
  <2>1. k \in Nat /\ d.s.pos + k <= Len(content)
    BY <1>1, <1>2, <1>3
  <2> QED  BY <1>1, <1>2, <1>b, <2>1, ReadOn
<1>w. PICK w : w = IF k = 0 THEN d ELSE DeviceWrite(d, bytes, FALSE, FALSE, late)
  OBVIOUS
<1>6. /\ w \in DevPair
      /\ w.s.open = d.s.open /\ w.s.pos = d.s.pos /\ w.s.file = d.s.file /\ w.s.ok = d.s.ok
      /\ w.s.step \in DataSteps => d.s.step \in DataSteps /\ w.s.sum = d.s.sum \o bytes
      /\ w.x.cs = d.x.cs
  <2>1. CASE k = 0
    <3>1. d.s.sum \o bytes = d.s.sum
      BY <1>1, <1>4, <2>1, EmptySeq, ConcatEmptySeq
    <3> QED  BY <1>0, <1>w, <2>1, <3>1
  <2>2. CASE k # 0
    <3>1. Written(d, bytes, FALSE, FALSE, w)
      BY <1>0, <1>4, <1>w, <2>2, DeviceWriteFacts
    <3>2. Len(bytes) <= TxAvailable(d.s.head, impSeen.sig.tail)
      BY <1>3, <1>4
    <3> QED  BY <3>1, <3>2 DEF Written
  <2> QED  BY <2>1, <2>2
<1>7. k # 0 => w.s.step # "INITIALIZED"
  BY <1>0, <1>4, <1>w, DeviceWriteFacts
<1>v. PICK v : v = [w EXCEPT !.s.pos = @ + k]
  OBVIOUS
<1>8. /\ v \in DevPair
      /\ v.s.open = d.s.open /\ v.s.pos = d.s.pos + k /\ v.s.file = d.s.file
      /\ v.s.ok = d.s.ok /\ v.s.step = w.s.step /\ v.s.sum = w.s.sum /\ v.x.cs = d.x.cs
  <2>0. w = [s |-> w.s, x |-> w.x] /\ w.s \in DevType /\ w.x \in ExpType
    BY <1>6 DEF DevPair
  <2>p. PICK p : p = w.s.pos + k
    OBVIOUS
  <2>1. v = [s |-> [w.s EXCEPT !.pos = p], x |-> w.x]
    BY <1>v, <2>0, <2>p
  <2>2. p \in Nat /\ p = d.s.pos + k
    BY <1>1, <1>3, <1>6, <2>p
  <2>3. [w.s EXCEPT !.pos = p] \in DevType
    BY <2>0, <2>2 DEF DevType
  <2>4. v \in DevPair /\ v.s = [w.s EXCEPT !.pos = p] /\ v.x = w.x
    BY <2>0, <2>1, <2>3 DEF DevPair
  <2>5. /\ v.s.open = w.s.open /\ v.s.pos = p /\ v.s.file = w.s.file
        /\ v.s.ok = w.s.ok /\ v.s.step = w.s.step /\ v.s.sum = w.s.sum
    BY <2>0, <2>4 DEF DevType
  <2> QED  BY <1>6, <2>2, <2>4, <2>5
<1>9. v.s.pos <= Len(content)
  BY <1>1, <1>2, <1>3, <1>8
<1>10. "dev" \notin env.late /\ v.s.ok /\ v.s.step \in DataSteps
          => v.s.sum = SubSeq(content, 1, v.s.pos)
  BY <1>0, <1>4, <1>6, <1>8 DEF DevOK
<1>11. CASE r = v
  <2>1. "dev" \notin env.late => PairOK(v, content)
    <3> SUFFICES ASSUME "dev" \notin env.late, v.s.ok, v.s.step \in DataSteps, v.s.file = "none"
                 PROVE  v.s.pos = Len(content)
      BY <1>10 DEF PairOK, DevOK
    <3>1. d.s.pos = Len(content)
      BY <1>0, <1>6, <1>8 DEF DevOK
    <3> QED  BY <1>1, <1>2, <1>3, <1>8, <3>1
  <2> QED  BY <1>0, <1>8, <1>9, <1>11, <2>1 DEF Settled
<1>12. CASE r = Finish(v, late) /\ (k < n \/ ~(k = 0 \/ Status(w.s.step) = "SUCCESS"))
  <2>1. v.s.step \in DataSteps => k < n
    <3> SUFFICES ASSUME v.s.step \in DataSteps, ~(k < n)
                 PROVE  FALSE
      OBVIOUS
    <3>1. k # 0 /\ Status(w.s.step) # "SUCCESS"
      BY <1>12
    <3>2. w.s.step = "TRANSFER_DATA"
      BY <1>7, <1>8, <3>1 DEF DataSteps
    <3> QED  BY <3>1, <3>2 DEF Status
  <2>2. "dev" \notin env.late /\ v.s.ok /\ v.s.step \in DataSteps => v.s.sum = content
    <3> SUFFICES ASSUME "dev" \notin env.late, v.s.ok, v.s.step \in DataSteps
                 PROVE  v.s.sum = content
      OBVIOUS
    <3>1. v.s.pos = Len(content)
      BY <1>1, <1>2, <1>3, <1>8, <2>1
    <3>2. SubSeq(content, 1, Len(content)) = content
      BY <1>2
    <3> QED  BY <1>10, <3>1, <3>2
  <2> QED  BY <1>0, <1>8, <1>9, <1>12, <2>2, FinishSettles
<1> QED  BY <1>r, <1>k, <1>b, <1>w, <1>v, <1>11, <1>12 DEF PassOn

\* One call of ioc_ctrl_stream_from_device.
LEMMA FromDeviceSettles ==
    ASSUME impSeen \in ImpCopy, env \in Environments, NEW content \in Contents, NEW d, Reading(d, content),
           NEW late \in BOOLEAN, late => "dev" \in env.late, NEW badRead \in BOOLEAN
    PROVE  Settled(FromDevice(d, content, late, badRead), content)
<1>r. PICK r : r = FromDevice(d, content, late, badRead)
  OBVIOUS
<1> SUFFICES Settled(r, content)
  BY <1>r
<1>0. /\ d \in DevPair /\ d.s.open /\ d.s.pos <= Len(content)
      /\ d = [s |-> d.s, x |-> d.x] /\ d.s \in DevType /\ d.x \in ExpType
      /\ "dev" \notin env.late => DevOK(d.s, content) /\ SumOK(d.x.cs)
  BY DEF Reading, DevPair
<1>n. PICK n : n = IF impSeen.conn THEN TxAvailable(d.s.head, impSeen.sig.tail) ELSE -1
  OBVIOUS
<1>1. n \in Int /\ (n > 0 => n = TxAvailable(d.s.head, impSeen.sig.tail))
  <2>1. d.s.head \in Position /\ impSeen.sig.tail \in Position
    BY <1>0 DEF DevType, ImpCopy, ImpType
  <2> QED  BY <1>n, <2>1, BufSzAssumption DEF TxAvailable, Position
<1>2. CASE d.s.file = "none"
  <2>1. r = Finish(d, late)
    BY <1>r, <1>2 DEF FromDevice
  <2>2. SubSeq(content, 1, Len(content)) = content
    BY ContentType
  <2>3. "dev" \notin env.late /\ d.s.ok /\ d.s.step \in DataSteps => d.s.sum = content
    BY <1>0, <1>2, <2>2 DEF DevOK
  <2> QED  BY <1>0, <2>1, <2>3, FinishSettles
<1>3. CASE d.s.file # "none" /\ n <= 0
  <2>1. r = WaitForSpace(d, late)
    BY <1>r, <1>n, <1>1, <1>3 DEF FromDevice
  <2>2. CASE late
    <3>e. PICK e : e = SetError(d, "TIMEOUT")
      OBVIOUS
    <3>1. r = Finish(e, late) /\ "TIMEOUT" \in Errors
      BY <2>1, <2>2, <3>e DEF WaitForSpace, Errors
    <3>2. e \in DevPair /\ e.s = d.s
      BY <1>0, <3>1, <3>e, ErrorSet
    <3> QED  BY <1>0, <2>2, <3>1, <3>2, FinishSettles
  <2>3. CASE ~late
    BY <1>0, <2>1, <2>3 DEF WaitForSpace, Settled, PairOK
  <2> QED  BY <2>2, <2>3
<1>4. CASE d.s.file # "none" /\ n > 0 /\ badRead
  <2>e. PICK e : e = [d EXCEPT !.s.ok = FALSE]
    OBVIOUS
  <2>1. r = Finish(e, late)
    BY <1>r, <1>n, <1>1, <1>4, <2>e DEF FromDevice
  <2>2. e = [s |-> [d.s EXCEPT !.ok = FALSE], x |-> d.x]
    BY <1>0, <2>e
  <2>3. [d.s EXCEPT !.ok = FALSE] \in DevType
    <3>1. FALSE \in BOOLEAN
      OBVIOUS
    <3> QED  BY <1>0, <3>1 DEF DevType
  <2>4. e \in DevPair /\ e.s = [d.s EXCEPT !.ok = FALSE] /\ e.x = d.x
    BY <1>0, <2>2, <2>3 DEF DevPair
  <2>5. e.s.pos = d.s.pos /\ e.s.ok = FALSE
    BY <1>0, <2>4 DEF DevType
  <2> QED  BY <1>0, <2>1, <2>4, <2>5, FinishSettles
<1>5. CASE d.s.file # "none" /\ n > 0 /\ ~badRead
  <2>1. r = PassOn(d, content, n, late)
    BY <1>r, <1>n, <1>1, <1>5 DEF FromDevice
  <2>2. n \in Nat
    BY <1>1, <1>5
  <2> QED  BY <1>1, <1>5, <2>1, <2>2, PassOnSettles
<1> QED  BY <1>1, <1>2, <1>3, <1>4, <1>5

\* A newly opened block has been read up to its beginning.
LEMMA OpenReads ==
    ASSUME env \in Environments, exp \in ExpType, NEW content \in Contents,
           NEW file \in {"none", "block", "defaults"}
    PROVE  Reading(DeviceOpen(file), content)
<1>r. PICK r : r = DeviceOpen(file)
  OBVIOUS
<1> SUFFICES Reading(r, content)
  BY <1>r
<1>e. PICK e \in Errors : e = IF file # "none" THEN "SUCCESS" ELSE "READING_FILE_FAILED"
  BY DEF Errors
<1>s. PICK t : t = [NoFile EXCEPT !.open = TRUE, !.file = file, !.ok = file # "none"]
  OBVIOUS
<1>x. PICK x : x = [exp EXCEPT !.state = "IDLE", !.head = 0, !.cs = NoSum, !.err = e]
  OBVIOUS
<1>1. "IDLE" \in States /\ 0 \in Position /\ "INITIALIZED" \in Steps /\ <<>> \in Seq(Nat)
  BY BufSzAssumption DEF States, Position, Steps
<1>2. x \in ExpType /\ x.cs = NoSum
  BY <1>x, <1>1 DEF ExpType
<1>3. t \in DevType /\ t.open /\ t.pos = 0 /\ t.sum = <<>> /\ (t.ok <=> t.file # "none")
  BY <1>s, <1>1 DEF DevType, NoFile
<1>4. r = [s |-> t, x |-> x]
  BY <1>r, <1>e, <1>s, <1>x DEF DeviceOpen
<1>5. r \in DevPair /\ r.s = t /\ r.x = x
  BY <1>2, <1>3, <1>4 DEF DevPair
<1>6. SubSeq(content, 1, 0) = <<>>
  BY SubSeqEmpty
<1>7. r.s.open /\ r.s.pos = 0 /\ r.s.pos <= Len(content)
  BY <1>3, <1>5, ContentType
<1>8. SumOK(r.x.cs)
  BY <1>2, <1>5 DEF SumOK
<1>9. DevOK(r.s, content)
  BY <1>3, <1>5, <1>6 DEF DevOK
<1> QED  BY <1>5, <1>7, <1>8, <1>9 DEF Reading

LEMMA DeviceStep ==
    ASSUME FrdInv, Device
    PROVE  FrdInv'
<1>1. PICK found \in BOOLEAN, late \in BOOLEAN, badRead \in BOOLEAN :
         RunControlStream(found, late, badRead)
  BY DEF Device
<1>2. Types /\ impSeen \in ImpCopy /\ env \in Environments /\ exp \in ExpType /\ dev \in DevType
      /\ dev.pos <= Len(Data) /\ opened \in Block
  BY DEF FrdInv, Types
<1>b. PICK b \in Block : b = OpenBlock(opened)
  BY <1>2 DEF OpenBlock, ImpCopy, ImpType
<1>c. PICK content \in Contents : content = Content(b)
  BY DEF Contents
<1>f. PICK file \in {"none", "block", "defaults"} : file = FileOf(b, found)
  BY DEF FileOf
<1>d. PICK d : d = IF dev.open THEN Device0 ELSE DeviceOpen(file)
  OBVIOUS
<1>r. PICK r : r = FromDevice(d, content, late, badRead)
  OBVIOUS
<1>3. /\ late => "dev" \in env.late
      /\ dev' = r.s /\ exp' = r.x /\ opened' = b
      /\ UNCHANGED <<ctl, imp, expLine, impLine, expSeen, impSeen, link, selected, env>>
  BY <1>1, <1>b, <1>c, <1>f, <1>d, <1>r DEF RunControlStream
<1>4. Reading(d, content)
  <2>1. CASE dev.open
    <3>1. d = [s |-> dev, x |-> exp]
      BY <1>d, <2>1 DEF Device0
    <3>2. d \in DevPair /\ d.s = dev /\ d.x = exp
      BY <1>2, <3>1 DEF DevPair
    <3>3. content = Data
      BY <1>b, <1>c, <2>1 DEF OpenBlock, Data
    <3> QED  BY <1>2, <2>1, <3>2, <3>3 DEF Reading, FrdInv, Whole
  <2>2. CASE ~dev.open
    BY <1>2, <1>d, <2>2, OpenReads
  <2> QED  BY <2>1, <2>2
<1>5. Settled(r, content)
  BY <1>2, <1>3, <1>4, <1>r, FromDeviceSettles
<1>6. Data' = content /\ Contents' = Contents
  BY <1>3, <1>c DEF Data, Content, Contents
<1>7. dev' \in DevType /\ exp' \in ExpType /\ dev'.pos <= Len(Data')
      /\ ("dev" \notin env.late => (dev'.open => DevOK(dev', Data')) /\ SumOK(exp'.cs))
  BY <1>3, <1>5, <1>6 DEF Settled, DevPair, PairOK
<1>8. Types'
  BY <1>2, <1>3, <1>7 DEF Types
<1>9. "dev" \notin env.late => Whole'
  BY <1>3, <1>6, <1>7 DEF FrdInv, Whole, DevOK, SumOK
<1> QED  BY <1>3, <1>8, <1>9 DEF FrdInv

----------------------------------------------------------------------------
(* The controller.                                                         *)

Commands == {"IDLE", "RUNNING"}

\* The ways in which the code changes the step and its signals.
CtlStep(c, t) == [c EXCEPT !.s.step = t]
CtlCommand(c, m, t) == [c EXCEPT !.x.cmd = m, !.s.step = t]
CtlSelect(c, b) == [c EXCEPT !.x.sel = b]
CtlDone(c) == [c EXCEPT !.s.step = "ALL_COMPLETED", !.x.tail = 0]

LEMMA CtlChanges ==
    ASSUME NEW c \in CtlPair, NEW t \in Steps, NEW m \in Commands, NEW b \in Block
    PROVE  CtlStep(c, t) \in CtlPair /\ CtlCommand(c, m, t) \in CtlPair /\ CtlDone(c) \in CtlPair
           /\ CtlSelect(c, b) \in CtlPair
<1>0. c = [s |-> c.s, x |-> c.x] /\ c.s \in CtlType /\ c.x \in ImpType
  BY DEF CtlPair
<1>1. "ALL_COMPLETED" \in Steps /\ 0 \in Position
  BY BufSzAssumption DEF Steps, Position
<1>2. [c.s EXCEPT !.step = t] \in CtlType /\ [c.s EXCEPT !.step = "ALL_COMPLETED"] \in CtlType
  BY <1>0, <1>1 DEF CtlType
<1>3. [c.x EXCEPT !.cmd = m] \in ImpType /\ [c.x EXCEPT !.tail = 0] \in ImpType
      /\ [c.x EXCEPT !.sel = b] \in ImpType
  BY <1>0, <1>1 DEF ImpType, Commands
<1>4. ASSUME NEW r, r = CtlStep(c, t)
      PROVE  r \in CtlPair
  <2>1. r = [s |-> [c.s EXCEPT !.step = t], x |-> c.x]
    BY <1>0, <1>4 DEF CtlStep
  <2> QED  BY <1>0, <1>2, <2>1 DEF CtlPair
<1>5. ASSUME NEW r, r = CtlCommand(c, m, t)
      PROVE  r \in CtlPair
  <2>1. r = [c EXCEPT !.x.cmd = m, !.s.step = t]
    BY <1>5 DEF CtlCommand
  <2>2. r = [s |-> [c.s EXCEPT !.step = t], x |-> [c.x EXCEPT !.cmd = m]]
    BY <1>0, <2>1
  <2> QED  BY <1>2, <1>3, <2>2 DEF CtlPair
<1>6. ASSUME NEW r, r = CtlDone(c)
      PROVE  r \in CtlPair
  <2>1. r = [c EXCEPT !.s.step = "ALL_COMPLETED", !.x.tail = 0]
    BY <1>6 DEF CtlDone
  <2>2. r = [s |-> [c.s EXCEPT !.step = "ALL_COMPLETED"], x |-> [c.x EXCEPT !.tail = 0]]
    BY <1>0, <2>1
  <2> QED  BY <1>2, <1>3, <2>2 DEF CtlPair
<1>7. ASSUME NEW r, r = CtlSelect(c, b)
      PROVE  r \in CtlPair
  <2>1. r = [c EXCEPT !.x.sel = b]
    BY <1>7 DEF CtlSelect
  <2>2. r = [s |-> c.s, x |-> [c.x EXCEPT !.sel = b]]
    BY <1>0, <2>1
  <2> QED  BY <1>0, <1>3, <2>2 DEF CtlPair
<1> QED  BY <1>4, <1>5, <1>6, <1>7

LEMMA ReadDataType ==
    ASSUME expSeen \in ExpCopy, NEW c \in CtlPair, NEW n \in Nat, NEW late \in BOOLEAN
    PROVE  ReadData(c, n, late) \in CtlPair
<1>0. c = [s |-> c.s, x |-> c.x] /\ c.s \in CtlType /\ c.x \in ImpType
  BY DEF CtlPair
<1>1. c.s.tail \in Position /\ c.s.sum \in Seq(Nat)
  BY <1>0 DEF CtlType
<1>2. expSeen.sig.head \in Position /\ expSeen.sig.buf \in [Position -> Nat]
  BY DEF ExpCopy, ExpType
<1>k. PICK k : k = ReadCount(expSeen.sig.head, c.s.tail, n)
  OBVIOUS
<1>3. k \in 0 .. n
  BY <1>1, <1>2, <1>k, ReadSome
<1>t. PICK t : t = (c.s.tail + k) % BufSz
  OBVIOUS
<1>4. t \in Position
  <2>1. c.s.tail + k \in Int
    BY <1>1, <1>3, BufSzAssumption DEF Position
  <2> QED  BY <1>t, <2>1, RingIndex
<1>x. PICK xt : xt = IF k > 0 THEN t ELSE c.x.tail
  OBVIOUS
<1>5. xt \in Position
  BY <1>0, <1>4, <1>x DEF ImpType
<1>u. PICK u : u = c.s.sum \o Fetched(expSeen.sig.buf, c.s.tail, k)
  OBVIOUS
<1>6. u \in Seq(Nat)
  <2>1. k \in Nat
    BY <1>3
  <2>2. Fetched(expSeen.sig.buf, c.s.tail, k) \in Seq(Nat)
    BY <1>1, <1>2, <2>1, FetchedType
  <2> QED  BY <1>1, <1>u, <2>2
<1>d. PICK d : d = [c EXCEPT !.s.tail = t, !.x.tail = xt, !.s.sum = u]
  OBVIOUS
<1>7. d \in CtlPair
  <2>1. d = [s |-> [c.s EXCEPT !.tail = t, !.sum = u], x |-> [c.x EXCEPT !.tail = xt]]
    BY <1>0, <1>d
  <2>2. [c.s EXCEPT !.tail = t, !.sum = u] \in CtlType
    BY <1>0, <1>4, <1>6 DEF CtlType
  <2>3. [c.x EXCEPT !.tail = xt] \in ImpType
    BY <1>0, <1>5 DEF ImpType
  <2> QED  BY <2>1, <2>2, <2>3 DEF CtlPair
<1>8. \/ ReadData(c, n, late) = d
      \/ ReadData(c, n, late) = CtlStep(d, "FAILED")
      \/ ReadData(c, n, late) = CtlCommand(d, "IDLE", "TRANSFER_DONE2")
  BY <1>k, <1>t, <1>x, <1>u, <1>d DEF ReadData, CtlStep, CtlCommand
<1>9. {"FAILED", "TRANSFER_DONE2"} \subseteq Steps /\ "IDLE" \in Commands
  BY DEF Steps, Commands
<1>10. 0 \in Block
  BY StreamerFrdAssumption
<1> QED  BY <1>7, <1>8, <1>9, <1>10, CtlChanges

LEMMA ControllerReadType ==
    ASSUME expSeen \in ExpCopy, NEW c0 \in CtlPair, NEW n \in Nat, NEW late \in BOOLEAN,
           NEW interrupt \in BOOLEAN, selected \in Block
    PROVE  ControllerRead(c0, n, interrupt, late) \in CtlPair
<1>c. PICK c : c = IF expSeen.conn \/ c0.s.step = "FAILED_AND_IDLE_SET" THEN c0
                   ELSE [c0 EXCEPT !.x.cmd = "IDLE", !.s.step = "FAILED_AND_IDLE_SET"]
  OBVIOUS
<1>1. {"FAILED", "FAILED2", "TRANSFER_DATA", "INITIALIZED2", "FAILED_AND_IDLE_SET"} \subseteq Steps
      /\ {"IDLE", "RUNNING"} \subseteq Commands
  BY DEF Steps, Commands
<1>2. c \in CtlPair
  <2>1. c = c0 \/ c = CtlCommand(c0, "IDLE", "FAILED_AND_IDLE_SET")
    BY <1>c DEF CtlCommand
  <2> QED  BY <1>1, <2>1, CtlChanges
<1>e. PICK e : e = CtlSelect(c, selected)
  OBVIOUS
<1>r. PICK r : r = ControllerRead(c0, n, interrupt, late)
  OBVIOUS
<1>5. e \in CtlPair
  BY <1>1, <1>2, <1>e, CtlChanges
<1>6. [c EXCEPT !.x.sel = selected, !.x.cmd = "RUNNING", !.s.step = "INITIALIZED2"]
         = CtlCommand(e, "RUNNING", "INITIALIZED2")
  BY <1>e DEF CtlSelect, CtlCommand
<1>3. \/ r = c \/ r = ReadData(c, n, late) \/ r = CtlDone(c)
      \/ \E t \in {"FAILED", "TRANSFER_DATA", "FAILED_AND_IDLE_SET"} : r = CtlStep(c, t)
      \/ r = CtlCommand(e, "RUNNING", "INITIALIZED2")
      \/ r = CtlCommand(c, "IDLE", "FAILED2")
  BY <1>r, <1>c, <1>6 DEF ControllerRead, AwaitStart, CtlStep, CtlCommand, CtlDone
<1>4. r \in CtlPair
  BY <1>1, <1>2, <1>3, <1>5, CtlChanges, ReadDataType
<1> QED  BY <1>r, <1>4

LEMMA IdleCommandType ==
    ASSUME imp \in ImpType
    PROVE  IdleCommand \in ImpType /\ IdleCommand.cmd = "IDLE" /\ IdleCommand.tail = 0
<1>1. 0 \in Position
  BY BufSzAssumption DEF Position
<1> QED  BY <1>1 DEF IdleCommand, ImpType

\* A completed transfer has the checksum of a whole block, which is that of
\* no other sequence of bytes.
LEMMA ReadStep ==
    ASSUME FrdInv, Controller
    PROVE  FrdInv'
<1>1. PICK n \in env.sizes, interrupt \in BOOLEAN, late \in BOOLEAN : Read(n, interrupt, late)
  BY DEF Controller
<1>2. Types /\ env \in Environments /\ expSeen \in ExpCopy /\ ctl \in CtlType /\ imp \in ImpType
      /\ selected \in Block
  BY DEF FrdInv, Types
<1>3. n \in Nat
  BY <1>2, StreamerFrdAssumption
<1>c. PICK c : c = ControllerRead(Controller0, n, interrupt, late)
  OBVIOUS
<1>r. PICK r : r = CASE Status(c.s.step) = "SUCCESS" -> "none"
                     [] Status(c.s.step) = "ERROR" -> "failed"
                     [] OTHER -> IF c.s.sum = expSeen.sig.cs THEN "completed" ELSE "failed"
  OBVIOUS
<1>4. /\ ctl' = [c.s EXCEPT !.result = r, !.open = r = "none"]
      /\ imp' = IF r = "none" THEN c.x ELSE IdleCommand
      /\ UNCHANGED <<dev, exp, expLine, impLine, expSeen, impSeen, link, opened, selected, env>>
  BY <1>1, <1>c, <1>r DEF Read
<1>5. c.s \in CtlType /\ c.x \in ImpType
  <2>p. PICK q : q = Controller0
    OBVIOUS
  <2>1. q \in CtlPair
    BY <1>2, <2>p DEF Controller0, CtlPair
  <2>2. c \in CtlPair
    BY <1>2, <1>3, <1>c, <2>p, <2>1, ControllerReadType
  <2> QED  BY <2>2 DEF CtlPair
<1>6. /\ r \in {"none", "completed", "failed"}
      /\ r = "completed" => c.s.sum = expSeen.sig.cs
  BY <1>r
<1>o. PICK o \in BOOLEAN : o = (r = "none")
  OBVIOUS
<1>7. ctl' \in CtlType /\ ctl'.result = r /\ ctl'.sum = c.s.sum
  <2>1. ctl' = [c.s EXCEPT !.result = r, !.open = o]
    BY <1>4, <1>o
  <2> QED  BY <1>5, <1>6, <2>1 DEF CtlType
<1>8. imp' \in ImpType
  <2>1. IdleCommand \in ImpType
    BY <1>2, IdleCommandType
  <2> QED  BY <1>4, <1>5, <2>1
<1>d. Data' = Data /\ Contents' = Contents
  BY <1>4 DEF Data, Content, Contents
<1>9. Types'
  BY <1>2, <1>4, <1>7, <1>8, <1>d DEF Types
<1>10. ASSUME "dev" \notin env.late, ctl'.result = "completed"
       PROVE  ctl'.sum \in Contents
  <2>1. expSeen.sig.cs = NoSum \/ expSeen.sig.cs \in Contents
    BY <1>10 DEF FrdInv, Whole, SumOK
  <2>2. c.s.sum \in Seq(Nat) /\ c.s.sum = expSeen.sig.cs
    BY <1>5, <1>6, <1>7, <1>10 DEF CtlType
  <2>3. NoSum \notin Seq(Nat)
    <3>1. NoSum[1] = -1 /\ Len(NoSum) = 1
      BY DEF NoSum
    <3> QED  BY <3>1
  <2> QED  BY <1>7, <2>1, <2>2, <2>3
<1>11. "dev" \notin env.late => Whole'
  BY <1>4, <1>10, <1>d DEF FrdInv, Whole, DevOK, SumOK
<1> QED  BY <1>4, <1>9, <1>11 DEF FrdInv

\* Opening and releasing the stream leave no result behind.
LEMMA OpenCloseStep ==
    ASSUME FrdInv, Open \/ CloseRead
    PROVE  FrdInv'
<1>0. Types /\ imp \in ImpType /\ selected \in Block
  BY DEF FrdInv, Types
<1>1. ctl' \in CtlType /\ ctl'.result = "none" /\ imp' \in ImpType /\ selected' \in Block
      /\ UNCHANGED <<dev, exp, expLine, impLine, expSeen, impSeen, link, opened, env>>
  <2>1. 0 \in Position /\ "INITIALIZED" \in Steps /\ <<>> \in Seq(Nat)
    BY BufSzAssumption DEF Position, Steps
  <2>2. NoReader \in CtlType /\ NoReader.result = "none" /\ IdleCommand \in ImpType
    BY <1>0, <2>1, IdleCommandType DEF NoReader, CtlType
  <2>3. PICK q : q = [NoReader EXCEPT !.open = TRUE]
    OBVIOUS
  <2>4. q \in CtlType /\ q.result = "none"
    BY <2>2, <2>3 DEF CtlType
  <2>5. (ctl' = q \/ ctl' = NoReader) /\ imp' = IdleCommand /\ selected' \in Block
        /\ UNCHANGED <<dev, exp, expLine, impLine, expSeen, impSeen, link, opened, env>>
    BY <1>0, <2>3 DEF Open, OpenRead, CloseRead
  <2> QED  BY <2>2, <2>4, <2>5
<1>d. Data' = Data /\ Contents' = Contents
  BY <1>1 DEF Data, Content, Contents
<1>2. Types'
  BY <1>0, <1>1, <1>d DEF Types
<1>3. "dev" \notin env.late => Whole'
  BY <1>1, <1>d DEF FrdInv, Whole, DevOK, SumOK
<1> QED  BY <1>1, <1>2, <1>3 DEF FrdInv

----------------------------------------------------------------------------
(* The memory blocks.                                                      *)

\* What the steps of the connection have in common.
LEMMA BlockStep ==
    ASSUME FrdInv, UNCHANGED <<dev, exp, ctl, imp, opened, selected, env>>,
           expLine' \in Seq(ExpType), impLine' \in Seq(ImpType),
           expSeen' \in ExpCopy, impSeen' \in ImpCopy,
           "dev" \notin env.late =>
              /\ SumOK(expSeen'.sig.cs)
              /\ \A i \in 1 .. Len(expLine') : SumOK(expLine'[i].cs)
    PROVE  FrdInv'
<1>d. Data' = Data /\ Contents' = Contents
  BY DEF Data, Content, Contents
<1>1. Types'
  BY <1>d DEF FrdInv, Types
<1>2. "dev" \notin env.late => Whole'
  BY <1>d DEF FrdInv, Whole, DevOK, SumOK
<1> QED  BY <1>1, <1>2 DEF FrdInv

LEMMA BlocksStep ==
    ASSUME FrdInv, Blocks
    PROVE  FrdInv'
<1>1. Types /\ (("dev" \notin env.late) => Whole)
  BY DEF FrdInv
<1>2. CASE SendExp
  <2>0. exp \in ExpType /\ expLine \in Seq(ExpType) /\ expLine' = Append(expLine, exp)
        /\ UNCHANGED <<dev, exp, ctl, imp, impLine, expSeen, impSeen, opened, selected, env>>
    BY <1>1, <1>2 DEF SendExp, Types
  <2>1. expLine' \in Seq(ExpType) /\ Len(expLine') = Len(expLine) + 1
        /\ \A i \in 1 .. Len(expLine) + 1 :
              expLine'[i] = IF i = Len(expLine) + 1 THEN exp ELSE expLine[i]
    BY <2>0
  <2>2. "dev" \notin env.late => \A i \in 1 .. Len(expLine') : SumOK(expLine'[i].cs)
    BY <1>1, <2>0, <2>1 DEF Whole
  <2> QED  BY <1>1, <2>0, <2>1, <2>2, BlockStep DEF Types, Whole
<1>3. CASE SendImp
  <2>1. impLine' \in Seq(ImpType) /\ UNCHANGED <<dev, exp, ctl, imp, expLine, expSeen, impSeen, opened, selected, env>>
    BY <1>1, <1>3 DEF SendImp, Types
  <2> QED  BY <1>1, <2>1, BlockStep DEF Types, Whole
<1>4. CASE ReceiveExp
  <2>0. expLine \in Seq(ExpType) /\ expLine # <<>> /\ expLine' = Tail(expLine)
        /\ expSeen' = [sig |-> Head(expLine), conn |-> TRUE]
        /\ UNCHANGED <<dev, exp, ctl, imp, impLine, impSeen, opened, selected, env>>
    BY <1>1, <1>4 DEF ReceiveExp, Types
  <2>1. expLine' \in Seq(ExpType) /\ Len(expLine') = Len(expLine) - 1 /\ Len(expLine) \in Nat
        /\ (\A i \in 1 .. Len(expLine) - 1 : expLine'[i] = expLine[i + 1])
        /\ Head(expLine) = expLine[1] /\ 1 \in 1 .. Len(expLine) /\ Head(expLine) \in ExpType
    BY <2>0
  <2>2. expSeen' \in ExpCopy /\ expSeen'.sig = expLine[1]
    BY <2>0, <2>1 DEF ExpCopy
  <2>3. "dev" \notin env.late => \A i \in 1 .. Len(expLine') : SumOK(expLine'[i].cs)
    BY <1>1, <2>1 DEF Whole
  <2> QED  BY <1>1, <2>0, <2>1, <2>2, <2>3, BlockStep DEF Types, Whole
<1>5. CASE ReceiveImp
  <2>0. impLine \in Seq(ImpType) /\ impLine # <<>> /\ impLine' = Tail(impLine)
        /\ impSeen' = [sig |-> Head(impLine), conn |-> TRUE]
        /\ UNCHANGED <<dev, exp, ctl, imp, expLine, expSeen, opened, selected, env>>
    BY <1>1, <1>5 DEF ReceiveImp, Types
  <2>1. impLine' \in Seq(ImpType) /\ impSeen' \in ImpCopy
    BY <2>0 DEF ImpCopy
  <2> QED  BY <1>1, <2>0, <2>1, BlockStep DEF Types, Whole
<1> QED  BY <1>2, <1>3, <1>4, <1>5 DEF Blocks

LEMMA LinkStep ==
    ASSUME FrdInv, Break \/ Notice \/ Relink
    PROVE  FrdInv'
<1>1. Types /\ (("dev" \notin env.late) => Whole)
  BY DEF FrdInv
<1>2. CASE Break
  <2>1. expLine' = <<>> /\ impLine' = <<>> /\ UNCHANGED <<dev, exp, ctl, imp, expSeen, impSeen, opened, selected, env>>
    BY <1>2 DEF Break
  <2> QED  BY <1>1, <2>1, BlockStep DEF Types, Whole
<1>3. CASE Notice
  <2>1. UNCHANGED <<dev, exp, ctl, imp, expLine, impLine, opened, selected, env>>
        /\ (expSeen' = expSeen \/ expSeen' = [expSeen EXCEPT !.conn = FALSE])
        /\ (impSeen' = impSeen \/ impSeen' = [impSeen EXCEPT !.conn = FALSE])
    BY <1>3 DEF Notice
  <2>2. expSeen' \in ExpCopy /\ expSeen'.sig = expSeen.sig
    BY <1>1, <2>1 DEF Types, ExpCopy
  <2>3. impSeen' \in ImpCopy
    BY <1>1, <2>1 DEF Types, ImpCopy
  <2> QED  BY <1>1, <2>1, <2>2, <2>3, BlockStep DEF Types, Whole
<1>4. CASE Relink
  <2>1. expLine' = <<exp>> /\ impLine' = <<imp>> /\ UNCHANGED <<dev, exp, ctl, imp, expSeen, impSeen, opened, selected, env>>
    BY <1>4 DEF Relink
  <2>2. expLine' \in Seq(ExpType) /\ impLine' \in Seq(ImpType)
    BY <1>1, <2>1 DEF Types
  <2>3. Len(expLine') = 1 /\ expLine'[1] = exp
    BY <2>1
  <2>4. "dev" \notin env.late => \A i \in 1 .. Len(expLine') : SumOK(expLine'[i].cs)
    BY <1>1, <2>3 DEF Whole
  <2> QED  BY <1>1, <2>1, <2>2, <2>4, BlockStep DEF Types, Whole
<1> QED  BY <1>2, <1>3, <1>4

----------------------------------------------------------------------------
LEMMA InitFrd == Init => FrdInv
<1> SUFFICES ASSUME Init PROVE FrdInv
  OBVIOUS
<1> USE DEF Init
<1>1. 0 \in Position /\ "INITIALIZED" \in Steps /\ "IDLE" \in States /\ "SUCCESS" \in Errors
      /\ <<>> \in Seq(Nat)
  BY BufSzAssumption DEF Position, Steps, States, Errors
<1>2. env \in Environments /\ opened = 0 /\ selected = 0 /\ 0 \in Block /\ Len(Data) \in Nat
  BY ContentType, StreamerFrdAssumption DEF Data
<1>3. dev \in DevType /\ ~dev.open /\ dev.pos = 0
  BY <1>1 DEF NoFile, DevType
<1>4. exp \in ExpType /\ exp.cs = NoSum
  BY <1>1 DEF ExpType
<1>5. ctl \in CtlType /\ ctl.result = "none" /\ imp \in ImpType
  BY <1>1, <1>2 DEF NoReader, CtlType, NoCommand, ImpType
<1>6. expSeen \in ExpCopy /\ expSeen.sig = exp /\ impSeen \in ImpCopy
  BY <1>4, <1>5 DEF ExpCopy, ImpCopy
<1>7. expLine = <<>> /\ impLine = <<>>
  OBVIOUS
<1>8. Types
  BY <1>2, <1>3, <1>4, <1>5, <1>6, <1>7 DEF Types
<1>9. Whole
  BY <1>3, <1>4, <1>5, <1>6, <1>7 DEF Whole, SumOK
<1> QED  BY <1>8, <1>9 DEF FrdInv

\* The invariant is kept by every step of the device, of the controller and of
\* the connection between them.
THEOREM FrdInvariance == Spec => []FrdInv
<1>1. FrdInv /\ [Next]_vars => FrdInv'
  <2> SUFFICES ASSUME FrdInv, [Next]_vars
               PROVE  FrdInv'
    OBVIOUS
  <2>1. CASE UNCHANGED vars
    <3>d. Data' = Data /\ Contents' = Contents
      BY <2>1 DEF vars, Data, Content, Contents
    <3>1. Types'
      BY <2>1, <3>d DEF vars, FrdInv, Types
    <3>2. "dev" \notin env.late => Whole'
      BY <2>1, <3>d DEF vars, FrdInv, Whole, DevOK, SumOK
    <3> QED  BY <2>1, <3>1, <3>2 DEF vars, FrdInv
  <2> QED  BY <2>1, DeviceStep, ReadStep, OpenCloseStep, BlocksStep, LinkStep DEF Next
<1> QED  BY <1>1, InitFrd, PTL DEF Spec

----------------------------------------------------------------------------
(* Undisturbed transfers: the ring without remainders.                     *)

\* Bytes from the tail to the head, and place k after a position.
Dist(head, tail) == IF head >= tail THEN head - tail ELSE head - tail + BufSz
Onward(pos, k) == IF pos + k >= BufSz THEN pos + k - BufSz ELSE pos + k

\* A remainder of less than two turns.
LEMMA OneTurn ==
    ASSUME NEW i \in Int, 0 - BufSz <= i, i < BufSz + BufSz
    PROVE  i % BufSz = IF i < 0 THEN i + BufSz ELSE IF i >= BufSz THEN i - BufSz ELSE i
<1>1. BufSz \in Nat /\ BufSz > 1
  BY BufSzAssumption
<1>2. i < 0 => i % BufSz = i + BufSz
  BY <1>1, SMTT(20)
<1>3. i >= BufSz => i % BufSz = i - BufSz
  BY <1>1, SMTT(20)
<1>4. i >= 0 /\ i < BufSz => i % BufSz = i
  BY <1>1, SMTT(20)
<1> QED  BY <1>1, <1>2, <1>3, <1>4

LEMMA OnwardMod ==
    ASSUME NEW p \in Position, NEW k \in 0 .. BufSz
    PROVE  (p + k) % BufSz = Onward(p, k) /\ Onward(p, k) \in Position
<1>1. p + k \in Int /\ 0 - BufSz <= p + k /\ p + k < BufSz + BufSz /\ p \in Int /\ k \in Int /\ BufSz \in Nat
      /\ p >= 0 /\ p < BufSz /\ k >= 0 /\ k <= BufSz
  BY BufSzAssumption DEF Position
<1>2. (p + k) % BufSz = Onward(p, k)
  BY <1>1, OneTurn DEF Onward
<1> QED  BY <1>1, <1>2 DEF Onward, Position

LEMMA DistMod ==
    ASSUME NEW head \in Position, NEW tail \in Position
    PROVE  (head - tail) % BufSz = Dist(head, tail) /\ Dist(head, tail) \in Position
<1>1. head \in Int /\ tail \in Int /\ BufSz \in Nat /\ head >= 0 /\ head < BufSz /\ tail >= 0 /\ tail < BufSz
      /\ head - tail \in Int /\ 0 - BufSz <= head - tail /\ head - tail < BufSz + BufSz
  BY BufSzAssumption DEF Position
<1>2. (head - tail) % BufSz = Dist(head, tail)
  BY <1>1, OneTurn DEF Dist
<1> QED  BY <1>1, <1>2 DEF Dist, Position

LEMMA Room ==
    ASSUME NEW head \in Position, NEW tail \in Position
    PROVE  TxAvailable(head, tail) = BufSz - 1 - Dist(head, tail)
BY BufSzAssumption DEF TxAvailable, Dist, Position

LEMMA HeadMoves ==
    ASSUME NEW head \in Position, NEW tail \in Position, NEW m \in Nat,
           m + Dist(head, tail) < BufSz
    PROVE  Onward(head, m) \in Position /\ Dist(Onward(head, m), tail) = Dist(head, tail) + m
BY BufSzAssumption DEF Onward, Dist, Position

LEMMA TailMoves ==
    ASSUME NEW head \in Position, NEW tail \in Position, NEW m \in 0 .. Dist(head, tail)
    PROVE  Onward(tail, m) \in Position /\ Dist(head, Onward(tail, m)) = Dist(head, tail) - m
BY BufSzAssumption DEF Onward, Dist, Position

LEMMA OnwardOnward ==
    ASSUME NEW p \in Position, NEW j \in Nat, NEW k \in Nat, j + k < BufSz
    PROVE  Onward(Onward(p, j), k) = Onward(p, j + k) /\ Onward(p, j) \in Position
BY BufSzAssumption DEF Onward, Position

\* A place is at its distance; the places from the tail are those from the head.
LEMMA FromTail ==
    ASSUME NEW head \in Position, NEW tail \in Position, NEW k \in Position
    PROVE  Onward(tail, k) =
              Onward(head, IF k < Dist(head, tail) THEN BufSz - (Dist(head, tail) - k)
                                                   ELSE k - Dist(head, tail))
BY BufSzAssumption DEF Onward, Dist, Position

LEMMA ReadAll ==
    ASSUME NEW head \in Position, NEW tail \in Position, NEW n \in Nat
    PROVE  ReadCount(head, tail, n) = LesserOf(n, Dist(head, tail))
BY BufSzAssumption DEF Position, ReadCount, ReadToEnd, Wrapped, LesserOf, Dist

LEMMA StoredOnward ==
    ASSUME NEW buf, NEW head \in Position, NEW bytes \in Seq(Nat), NEW k \in Position
    PROVE  Stored(buf, head, bytes)[Onward(head, k)] =
              IF k < Len(bytes) THEN bytes[k + 1] ELSE buf[Onward(head, k)]
<1>i. PICK i : i = Onward(head, k)
  OBVIOUS
<1>1. i \in Position /\ head \in Int /\ i \in Int
  BY <1>i, BufSzAssumption DEF Onward, Position
<1>2. (i - head) % BufSz = k
  <2>1. Dist(i, head) = k
    BY <1>i, BufSzAssumption DEF Onward, Dist, Position
  <2> QED  BY <1>1, <2>1, DistMod
<1>3. Stored(buf, head, bytes)[i] = IF k < Len(bytes) THEN bytes[k + 1] ELSE buf[i]
  BY <1>1, <1>2 DEF Stored
<1> QED  BY <1>i, <1>3

LEMMA FetchedOnward ==
    ASSUME NEW buf \in [Position -> Nat], NEW tail \in Position, NEW n \in 0 .. BufSz
    PROVE  /\ Fetched(buf, tail, n) \in Seq(Nat) /\ Len(Fetched(buf, tail, n)) = n
           /\ \A k \in 1 .. n : Fetched(buf, tail, n)[k] = buf[Onward(tail, k - 1)]
<1>0. n \in Nat
  OBVIOUS
<1>1. Fetched(buf, tail, n) \in Seq(Nat)
  BY <1>0, FetchedType
<1>2. ASSUME NEW k \in 1 .. n
      PROVE  Fetched(buf, tail, n)[k] = buf[Onward(tail, k - 1)]
  <2>j. PICK j : j = k - 1
    OBVIOUS
  <2>1. j \in 0 .. BufSz /\ tail + k - 1 = tail + j
    BY <2>j, BufSzAssumption DEF Position
  <2>2. (tail + j) % BufSz = Onward(tail, j)
    BY <2>1, OnwardMod
  <2>3. Fetched(buf, tail, n)[k] = buf[(tail + k - 1) % BufSz]
    BY DEF Fetched
  <2> QED  BY <2>j, <2>1, <2>2, <2>3
<1>3. Len(Fetched(buf, tail, n)) = n
  <2>f. PICK f : f = Fetched(buf, tail, n)
    OBVIOUS
  <2>1. DOMAIN f = 1 .. n
    BY <2>f DEF Fetched
  <2>2. f \in Seq(Nat)
    BY <1>1, <2>f
  <2>3. Len(f) \in Nat /\ DOMAIN f = 1 .. Len(f)
    BY <2>2
  <2>4. Len(f) = n
    BY <1>0, <2>1, <2>3
  <2> QED  BY <2>f, <2>4
<1> QED  BY <1>1, <1>2, <1>3

----------------------------------------------------------------------------
(* Undisturbed transfers: the device.                                      *)

\* A device before or in the data phase.
Ready(d, content) ==
    /\ d \in DevPair /\ d.s.open /\ d.s.ok /\ d.s.step \in DataSteps
    /\ d.s.step = "TRANSFER_DATA" => d.x.state = "RUNNING"
    /\ d.s.pos <= Len(content) /\ d.s.sum = SubSeq(content, 1, d.s.pos) /\ d.x.head = d.s.head

\* r is d with m more bytes in the ring.
Fed(d, m, r, content) ==
    /\ m \in Nat /\ r.s.head = Onward(d.s.head, m)
    /\ r.s.pos = d.s.pos + m
    /\ \A k \in Position : r.x.buf[Onward(d.s.head, k)] =
           IF k < m THEN content[d.s.pos + k + 1] ELSE d.x.buf[Onward(d.s.head, k)]

\* The end of a transfer at the device.
IsDone(r, content) ==
    /\ r \in DevPair /\ r.s.open /\ r.s.ok /\ r.s.step = "TRANSFER_DONE"
    /\ r.s.pos = Len(content)
    /\ r.x.state = "COMPLETED" /\ r.x.head = r.s.head /\ r.x.cs = content

\* A device that sees a command running starts the data phase if it is not in it.
Started(d) == [s |-> [d.s EXCEPT !.step = "TRANSFER_DATA"], x |-> [d.x EXCEPT !.state = "RUNNING"]]

LEMMA StartedFacts ==
    ASSUME NEW d \in DevPair, d.s.step \in DataSteps,
           d.s.step = "TRANSFER_DATA" => d.x.state = "RUNNING"
    PROVE  /\ Started(d) \in DevPair
           /\ Started(d).s = [d.s EXCEPT !.step = "TRANSFER_DATA"]
           /\ Started(d).x = [d.x EXCEPT !.state = "RUNNING"]
           /\ d.s.step = "TRANSFER_DATA" => Started(d) = d
           /\ [d EXCEPT !.x.state = "RUNNING", !.s.step = "TRANSFER_DATA"] = Started(d)
<1>0. d = [s |-> d.s, x |-> d.x] /\ d.s \in DevType /\ d.x \in ExpType
  BY DEF DevPair
<1>1. "TRANSFER_DATA" \in Steps /\ "RUNNING" \in States
  BY DEF Steps, States
<1>2. [d.s EXCEPT !.step = "TRANSFER_DATA"] \in DevType
  BY <1>0, <1>1 DEF DevType
<1>3. [d.x EXCEPT !.state = "RUNNING"] \in ExpType
  BY <1>0, <1>1 DEF ExpType
<1>4. Started(d) \in DevPair
  BY <1>2, <1>3 DEF Started, DevPair
<1>5. d.s.step = "TRANSFER_DATA" => [d.s EXCEPT !.step = "TRANSFER_DATA"] = d.s
  BY <1>0 DEF DevType
<1>6. d.s.step = "TRANSFER_DATA" => [d.x EXCEPT !.state = "RUNNING"] = d.x
  BY <1>0 DEF ExpType
<1>7. d.s.step = "TRANSFER_DATA" => Started(d) = d
  BY <1>0, <1>5, <1>6 DEF Started
<1>8. [d EXCEPT !.x.state = "RUNNING", !.s.step = "TRANSFER_DATA"] = Started(d)
  <2>r. PICK r : r = [d EXCEPT !.x.state = "RUNNING", !.s.step = "TRANSFER_DATA"]
    OBVIOUS
  <2>1. r = [s |-> [d.s EXCEPT !.step = "TRANSFER_DATA"], x |-> [d.x EXCEPT !.state = "RUNNING"]]
    BY <1>0, <2>r
  <2> QED  BY <2>r, <2>1 DEF Started
<1> QED  BY <1>4, <1>7, <1>8 DEF Started

LEMMA CleanWrite ==
    ASSUME impSeen.conn, cmd = "RUNNING", NEW d \in DevPair, d.s.step \in DataSteps,
           d.s.step = "TRANSFER_DATA" => d.x.state = "RUNNING",
           NEW bytes \in Seq(Nat), NEW done \in BOOLEAN
    PROVE  DeviceWrite(d, bytes, done, FALSE, FALSE) = WriteData(Started(d), bytes, done, FALSE)
<1>1. /\ d.s.step = "TRANSFER_DATA" => Started(d) = d
      /\ [d EXCEPT !.x.state = "RUNNING", !.s.step = "TRANSFER_DATA"] = Started(d)
  BY StartedFacts
<1>2. ASSUME NEW e
      PROVE  TransferData(e, bytes, done, FALSE, FALSE) = WriteData(e, bytes, done, FALSE)
  BY DEF TransferData, Going
<1>3. CASE d.s.step = "INITIALIZED"
  <2>1. DeviceWrite(d, bytes, done, FALSE, FALSE) =
           TransferData([d EXCEPT !.x.state = "RUNNING", !.s.step = "TRANSFER_DATA"],
                        bytes, done, FALSE, FALSE)
    BY <1>3 DEF DeviceWrite, Going
  <2> QED  BY <1>1, <1>2, <2>1
<1>4. CASE d.s.step = "TRANSFER_DATA"
  <2>1. DeviceWrite(d, bytes, done, FALSE, FALSE) = TransferData(d, bytes, done, FALSE, FALSE)
    BY <1>4 DEF DeviceWrite
  <2> QED  BY <1>1, <1>2, <1>4, <2>1
<1> QED  BY <1>3, <1>4 DEF DataSteps

LEMMA WholeSubSeq ==
    ASSUME NEW b \in Seq(Nat)
    PROVE  SubSeq(b, 1, Len(b)) = b
OBVIOUS

LEMMA SubSeqAt ==
    ASSUME NEW c \in Seq(Nat), NEW p \in Nat, NEW k \in Nat, p + k <= Len(c), NEW i \in Nat, i < k
    PROVE  SubSeq(c, p + 1, p + k)[i + 1] = c[p + i + 1]
<1>1. Len(c) \in Nat /\ \A j \in 1 .. Len(c) : c[j] \in Nat
  OBVIOUS
<1>q. PICK q \in Nat : q = p + k
  OBVIOUS
<1>2. i + 1 \in 1 .. q - (p + 1) + 1
  BY <1>q
<1>3. p + 1 + (i + 1) - 1 = p + i + 1
  OBVIOUS
<1>4. SubSeq(c, p + 1, q)[i + 1] = c[p + 1 + (i + 1) - 1]
  BY <1>1, <1>q, <1>2
<1> QED  BY <1>q, <1>3, <1>4

\* Data for which there is room goes into the ring.
LEMMA DataGoesIn ==
    ASSUME impSeen \in ImpCopy, NEW e \in DevPair, NEW bytes \in Seq(Nat),
           Len(bytes) > 0, Len(bytes) <= TxAvailable(e.s.head, impSeen.sig.tail)
    PROVE  LET h == Onward(e.s.head, Len(bytes))
               b == Stored(e.x.buf, e.s.head, bytes)
               r == WriteData(e, bytes, FALSE, FALSE)
           IN  /\ r \in DevPair
               /\ r.s = [e.s EXCEPT !.head = h, !.sum = e.s.sum \o bytes]
               /\ r.x = [e.x EXCEPT !.head = h, !.buf = b]
<1>0. e.s \in DevType /\ e.x \in ExpType /\ e = [s |-> e.s, x |-> e.x]
  BY DEF DevPair
<1>1. e.s.head \in Position /\ impSeen.sig.tail \in Position /\ e.s.sum \in Seq(Nat)
      /\ e.x.buf \in [Position -> Nat]
  BY <1>0 DEF DevType, ExpType, ImpCopy, ImpType
<1>k. PICK k \in Nat : k = Len(bytes)
  OBVIOUS
<1>2. WriteCount(e.s.head, impSeen.sig.tail, Len(bytes)) = k
  BY <1>1, <1>k, WriteAll
<1>3. k <= BufSz - 1 - Dist(e.s.head, impSeen.sig.tail) /\ Dist(e.s.head, impSeen.sig.tail) \in Position
  BY <1>1, <1>k, Room, DistMod
<1>4. k \in 0 .. BufSz
  BY <1>3, BufSzAssumption DEF Position
<1>h. PICK h : h = Onward(e.s.head, k)
  OBVIOUS
<1>5. (e.s.head + k) % BufSz = h /\ h \in Position
  BY <1>1, <1>4, <1>h, OnwardMod
<1>6. SubSeq(bytes, 1, k) = bytes
  BY <1>k, WholeSubSeq
<1>b. PICK b : b = Stored(e.x.buf, e.s.head, bytes)
  OBVIOUS
<1>u. PICK u : u = e.s.sum \o bytes
  OBVIOUS
<1>7. b \in [Position -> Nat] /\ u \in Seq(Nat)
  <2>1. b \in [Position -> Nat]
    BY <1>1, <1>b, StoredType
  <2>2. u \in Seq(Nat)
    BY <1>1, <1>u
  <2> QED  BY <2>1, <2>2
<1>r. PICK r : r = WriteData(e, bytes, FALSE, FALSE)
  OBVIOUS
<1>8. r = [e EXCEPT !.s.head = h, !.x.head = h, !.x.buf = b, !.s.sum = u]
  <2>w. PICK w : w = WriteCount(e.s.head, impSeen.sig.tail, Len(bytes))
    OBVIOUS
  <2>1. w = k /\ w > 0
    BY <1>k, <1>2, <2>w
  <2>2. r = [e EXCEPT !.s.head = (e.s.head + w) % BufSz, !.x.head = (e.s.head + w) % BufSz,
                      !.x.buf = Stored(e.x.buf, e.s.head, SubSeq(bytes, 1, w)),
                      !.s.sum = e.s.sum \o SubSeq(bytes, 1, w)]
    BY <1>r, <2>w, <2>1 DEF WriteData
  <2> QED  BY <1>5, <1>6, <1>b, <1>u, <2>1, <2>2
<1>9. r = [s |-> [e.s EXCEPT !.head = h, !.sum = u], x |-> [e.x EXCEPT !.head = h, !.buf = b]]
  BY <1>0, <1>8
<1>10. [e.s EXCEPT !.head = h, !.sum = u] \in DevType
  BY <1>0, <1>5, <1>7 DEF DevType
<1>11. [e.x EXCEPT !.head = h, !.buf = b] \in ExpType
  BY <1>0, <1>5, <1>7 DEF ExpType
<1>12. r \in DevPair /\ r.s = [e.s EXCEPT !.head = h, !.sum = u] /\ r.x = [e.x EXCEPT !.head = h, !.buf = b]
  BY <1>9, <1>10, <1>11 DEF DevPair
<1> QED  BY <1>12, <1>h, <1>b, <1>u, <1>k, <1>r

\* The end of the data is marked when all of it is in the ring.
LEMMA EndIsMarked ==
    ASSUME impSeen \in ImpCopy, NEW e \in DevPair
    PROVE  LET r == WriteData(e, <<>>, TRUE, FALSE)
           IN  /\ r \in DevPair
               /\ r.s = [e.s EXCEPT !.step = "TRANSFER_DONE"]
               /\ r.x = [e.x EXCEPT !.cs = e.s.sum, !.state = "COMPLETED"]
<1>0. e.s \in DevType /\ e.x \in ExpType /\ e = [s |-> e.s, x |-> e.x]
  BY DEF DevPair
<1>1. e.s.head \in Position /\ impSeen.sig.tail \in Position
  BY <1>0 DEF DevType, ExpType, ImpCopy, ImpType
<1>2. WriteCount(e.s.head, impSeen.sig.tail, Len(<<>>)) = 0
  <2>n. PICK n \in Nat : n = Len(<<>>) /\ n = 0
    BY EmptySeq
  <2>1. WriteCount(e.s.head, impSeen.sig.tail, n) \in 0 .. n
    BY <1>1, WriteSome
  <2> QED  BY <2>n, <2>1
<1>r. PICK r : r = WriteData(e, <<>>, TRUE, FALSE)
  OBVIOUS
<1>3. r = [e EXCEPT !.x.cs = e.s.sum, !.x.state = "COMPLETED", !.s.step = "TRANSFER_DONE"]
  BY <1>r, <1>2 DEF WriteData
<1>4. r = [s |-> [e.s EXCEPT !.step = "TRANSFER_DONE"],
           x |-> [e.x EXCEPT !.cs = e.s.sum, !.state = "COMPLETED"]]
  BY <1>0, <1>3
<1>5. [e.s EXCEPT !.step = "TRANSFER_DONE"] \in DevType
  BY <1>0 DEF DevType, Steps
<1>6. [e.x EXCEPT !.cs = e.s.sum, !.state = "COMPLETED"] \in ExpType
  <2>1. "COMPLETED" \in States
    BY DEF States
  <2>2. e.s.sum \in Seq(Nat)
    BY <1>0 DEF DevType
  <2> QED  BY <1>0, <2>1, <2>2 DEF ExpType
<1>7. r \in DevPair /\ r.s = [e.s EXCEPT !.step = "TRANSFER_DONE"]
      /\ r.x = [e.x EXCEPT !.cs = e.s.sum, !.state = "COMPLETED"]
  BY <1>4, <1>5, <1>6 DEF DevPair
<1> QED  BY <1>r, <1>7

FileClosed(d) == [d EXCEPT !.s.file = IF @ = "defaults" THEN @ ELSE "none"]

\* r is d but for the file.
ButForFile(d, r) ==
    /\ r \in DevPair /\ r.x = d.x
    /\ r.s.open = d.s.open /\ r.s.step = d.s.step /\ r.s.head = d.s.head /\ r.s.sum = d.s.sum
    /\ r.s.pos = d.s.pos /\ r.s.ok = d.s.ok

LEMMA FileClosedFacts ==
    ASSUME NEW d \in DevPair
    PROVE  ButForFile(d, FileClosed(d))
<1>0. d = [s |-> d.s, x |-> d.x] /\ d.s \in DevType /\ d.x \in ExpType
  BY DEF DevPair
<1>g. PICK g : g = FileClosed(d)
  OBVIOUS
<1>f. PICK file : file = IF d.s.file = "defaults" THEN d.s.file ELSE "none"
  OBVIOUS
<1>1. g = [s |-> [d.s EXCEPT !.file = file], x |-> d.x]
  <2>1. g = [d EXCEPT !.s.file = file]
    BY <1>g, <1>f DEF FileClosed
  <2> QED  BY <1>0, <2>1
<1>2. file \in {"none", "block", "defaults"}
  BY <1>f
<1>3. [d.s EXCEPT !.file = file] \in DevType
  BY <1>0, <1>2 DEF DevType
<1>4. g \in DevPair /\ g.s = [d.s EXCEPT !.file = file] /\ g.x = d.x
  BY <1>0, <1>1, <1>3 DEF DevPair
<1>5. g.s.open = d.s.open /\ g.s.step = d.s.step /\ g.s.head = d.s.head /\ g.s.sum = d.s.sum
      /\ g.s.pos = d.s.pos /\ g.s.ok = d.s.ok
  BY <1>0, <1>4 DEF DevType
<1> QED  BY <1>g, <1>4, <1>5 DEF ButForFile

\* With all data in the ring the end is marked.
LEMMA CleanFinish ==
    ASSUME impSeen \in ImpCopy, env \in Environments, impSeen.conn, cmd = "RUNNING",
           NEW content \in Seq(Nat), NEW d, Ready(d, content), d.s.pos = Len(content)
    PROVE  /\ IsDone(Finish(d, FALSE), content) /\ Finish(d, FALSE).s.head = d.s.head
           /\ Finish(d, FALSE).x.buf = d.x.buf
<1>g. PICK g : g = FileClosed(d)
  OBVIOUS
<1>0. /\ d \in DevPair /\ d.s.open /\ d.s.ok /\ d.s.step \in DataSteps
      /\ d.s.step = "TRANSFER_DATA" => d.x.state = "RUNNING"
      /\ d.s.sum = SubSeq(content, 1, d.s.pos) /\ d.x.head = d.s.head
  BY DEF Ready
<1>1. /\ g \in DevPair /\ g.x = d.x
      /\ g.s.open = d.s.open /\ g.s.step = d.s.step /\ g.s.head = d.s.head /\ g.s.sum = d.s.sum
      /\ g.s.pos = d.s.pos /\ g.s.ok = d.s.ok
  BY <1>0, <1>g, FileClosedFacts DEF ButForFile
<1>2. d.s.sum = content
  BY <1>0, ContentType, WholeSubSeq
<1>e. PICK e : e = Started(g)
  OBVIOUS
<1>3. e \in DevPair /\ e.s = [g.s EXCEPT !.step = "TRANSFER_DATA"] /\ e.x = [g.x EXCEPT !.state = "RUNNING"]
  BY <1>0, <1>1, <1>e, StartedFacts
<1>f. PICK f : f = WriteData(e, <<>>, TRUE, FALSE)
  OBVIOUS
<1>4. /\ f \in DevPair /\ f.s = [e.s EXCEPT !.step = "TRANSFER_DONE"]
      /\ f.x = [e.x EXCEPT !.cs = e.s.sum, !.state = "COMPLETED"]
  BY <1>3, <1>f, EndIsMarked
<1>5. DeviceWrite(g, <<>>, TRUE, FALSE, FALSE) = f
  <2>1. <<>> \in Seq(Nat)
    OBVIOUS
  <2> QED  BY <1>0, <1>1, <1>e, <1>f, <2>1, CleanWrite
<1>6. g.s \in DevType /\ g.x \in ExpType /\ e.s \in DevType /\ e.x \in ExpType
  BY <1>1, <1>3 DEF DevPair
<1>7. /\ f.s.open = g.s.open /\ f.s.step = "TRANSFER_DONE" /\ f.s.head = g.s.head
      /\ f.s.pos = g.s.pos /\ f.s.ok = g.s.ok
  BY <1>3, <1>4, <1>6 DEF DevType
<1>8. e.s.sum = g.s.sum
  BY <1>3, <1>6 DEF DevType
<1>9. f.x.state = "COMPLETED" /\ f.x.head = g.x.head /\ f.x.buf = g.x.buf /\ f.x.cs = e.s.sum
  BY <1>3, <1>4, <1>6 DEF ExpType
<1>10. Finish(d, FALSE) = f
  <2>1. Status(f.s.step) = "SUCCESS"
    BY <1>7 DEF Status
  <2> QED  BY <1>0, <1>g, <1>5, <2>1 DEF Finish, FileClosed
<1>11. IsDone(f, content)
  <2>1. f \in DevPair
    BY <1>4
  <2>2. f.s.open /\ f.s.ok
    BY <1>0, <1>1, <1>7
  <2>3. f.s.step = "TRANSFER_DONE" /\ f.s.pos = Len(content)
    BY <1>1, <1>7
  <2>4. f.x.state = "COMPLETED" /\ f.x.head = f.s.head /\ f.x.cs = content
    BY <1>0, <1>1, <1>2, <1>7, <1>8, <1>9
  <2> QED  BY <2>1, <2>2, <2>3, <2>4 DEF IsDone
<1> QED  BY <1>1, <1>7, <1>9, <1>10, <1>11

\* After the end is marked the device waits for the command to go idle.
LEMMA DoneFinish ==
    ASSUME impSeen \in ImpCopy, impSeen.conn, NEW content \in Seq(Nat), NEW d, IsDone(d, content)
    PROVE  LET r == Finish(d, FALSE)
           IN  /\ cmd = "RUNNING" => IsDone(r, content) /\ ButForFile(d, r)
               /\ cmd # "RUNNING" => /\ ~r.s.open /\ r.x.state = "IDLE" /\ r.x.cs = d.x.cs
<1>g. PICK g : g = FileClosed(d)
  OBVIOUS
<1>r. PICK r : r = Finish(d, FALSE)
  OBVIOUS
<1>0. d \in DevPair /\ d.s.open /\ d.s.ok /\ d.s.step = "TRANSFER_DONE"
  BY DEF IsDone
<1>1. ButForFile(d, g)
  BY <1>0, <1>g, FileClosedFacts
<1>2. /\ g \in DevPair /\ g.x = d.x
      /\ g.s.open = d.s.open /\ g.s.step = d.s.step /\ g.s.head = d.s.head
      /\ g.s.pos = d.s.pos /\ g.s.ok = d.s.ok
  BY <1>1 DEF ButForFile
<1>f. PICK f : f = DeviceWrite(g, <<>>, TRUE, FALSE, FALSE)
  OBVIOUS
<1>3. r = IF Status(f.s.step) = "SUCCESS" THEN f ELSE DeviceClose(f)
  BY <1>0, <1>g, <1>r, <1>f DEF Finish, FileClosed
<1>4. CASE cmd = "RUNNING"
  <2>1. f = g
    BY <1>0, <1>2, <1>4, <1>f DEF DeviceWrite, DeviceWaits
  <2>2. Status(f.s.step) = "SUCCESS"
    BY <1>0, <1>2, <2>1 DEF Status
  <2>3. r = g
    BY <1>3, <2>1, <2>2
  <2>4. IsDone(g, content)
    BY <1>2 DEF IsDone
  <2> QED  BY <1>1, <1>4, <1>r, <2>3, <2>4
<1>5. CASE cmd # "RUNNING"
  <2>1. f = SetIdle(g, "ALL_COMPLETED")
    BY <1>0, <1>2, <1>5, <1>f DEF DeviceWrite, DeviceWaits, SetIdle
  <2>2. Stepped(g, "ALL_COMPLETED", f)
    <3>1. "ALL_COMPLETED" \in Steps /\ "IDLE" \in States
      BY DEF Steps, States
    <3> QED  BY <1>2, <2>1, <3>1, StepChanges
  <2>3. f \in DevPair /\ f.s.step = "ALL_COMPLETED" /\ f.x.cs = d.x.cs
    BY <1>2, <2>2 DEF Stepped
  <2>4. r = DeviceClose(f)
    BY <1>3, <2>3 DEF Status
  <2>5. ~r.s.open /\ r.x.cs = f.x.cs
    BY <2>3, <2>4, Closed
  <2>6. r.x.state = "IDLE"
    <3>1. f.x \in ExpType
      BY <2>3 DEF DevPair
    <3>e. PICK err : err = IF f.x.err \in {"SUCCESS", "COMPLETED"} THEN "COMPLETED" ELSE f.x.err
      OBVIOUS
    <3>2. r = [s |-> NoFile, x |-> [f.x EXCEPT !.state = "IDLE", !.head = 0, !.err = err]]
      BY <2>4, <3>e DEF DeviceClose
    <3> QED  BY <3>1, <3>2 DEF ExpType
  <2> QED  BY <1>5, <1>r, <2>3, <2>5, <2>6
<1> QED  BY <1>4, <1>5

\* What is read on goes into the ring, and at the end of the block its mark.
LEMMA CleanPassOn ==
    ASSUME impSeen \in ImpCopy, env \in Environments, impSeen.conn, cmd = "RUNNING",
           NEW content \in Seq(Nat), NEW d, Ready(d, content), d.s.file # "none",
           NEW n \in Nat, n > 0, n = TxAvailable(d.s.head, impSeen.sig.tail)
    PROVE  LET r == PassOn(d, content, n, FALSE)
           IN  \E m \in 0 .. n :
                  /\ Fed(d, m, r, content)
                  /\ IsDone(r, content) \/ (Ready(r, content) /\ r.s.step = "TRANSFER_DATA" /\ r.s.file # "none")
<1>r. PICK r : r = PassOn(d, content, n, FALSE)
  OBVIOUS
<1>0. /\ d \in DevPair /\ d.s.open /\ d.s.ok /\ d.s.step \in DataSteps
      /\ d.s.step = "TRANSFER_DATA" => d.x.state = "RUNNING"
      /\ d.s.pos <= Len(content) /\ d.s.sum = SubSeq(content, 1, d.s.pos) /\ d.x.head = d.s.head
      /\ d.s \in DevType /\ d.x \in ExpType
  BY DEF Ready, DevPair
<1>1. d.s.pos \in Nat /\ d.s.head \in Position /\ impSeen.sig.tail \in Position
      /\ d.x.buf \in [Position -> Nat]
  BY <1>0 DEF DevType, ExpType, ImpCopy, ImpType
<1>2. content \in Seq(Nat) /\ Len(content) \in Nat
  BY ContentType
<1>k. PICK k : k = LesserOf(n, Len(content) - d.s.pos)
  OBVIOUS
<1>3. k \in 0 .. n /\ k \in Nat /\ d.s.pos + k <= Len(content)
      /\ (k < n => d.s.pos + k = Len(content))
  BY <1>0, <1>1, <1>2, <1>k DEF LesserOf
<1>b. PICK bytes : bytes = SubSeq(content, d.s.pos + 1, d.s.pos + k)
  OBVIOUS
<1>4. bytes \in Seq(Nat) /\ Len(bytes) = k
      /\ SubSeq(content, 1, d.s.pos) \o bytes = SubSeq(content, 1, d.s.pos + k)
  BY <1>1, <1>2, <1>3, <1>b, ReadOn
<1>w. PICK w : w = IF k = 0 THEN d ELSE DeviceWrite(d, bytes, FALSE, FALSE, FALSE)
  OBVIOUS
<1>v. PICK v : v = [w EXCEPT !.s.pos = @ + k]
  OBVIOUS
\* The state after the bytes are in the ring.
<1>5. /\ w \in DevPair /\ w.s.open /\ w.s.ok /\ w.s.file = d.s.file /\ w.s.pos = d.s.pos
      /\ w.s.step \in DataSteps /\ (k # 0 => w.s.step = "TRANSFER_DATA")
      /\ w.s.step = "TRANSFER_DATA" => w.x.state = "RUNNING"
      /\ w.s.sum = SubSeq(content, 1, d.s.pos + k)
      /\ w.s.head = Onward(d.s.head, k) /\ w.x.head = w.s.head
  <2>1. CASE k = 0
    <3>1. w = d /\ d.s.pos + k = d.s.pos
      BY <1>1, <1>w, <2>1
    <3>2. Onward(d.s.head, k) = d.s.head
      BY <1>1, <2>1, BufSzAssumption DEF Onward, Position
    <3> QED  BY <1>0, <2>1, <3>1, <3>2
  <2>2. CASE k # 0
    <3>e. PICK e : e = Started(d)
      OBVIOUS
    <3>1. e \in DevPair /\ e.s = [d.s EXCEPT !.step = "TRANSFER_DATA"] /\ e.x = [d.x EXCEPT !.state = "RUNNING"]
      BY <1>0, <3>e, StartedFacts
    <3>2. /\ e.s.open = d.s.open /\ e.s.ok = d.s.ok /\ e.s.file = d.s.file /\ e.s.pos = d.s.pos
          /\ e.s.step = "TRANSFER_DATA" /\ e.s.head = d.s.head /\ e.s.sum = d.s.sum
          /\ e.s \in DevType
      BY <1>0, <3>1 DEF DevType, DevPair
    <3>3. e.x.state = "RUNNING" /\ e.x.buf = d.x.buf /\ e.x \in ExpType
      BY <1>0, <3>1 DEF ExpType, DevPair
    <3>4. w = WriteData(e, bytes, FALSE, FALSE)
      BY <1>0, <1>4, <1>w, <2>2, <3>e, CleanWrite
    <3>5. Len(bytes) > 0 /\ Len(bytes) <= TxAvailable(e.s.head, impSeen.sig.tail)
      BY <1>3, <1>4, <2>2, <3>2
    <3>h. PICK h : h = Onward(d.s.head, k)
      OBVIOUS
    <3>x. PICK buf : buf = Stored(e.x.buf, e.s.head, bytes)
      OBVIOUS
    <3>u. PICK u : u = SubSeq(content, 1, d.s.pos + k)
      OBVIOUS
    <3>6. /\ w \in DevPair /\ w.s = [e.s EXCEPT !.head = h, !.sum = u]
          /\ w.x = [e.x EXCEPT !.head = h, !.buf = buf]
      <4>1. /\ w \in DevPair
            /\ w.s = [e.s EXCEPT !.head = Onward(e.s.head, Len(bytes)), !.sum = e.s.sum \o bytes]
            /\ w.x = [e.x EXCEPT !.head = Onward(e.s.head, Len(bytes)), !.buf = buf]
        BY <1>4, <3>1, <3>4, <3>5, <3>x, DataGoesIn
      <4>2. Onward(e.s.head, Len(bytes)) = h
        BY <1>4, <3>2, <3>h
      <4>3. e.s.sum \o bytes = u
        BY <1>0, <1>4, <3>2, <3>u
      <4> QED  BY <4>1, <4>2, <4>3
    <3>7. /\ w.s.open = e.s.open /\ w.s.ok = e.s.ok /\ w.s.file = e.s.file /\ w.s.pos = e.s.pos
          /\ w.s.step = e.s.step /\ w.s.head = h /\ w.s.sum = u
      BY <3>2, <3>6 DEF DevType
    <3>8. w.x.state = "RUNNING" /\ w.x.head = h
      BY <3>3, <3>6 DEF ExpType
    <3>9. w.s.open /\ w.s.ok
      BY <1>0, <3>2, <3>7
    <3> QED  BY <3>2, <3>6, <3>7, <3>8, <3>9, <3>h, <3>u DEF DataSteps
  <2> QED  BY <2>1, <2>2
<1>6. ASSUME NEW i \in Position
      PROVE  w.x.buf[Onward(d.s.head, i)] =
                IF i < k THEN content[d.s.pos + i + 1] ELSE d.x.buf[Onward(d.s.head, i)]
  <2>1. CASE k = 0
    <3>1. w = d /\ ~(i < k)
      BY <1>w, <2>1, BufSzAssumption DEF Position
    <3> QED  BY <3>1
  <2>2. CASE k # 0
    <3>e. PICK e : e = Started(d)
      OBVIOUS
    <3>1. e \in DevPair /\ e.s = [d.s EXCEPT !.step = "TRANSFER_DATA"] /\ e.x = [d.x EXCEPT !.state = "RUNNING"]
      BY <1>0, <3>e, StartedFacts
    <3>2. e.s.head = d.s.head /\ e.x.buf = d.x.buf
      BY <1>0, <3>1 DEF DevType, ExpType
    <3>4. w = WriteData(e, bytes, FALSE, FALSE)
      BY <1>0, <1>4, <1>w, <2>2, <3>e, CleanWrite
    <3>5. Len(bytes) > 0 /\ Len(bytes) <= TxAvailable(e.s.head, impSeen.sig.tail)
      BY <1>3, <1>4, <2>2, <3>2
    <3>x. PICK buf : buf = Stored(e.x.buf, e.s.head, bytes)
      OBVIOUS
    <3>h. PICK h : h = Onward(d.s.head, k)
      OBVIOUS
    <3>6. w.x = [e.x EXCEPT !.head = h, !.buf = buf] /\ e.x \in ExpType
      <4>1. w.x = [e.x EXCEPT !.head = Onward(e.s.head, Len(bytes)), !.buf = buf]
        BY <1>4, <3>1, <3>4, <3>5, <3>x, DataGoesIn
      <4>2. Onward(e.s.head, Len(bytes)) = h
        BY <1>4, <3>2, <3>h
      <4> QED  BY <3>1, <4>1, <4>2 DEF DevPair
    <3>7. w.x.buf = buf
      BY <3>6 DEF ExpType
    <3>8. buf[Onward(d.s.head, i)] = IF i < k THEN bytes[i + 1] ELSE d.x.buf[Onward(d.s.head, i)]
      <4>1. buf = Stored(d.x.buf, d.s.head, bytes)
        BY <3>2, <3>x
      <4>2. buf[Onward(d.s.head, i)] = IF i < Len(bytes) THEN bytes[i + 1] ELSE d.x.buf[Onward(d.s.head, i)]
        <5>1. d.s.head \in Position /\ bytes \in Seq(Nat)
          BY <1>1, <1>4
        <5>o. PICK old : old = d.x.buf
          OBVIOUS
        <5>h. PICK head \in Position : head = d.s.head
          BY <5>1
        <5>2. Stored(old, head, bytes)[Onward(head, i)]
                 = IF i < Len(bytes) THEN bytes[i + 1] ELSE old[Onward(head, i)]
          BY <5>1, StoredOnward
        <5> QED  BY <4>1, <5>o, <5>h, <5>2
      <4> QED  BY <1>4, <4>2
    <3>9. i < k => bytes[i + 1] = content[d.s.pos + i + 1]
      <4>1. i \in Nat
        BY BufSzAssumption DEF Position
      <4>p. PICK p \in Nat : p = d.s.pos
        BY <1>1
      <4>2. bytes = SubSeq(content, p + 1, p + k) /\ p + k <= Len(content)
        BY <1>3, <1>b, <4>p
      <4>3. i < k => SubSeq(content, p + 1, p + k)[i + 1] = content[p + i + 1]
        BY <1>2, <1>3, <4>1, <4>2, SubSeqAt
      <4> QED  BY <4>p, <4>2, <4>3
    <3> QED  BY <3>7, <3>8, <3>9
  <2> QED  BY <2>1, <2>2
<1>7. /\ v \in DevPair /\ v.s.open /\ v.s.ok /\ v.s.file = d.s.file /\ v.s.pos = d.s.pos + k
      /\ v.s.step = w.s.step /\ v.s.sum = w.s.sum /\ v.s.head = w.s.head /\ v.x = w.x
  <2>0. w = [s |-> w.s, x |-> w.x] /\ w.s \in DevType /\ w.x \in ExpType
    BY <1>5 DEF DevPair
  <2>p. PICK p : p = d.s.pos + k
    OBVIOUS
  <2>1. v = [s |-> [w.s EXCEPT !.pos = p], x |-> w.x]
    BY <1>v, <1>5, <2>0, <2>p
  <2>2. p \in Nat
    BY <1>1, <1>3, <2>p
  <2>3. [w.s EXCEPT !.pos = p] \in DevType
    BY <2>0, <2>2 DEF DevType
  <2>4. v \in DevPair /\ v.s = [w.s EXCEPT !.pos = p] /\ v.x = w.x
    BY <2>0, <2>1, <2>3 DEF DevPair
  <2>5. /\ v.s.open = w.s.open /\ v.s.pos = p /\ v.s.file = w.s.file
        /\ v.s.ok = w.s.ok /\ v.s.step = w.s.step /\ v.s.sum = w.s.sum /\ v.s.head = w.s.head
    BY <2>0, <2>4 DEF DevType
  <2> QED  BY <1>5, <2>p, <2>4, <2>5
<1>8. Ready(v, content)
  BY <1>3, <1>5, <1>7 DEF Ready
<1>9. Fed(d, k, v, content)
  BY <1>3, <1>5, <1>6, <1>7 DEF Fed
<1>10. r = IF k < n THEN Finish(v, FALSE) ELSE v
  <2>1. k = 0 \/ Status(w.s.step) = "SUCCESS"
    BY <1>5 DEF Status
  <2> QED  BY <1>r, <1>k, <1>b, <1>w, <1>v, <2>1 DEF PassOn
<1>11. CASE k < n
  <2>1. v.s.pos = Len(content)
    BY <1>3, <1>7, <1>11
  <2>2. r = Finish(v, FALSE)
    BY <1>10, <1>11
  <2>3. IsDone(r, content) /\ r.s.head = v.s.head /\ r.x.buf = v.x.buf
    BY <1>8, <2>1, <2>2, CleanFinish
  <2>4. r.s.pos = v.s.pos
    BY <2>1, <2>3 DEF IsDone
  <2>5. Fed(d, k, r, content)
    BY <1>9, <2>3, <2>4 DEF Fed
  <2> QED  BY <1>r, <1>3, <2>3, <2>5
<1>12. CASE ~(k < n)
  <2>1. r = v /\ k # 0
    BY <1>3, <1>10, <1>12
  <2>2. v.s.step = "TRANSFER_DATA" /\ v.s.file # "none"
    BY <1>5, <1>7, <2>1
  <2> QED  BY <1>r, <1>3, <1>8, <1>9, <2>1, <2>2
<1> QED  BY <1>11, <1>12

\* One call of ioc_ctrl_stream_from_device.
LEMMA FromDeviceCases ==
    ASSUME impSeen.conn, NEW content, NEW d, TxAvailable(d.s.head, impSeen.sig.tail) \in Nat
    PROVE  LET n == TxAvailable(d.s.head, impSeen.sig.tail)
               r == FromDevice(d, content, FALSE, FALSE)
           IN  /\ d.s.file = "none" => r = Finish(d, FALSE)
               /\ d.s.file # "none" /\ n = 0 => r = d
               /\ d.s.file # "none" /\ n # 0 => r = PassOn(d, content, n, FALSE)
<1>n. PICK n \in Nat : n = TxAvailable(d.s.head, impSeen.sig.tail)
  OBVIOUS
<1>r. PICK r : r = FromDevice(d, content, FALSE, FALSE)
  OBVIOUS
<1>1. WaitForSpace(d, FALSE) = d
  BY DEF WaitForSpace
<1>i. PICK i : i = IF impSeen.conn THEN TxAvailable(d.s.head, impSeen.sig.tail) ELSE -1
  OBVIOUS
<1>2. i = n
  BY <1>i, <1>n
<1>3. r = CASE d.s.file = "none" -> Finish(d, FALSE)
            [] d.s.file # "none" /\ i <= 0 -> WaitForSpace(d, FALSE)
            [] d.s.file # "none" /\ i > 0 /\ FALSE -> Finish([d EXCEPT !.s.ok = FALSE], FALSE)
            [] OTHER -> PassOn(d, content, i, FALSE)
  BY <1>i, <1>r DEF FromDevice
<1>4. n <= 0 <=> n = 0
  OBVIOUS
<1>5. ASSUME d.s.file = "none" PROVE r = Finish(d, FALSE)
  BY <1>3, <1>5
<1>6. ASSUME d.s.file # "none", n = 0 PROVE r = d
  BY <1>1, <1>2, <1>3, <1>4, <1>6
<1>7. ASSUME d.s.file # "none", n # 0 PROVE r = PassOn(d, content, n, FALSE)
  BY <1>2, <1>3, <1>4, <1>7
<1> QED  BY <1>n, <1>r, <1>5, <1>6, <1>7

LEMMA SomeRoom ==
    ASSUME impSeen \in ImpCopy, NEW d \in DevPair
    PROVE  TxAvailable(d.s.head, impSeen.sig.tail) \in Nat
<1>1. d.s.head \in Position /\ impSeen.sig.tail \in Position
  BY DEF DevPair, DevType, ImpCopy, ImpType
<1>2. Dist(d.s.head, impSeen.sig.tail) \in Position
  BY <1>1, DistMod
<1>3. TxAvailable(d.s.head, impSeen.sig.tail) = BufSz - 1 - Dist(d.s.head, impSeen.sig.tail)
  BY <1>1, Room
<1> QED  BY <1>2, <1>3, BufSzAssumption DEF Position

\* What a call in the data phase does.
Advanced(d, n, r, content) ==
    \E m \in 0 .. n :
       /\ Fed(d, m, r, content)
       /\ IsDone(r, content) \/ (Ready(r, content) /\ r.s.step = "TRANSFER_DATA" /\ r.s.file # "none")
                    \/ (r = d /\ n = 0)

LEMMA CleanFromDevice ==
    ASSUME impSeen \in ImpCopy, env \in Environments, impSeen.conn, cmd = "RUNNING",
           NEW content \in Seq(Nat), NEW d, Ready(d, content), d.s.file # "none"
    PROVE  Advanced(d, TxAvailable(d.s.head, impSeen.sig.tail), FromDevice(d, content, FALSE, FALSE), content)
<1>1. d \in DevPair
  BY DEF Ready
<1>n. PICK n \in Nat : n = TxAvailable(d.s.head, impSeen.sig.tail)
  BY <1>1, SomeRoom
<1>r. PICK r : r = FromDevice(d, content, FALSE, FALSE)
  OBVIOUS
<1>2. CASE n = 0
  <2>1. r = d
    BY <1>n, <1>r, <1>2, FromDeviceCases
  <2>2. d.s.head \in Position /\ d.s.pos \in Nat
    BY <1>1 DEF DevPair, DevType
  <2>3. Onward(d.s.head, 0) = d.s.head
    BY <2>2, BufSzAssumption DEF Onward, Position
  <2>4. \A k \in Position : ~(k < 0)
    BY BufSzAssumption DEF Position
  <2>5. d.s.pos = d.s.pos + 0
    BY <2>2
  <2>6. Fed(d, 0, d, content)
    BY <2>3, <2>4, <2>5 DEF Fed
  <2>7. Advanced(d, n, r, content)
    BY <1>2, <2>1, <2>6 DEF Advanced
  <2> QED  BY <1>n, <1>r, <2>7
<1>3. CASE n # 0
  <2>0. n > 0
    BY <1>3
  <2>1. r = PassOn(d, content, n, FALSE)
    BY <1>n, <1>r, <1>3, FromDeviceCases
  <2>2. \E m \in 0 .. n :
           /\ Fed(d, m, r, content)
           /\ IsDone(r, content) \/ (Ready(r, content) /\ r.s.step = "TRANSFER_DATA" /\ r.s.file # "none")
    BY <1>n, <2>0, <2>1, CleanPassOn
  <2>3. Advanced(d, n, r, content)
    BY <2>2 DEF Advanced
  <2> QED  BY <1>n, <1>r, <2>3
<1> QED  BY <1>2, <1>3

\* What a call after it does.
Closing(d, r, content) ==
    \/ IsDone(r, content) /\ ButForFile(d, r)
    \/ cmd # "RUNNING" /\ ~r.s.open /\ r.x.state = "IDLE" /\ r.x.cs = d.x.cs

LEMMA DoneFromDevice ==
    ASSUME impSeen \in ImpCopy, env \in Environments, impSeen.conn, NEW content \in Seq(Nat), NEW d, IsDone(d, content)
    PROVE  Closing(d, FromDevice(d, content, FALSE, FALSE), content)
<1>r. PICK r : r = FromDevice(d, content, FALSE, FALSE)
  OBVIOUS
<1>0. d \in DevPair /\ d.s.pos = Len(content) /\ d = [s |-> d.s, x |-> d.x] /\ d.s \in DevType
  BY DEF IsDone, DevPair
<1>1. Len(content) \in Nat
  BY ContentType
<1>n. PICK n \in Nat : n = TxAvailable(d.s.head, impSeen.sig.tail)
  BY <1>0, SomeRoom
<1>2. Closing(d, d, content)
  BY <1>0 DEF Closing, ButForFile
<1>3. Closing(d, Finish(d, FALSE), content)
  BY DoneFinish DEF Closing
<1>4. n # 0 => PassOn(d, content, n, FALSE) = Finish(d, FALSE)
  <2> SUFFICES ASSUME n # 0
               PROVE  PassOn(d, content, n, FALSE) = Finish(d, FALSE)
    OBVIOUS
  <2>1. LesserOf(n, Len(content) - d.s.pos) = 0
    BY <1>0, <1>1 DEF LesserOf
  <2>p. PICK p : p = d.s.pos
    OBVIOUS
  <2>2. [d EXCEPT !.s.pos = @ + 0] = d
    <3>1. p + 0 = p
      BY <1>0, <1>1, <2>p
    <3>2. [d.s EXCEPT !.pos = p] = d.s
      BY <1>0, <2>p DEF DevType
    <3>3. [d EXCEPT !.s.pos = p] = d
      BY <1>0, <3>2
    <3> QED  BY <2>p, <3>1, <3>3
  <2>k. PICK k : k = LesserOf(n, Len(content) - d.s.pos)
    OBVIOUS
  <2>3. PassOn(d, content, n, FALSE) = IF k < n THEN Finish([d EXCEPT !.s.pos = @ + k], FALSE)
                                       ELSE [d EXCEPT !.s.pos = @ + k]
    BY <2>1, <2>k DEF PassOn
  <2>4. k = 0
    BY <2>1, <2>k
  <2>5. ~(k < n) => n = 0
    BY <2>4
  <2>6. PassOn(d, content, n, FALSE) = Finish([d EXCEPT !.s.pos = @ + k], FALSE)
    BY <2>3, <2>5
  <2> QED  BY <2>2, <2>4, <2>6
<1>5. r = d \/ r = Finish(d, FALSE)
  <2>1. /\ d.s.file = "none" => r = Finish(d, FALSE)
        /\ d.s.file # "none" /\ n = 0 => r = d
        /\ d.s.file # "none" /\ n # 0 => r = PassOn(d, content, n, FALSE)
    BY <1>r, <1>n, FromDeviceCases
  <2> QED  BY <1>4, <2>1
<1> QED  BY <1>r, <1>2, <1>3, <1>5

----------------------------------------------------------------------------
(* Undisturbed transfers: the controller.                                  *)

\* c is the controller with k more bytes taken.
Took(k, c) ==
    /\ c.s.tail = Onward(ctl.tail, k) /\ c.x.tail = c.s.tail
    /\ c.s.sum = ctl.sum \o Fetched(expSeen.sig.buf, ctl.tail, k)

\* c is the controller but for its step and command.
Kept(c) == c.s.tail = ctl.tail /\ c.s.sum = ctl.sum /\ c.x.tail = imp.tail

LEMMA CleanReadData ==
    ASSUME expSeen \in ExpCopy, ctl \in CtlType, imp \in ImpType, NEW n \in Nat,
           imp.tail = ctl.tail,
           NEW k, k = LesserOf(n, Dist(expSeen.sig.head, ctl.tail)),
           NEW c, c = ReadData(Controller0, n, FALSE)
    PROVE  /\ Took(k, c)
           /\ state = "RUNNING" => c.s.step = ctl.step /\ c.x.cmd = imp.cmd
           /\ state # "RUNNING" => c.s.step = "TRANSFER_DONE2" /\ c.x.cmd = "IDLE"
<1>1. ctl.tail \in Position /\ expSeen.sig.head \in Position
  BY DEF ExpCopy, ExpType, CtlType
<1>2. Dist(expSeen.sig.head, ctl.tail) \in Position
  BY <1>1, DistMod
<1>3. k \in 0 .. BufSz /\ k \in Nat
  BY <1>2, BufSzAssumption DEF LesserOf, Position
<1>4. ReadCount(expSeen.sig.head, ctl.tail, n) = k
  BY <1>1, ReadAll
<1>t. PICK t : t = Onward(ctl.tail, k)
  OBVIOUS
<1>5. (ctl.tail + k) % BufSz = t
  BY <1>1, <1>3, <1>t, OnwardMod
<1>x. PICK xt : xt = IF k > 0 THEN t ELSE imp.tail
  OBVIOUS
<1>6. xt = t
  <2>1. k = 0 => Onward(ctl.tail, k) = ctl.tail
    BY <1>1, BufSzAssumption DEF Onward, Position
  <2>2. k > 0 \/ k = 0
    BY <1>3
  <2> QED  BY <1>t, <1>x, <2>1, <2>2
<1>u. PICK u : u = ctl.sum \o Fetched(expSeen.sig.buf, ctl.tail, k)
  OBVIOUS
<1>c. PICK r : r = ReadData(Controller0, n, FALSE)
  OBVIOUS
<1>0. Controller0 = [s |-> ctl, x |-> imp]
  BY DEF Controller0
<1>p. PICK p : p = [s |-> ctl, x |-> imp]
  OBVIOUS
<1>d. PICK d : d = [p EXCEPT !.s.tail = t, !.x.tail = xt, !.s.sum = u]
  OBVIOUS
<1>7. d = [s |-> [ctl EXCEPT !.tail = t, !.sum = u], x |-> [imp EXCEPT !.tail = xt]]
  BY <1>p, <1>d
<1>8. r = IF state = "RUNNING" THEN d ELSE [d EXCEPT !.x.cmd = "IDLE", !.s.step = "TRANSFER_DONE2"]
  <2>1. p.s = ctl /\ p.x = imp
    BY <1>p
  <2>2. r = ReadData(p, n, FALSE)
    BY <1>0, <1>c, <1>p
  <2> QED  BY <1>4, <1>5, <1>x, <1>u, <1>d, <2>1, <2>2 DEF ReadData
<1>9. CASE state = "RUNNING"
  <2>1. r.s = [ctl EXCEPT !.tail = t, !.sum = u] /\ r.x = [imp EXCEPT !.tail = xt]
    BY <1>7, <1>8, <1>9
  <2>2. r.s.tail = t /\ r.s.sum = u /\ r.s.step = ctl.step
    BY <2>1 DEF CtlType
  <2>3. r.x.tail = xt /\ r.x.cmd = imp.cmd
    BY <2>1 DEF ImpType
  <2>4. Took(k, r)
    BY <1>6, <1>t, <1>u, <2>2, <2>3 DEF Took
  <2> QED  BY <1>9, <1>c, <2>2, <2>3, <2>4
<1>10. CASE state # "RUNNING"
  <2>0. r = [s |-> [ctl EXCEPT !.tail = t, !.sum = u, !.step = "TRANSFER_DONE2"],
             x |-> [imp EXCEPT !.tail = xt, !.cmd = "IDLE"]]
    BY <1>7, <1>8, <1>10
  <2>1. r.s = [ctl EXCEPT !.tail = t, !.sum = u, !.step = "TRANSFER_DONE2"]
        /\ r.x = [imp EXCEPT !.tail = xt, !.cmd = "IDLE"]
    BY <2>0
  <2>2. r.s.tail = t /\ r.s.sum = u /\ r.s.step = "TRANSFER_DONE2"
    BY <2>1 DEF CtlType
  <2>3. r.x.tail = xt /\ r.x.cmd = "IDLE"
    BY <2>1 DEF ImpType
  <2>4. Took(k, r)
    BY <1>6, <1>t, <1>u, <2>2, <2>3 DEF Took
  <2> QED  BY <1>10, <1>c, <2>2, <2>3, <2>4
<1> QED  BY <1>9, <1>10

\* The steps of a controller whose timers do not run out.
LEMMA CleanControllerRead ==
    ASSUME expSeen.conn, ctl \in CtlType, imp \in ImpType, NEW n,
           NEW c, c = ControllerRead(Controller0, n, FALSE, FALSE)
    PROVE  /\ ctl.step = "INITIALIZED" =>
                 /\ Kept(c) /\ c.s.step = "INITIALIZED2"
                 /\ c.x.cmd = "RUNNING" /\ c.x.sel = selected
           /\ ctl.step = "INITIALIZED2" =>
                 /\ Kept(c) /\ c.x.cmd = imp.cmd /\ c.x.sel = imp.sel
                 /\ c.s.step = IF state \in Going THEN "TRANSFER_DATA" ELSE "INITIALIZED2"
           /\ ctl.step = "TRANSFER_DATA" /\ state \in Going => c = ReadData(Controller0, n, FALSE)
           /\ ctl.step = "TRANSFER_DONE2" =>
                 /\ c.s.sum = ctl.sum
                 /\ state \in Going => c = Controller0
                 /\ state \notin Going => c.s.step = "ALL_COMPLETED"
<1>p. PICK p : p = Controller0
  OBVIOUS
<1>0. p = [s |-> ctl, x |-> imp] /\ p.s = ctl /\ p.x = imp
  BY <1>p DEF Controller0
<1>r. PICK r : r = ControllerRead(p, n, FALSE, FALSE)
  OBVIOUS
<1>1. r = c
  BY <1>p, <1>r
<1>2. ASSUME ctl.step = "INITIALIZED"
      PROVE  Kept(r) /\ r.s.step = "INITIALIZED2" /\ r.x.cmd = "RUNNING" /\ r.x.sel = selected
  <2>1. r = [p EXCEPT !.x.sel = selected, !.x.cmd = "RUNNING", !.s.step = "INITIALIZED2"]
    BY <1>0, <1>r, <1>2 DEF ControllerRead
  <2>2. r = [s |-> [ctl EXCEPT !.step = "INITIALIZED2"],
             x |-> [imp EXCEPT !.sel = selected, !.cmd = "RUNNING"]]
    BY <1>0, <2>1
  <2> QED  BY <2>2 DEF Kept, CtlType, ImpType
<1>3. ASSUME ctl.step = "INITIALIZED2"
      PROVE  /\ Kept(r) /\ r.x.cmd = imp.cmd /\ r.x.sel = imp.sel
             /\ r.s.step = IF state \in Going THEN "TRANSFER_DATA" ELSE "INITIALIZED2"
  <2>1. r = AwaitStart(p, FALSE)
    BY <1>0, <1>r, <1>3 DEF ControllerRead
  <2>2. CASE state \in Going
    <3>1. r = [p EXCEPT !.s.step = "TRANSFER_DATA"]
      BY <2>1, <2>2 DEF AwaitStart
    <3>2. r = [s |-> [ctl EXCEPT !.step = "TRANSFER_DATA"], x |-> imp]
      BY <1>0, <3>1
    <3> QED  BY <2>2, <3>2 DEF Kept, CtlType, ImpType
  <2>3. CASE state \notin Going
    <3>1. r = p
      BY <2>1, <2>3 DEF AwaitStart
    <3> QED  BY <1>0, <1>3, <2>3, <3>1 DEF Kept
  <2> QED  BY <2>2, <2>3
<1>4. ASSUME ctl.step = "TRANSFER_DATA", state \in Going
      PROVE  r = ReadData(p, n, FALSE)
  BY <1>0, <1>r, <1>4 DEF ControllerRead
<1>5. ASSUME ctl.step = "TRANSFER_DONE2"
      PROVE  /\ r.s.sum = ctl.sum
             /\ state \in Going => r = p
             /\ state \notin Going => r.s.step = "ALL_COMPLETED"
  <2>1. r = IF ControllerWaits(Going, FALSE) THEN p
            ELSE [p EXCEPT !.s.step = "ALL_COMPLETED", !.x.tail = 0]
    BY <1>0, <1>r, <1>5 DEF ControllerRead
  <2>2. ControllerWaits(Going, FALSE) <=> state \in Going
    BY DEF ControllerWaits
  <2>3. CASE state \in Going
    BY <1>0, <2>1, <2>2, <2>3
  <2>4. CASE state \notin Going
    <3>1. r = [s |-> [ctl EXCEPT !.step = "ALL_COMPLETED"], x |-> [imp EXCEPT !.tail = 0]]
      BY <1>0, <2>1, <2>2, <2>4
    <3> QED  BY <2>4, <3>1 DEF CtlType
  <2> QED  BY <2>3, <2>4
<1> QED  BY <1>p, <1>1, <1>2, <1>3, <1>4, <1>5

\* What a call of ioc_run_stream makes of it.
LEMMA ReadOutcome ==
    ASSUME ctl \in CtlType, imp \in ImpType, expSeen \in ExpCopy, selected \in Block, NEW n \in Nat,
           Read(n, FALSE, FALSE), NEW c, c = ControllerRead(Controller0, n, FALSE, FALSE)
    PROVE  /\ UNCHANGED <<dev, exp, expLine, impLine, expSeen, impSeen, link, opened, selected, env>>
           /\ Status(c.s.step) = "SUCCESS" =>
                 /\ ctl'.open /\ ctl'.result = "none" /\ imp' = c.x
                 /\ ctl'.step = c.s.step /\ ctl'.tail = c.s.tail /\ ctl'.sum = c.s.sum
           /\ c.s.step = "ALL_COMPLETED" =>
                 /\ ~ctl'.open /\ imp' = IdleCommand
                 /\ c.s.sum = expSeen.sig.cs => ctl'.result = "completed"
                 /\ ctl'.result = "completed" => ctl'.sum = expSeen.sig.cs
<1>1. c \in CtlPair
  <2>1. Controller0 \in CtlPair
    BY DEF Controller0, CtlPair
  <2> QED  BY <2>1, ControllerReadType
<1>2. c.s \in CtlType
  BY <1>1 DEF CtlPair
<1>r. PICK r : r = CASE Status(c.s.step) = "SUCCESS" -> "none"
                     [] Status(c.s.step) = "ERROR" -> "failed"
                     [] OTHER -> IF c.s.sum = expSeen.sig.cs THEN "completed" ELSE "failed"
  OBVIOUS
<1>3. /\ ctl' = [c.s EXCEPT !.result = r, !.open = r = "none"]
      /\ imp' = IF r = "none" THEN c.x ELSE IdleCommand
      /\ UNCHANGED <<dev, exp, expLine, impLine, expSeen, impSeen, link, opened, selected, env>>
  BY <1>r DEF Read
<1>o. PICK o \in BOOLEAN : o = (r = "none")
  OBVIOUS
<1>4. ctl' = [c.s EXCEPT !.result = r, !.open = o]
  BY <1>3, <1>o
<1>5. ctl'.result = r /\ ctl'.open = o /\ ctl'.step = c.s.step /\ ctl'.tail = c.s.tail /\ ctl'.sum = c.s.sum
  BY <1>2, <1>4 DEF CtlType
<1>6. Status(c.s.step) = "SUCCESS" => r = "none"
  BY <1>r
<1>7. c.s.step = "ALL_COMPLETED" => r # "none" /\ (c.s.sum = expSeen.sig.cs <=> r = "completed")
  BY <1>r DEF Status
<1>8. ASSUME Status(c.s.step) = "SUCCESS"
      PROVE  ctl'.open /\ ctl'.result = "none" /\ imp' = c.x
  BY <1>3, <1>5, <1>6, <1>8, <1>o
<1>9. ASSUME c.s.step = "ALL_COMPLETED"
      PROVE  /\ ~ctl'.open /\ imp' = IdleCommand
             /\ c.s.sum = expSeen.sig.cs => ctl'.result = "completed"
             /\ ctl'.result = "completed" => ctl'.sum = expSeen.sig.cs
  BY <1>3, <1>5, <1>7, <1>9, <1>o
<1> QED  BY <1>3, <1>5, <1>8, <1>9

----------------------------------------------------------------------------
(* Undisturbed transfers: the invariant.                                   *)

\* The snapshots of one direction from the copy at the receiver to the block
\* itself, numbered from 0.
ExpPlaces == 0 .. Len(expLine) + 1
ImpPlaces == 0 .. Len(impLine) + 1
ExpAt(i) == IF i = 0 THEN expSeen.sig ELSE IF i <= Len(expLine) THEN expLine[i] ELSE exp
ImpAt(i) == IF i = 0 THEN impSeen.sig ELSE IF i <= Len(impLine) THEN impLine[i] ELSE imp

ReaderRests == imp.cmd = "IDLE" /\ (ctl.open => ctl = [NoReader EXCEPT !.open = TRUE] /\ imp.tail = 0)
ReaderRuns(steps) == ctl.open /\ imp.cmd = "RUNNING" /\ ctl.step \in steps /\ imp.tail = ctl.tail
ReaderIsDone ==
    /\ ctl.open /\ imp.cmd = "IDLE" /\ ctl.step = "TRANSFER_DONE2"
    /\ (\A n \in env.sizes : n >= BufSz - 1) => ctl.sum = Data

DeviceRests == ~dev.open /\ exp.state = "IDLE"
DeviceRuns == Ready(Device0, Data) /\ dev.step = "TRANSFER_DATA" /\ dev.file # "none"
DeviceIsDone == IsDone(Device0, Data)

\* No transfer: all is idle.
ExpIdle == \A i \in ExpPlaces : ExpAt(i).state = "IDLE"
ImpIdle == \A i \in ImpPlaces : ImpAt(i).cmd = "IDLE"
Resting == ReaderRests /\ DeviceRests /\ ExpIdle /\ ImpIdle

\* The controller has asked for a transfer.
ImpAsking ==
    \A i, j \in ImpPlaces :
        i <= j /\ ImpAt(i).cmd = "RUNNING" =>
            ImpAt(i).tail = 0 /\ ImpAt(i).sel = selected /\ ImpAt(j).cmd = "RUNNING"
Asked ==
    /\ ReaderRuns({"INITIALIZED2"}) /\ DeviceRests /\ ctl.tail = 0 /\ ctl.sum = <<>>
    /\ ExpIdle /\ ImpAsking

\* Data flows: what is in the ring of snapshot x beyond the controller's tail
\* is what follows what the controller has, and snapshots sent later have more.
\* The room shown to the device only grows.
UnreadOf(x, content) ==
    \A k \in Position :
        k < Dist(x.head, ctl.tail) =>
            x.buf[Onward(ctl.tail, k)] = content[Len(ctl.sum) + k + 1]
Unread(x) == UnreadOf(x, Data)
FlowsTo(x, y) ==
    /\ x.state \in Going /\ y.state \in Going /\ Unread(x)
    /\ Dist(x.head, ctl.tail) <= Dist(y.head, ctl.tail)
    /\ x.state = "COMPLETED" =>
          y.state = "COMPLETED" /\ x.head = dev.head /\ x.cs = Data /\ DeviceIsDone
ExpFlowing == \A i, j \in ExpPlaces : i <= j /\ ExpAt(i).state # "IDLE" => FlowsTo(ExpAt(i), ExpAt(j))
ImpGranting ==
    \A i, j \in ImpPlaces : i <= j =>
        /\ ImpAt(i).cmd = "RUNNING"
        /\ Dist(dev.head, ImpAt(j).tail) <= Dist(dev.head, ImpAt(i).tail)
Level ==
    /\ ctl.step = "INITIALIZED2" => ctl.tail = 0 /\ ctl.sum = <<>>
    /\ Len(ctl.sum) <= Len(Data) /\ ctl.sum = SubSeq(Data, 1, Len(ctl.sum))
    /\ dev.pos = Len(ctl.sum) + Dist(dev.head, ctl.tail)
Flowing ==
    /\ ReaderRuns({"INITIALIZED2", "TRANSFER_DATA"}) /\ (DeviceRuns \/ DeviceIsDone) /\ Level
    /\ ctl.step = "TRANSFER_DATA" => expSeen.sig.state # "IDLE"
    /\ ExpFlowing /\ ImpGranting /\ opened = selected

\* The controller has all and the device does not know yet.
ExpTaken == \A i \in ExpPlaces : ExpAt(i).state = "COMPLETED" /\ ExpAt(i).cs = Data
ImpTaken == \A i, j \in ImpPlaces : i <= j /\ ImpAt(i).cmd # "RUNNING" => ImpAt(j).cmd # "RUNNING"
Taken == ReaderIsDone /\ DeviceIsDone /\ ExpTaken /\ ImpTaken /\ opened = selected

\* The device has closed the transfer and the controller does not know yet.
ExpOver ==
    \A i, j \in ExpPlaces : i <= j =>
        /\ ExpAt(i).state \in {"COMPLETED", "IDLE"} /\ ExpAt(i).cs = Data
        /\ ExpAt(i).state = "IDLE" => ExpAt(j).state = "IDLE"
Over == ReaderIsDone /\ DeviceRests /\ ExpOver /\ ImpIdle /\ opened = selected

NoFailure ==
    /\ (\A n \in env.sizes : n >= BufSz - 1) => ctl.result # "failed"
    /\ ctl.result = "completed" => ctl.sum = Content(selected)
Stages == Resting \/ Asked \/ Flowing \/ Taken \/ Over
CleanInv == Undisturbed => link = "up" /\ expSeen.conn /\ impSeen.conn /\ Stages /\ NoFailure

----------------------------------------------------------------------------
(* Undisturbed transfers: snapshots on their way.                          *)

\* Every snapshot is one that there was before, in the same order.
ExpKept ==
    \A i, j \in ExpPlaces' : i <= j =>
        \E a, b \in ExpPlaces : a <= b /\ ExpAt(i)' = ExpAt(a) /\ ExpAt(j)' = ExpAt(b)
ImpKept ==
    \A i, j \in ImpPlaces' : i <= j =>
        \E a, b \in ImpPlaces : a <= b /\ ImpAt(i)' = ImpAt(a) /\ ImpAt(j)' = ImpAt(b)

LEMMA ExpMoves ==
    ASSUME expLine \in Seq(ExpType), UNCHANGED exp,
           UNCHANGED <<expLine, expSeen>> \/ SendExp \/ ReceiveExp
    PROVE  ExpKept
<1>n. PICK n \in Nat : n = Len(expLine)
  OBVIOUS
<1>1. ExpPlaces = 0 .. n + 1
  BY <1>n DEF ExpPlaces
<1>2. CASE UNCHANGED <<expLine, expSeen>>
  <2>1. ExpPlaces' = ExpPlaces /\ \A i \in ExpPlaces : ExpAt(i)' = ExpAt(i)
    BY <1>2 DEF ExpPlaces, ExpAt
  <2> QED  BY <2>1 DEF ExpKept
<1>3. CASE SendExp
  <2>1. expSeen' = expSeen /\ expLine' = Append(expLine, exp)
    BY <1>3 DEF SendExp
  <2>2. Len(expLine') = n + 1 /\ expLine'[n + 1] = exp /\ (\A i \in 1 .. n : expLine'[i] = expLine[i])
    BY <1>n, <2>1
  <2>3. ExpPlaces' = 0 .. n + 2
    BY <2>2 DEF ExpPlaces
  <2>4. ASSUME NEW i \in 0 .. n + 2
        PROVE  ExpAt(i)' = ExpAt(IF i = n + 2 THEN n + 1 ELSE i)
    <3>1. CASE i = 0
      BY <1>n, <2>1, <3>1 DEF ExpAt
    <3>2. CASE i \in 1 .. n
      BY <1>n, <2>2, <3>2 DEF ExpAt
    <3>3. CASE i = n + 1
      BY <1>n, <2>2, <3>3 DEF ExpAt
    <3>4. CASE i = n + 2
      BY <1>n, <2>2, <3>4 DEF ExpAt
    <3> QED  BY <3>1, <3>2, <3>3, <3>4
  <2>5. ASSUME NEW i \in ExpPlaces', NEW j \in ExpPlaces', i <= j
        PROVE  \E a, b \in ExpPlaces : a <= b /\ ExpAt(i)' = ExpAt(a) /\ ExpAt(j)' = ExpAt(b)
    <3>a. PICK a : a = IF i = n + 2 THEN n + 1 ELSE i
      OBVIOUS
    <3>b. PICK b : b = IF j = n + 2 THEN n + 1 ELSE j
      OBVIOUS
    <3>1. i \in 0 .. n + 2 /\ j \in 0 .. n + 2
      BY <2>3
    <3>2. a \in ExpPlaces /\ b \in ExpPlaces /\ a <= b
      BY <1>1, <2>5, <3>1, <3>a, <3>b
    <3>3. ExpAt(i)' = ExpAt(a) /\ ExpAt(j)' = ExpAt(b)
      BY <2>4, <3>1, <3>a, <3>b
    <3> QED  BY <3>2, <3>3
  <2> QED  BY <2>5 DEF ExpKept
<1>4. CASE ReceiveExp
  <2>1. expLine # <<>> /\ expSeen'.sig = Head(expLine) /\ expLine' = Tail(expLine)
    BY <1>4 DEF ReceiveExp
  <2>2. n > 0 /\ Len(expLine') = n - 1 /\ expSeen'.sig = expLine[1]
        /\ (\A i \in 1 .. n - 1 : expLine'[i] = expLine[i + 1])
    BY <1>n, <2>1
  <2>3. ExpPlaces' = 0 .. n
    BY <2>2 DEF ExpPlaces
  <2>4. ASSUME NEW i \in 0 .. n
        PROVE  ExpAt(i)' = ExpAt(i + 1)
    <3>1. CASE i = 0
      BY <1>n, <2>2, <3>1 DEF ExpAt
    <3>2. CASE i \in 1 .. n - 1
      BY <1>n, <2>2, <3>2 DEF ExpAt
    <3>3. CASE i = n
      BY <1>n, <2>2, <3>3 DEF ExpAt
    <3> QED  BY <3>1, <3>2, <3>3
  <2>5. ASSUME NEW i \in ExpPlaces', NEW j \in ExpPlaces', i <= j
        PROVE  \E a, b \in ExpPlaces : a <= b /\ ExpAt(i)' = ExpAt(a) /\ ExpAt(j)' = ExpAt(b)
    <3>1. i \in 0 .. n /\ j \in 0 .. n
      BY <2>3
    <3>2. i + 1 \in ExpPlaces /\ j + 1 \in ExpPlaces /\ i + 1 <= j + 1
      BY <1>1, <2>5, <3>1
    <3>3. ExpAt(i)' = ExpAt(i + 1) /\ ExpAt(j)' = ExpAt(j + 1)
      BY <2>4, <3>1
    <3> QED  BY <3>2, <3>3
  <2> QED  BY <2>5 DEF ExpKept
<1> QED  BY <1>2, <1>3, <1>4

LEMMA ImpMoves ==
    ASSUME impLine \in Seq(ImpType), UNCHANGED imp,
           UNCHANGED <<impLine, impSeen>> \/ SendImp \/ ReceiveImp
    PROVE  ImpKept
<1>n. PICK n \in Nat : n = Len(impLine)
  OBVIOUS
<1>1. ImpPlaces = 0 .. n + 1
  BY <1>n DEF ImpPlaces
<1>2. CASE UNCHANGED <<impLine, impSeen>>
  <2>1. ImpPlaces' = ImpPlaces /\ \A i \in ImpPlaces : ImpAt(i)' = ImpAt(i)
    BY <1>2 DEF ImpPlaces, ImpAt
  <2> QED  BY <2>1 DEF ImpKept
<1>3. CASE SendImp
  <2>1. impSeen' = impSeen /\ impLine' = Append(impLine, imp)
    BY <1>3 DEF SendImp
  <2>2. Len(impLine') = n + 1 /\ impLine'[n + 1] = imp /\ (\A i \in 1 .. n : impLine'[i] = impLine[i])
    BY <1>n, <2>1
  <2>3. ImpPlaces' = 0 .. n + 2
    BY <2>2 DEF ImpPlaces
  <2>4. ASSUME NEW i \in 0 .. n + 2
        PROVE  ImpAt(i)' = ImpAt(IF i = n + 2 THEN n + 1 ELSE i)
    <3>1. CASE i = 0
      BY <1>n, <2>1, <3>1 DEF ImpAt
    <3>2. CASE i \in 1 .. n
      BY <1>n, <2>2, <3>2 DEF ImpAt
    <3>3. CASE i = n + 1
      BY <1>n, <2>2, <3>3 DEF ImpAt
    <3>4. CASE i = n + 2
      BY <1>n, <2>2, <3>4 DEF ImpAt
    <3> QED  BY <3>1, <3>2, <3>3, <3>4
  <2>5. ASSUME NEW i \in ImpPlaces', NEW j \in ImpPlaces', i <= j
        PROVE  \E a, b \in ImpPlaces : a <= b /\ ImpAt(i)' = ImpAt(a) /\ ImpAt(j)' = ImpAt(b)
    <3>a. PICK a : a = IF i = n + 2 THEN n + 1 ELSE i
      OBVIOUS
    <3>b. PICK b : b = IF j = n + 2 THEN n + 1 ELSE j
      OBVIOUS
    <3>1. i \in 0 .. n + 2 /\ j \in 0 .. n + 2
      BY <2>3
    <3>2. a \in ImpPlaces /\ b \in ImpPlaces /\ a <= b
      BY <1>1, <2>5, <3>1, <3>a, <3>b
    <3>3. ImpAt(i)' = ImpAt(a) /\ ImpAt(j)' = ImpAt(b)
      BY <2>4, <3>1, <3>a, <3>b
    <3> QED  BY <3>2, <3>3
  <2> QED  BY <2>5 DEF ImpKept
<1>4. CASE ReceiveImp
  <2>1. impLine # <<>> /\ impSeen'.sig = Head(impLine) /\ impLine' = Tail(impLine)
    BY <1>4 DEF ReceiveImp
  <2>2. n > 0 /\ Len(impLine') = n - 1 /\ impSeen'.sig = impLine[1]
        /\ (\A i \in 1 .. n - 1 : impLine'[i] = impLine[i + 1])
    BY <1>n, <2>1
  <2>3. ImpPlaces' = 0 .. n
    BY <2>2 DEF ImpPlaces
  <2>4. ASSUME NEW i \in 0 .. n
        PROVE  ImpAt(i)' = ImpAt(i + 1)
    <3>1. CASE i = 0
      BY <1>n, <2>2, <3>1 DEF ImpAt
    <3>2. CASE i \in 1 .. n - 1
      BY <1>n, <2>2, <3>2 DEF ImpAt
    <3>3. CASE i = n
      BY <1>n, <2>2, <3>3 DEF ImpAt
    <3> QED  BY <3>1, <3>2, <3>3
  <2>5. ASSUME NEW i \in ImpPlaces', NEW j \in ImpPlaces', i <= j
        PROVE  \E a, b \in ImpPlaces : a <= b /\ ImpAt(i)' = ImpAt(a) /\ ImpAt(j)' = ImpAt(b)
    <3>1. i \in 0 .. n /\ j \in 0 .. n
      BY <2>3
    <3>2. i + 1 \in ImpPlaces /\ j + 1 \in ImpPlaces /\ i + 1 <= j + 1
      BY <1>1, <2>5, <3>1
    <3>3. ImpAt(i)' = ImpAt(i + 1) /\ ImpAt(j)' = ImpAt(j + 1)
      BY <2>4, <3>1
    <3> QED  BY <3>2, <3>3
  <2> QED  BY <2>5 DEF ImpKept
<1> QED  BY <1>2, <1>3, <1>4

LEMMA EachExpKept ==
    ASSUME ExpKept, NEW i \in ExpPlaces'
    PROVE  \E a \in ExpPlaces : ExpAt(i)' = ExpAt(a)
<1>1. i <= i
  BY DEF ExpPlaces
<1> QED  BY <1>1 DEF ExpKept

LEMMA EachImpKept ==
    ASSUME ImpKept, NEW i \in ImpPlaces'
    PROVE  \E a \in ImpPlaces : ImpAt(i)' = ImpAt(a)
<1>1. i <= i
  BY DEF ImpPlaces
<1> QED  BY <1>1 DEF ImpKept

LEMMA ExpOrdersKept ==
    ASSUME ExpKept, UNCHANGED <<dev, exp, ctl, opened, env>>
    PROVE  /\ ExpIdle => ExpIdle'
           /\ ExpFlowing => ExpFlowing'
           /\ ExpTaken => ExpTaken'
           /\ ExpOver => ExpOver'
<1>1. ASSUME ExpIdle PROVE ExpIdle'
  <2>1. ASSUME NEW i \in ExpPlaces'
        PROVE  ExpAt(i)'.state = "IDLE"
    BY <1>1, EachExpKept DEF ExpIdle
  <2> QED  BY <2>1 DEF ExpIdle
<1>2. ASSUME ExpFlowing PROVE ExpFlowing'
  <2>1. ASSUME NEW i \in ExpPlaces', NEW j \in ExpPlaces', i <= j, ExpAt(i)'.state # "IDLE"
        PROVE  FlowsTo(ExpAt(i), ExpAt(j))'
    <3>1. PICK a \in ExpPlaces, b \in ExpPlaces : a <= b /\ ExpAt(i)' = ExpAt(a) /\ ExpAt(j)' = ExpAt(b)
      BY <2>1 DEF ExpKept
    <3>2. FlowsTo(ExpAt(a), ExpAt(b))
      BY <1>2, <2>1, <3>1 DEF ExpFlowing
    <3>x. PICK x, y : x = ExpAt(a) /\ y = ExpAt(b)
      OBVIOUS
    <3>3. FlowsTo(x, y)
      BY <3>2, <3>x
    <3>4. FlowsTo(x, y)'
      BY <3>3 DEF FlowsTo, Unread, UnreadOf, DeviceIsDone, Device0, IsDone, Data, Content
    <3>5. ExpAt(i)' = x /\ ExpAt(j)' = y
      BY <3>1, <3>x
    <3> QED  BY <3>4, <3>5 DEF FlowsTo, Unread, UnreadOf
  <2> QED  BY <2>1 DEF ExpFlowing
<1>3. ASSUME ExpTaken PROVE ExpTaken'
  <2>1. ASSUME NEW i \in ExpPlaces'
        PROVE  ExpAt(i)'.state = "COMPLETED" /\ ExpAt(i)'.cs = Data'
    BY <1>3, EachExpKept DEF ExpTaken, Data, Content
  <2> QED  BY <2>1 DEF ExpTaken
<1>4. ASSUME ExpOver PROVE ExpOver'
  <2>1. ASSUME NEW i \in ExpPlaces', NEW j \in ExpPlaces', i <= j
        PROVE  /\ ExpAt(i)'.state \in {"COMPLETED", "IDLE"} /\ ExpAt(i)'.cs = Data'
               /\ ExpAt(i)'.state = "IDLE" => ExpAt(j)'.state = "IDLE"
    <3>1. PICK a \in ExpPlaces, b \in ExpPlaces : a <= b /\ ExpAt(i)' = ExpAt(a) /\ ExpAt(j)' = ExpAt(b)
      BY <2>1 DEF ExpKept
    <3> QED  BY <1>4, <3>1 DEF ExpOver, Data, Content
  <2> QED  BY <2>1 DEF ExpOver
<1> QED  BY <1>1, <1>2, <1>3, <1>4

LEMMA ImpOrdersKept ==
    ASSUME ImpKept, UNCHANGED <<dev, selected>>
    PROVE  /\ ImpIdle => ImpIdle'
           /\ ImpAsking => ImpAsking'
           /\ ImpGranting => ImpGranting'
           /\ ImpTaken => ImpTaken'
<1>1. ASSUME ImpIdle PROVE ImpIdle'
  <2>1. ASSUME NEW i \in ImpPlaces'
        PROVE  ImpAt(i)'.cmd = "IDLE"
    BY <1>1, EachImpKept DEF ImpIdle
  <2> QED  BY <2>1 DEF ImpIdle
<1>2. ASSUME NEW i \in ImpPlaces', NEW j \in ImpPlaces', i <= j
      PROVE  \E a, b \in ImpPlaces : a <= b /\ ImpAt(i)' = ImpAt(a) /\ ImpAt(j)' = ImpAt(b)
  BY <1>2 DEF ImpKept
<1>3. ASSUME ImpAsking PROVE ImpAsking'
  <2>1. ASSUME NEW i \in ImpPlaces', NEW j \in ImpPlaces', i <= j, ImpAt(i)'.cmd = "RUNNING"
        PROVE  ImpAt(i)'.tail = 0 /\ ImpAt(i)'.sel = selected' /\ ImpAt(j)'.cmd = "RUNNING"
    BY <1>2, <1>3, <2>1 DEF ImpAsking
  <2> QED  BY <2>1 DEF ImpAsking
<1>4. ASSUME ImpGranting PROVE ImpGranting'
  <2>1. ASSUME NEW i \in ImpPlaces', NEW j \in ImpPlaces', i <= j
        PROVE  ImpAt(i)'.cmd = "RUNNING"
               /\ Dist(dev'.head, ImpAt(j)'.tail) <= Dist(dev'.head, ImpAt(i)'.tail)
    BY <1>2, <1>4, <2>1 DEF ImpGranting
  <2> QED  BY <2>1 DEF ImpGranting
<1>5. ASSUME ImpTaken PROVE ImpTaken'
  <2>1. ASSUME NEW i \in ImpPlaces', NEW j \in ImpPlaces', i <= j, ImpAt(i)'.cmd # "RUNNING"
        PROVE  ImpAt(j)'.cmd # "RUNNING"
    BY <1>2, <1>5, <2>1 DEF ImpTaken
  <2> QED  BY <2>1 DEF ImpTaken
<1> QED  BY <1>1, <1>3, <1>4, <1>5

\* A snapshot that moves on changes no stage.
LEMMA StagesKept ==
    ASSUME ExpKept, ImpKept, UNCHANGED <<dev, exp, ctl, imp, opened, selected, env>>, Stages, Types, Types'
    PROVE  Stages'
<1>1. /\ ExpIdle => ExpIdle'
      /\ ExpFlowing => ExpFlowing'
      /\ ExpTaken => ExpTaken'
      /\ ExpOver => ExpOver'
  BY ExpOrdersKept
<1>2. /\ ImpIdle => ImpIdle'
      /\ ImpAsking => ImpAsking'
      /\ ImpGranting => ImpGranting'
      /\ ImpTaken => ImpTaken'
  BY ImpOrdersKept
<1>3. (DeviceRests => DeviceRests') /\ (DeviceRuns => DeviceRuns') /\ (DeviceIsDone => DeviceIsDone')
  BY DEF DeviceRests, DeviceRuns, DeviceIsDone, Device0, Ready, IsDone, Data, Content
<1>4. (ReaderRests => ReaderRests') /\ (ReaderIsDone => ReaderIsDone')
  BY DEF ReaderRests, ReaderIsDone, Data, Content
<1>5. ASSUME NEW steps, ReaderRuns(steps)
      PROVE  ReaderRuns(steps)'
  BY <1>5 DEF ReaderRuns
<1>6. CASE Resting
  BY <1>1, <1>2, <1>3, <1>4, <1>6 DEF Resting, Stages
<1>7. CASE Asked
  <2>1. ReaderRuns({"INITIALIZED2"})'
    BY <1>5, <1>7 DEF Asked
  <2>2. Asked'
    BY <1>1, <1>2, <1>3, <1>7, <2>1 DEF Asked
  <2> QED  BY <2>2 DEF Stages
<1>8. CASE Flowing
  <2>1. ReaderRuns({"INITIALIZED2", "TRANSFER_DATA"})'
    BY <1>5, <1>8 DEF Flowing
  <2>2. Level'
    BY <1>8 DEF Flowing, Level, Data, Content
  <2>3. ctl'.step = "TRANSFER_DATA" => expSeen'.sig.state # "IDLE"
    <3> SUFFICES ASSUME ctl.step = "TRANSFER_DATA"
                 PROVE  expSeen'.sig.state # "IDLE"
      OBVIOUS
    <3>0. expLine \in Seq(ExpType) /\ expLine' \in Seq(ExpType)
      BY DEF Types
    <3>1. 0 \in ExpPlaces' /\ ExpAt(0)' = expSeen'.sig
      BY <3>0 DEF ExpPlaces, ExpAt
    <3>2. PICK a \in ExpPlaces : ExpAt(0)' = ExpAt(a)
      BY <3>1, EachExpKept
    <3>3. 0 \in ExpPlaces /\ ExpAt(0) = expSeen.sig /\ 0 <= a
      BY <3>0 DEF ExpPlaces, ExpAt
    <3>4. FlowsTo(ExpAt(0), ExpAt(a))
      BY <1>8, <3>3 DEF Flowing, ExpFlowing
    <3> QED  BY <3>1, <3>2, <3>4 DEF FlowsTo, Going
  <2>4. Flowing'
    BY <1>1, <1>2, <1>3, <1>8, <2>1, <2>2, <2>3 DEF Flowing
  <2> QED  BY <2>4 DEF Stages
<1>9. CASE Taken
  BY <1>1, <1>2, <1>3, <1>4, <1>9 DEF Taken, Stages
<1>10. CASE Over
  BY <1>1, <1>2, <1>3, <1>4, <1>10 DEF Over, Stages
<1> QED  BY <1>6, <1>7, <1>8, <1>9, <1>10 DEF Stages

----------------------------------------------------------------------------
(* Undisturbed transfers: steps of the device.                             *)

\* A step of the device changes the last snapshot, one of the controller too.
LEMMA ExpLast ==
    ASSUME expLine \in Seq(ExpType), UNCHANGED <<expLine, expSeen>>
    PROVE  \E last \in ExpPlaces :
              /\ ExpPlaces' = ExpPlaces /\ ExpAt(last) = exp
              /\ \A i \in ExpPlaces : i <= last /\ ExpAt(i)' = IF i = last THEN exp' ELSE ExpAt(i)
<1>n. PICK n \in Nat : n = Len(expLine)
  OBVIOUS
<1>1. ExpPlaces = 0 .. n + 1 /\ ExpPlaces' = ExpPlaces
  BY <1>n DEF ExpPlaces
<1>2. ExpAt(n + 1) = exp
  BY <1>n DEF ExpAt
<1>3. ASSUME NEW i \in 0 .. n + 1
      PROVE  i <= n + 1 /\ ExpAt(i)' = IF i = n + 1 THEN exp' ELSE ExpAt(i)
  BY <1>n DEF ExpAt
<1>4. n + 1 \in ExpPlaces
  BY <1>1
<1> QED  BY <1>1, <1>2, <1>3, <1>4

LEMMA ImpLast ==
    ASSUME impLine \in Seq(ImpType), UNCHANGED <<impLine, impSeen>>
    PROVE  \E last \in ImpPlaces :
              /\ ImpPlaces' = ImpPlaces /\ ImpAt(last) = imp
              /\ \A i \in ImpPlaces : i <= last /\ ImpAt(i)' = IF i = last THEN imp' ELSE ImpAt(i)
<1>n. PICK n \in Nat : n = Len(impLine)
  OBVIOUS
<1>1. ImpPlaces = 0 .. n + 1 /\ ImpPlaces' = ImpPlaces
  BY <1>n DEF ImpPlaces
<1>2. ImpAt(n + 1) = imp
  BY <1>n DEF ImpAt
<1>3. ASSUME NEW i \in 0 .. n + 1
      PROVE  i <= n + 1 /\ ImpAt(i)' = IF i = n + 1 THEN imp' ELSE ImpAt(i)
  BY <1>n DEF ImpAt
<1>4. n + 1 \in ImpPlaces
  BY <1>1
<1> QED  BY <1>1, <1>2, <1>3, <1>4

\* The places and what they hold.
LEMMA PlaceTypes ==
    ASSUME Types
    PROVE  /\ 0 \in ExpPlaces /\ ExpAt(0) = expSeen.sig /\ \A i \in ExpPlaces : 0 <= i /\ i <= i /\ ExpAt(i) \in ExpType
           /\ 0 \in ImpPlaces /\ ImpAt(0) = impSeen.sig /\ \A i \in ImpPlaces : 0 <= i /\ i <= i /\ ImpAt(i) \in ImpType
<1>1. /\ expLine \in Seq(ExpType) /\ expSeen.sig \in ExpType /\ exp \in ExpType
      /\ impLine \in Seq(ImpType) /\ impSeen.sig \in ImpType /\ imp \in ImpType
  BY DEF Types, ExpCopy, ImpCopy
<1>2. 0 \in ExpPlaces /\ ExpAt(0) = expSeen.sig /\ \A i \in ExpPlaces : 0 <= i /\ i <= i
  BY <1>1 DEF ExpPlaces, ExpAt
<1>3. 0 \in ImpPlaces /\ ImpAt(0) = impSeen.sig /\ \A i \in ImpPlaces : 0 <= i /\ i <= i
  BY <1>1 DEF ImpPlaces, ImpAt
<1>4. \A i \in ExpPlaces : ExpAt(i) \in ExpType
  BY <1>1 DEF ExpPlaces, ExpAt
<1>5. \A i \in ImpPlaces : ImpAt(i) \in ImpType
  BY <1>1 DEF ImpPlaces, ImpAt
<1> QED  BY <1>2, <1>3, <1>4, <1>5

\* New bytes follow those in the ring.
LEMMA FedUnread ==
    ASSUME ctl \in CtlType, NEW d \in DevPair, NEW m \in Nat, NEW r,
           NEW content \in Seq(Nat), Fed(d, m, r, content),
           d.x.head = d.s.head, r.x.head = r.s.head,
           Dist(d.s.head, ctl.tail) + m < BufSz,
           d.s.pos = Len(ctl.sum) + Dist(d.s.head, ctl.tail), UnreadOf(d.x, content)
    PROVE  /\ UnreadOf(r.x, content) /\ Dist(r.s.head, ctl.tail) = Dist(d.s.head, ctl.tail) + m
           /\ r.s.pos = Len(ctl.sum) + Dist(r.s.head, ctl.tail)
<1>h. PICK h : h = d.s.head
  OBVIOUS
<1>t. PICK t : t = ctl.tail
  OBVIOUS
<1>1. h \in Position /\ t \in Position /\ d.s.pos \in Nat
  BY <1>h, <1>t DEF DevPair, DevType, CtlType
<1>d. PICK D : D = Dist(h, t)
  OBVIOUS
<1>l. PICK len \in Nat : len = Len(ctl.sum)
  BY DEF CtlType
<1>2. D \in Position /\ D + m < BufSz /\ d.s.pos = len + D /\ BufSz \in Nat
  BY <1>1, <1>h, <1>t, <1>d, <1>l, DistMod, BufSzAssumption
<1>3. r.s.head = Onward(h, m) /\ Dist(r.s.head, t) = D + m
  <2>1. D \in Int /\ m + D = D + m
    BY <1>2 DEF Position
  <2>2. m + Dist(h, t) < BufSz
    BY <1>2, <1>d, <2>1
  <2>3. Dist(Onward(h, m), t) = Dist(h, t) + m
    BY <1>1, <2>2, HeadMoves
  <2> QED  BY <1>h, <1>d, <2>3 DEF Fed
<1>4. r.s.pos = len + (D + m)
  <2>1. r.s.pos = d.s.pos + m
    BY DEF Fed
  <2> QED  BY <1>2, <2>1 DEF Position
<1>5. ASSUME NEW k \in Position, k < D + m
      PROVE  r.x.buf[Onward(t, k)] = content[len + k + 1]
  <2>q. PICK q : q = IF k < D THEN BufSz - (D - k) ELSE k - D
    OBVIOUS
  <2>1. Onward(t, k) = Onward(h, q)
    BY <1>1, <1>d, <2>q, FromTail
  <2>2. q \in Position /\ (k < D => ~(q < m)) /\ (~(k < D) => q < m /\ d.s.pos + q + 1 = len + k + 1)
    BY <1>2, <1>5, <2>q DEF Position
  <2>3. r.x.buf[Onward(h, q)] = IF q < m THEN content[d.s.pos + q + 1] ELSE d.x.buf[Onward(h, q)]
    BY <1>h, <2>2 DEF Fed
  <2>4. CASE k < D
    <3>1. d.x.buf[Onward(t, k)] = content[len + k + 1]
      BY <1>h, <1>t, <1>d, <1>l, <2>4 DEF UnreadOf
    <3> QED  BY <2>1, <2>2, <2>3, <2>4, <3>1
  <2>5. CASE ~(k < D)
    BY <2>1, <2>2, <2>3, <2>5
  <2> QED  BY <2>4, <2>5
<1>6. UnreadOf(r.x, content)
  BY <1>3, <1>5, <1>t, <1>l DEF UnreadOf
<1> QED  BY <1>3, <1>4, <1>6, <1>h, <1>t, <1>d, <1>l

\* The device has room for what it knows to be free: no more than there is.
LEMMA RoomKnown ==
    ASSUME Types, NEW d \in DevPair, NEW t \in Position, NEW n, n = TxAvailable(d.s.head, impSeen.sig.tail),
           NEW m \in 0 .. n, Dist(d.s.head, t) <= Dist(d.s.head, impSeen.sig.tail)
    PROVE  /\ Dist(d.s.head, t) + m < BufSz /\ m \in Nat
           /\ Dist(Onward(d.s.head, m), t) = Dist(d.s.head, t) + m
<1>1. d.s.head \in Position /\ impSeen.sig.tail \in Position
  BY DEF DevPair, DevType, Types, ImpCopy, ImpType
<1>a. PICK D \in Position : D = Dist(d.s.head, t)
  BY <1>1, DistMod
<1>b. PICK E \in Position : E = Dist(d.s.head, impSeen.sig.tail)
  BY <1>1, DistMod
<1>2. n = BufSz - 1 - E
  BY <1>1, <1>b, Room
<1>3. m \in Nat /\ m + D < BufSz /\ D + m < BufSz /\ D <= E
  BY <1>2, <1>a, <1>b, BufSzAssumption DEF Position
<1>4. Dist(Onward(d.s.head, m), t) = Dist(d.s.head, t) + m
  BY <1>1, <1>3, <1>a, HeadMoves
<1> QED  BY <1>3, <1>4, <1>a

\* The pair of a device and its signals.
LEMMA NextDevice ==
    ASSUME NEW r \in DevPair, dev' = r.s, exp' = r.x
    PROVE  Device0' = r
BY DEF Device0, DevPair

\* What a call of the control stream finds that begins or goes on with a
\* transfer: d is the device.
ImpBefore(d) ==
    \A i, j \in ImpPlaces : i <= j =>
        /\ ImpAt(i).cmd = "RUNNING"
        /\ Dist(d.s.head, ImpAt(j).tail) <= Dist(d.s.head, ImpAt(i).tail)
ExpBefore(d, content) ==
    \A i, j \in ExpPlaces : i <= j /\ ExpAt(i).state # "IDLE" =>
        /\ ExpAt(i).state = "RUNNING" /\ ExpAt(j).state = "RUNNING" /\ UnreadOf(ExpAt(i), content)
        /\ Dist(ExpAt(i).head, ctl.tail) <= Dist(ExpAt(j).head, ctl.tail)
        /\ Dist(ExpAt(i).head, ctl.tail) <= Dist(d.s.head, ctl.tail)
Before(d, content) ==
    /\ Ready(d, content) /\ ImpBefore(d) /\ ExpBefore(d, content)
    /\ ReaderRuns({"INITIALIZED2", "TRANSFER_DATA"})
    /\ ctl.step = "INITIALIZED2" => ctl.tail = 0 /\ ctl.sum = <<>>
    /\ ctl.step = "TRANSFER_DATA" => expSeen.sig.state # "IDLE"
    /\ Len(ctl.sum) <= Len(content) /\ ctl.sum = SubSeq(content, 1, Len(ctl.sum))
    /\ d.s.pos = Len(ctl.sum) + Dist(d.s.head, ctl.tail) /\ UnreadOf(d.x, content)

LEMMA DeviceFlows ==
    ASSUME Types, NEW d, NEW content \in Seq(Nat), content = Data', Before(d, content), NEW r,
           Advanced(d, TxAvailable(d.s.head, impSeen.sig.tail), r, content),
           IsDone(r, content) \/ (Ready(r, content) /\ r.s.step = "TRANSFER_DATA" /\ r.s.file # "none"),
           dev' = r.s, exp' = r.x, opened' = selected,
           UNCHANGED <<ctl, imp, expLine, impLine, expSeen, impSeen, link, selected, env>>
    PROVE  Flowing'
<1>0. /\ d \in DevPair /\ d.x.head = d.s.head /\ d.s.head \in Position
      /\ r \in DevPair /\ r.x.head = r.s.head /\ r.x.state \in Going
      /\ r.x.state = "COMPLETED" => r.x.cs = content /\ IsDone(r, content)
  BY DEF Before, Ready, IsDone, DevPair, DevType, Going
<1>1. ctl \in CtlType /\ ctl.tail \in Position /\ expLine \in Seq(ExpType) /\ impLine \in Seq(ImpType)
  BY DEF Types, CtlType
<1>n. PICK n : n = TxAvailable(d.s.head, impSeen.sig.tail)
  OBVIOUS
<1>m. PICK m \in 0 .. n : Fed(d, m, r, content)
  BY <1>n DEF Advanced
\* The room at every snapshot of the controller's signals, the newest one has
\* the controller's own tail.
<1>2. ASSUME NEW i \in ImpPlaces
      PROVE  /\ ImpAt(i).tail \in Position
             /\ Dist(r.s.head, ImpAt(i).tail) = Dist(d.s.head, ImpAt(i).tail) + m
             /\ Dist(d.s.head, ImpAt(i).tail) + m < BufSz /\ m \in Nat
  <2>1. 0 \in ImpPlaces /\ ImpAt(0) = impSeen.sig /\ 0 <= i /\ ImpAt(i) \in ImpType
    BY PlaceTypes
  <2>2. ImpAt(i).tail \in Position
    BY <2>1 DEF ImpType
  <2>3. Dist(d.s.head, ImpAt(i).tail) <= Dist(d.s.head, impSeen.sig.tail)
    BY <2>1 DEF Before, ImpBefore
  <2>4. /\ Dist(d.s.head, ImpAt(i).tail) + m < BufSz /\ m \in Nat
        /\ Dist(Onward(d.s.head, m), ImpAt(i).tail) = Dist(d.s.head, ImpAt(i).tail) + m
    BY <1>0, <1>n, <2>2, <2>3, RoomKnown
  <2>5. r.s.head = Onward(d.s.head, m)
    BY <1>m DEF Fed
  <2> QED  BY <2>2, <2>4, <2>5
<1>i. PICK last \in ImpPlaces :
              /\ ImpPlaces' = ImpPlaces /\ ImpAt(last) = imp
              /\ \A i \in ImpPlaces : i <= last /\ ImpAt(i)' = IF i = last THEN imp' ELSE ImpAt(i)
  BY <1>1, ImpLast
<1>3. \A i \in ImpPlaces : ImpAt(i)' = ImpAt(i)
  BY <1>i
<1>4. imp.tail = ctl.tail
  BY DEF Before, ReaderRuns
<1>5. Dist(d.s.head, ctl.tail) + m < BufSz /\ m \in Nat
      /\ Dist(r.s.head, ctl.tail) = Dist(d.s.head, ctl.tail) + m
  BY <1>2, <1>4, <1>i
<1>6. UnreadOf(r.x, content) /\ r.s.pos = Len(ctl.sum) + Dist(r.s.head, ctl.tail)
  <2>1. d.s.pos = Len(ctl.sum) + Dist(d.s.head, ctl.tail) /\ UnreadOf(d.x, content)
    BY DEF Before
  <2> QED  BY <1>0, <1>1, <1>m, <1>5, <2>1, FedUnread
<1>7. ReaderRuns({"INITIALIZED2", "TRANSFER_DATA"})'
  BY DEF Before, ReaderRuns
<1>8. Device0' = r
  BY <1>0, NextDevice
<1>9. (DeviceRuns \/ DeviceIsDone)'
  <2>1. CASE IsDone(r, content)
    <3>1. IsDone(r, Data)'
      BY <2>1 DEF IsDone
    <3> QED  BY <1>8, <3>1 DEF DeviceIsDone, IsDone
  <2>2. CASE Ready(r, content) /\ r.s.step = "TRANSFER_DATA" /\ r.s.file # "none"
    <3>1. Ready(r, Data)'
      BY <2>2 DEF Ready
    <3>2. Ready(Device0, Data)'
      BY <1>8, <3>1 DEF Ready
    <3> QED  BY <2>2, <3>2 DEF DeviceRuns
  <2> QED  BY <2>1, <2>2
<1>10. Level'
  BY <1>6 DEF Before, Level
<1>11. ImpGranting'
  <2>1. ASSUME NEW i \in ImpPlaces, NEW j \in ImpPlaces, i <= j
        PROVE  /\ ImpAt(i).cmd = "RUNNING"
               /\ Dist(r.s.head, ImpAt(j).tail) <= Dist(r.s.head, ImpAt(i).tail)
    <3>1. /\ ImpAt(i).cmd = "RUNNING"
          /\ Dist(d.s.head, ImpAt(j).tail) <= Dist(d.s.head, ImpAt(i).tail)
      BY <2>1 DEF Before, ImpBefore
    <3>2. Dist(d.s.head, ImpAt(j).tail) \in Position /\ Dist(d.s.head, ImpAt(i).tail) \in Position
      BY <1>0, <1>2, DistMod
    <3>3. /\ Dist(r.s.head, ImpAt(i).tail) = Dist(d.s.head, ImpAt(i).tail) + m
          /\ Dist(r.s.head, ImpAt(j).tail) = Dist(d.s.head, ImpAt(j).tail) + m /\ m \in Nat
      BY <1>2
    <3> QED  BY <3>1, <3>2, <3>3 DEF Position
  <2> QED  BY <1>3, <1>i, <2>1 DEF ImpGranting
<1>e. PICK end \in ExpPlaces :
              /\ ExpPlaces' = ExpPlaces /\ ExpAt(end) = exp
              /\ \A i \in ExpPlaces : i <= end /\ ExpAt(i)' = IF i = end THEN exp' ELSE ExpAt(i)
  BY <1>1, ExpLast
<1>12. ExpFlowing'
  <2> SUFFICES ASSUME NEW i \in ExpPlaces, NEW j \in ExpPlaces, i <= j, ExpAt(i)'.state # "IDLE"
               PROVE  FlowsTo(ExpAt(i), ExpAt(j))'
    BY <1>e DEF ExpFlowing
  <2>x. PICK x, y : x = ExpAt(i)' /\ y = ExpAt(j)'
    OBVIOUS
  <2>d. PICK D \in Position : D = Dist(d.s.head, ctl.tail)
    BY <1>0, <1>1, DistMod
  <2>1. /\ x.state \in Going /\ y.state \in Going /\ UnreadOf(x, content)
        /\ Dist(x.head, ctl.tail) <= Dist(y.head, ctl.tail)
        /\ x.state = "COMPLETED" => x = r.x /\ y = r.x
    <3>1. CASE i = end
      <4>1. i \in Int /\ j \in Int /\ end \in Int /\ j <= end
        BY <1>e DEF ExpPlaces
      <4>2. j = end
        BY <3>1, <4>1
      <4>3. x = r.x /\ y = r.x
        BY <1>e, <2>x, <3>1, <4>2
      <4>4. Dist(r.x.head, ctl.tail) \in Int
        BY <1>0, <1>5, <2>d DEF Position
      <4> QED  BY <1>0, <1>6, <4>3, <4>4
    <3>2. CASE i # end
      <4>1. x = ExpAt(i) /\ x.state # "IDLE"
        BY <1>e, <2>x, <3>2
      <4>2. /\ x.state = "RUNNING" /\ ExpAt(j).state = "RUNNING" /\ UnreadOf(x, content)
            /\ Dist(x.head, ctl.tail) <= Dist(ExpAt(j).head, ctl.tail)
            /\ Dist(x.head, ctl.tail) <= D
        BY <2>d, <4>1 DEF Before, ExpBefore
      <4>3. CASE j = end
        <5>1. y = r.x
          BY <1>e, <2>x, <4>3
        <5>2. Dist(y.head, ctl.tail) = D + m
          BY <1>0, <1>5, <2>d, <5>1
        <5>3. x.head \in Position
          BY <4>1, PlaceTypes DEF ExpType
        <5>4. Dist(x.head, ctl.tail) \in Position
          BY <1>1, <5>3, DistMod
        <5>5. Dist(x.head, ctl.tail) <= D + m
          BY <1>5, <2>d, <4>2, <5>4 DEF Position
        <5> QED  BY <1>0, <4>2, <5>1, <5>2, <5>5 DEF Going
      <4>4. CASE j # end
        BY <1>e, <2>x, <4>2, <4>4 DEF Going
      <4> QED  BY <4>3, <4>4
    <3> QED  BY <3>1, <3>2
  <2>2. x.state = "COMPLETED" =>
           y.state = "COMPLETED" /\ x.head = dev'.head /\ x.cs = Data' /\ DeviceIsDone'
    <3> SUFFICES ASSUME x.state = "COMPLETED"
                 PROVE  y.state = "COMPLETED" /\ x.head = dev'.head /\ x.cs = Data' /\ DeviceIsDone'
      OBVIOUS
    <3>1. x = r.x /\ y = r.x
      BY <2>1
    <3>2. IsDone(r, content) /\ r.x.cs = content
      BY <1>0, <3>1
    <3>3. IsDone(r, Data)'
      BY <3>2 DEF IsDone
    <3>4. DeviceIsDone'
      BY <1>8, <3>3 DEF DeviceIsDone, IsDone
    <3> QED  BY <1>0, <3>1, <3>2, <3>4
  <2>3. FlowsTo(x, y)'
    <3>1. Unread(x)'
      BY <2>1 DEF Unread, UnreadOf
    <3>2. Dist(x.head, ctl'.tail) <= Dist(y.head, ctl'.tail)
      BY <2>1
    <3> QED  BY <2>1, <2>2, <3>1, <3>2 DEF FlowsTo
  <2> QED  BY <2>x, <2>3 DEF FlowsTo, Unread, UnreadOf
<1>13. ctl'.step = "TRANSFER_DATA" => expSeen'.sig.state # "IDLE"
  BY DEF Before
<1> QED  BY <1>7, <1>9, <1>10, <1>11, <1>12, <1>13 DEF Flowing

LEMMA CleanOpen ==
    ASSUME env \in Environments, exp \in ExpType, NEW content \in Contents,
           NEW file \in {"block", "defaults"}
    PROVE  LET d == DeviceOpen(file)
           IN  Ready(d, content) /\ d.s.head = 0 /\ d.s.pos = 0 /\ d.s.file # "none"
<1>r. PICK r : r = DeviceOpen(file)
  OBVIOUS
<1>1. r \in DevPair /\ r.s.open /\ r.s.pos <= Len(content)
  BY <1>r, OpenReads DEF Reading
<1>s. PICK t : t = [NoFile EXCEPT !.open = TRUE, !.file = file, !.ok = TRUE]
  OBVIOUS
<1>x. PICK x : x = [exp EXCEPT !.state = "IDLE", !.head = 0, !.cs = NoSum, !.err = "SUCCESS"]
  OBVIOUS
<1>2. r = [s |-> t, x |-> x]
  <2>1. (file # "none") = TRUE
    OBVIOUS
  <2> QED  BY <1>r, <1>s, <1>x, <2>1 DEF DeviceOpen
<1>3. r.s = t /\ r.x = x
  BY <1>2
<1>4. t.ok /\ t.head = 0 /\ t.pos = 0 /\ t.sum = <<>> /\ t.step = "INITIALIZED" /\ t.file = file
  BY <1>s DEF NoFile
<1>5. x.head = 0
  BY <1>x DEF ExpType
<1>6. SubSeq(content, 1, 0) = <<>>
  BY SubSeqEmpty
<1>7. Ready(r, content)
  BY <1>1, <1>3, <1>4, <1>5, <1>6 DEF Ready, DataSteps
<1> QED  BY <1>r, <1>3, <1>4, <1>7

\* A call of the control stream in which nothing fails.
DeviceCall == RunControlStream(TRUE, FALSE, FALSE)

\* The device opens the block asked for when it sees the command.
LEMMA AskedDevice ==
    ASSUME Types, Asked, impSeen.conn, DeviceCall
    PROVE  Flowing'
<1>0. ~dev.open /\ impSeen.sig.cmd = "RUNNING"
  BY DEF DeviceCall, Asked, DeviceRests, RunControlStream, cmd
<1>2. env \in Environments /\ exp \in ExpType /\ impSeen \in ImpCopy /\ ctl \in CtlType
      /\ selected \in Block
  BY DEF Types
<1>5. ASSUME NEW i \in ImpPlaces
      PROVE  ImpAt(i).cmd = "RUNNING" /\ ImpAt(i).tail = 0 /\ ImpAt(i).sel = selected
  <2>1. 0 \in ImpPlaces /\ ImpAt(0) = impSeen.sig /\ 0 <= i /\ i <= i
    BY PlaceTypes
  <2> QED  BY <1>0, <2>1 DEF Asked, ImpAsking
<1>s. impSeen.sig.sel = selected
  BY <1>5, PlaceTypes
<1>c. PICK content \in Seq(Nat) : content = Content(selected) /\ content \in Contents
  BY <1>2, ContentType DEF Contents
<1>f. PICK file \in {"block", "defaults"} : file = FileOf(selected, TRUE)
  BY DEF FileOf
<1>d. PICK d : d = DeviceOpen(file)
  OBVIOUS
<1>r. PICK r : r = FromDevice(d, content, FALSE, FALSE)
  OBVIOUS
<1>1. dev' = r.s /\ exp' = r.x /\ opened' = selected
      /\ UNCHANGED <<ctl, imp, expLine, impLine, expSeen, impSeen, link, selected, env>>
  <2>1. OpenBlock(opened) = selected
    BY <1>0, <1>s DEF OpenBlock
  <2>2. /\ \/ dev' = r.s /\ exp' = r.x /\ opened' = selected
           \/ dev.open
        /\ UNCHANGED <<ctl, imp, expLine, impLine, expSeen, impSeen, link, selected, env>>
    BY <1>c, <1>d, <1>f, <1>r, <2>1 DEF DeviceCall, RunControlStream
  <2> QED  BY <1>0, <2>2
<1>e. content = Data'
  BY <1>1, <1>c DEF Data, Content
<1>3. Ready(d, content) /\ d.s.head = 0 /\ d.s.pos = 0 /\ d.s.file # "none"
  BY <1>2, <1>c, <1>d, CleanOpen
<1>4. Dist(0, 0) = 0 /\ 0 \in Position
  BY BufSzAssumption DEF Dist, Position
<1>6. ImpBefore(d)
  BY <1>3, <1>4, <1>5 DEF ImpBefore
<1>7. ExpBefore(d, content)
  BY DEF Asked, ExpIdle, ExpBefore
<1>8. ctl.step = "INITIALIZED2" /\ ctl.tail = 0 /\ ctl.sum = <<>> /\ ReaderRuns({"INITIALIZED2", "TRANSFER_DATA"})
  BY DEF Asked, ReaderRuns
<1>9. Len(ctl.sum) = 0 /\ Len(content) \in Nat /\ SubSeq(content, 1, 0) = <<>>
  BY <1>2, <1>8, EmptySeq, ContentType, SubSeqEmpty
<1>10. UnreadOf(d.x, content)
  <2>1. d.x.head = 0
    BY <1>3 DEF Ready
  <2> QED  BY <1>4, <1>8, <2>1, BufSzAssumption DEF UnreadOf, Position
<1>11. Before(d, content)
  <2>1. Len(ctl.sum) <= Len(content) /\ ctl.sum = SubSeq(content, 1, Len(ctl.sum))
    BY <1>8, <1>9
  <2>2. d.s.pos = Len(ctl.sum) + Dist(d.s.head, ctl.tail)
    BY <1>3, <1>4, <1>8, <1>9
  <2> QED  BY <1>3, <1>6, <1>7, <1>8, <1>10, <2>1, <2>2 DEF Before
<1>n. PICK n : n = TxAvailable(d.s.head, impSeen.sig.tail)
  OBVIOUS
<1>12. Advanced(d, n, r, content)
  BY <1>0, <1>2, <1>3, <1>r, <1>n, CleanFromDevice DEF cmd
<1>13. n # 0
  <2>1. impSeen.sig.tail = 0
    BY <1>5, PlaceTypes
  <2>2. n = BufSz - 1 - Dist(0, 0)
    BY <1>3, <1>4, <1>n, <2>1, Room
  <2> QED  BY <1>4, <2>2, BufSzAssumption
<1>14. IsDone(r, content) \/ (Ready(r, content) /\ r.s.step = "TRANSFER_DATA" /\ r.s.file # "none")
  BY <1>12, <1>13 DEF Advanced
<1> QED  BY <1>1, <1>e, <1>11, <1>12, <1>14, <1>n, DeviceFlows

\* Data goes into the ring.
LEMMA RunningDevice ==
    ASSUME Types, Flowing, DeviceRuns, impSeen.conn, DeviceCall
    PROVE  Flowing'
<1>c. PICK content \in Seq(Nat) : content = Data
  BY ContentType DEF Types, Data
<1>d. PICK d : d = Device0
  OBVIOUS
<1>r. PICK r : r = FromDevice(d, content, FALSE, FALSE)
  OBVIOUS
<1>0. d.s = dev /\ d.x = exp
  BY <1>d DEF Device0
<1>1. Ready(d, content) /\ d.s.step = "TRANSFER_DATA" /\ d.s.file # "none" /\ dev.open
  BY <1>c, <1>d, <1>0 DEF DeviceRuns, Ready
<1>2. dev' = r.s /\ exp' = r.x
      /\ UNCHANGED <<ctl, imp, expLine, impLine, expSeen, impSeen, link, opened, selected, env>>
  BY <1>c, <1>d, <1>r, <1>1 DEF DeviceCall, RunControlStream, OpenBlock, Data
<1>e. content = Data' /\ opened' = selected
  BY <1>2, <1>c DEF Data, Content, Flowing
<1>3. env \in Environments /\ impSeen \in ImpCopy /\ expLine \in Seq(ExpType)
  BY DEF Types
<1>4. cmd = "RUNNING"
  BY PlaceTypes DEF Flowing, ImpGranting, cmd
<1>5. ImpBefore(d)
  BY <1>0 DEF Flowing, ImpGranting, ImpBefore
<1>6. exp.state = "RUNNING" /\ exp.head = dev.head /\ ~DeviceIsDone
  BY <1>0, <1>1, <1>d DEF Ready, DeviceIsDone, IsDone
<1>7. ASSUME NEW i \in ExpPlaces, NEW j \in ExpPlaces, i <= j, ExpAt(i).state # "IDLE"
      PROVE  /\ ExpAt(i).state = "RUNNING" /\ ExpAt(j).state = "RUNNING" /\ UnreadOf(ExpAt(i), content)
             /\ Dist(ExpAt(i).head, ctl.tail) <= Dist(ExpAt(j).head, ctl.tail)
             /\ Dist(ExpAt(i).head, ctl.tail) <= Dist(d.s.head, ctl.tail)
  <2>1. FlowsTo(ExpAt(i), ExpAt(j))
    BY <1>7 DEF Flowing, ExpFlowing
  <2>2. FlowsTo(ExpAt(j), ExpAt(j))
    <3>1. ExpAt(j).state # "IDLE" /\ j <= j
      BY <2>1, PlaceTypes DEF FlowsTo, Going
    <3> QED  BY <3>1 DEF Flowing, ExpFlowing
  <2>3. ExpAt(i).state = "RUNNING" /\ ExpAt(j).state = "RUNNING"
    BY <1>6, <2>1, <2>2 DEF FlowsTo, Going
  <2>4. FlowsTo(ExpAt(i), exp)
    <3>e. PICK end \in ExpPlaces : ExpAt(end) = exp /\ i <= end
      BY <1>2, <1>3, ExpLast
    <3> QED  BY <1>7, <3>e DEF Flowing, ExpFlowing
  <2> QED  BY <1>c, <1>0, <1>6, <2>1, <2>3, <2>4 DEF FlowsTo, Unread
<1>8. ExpBefore(d, content)
  BY <1>7 DEF ExpBefore
<1>9. UnreadOf(d.x, content)
  <2>e. PICK end \in ExpPlaces : ExpAt(end) = exp
    BY <1>2, <1>3, ExpLast
  <2>1. end <= end
    BY PlaceTypes
  <2>2. FlowsTo(exp, exp)
    BY <1>6, <2>e, <2>1 DEF Flowing, ExpFlowing
  <2> QED  BY <1>c, <1>0, <2>2 DEF FlowsTo, Unread
<1>10. Before(d, content)
  BY <1>c, <1>0, <1>1, <1>5, <1>8, <1>9 DEF Before, Flowing, Level
<1>n. PICK n : n = TxAvailable(d.s.head, impSeen.sig.tail)
  OBVIOUS
<1>11. Advanced(d, n, r, content)
  BY <1>1, <1>3, <1>4, <1>r, <1>n, CleanFromDevice
<1>12. IsDone(r, content) \/ (Ready(r, content) /\ r.s.step = "TRANSFER_DATA" /\ r.s.file # "none")
  BY <1>1, <1>11 DEF Advanced
<1> QED  BY <1>2, <1>e, <1>10, <1>11, <1>12, <1>n, DeviceFlows

\* A device that has marked the end keeps it as long as it sees the command.
LEMMA DoneKept ==
    ASSUME Types, DeviceIsDone, NEW r, IsDone(r, Data), ButForFile(Device0, r), dev' = r.s, exp' = r.x,
           UNCHANGED <<ctl, imp, expLine, impLine, expSeen, impSeen, link, opened, selected, env>>
    PROVE  (Flowing => Flowing') /\ (Taken => Taken')
<1>1. dev'.head = dev.head /\ dev'.pos = dev.pos /\ exp' = exp
  BY DEF ButForFile, Device0
<1>2. Device0' = r
  BY NextDevice DEF IsDone
<1>3. IsDone(r, Data)'
  BY DEF IsDone, Data, Content
<1>4. DeviceIsDone'
  BY <1>2, <1>3 DEF DeviceIsDone, IsDone
<1>5. ExpPlaces' = ExpPlaces /\ \A i \in ExpPlaces : ExpAt(i)' = ExpAt(i)
  BY <1>1 DEF ExpPlaces, ExpAt
<1>6. ImpPlaces' = ImpPlaces /\ \A i \in ImpPlaces : ImpAt(i)' = ImpAt(i)
  BY DEF ImpPlaces, ImpAt
<1>7. ASSUME Flowing PROVE Flowing'
  <2>1. ReaderRuns({"INITIALIZED2", "TRANSFER_DATA"})'
    BY <1>7 DEF Flowing, ReaderRuns
  <2>2. Level'
    BY <1>1, <1>7 DEF Flowing, Level, Data, Content
  <2>3. ImpGranting'
    BY <1>1, <1>6, <1>7 DEF Flowing, ImpGranting
  <2>4. ExpFlowing'
    <3> SUFFICES ASSUME NEW i \in ExpPlaces, NEW j \in ExpPlaces, i <= j, ExpAt(i)'.state # "IDLE"
                 PROVE  FlowsTo(ExpAt(i), ExpAt(j))'
      BY <1>5 DEF ExpFlowing
    <3>x. PICK x, y : x = ExpAt(i) /\ y = ExpAt(j)
      OBVIOUS
    <3>1. x = ExpAt(i)' /\ y = ExpAt(j)'
      BY <1>5, <3>x
    <3>2. FlowsTo(x, y)
      BY <1>7, <3>1, <3>x DEF Flowing, ExpFlowing
    <3>3. FlowsTo(x, y)'
      BY <1>1, <1>4, <3>2 DEF FlowsTo, Unread, UnreadOf, Data, Content
    <3> QED  BY <3>1, <3>3 DEF FlowsTo, Unread, UnreadOf
  <2>5. ctl'.step = "TRANSFER_DATA" => expSeen'.sig.state # "IDLE"
    BY <1>7 DEF Flowing
  <2> QED  BY <1>4, <1>7, <2>1, <2>2, <2>3, <2>4, <2>5 DEF Flowing
<1>8. ASSUME Taken PROVE Taken'
  <2>1. ReaderIsDone'
    BY <1>8 DEF Taken, ReaderIsDone, Data, Content
  <2>2. ExpTaken'
    BY <1>5, <1>8 DEF Taken, ExpTaken, Data, Content
  <2>3. ImpTaken'
    BY <1>6, <1>8 DEF Taken, ImpTaken
  <2> QED  BY <1>4, <1>8, <2>1, <2>2, <2>3 DEF Taken
<1> QED  BY <1>7, <1>8

\* It closes when it sees that the controller has all.
LEMMA DoneCloses ==
    ASSUME Types, Taken, NEW r, impSeen.sig.cmd # "RUNNING", ~r.s.open, r.x.state = "IDLE", r.x.cs = exp.cs,
           dev' = r.s, exp' = r.x,
           UNCHANGED <<ctl, imp, expLine, impLine, expSeen, impSeen, link, opened, selected, env>>
    PROVE  Over'
<1>1. ReaderIsDone'
  BY DEF Taken, ReaderIsDone, Data, Content
<1>2. DeviceRests'
  BY DEF DeviceRests
<1>3. ImpIdle'
  <2>1. ImpPlaces' = ImpPlaces /\ \A i \in ImpPlaces : ImpAt(i)' = ImpAt(i)
    BY DEF ImpPlaces, ImpAt
  <2>2. ASSUME NEW i \in ImpPlaces
        PROVE  ImpAt(i).cmd = "IDLE"
    <3>1. 0 \in ImpPlaces /\ ImpAt(0) = impSeen.sig /\ 0 <= i /\ ImpAt(i) \in ImpType
      BY PlaceTypes
    <3>2. ImpAt(i).cmd # "RUNNING"
      BY <3>1 DEF Taken, ImpTaken
    <3> QED  BY <3>1, <3>2 DEF ImpType
  <2> QED  BY <2>1, <2>2 DEF ImpIdle
<1>4. ExpOver'
  <2>0. expLine \in Seq(ExpType)
    BY DEF Types
  <2>e. PICK end \in ExpPlaces :
              /\ ExpPlaces' = ExpPlaces /\ ExpAt(end) = exp
              /\ \A i \in ExpPlaces : i <= end /\ ExpAt(i)' = IF i = end THEN exp' ELSE ExpAt(i)
    BY <2>0, ExpLast
  <2>1. \A i \in ExpPlaces : ExpAt(i).state = "COMPLETED" /\ ExpAt(i).cs = Data
    BY DEF Taken, ExpTaken
  <2>2. ASSUME NEW i \in ExpPlaces, NEW j \in ExpPlaces, i <= j
        PROVE  /\ ExpAt(i)'.state \in {"COMPLETED", "IDLE"} /\ ExpAt(i)'.cs = Data
               /\ ExpAt(i)'.state = "IDLE" => ExpAt(j)'.state = "IDLE"
    <3>1. CASE i = end
      <4>1. i \in Int /\ j \in Int /\ end \in Int /\ j <= end
        BY <2>e DEF ExpPlaces
      <4>2. j = end
        BY <2>2, <3>1, <4>1
      <4>3. exp.cs = Data
        BY <2>e, <2>1
      <4> QED  BY <2>e, <3>1, <4>2, <4>3
    <3>2. CASE i # end
      BY <2>e, <2>1, <3>2
    <3> QED  BY <3>1, <3>2
  <2> QED  BY <2>e, <2>2 DEF ExpOver, Data, Content
<1> QED  BY <1>1, <1>2, <1>3, <1>4 DEF Over, Taken

LEMMA DoneDevice ==
    ASSUME Types, Flowing \/ Taken, DeviceIsDone, impSeen.conn, DeviceCall
    PROVE  Stages'
<1>c. PICK content \in Seq(Nat) : content = Data
  BY ContentType DEF Types, Data
<1>d. PICK d : d = Device0
  OBVIOUS
<1>r. PICK r : r = FromDevice(d, content, FALSE, FALSE)
  OBVIOUS
<1>0. d.s = dev /\ d.x = exp /\ IsDone(d, content) /\ dev.open
  BY <1>c, <1>d DEF Device0, DeviceIsDone, IsDone
<1>1. dev' = r.s /\ exp' = r.x
      /\ UNCHANGED <<ctl, imp, expLine, impLine, expSeen, impSeen, link, opened, selected, env>>
  BY <1>c, <1>d, <1>r, <1>0 DEF DeviceCall, RunControlStream, OpenBlock, Data
<1>2. env \in Environments /\ impSeen \in ImpCopy
  BY DEF Types
<1>3. Closing(d, r, content)
  BY <1>0, <1>2, <1>r, DoneFromDevice
<1>4. CASE IsDone(r, content) /\ ButForFile(d, r)
  <2>1. (Flowing => Flowing') /\ (Taken => Taken')
    BY <1>c, <1>d, <1>1, <1>4, DoneKept
  <2> QED  BY <2>1 DEF Stages
<1>5. CASE cmd # "RUNNING" /\ ~r.s.open /\ r.x.state = "IDLE" /\ r.x.cs = d.x.cs
  <2>1. ~Flowing
    <3>1. 0 \in ImpPlaces /\ 0 <= 0 /\ ImpAt(0) = impSeen.sig
      BY PlaceTypes
    <3> QED  BY <1>5, <3>1 DEF Flowing, ImpGranting, cmd
  <2>2. Over'
    BY <1>0, <1>1, <1>5, <2>1, DoneCloses DEF cmd
  <2> QED  BY <2>2 DEF Stages
<1> QED  BY <1>3, <1>4, <1>5 DEF Closing

\* The device does nothing but in a transfer.
LEMMA CleanDevice ==
    ASSUME Types, Stages, Undisturbed, impSeen.conn, Device
    PROVE  Stages' /\ UNCHANGED <<ctl, imp, expLine, impLine, expSeen, impSeen, link, selected, env>>
<1>1. PICK found \in BOOLEAN, late \in BOOLEAN, badRead \in BOOLEAN :
         RunControlStream(found, late, badRead)
  BY DEF Device
<1>2. late = FALSE /\ badRead = FALSE /\ found = TRUE
  BY <1>1 DEF RunControlStream, Undisturbed
<1>3. RunControlStream(TRUE, FALSE, FALSE)
  BY <1>1, <1>2
<1>c. DeviceCall
  BY <1>2, <1>3 DEF DeviceCall
<1>4. /\ UNCHANGED <<ctl, imp, expLine, impLine, expSeen, impSeen, link, selected, env>>
      /\ dev.open \/ impSeen.sig.cmd = "RUNNING"
  BY <1>3 DEF RunControlStream, cmd
<1>5. ~Resting /\ ~Over
  <2>1. ASSUME ImpIdle PROVE impSeen.sig.cmd = "IDLE"
    BY <2>1, PlaceTypes DEF ImpIdle
  <2> QED  BY <1>4, <2>1 DEF Resting, Over, DeviceRests
<1>6. CASE Asked
  BY <1>c, <1>4, <1>6, AskedDevice DEF Stages
<1>7. CASE Flowing
  <2>1. CASE DeviceRuns
    BY <1>c, <1>4, <1>7, <2>1, RunningDevice DEF Stages
  <2>2. CASE DeviceIsDone
    BY <1>c, <1>4, <1>7, <2>2, DoneDevice
  <2> QED  BY <1>7, <2>1, <2>2 DEF Flowing
<1>8. CASE Taken
  BY <1>c, <1>4, <1>8, DoneDevice DEF Taken
<1> QED  BY <1>5, <1>6, <1>7, <1>8 DEF Stages

----------------------------------------------------------------------------
(* Undisturbed transfers: steps of the controller.                         *)

\* A call that gives no result and leaves the controller in a step.
GoesTo(step) == ctl'.open /\ ctl'.result = "none" /\ ctl'.step = step
TakesNone == ctl'.tail = ctl.tail /\ ctl'.sum = ctl.sum
Takes(k) ==
    /\ ctl'.tail = Onward(ctl.tail, k) /\ imp'.tail = ctl'.tail
    /\ ctl'.sum = ctl.sum \o Fetched(expSeen.sig.buf, ctl.tail, k)

LEMMA CallSteps ==
    ASSUME Types, expSeen.conn, NEW n \in Nat, Read(n, FALSE, FALSE)
    PROVE  /\ UNCHANGED <<dev, exp, expLine, impLine, expSeen, impSeen, link, opened, selected, env>>
           /\ ctl.step = "INITIALIZED" =>
                 /\ GoesTo("INITIALIZED2") /\ TakesNone
                 /\ imp'.cmd = "RUNNING" /\ imp'.tail = imp.tail /\ imp'.sel = selected
           /\ ctl.step = "INITIALIZED2" =>
                 /\ GoesTo(IF state \in Going THEN "TRANSFER_DATA" ELSE "INITIALIZED2")
                 /\ TakesNone /\ imp' = imp
           /\ ctl.step = "TRANSFER_DATA" /\ state \in Going /\ imp.tail = ctl.tail =>
                 /\ Takes(LesserOf(n, Dist(expSeen.sig.head, ctl.tail)))
                 /\ state = "RUNNING" => GoesTo("TRANSFER_DATA") /\ imp'.cmd = imp.cmd
                 /\ state # "RUNNING" => GoesTo("TRANSFER_DONE2") /\ imp'.cmd = "IDLE"
           /\ ctl.step = "TRANSFER_DONE2" /\ state \in Going =>
                 GoesTo("TRANSFER_DONE2") /\ TakesNone /\ imp' = imp
           /\ ctl.step = "TRANSFER_DONE2" /\ state \notin Going =>
                 /\ ~ctl'.open /\ imp' = IdleCommand
                 /\ ctl.sum = expSeen.sig.cs => ctl'.result = "completed"
                 /\ ctl'.result = "completed" => ctl'.sum = expSeen.sig.cs
<1>0. ctl \in CtlType /\ imp \in ImpType /\ expSeen \in ExpCopy /\ selected \in Block
  BY DEF Types
<1>c. PICK c : c = ControllerRead(Controller0, n, FALSE, FALSE)
  OBVIOUS
<1>1. c \in CtlPair
  <2>1. Controller0 \in CtlPair
    BY <1>0 DEF Controller0, CtlPair
  <2> QED  BY <1>0, <1>c, <2>1, ControllerReadType
<1>2. c.x \in ImpType
  BY <1>1 DEF CtlPair
<1>3. /\ UNCHANGED <<dev, exp, expLine, impLine, expSeen, impSeen, link, opened, selected, env>>
      /\ Status(c.s.step) = "SUCCESS" =>
                 /\ ctl'.open /\ ctl'.result = "none" /\ imp' = c.x
                 /\ ctl'.step = c.s.step /\ ctl'.tail = c.s.tail /\ ctl'.sum = c.s.sum
      /\ c.s.step = "ALL_COMPLETED" =>
                 /\ ~ctl'.open /\ imp' = IdleCommand
                 /\ c.s.sum = expSeen.sig.cs => ctl'.result = "completed"
                 /\ ctl'.result = "completed" => ctl'.sum = expSeen.sig.cs
  BY <1>0, <1>c, ReadOutcome
<1>4. ASSUME NEW step, c.s.step = step,
             step \in {"INITIALIZED2", "TRANSFER_DATA", "TRANSFER_DONE2"}
      PROVE  GoesTo(step) /\ imp' = c.x /\ ctl'.tail = c.s.tail /\ ctl'.sum = c.s.sum
  <2>1. Status(c.s.step) = "SUCCESS"
    BY <1>4 DEF Status
  <2> QED  BY <1>3, <1>4, <2>1 DEF GoesTo
<1>5. /\ ctl.step = "INITIALIZED" =>
                 /\ Kept(c) /\ c.s.step = "INITIALIZED2"
                 /\ c.x.cmd = "RUNNING" /\ c.x.sel = selected
      /\ ctl.step = "INITIALIZED2" =>
            /\ Kept(c) /\ c.x.cmd = imp.cmd /\ c.x.sel = imp.sel
            /\ c.s.step = IF state \in Going THEN "TRANSFER_DATA" ELSE "INITIALIZED2"
      /\ ctl.step = "TRANSFER_DATA" /\ state \in Going => c = ReadData(Controller0, n, FALSE)
      /\ ctl.step = "TRANSFER_DONE2" =>
            /\ c.s.sum = ctl.sum
            /\ state \in Going => c = Controller0
            /\ state \notin Going => c.s.step = "ALL_COMPLETED"
  BY <1>0, <1>c, CleanControllerRead
<1>6. ASSUME ctl.step = "INITIALIZED"
      PROVE  /\ GoesTo("INITIALIZED2") /\ TakesNone
             /\ imp'.cmd = "RUNNING" /\ imp'.tail = imp.tail /\ imp'.sel = selected
  <2>1. Kept(c) /\ c.s.step = "INITIALIZED2" /\ c.x.cmd = "RUNNING" /\ c.x.sel = selected
    BY <1>5, <1>6
  <2>2. GoesTo("INITIALIZED2") /\ imp' = c.x /\ ctl'.tail = c.s.tail /\ ctl'.sum = c.s.sum
    BY <1>4, <2>1
  <2> QED  BY <2>1, <2>2 DEF Kept, TakesNone
<1>7. ASSUME ctl.step = "INITIALIZED2"
      PROVE  /\ GoesTo(IF state \in Going THEN "TRANSFER_DATA" ELSE "INITIALIZED2")
             /\ TakesNone /\ imp' = imp
  <2>s. PICK step : step = IF state \in Going THEN "TRANSFER_DATA" ELSE "INITIALIZED2"
    OBVIOUS
  <2>1. Kept(c) /\ c.x.cmd = imp.cmd /\ c.x.sel = imp.sel /\ c.s.step = step
    BY <1>5, <1>7, <2>s
  <2>2. GoesTo(step) /\ imp' = c.x /\ ctl'.tail = c.s.tail /\ ctl'.sum = c.s.sum
    BY <1>4, <2>1, <2>s
  <2>3. c.x = imp
    BY <1>0, <1>2, <2>1 DEF Kept, ImpType
  <2> QED  BY <2>1, <2>2, <2>3, <2>s DEF Kept, TakesNone, GoesTo
<1>8. ASSUME ctl.step = "TRANSFER_DATA", state \in Going, imp.tail = ctl.tail
      PROVE  /\ Takes(LesserOf(n, Dist(expSeen.sig.head, ctl.tail)))
             /\ state = "RUNNING" => GoesTo("TRANSFER_DATA") /\ imp'.cmd = imp.cmd
             /\ state # "RUNNING" => GoesTo("TRANSFER_DONE2") /\ imp'.cmd = "IDLE"
  <2>k. PICK k : k = LesserOf(n, Dist(expSeen.sig.head, ctl.tail))
    OBVIOUS
  <2>0. c = ReadData(Controller0, n, FALSE)
    BY <1>5, <1>8
  <2>1. /\ Took(k, c)
        /\ state = "RUNNING" => c.s.step = ctl.step /\ c.x.cmd = imp.cmd
        /\ state # "RUNNING" => c.s.step = "TRANSFER_DONE2" /\ c.x.cmd = "IDLE"
    BY <1>0, <1>8, <2>k, <2>0, CleanReadData
  <2>2. state = "RUNNING" => GoesTo("TRANSFER_DATA") /\ imp'.cmd = imp.cmd
    BY <1>4, <1>8, <2>1
  <2>3. state # "RUNNING" => GoesTo("TRANSFER_DONE2") /\ imp'.cmd = "IDLE"
    BY <1>4, <2>1
  <2>4. imp' = c.x /\ ctl'.tail = c.s.tail /\ ctl'.sum = c.s.sum
    BY <1>4, <1>8, <2>1
  <2> QED  BY <2>k, <2>1, <2>2, <2>3, <2>4 DEF Took, Takes
<1>9. ASSUME ctl.step = "TRANSFER_DONE2", state \in Going
      PROVE  GoesTo("TRANSFER_DONE2") /\ TakesNone /\ imp' = imp
  <2>1. c.s = ctl /\ c.x = imp
    BY <1>5, <1>9 DEF Controller0
  <2>2. GoesTo("TRANSFER_DONE2") /\ imp' = c.x /\ ctl'.tail = c.s.tail /\ ctl'.sum = c.s.sum
    BY <1>4, <1>9, <2>1
  <2> QED  BY <2>1, <2>2 DEF TakesNone
<1>10. ASSUME ctl.step = "TRANSFER_DONE2", state \notin Going
       PROVE  /\ ~ctl'.open /\ imp' = IdleCommand
              /\ ctl.sum = expSeen.sig.cs => ctl'.result = "completed"
              /\ ctl'.result = "completed" => ctl'.sum = expSeen.sig.cs
  BY <1>3, <1>5, <1>10
<1> QED  BY <1>3, <1>6, <1>7, <1>8, <1>9, <1>10

\* What a call leaves alone.
LEMMA CallKeeps ==
    ASSUME UNCHANGED <<dev, exp, expLine, impLine, expSeen, impSeen, link, opened, selected, env>>
    PROVE  /\ ExpPlaces' = ExpPlaces /\ \A i \in ExpPlaces : ExpAt(i)' = ExpAt(i)
           /\ (DeviceRests => DeviceRests') /\ (DeviceRuns => DeviceRuns') /\ (DeviceIsDone => DeviceIsDone')
           /\ (ExpIdle => ExpIdle') /\ (ExpTaken => ExpTaken') /\ (ExpOver => ExpOver')
           /\ imp' = imp => /\ ImpIdle => ImpIdle'
                            /\ ImpAsking => ImpAsking'
                            /\ ImpGranting => ImpGranting'
                            /\ ImpTaken => ImpTaken'
<1>1. ExpPlaces' = ExpPlaces /\ \A i \in ExpPlaces : ExpAt(i)' = ExpAt(i)
  BY DEF ExpPlaces, ExpAt
<1>2. (DeviceRests => DeviceRests') /\ (DeviceRuns => DeviceRuns') /\ (DeviceIsDone => DeviceIsDone')
  BY DEF DeviceRests, DeviceRuns, DeviceIsDone, Device0, Ready, IsDone, Data, Content
<1>3. (ExpIdle => ExpIdle') /\ (ExpTaken => ExpTaken') /\ (ExpOver => ExpOver')
  BY <1>1 DEF ExpIdle, ExpTaken, ExpOver, Data, Content
<1>4. ASSUME imp' = imp
      PROVE  /\ ImpIdle => ImpIdle'
             /\ ImpAsking => ImpAsking'
             /\ ImpGranting => ImpGranting'
             /\ ImpTaken => ImpTaken'
  <2>1. ImpPlaces' = ImpPlaces /\ \A i \in ImpPlaces : ImpAt(i)' = ImpAt(i)
    BY <1>4 DEF ImpPlaces, ImpAt
  <2> QED  BY <2>1 DEF ImpIdle, ImpAsking, ImpGranting, ImpTaken
<1> QED  BY <1>1, <1>2, <1>3, <1>4

\* The controller asks.
LEMMA RestingRead ==
    ASSUME Types, Resting, ctl.open, expSeen.conn, NEW n \in Nat, Read(n, FALSE, FALSE)
    PROVE  Asked' /\ ctl'.result = "none"
<1>1. ctl.step = "INITIALIZED" /\ ctl.tail = 0 /\ ctl.sum = <<>> /\ imp.tail = 0
  BY DEF Resting, ReaderRests, NoReader
<1>2. /\ UNCHANGED <<dev, exp, expLine, impLine, expSeen, impSeen, link, opened, selected, env>>
      /\ GoesTo("INITIALIZED2") /\ TakesNone /\ imp'.cmd = "RUNNING" /\ imp'.tail = 0
      /\ imp'.sel = selected
  BY <1>1, CallSteps
<1>3. DeviceRests' /\ ExpIdle'
  BY <1>2, CallKeeps DEF Resting
<1>4. ReaderRuns({"INITIALIZED2"})' /\ ctl'.tail = 0 /\ ctl'.sum = <<>>
  BY <1>1, <1>2 DEF ReaderRuns, GoesTo, TakesNone
<1>5. ImpAsking'
  <2>0. impLine \in Seq(ImpType)
    BY DEF Types
  <2>e. PICK last \in ImpPlaces :
              /\ ImpPlaces' = ImpPlaces /\ ImpAt(last) = imp
              /\ \A i \in ImpPlaces : i <= last /\ ImpAt(i)' = IF i = last THEN imp' ELSE ImpAt(i)
    BY <1>2, <2>0, ImpLast
  <2>1. ASSUME NEW i \in ImpPlaces, NEW j \in ImpPlaces, i <= j, ImpAt(i)'.cmd = "RUNNING"
        PROVE  ImpAt(i)'.tail = 0 /\ ImpAt(i)'.sel = selected /\ ImpAt(j)'.cmd = "RUNNING"
    <3>1. i = last
      BY <2>e, <2>1 DEF Resting, ImpIdle
    <3>2. i \in Int /\ j \in Int /\ j <= i
      BY <2>e, <3>1 DEF ImpPlaces
    <3>3. j = i
      BY <2>1, <3>2
    <3> QED  BY <1>2, <2>e, <3>1, <3>3
  <2> QED  BY <1>2, <2>e, <2>1 DEF ImpAsking
<1> QED  BY <1>2, <1>3, <1>4, <1>5 DEF Asked, GoesTo

\* It waits for the device to start.
LEMMA AskedRead ==
    ASSUME Types, Asked, expSeen.conn, NEW n \in Nat, Read(n, FALSE, FALSE)
    PROVE  Asked' /\ ctl'.result = "none"
<1>1. ctl.step = "INITIALIZED2" /\ imp.cmd = "RUNNING" /\ imp.tail = ctl.tail /\ ctl.tail = 0 /\ ctl.sum = <<>>
  BY DEF Asked, ReaderRuns
<1>2. state \notin Going
  BY PlaceTypes DEF Asked, ExpIdle, state, Going
<1>3. /\ UNCHANGED <<dev, exp, expLine, impLine, expSeen, impSeen, link, opened, selected, env>>
      /\ GoesTo("INITIALIZED2") /\ TakesNone /\ imp' = imp
  BY <1>1, <1>2, CallSteps
<1>4. DeviceRests' /\ ExpIdle' /\ ImpAsking'
  BY <1>3, CallKeeps DEF Asked
<1>5. ReaderRuns({"INITIALIZED2"})' /\ ctl'.tail = 0 /\ ctl'.sum = <<>>
  BY <1>1, <1>3 DEF ReaderRuns, GoesTo, TakesNone
<1> QED  BY <1>3, <1>4, <1>5 DEF Asked, GoesTo

\* It sees the device has started.
LEMMA StartingRead ==
    ASSUME Types, Flowing, ctl.step = "INITIALIZED2", expSeen.conn, NEW n \in Nat, Read(n, FALSE, FALSE)
    PROVE  Flowing' /\ ctl'.result = "none"
<1>1. imp.cmd = "RUNNING" /\ imp.tail = ctl.tail /\ ctl.tail = 0 /\ ctl.sum = <<>>
  BY DEF Flowing, ReaderRuns, Level
<1>s. PICK step : step = IF state \in Going THEN "TRANSFER_DATA" ELSE "INITIALIZED2"
  OBVIOUS
<1>2. /\ UNCHANGED <<dev, exp, expLine, impLine, expSeen, impSeen, link, opened, selected, env>>
      /\ GoesTo(step) /\ TakesNone /\ imp' = imp
  BY <1>s, CallSteps
<1>3. (DeviceRuns \/ DeviceIsDone)' /\ ImpGranting'
  BY <1>2, CallKeeps DEF Flowing
<1>4. ReaderRuns({"INITIALIZED2", "TRANSFER_DATA"})'
  BY <1>1, <1>2, <1>s DEF ReaderRuns, GoesTo, TakesNone
<1>5. ctl'.tail = ctl.tail /\ ctl'.sum = ctl.sum
  BY <1>2 DEF TakesNone
<1>6. Level'
  BY <1>1, <1>2, <1>5 DEF Flowing, Level, Data, Content
<1>7. ctl'.step = "TRANSFER_DATA" => expSeen'.sig.state # "IDLE"
  BY <1>2, <1>s DEF GoesTo, state, Going
<1>8. ExpFlowing'
  <2>1. ExpPlaces' = ExpPlaces /\ \A i \in ExpPlaces : ExpAt(i)' = ExpAt(i)
    BY <1>2, CallKeeps
  <2>d. DeviceIsDone => DeviceIsDone'
    BY <1>2, CallKeeps
  <2> SUFFICES ASSUME NEW i \in ExpPlaces, NEW j \in ExpPlaces, i <= j, ExpAt(i)'.state # "IDLE"
               PROVE  FlowsTo(ExpAt(i), ExpAt(j))'
    BY <2>1 DEF ExpFlowing
  <2>x. PICK x, y : x = ExpAt(i) /\ y = ExpAt(j)
    OBVIOUS
  <2>2. x = ExpAt(i)' /\ y = ExpAt(j)'
    BY <2>1, <2>x
  <2>3. FlowsTo(x, y)
    BY <2>2, <2>x DEF Flowing, ExpFlowing
  <2>4. FlowsTo(x, y)'
    BY <1>2, <1>5, <2>3, <2>d DEF FlowsTo, Unread, UnreadOf, Data, Content
  <2> QED  BY <2>2, <2>4 DEF FlowsTo, Unread, UnreadOf
<1> QED  BY <1>2, <1>3, <1>4, <1>6, <1>7, <1>8 DEF Flowing, GoesTo

\* What was unread behind the bytes taken stays unread.
LEMMA UnreadMoves ==
    ASSUME ctl \in CtlType, NEW x \in ExpType, NEW k \in 0 .. Dist(x.head, ctl.tail), Unread(x),
           ctl'.tail = Onward(ctl.tail, k), Len(ctl'.sum) = Len(ctl.sum) + k, env' = env, opened' = opened
    PROVE  Unread(x)' /\ Dist(x.head, ctl'.tail) = Dist(x.head, ctl.tail) - k
<1>t. PICK t \in Position : t = ctl.tail
  BY DEF CtlType
<1>l. PICK len \in Nat : len = Len(ctl.sum)
  BY DEF CtlType
<1>h. x.head \in Position
  BY DEF ExpType
<1>d. PICK D \in Position : D = Dist(x.head, t)
  BY <1>h, DistMod
<1>1. k \in Nat /\ k <= D /\ D < BufSz /\ D \in Nat /\ BufSz \in Nat
  BY <1>t, <1>d, BufSzAssumption DEF Position
<1>u. PICK u : u = Onward(t, k)
  OBVIOUS
<1>2. u \in Position /\ Dist(x.head, u) = D - k
  <2>1. k \in 0 .. Dist(x.head, t)
    BY <1>t
  <2> QED  BY <1>d, <1>h, <1>u, <2>1, TailMoves
<1>3. ASSUME NEW j \in Position, j < D - k
      PROVE  x.buf[Onward(u, j)] = Data[len + k + j + 1]
  <2>1. j \in Nat /\ k + j < BufSz /\ k + j \in Position /\ k + j < D
    BY <1>1, <1>3 DEF Position
  <2>2. Onward(u, j) = Onward(t, k + j)
    BY <1>1, <1>u, <2>1, OnwardOnward
  <2>3. x.buf[Onward(t, k + j)] = Data[len + (k + j) + 1]
    BY <1>t, <1>l, <1>d, <2>1 DEF Unread, UnreadOf
  <2>4. len + (k + j) + 1 = len + k + j + 1
    BY <1>1, <2>1
  <2> QED  BY <2>2, <2>3, <2>4
<1>4. ctl'.tail = u /\ Len(ctl'.sum) = len + k
  BY <1>t, <1>l, <1>u
<1>5. Unread(x)'
  BY <1>2, <1>3, <1>4 DEF Unread, UnreadOf, Data, Content
<1> QED  BY <1>2, <1>4, <1>5, <1>t, <1>d

\* The bytes taken follow those the controller has.
LEMMA TakenFollow ==
    ASSUME Types, NEW x \in ExpType, NEW k \in 0 .. Dist(x.head, ctl.tail), Unread(x),
           ctl.sum = SubSeq(Data, 1, Len(ctl.sum)), Len(ctl.sum) + k <= Len(Data),
           NEW s, s = ctl.sum \o Fetched(x.buf, ctl.tail, k)
    PROVE  s = SubSeq(Data, 1, Len(ctl.sum) + k) /\ Len(s) = Len(ctl.sum) + k
<1>0. ctl \in CtlType /\ env \in Environments /\ opened \in Block
  BY DEF Types
<1>t. PICK t \in Position : t = ctl.tail
  BY <1>0 DEF CtlType
<1>l. PICK len \in Nat : len = Len(ctl.sum)
  BY <1>0 DEF CtlType
<1>h. x.head \in Position /\ x.buf \in [Position -> Nat]
  BY DEF ExpType
<1>d. PICK D \in Position : D = Dist(x.head, t)
  BY <1>h, DistMod
<1>1. k \in Nat /\ k <= D /\ D < BufSz /\ k \in 0 .. BufSz /\ BufSz \in Nat
  BY <1>t, <1>d, BufSzAssumption DEF Position
<1>c. PICK content \in Seq(Nat) : content = Data
  BY <1>0, ContentType DEF Data
<1>f. PICK f : f = Fetched(x.buf, t, k)
  OBVIOUS
<1>2. f \in Seq(Nat) /\ Len(f) = k /\ \A i \in 1 .. k : f[i] = x.buf[Onward(t, i - 1)]
  BY <1>1, <1>f, <1>h, FetchedOnward
<1>g. PICK g : g = SubSeq(content, len + 1, len + k)
  OBVIOUS
<1>3. g \in Seq(Nat) /\ Len(g) = k /\ SubSeq(content, 1, len) \o g = SubSeq(content, 1, len + k)
  BY <1>1, <1>c, <1>g, <1>l, ReadOn
<1>4. ASSUME NEW i \in 1 .. k
      PROVE  f[i] = g[i]
  <2>j. PICK j \in Nat : j + 1 = i /\ j = i - 1 /\ j < k
    BY <1>1
  <2>1. j \in Position /\ j < D
    BY <1>1, <2>j DEF Position
  <2>2. x.buf[Onward(t, j)] = content[len + j + 1]
    BY <1>t, <1>l, <1>d, <1>c, <2>1 DEF Unread, UnreadOf
  <2>3. g[j + 1] = content[len + j + 1]
    BY <1>1, <1>c, <1>g, <1>l, <2>j, SubSeqAt
  <2>4. f[i] = x.buf[Onward(t, j)]
    BY <1>2, <2>j
  <2> QED  BY <2>j, <2>2, <2>3, <2>4
<1>5. f = g
  <2>1. f \in Seq(Nat) /\ g \in Seq(Nat) /\ Len(f) = k /\ Len(g) = k
    BY <1>2, <1>3
  <2>2. \A i \in 1 .. k : f[i] = g[i]
    BY <1>4
  <2> QED  BY <2>1, <2>2
<1>p. PICK p : p = SubSeq(content, 1, len)
  OBVIOUS
<1>6. s = p \o g /\ p = ctl.sum /\ p \in Seq(Nat) /\ Len(p) = len
  BY <1>0, <1>t, <1>f, <1>c, <1>l, <1>p, <1>5 DEF CtlType
<1>7. Len(p \o g) = len + k
  BY <1>1, <1>3, <1>6
<1> QED  BY <1>3, <1>6, <1>7, <1>c, <1>l, <1>p

\* A call in the data phase takes k bytes, at most those in the ring.
Taking(k) ==
    /\ k \in 0 .. Dist(expSeen.sig.head, ctl.tail) /\ k \in 0 .. Dist(dev.head, ctl.tail)
    /\ Takes(k) /\ Len(ctl'.sum) = Len(ctl.sum) + k
    /\ Len(ctl'.sum) <= Len(Data) /\ ctl'.sum = SubSeq(Data, 1, Len(ctl'.sum))
    /\ dev.pos = Len(ctl'.sum) + Dist(dev.head, ctl'.tail)

LEMMA TakingRead ==
    ASSUME Types, Flowing, ctl.step = "TRANSFER_DATA", expSeen.conn, NEW n \in Nat, Read(n, FALSE, FALSE)
    PROVE  /\ UNCHANGED <<dev, exp, expLine, impLine, expSeen, impSeen, link, opened, selected, env>>
           /\ FlowsTo(expSeen.sig, expSeen.sig)
           /\ Taking(LesserOf(n, Dist(expSeen.sig.head, ctl.tail)))
           /\ state = "RUNNING" => GoesTo("TRANSFER_DATA") /\ imp'.cmd = "RUNNING"
           /\ state # "RUNNING" => GoesTo("TRANSFER_DONE2") /\ imp'.cmd = "IDLE"
<1>0. /\ expLine \in Seq(ExpType) /\ expSeen.sig \in ExpType /\ ctl \in CtlType /\ env \in Environments
      /\ opened \in Block /\ dev \in DevType /\ dev.pos <= Len(Data)
  BY DEF Types, ExpCopy
<1>x. PICK x \in ExpType : x = expSeen.sig
  BY <1>0
<1>1. imp.cmd = "RUNNING" /\ imp.tail = ctl.tail
  BY DEF Flowing, ReaderRuns
<1>2. 0 \in ExpPlaces /\ ExpAt(0) = x /\ 0 <= 0 /\ x.state # "IDLE"
  BY <1>x, PlaceTypes DEF Flowing
<1>3. FlowsTo(x, x)
  BY <1>2 DEF Flowing, ExpFlowing
<1>4. state \in Going
  BY <1>3, <1>x DEF FlowsTo, state
<1>k. PICK k : k = LesserOf(n, Dist(x.head, ctl.tail))
  OBVIOUS
<1>5. /\ UNCHANGED <<dev, exp, expLine, impLine, expSeen, impSeen, link, opened, selected, env>>
      /\ Takes(k)
      /\ state = "RUNNING" => GoesTo("TRANSFER_DATA") /\ imp'.cmd = "RUNNING"
      /\ state # "RUNNING" => GoesTo("TRANSFER_DONE2") /\ imp'.cmd = "IDLE"
  BY <1>1, <1>4, <1>k, <1>x, CallSteps
<1>6. exp.head = dev.head
  BY DEF Flowing, DeviceRuns, DeviceIsDone, Ready, IsDone, Device0
<1>7. Dist(x.head, ctl.tail) <= Dist(dev.head, ctl.tail)
  <2>e. PICK end \in ExpPlaces : ExpAt(end) = exp /\ 0 <= end
    BY <1>0, <1>5, <1>2, ExpLast
  <2>1. FlowsTo(x, exp)
    BY <1>2, <2>e DEF Flowing, ExpFlowing
  <2> QED  BY <1>6, <2>1 DEF FlowsTo
<1>t. PICK t \in Position : t = ctl.tail
  BY <1>0 DEF CtlType
<1>h. PICK h \in Position : h = dev.head
  BY <1>0 DEF DevType
<1>d. PICK D \in Position : D = Dist(x.head, t)
  <2>1. x.head \in Position
    BY DEF ExpType
  <2> QED  BY <2>1, DistMod
<1>w. PICK E \in Position : E = Dist(h, t)
  BY DistMod
<1>l. PICK len \in Nat : len = Len(ctl.sum)
  BY <1>0 DEF CtlType
<1>8. D \in Nat /\ E \in Nat /\ D <= E /\ k = LesserOf(n, D)
  BY <1>7, <1>t, <1>h, <1>d, <1>w, <1>k, BufSzAssumption DEF Position
<1>9. k \in 0 .. D /\ k \in 0 .. E /\ k \in Nat
  BY <1>8 DEF LesserOf
<1>10. dev.pos = len + E /\ len + E <= Len(Data) /\ ctl.sum = SubSeq(Data, 1, len)
  BY <1>0, <1>t, <1>h, <1>w, <1>l DEF Flowing, Level
<1>11. len + k <= Len(Data)
  <2>1. Len(Data) \in Nat
    BY <1>0, ContentType DEF Data
  <2> QED  BY <1>8, <1>9, <1>10, <2>1
<1>12. ctl'.sum = SubSeq(Data, 1, len + k) /\ Len(ctl'.sum) = len + k
  <2>1. k \in 0 .. Dist(x.head, ctl.tail) /\ Unread(x)
    BY <1>3, <1>9, <1>d, <1>t DEF FlowsTo
  <2>2. Len(ctl.sum) + k <= Len(Data) /\ ctl.sum = SubSeq(Data, 1, Len(ctl.sum))
    BY <1>10, <1>11, <1>l
  <2>s. PICK s : s = ctl.sum \o Fetched(x.buf, ctl.tail, k)
    OBVIOUS
  <2>3. s = SubSeq(Data, 1, Len(ctl.sum) + k) /\ Len(s) = Len(ctl.sum) + k
    BY <2>1, <2>2, <2>s, TakenFollow
  <2> QED  BY <1>5, <1>l, <1>x, <2>s, <2>3 DEF Takes
<1>13. dev.pos = Len(ctl'.sum) + Dist(dev.head, ctl'.tail)
  <2>1. k \in 0 .. Dist(h, t)
    BY <1>9, <1>w
  <2>2. Dist(h, Onward(t, k)) = E - k
    BY <1>w, <2>1, TailMoves
  <2>3. ctl'.tail = Onward(t, k)
    BY <1>5, <1>t DEF Takes
  <2>4. len + E = (len + k) + (E - k)
    BY <1>8, <1>9
  <2> QED  BY <1>h, <1>10, <1>12, <2>2, <2>3, <2>4
<1>14. Taking(k)
  <2>1. Len(ctl'.sum) <= Len(Data) /\ ctl'.sum = SubSeq(Data, 1, Len(ctl'.sum))
    BY <1>11, <1>12
  <2> QED  BY <1>5, <1>9, <1>12, <1>13, <1>d, <1>w, <1>h, <1>t, <1>l, <1>x, <2>1 DEF Taking
<1> QED  BY <1>3, <1>5, <1>14, <1>k, <1>x

\* More is to come.
LEMMA RunningRead ==
    ASSUME Types, Flowing, ctl.step = "TRANSFER_DATA", state = "RUNNING", expSeen.conn,
           NEW n \in Nat, Read(n, FALSE, FALSE)
    PROVE  Flowing' /\ ctl'.result = "none"
<1>k. PICK k : k = LesserOf(n, Dist(expSeen.sig.head, ctl.tail))
  OBVIOUS
<1>1. /\ UNCHANGED <<dev, exp, expLine, impLine, expSeen, impSeen, link, opened, selected, env>>
      /\ Taking(k) /\ GoesTo("TRANSFER_DATA") /\ imp'.cmd = "RUNNING"
  BY <1>k, TakingRead
<1>2. ExpPlaces' = ExpPlaces /\ \A i \in ExpPlaces : ExpAt(i)' = ExpAt(i)
  BY <1>1, CallKeeps
<1>3. (DeviceRuns \/ DeviceIsDone)' /\ (DeviceIsDone => DeviceIsDone')
  BY <1>1, CallKeeps DEF Flowing
<1>4. ReaderRuns({"INITIALIZED2", "TRANSFER_DATA"})'
  BY <1>1 DEF ReaderRuns, GoesTo, Taking, Takes
<1>5. Level'
  BY <1>1 DEF Taking, GoesTo, Level, Data, Content
<1>6. ctl'.step = "TRANSFER_DATA" => expSeen'.sig.state # "IDLE"
  BY <1>1 DEF state
<1>7. ctl \in CtlType /\ impLine \in Seq(ImpType) /\ dev \in DevType
  BY DEF Types
<1>8. k \in Nat /\ ctl'.tail = Onward(ctl.tail, k) /\ imp'.tail = ctl'.tail
      /\ Len(ctl'.sum) = Len(ctl.sum) + k /\ env' = env /\ opened' = opened
  BY <1>1 DEF Taking, Takes
<1>9. ExpFlowing'
  <2> SUFFICES ASSUME NEW i \in ExpPlaces, NEW j \in ExpPlaces, i <= j, ExpAt(i)'.state # "IDLE"
               PROVE  FlowsTo(ExpAt(i), ExpAt(j))'
    BY <1>2 DEF ExpFlowing
  <2>x. PICK x \in ExpType, y \in ExpType : x = ExpAt(i) /\ y = ExpAt(j)
    BY PlaceTypes
  <2>1. x = ExpAt(i)' /\ y = ExpAt(j)'
    BY <1>2, <2>x
  <2>2. FlowsTo(x, y)
    BY <2>1, <2>x DEF Flowing, ExpFlowing
  <2>s. 0 \in ExpPlaces /\ ExpAt(0) = expSeen.sig /\ 0 <= i /\ 0 <= j
    BY PlaceTypes
  <2>3. Dist(expSeen.sig.head, ctl.tail) <= Dist(x.head, ctl.tail)
        /\ Dist(expSeen.sig.head, ctl.tail) <= Dist(y.head, ctl.tail)
    <3>1. ExpAt(0).state # "IDLE"
      BY <2>s DEF Flowing
    <3>2. FlowsTo(ExpAt(0), ExpAt(i)) /\ FlowsTo(ExpAt(0), ExpAt(j))
      BY <2>s, <3>1 DEF Flowing, ExpFlowing
    <3> QED  BY <2>s, <2>x, <3>2 DEF FlowsTo
  <2>t. PICK t \in Position : t = ctl.tail
    BY <1>7 DEF CtlType
  <2>4. x.head \in Position /\ y.head \in Position /\ expSeen.sig.head \in Position
    BY DEF ExpType, Types, ExpCopy
  <2>a. PICK A \in Position : A = Dist(x.head, t)
    BY <2>4, DistMod
  <2>b. PICK B \in Position : B = Dist(y.head, t)
    BY <2>4, DistMod
  <2>d. PICK D \in Position : D = Dist(expSeen.sig.head, t)
    BY <2>4, DistMod
  <2>5. k \in 0 .. A /\ k \in 0 .. B /\ A <= B /\ A \in Int /\ B \in Int
    <3>1. k \in 0 .. D
      BY <1>1, <2>d, <2>t DEF Taking
    <3>2. D <= A /\ D <= B /\ A <= B
      BY <2>2, <2>3, <2>a, <2>b, <2>d, <2>t DEF FlowsTo
    <3> QED  BY <3>1, <3>2 DEF Position
  <2>6. Unread(x)
    BY <2>2 DEF FlowsTo
  <2>7. Unread(x)' /\ Dist(x.head, ctl'.tail) = A - k
    BY <1>7, <1>8, <2>5, <2>6, <2>a, <2>t, UnreadMoves
  <2>8. Dist(y.head, ctl'.tail) = B - k
    <3>1. k \in 0 .. Dist(y.head, t)
      BY <2>5, <2>b
    <3>2. Dist(y.head, Onward(t, k)) = B - k
      BY <2>4, <2>b, <3>1, TailMoves
    <3> QED  BY <1>8, <2>t, <3>2
  <2>9. Dist(x.head, ctl'.tail) <= Dist(y.head, ctl'.tail)
    BY <1>8, <2>5, <2>7, <2>8
  <2>10. FlowsTo(x, y)'
    BY <1>1, <1>3, <2>2, <2>7, <2>9 DEF FlowsTo, Data, Content
  <2> QED  BY <2>1, <2>10 DEF FlowsTo, Unread, UnreadOf
<1>10. ImpGranting'
  <2>e. PICK last \in ImpPlaces :
              /\ ImpPlaces' = ImpPlaces /\ ImpAt(last) = imp
              /\ \A i \in ImpPlaces : i <= last /\ ImpAt(i)' = IF i = last THEN imp' ELSE ImpAt(i)
    BY <1>1, <1>7, ImpLast
  <2>t. PICK t \in Position : t = ctl.tail
    BY <1>7 DEF CtlType
  <2>h. PICK h \in Position : h = dev.head
    BY <1>7 DEF DevType
  <2>1. imp.tail = t
    BY <2>t DEF Flowing, ReaderRuns
  <2>d. PICK D \in Position : D = Dist(h, t)
    BY DistMod
  <2>2. Dist(h, imp'.tail) = D - k /\ D - k <= D /\ D \in Int /\ k \in Int
    <3>1. k \in 0 .. Dist(h, t)
      BY <1>1, <2>h, <2>t DEF Taking
    <3>2. Dist(h, Onward(t, k)) = D - k
      BY <2>d, <3>1, TailMoves
    <3> QED  BY <1>8, <2>d, <2>t, <3>1, <3>2 DEF Position
  <2>3. ASSUME NEW i \in ImpPlaces, NEW j \in ImpPlaces, i <= j
        PROVE  /\ ImpAt(i)'.cmd = "RUNNING"
               /\ Dist(h, ImpAt(j)'.tail) <= Dist(h, ImpAt(i)'.tail)
    <3>0. ImpAt(i).cmd = "RUNNING" /\ Dist(h, ImpAt(j).tail) <= Dist(h, ImpAt(i).tail)
      BY <2>3, <2>h DEF Flowing, ImpGranting
    <3>1. CASE i = last
      <4>1. i \in Int /\ j \in Int /\ last \in Int /\ j <= last
        BY <2>e DEF ImpPlaces
      <4>2. j = last
        BY <2>3, <3>1, <4>1
      <4> QED  BY <1>1, <2>e, <2>2, <3>1, <4>2
    <3>2. CASE i # last
      <4>1. ImpAt(i)' = ImpAt(i)
        BY <2>e, <3>2
      <4>2. CASE j = last
        <5>1. D <= Dist(h, ImpAt(i).tail)
          BY <3>0, <4>2, <2>1, <2>d, <2>e
        <5>2. Dist(h, ImpAt(j)'.tail) = D - k
          BY <2>2, <2>e, <4>2
        <5>3. Dist(h, ImpAt(i).tail) \in Int
          <6>1. PICK u \in Position : u = ImpAt(i).tail
            BY PlaceTypes DEF ImpType
          <6>2. Dist(h, u) \in Position
            BY DistMod
          <6> QED  BY <6>1, <6>2 DEF Position
        <5> QED  BY <2>2, <3>0, <4>1, <5>1, <5>2, <5>3
      <4>3. CASE j # last
        BY <2>e, <3>0, <4>1, <4>3
      <4> QED  BY <4>2, <4>3
    <3> QED  BY <3>1, <3>2
  <2>4. dev'.head = h
    BY <1>1, <2>h
  <2> QED  BY <2>e, <2>3, <2>4 DEF ImpGranting
<1> QED  BY <1>1, <1>3, <1>4, <1>5, <1>6, <1>9, <1>10 DEF Flowing, GoesTo

\* A buffer for all that the ring holds takes the rest.
LEMMA LastRead ==
    ASSUME Types, Flowing, ctl.step = "TRANSFER_DATA", state # "RUNNING", expSeen.conn,
           NEW n \in env.sizes, Read(n, FALSE, FALSE)
    PROVE  Taken' /\ ctl'.result = "none"
<1>n. n \in Nat /\ env \in Environments /\ opened \in Block
  BY StreamerFrdAssumption DEF Types
<1>k. PICK k : k = LesserOf(n, Dist(expSeen.sig.head, ctl.tail))
  OBVIOUS
<1>1. /\ UNCHANGED <<dev, exp, expLine, impLine, expSeen, impSeen, link, opened, selected, env>>
      /\ FlowsTo(expSeen.sig, expSeen.sig)
      /\ Taking(k) /\ GoesTo("TRANSFER_DONE2") /\ imp'.cmd = "IDLE"
  BY <1>k, <1>n, TakingRead
<1>2. expSeen.sig.state = "COMPLETED"
  BY <1>1 DEF FlowsTo, Going, state
<1>3. DeviceIsDone /\ expSeen.sig.head = dev.head
  BY <1>1, <1>2 DEF FlowsTo
<1>4. DeviceIsDone'
  BY <1>1, <1>3, CallKeeps
<1>5. ExpTaken'
  <2>1. ASSUME NEW i \in ExpPlaces
        PROVE  ExpAt(i).state = "COMPLETED" /\ ExpAt(i).cs = Data
    <3>1. 0 \in ExpPlaces /\ ExpAt(0) = expSeen.sig /\ 0 <= i /\ i <= i
      BY PlaceTypes
    <3>2. FlowsTo(ExpAt(0), ExpAt(i))
      BY <1>2, <3>1 DEF Flowing, ExpFlowing
    <3>3. ExpAt(i).state = "COMPLETED"
      BY <1>2, <3>1, <3>2 DEF FlowsTo
    <3>4. FlowsTo(ExpAt(i), ExpAt(i))
      BY <3>1, <3>3 DEF Flowing, ExpFlowing
    <3> QED  BY <3>3, <3>4 DEF FlowsTo
  <2>2. ExpTaken
    BY <2>1 DEF ExpTaken
  <2> QED  BY <1>1, <2>2, CallKeeps
<1>6. ImpTaken'
  <2>0. impLine \in Seq(ImpType)
    BY DEF Types
  <2>e. PICK last \in ImpPlaces :
              /\ ImpPlaces' = ImpPlaces /\ ImpAt(last) = imp
              /\ \A i \in ImpPlaces : i <= last /\ ImpAt(i)' = IF i = last THEN imp' ELSE ImpAt(i)
    BY <1>1, <2>0, ImpLast
  <2>1. ASSUME NEW i \in ImpPlaces, NEW j \in ImpPlaces, i <= j, ImpAt(i)'.cmd # "RUNNING"
        PROVE  ImpAt(j)'.cmd # "RUNNING"
    <3>1. ImpAt(i).cmd = "RUNNING"
      BY <2>1 DEF Flowing, ImpGranting
    <3>2. i = last
      BY <2>e, <2>1, <3>1
    <3>3. i \in Int /\ j \in Int /\ j <= i
      BY <2>e, <3>2 DEF ImpPlaces
    <3>4. j = i
      BY <2>1, <3>3
    <3> QED  BY <2>1, <3>4
  <2> QED  BY <2>e, <2>1 DEF ImpTaken
<1>7. ASSUME \A m \in env.sizes : m >= BufSz - 1
      PROVE  ctl'.sum = Data
  <2>0. ctl \in CtlType /\ dev \in DevType
    BY DEF Types
  <2>t. PICK t \in Position : t = ctl.tail
    BY <2>0 DEF CtlType
  <2>h. PICK h \in Position : h = dev.head
    BY <2>0 DEF DevType
  <2>d. PICK D \in Position : D = Dist(h, t)
    BY DistMod
  <2>1. k = LesserOf(n, D) /\ D <= BufSz - 1 /\ n >= BufSz - 1 /\ D \in Nat /\ BufSz \in Nat
    BY <1>3, <1>7, <1>k, <2>t, <2>h, <2>d, BufSzAssumption DEF Position
  <2>2. k = D
    BY <1>n, <2>1 DEF LesserOf
  <2>3. Dist(dev.head, ctl'.tail) = 0
    <3>1. D \in 0 .. Dist(h, t)
      BY <2>1, <2>d
    <3>2. Dist(h, Onward(t, D)) = D - D
      BY <2>d, <3>1, TailMoves
    <3>3. ctl'.tail = Onward(t, D)
      BY <1>1, <2>2, <2>t DEF Taking, Takes
    <3> QED  BY <2>1, <2>h, <3>2, <3>3
  <2>4. dev.pos = Len(Data)
    BY <1>3 DEF DeviceIsDone, IsDone, Device0
  <2>5. ctl'.sum = SubSeq(Data, 1, Len(ctl'.sum)) /\ dev.pos = Len(ctl'.sum) + 0 /\ Len(ctl'.sum) = Len(ctl.sum) + k
    BY <1>1, <2>3 DEF Taking
  <2>6. Len(ctl'.sum) \in Nat
    <3>1. Len(ctl.sum) \in Nat
      BY <2>0 DEF CtlType
    <3> QED  BY <2>1, <2>2, <2>5, <3>1
  <2>7. ctl'.sum = SubSeq(Data, 1, Len(Data))
    BY <2>4, <2>5, <2>6
  <2> QED  BY <1>n, <2>7, ContentType, WholeSubSeq DEF Data
<1>8. ReaderIsDone'
  BY <1>1, <1>7 DEF ReaderIsDone, GoesTo, Data, Content
<1> QED  BY <1>1, <1>4, <1>5, <1>6, <1>8 DEF Taken, GoesTo, Flowing

\* The controller waits for the device to go idle.
LEMMA TakenRead ==
    ASSUME Types, Taken, expSeen.conn, NEW n \in Nat, Read(n, FALSE, FALSE)
    PROVE  Taken' /\ ctl'.result = "none"
<1>1. ctl.step = "TRANSFER_DONE2" /\ imp.cmd = "IDLE"
  BY DEF Taken, ReaderIsDone
<1>2. state \in Going
  BY PlaceTypes DEF Taken, ExpTaken, state, Going
<1>3. /\ UNCHANGED <<dev, exp, expLine, impLine, expSeen, impSeen, link, opened, selected, env>>
      /\ GoesTo("TRANSFER_DONE2") /\ TakesNone /\ imp' = imp
  BY <1>1, <1>2, CallSteps
<1>4. DeviceIsDone' /\ ExpTaken' /\ ImpTaken'
  BY <1>3, CallKeeps DEF Taken
<1>5. ReaderIsDone'
  BY <1>1, <1>3 DEF Taken, ReaderIsDone, GoesTo, TakesNone, Data, Content
<1> QED  BY <1>3, <1>4, <1>5 DEF Taken, GoesTo

\* It compares the checksum when the device has gone idle.
LEMMA OverRead ==
    ASSUME Types, Over, expSeen.conn, NEW n \in Nat, Read(n, FALSE, FALSE)
    PROVE  (Over' \/ Resting') /\ NoFailure'
<1>1. ctl.step = "TRANSFER_DONE2" /\ imp.cmd = "IDLE"
  BY DEF Over, ReaderIsDone
<1>2. UNCHANGED <<dev, exp, expLine, impLine, expSeen, impSeen, link, opened, selected, env>>
  BY CallSteps
<1>3. CASE state \in Going
  <2>1. GoesTo("TRANSFER_DONE2") /\ TakesNone /\ imp' = imp
    BY <1>1, <1>3, CallSteps
  <2>2. DeviceRests' /\ ExpOver' /\ ImpIdle'
    BY <1>2, <2>1, CallKeeps DEF Over
  <2>3. ReaderIsDone'
    BY <1>1, <1>2, <2>1 DEF Over, ReaderIsDone, GoesTo, TakesNone, Data, Content
  <2> QED  BY <1>2, <2>1, <2>2, <2>3 DEF Over, GoesTo, NoFailure
<1>4. CASE state \notin Going
  <2>0. imp \in ImpType
    BY DEF Types
  <2>1. /\ ~ctl'.open /\ imp' = IdleCommand
        /\ ctl.sum = expSeen.sig.cs => ctl'.result = "completed"
        /\ ctl'.result = "completed" => ctl'.sum = expSeen.sig.cs
    BY <1>1, <1>4, CallSteps
  <2>s. 0 \in ExpPlaces /\ ExpAt(0) = expSeen.sig /\ \A i \in ExpPlaces : 0 <= i /\ i <= i
    BY PlaceTypes
  <2>2. expSeen.sig.state = "IDLE" /\ expSeen.sig.cs = Data
    BY <1>4, <2>s DEF Over, ExpOver, state, Going
  <2>3. NoFailure'
    BY <1>2, <2>1, <2>2 DEF Over, ReaderIsDone, NoFailure, Data, Content
  <2>4. ExpIdle
    BY <2>s, <2>2 DEF Over, ExpOver, ExpIdle
  <2>5. DeviceRests' /\ ExpIdle'
    BY <1>2, <2>4, CallKeeps DEF Over
  <2>6. imp'.cmd = "IDLE"
    BY <2>0, <2>1, IdleCommandType
  <2>7. ImpIdle'
    <3>0. impLine \in Seq(ImpType)
      BY DEF Types
    <3>e. PICK last \in ImpPlaces :
              /\ ImpPlaces' = ImpPlaces /\ ImpAt(last) = imp
              /\ \A i \in ImpPlaces : i <= last /\ ImpAt(i)' = IF i = last THEN imp' ELSE ImpAt(i)
      BY <1>2, <3>0, ImpLast
    <3> QED  BY <2>6, <3>e DEF Over, ImpIdle
  <2>8. ReaderRests'
    BY <2>1, <2>6 DEF ReaderRests
  <2> QED  BY <2>3, <2>5, <2>7, <2>8 DEF Resting
<1> QED  BY <1>3, <1>4

LEMMA CleanController ==
    ASSUME Types, Stages, Undisturbed, expSeen.conn, Controller
    PROVE  Stages' /\ NoFailure' /\ UNCHANGED <<expSeen, impSeen, link, opened, selected, env>>
<1>1. PICK n \in env.sizes, interrupt \in BOOLEAN, late \in BOOLEAN : Read(n, interrupt, late)
  BY DEF Controller
<1>2. late = FALSE /\ interrupt = FALSE
  BY <1>1 DEF Read, Undisturbed
<1>3. Read(n, FALSE, FALSE)
  BY <1>1, <1>2
<1>n. n \in Nat
  BY StreamerFrdAssumption DEF Types
<1>4. UNCHANGED <<expSeen, impSeen, link, opened, selected, env>> /\ ctl.open
  BY <1>3 DEF Read
<1>5. ctl'.result = "none" => NoFailure'
  BY DEF NoFailure
<1>6. CASE Resting
  BY <1>3, <1>n, <1>4, <1>5, <1>6, RestingRead DEF Stages
<1>7. CASE Asked
  BY <1>3, <1>n, <1>4, <1>5, <1>7, AskedRead DEF Stages
<1>8. CASE Flowing
  <2>1. CASE ctl.step = "INITIALIZED2"
    BY <1>3, <1>n, <1>4, <1>5, <1>8, <2>1, StartingRead DEF Stages
  <2>2. CASE ctl.step = "TRANSFER_DATA" /\ state = "RUNNING"
    BY <1>3, <1>n, <1>4, <1>5, <1>8, <2>2, RunningRead DEF Stages
  <2>3. CASE ctl.step = "TRANSFER_DATA" /\ state # "RUNNING"
    BY <1>3, <1>4, <1>5, <1>8, <2>3, LastRead DEF Stages
  <2>4. ctl.step \in {"INITIALIZED2", "TRANSFER_DATA"}
    BY <1>8 DEF Flowing, ReaderRuns
  <2> QED  BY <2>1, <2>2, <2>3, <2>4
<1>9. CASE Taken
  BY <1>3, <1>n, <1>4, <1>5, <1>9, TakenRead DEF Stages
<1>10. CASE Over
  BY <1>3, <1>n, <1>4, <1>10, OverRead DEF Stages
<1> QED  BY <1>6, <1>7, <1>8, <1>9, <1>10 DEF Stages

----------------------------------------------------------------------------
(* Undisturbed transfers: the other steps.                                 *)

\* A stream is opened when there is none: nothing is left of the one before.
LEMMA CleanOpenRead ==
    ASSUME Types, Stages, Open
    PROVE  Stages' /\ NoFailure' /\ UNCHANGED <<expSeen, impSeen, link, env>>
<1>1. /\ ~ctl.open /\ ctl' = [NoReader EXCEPT !.open = TRUE] /\ imp' = IdleCommand
      /\ UNCHANGED <<dev, exp, expLine, impLine, expSeen, impSeen, link, opened, env>>
  BY DEF Open, OpenRead
<1>2. Resting
  BY <1>1 DEF Stages, Asked, Flowing, Taken, Over, ReaderRuns, ReaderIsDone
<1>3. DeviceRests' /\ ExpIdle'
  BY <1>1, <1>2 DEF Resting, DeviceRests, ExpIdle, ExpPlaces, ExpAt
<1>4. imp'.cmd = "IDLE" /\ imp'.tail = 0
  BY <1>1, IdleCommandType DEF Types
<1>5. ReaderRests'
  BY <1>1, <1>4 DEF ReaderRests, NoReader
<1>6. ImpIdle'
  <2>0. impLine \in Seq(ImpType)
    BY DEF Types
  <2>e. PICK last \in ImpPlaces :
              /\ ImpPlaces' = ImpPlaces /\ ImpAt(last) = imp
              /\ \A i \in ImpPlaces : i <= last /\ ImpAt(i)' = IF i = last THEN imp' ELSE ImpAt(i)
    BY <1>1, <2>0, ImpLast
  <2> QED  BY <1>2, <1>4, <2>e DEF Resting, ImpIdle
<1>7. ctl'.result = "none"
  BY <1>1 DEF NoReader
<1> QED  BY <1>1, <1>3, <1>5, <1>6, <1>7 DEF Stages, Resting, NoFailure

LEMMA CleanBlocks ==
    ASSUME Types, Types', Stages, NoFailure, expSeen.conn, impSeen.conn, Blocks
    PROVE  Stages' /\ NoFailure' /\ expSeen'.conn /\ impSeen'.conn /\ UNCHANGED <<link, env>>
<1>1. UNCHANGED <<dev, exp, ctl, imp, link, opened, selected, env>> /\ expSeen'.conn /\ impSeen'.conn
  BY DEF Blocks, SendExp, SendImp, ReceiveExp, ReceiveImp
<1>2. ExpKept /\ ImpKept
  <2>1. expLine \in Seq(ExpType) /\ impLine \in Seq(ImpType)
    BY DEF Types
  <2>2. UNCHANGED <<expLine, expSeen>> \/ SendExp \/ ReceiveExp
    BY DEF Blocks, SendImp, ReceiveImp
  <2>3. UNCHANGED <<impLine, impSeen>> \/ SendImp \/ ReceiveImp
    BY DEF Blocks, SendExp, ReceiveExp
  <2> QED  BY <1>1, <2>1, <2>2, <2>3, ExpMoves, ImpMoves
<1>3. Stages'
  BY <1>1, <1>2, StagesKept
<1>4. NoFailure'
  BY <1>1 DEF NoFailure, Content
<1> QED  BY <1>1, <1>3, <1>4

LEMMA CleanRests ==
    ASSUME Types, Types', Stages, NoFailure, UNCHANGED vars
    PROVE  Stages' /\ NoFailure'
<1>1. UNCHANGED <<dev, exp, ctl, imp, expLine, impLine, expSeen, impSeen, opened, selected, env>>
  BY DEF vars
<1>2. ExpKept /\ ImpKept
  <2>1. expLine \in Seq(ExpType) /\ impLine \in Seq(ImpType)
    BY DEF Types
  <2> QED  BY <1>1, <2>1, ExpMoves, ImpMoves
<1>3. Stages'
  BY <1>1, <1>2, StagesKept
<1>4. NoFailure'
  BY <1>1 DEF NoFailure, Content
<1> QED  BY <1>3, <1>4

----------------------------------------------------------------------------
(* Undisturbed transfers: the theorems.                                    *)

LEMMA InitClean == Init => CleanInv
<1> SUFFICES ASSUME Init PROVE CleanInv
  OBVIOUS
<1>1. /\ dev = NoFile /\ ctl = NoReader /\ imp = NoCommand /\ expLine = <<>> /\ impLine = <<>>
      /\ exp.state = "IDLE" /\ expSeen.sig = exp /\ impSeen.sig = imp
      /\ expSeen.conn /\ impSeen.conn /\ link = "up"
  BY DEF Init
<1>2. imp.cmd = "IDLE" /\ ~ctl.open /\ ~dev.open /\ ctl.result = "none"
  BY <1>1 DEF NoCommand, NoReader, NoFile
<1>3. Len(expLine) = 0 /\ Len(impLine) = 0
  BY <1>1, EmptySeq
<1>4. ExpIdle
  BY <1>1, <1>3 DEF ExpIdle, ExpPlaces, ExpAt
<1>5. ImpIdle
  BY <1>1, <1>2, <1>3 DEF ImpIdle, ImpPlaces, ImpAt
<1>6. Resting
  BY <1>1, <1>2, <1>4, <1>5 DEF Resting, ReaderRests, DeviceRests
<1> QED  BY <1>1, <1>2, <1>6 DEF CleanInv, Stages, NoFailure

\* Every undisturbed behaviour goes from stage to stage of a transfer, and no
\* snapshot under way can lead either end out of them.
THEOREM CleanInvariance == Spec => []CleanInv
<1>1. FrdInv /\ FrdInv' /\ CleanInv /\ [Next]_vars => CleanInv'
  <2> SUFFICES ASSUME FrdInv, FrdInv', CleanInv, [Next]_vars, Undisturbed'
               PROVE  link' = "up" /\ expSeen'.conn /\ impSeen'.conn /\ Stages' /\ NoFailure'
    BY DEF CleanInv
  <2>1. env' = env
    <3>1. ASSUME Device \/ Open PROVE env' = env
      BY <3>1 DEF Device, RunControlStream, Open, OpenRead
    <3>4. ASSUME Controller PROVE env' = env
      <4>1. PICK n \in env.sizes, interrupt \in BOOLEAN, late \in BOOLEAN : Read(n, interrupt, late)
        BY <3>4 DEF Controller
      <4> QED  BY <4>1 DEF Read
    <3>2. ASSUME CloseRead \/ Blocks PROVE env' = env
      BY <3>2 DEF CloseRead, Blocks, SendExp, SendImp, ReceiveExp, ReceiveImp
    <3>3. ASSUME Break \/ Notice \/ Relink \/ UNCHANGED vars PROVE env' = env
      BY <3>3 DEF vars, Break, Notice, Relink
    <3> QED  BY <3>1, <3>2, <3>3, <3>4 DEF Next
  <2>2. Undisturbed
    BY <2>1 DEF Undisturbed
  <2>3. link = "up" /\ expSeen.conn /\ impSeen.conn /\ Stages /\ NoFailure /\ Types /\ Types'
    BY <2>2 DEF CleanInv, FrdInv
  <2>4. CASE Device
    <3>1. Stages' /\ UNCHANGED <<ctl, expSeen, impSeen, link, selected, env>>
      BY <2>2, <2>3, <2>4, CleanDevice
    <3> QED  BY <2>3, <3>1 DEF NoFailure, Content
  <2>5. CASE Controller
    BY <2>2, <2>3, <2>5, CleanController
  <2>6. CASE Open
    BY <2>3, <2>6, CleanOpenRead
  <2>7. CASE CloseRead \/ Break \/ Notice \/ Relink
    BY <2>2, <2>3, <2>7 DEF CloseRead, Break, Notice, Relink, Undisturbed
  <2>8. CASE Blocks
    BY <2>3, <2>8, CleanBlocks
  <2>9. CASE UNCHANGED vars
    BY <2>3, <2>9, CleanRests DEF vars
  <2> QED  BY <2>4, <2>5, <2>6, <2>7, <2>8, <2>9 DEF Next
<1> QED  BY <1>1, InitClean, FrdInvariance, PTL DEF Spec

\* In an undisturbed transfer the bytes the controller has taken and those in
\* the ring from its tail to the device's head are together what the device
\* has put there, whatever old snapshots each end acts on.
THEOREM NothingOverwritten == Spec => []RingHoldsUnread
<1>1. FrdInv /\ CleanInv => RingHoldsUnread
  <2> SUFFICES ASSUME FrdInv, CleanInv, Undisturbed, dev.open, {dev.step, ctl.step} = {"TRANSFER_DATA"}
               PROVE  ctl.sum \o Fetched(exp.buf, ctl.tail, (dev.head - ctl.tail) % BufSz) = dev.sum
    BY DEF RingHoldsUnread
  <2>1. Types /\ Stages
    BY DEF FrdInv, CleanInv
  <2>2. dev.step = "TRANSFER_DATA" /\ ctl.step = "TRANSFER_DATA"
    OBVIOUS
  <2>3. Flowing
    BY <2>1, <2>2 DEF Stages, Resting, Asked, Taken, Over, DeviceRests, ReaderIsDone
  <2>4. Ready(Device0, Data)
    BY <2>2, <2>3 DEF Flowing, DeviceRuns, DeviceIsDone, IsDone, Device0
  <2>5. /\ exp.state = "RUNNING" /\ exp.head = dev.head /\ dev.sum = SubSeq(Data, 1, dev.pos)
        /\ dev.pos <= Len(Data)
    BY <2>2, <2>4 DEF Ready, Device0
  <2>6. /\ ctl \in CtlType /\ dev \in DevType /\ exp \in ExpType /\ expLine \in Seq(ExpType)
    BY <2>1 DEF Types
  <2>7. Unread(exp)
    <3>1. \E last \in ExpPlaces : ExpAt(last) = exp
      <4>1. Len(expLine) \in Nat
        BY <2>6
      <4>2. Len(expLine) + 1 \in ExpPlaces /\ ExpAt(Len(expLine) + 1) = exp
        BY <4>1 DEF ExpPlaces, ExpAt
      <4> QED  BY <4>2
    <3>e. PICK last \in ExpPlaces : ExpAt(last) = exp /\ last <= last
      BY <2>1, <3>1, PlaceTypes
    <3>2. FlowsTo(exp, exp)
      BY <2>3, <2>5, <3>e DEF Flowing, ExpFlowing
    <3> QED  BY <3>2 DEF FlowsTo
  <2>k. PICK k : k = (dev.head - ctl.tail) % BufSz
    OBVIOUS
  <2>8. k = Dist(exp.head, ctl.tail) /\ k \in Nat /\ k \in 0 .. Dist(exp.head, ctl.tail)
    <3>t. PICK t \in Position : t = ctl.tail
      BY <2>6 DEF CtlType
    <3>h. PICK h \in Position : h = dev.head
      BY <2>6 DEF DevType
    <3>1. (h - t) % BufSz = Dist(h, t) /\ Dist(h, t) \in Position
      BY DistMod
    <3> QED  BY <2>5, <2>k, <3>t, <3>h, <3>1, BufSzAssumption DEF Position
  <2>9. dev.pos = Len(ctl.sum) + k /\ ctl.sum = SubSeq(Data, 1, Len(ctl.sum))
    BY <2>3, <2>5, <2>8 DEF Flowing, Level
  <2>s. PICK s : s = ctl.sum \o Fetched(exp.buf, ctl.tail, k)
    OBVIOUS
  <2>x. PICK x \in ExpType : x = exp
    BY <2>6
  <2>10. s = SubSeq(Data, 1, Len(ctl.sum) + k)
    <3>1. Len(ctl.sum) + k <= Len(Data)
      BY <2>5, <2>9
    <3>2. Unread(x) /\ k \in 0 .. Dist(x.head, ctl.tail) /\ s = ctl.sum \o Fetched(x.buf, ctl.tail, k)
      BY <2>7, <2>8, <2>s, <2>x
    <3> HIDE <2>x
    <3> QED  BY <2>1, <2>9, <3>1, <3>2, TakenFollow
  <2> QED  BY <2>5, <2>9, <2>10, <2>k, <2>s
<1> QED  BY <1>1, CleanInvariance, FrdInvariance, PTL

\* An undisturbed transfer succeeds if the application reads with buffers that
\* take all that the ring can hold, as ioc_run_stream does where memory is
\* allocated (ioc_dyn_stream.c:545).
THEOREM CleanTransfersSucceed == Spec => []CleanTransferSucceeds
<1>1. CleanInv => CleanTransferSucceeds
  BY DEF CleanInv, NoFailure, CleanTransferSucceeds
<1> QED  BY <1>1, CleanInvariance, PTL

\* Where the device's own timer does not cut a transfer short, what the
\* controller takes for completed is a whole block, whatever is left over of
\* an earlier transfer in the memory blocks; where nothing disturbs a transfer
\* it is the block the controller asked for.  (Else it may be another block:
\* the device reads the select signal only when it opens a block.)
THEOREM CompletedTransferWhole == Spec => []("dev" \notin env.late => CompletedIsWhole)
<1>1. FrdInv /\ CleanInv => ("dev" \notin env.late => CompletedIsWhole)
  <2> SUFFICES ASSUME FrdInv, CleanInv, "dev" \notin env.late, ctl.result = "completed"
               PROVE  /\ \E b \in Block : ctl.sum = Content(b)
                      /\ Undisturbed => ctl.sum = Content(selected)
    BY DEF CompletedIsWhole
  <2>1. \E b \in Block : ctl.sum = Content(b)
    BY DEF FrdInv, Whole, Contents
  <2>2. Undisturbed => ctl.sum = Content(selected)
    BY DEF CleanInv, NoFailure
  <2> QED  BY <2>1, <2>2
<1> QED  BY <1>1, FrdInvariance, CleanInvariance, PTL

=============================================================================
