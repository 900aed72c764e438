------------------------- MODULE StreamerTod_proofs -------------------------
(***************************************************************************)
(* Proofs, for every ring size, contents and timeout: what the device       *)
(* keeps is what the controller sent of one block, whole or with the error *)
(* of its failed write shown or replaced, whatever the fault; and in a     *)
(* transfer that nothing disturbs the device stores the content of the     *)
(* block asked for from its beginning on, and has kept all of it when the  *)
(* controller takes the transfer for completed.                            *)
(***************************************************************************)
EXTENDS StreamerTod, TLAPS, SequenceTheorems

----------------------------------------------------------------------------
(* The ring.                                                               *)

\* A position in the ring, however it is computed.
LEMMA RingIndex ==
    ASSUME NEW i \in Int
    PROVE  i % BufSz \in Position
BY BufSzAssumption DEF Position

LEMMA WriteSome ==
    ASSUME NEW head \in Position, NEW tail \in Position, NEW n \in Nat
    PROVE  WriteCount(head, tail, n) \in 0 .. n
BY BufSzAssumption DEF Position, WriteCount, WriteToEnd, Wrapped, LesserOf

LEMMA ReadSome ==
    ASSUME NEW head \in Position, NEW tail \in Position, NEW n \in Nat
    PROVE  ReadCount(head, tail, n) \in 0 .. n
BY BufSzAssumption DEF Position, ReadCount, ReadToEnd, Wrapped, LesserOf

LEMMA StoredType ==
    ASSUME NEW buf \in [Position -> Nat], NEW head \in Position, NEW bytes \in Seq(Nat)
    PROVE  Stored(buf, head, bytes) \in [Position -> Nat]
<1>1. ASSUME NEW i \in Position
      PROVE  (i - head) % BufSz \in Position
  <2>1. i - head \in Int
    BY BufSzAssumption DEF Position
  <2> QED  BY <2>1, RingIndex
<1>2. \A k \in Position : k < Len(bytes) => bytes[k + 1] \in Nat
  BY BufSzAssumption DEF Position
<1> QED  BY <1>1, <1>2 DEF Stored

LEMMA FetchedType ==
    ASSUME NEW buf \in [Position -> Nat], NEW tail \in Position, NEW n \in Nat
    PROVE  Fetched(buf, tail, n) \in Seq(Nat)
<1>1. ASSUME NEW k \in 1 .. n
      PROVE  buf[(tail + k - 1) % BufSz] \in Nat
  <2>1. tail + k - 1 \in Int
    BY BufSzAssumption DEF Position
  <2>2. (tail + k - 1) % BufSz \in Position
    BY <2>1, RingIndex
  <2> QED  BY <2>2
<1>2. Fetched(buf, tail, n) \in [1 .. n -> Nat]
  BY <1>1 DEF Fetched
<1> QED  BY <1>2, SeqDef

\* A read with a buffer for all that the ring can hold empties it.
LEMMA ReadEmpties ==
    ASSUME NEW head \in Position, NEW tail \in Position
    PROVE  (tail + ReadCount(head, tail, BufSz - 1)) % BufSz = head
<1>1. CASE tail > head
  <2>1. ReadCount(head, tail, BufSz - 1) = BufSz - tail + head
    BY <1>1, BufSzAssumption DEF Position, ReadCount, ReadToEnd, Wrapped, LesserOf
  <2>2. tail + ReadCount(head, tail, BufSz - 1) = BufSz + head
    BY <2>1, BufSzAssumption DEF Position
  <2> QED  BY <2>2, BufSzAssumption DEF Position
<1>2. CASE tail <= head
  <2>1. ReadCount(head, tail, BufSz - 1) = head - tail
    BY <1>2, BufSzAssumption DEF Position, ReadCount, ReadToEnd, Wrapped, LesserOf
  <2>2. tail + ReadCount(head, tail, BufSz - 1) = head
    BY <2>1, BufSzAssumption DEF Position
  <2> QED  BY <2>2, BufSzAssumption DEF Position
<1> QED  BY <1>1, <1>2, BufSzAssumption DEF Position

LEMMA ReadNothing ==
    ASSUME NEW head \in Position, NEW n \in Nat
    PROVE  ReadCount(head, head, n) = 0
BY BufSzAssumption DEF Position, ReadCount, ReadToEnd, Wrapped, LesserOf

----------------------------------------------------------------------------
(* The inductive invariant.                                                *)

Steps == {"INITIALIZED", "INITIALIZED2", "TRANSFER_DATA", "TRANSFER_DONE",
          "ALL_COMPLETED", "FAILED", "FAILED2", "FAILED_AND_IDLE_SET"}
States == {"IDLE", "RUNNING", "COMPLETED", "INTERRUPT"}
Kinds == {"none", "block", "program"}
Errors == {"SUCCESS", "COMPLETED", "WRITING_FILE_FAILED", "DEVICE_PROGRAMMING_FAILED",
           "CHECKSUM_ERROR", "NO_ACCESS_RIGHT"}
DevType == [open : BOOLEAN, step : Steps, tail : Position, sum : Seq(Nat),
            kind : Kinds, stored : Seq(Nat), poll : BOOLEAN]
ExpType == [state : States, tail : Position, err : Errors]
DiskType == [end : {"none", "kept", "dropped"}, bytes : Seq(Nat), err : Errors,
             status : {"NO_BLOCK_TRANSFERRED", "BLOCK_WRITTEN"}]
DevState == [s : DevType, x : ExpType, k : DiskType, got : Seq(Nat)]
CtlType == [open : BOOLEAN, step : Steps, head : Position, sum : Seq(Nat), pos : Nat,
            result : {"none", "completed", "failed"}]
ImpType == [cmd : States, head : Position, cs : Seq(Nat) \union {NoSum}, sel : Block,
            buf : [Position -> Nat]]
CtlPair == [s : CtlType, x : ImpType]
ExpCopy == [sig : ExpType, conn : BOOLEAN]
ImpCopy == [sig : ImpType, conn : BOOLEAN]

\* What the application has for the blocks, and for the block it sends.
Contents == {Content(b) : b \in Block}
Data == Content(selected)

Types ==
    /\ env \in Environments
    /\ dev \in DevType /\ exp \in ExpType /\ disk \in DiskType
    /\ ctl \in CtlType /\ imp \in ImpType
    /\ expLine \in Seq(ExpType) /\ impLine \in Seq(ImpType)
    /\ expSeen \in ExpCopy /\ impSeen \in ImpCopy
    /\ opened \in Block /\ selected \in Block

\* The checksum signal holds none, or that of the whole of one block.
SumOK(cs) == cs = NoSum \/ cs \in Contents

\* The controller's checksum is that of the bytes it has put into the ring.
CtlOK(s) == s.pos <= Len(Data) /\ s.sum = SubSeq(Data, 1, s.pos)

\* The error of a failed write, and what may have replaced it: the status of
\* a program, polled in the middle of a block.
WriteErrors == {"WRITING_FILE_FAILED", "COMPLETED", "DEVICE_PROGRAMMING_FAILED"}

\* All bytes read from the ring are stored, or a write has failed.
StoredOK(s, e) == s.open /\ s.kind # "none" => s.stored = s.sum \/ e \in WriteErrors

KeptOK(k) == k.end = "kept" => k.bytes \in Contents \/ k.err \in WriteErrors

SumsWhole ==
    /\ CtlOK(ctl)
    /\ SumOK(imp.cs) /\ SumOK(impSeen.sig.cs)
    /\ \A i \in 1 .. Len(impLine) : SumOK(impLine[i].cs)

Storage == StoredOK(dev, exp.err) /\ KeptOK(disk)

TodInv == Types /\ SumsWhole /\ Storage

----------------------------------------------------------------------------
(* The device.                                                             *)

\* The ways in which ioc_streamer_device_read changes the step, the state and
\* the bytes read and nothing else.
Emptied(d) == [d EXCEPT !.got = <<>>]
SetStep(d, t) == [d EXCEPT !.s.step = t]
SetState(d, st, t) == [d EXCEPT !.x.state = st, !.s.step = t]

\* r is d but for the step, the state signal and the bytes read.
Stepped(d, r) ==
    /\ r \in DevState
    /\ r.s.open = d.s.open /\ r.s.tail = d.s.tail /\ r.s.sum = d.s.sum /\ r.s.kind = d.s.kind
    /\ r.s.stored = d.s.stored /\ r.s.poll = d.s.poll
    /\ r.x.err = d.x.err /\ r.k = d.k

LEMMA StepChanges ==
    ASSUME NEW d \in DevState, NEW t \in Steps, NEW st \in States
    PROVE  /\ Stepped(d, Emptied(d)) /\ Emptied(d).got = <<>> /\ Emptied(d).s = d.s
           /\ Stepped(d, SetStep(d, t)) /\ SetStep(d, t).got = d.got
           /\ Stepped(d, SetState(d, st, t)) /\ SetState(d, st, t).got = d.got
<1>0. /\ d = [s |-> d.s, x |-> d.x, k |-> d.k, got |-> d.got]
      /\ d.s \in DevType /\ d.x \in ExpType /\ d.k \in DiskType /\ d.got \in Seq(Nat)
  BY DEF DevState
<1>s. PICK s : s = [d.s EXCEPT !.step = t]
  OBVIOUS
<1>x. PICK x : x = [d.x EXCEPT !.state = st]
  OBVIOUS
<1>1. /\ s \in DevType /\ s.open = d.s.open /\ s.tail = d.s.tail /\ s.sum = d.s.sum
      /\ s.kind = d.s.kind /\ s.stored = d.s.stored /\ s.poll = d.s.poll
  BY <1>0, <1>s DEF DevType
<1>2. x \in ExpType /\ x.err = d.x.err
  BY <1>0, <1>x DEF ExpType
<1>3. ASSUME NEW r, r = Emptied(d)
      PROVE  Stepped(d, r) /\ r.got = <<>> /\ r.s = d.s
  <2>1. r = [s |-> d.s, x |-> d.x, k |-> d.k, got |-> <<>>]
    BY <1>0, <1>3 DEF Emptied
  <2>2. r \in DevState /\ r.s = d.s /\ r.x = d.x /\ r.k = d.k /\ r.got = <<>>
    BY <1>0, <2>1 DEF DevState
  <2> QED  BY <2>2 DEF Stepped
<1>4. ASSUME NEW r, r = SetStep(d, t)
      PROVE  Stepped(d, r) /\ r.got = d.got
  <2>1. r = [d EXCEPT !.s.step = t]
    BY <1>4 DEF SetStep
  <2>2. r = [s |-> s, x |-> d.x, k |-> d.k, got |-> d.got]
    BY <1>0, <1>s, <2>1
  <2>3. r \in DevState /\ r.s = s /\ r.x = d.x /\ r.k = d.k /\ r.got = d.got
    BY <1>0, <1>1, <2>2 DEF DevState
  <2> QED  BY <1>1, <2>3 DEF Stepped
<1>5. ASSUME NEW r, r = SetState(d, st, t)
      PROVE  Stepped(d, r) /\ r.got = d.got
  <2>1. r = [d EXCEPT !.x.state = st, !.s.step = t]
    BY <1>5 DEF SetState
  <2>2. r = [s |-> s, x |-> x, k |-> d.k, got |-> d.got]
    BY <1>0, <1>s, <1>x, <2>1
  <2>3. r \in DevState /\ r.s = s /\ r.x = x /\ r.k = d.k /\ r.got = d.got
    BY <1>0, <1>1, <1>2, <2>2 DEF DevState
  <2> QED  BY <1>1, <1>2, <2>3 DEF Stepped
<1> QED  BY <1>3, <1>4, <1>5

\* What a call of ioc_streamer_device_read promises, r for d: the bytes it
\* returns are those it adds to the checksum, and when there are any, the ring
\* is empty afterwards.
HasRead(d, r) ==
    /\ r \in DevState
    /\ r.s.open = d.s.open /\ r.s.kind = d.s.kind
    /\ r.s.stored = d.s.stored /\ r.s.poll = d.s.poll
    /\ r.x.err = d.x.err /\ r.k = d.k
    /\ r.s.sum = d.s.sum \o r.got
    /\ r.got # <<>> => r.s.tail = impSeen.sig.head
    /\ d.s.tail = impSeen.sig.head => r.got = <<>>

LEMMA ReadDataFacts ==
    ASSUME impSeen \in ImpCopy, NEW d \in DevState, NEW late \in BOOLEAN
    PROVE  HasRead(d, ReadData(d, late))
<1>r. PICK r : r = ReadData(d, late)
  OBVIOUS
<1> SUFFICES HasRead(d, r)
  BY <1>r
<1>0. /\ d = [s |-> d.s, x |-> d.x, k |-> d.k, got |-> d.got]
      /\ d.s \in DevType /\ d.x \in ExpType /\ d.k \in DiskType /\ d.got \in Seq(Nat)
  BY DEF DevState
<1>1. d.s.tail \in Position /\ d.s.sum \in Seq(Nat)
  BY <1>0 DEF DevType
<1>2. impSeen.sig.head \in Position /\ impSeen.sig.buf \in [Position -> Nat]
  BY DEF ImpCopy, ImpType
<1>n. BufSz - 1 \in Nat
  BY BufSzAssumption
<1>k. PICK k : k = ReadCount(impSeen.sig.head, d.s.tail, BufSz - 1)
  OBVIOUS
<1>3. k \in 0 .. BufSz - 1
  BY <1>1, <1>2, <1>k, <1>n, ReadSome
<1>t. PICK t : t = (d.s.tail + k) % BufSz
  OBVIOUS
<1>4. t = impSeen.sig.head
  BY <1>1, <1>2, <1>k, <1>t, ReadEmpties
<1>b. PICK bytes : bytes = Fetched(impSeen.sig.buf, d.s.tail, k)
  OBVIOUS
<1>5. bytes \in Seq(Nat) /\ (k = 0 => bytes = <<>>)
  <2>1. k \in Nat
    BY <1>3
  <2>2. bytes \in Seq(Nat)
    BY <1>1, <1>2, <1>b, <2>1, FetchedType
  <2>3. DOMAIN bytes = 1 .. k
    BY <1>b DEF Fetched
  <2>4. k = 0 => Len(bytes) = 0
    BY <2>1, <2>2, <2>3
  <2> QED  BY <2>2, <2>4, EmptySeq
<1>x. PICK xt : xt = IF k > 0 THEN t ELSE d.x.tail
  OBVIOUS
<1>6. xt \in Position
  BY <1>0, <1>2, <1>4, <1>x DEF ExpType
<1>u. PICK u : u = d.s.sum \o bytes
  OBVIOUS
<1>7. u \in Seq(Nat)
  BY <1>1, <1>5, <1>u
<1>e. PICK e : e = [d EXCEPT !.got = bytes, !.s.tail = t, !.x.tail = xt, !.s.sum = u]
  OBVIOUS
<1>8. /\ e \in DevState /\ e.got = bytes
      /\ e.s.open = d.s.open /\ e.s.kind = d.s.kind /\ e.s.stored = d.s.stored
      /\ e.s.poll = d.s.poll /\ e.x.err = d.x.err /\ e.k = d.k /\ e.s.sum = u /\ e.s.tail = t
  <2>s. PICK s : s = [d.s EXCEPT !.tail = t, !.sum = u]
    OBVIOUS
  <2>x. PICK x : x = [d.x EXCEPT !.tail = xt]
    OBVIOUS
  <2>1. e = [s |-> s, x |-> x, k |-> d.k, got |-> bytes]
    BY <1>0, <1>e, <2>s, <2>x
  <2>2. /\ s \in DevType /\ s.open = d.s.open /\ s.kind = d.s.kind /\ s.stored = d.s.stored
        /\ s.poll = d.s.poll /\ s.sum = u /\ s.tail = t
    BY <1>0, <1>2, <1>4, <1>7, <2>s DEF DevType
  <2>3. x \in ExpType /\ x.err = d.x.err
    BY <1>0, <1>6, <2>x DEF ExpType
  <2>4. e \in DevState /\ e.s = s /\ e.x = x /\ e.k = d.k /\ e.got = bytes
    BY <1>0, <1>5, <2>1, <2>2, <2>3 DEF DevState
  <2> QED  BY <2>2, <2>3, <2>4
<1>9. r = e \/ (\E q \in {"FAILED", "TRANSFER_DONE"} : r = SetStep(e, q))
  BY <1>r, <1>k, <1>t, <1>b, <1>x, <1>u, <1>e DEF ReadData, SetStep
<1>10. Stepped(e, r) /\ r.got = bytes
  <2>1. {"FAILED", "TRANSFER_DONE"} \subseteq Steps /\ "IDLE" \in States
    BY DEF Steps, States
  <2>2. CASE r = e
    BY <1>8, <2>2 DEF Stepped
  <2>3. CASE \E q \in {"FAILED", "TRANSFER_DONE"} : r = SetStep(e, q)
    BY <1>8, <2>1, <2>3, StepChanges
  <2> QED  BY <1>9, <2>2, <2>3
<1>11. d.s.tail = impSeen.sig.head => k = 0
  BY <1>2, <1>k, <1>n, ReadNothing
<1> QED  BY <1>4, <1>5, <1>8, <1>10, <1>11, <1>u DEF HasRead, Stepped

\* A step without data reads nothing.
LEMMA NothingRead ==
    ASSUME NEW d \in DevState, NEW r, Stepped(d, r), r.got = <<>>
    PROVE  HasRead(d, r)
<1>1. d.s.sum \in Seq(Nat)
  BY DEF DevState, DevType
<1>2. d.s.sum \o <<>> = d.s.sum
  BY <1>1, ConcatEmptySeq
<1> QED  BY <1>2 DEF HasRead, Stepped

LEMMA DeviceReadFacts ==
    ASSUME impSeen \in ImpCopy, NEW d0 \in DevState, NEW interrupt \in BOOLEAN,
           NEW late \in BOOLEAN
    PROVE  HasRead(d0, DeviceRead(d0, interrupt, late))
<1>r. PICK r : r = DeviceRead(d0, interrupt, late)
  OBVIOUS
<1> SUFFICES HasRead(d0, r)
  BY <1>r
<1>0. Steps = Steps \union {"FAILED", "FAILED2", "FAILED_AND_IDLE_SET", "ALL_COMPLETED", "TRANSFER_DATA"}
      /\ {"IDLE", "RUNNING", "INTERRUPT"} \subseteq States
  BY DEF Steps, States
<1>e. PICK e : e = Emptied(d0)
  OBVIOUS
<1>1. Stepped(d0, e) /\ e.got = <<>> /\ e \in DevState /\ e.s = d0.s
  <2>1. "FAILED" \in Steps /\ "IDLE" \in States
    BY <1>0
  <2> QED  BY <1>e, <2>1, StepChanges DEF Stepped
<1>d. PICK d : d = IF impSeen.conn \/ e.s.step = "FAILED_AND_IDLE_SET" THEN e
                   ELSE SetState(e, "IDLE", "FAILED_AND_IDLE_SET")
  OBVIOUS
<1>2. Stepped(d0, d) /\ d.got = <<>> /\ d \in DevState
  <2>1. CASE d = e
    BY <1>1, <2>1
  <2>2. CASE d = SetState(e, "IDLE", "FAILED_AND_IDLE_SET")
    <3>1. Stepped(e, d) /\ d.got = e.got
      BY <1>0, <1>1, <2>2, StepChanges
    <3> QED  BY <1>1, <3>1 DEF Stepped
  <2> QED  BY <1>d, <2>1, <2>2
\* The data phase.
<1>3. ASSUME NEW f, Stepped(d, f), f.got = <<>>, r = TransferData(f, interrupt, late)
      PROVE  HasRead(d0, r)
  <2>1. f \in DevState /\ Stepped(d0, f)
    BY <1>2, <1>3 DEF Stepped
  <2>2. CASE r = SetStep(f, "FAILED")
    <3>1. Stepped(f, r) /\ r.got = <<>>
      BY <1>0, <1>3, <2>1, <2>2, StepChanges
    <3>2. Stepped(d0, r)
      BY <2>1, <3>1 DEF Stepped
    <3> QED  BY <3>1, <3>2, NothingRead
  <2>3. CASE r = ReadData(f, late)
    <3>1. HasRead(f, r)
      BY <2>1, <2>3, ReadDataFacts
    <3> QED  BY <2>1, <3>1 DEF Stepped, HasRead
  <2> QED  BY <1>3, <2>2, <2>3 DEF TransferData, SetStep
<1>4. ASSUME Stepped(d, r), r.got = d.got
      PROVE  HasRead(d0, r)
  <2>1. Stepped(d0, r) /\ r.got = <<>>
    BY <1>2, <1>4 DEF Stepped
  <2> QED  BY <2>1, NothingRead
<1>5. \/ r = d
      \/ \E t \in {"FAILED"} : r = SetStep(d, t)
      \/ \E t \in {"ALL_COMPLETED", "FAILED_AND_IDLE_SET"} : r = SetState(d, "IDLE", t)
      \/ r = SetState(d, "INTERRUPT", "FAILED2")
      \/ r = TransferData(d, interrupt, late)
      \/ r = TransferData(SetState(d, "RUNNING", "TRANSFER_DATA"), interrupt, late)
  <2>1. e = [d0 EXCEPT !.got = <<>>]
        /\ d = IF impSeen.conn \/ e.s.step = "FAILED_AND_IDLE_SET" THEN e
               ELSE [e EXCEPT !.x.state = "IDLE", !.s.step = "FAILED_AND_IDLE_SET"]
    BY <1>e, <1>d DEF Emptied, SetState
  <2>f. PICK f : f = SetState(d, "RUNNING", "TRANSFER_DATA")
    OBVIOUS
  <2>2. f = [d EXCEPT !.x.state = "RUNNING", !.s.step = "TRANSFER_DATA"]
    BY <2>f DEF SetState
  <2>3. r = StepOfRead(d, interrupt, late)
    BY <1>r, <2>1 DEF DeviceRead
  <2>4. \/ r = d
        \/ r = [d EXCEPT !.s.step = "FAILED"]
        \/ r = [d EXCEPT !.x.state = "IDLE", !.s.step = "ALL_COMPLETED"]
        \/ r = [d EXCEPT !.x.state = "IDLE", !.s.step = "FAILED_AND_IDLE_SET"]
        \/ r = [d EXCEPT !.x.state = "INTERRUPT", !.s.step = "FAILED2"]
        \/ r = TransferData(d, interrupt, late)
        \/ r = TransferData(f, interrupt, late)
    BY <2>2, <2>3 DEF StepOfRead
  <2> QED  BY <2>4, <2>f DEF SetStep, SetState
<1>6. CASE r = d
  BY <1>2, <1>4, <1>6 DEF Stepped
<1>7. CASE \/ r = SetStep(d, "FAILED")
           \/ \E t \in {"ALL_COMPLETED", "FAILED_AND_IDLE_SET"} : r = SetState(d, "IDLE", t)
           \/ r = SetState(d, "INTERRUPT", "FAILED2")
  <2>1. ASSUME NEW t \in Steps, NEW st \in States, r = SetStep(d, t) \/ r = SetState(d, st, t)
        PROVE  HasRead(d0, r)
    BY <1>2, <1>4, <2>1, StepChanges
  <2>2. {"FAILED", "FAILED2", "FAILED_AND_IDLE_SET", "ALL_COMPLETED"} \subseteq Steps
    BY DEF Steps
  <2> QED  BY <1>0, <1>7, <2>1, <2>2
<1>8. CASE r = TransferData(d, interrupt, late)
  <2>1. Stepped(d, d)
    BY <1>2 DEF Stepped
  <2> QED  BY <1>2, <1>3, <1>8, <2>1
<1>9. CASE r = TransferData(SetState(d, "RUNNING", "TRANSFER_DATA"), interrupt, late)
  <2>f. PICK f : f = SetState(d, "RUNNING", "TRANSFER_DATA")
    OBVIOUS
  <2>1. Stepped(d, f) /\ f.got = <<>>
    BY <1>0, <1>2, <2>f, StepChanges
  <2> QED  BY <1>3, <1>9, <2>f, <2>1
<1> QED  BY <1>5, <1>6, <1>7, <1>8, <1>9

\* The device between two calls.
Good(d) == d \in DevState /\ StoredOK(d.s, d.x.err) /\ KeptOK(d.k)

\* What has been read is stored, or the error is shown, or a program failed.
LEMMA StoreFacts ==
    ASSUME NEW d, Good(d), NEW a, HasRead(d, a), NEW badWrite \in BOOLEAN
    PROVE  /\ Store(a, badWrite) \in DevState
           /\ Store(a, badWrite).s.open = d.s.open /\ Store(a, badWrite).s.kind = d.s.kind
           /\ Store(a, badWrite).s.sum = a.s.sum /\ Store(a, badWrite).s.tail = a.s.tail
           /\ Store(a, badWrite).k = d.k /\ Store(a, badWrite).s.step = a.s.step
           /\ Good(Store(a, badWrite))
<1>r. PICK r : r = Store(a, badWrite)
  OBVIOUS
<1>0. /\ a = [s |-> a.s, x |-> a.x, k |-> a.k, got |-> a.got]
      /\ a.s \in DevType /\ a.x \in ExpType /\ a.k \in DiskType /\ a.got \in Seq(Nat)
  BY DEF DevState, HasRead
<1>1. /\ a \in DevState /\ a.s.open = d.s.open /\ a.s.kind = d.s.kind
      /\ a.s.stored = d.s.stored /\ a.s.poll = d.s.poll /\ a.x.err = d.x.err /\ a.k = d.k
      /\ a.s.sum = d.s.sum \o a.got
  BY DEF HasRead
<1>2. StoredOK(d.s, d.x.err) /\ KeptOK(d.k) /\ d.s \in DevType
  BY DEF Good, DevState
<1>3. d.s.sum \in Seq(Nat) /\ d.s.stored \in Seq(Nat) /\ d.s.kind \in Kinds
  BY <1>2 DEF DevType
<1>5. CASE a.got = <<>> \/ d.s.kind = "none"
  <2>1. r = a
    BY <1>r, <1>1, <1>5 DEF Store
  <2>2. StoredOK(a.s, a.x.err)
    <3>1. CASE a.got = <<>>
      <4>1. a.s.sum = d.s.sum
        BY <1>1, <1>3, <3>1, ConcatEmptySeq
      <4> QED  BY <1>1, <1>2, <4>1 DEF StoredOK
    <3>2. CASE d.s.kind = "none"
      BY <1>1, <3>2 DEF StoredOK
    <3> QED  BY <1>5, <3>1, <3>2
  <2> QED  BY <1>r, <1>1, <1>2, <2>1, <2>2 DEF Good
<1>6. CASE a.got # <<>> /\ d.s.kind # "none" /\ badWrite
  <2>e. PICK e : e = IF a.s.kind = "block" THEN "WRITING_FILE_FAILED" ELSE "DEVICE_PROGRAMMING_FAILED"
    OBVIOUS
  <2>1. r = [a EXCEPT !.x.err = e]
    BY <1>r, <1>1, <1>6, <2>e DEF Store
  <2>x. PICK x : x = [a.x EXCEPT !.err = e]
    OBVIOUS
  <2>2. r = [s |-> a.s, x |-> x, k |-> a.k, got |-> a.got]
    BY <1>0, <2>1, <2>x
  <2>3. e \in Errors
    BY <2>e DEF Errors
  <2>4. x \in ExpType /\ x.err = e
    BY <1>0, <2>x, <2>3 DEF ExpType
  <2>5. r \in DevState /\ r.s = a.s /\ r.x = x /\ r.k = a.k
    BY <1>0, <2>2, <2>4 DEF DevState
  <2>6. StoredOK(r.s, r.x.err)
    BY <2>e, <2>4, <2>5 DEF StoredOK, WriteErrors
  <2>7. Good(r)
    BY <1>1, <1>2, <2>5, <2>6 DEF Good
  <2> QED  BY <1>r, <1>1, <2>5, <2>7
<1>7. CASE a.got # <<>> /\ d.s.kind # "none" /\ ~badWrite
  <2>u. PICK u : u = a.s.stored \o a.got
    OBVIOUS
  <2>1. r = [a EXCEPT !.s.stored = u]
    BY <1>r, <1>1, <1>7, <2>u DEF Store
  <2>s. PICK t : t = [a.s EXCEPT !.stored = u]
    OBVIOUS
  <2>2. r = [s |-> t, x |-> a.x, k |-> a.k, got |-> a.got]
    BY <1>0, <2>1, <2>s
  <2>3. u \in Seq(Nat)
    BY <1>0, <1>1, <1>3, <2>u
  <2>4. /\ t \in DevType /\ t.open = a.s.open /\ t.kind = a.s.kind /\ t.sum = a.s.sum
        /\ t.tail = a.s.tail /\ t.step = a.s.step /\ t.poll = a.s.poll /\ t.stored = u
    BY <1>0, <2>s, <2>3 DEF DevType
  <2>5. r \in DevState /\ r.s = t /\ r.x = a.x /\ r.k = a.k
    BY <1>0, <2>2, <2>4 DEF DevState
  <2>6. StoredOK(r.s, r.x.err)
    BY <1>1, <1>2, <2>u, <2>4, <2>5 DEF StoredOK
  <2>8. Good(r)
    BY <1>1, <1>2, <2>5, <2>6 DEF Good
  <2> QED  BY <1>r, <1>1, <2>4, <2>5, <2>8
<1> QED  BY <1>5, <1>6, <1>7

\* The end of a transfer.
LEMMA EndFacts ==
    ASSUME NEW d \in DevState, NEW s, KeptOK(d.k),
           s = "COMPLETED" /\ d.s.kind # "none" =>
              d.s.stored \in Contents \/ d.x.err \in WriteErrors
    PROVE  Good(ToDeviceEnd(d, s))
<1>r. PICK r : r = ToDeviceEnd(d, s)
  OBVIOUS
<1> SUFFICES Good(r)
  BY <1>r
<1>0. /\ d = [s |-> d.s, x |-> d.x, k |-> d.k, got |-> d.got]
      /\ d.s \in DevType /\ d.x \in ExpType /\ d.k \in DiskType /\ d.got \in Seq(Nat)
  BY DEF DevState
<1>1. /\ d.s.kind \in Kinds /\ d.s.poll \in BOOLEAN /\ d.s.stored \in Seq(Nat)
      /\ d.x.err \in Errors /\ d.k.status \in {"NO_BLOCK_TRANSFERRED", "BLOCK_WRITTEN"}
  BY <1>0 DEF DevType, ExpType, DiskType
<1>e. PICK e : e = IF s = "CHECKSUM_ERROR" THEN s ELSE d.x.err
  OBVIOUS
<1>2. e \in Errors /\ (s = "COMPLETED" => e = d.x.err)
  BY <1>1, <1>e DEF Errors
<1>c. PICK c : c = IF s = "CHECKSUM_ERROR" THEN [d EXCEPT !.x.err = s] ELSE d
  OBVIOUS
<1>y. PICK y \in ExpType : y = c.x /\ y.err = e /\ c = [s |-> d.s, x |-> y, k |-> d.k, got |-> d.got]
  <2>1. CASE s = "CHECKSUM_ERROR"
    <3>1. c = [s |-> d.s, x |-> [d.x EXCEPT !.err = s], k |-> d.k, got |-> d.got]
      BY <1>0, <1>c, <2>1
    <3>2. [d.x EXCEPT !.err = s] \in ExpType /\ [d.x EXCEPT !.err = s].err = e
      BY <1>0, <1>2, <1>e, <2>1 DEF ExpType
    <3> QED  BY <3>1, <3>2
  <2>2. CASE s # "CHECKSUM_ERROR"
    BY <1>0, <1>c, <1>e, <2>2
  <2> QED  BY <2>1, <2>2
<1>p. PICK p \in BOOLEAN : p = (d.s.poll \/ (d.s.kind = "program" /\ s = "COMPLETED"))
  BY <1>1
<1>f. PICK f : f = IF d.s.kind = "block" /\ ~IsError(e) THEN "COMPLETED" ELSE e
  OBVIOUS
<1>t. PICK t : t = [NoStore EXCEPT !.poll = p]
  OBVIOUS
<1>x. PICK x : x = [y EXCEPT !.state = "IDLE", !.tail = 0, !.err = f]
  OBVIOUS
<1>k. PICK k : k = IF d.s.kind = "none" THEN d.k
                   ELSE [end |-> IF s = "COMPLETED" THEN "kept" ELSE "dropped",
                         bytes |-> d.s.stored, err |-> e,
                         status |-> IF d.s.kind = "block" THEN "BLOCK_WRITTEN" ELSE d.k.status]
  OBVIOUS
<1>3. r = [c EXCEPT !.s = t, !.x.state = "IDLE", !.x.tail = 0, !.x.err = f, !.k = k]
  <2>1. c.x.err = e /\ c.k = d.k
    BY <1>y
  <2>2. r = [c EXCEPT !.s = [NoStore EXCEPT !.poll = d.s.poll \/ (d.s.kind = "program" /\ s = "COMPLETED")],
                      !.x.state = "IDLE", !.x.tail = 0,
                      !.x.err = IF d.s.kind = "block" /\ ~IsError(c.x.err) THEN "COMPLETED" ELSE c.x.err,
                      !.k = IF d.s.kind = "none" THEN c.k
                            ELSE [end |-> IF s = "COMPLETED" THEN "kept" ELSE "dropped",
                                  bytes |-> d.s.stored, err |-> c.x.err,
                                  status |-> IF d.s.kind = "block" THEN "BLOCK_WRITTEN" ELSE c.k.status]]
    BY <1>r, <1>c DEF ToDeviceEnd
  <2> QED  BY <1>p, <1>f, <1>t, <1>k, <2>1, <2>2
<1>4. r = [s |-> t, x |-> x, k |-> k, got |-> d.got]
  <2>1. c = [s |-> d.s, x |-> y, k |-> d.k, got |-> d.got]
    BY <1>y
  <2> QED  BY <1>3, <1>x, <2>1
<1>5. /\ "IDLE" \in States /\ 0 \in Position /\ "INITIALIZED" \in Steps /\ <<>> \in Seq(Nat)
      /\ "none" \in Kinds /\ "COMPLETED" \in Errors
  BY BufSzAssumption DEF States, Position, Steps, Kinds, Errors
<1>6. t \in DevType /\ ~t.open /\ t.kind = "none" /\ t.poll = p
  BY <1>5, <1>t DEF NoStore, DevType
<1>7. x \in ExpType
  BY <1>2, <1>5, <1>f, <1>y, <1>x DEF ExpType
<1>8. k \in DiskType
  BY <1>0, <1>1, <1>2, <1>k DEF DiskType
<1>9. r \in DevState /\ r.s = t /\ r.k = k
  BY <1>0, <1>4, <1>6, <1>7, <1>8 DEF DevState
<1>11. KeptOK(k)
  <2>1. CASE d.s.kind = "none"
    BY <1>k, <2>1
  <2>2. CASE d.s.kind # "none"
    BY <1>2, <1>k, <2>2 DEF KeptOK
  <2> QED  BY <2>1, <2>2
<1>12. StoredOK(t, r.x.err)
  BY <1>6 DEF StoredOK
<1> QED  BY <1>9, <1>11, <1>12 DEF Good

\* The checksum of the signal is of a whole block, so that bytes with
\* that checksum are.
LEMMA CompletedEnd ==
    ASSUME NEW d, Good(d), d.s.open, SumOK(impSeen.sig.cs), NEW s,
           s = "COMPLETED" => d.s.sum = impSeen.sig.cs
    PROVE  Good(ToDeviceEnd(d, s))
<1>1. d \in DevState /\ StoredOK(d.s, d.x.err) /\ KeptOK(d.k)
      /\ d.s \in DevType
  BY DEF Good, DevState
<1>2. d.s.sum \in Seq(Nat)
  BY <1>1 DEF DevType
<1>3. NoSum \notin Seq(Nat)
  <2>1. NoSum[1] = -1 /\ Len(NoSum) = 1
    BY DEF NoSum
  <2>2. ASSUME NoSum \in Seq(Nat)
        PROVE  NoSum[1] \in Nat
    <3>1. 1 \in 1 .. Len(NoSum)
      BY <2>1
    <3> QED  BY <2>2, <3>1, ElementOfSeq
  <2>3. -1 \notin Nat
    OBVIOUS
  <2> QED  BY <2>1, <2>2, <2>3
<1>4. s = "COMPLETED" => d.s.sum \in Contents
  BY <1>2, <1>3 DEF SumOK
<1>5. s = "COMPLETED" /\ d.s.kind # "none" =>
         d.s.stored \in Contents \/ d.x.err \in WriteErrors
  BY <1>1, <1>4 DEF StoredOK
<1> QED  BY <1>1, <1>5, EndFacts

LEMMA ToDeviceGood ==
    ASSUME impSeen \in ImpCopy, SumOK(impSeen.sig.cs), NEW d, Good(d), d.s.open,
           NEW late \in BOOLEAN, NEW badWrite \in BOOLEAN
    PROVE  Good(ToDevice(d, late, badWrite))
<1>r. PICK r : r = ToDevice(d, late, badWrite)
  OBVIOUS
<1> SUFFICES Good(r)
  BY <1>r
<1>i. PICK i \in BOOLEAN : i = (d.s.kind = "none")
  OBVIOUS
<1>a. PICK a : a = DeviceRead(d, i, late)
  OBVIOUS
<1>b. PICK b : b = Store(a, badWrite)
  OBVIOUS
<1>c. PICK c : c = DeviceRead(b, i, FALSE)
  OBVIOUS
<1>f. PICK failed \in BOOLEAN : failed = (a.got # <<>> /\ badWrite /\ d.s.kind = "program")
  OBVIOUS
<1>0. d \in DevState /\ KeptOK(d.k)
  BY DEF Good
<1>1. HasRead(d, a)
  BY <1>0, <1>a, DeviceReadFacts
<1>2. /\ b \in DevState /\ b.s.open /\ b.s.sum = a.s.sum
      /\ b.s.tail = a.s.tail /\ b.k = d.k /\ Good(b)
  BY <1>1, <1>b, StoreFacts
<1>3. Verdict(a) = "COMPLETED" => a.s.sum = impSeen.sig.cs
  BY DEF Verdict
<1>4. Verdict(c) = "COMPLETED" => c.s.sum = impSeen.sig.cs
  BY DEF Verdict
<1>5. CASE a.got = <<>> /\ Verdict(a) = "SUCCESS"
  <2>1. r = b
    BY <1>r, <1>i, <1>a, <1>b, <1>5 DEF ToDevice
  <2> QED  BY <1>2, <2>1
<1>6. CASE failed
  <2>1. r = ToDeviceEnd(b, "DEVICE_PROGRAMMING_FAILED")
    BY <1>r, <1>i, <1>a, <1>b, <1>f, <1>6 DEF ToDevice
  <2> QED  BY <1>0, <1>2, <2>1, EndFacts
<1>7. CASE a.got # <<>> /\ ~failed /\ Verdict(a) = "SUCCESS"
  <2>1. r = IF Verdict(c) = "SUCCESS" THEN c ELSE ToDeviceEnd(c, Verdict(c))
    BY <1>r, <1>i, <1>a, <1>b, <1>c, <1>f, <1>7 DEF ToDevice
  <2>2. HasRead(b, c)
    BY <1>2, <1>c, DeviceReadFacts
  <2>3. b.s.tail = impSeen.sig.head
    BY <1>1, <1>2, <1>7 DEF HasRead
  <2>4. c.got = <<>> /\ c.s.open
    BY <1>2, <2>2, <2>3 DEF HasRead
  <2>5. Good(b)
    BY <1>2, <1>7
  <2>6. Good(c)
    <3>1. Store(c, FALSE) = c
      BY <2>4 DEF Store
    <3> QED  BY <2>2, <2>4, <2>5, <3>1, StoreFacts
  <2> QED  BY <1>4, <2>1, <2>4, <2>6, CompletedEnd
<1>8. CASE ~failed /\ Verdict(a) # "SUCCESS"
  <2>1. r = ToDeviceEnd(b, Verdict(a))
    BY <1>r, <1>i, <1>a, <1>b, <1>f, <1>8 DEF ToDevice
  <2>2. Good(b)
    BY <1>2, <1>8
  <2> QED  BY <1>2, <1>3, <2>1, <2>2, CompletedEnd
<1> QED  BY <1>5, <1>6, <1>7, <1>8

\* A new transfer begins with nothing read and nothing stored.
LEMMA OpenGood ==
    ASSUME NEW d, Good(d), NEW kind \in {"block", "program"}, NEW refused \in BOOLEAN
    PROVE  Good(DeviceOpen(d, kind, refused))
<1>r. PICK r : r = DeviceOpen(d, kind, refused)
  OBVIOUS
<1> SUFFICES Good(r)
  BY <1>r
<1>0. /\ d \in DevState /\ KeptOK(d.k)
      /\ d = [s |-> d.s, x |-> d.x, k |-> d.k, got |-> d.got]
      /\ d.s \in DevType /\ d.x \in ExpType /\ d.k \in DiskType /\ d.got \in Seq(Nat)
  BY DEF Good, DevState
<1>1. d.s.poll \in BOOLEAN /\ kind \in Kinds
  BY <1>0 DEF DevType, Kinds
<1>2. /\ "IDLE" \in States /\ 0 \in Position /\ "INITIALIZED" \in Steps /\ <<>> \in Seq(Nat)
      /\ "none" \in Kinds /\ {"SUCCESS", "NO_ACCESS_RIGHT", "DEVICE_PROGRAMMING_FAILED"} \subseteq Errors
  BY BufSzAssumption DEF States, Position, Steps, Kinds, Errors
<1>3. ASSUME NEW t \in DevType, NEW x \in ExpType, t.stored = t.sum,
             t.kind \in {kind, "none"}, t.poll = d.s.poll,
             r = [s |-> t, x |-> x, k |-> d.k, got |-> d.got]
      PROVE  Good(r)
  <2>1. r \in DevState /\ r.s = t /\ r.k = d.k
    BY <1>0, <1>3 DEF DevState
  <2>3. StoredOK(t, r.x.err)
    BY <1>3 DEF StoredOK
  <2> QED  BY <1>0, <2>1, <2>3 DEF Good
<1>t. PICK t : t = [NoStore EXCEPT !.open = TRUE, !.kind = kind, !.poll = d.s.poll]
  OBVIOUS
<1>x. PICK x : x = [state |-> "IDLE", tail |-> 0, err |-> "SUCCESS"]
  OBVIOUS
<1>p. PICK o : o = [d EXCEPT !.x = x, !.s = t]
  OBVIOUS
<1>o. o = [s |-> t, x |-> x, k |-> d.k, got |-> d.got]
  BY <1>0, <1>p
<1>4. t \in DevType /\ t.stored = t.sum /\ t.kind = kind /\ t.poll = d.s.poll
  BY <1>1, <1>2, <1>t DEF NoStore, DevType
<1>5. x \in ExpType
  BY <1>2, <1>x DEF ExpType
<1>7. CASE ~refused
  <2>1. r = o
    BY <1>r, <1>t, <1>x, <1>p, <1>7 DEF DeviceOpen
  <2> QED  BY <1>3, <1>4, <1>5, <1>o, <2>1
<1>8. CASE refused /\ kind = "block"
  <2>1. r = [o EXCEPT !.s.kind = "none", !.x.err = "NO_ACCESS_RIGHT"]
    BY <1>r, <1>t, <1>x, <1>p, <1>8 DEF DeviceOpen
  <2>t. PICK t2 : t2 = [t EXCEPT !.kind = "none"]
    OBVIOUS
  <2>x. PICK x2 : x2 = [x EXCEPT !.err = "NO_ACCESS_RIGHT"]
    OBVIOUS
  <2>2. r = [s |-> t2, x |-> x2, k |-> d.k, got |-> d.got]
    BY <1>o, <2>1, <2>t, <2>x
  <2>3. t2 \in DevType /\ t2.stored = t2.sum /\ t2.kind = "none" /\ t2.poll = d.s.poll
    BY <1>2, <1>4, <2>t DEF DevType
  <2>4. x2 \in ExpType
    BY <1>2, <1>5, <2>x DEF ExpType
  <2> QED  BY <1>3, <2>2, <2>3, <2>4
<1>9. CASE refused /\ kind # "block"
  <2>t. PICK t2 : t2 = [NoStore EXCEPT !.poll = d.s.poll]
    OBVIOUS
  <2>x. PICK x2 : x2 = [x EXCEPT !.err = "DEVICE_PROGRAMMING_FAILED"]
    OBVIOUS
  <2>1. r = [o EXCEPT !.s = t2, !.x.err = "DEVICE_PROGRAMMING_FAILED"]
    BY <1>r, <1>t, <1>x, <1>p, <1>9, <2>t DEF DeviceOpen
  <2>2. r = [s |-> t2, x |-> x2, k |-> d.k, got |-> d.got]
    BY <1>o, <2>1, <2>x
  <2>3. t2 \in DevType /\ t2.stored = t2.sum /\ t2.kind = "none" /\ t2.poll = d.s.poll
    BY <1>1, <1>2, <2>t DEF DevType, NoStore
  <2>4. x2 \in ExpType
    BY <1>2, <1>5, <2>x DEF ExpType
  <2> QED  BY <1>3, <2>2, <2>3, <2>4
<1> QED  BY <1>7, <1>8, <1>9

\* A programming status that has come takes the error signal.
LEMMA PolledGood ==
    ASSUME NEW d, Good(d), NEW rval \in {"PENDING", "COMPLETED", "DEVICE_PROGRAMMING_FAILED"}
    PROVE  Good(Polled(d, rval)) /\ Polled(d, rval).s.open = d.s.open
<1>r. PICK r : r = Polled(d, rval)
  OBVIOUS
<1>0. /\ d \in DevState /\ StoredOK(d.s, d.x.err) /\ KeptOK(d.k)
      /\ d = [s |-> d.s, x |-> d.x, k |-> d.k, got |-> d.got]
      /\ d.s \in DevType /\ d.x \in ExpType /\ d.k \in DiskType /\ d.got \in Seq(Nat)
  BY DEF Good, DevState
<1>1. CASE ~(d.s.poll /\ rval # "PENDING")
  BY <1>1 DEF Polled
<1>2. CASE d.s.poll /\ rval # "PENDING"
  <2>t. PICK t : t = [d.s EXCEPT !.poll = FALSE]
    OBVIOUS
  <2>x. PICK x : x = [d.x EXCEPT !.err = rval]
    OBVIOUS
  <2>1. r = [d EXCEPT !.x.err = rval, !.s.poll = FALSE]
    BY <1>r, <1>2 DEF Polled
  <2>2. r = [s |-> t, x |-> x, k |-> d.k, got |-> d.got]
    BY <1>0, <2>1, <2>t, <2>x
  <2>3. /\ t \in DevType /\ t.open = d.s.open /\ t.kind = d.s.kind /\ t.stored = d.s.stored
        /\ t.sum = d.s.sum /\ ~t.poll
    BY <1>0, <2>t DEF DevType
  <2>4. rval \in Errors
    BY <1>2 DEF Errors
  <2>5. x \in ExpType
    BY <1>0, <2>x, <2>4 DEF ExpType
  <2>6. r \in DevState /\ r.s = t /\ r.x = x /\ r.k = d.k
    BY <1>0, <2>2, <2>3, <2>5 DEF DevState
  <2>7. x.err = rval
    BY <1>0, <2>x DEF ExpType
  <2>8. StoredOK(t, x.err)
    BY <1>2, <2>7 DEF StoredOK, WriteErrors
  <2> QED  BY <1>r, <1>0, <2>3, <2>6, <2>8 DEF Good
<1> QED  BY <1>1, <1>2

LEMMA DeviceStep ==
    ASSUME TodInv, Device
    PROVE  TodInv'
<1>1. PICK rval \in {"PENDING", "COMPLETED", "DEVICE_PROGRAMMING_FAILED"},
           refused \in BOOLEAN, late \in BOOLEAN, badWrite \in BOOLEAN :
         RunControlStream(refused, rval, late, badWrite)
  BY DEF Device
<1>2. /\ Types /\ SumsWhole /\ Storage
      /\ impSeen \in ImpCopy /\ env \in Environments /\ exp \in ExpType /\ dev \in DevType
      /\ disk \in DiskType /\ SumOK(impSeen.sig.cs) /\ opened \in Block
  BY DEF TodInv, Types, SumsWhole
<1>q. PICK q : q = [Device0 EXCEPT !.k.status = "NO_BLOCK_TRANSFERRED"]
  OBVIOUS
<1>p. PICK p : p = Polled(q, rval)
  OBVIOUS
<1>b. PICK b \in Block : b = OpenBlock(opened)
  BY <1>2 DEF OpenBlock, ImpCopy, ImpType
<1>c. PICK kind \in {"block", "program"} : kind = Kind(b)
  BY DEF Kind
<1>d. PICK d : d = IF ~dev.open /\ cmd = "RUNNING" /\ impSeen.conn
                   THEN DeviceOpen(p, kind, refused) ELSE p
  OBVIOUS
<1>r. PICK r : r = IF d.s.open THEN ToDevice(d, late, badWrite) ELSE d
  OBVIOUS
<1>3. /\ dev' = r.s /\ exp' = r.x /\ disk' = r.k /\ opened' = b
      /\ UNCHANGED <<ctl, imp, expLine, impLine, expSeen, impSeen, link, selected, env>>
  BY <1>1, <1>q, <1>p, <1>b, <1>c, <1>d, <1>r DEF RunControlStream
<1>4. Good(q)
  <2>k. PICK k : k = [disk EXCEPT !.status = "NO_BLOCK_TRANSFERRED"]
    OBVIOUS
  <2>1. q = [s |-> dev, x |-> exp, k |-> k, got |-> <<>>]
    BY <1>q, <2>k DEF Device0
  <2>2. k \in DiskType /\ k.end = disk.end /\ k.bytes = disk.bytes /\ k.err = disk.err
    BY <1>2, <2>k DEF DiskType
  <2>3. q \in DevState /\ q.s = dev /\ q.x = exp /\ q.k = k
    BY <1>2, <2>1, <2>2 DEF DevState
  <2> QED  BY <1>2, <2>2, <2>3 DEF Good, Storage, KeptOK
<1>5. Good(d)
  BY <1>2, <1>4, <1>p, <1>d, PolledGood, OpenGood
<1>6. Good(r)
  BY <1>2, <1>3, <1>5, <1>r, ToDeviceGood
<1>7. /\ dev' \in DevType /\ exp' \in ExpType /\ disk' \in DiskType
      /\ StoredOK(dev', exp'.err) /\ KeptOK(disk')
  BY <1>3, <1>6 DEF Good, DevState
<1>8. Types'
  BY <1>2, <1>3, <1>7 DEF Types
<1>9. SumsWhole'
  BY <1>2, <1>3 DEF SumsWhole, CtlOK, SumOK, Data, Contents, Content
<1>10. Storage'
  BY <1>3, <1>7 DEF Storage, StoredOK, KeptOK, Contents, Content
<1> QED  BY <1>8, <1>9, <1>10 DEF TodInv

----------------------------------------------------------------------------
(* The controller.                                                         *)

\* What the application has for a block is a sequence of bytes.
LEMMA ContentType ==
    ASSUME env \in Environments, selected \in Block
    PROVE  Data \in Seq(Nat) /\ Len(Data) \in Nat /\ Data \in Contents
<1>1. env.content \in [Block -> Seq(Nat)]
  BY StreamerTodAssumption
<1> QED  BY <1>1 DEF Data, Content, Contents

\* The first k bytes of what is left of a sequence of which p are sent.
LEMMA SendOn ==
    ASSUME NEW c \in Seq(Nat), NEW p \in Nat, NEW k \in Nat, p + k <= Len(c)
    PROVE  /\ SubSeq(c, p + 1, Len(c)) \in Seq(Nat) /\ Len(SubSeq(c, p + 1, Len(c))) = Len(c) - p
           /\ SubSeq(SubSeq(c, p + 1, Len(c)), 1, k) \in Seq(Nat)
           /\ SubSeq(c, 1, p) \o SubSeq(SubSeq(c, p + 1, Len(c)), 1, k) = SubSeq(c, 1, p + k)
<1>1. Len(c) \in Nat /\ \A i \in 1 .. Len(c) : c[i] \in Nat
  OBVIOUS
<1>q. PICK q : q = p + k
  OBVIOUS
<1>n. PICK n : n = Len(c)
  OBVIOUS
<1>r. PICK r : r = SubSeq(c, p + 1, n)
  OBVIOUS
<1>2. /\ q \in Int /\ p + 1 \in Int /\ n \in Int
      /\ \A i \in p + 1 .. n : c[i] \in Nat
      /\ \A i \in p + 1 .. q : c[i] \in Nat
  BY <1>1, <1>q, <1>n
<1>3. /\ r \in Seq(Nat) /\ Len(r) = (IF p + 1 <= n THEN n - (p + 1) + 1 ELSE 0)
      /\ \A i \in 1 .. n - (p + 1) + 1 : r[i] = c[p + 1 + i - 1]
  BY <1>2, <1>r, SubSeqProperties
<1>4. Len(r) = n - p
  BY <1>1, <1>n, <1>3
<1>5. 1 \in Int /\ k \in Int /\ \A i \in 1 .. k : r[i] \in Nat
  <2>1. ASSUME NEW i \in 1 .. k
        PROVE  r[i] \in Nat
    <3>1. i \in 1 .. Len(r)
      BY <1>1, <1>n, <1>4
    <3>2. r \in Seq(Nat)
      BY <1>3
    <3> QED  BY <3>1, <3>2
  <2> QED  BY <2>1
<1>u. PICK u : u = SubSeq(r, 1, k)
  OBVIOUS
<1>v. PICK v : v = SubSeq(c, p + 1, q)
  OBVIOUS
<1>6. /\ u \in Seq(Nat) /\ Len(u) = (IF 1 <= k THEN k - 1 + 1 ELSE 0)
      /\ \A i \in 1 .. k - 1 + 1 : u[i] = r[1 + i - 1]
  BY <1>5, <1>u, SubSeqProperties, SMTT(30)
<1>7. /\ v \in Seq(Nat) /\ Len(v) = (IF p + 1 <= q THEN q - (p + 1) + 1 ELSE 0)
      /\ \A i \in 1 .. q - (p + 1) + 1 : v[i] = c[p + 1 + i - 1]
  BY <1>2, <1>v, SubSeqProperties
<1>8. u = v
  <2>1. Len(u) = k /\ Len(v) = k
    BY <1>6, <1>7, <1>q
  <2>2. ASSUME NEW i \in 1 .. k
        PROVE  u[i] = v[i]
    <3>1. i \in Int /\ 1 <= i /\ i <= k /\ 1 + i - 1 = i /\ i \in 1 .. k - 1 + 1
          /\ i \in 1 .. n - (p + 1) + 1 /\ i \in 1 .. q - (p + 1) + 1
      BY <1>1, <1>q, <1>n
    <3>2. u[i] = r[i]
      BY <1>6, <3>1
    <3>3. r[i] = c[p + 1 + i - 1]
      BY <1>3, <3>1
    <3>4. v[i] = c[p + 1 + i - 1]
      BY <1>7, <3>1
    <3> QED  BY <3>2, <3>3, <3>4
  <2> QED  BY <1>6, <1>7, <2>1, <2>2, SeqEqual
<1>9. SubSeq(c, 1, p) \o v = SubSeq(c, 1, q)
  <2>1. 1 \in 1 .. Len(c) + 1 /\ p \in 1 - 1 .. Len(c) /\ q \in p .. Len(c)
    BY <1>1, <1>q
  <2> QED  BY <1>v, <2>1, ConcatAdjacentSubSeq
<1> QED  BY <1>q, <1>n, <1>r, <1>u, <1>3, <1>4, <1>6, <1>8, <1>9

CtlGood(c) == c \in CtlPair /\ CtlOK(c.s) /\ SumOK(c.x.cs)

\* The ways in which ioc_streamer_controller_write changes the step and the
\* command and nothing else.
CtlStep(c, t) == [c EXCEPT !.s.step = t]
CtlCommand(c, m, t) == [c EXCEPT !.x.cmd = m, !.s.step = t]
CtlSelect(c, b) == [c EXCEPT !.x.sel = b]

LEMMA CtlChanges ==
    ASSUME NEW c, CtlGood(c), NEW t \in Steps, NEW m \in States, NEW b \in Block
    PROVE  CtlGood(CtlStep(c, t)) /\ CtlGood(CtlCommand(c, m, t)) /\ CtlGood(CtlSelect(c, b))
<1>0. /\ c \in CtlPair /\ CtlOK(c.s) /\ SumOK(c.x.cs)
      /\ c = [s |-> c.s, x |-> c.x] /\ c.s \in CtlType /\ c.x \in ImpType
  BY DEF CtlGood, CtlPair
<1>s. PICK s : s = [c.s EXCEPT !.step = t]
  OBVIOUS
<1>x. PICK x : x = [c.x EXCEPT !.cmd = m]
  OBVIOUS
<1>1. s \in CtlType /\ s.pos = c.s.pos /\ s.sum = c.s.sum
  BY <1>0, <1>s DEF CtlType
<1>2. x \in ImpType /\ x.cs = c.x.cs
  BY <1>0, <1>x DEF ImpType
<1>3. CtlOK(s)
  BY <1>0, <1>1 DEF CtlOK
<1>4. ASSUME NEW r, r = CtlStep(c, t)
      PROVE  CtlGood(r)
  <2>1. r = [c EXCEPT !.s.step = t]
    BY <1>4 DEF CtlStep
  <2>2. r = [s |-> s, x |-> c.x]
    BY <1>0, <1>s, <2>1
  <2>3. r \in CtlPair /\ r.s = s /\ r.x = c.x
    BY <1>0, <1>1, <2>2 DEF CtlPair
  <2> QED  BY <1>0, <1>3, <2>3 DEF CtlGood
<1>5. ASSUME NEW r, r = CtlCommand(c, m, t)
      PROVE  CtlGood(r)
  <2>1. r = [c EXCEPT !.x.cmd = m, !.s.step = t]
    BY <1>5 DEF CtlCommand
  <2>2. r = [s |-> s, x |-> x]
    BY <1>0, <1>s, <1>x, <2>1
  <2>3. r \in CtlPair /\ r.s = s /\ r.x = x
    BY <1>1, <1>2, <2>2 DEF CtlPair
  <2> QED  BY <1>0, <1>2, <1>3, <2>3 DEF CtlGood
<1>6. ASSUME NEW r, r = CtlSelect(c, b)
      PROVE  CtlGood(r)
  <2>x. PICK y : y = [c.x EXCEPT !.sel = b]
    OBVIOUS
  <2>1. r = [c EXCEPT !.x.sel = b]
    BY <1>6 DEF CtlSelect
  <2>2. r = [s |-> c.s, x |-> y]
    BY <1>0, <2>x, <2>1
  <2>3. y \in ImpType /\ y.cs = c.x.cs
    BY <1>0, <2>x DEF ImpType
  <2>4. r \in CtlPair /\ r.s = c.s /\ r.x = y
    BY <1>0, <2>2, <2>3 DEF CtlPair
  <2> QED  BY <1>0, <2>3, <2>4 DEF CtlGood
<1> QED  BY <1>4, <1>5, <1>6

\* The checksum signal is set when nothing is left to send.
LEMMA WriteDataGood ==
    ASSUME env \in Environments, selected \in Block, expSeen \in ExpCopy, NEW c, CtlGood(c)
    PROVE  CtlGood(WriteData(c))
<1>r. PICK r : r = WriteData(c)
  OBVIOUS
<1> SUFFICES CtlGood(r)
  BY <1>r
<1>0. /\ c \in CtlPair /\ CtlOK(c.s) /\ SumOK(c.x.cs)
      /\ c = [s |-> c.s, x |-> c.x] /\ c.s \in CtlType /\ c.x \in ImpType
  BY DEF CtlGood, CtlPair
<1>1. /\ c.s.pos \in Nat /\ c.s.head \in Position /\ c.s.sum \in Seq(Nat)
      /\ c.x.head \in Position /\ c.x.buf \in [Position -> Nat]
  BY <1>0 DEF CtlType, ImpType
<1>2. expSeen.sig.tail \in Position
  BY DEF ExpCopy, ExpType
<1>3. /\ Data \in Seq(Nat) /\ Len(Data) \in Nat /\ Data \in Contents
      /\ c.s.pos <= Len(Data) /\ c.s.sum = SubSeq(Data, 1, c.s.pos)
  BY <1>0, ContentType DEF CtlOK
<1>t. PICK rest : rest = SubSeq(Data, c.s.pos + 1, Len(Data))
  OBVIOUS
<1>4. rest \in Seq(Nat) /\ Len(rest) = Len(Data) - c.s.pos
  <2>1. 0 \in Nat /\ c.s.pos + 0 <= Len(Data)
    BY <1>1, <1>3
  <2> QED  BY <1>1, <1>3, <1>t, <2>1, SendOn
<1>k. PICK k : k = WriteCount(c.s.head, expSeen.sig.tail, Len(rest))
  OBVIOUS
<1>5. k \in 0 .. Len(rest) /\ k \in Nat
  <2>1. Len(rest) \in Nat
    BY <1>4
  <2>2. k \in 0 .. Len(rest)
    BY <1>1, <1>2, <1>k, <2>1, WriteSome
  <2> QED  BY <2>1, <2>2
<1>6. CASE rest = <<>>
  <2>1. c.s.pos = Len(Data)
    <3>1. Len(rest) = 0
      BY <1>6
    <3>p. PICK q \in Nat : q = c.s.pos
      BY <1>1
    <3>n. PICK n \in Nat : n = Len(Data)
      BY <1>3
    <3>2. n - q = 0
      BY <1>4, <3>1, <3>p, <3>n
    <3>3. n = q
      BY <3>2
    <3> QED  BY <3>3, <3>p, <3>n
  <2>2. c.s.sum = Data
    BY <1>3, <2>1, SubSeqFull
  <2>3. r = [c EXCEPT !.x.cs = c.s.sum, !.x.cmd = "COMPLETED", !.s.step = "TRANSFER_DONE"]
    BY <1>r, <1>t, <1>6 DEF WriteData, Data
  <2>s. PICK s : s = [c.s EXCEPT !.step = "TRANSFER_DONE"]
    OBVIOUS
  <2>x. PICK x : x = [c.x EXCEPT !.cs = c.s.sum, !.cmd = "COMPLETED"]
    OBVIOUS
  <2>4. r = [s |-> s, x |-> x]
    BY <1>0, <2>3, <2>s, <2>x
  <2>5. "TRANSFER_DONE" \in Steps /\ "COMPLETED" \in States
    BY DEF Steps, States
  <2>6. s \in CtlType /\ s.pos = c.s.pos /\ s.sum = c.s.sum
    BY <1>0, <2>s, <2>5 DEF CtlType
  <2>7. x \in ImpType /\ x.cs = c.s.sum
    BY <1>0, <1>1, <2>x, <2>5 DEF ImpType
  <2>8. r \in CtlPair /\ r.s = s /\ r.x = x
    BY <2>4, <2>6, <2>7 DEF CtlPair
  <2> QED  BY <1>0, <1>3, <2>2, <2>6, <2>7, <2>8 DEF CtlGood, CtlOK, SumOK
<1>7. CASE rest # <<>>
  <2>h. PICK h : h = (c.s.head + k) % BufSz
    OBVIOUS
  <2>1. h \in Position
    <3>1. c.s.head + k \in Int
      BY <1>1, <1>5, BufSzAssumption DEF Position
    <3> QED  BY <2>h, <3>1, RingIndex
  <2>p. PICK part : part = SubSeq(rest, 1, k)
    OBVIOUS
  <2>n. PICK n : n = c.s.pos + k
    OBVIOUS
  <2>2. n \in Nat /\ n <= Len(Data)
    <3>q. PICK q \in Nat : q = c.s.pos
      BY <1>1
    <3>m. PICK m \in Nat : m = Len(Data)
      BY <1>3
    <3>1. k \in Nat /\ k <= m - q
      BY <1>4, <1>5, <3>q, <3>m
    <3>2. q + k \in Nat /\ q + k <= m
      BY <3>1
    <3> QED  BY <2>n, <3>q, <3>m, <3>2
  <2>3. part \in Seq(Nat) /\ c.s.sum \o part = SubSeq(Data, 1, n)
    <3>1. /\ SubSeq(SubSeq(Data, c.s.pos + 1, Len(Data)), 1, k) \in Seq(Nat)
          /\ SubSeq(Data, 1, c.s.pos) \o SubSeq(SubSeq(Data, c.s.pos + 1, Len(Data)), 1, k)
                = SubSeq(Data, 1, c.s.pos + k)
      BY <1>1, <1>3, <1>5, <2>n, <2>2, SendOn
    <3> QED  BY <1>3, <1>t, <2>p, <2>n, <3>1
  <2>b. PICK b : b = Stored(c.x.buf, c.s.head, part)
    OBVIOUS
  <2>4. b \in [Position -> Nat]
    BY <1>1, <2>b, <2>3, StoredType
  <2>u. PICK u : u = c.s.sum \o part
    OBVIOUS
  <2>5. u \in Seq(Nat)
    <3>1. c.s.sum \in Seq(Nat) /\ part \in Seq(Nat)
      BY <1>1, <2>3
    <3> QED  BY <2>u, <3>1, ConcatProperties
  <2>y. PICK xh : xh = IF k > 0 THEN h ELSE c.x.head
    OBVIOUS
  <2>6. xh \in Position
    BY <1>1, <2>1, <2>y
  <2>7. r = [c EXCEPT !.s.head = h, !.x.head = xh, !.x.buf = b, !.s.sum = u, !.s.pos = n]
    BY <1>r, <1>t, <1>k, <1>7, <2>h, <2>p, <2>n, <2>b, <2>u, <2>y DEF WriteData, Data
  <2>s. PICK s : s = [c.s EXCEPT !.head = h, !.sum = u, !.pos = n]
    OBVIOUS
  <2>x. PICK x : x = [c.x EXCEPT !.head = xh, !.buf = b]
    OBVIOUS
  <2>8. r = [s |-> s, x |-> x]
    BY <1>0, <2>7, <2>s, <2>x
  <2>9. s \in CtlType /\ s.pos = n /\ s.sum = u
    BY <1>0, <2>1, <2>2, <2>5, <2>s DEF CtlType
  <2>10. x \in ImpType /\ x.cs = c.x.cs
    BY <1>0, <2>4, <2>6, <2>x DEF ImpType
  <2>11. r \in CtlPair /\ r.s = s /\ r.x = x
    BY <2>8, <2>9, <2>10 DEF CtlPair
  <2>12. CtlOK(s)
    BY <2>2, <2>3, <2>u, <2>9 DEF CtlOK
  <2> QED  BY <1>0, <2>10, <2>11, <2>12 DEF CtlGood
<1> QED  BY <1>6, <1>7

LEMMA ControllerWriteGood ==
    ASSUME env \in Environments, selected \in Block, expSeen \in ExpCopy, NEW c0, CtlGood(c0),
           NEW interrupt \in BOOLEAN, NEW late \in BOOLEAN
    PROVE  CtlGood(ControllerWrite(c0, interrupt, late))
<1>r. PICK r : r = ControllerWrite(c0, interrupt, late)
  OBVIOUS
<1> SUFFICES CtlGood(r)
  BY <1>r
<1>c. PICK c : c = IF expSeen.conn \/ c0.s.step = "FAILED_AND_IDLE_SET" THEN c0
                   ELSE [c0 EXCEPT !.x.cmd = "IDLE", !.s.step = "FAILED_AND_IDLE_SET"]
  OBVIOUS
<1>1. {"FAILED", "FAILED2", "TRANSFER_DATA", "INITIALIZED2", "ALL_COMPLETED",
       "FAILED_AND_IDLE_SET"} \subseteq Steps
      /\ {"IDLE", "RUNNING", "INTERRUPT"} \subseteq States
  BY DEF Steps, States
<1>2. CtlGood(c)
  <2>1. c = c0 \/ c = CtlCommand(c0, "IDLE", "FAILED_AND_IDLE_SET")
    BY <1>c DEF CtlCommand
  <2> QED  BY <1>1, <2>1, CtlChanges
<1>e. PICK e : e = CtlSelect(c, selected)
  OBVIOUS
<1>5. CtlGood(e)
  BY <1>1, <1>2, <1>e, CtlChanges
<1>6. [c EXCEPT !.x.sel = selected, !.x.cmd = "RUNNING", !.s.step = "INITIALIZED2"]
         = CtlCommand(e, "RUNNING", "INITIALIZED2")
  BY <1>e DEF CtlSelect, CtlCommand
<1>3. CtlGood(TransferOut(c, interrupt))
  <2>1. CtlGood(CtlStep(c, "FAILED")) /\ CtlGood(CtlStep(c, "TRANSFER_DATA"))
    BY <1>1, <1>2, CtlChanges
  <2>f. PICK f : f = CtlStep(c, "TRANSFER_DATA")
    OBVIOUS
  <2>2. CtlGood(WriteData(f))
    BY <2>1, <2>f, WriteDataGood
  <2>3. TransferOut(c, interrupt) = CtlStep(c, "FAILED") \/ TransferOut(c, interrupt) = WriteData(f)
    BY <2>f DEF TransferOut, CtlStep
  <2> QED  BY <2>1, <2>2, <2>3
<1>4. \/ r = c \/ r = TransferOut(c, interrupt)
      \/ r = CtlStep(c, "FAILED")
      \/ r = CtlCommand(e, "RUNNING", "INITIALIZED2")
      \/ r = CtlCommand(c, "INTERRUPT", "FAILED2")
      \/ \E t \in {"ALL_COMPLETED", "FAILED_AND_IDLE_SET"} : r = CtlCommand(c, "IDLE", t)
  BY <1>r, <1>c, <1>6 DEF ControllerWrite, AwaitStart, CtlStep, CtlCommand
<1> QED  BY <1>1, <1>2, <1>3, <1>4, <1>5, CtlChanges

LEMMA WriteStep ==
    ASSUME TodInv, Controller
    PROVE  TodInv'
<1>1. PICK interrupt \in BOOLEAN, late \in BOOLEAN : Write(interrupt, late)
  BY DEF Controller
<1>2. /\ Types /\ SumsWhole /\ Storage
      /\ env \in Environments /\ expSeen \in ExpCopy /\ ctl \in CtlType /\ imp \in ImpType
      /\ selected \in Block
  BY DEF TodInv, Types
<1>q. PICK q : q = Controller0
  OBVIOUS
<1>3. CtlGood(q)
  <2>1. q = [s |-> ctl, x |-> imp]
    BY <1>q DEF Controller0
  <2>2. q \in CtlPair /\ q.s = ctl /\ q.x = imp
    BY <1>2, <2>1 DEF CtlPair
  <2> QED  BY <1>2, <2>2 DEF CtlGood, SumsWhole
<1>c. PICK c : c = ControllerWrite(q, interrupt, late)
  OBVIOUS
<1>r. PICK r : r = CASE Status(c.s.step) = "SUCCESS" -> "none"
                     [] Status(c.s.step) = "COMPLETED" -> "completed"
                     [] OTHER -> "failed"
  OBVIOUS
<1>4. /\ ctl' = [c.s EXCEPT !.result = r] /\ imp' = c.x
      /\ UNCHANGED <<dev, exp, disk, expLine, impLine, expSeen, impSeen, link, opened, selected, env>>
  BY <1>1, <1>q, <1>c, <1>r DEF Write
<1>5. CtlGood(c)
  BY <1>2, <1>3, <1>c, ControllerWriteGood
<1>6. c.s \in CtlType /\ c.x \in ImpType /\ CtlOK(c.s) /\ SumOK(c.x.cs)
  BY <1>5 DEF CtlGood, CtlPair
<1>7. r \in {"none", "completed", "failed"}
  BY <1>r
<1>8. ctl' \in CtlType /\ ctl'.pos = c.s.pos /\ ctl'.sum = c.s.sum
  BY <1>4, <1>6, <1>7 DEF CtlType
<1>d. Data' = Data /\ Contents' = Contents
  BY <1>4 DEF Data, Content, Contents
<1>9. Types'
  BY <1>2, <1>4, <1>6, <1>8 DEF Types
<1>10. SumsWhole'
  BY <1>2, <1>4, <1>6, <1>8, <1>d DEF SumsWhole, CtlOK, SumOK
<1>11. Storage'
  BY <1>2, <1>4, <1>d DEF Storage, StoredOK, KeptOK
<1> QED  BY <1>9, <1>10, <1>11 DEF TodInv

LEMMA IdleCommandType ==
    ASSUME imp \in ImpType
    PROVE  /\ IdleCommand \in ImpType /\ IdleCommand.cmd = "IDLE" /\ IdleCommand.head = 0
           /\ IdleCommand.cs = imp.cs /\ IdleCommand.sel = imp.sel /\ IdleCommand.buf = imp.buf
<1>1. 0 \in Position /\ "IDLE" \in States
  BY BufSzAssumption DEF Position, States
<1> QED  BY <1>1 DEF IdleCommand, ImpType

\* Opening clears the checksum signal, releasing leaves it.
LEMMA OpenCloseStep ==
    ASSUME TodInv, Open \/ CloseWrite
    PROVE  TodInv'
<1>1. Types /\ SumsWhole /\ Storage /\ env \in Environments /\ imp \in ImpType /\ SumOK(imp.cs)
      /\ selected \in Block
  BY DEF TodInv, Types, SumsWhole
<1>2. 0 \in Position /\ "INITIALIZED" \in Steps /\ "IDLE" \in States /\ <<>> \in Seq(Nat)
  BY BufSzAssumption DEF Position, Steps, States
<1>q. PICK q : q = IdleCommand
  OBVIOUS
<1>3. q \in ImpType /\ q.cs = imp.cs
  BY <1>1, <1>q, IdleCommandType
<1>p. PICK p : p = [q EXCEPT !.cs = NoSum]
  OBVIOUS
<1>4. p \in ImpType /\ p.cs = NoSum
  BY <1>3, <1>p DEF ImpType
<1>w. PICK w : w = [NoWriter EXCEPT !.open = TRUE]
  OBVIOUS
<1>5. NoWriter \in CtlType /\ NoWriter.pos = 0 /\ NoWriter.sum = <<>>
  BY <1>2 DEF NoWriter, CtlType
<1>6. w \in CtlType /\ w.pos = 0 /\ w.sum = <<>>
  BY <1>5, <1>w DEF CtlType
<1>b. PICK b \in Block :
         /\ (ctl' = w /\ imp' = p) \/ (ctl' = NoWriter /\ imp' = q)
         /\ selected' = b
         /\ UNCHANGED <<dev, exp, disk, expLine, impLine, expSeen, impSeen, link, opened, env>>
  <2>1. CASE Open
    <3>1. PICK b \in env.blocks : OpenWrite(b)
      BY <2>1 DEF Open
    <3>2. b \in Block
      BY <1>1, StreamerTodAssumption
    <3> QED  BY <1>q, <1>p, <1>w, <3>1, <3>2 DEF OpenWrite
  <2>2. CASE CloseWrite
    BY <1>1, <1>q, <2>2 DEF CloseWrite
  <2> QED  BY <2>1, <2>2
<1>7. (ctl' = w /\ imp' = p) \/ (ctl' = NoWriter /\ imp' = q)
  BY <1>b
<1>8. /\ UNCHANGED <<dev, exp, disk, expLine, impLine, expSeen, impSeen, link, opened, env>>
      /\ selected' \in Block /\ Contents' = Contents
  BY <1>b DEF Contents, Content
<1>9. ctl' \in CtlType /\ imp' \in ImpType /\ SumOK(imp'.cs) /\ ctl'.pos = 0 /\ ctl'.sum = <<>>
  BY <1>1, <1>3, <1>4, <1>5, <1>6, <1>7 DEF SumOK
<1>10. CtlOK(ctl)'
  <2>c. PICK content \in Seq(Nat) : content = Data'
    <3>1. env.content \in [Block -> Seq(Nat)]
      BY <1>1, StreamerTodAssumption
    <3> QED  BY <1>8, <3>1 DEF Data, Content
  <2>1. SubSeq(content, 1, 0) = <<>> /\ Len(content) \in Nat
    BY SubSeqEmpty
  <2> QED  BY <1>9, <2>c, <2>1 DEF CtlOK
<1>11. Types'
  BY <1>1, <1>8, <1>9 DEF Types
<1>12. SumsWhole'
  BY <1>1, <1>8, <1>9, <1>10 DEF SumsWhole, SumOK
<1>13. Storage'
  BY <1>1, <1>8 DEF Storage, StoredOK, KeptOK
<1> QED  BY <1>11, <1>12, <1>13 DEF TodInv

----------------------------------------------------------------------------
(* The memory blocks.                                                      *)

\* What the steps of the connection have in common.
LEMMA BlockStep ==
    ASSUME TodInv, UNCHANGED <<dev, exp, disk, ctl, imp, opened, selected, env>>,
           expLine' \in Seq(ExpType), impLine' \in Seq(ImpType),
           expSeen' \in ExpCopy, impSeen' \in ImpCopy,
           SumOK(impSeen'.sig.cs), \A i \in 1 .. Len(impLine') : SumOK(impLine'[i].cs)
    PROVE  TodInv'
<1>1. Types'
  BY DEF TodInv, Types
<1>2. SumsWhole'
  BY DEF TodInv, SumsWhole, CtlOK, SumOK, Data, Content, Contents
<1>3. Storage'
  BY DEF TodInv, Storage, StoredOK, KeptOK, Content, Contents
<1> QED  BY <1>1, <1>2, <1>3 DEF TodInv

LEMMA BlocksStep ==
    ASSUME TodInv, Blocks
    PROVE  TodInv'
<1>1. Types /\ SumsWhole
  BY DEF TodInv
<1>2. CASE SendImp
  <2>0. imp \in ImpType /\ impLine \in Seq(ImpType) /\ impLine' = Append(impLine, imp)
        /\ UNCHANGED <<dev, exp, disk, ctl, imp, expLine, impSeen, expSeen, opened, selected, env>>
    BY <1>1, <1>2 DEF SendImp, Types
  <2>1. impLine' \in Seq(ImpType) /\ Len(impLine') = Len(impLine) + 1
        /\ \A i \in 1 .. Len(impLine) + 1 :
              impLine'[i] = IF i = Len(impLine) + 1 THEN imp ELSE impLine[i]
    BY <2>0
  <2>2. \A i \in 1 .. Len(impLine') : SumOK(impLine'[i].cs)
    BY <1>1, <2>0, <2>1 DEF SumsWhole
  <2> QED  BY <1>1, <2>0, <2>1, <2>2, BlockStep DEF Types, SumsWhole
<1>3. CASE SendExp
  <2>1. expLine' \in Seq(ExpType) /\ UNCHANGED <<dev, exp, disk, ctl, imp, impLine, impSeen, expSeen, opened, selected, env>>
    BY <1>1, <1>3 DEF SendExp, Types
  <2> QED  BY <1>1, <2>1, BlockStep DEF Types, SumsWhole
<1>4. CASE ReceiveImp
  <2>0. impLine \in Seq(ImpType) /\ impLine # <<>> /\ impLine' = Tail(impLine)
        /\ impSeen' = [sig |-> Head(impLine), conn |-> TRUE]
        /\ UNCHANGED <<dev, exp, disk, ctl, imp, expLine, expSeen, opened, selected, env>>
    BY <1>1, <1>4 DEF ReceiveImp, Types
  <2>1. impLine' \in Seq(ImpType) /\ Len(impLine') = Len(impLine) - 1 /\ Len(impLine) \in Nat
        /\ (\A i \in 1 .. Len(impLine) - 1 : impLine'[i] = impLine[i + 1])
        /\ Head(impLine) = impLine[1] /\ 1 \in 1 .. Len(impLine) /\ Head(impLine) \in ImpType
    BY <2>0
  <2>2. impSeen' \in ImpCopy /\ impSeen'.sig = impLine[1]
    BY <2>0, <2>1 DEF ImpCopy
  <2>3. \A i \in 1 .. Len(impLine') : SumOK(impLine'[i].cs)
    BY <1>1, <2>1 DEF SumsWhole
  <2> QED  BY <1>1, <2>0, <2>1, <2>2, <2>3, BlockStep DEF Types, SumsWhole
<1>5. CASE ReceiveExp
  <2>0. expLine \in Seq(ExpType) /\ expLine # <<>> /\ expLine' = Tail(expLine)
        /\ expSeen' = [sig |-> Head(expLine), conn |-> TRUE]
        /\ UNCHANGED <<dev, exp, disk, ctl, imp, impLine, impSeen, opened, selected, env>>
    BY <1>1, <1>5 DEF ReceiveExp, Types
  <2>1. expLine' \in Seq(ExpType) /\ expSeen' \in ExpCopy
    BY <2>0 DEF ExpCopy
  <2> QED  BY <1>1, <2>0, <2>1, BlockStep DEF Types, SumsWhole
<1> QED  BY <1>2, <1>3, <1>4, <1>5 DEF Blocks

LEMMA LinkStep ==
    ASSUME TodInv, Break \/ Notice \/ Relink
    PROVE  TodInv'
<1>1. Types /\ SumsWhole
  BY DEF TodInv
<1>2. CASE Break
  <2>1. impLine' = <<>> /\ expLine' = <<>> /\ UNCHANGED <<dev, exp, disk, ctl, imp, impSeen, expSeen, opened, selected, env>>
    BY <1>2 DEF Break
  <2> QED  BY <1>1, <2>1, BlockStep DEF Types, SumsWhole
<1>3. CASE Notice
  <2>1. UNCHANGED <<dev, exp, disk, ctl, imp, impLine, expLine, opened, selected, env>>
        /\ (impSeen' = impSeen \/ impSeen' = [impSeen EXCEPT !.conn = FALSE])
        /\ (expSeen' = expSeen \/ expSeen' = [expSeen EXCEPT !.conn = FALSE])
    BY <1>3 DEF Notice
  <2>2. impSeen' \in ImpCopy /\ impSeen'.sig = impSeen.sig
    BY <1>1, <2>1 DEF Types, ImpCopy
  <2>3. expSeen' \in ExpCopy
    BY <1>1, <2>1 DEF Types, ExpCopy
  <2> QED  BY <1>1, <2>1, <2>2, <2>3, BlockStep DEF Types, SumsWhole
<1>4. CASE Relink
  <2>1. impLine' = <<imp>> /\ expLine' = <<exp>> /\ UNCHANGED <<dev, exp, disk, ctl, imp, impSeen, expSeen, opened, selected, env>>
    BY <1>4 DEF Relink
  <2>2. impLine' \in Seq(ImpType) /\ expLine' \in Seq(ExpType)
    BY <1>1, <2>1 DEF Types
  <2>3. Len(impLine') = 1 /\ impLine'[1] = imp
    BY <2>1
  <2>4. \A i \in 1 .. Len(impLine') : SumOK(impLine'[i].cs)
    BY <1>1, <2>3 DEF SumsWhole
  <2> QED  BY <1>1, <2>1, <2>2, <2>4, BlockStep DEF Types, SumsWhole
<1> QED  BY <1>2, <1>3, <1>4

----------------------------------------------------------------------------
LEMMA InitTod == Init => TodInv
<1> SUFFICES ASSUME Init PROVE TodInv
  OBVIOUS
<1> USE DEF Init
<1>1. /\ 0 \in Position /\ "INITIALIZED" \in Steps /\ "IDLE" \in States /\ "SUCCESS" \in Errors
      /\ "none" \in Kinds /\ <<>> \in Seq(Nat)
  BY BufSzAssumption DEF Position, Steps, States, Errors, Kinds
<1>0. 0 \in Block
  BY StreamerTodAssumption
<1>2. env \in Environments /\ selected \in Block /\ Len(Data) \in Nat /\ SubSeq(Data, 1, 0) = <<>>
  BY <1>0, ContentType, SubSeqEmpty
<1>3. dev \in DevType /\ ~dev.open
  BY <1>1 DEF NoStore, DevType
<1>4. exp \in ExpType
  BY <1>1 DEF ExpType
<1>5. disk \in DiskType /\ disk.end = "none"
  BY <1>1 DEF DiskType
<1>6. ctl \in CtlType /\ ctl.pos = 0 /\ ctl.sum = <<>>
  BY <1>1 DEF NoWriter, CtlType
<1>7. imp \in ImpType /\ imp.cs = NoSum
  BY <1>0, <1>1 DEF ImpType
<1>8. expSeen \in ExpCopy /\ impSeen \in ImpCopy /\ impSeen.sig = imp
  BY <1>4, <1>7 DEF ExpCopy, ImpCopy
<1>9. expLine = <<>> /\ impLine = <<>>
  OBVIOUS
<1>10. Types
  BY <1>0, <1>2, <1>3, <1>4, <1>5, <1>6, <1>7, <1>8, <1>9 DEF Types
<1>11. SumsWhole
  BY <1>2, <1>6, <1>7, <1>8, <1>9 DEF SumsWhole, CtlOK, SumOK
<1>12. Storage
  BY <1>3, <1>5 DEF Storage, StoredOK, KeptOK
<1> QED  BY <1>10, <1>11, <1>12 DEF TodInv

\* The invariant is kept by every step of the device, of the controller and of
\* the connection between them.
THEOREM TodInvariance == Spec => []TodInv
<1>1. TodInv /\ [Next]_vars => TodInv'
  <2> SUFFICES ASSUME TodInv, [Next]_vars
               PROVE  TodInv'
    OBVIOUS
  <2>1. CASE UNCHANGED vars
    <3>1. Types'
      BY <2>1 DEF vars, TodInv, Types
    <3>2. SumsWhole'
      BY <2>1 DEF vars, TodInv, SumsWhole, CtlOK, SumOK, Data, Content, Contents
    <3>3. Storage'
      BY <2>1 DEF vars, TodInv, Storage, StoredOK, KeptOK, Content, Contents
    <3> QED  BY <3>1, <3>2, <3>3 DEF TodInv
  <2> QED  BY <2>1, DeviceStep, WriteStep, OpenCloseStep, BlocksStep, LinkStep DEF Next
<1> QED  BY <1>1, InitTod, PTL DEF Spec

\* What the device's storage is told to keep (os_persistent_close,
\* osal_finish_device_programming) is what the controller sent of one block,
\* whole, or a write has failed and its error is shown or replaced: whatever
\* timers run out, connections break and snapshots of earlier transfers are
\* left over.  (Which block it is stored as, CompletedTransferKept says, for
\* transfers that nothing disturbs.)
THEOREM KeptTransferWhole == Spec => []KeptIsWhole
<1>1. TodInv => KeptIsWhole
  BY DEF TodInv, Storage, KeptOK, KeptIsWhole, Contents, WriteErrors
<1> QED  BY <1>1, TodInvariance, PTL

----------------------------------------------------------------------------
(* Undisturbed transfers: the ring without remainders.                     *)

\* Bytes from the tail to the head, and place k after a position.
Dist(head, tail) == IF head >= tail THEN head - tail ELSE head - tail + BufSz
Onward(pos, k) == IF pos + k >= BufSz THEN pos + k - BufSz ELSE pos + k

\* A remainder of less than two turns.
LEMMA OneTurn ==
    ASSUME NEW i \in Int, 0 - BufSz <= i, i < BufSz + BufSz
    PROVE  i % BufSz = IF i < 0 THEN i + BufSz ELSE IF i >= BufSz THEN i - BufSz ELSE i
<1>1. BufSz \in Nat /\ BufSz > 1
  BY BufSzAssumption
<1>2. i < 0 => i % BufSz = i + BufSz
  BY <1>1, SMTT(20)
<1>3. i >= BufSz => i % BufSz = i - BufSz
  BY <1>1, SMTT(20)
<1>4. i >= 0 /\ i < BufSz => i % BufSz = i
  BY <1>1, SMTT(20)
<1> QED  BY <1>1, <1>2, <1>3, <1>4

LEMMA OnwardMod ==
    ASSUME NEW p \in Position, NEW k \in 0 .. BufSz
    PROVE  (p + k) % BufSz = Onward(p, k) /\ Onward(p, k) \in Position
<1>1. p + k \in Int /\ 0 - BufSz <= p + k /\ p + k < BufSz + BufSz /\ p \in Int /\ k \in Int /\ BufSz \in Nat
      /\ p >= 0 /\ p < BufSz /\ k >= 0 /\ k <= BufSz
  BY BufSzAssumption DEF Position
<1>2. (p + k) % BufSz = Onward(p, k)
  BY <1>1, OneTurn DEF Onward
<1> QED  BY <1>1, <1>2 DEF Onward, Position

LEMMA DistMod ==
    ASSUME NEW head \in Position, NEW tail \in Position
    PROVE  (head - tail) % BufSz = Dist(head, tail) /\ Dist(head, tail) \in Position
<1>1. head \in Int /\ tail \in Int /\ BufSz \in Nat /\ head >= 0 /\ head < BufSz /\ tail >= 0 /\ tail < BufSz
      /\ head - tail \in Int /\ 0 - BufSz <= head - tail /\ head - tail < BufSz + BufSz
  BY BufSzAssumption DEF Position
<1>2. (head - tail) % BufSz = Dist(head, tail)
  BY <1>1, OneTurn DEF Dist
<1> QED  BY <1>1, <1>2 DEF Dist, Position

LEMMA HeadMoves ==
    ASSUME NEW head \in Position, NEW tail \in Position, NEW m \in Nat,
           m + Dist(head, tail) < BufSz
    PROVE  Onward(head, m) \in Position /\ Dist(Onward(head, m), tail) = Dist(head, tail) + m
BY BufSzAssumption DEF Onward, Dist, Position

LEMMA TailMoves ==
    ASSUME NEW head \in Position, NEW tail \in Position, NEW m \in 0 .. Dist(head, tail)
    PROVE  Onward(tail, m) \in Position /\ Dist(head, Onward(tail, m)) = Dist(head, tail) - m
BY BufSzAssumption DEF Onward, Dist, Position

LEMMA OnwardOnward ==
    ASSUME NEW p \in Position, NEW j \in Nat, NEW k \in Nat, j + k < BufSz
    PROVE  Onward(Onward(p, j), k) = Onward(p, j + k) /\ Onward(p, j) \in Position
BY BufSzAssumption DEF Onward, Position

\* A place is at its distance; the places from the tail are those from the head.
LEMMA FromTail ==
    ASSUME NEW head \in Position, NEW tail \in Position, NEW k \in Position
    PROVE  Onward(tail, k) =
              Onward(head, IF k < Dist(head, tail) THEN BufSz - (Dist(head, tail) - k)
                                                   ELSE k - Dist(head, tail))
BY BufSzAssumption DEF Onward, Dist, Position

LEMMA StoredOnward ==
    ASSUME NEW buf, NEW head \in Position, NEW bytes \in Seq(Nat), NEW k \in Position
    PROVE  Stored(buf, head, bytes)[Onward(head, k)] =
              IF k < Len(bytes) THEN bytes[k + 1] ELSE buf[Onward(head, k)]
<1>i. PICK i : i = Onward(head, k)
  OBVIOUS
<1>1. i \in Position /\ head \in Int /\ i \in Int
  BY <1>i, BufSzAssumption DEF Onward, Position
<1>2. (i - head) % BufSz = k
  <2>1. Dist(i, head) = k
    BY <1>i, BufSzAssumption DEF Onward, Dist, Position
  <2> QED  BY <1>1, <2>1, DistMod
<1>3. Stored(buf, head, bytes)[i] = IF k < Len(bytes) THEN bytes[k + 1] ELSE buf[i]
  BY <1>1, <1>2 DEF Stored
<1> QED  BY <1>i, <1>3

LEMMA FetchedOnward ==
    ASSUME NEW buf \in [Position -> Nat], NEW tail \in Position, NEW n \in 0 .. BufSz
    PROVE  /\ Fetched(buf, tail, n) \in Seq(Nat) /\ Len(Fetched(buf, tail, n)) = n
           /\ \A k \in 1 .. n : Fetched(buf, tail, n)[k] = buf[Onward(tail, k - 1)]
<1>0. n \in Nat
  OBVIOUS
<1>1. Fetched(buf, tail, n) \in Seq(Nat)
  BY <1>0, FetchedType
<1>2. ASSUME NEW k \in 1 .. n
      PROVE  Fetched(buf, tail, n)[k] = buf[Onward(tail, k - 1)]
  <2>j. PICK j : j = k - 1
    OBVIOUS
  <2>1. j \in 0 .. BufSz /\ tail + k - 1 = tail + j
    BY <2>j, BufSzAssumption DEF Position
  <2>2. (tail + j) % BufSz = Onward(tail, j)
    BY <2>1, OnwardMod
  <2>3. Fetched(buf, tail, n)[k] = buf[(tail + k - 1) % BufSz]
    BY DEF Fetched
  <2> QED  BY <2>j, <2>1, <2>2, <2>3
<1>3. Len(Fetched(buf, tail, n)) = n
  <2>f. PICK f : f = Fetched(buf, tail, n)
    OBVIOUS
  <2>1. DOMAIN f = 1 .. n
    BY <2>f DEF Fetched
  <2>2. f \in Seq(Nat)
    BY <1>1, <2>f
  <2>3. Len(f) \in Nat /\ DOMAIN f = 1 .. Len(f)
    BY <2>2
  <2>4. Len(f) = n
    BY <1>0, <2>1, <2>3
  <2> QED  BY <2>f, <2>4
<1> QED  BY <1>1, <1>2, <1>3

LEMMA WholeSubSeq ==
    ASSUME NEW b \in Seq(Nat)
    PROVE  SubSeq(b, 1, Len(b)) = b
OBVIOUS

LEMMA SubSeqAt ==
    ASSUME NEW c \in Seq(Nat), NEW p \in Nat, NEW k \in Nat, p + k <= Len(c), NEW i \in Nat, i < k
    PROVE  SubSeq(c, p + 1, p + k)[i + 1] = c[p + i + 1]
<1>1. Len(c) \in Nat /\ \A j \in 1 .. Len(c) : c[j] \in Nat
  OBVIOUS
<1>q. PICK q \in Nat : q = p + k
  OBVIOUS
<1>2. i + 1 \in 1 .. q - (p + 1) + 1
  BY <1>q
<1>3. p + 1 + (i + 1) - 1 = p + i + 1
  OBVIOUS
<1>4. SubSeq(c, p + 1, q)[i + 1] = c[p + 1 + (i + 1) - 1]
  BY <1>1, <1>q, <1>2
<1> QED  BY <1>q, <1>3, <1>4

\* A read with a buffer for all takes all.
LEMMA ReadAll ==
    ASSUME NEW head \in Position, NEW tail \in Position
    PROVE  ReadCount(head, tail, BufSz - 1) = Dist(head, tail)
BY BufSzAssumption DEF Position, ReadCount, ReadToEnd, Wrapped, LesserOf, Dist

\* A write leaves one byte of the ring unused.
LEMMA WriteRoom ==
    ASSUME NEW head \in Position, NEW tail \in Position, NEW n \in Nat
    PROVE  /\ WriteCount(head, tail, n) \in 0 .. n
           /\ WriteCount(head, tail, n) + Dist(head, tail) < BufSz
BY BufSzAssumption DEF Position, WriteCount, WriteToEnd, Wrapped, LesserOf, Dist

----------------------------------------------------------------------------
(* Undisturbed transfers: the device's calls.                              *)

\* A device that has stored all it has read, and the bytes it finds.
Storing(d) ==
    /\ d \in DevState /\ d.s.open /\ d.s.kind # "none" /\ d.s.stored = d.s.sum
    /\ d.x.tail = d.s.tail
Bytes(d) == Fetched(impSeen.sig.buf, d.s.tail, Dist(impSeen.sig.head, d.s.tail))

\* r is d, which reads, with the bytes it finds.
HasAll(d, r) ==
    /\ HasRead(d, r) /\ r.got = Bytes(d)
    /\ r.s.tail = impSeen.sig.head /\ r.x.tail = impSeen.sig.head /\ r.x.state = "RUNNING"
    /\ r.s.step = IF cmd = "RUNNING" THEN "TRANSFER_DATA" ELSE "TRANSFER_DONE"

LEMMA CleanReadData ==
    ASSUME impSeen \in ImpCopy, cmd \in Going, NEW d \in DevState, d.x.tail = d.s.tail,
           d.x.state = "RUNNING", d.s.step = "TRANSFER_DATA"
    PROVE  HasAll(d, ReadData(d, FALSE))
<1>r. PICK r : r = ReadData(d, FALSE)
  OBVIOUS
<1>0. /\ d = [s |-> d.s, x |-> d.x, k |-> d.k, got |-> d.got]
      /\ d.s \in DevType /\ d.x \in ExpType /\ d.k \in DiskType /\ d.got \in Seq(Nat)
  BY DEF DevState
<1>1. d.s.tail \in Position /\ d.s.sum \in Seq(Nat)
  BY <1>0 DEF DevType
<1>2. impSeen.sig.head \in Position /\ impSeen.sig.buf \in [Position -> Nat]
  BY DEF ImpCopy, ImpType
<1>k. PICK k : k = ReadCount(impSeen.sig.head, d.s.tail, BufSz - 1)
  OBVIOUS
<1>3. k = Dist(impSeen.sig.head, d.s.tail) /\ k \in Position
  BY <1>1, <1>2, <1>k, ReadAll, DistMod
<1>t. PICK t : t = (d.s.tail + k) % BufSz
  OBVIOUS
<1>4. t = impSeen.sig.head
  BY <1>1, <1>2, <1>k, <1>t, ReadEmpties
<1>b. PICK bytes : bytes = Fetched(impSeen.sig.buf, d.s.tail, k)
  OBVIOUS
<1>x. PICK xt : xt = IF k > 0 THEN t ELSE d.x.tail
  OBVIOUS
<1>5. xt = impSeen.sig.head
  <2>1. k = 0 => d.s.tail = impSeen.sig.head
    BY <1>1, <1>2, <1>3, BufSzAssumption DEF Dist, Position
  <2>2. k > 0 \/ k = 0
    BY <1>3 DEF Position
  <2> QED  BY <1>4, <1>x, <2>1, <2>2
<1>u. PICK u : u = d.s.sum \o bytes
  OBVIOUS
<1>e. PICK e : e = [d EXCEPT !.got = bytes, !.s.tail = t, !.x.tail = xt, !.s.sum = u]
  OBVIOUS
<1>s. PICK q : q = IF cmd = "RUNNING" THEN "TRANSFER_DATA" ELSE "TRANSFER_DONE"
  OBVIOUS
<1>6. r = IF cmd = "RUNNING" THEN e ELSE [e EXCEPT !.s.step = "TRANSFER_DONE"]
  BY <1>r, <1>k, <1>t, <1>b, <1>x, <1>u, <1>e DEF ReadData
<1>y. PICK y : y = [d.s EXCEPT !.tail = t, !.sum = u]
  OBVIOUS
<1>z. PICK z : z = [d.x EXCEPT !.tail = xt]
  OBVIOUS
<1>7. e = [s |-> y, x |-> z, k |-> d.k, got |-> bytes]
  BY <1>0, <1>e, <1>y, <1>z
<1>8. z.tail = impSeen.sig.head /\ z.state = "RUNNING"
  BY <1>0, <1>5, <1>z DEF ExpType
<1>9. y.tail = impSeen.sig.head /\ y.step = "TRANSFER_DATA"
  BY <1>0, <1>4, <1>y DEF DevType
<1>10. r.got = bytes /\ r.x = z /\ r.s.tail = impSeen.sig.head /\ r.s.step = q
  <2>1. CASE cmd = "RUNNING"
    BY <1>6, <1>7, <1>9, <1>s, <2>1
  <2>2. CASE cmd # "RUNNING"
    <3>w. PICK w : w = [y EXCEPT !.step = "TRANSFER_DONE"]
      OBVIOUS
    <3>1. r = [s |-> w, x |-> z, k |-> d.k, got |-> bytes]
      BY <1>6, <1>7, <2>2, <3>w
    <3>2. w = [d.s EXCEPT !.tail = t, !.sum = u, !.step = "TRANSFER_DONE"]
      BY <1>0, <1>y, <3>w DEF DevType
    <3>3. w.tail = impSeen.sig.head /\ w.step = "TRANSFER_DONE"
      BY <1>0, <1>4, <3>2 DEF DevType
    <3> QED  BY <1>s, <2>2, <3>1, <3>3
  <2> QED  BY <2>1, <2>2
<1>11. HasRead(d, r)
  BY <1>r, ReadDataFacts
<1> QED  BY <1>r, <1>3, <1>b, <1>s, <1>8, <1>10, <1>11 DEF HasAll, Bytes

\* A read in the data phase, or one that begins it.
LEMMA CleanRead ==
    ASSUME impSeen \in ImpCopy, impSeen.conn, cmd \in Going, NEW d \in DevState, d.x.tail = d.s.tail,
           d.s.step = "INITIALIZED" \/ (d.s.step = "TRANSFER_DATA" /\ d.x.state = "RUNNING")
    PROVE  HasAll(d, DeviceRead(d, FALSE, FALSE))
<1>r. PICK r : r = DeviceRead(d, FALSE, FALSE)
  OBVIOUS
<1>0. /\ d = [s |-> d.s, x |-> d.x, k |-> d.k, got |-> d.got]
      /\ d.s \in DevType /\ d.x \in ExpType /\ d.k \in DiskType /\ d.got \in Seq(Nat)
  BY DEF DevState
<1>1. "TRANSFER_DATA" \in Steps /\ "RUNNING" \in States
  BY DEF Steps, States
<1>s. PICK s : s = [d.s EXCEPT !.step = "TRANSFER_DATA"]
  OBVIOUS
<1>x. PICK x : x = [d.x EXCEPT !.state = "RUNNING"]
  OBVIOUS
<1>f. PICK f : f = [s |-> s, x |-> x, k |-> d.k, got |-> <<>>]
  OBVIOUS
<1>2. /\ s \in DevType /\ s.step = "TRANSFER_DATA" /\ s.open = d.s.open /\ s.kind = d.s.kind
      /\ s.stored = d.s.stored /\ s.poll = d.s.poll /\ s.sum = d.s.sum /\ s.tail = d.s.tail
  BY <1>0, <1>1, <1>s DEF DevType
<1>3. x \in ExpType /\ x.state = "RUNNING" /\ x.tail = d.x.tail /\ x.err = d.x.err
  BY <1>0, <1>1, <1>x DEF ExpType
<1>4. f \in DevState /\ f.s = s /\ f.x = x /\ f.k = d.k
  BY <1>0, <1>2, <1>3, <1>f DEF DevState
<1>e. PICK e : e = [s |-> d.s, x |-> d.x, k |-> d.k, got |-> <<>>]
  OBVIOUS
<1>5. r = StepOfRead(e, FALSE, FALSE)
  <2>1. e = [d EXCEPT !.got = <<>>]
    BY <1>0, <1>e
  <2> QED  BY <1>r, <2>1 DEF DeviceRead
<1>6. r = TransferData(f, FALSE, FALSE)
  <2>1. CASE d.s.step = "INITIALIZED"
    <3>g. PICK g : g = [e EXCEPT !.x.state = "RUNNING", !.s.step = "TRANSFER_DATA"]
      OBVIOUS
    <3>0. e.s = d.s /\ e.x = d.x /\ e.k = d.k /\ e.got = <<>> /\ e = [s |-> e.s, x |-> e.x, k |-> e.k, got |-> e.got]
      BY <1>e
    <3>a. g = [s |-> [e.s EXCEPT !.step = "TRANSFER_DATA"], x |-> [e.x EXCEPT !.state = "RUNNING"],
               k |-> e.k, got |-> e.got]
      BY <3>0, <3>g
    <3>1. g = f
      BY <1>s, <1>x, <1>f, <3>0, <3>a
    <3>2. e.s.step = "INITIALIZED"
      BY <1>e, <2>1
    <3> QED  BY <1>5, <3>g, <3>1, <3>2 DEF StepOfRead
  <2>2. CASE d.s.step = "TRANSFER_DATA" /\ d.x.state = "RUNNING"
    <3>1. s = d.s
      BY <1>0, <1>s, <2>2 DEF DevType
    <3>2. x = d.x
      BY <1>0, <1>x, <2>2 DEF ExpType
    <3>3. e = f /\ e.s.step = "TRANSFER_DATA"
      BY <1>e, <1>f, <2>2, <3>1, <3>2
    <3> QED  BY <1>5, <3>3 DEF StepOfRead
  <2> QED  BY <2>1, <2>2
<1>7. r = ReadData(f, FALSE)
  BY <1>6 DEF TransferData
<1>8. HasAll(f, r)
  BY <1>2, <1>3, <1>4, <1>7, CleanReadData
<1>9. HasAll(d, r)
  BY <1>2, <1>3, <1>4, <1>8 DEF HasAll, HasRead, Bytes
<1> QED  BY <1>r, <1>9

\* After the last byte the device goes idle.
LEMMA DoneRead ==
    ASSUME impSeen \in ImpCopy, impSeen.conn, NEW d \in DevState, d.s.step = "TRANSFER_DONE"
    PROVE  LET r == DeviceRead(d, FALSE, FALSE)
           IN  HasRead(d, r) /\ r.got = <<>> /\ r.s.step = "ALL_COMPLETED"
<1>r. PICK r : r = DeviceRead(d, FALSE, FALSE)
  OBVIOUS
<1>0. /\ d = [s |-> d.s, x |-> d.x, k |-> d.k, got |-> d.got]
      /\ d.s \in DevType /\ d.x \in ExpType /\ d.k \in DiskType /\ d.got \in Seq(Nat)
  BY DEF DevState
<1>e. PICK e : e = [s |-> d.s, x |-> d.x, k |-> d.k, got |-> <<>>]
  OBVIOUS
<1>1. r = StepOfRead(e, FALSE, FALSE)
  <2>1. e = [d EXCEPT !.got = <<>>]
    BY <1>0, <1>e
  <2> QED  BY <1>r, <2>1 DEF DeviceRead
<1>2. e.s.step = "TRANSFER_DONE"
  BY <1>e
<1>3. r = [e EXCEPT !.x.state = "IDLE", !.s.step = "ALL_COMPLETED"]
  BY <1>1, <1>2 DEF StepOfRead
<1>4. r.got = <<>> /\ r.s = [d.s EXCEPT !.step = "ALL_COMPLETED"]
  BY <1>e, <1>3
<1>5. r.s.step = "ALL_COMPLETED"
  BY <1>0, <1>4 DEF DevType
<1>6. HasRead(d, r)
  BY <1>r, DeviceReadFacts
<1> QED  BY <1>r, <1>4, <1>5, <1>6

\* What has been read is stored.
LEMMA CleanStore ==
    ASSUME NEW d, Storing(d), NEW a, HasRead(d, a)
    PROVE  LET b == Store(a, FALSE)
           IN  /\ b \in DevState /\ b.s.open /\ b.s.kind # "none" /\ b.s.stored = a.s.sum /\ b.s.sum = a.s.sum
               /\ b.s.tail = a.s.tail /\ b.s.step = a.s.step /\ b.x = a.x
<1>b. PICK b : b = Store(a, FALSE)
  OBVIOUS
<1>0. /\ a = [s |-> a.s, x |-> a.x, k |-> a.k, got |-> a.got]
      /\ a.s \in DevType /\ a.x \in ExpType /\ a.k \in DiskType /\ a.got \in Seq(Nat)
  BY DEF DevState, HasRead
<1>1. /\ a \in DevState /\ a.s.open /\ a.s.kind # "none" /\ a.s.stored = d.s.sum
      /\ a.s.sum = d.s.sum \o a.got /\ d.s.sum \in Seq(Nat)
  BY DEF HasRead, Storing, DevState, DevType
<1>2. CASE a.got = <<>>
  <2>1. b = a
    BY <1>b, <1>2 DEF Store
  <2>2. a.s.sum = d.s.sum
    BY <1>1, <1>2, ConcatEmptySeq
  <2> QED  BY <1>b, <1>1, <2>1, <2>2
<1>3. CASE a.got # <<>>
  <2>1. b = [a EXCEPT !.s.stored = a.s.stored \o a.got]
    BY <1>b, <1>1, <1>3 DEF Store
  <2>s. PICK s : s = [a.s EXCEPT !.stored = a.s.sum]
    OBVIOUS
  <2>2. b = [s |-> s, x |-> a.x, k |-> a.k, got |-> a.got]
    <3>1. a.s.stored \o a.got = a.s.sum
      BY <1>1
    <3> QED  BY <1>0, <2>1, <2>s, <3>1
  <2>3. a.s.sum \in Seq(Nat)
    BY <1>0 DEF DevType
  <2>4. /\ s \in DevType /\ s.open = a.s.open /\ s.kind = a.s.kind /\ s.sum = a.s.sum
        /\ s.tail = a.s.tail /\ s.step = a.s.step /\ s.stored = a.s.sum
    BY <1>0, <2>s, <2>3 DEF DevType
  <2>5. b \in DevState /\ b.s = s /\ b.x = a.x
    BY <1>0, <2>2, <2>4 DEF DevState
  <2> QED  BY <1>b, <1>1, <2>4, <2>5
<1> QED  BY <1>2, <1>3

\* A transfer that has ended well is kept.
Ended(r, sum) ==
    ~r.s.open /\ r.s.stored = <<>> /\ r.x.state = "IDLE" /\ r.k.end = "kept" /\ r.k.bytes = sum

LEMMA CleanEnd ==
    ASSUME NEW c \in DevState, c.s.kind # "none"
    PROVE  Ended(ToDeviceEnd(c, "COMPLETED"), c.s.stored)
<1>r. PICK r : r = ToDeviceEnd(c, "COMPLETED")
  OBVIOUS
<1>0. /\ c = [s |-> c.s, x |-> c.x, k |-> c.k, got |-> c.got]
      /\ c.s \in DevType /\ c.x \in ExpType /\ c.k \in DiskType /\ c.got \in Seq(Nat)
  BY DEF DevState
<1>p. PICK p : p = (c.s.poll \/ c.s.kind = "program")
  OBVIOUS
<1>f. PICK f : f = IF c.s.kind = "block" /\ ~IsError(c.x.err) THEN "COMPLETED" ELSE c.x.err
  OBVIOUS
<1>t. PICK t : t = [NoStore EXCEPT !.poll = p]
  OBVIOUS
<1>k. PICK k : k = [end |-> "kept", bytes |-> c.s.stored, err |-> c.x.err,
                    status |-> IF c.s.kind = "block" THEN "BLOCK_WRITTEN" ELSE c.k.status]
  OBVIOUS
<1>1. r = [c EXCEPT !.s = t, !.x.state = "IDLE", !.x.tail = 0, !.x.err = f, !.k = k]
  <2>1. r = [c EXCEPT !.s = [NoStore EXCEPT !.poll = c.s.poll \/ (c.s.kind = "program" /\ "COMPLETED" = "COMPLETED")],
                      !.x.state = "IDLE", !.x.tail = 0,
                      !.x.err = IF c.s.kind = "block" /\ ~IsError(c.x.err) THEN "COMPLETED" ELSE c.x.err,
                      !.k = IF c.s.kind = "none" THEN c.k
                            ELSE [end |-> IF "COMPLETED" = "COMPLETED" THEN "kept" ELSE "dropped",
                                  bytes |-> c.s.stored, err |-> c.x.err,
                                  status |-> IF c.s.kind = "block" THEN "BLOCK_WRITTEN" ELSE c.k.status]]
    BY <1>r DEF ToDeviceEnd
  <2>2. (c.s.poll \/ (c.s.kind = "program" /\ "COMPLETED" = "COMPLETED")) = p
    BY <1>p
  <2> QED  BY <1>f, <1>t, <1>k, <2>1, <2>2
<1>x. PICK x : x = [c.x EXCEPT !.state = "IDLE", !.tail = 0, !.err = f]
  OBVIOUS
<1>2. r = [s |-> t, x |-> x, k |-> k, got |-> c.got]
  BY <1>0, <1>1, <1>x
<1>3. x.state = "IDLE"
  BY <1>0, <1>x DEF ExpType
<1>4. ~t.open /\ t.stored = <<>>
  BY <1>t DEF NoStore
<1>5. r.s = t /\ r.x = x /\ r.k = k
  BY <1>2
<1>6. k.end = "kept" /\ k.bytes = c.s.stored
  BY <1>k
<1> QED  BY <1>r, <1>3, <1>4, <1>5, <1>6 DEF Ended

\* r is d, which has read and stored the bytes it found.
Passed(d, r) ==
    /\ Storing(r) /\ r.x.state = "RUNNING" /\ r.s.tail = impSeen.sig.head
    /\ r.s.sum = d.s.sum \o Bytes(d)
    /\ r.s.step = IF cmd = "RUNNING" THEN "TRANSFER_DATA" ELSE "TRANSFER_DONE"

LEMMA CleanToDevice ==
    ASSUME impSeen \in ImpCopy, impSeen.conn, cmd \in Going, NEW d, Storing(d),
           d.s.step = "INITIALIZED" \/ (d.s.step = "TRANSFER_DATA" /\ d.x.state = "RUNNING"),
           cmd = "COMPLETED" => d.s.sum \o Bytes(d) = impSeen.sig.cs
    PROVE  LET r == ToDevice(d, FALSE, FALSE)
           IN  Passed(d, r) \/ (cmd = "COMPLETED" /\ Ended(r, d.s.sum \o Bytes(d)))
<1>r. PICK r : r = ToDevice(d, FALSE, FALSE)
  OBVIOUS
<1>a. PICK a : a = DeviceRead(d, FALSE, FALSE)
  OBVIOUS
<1>b. PICK b : b = Store(a, FALSE)
  OBVIOUS
<1>c. PICK c : c = DeviceRead(b, FALSE, FALSE)
  OBVIOUS
<1>0. /\ d \in DevState /\ d.x.tail = d.s.tail /\ d.s.kind # "none" /\ (d.s.kind = "none") = FALSE
  BY DEF Storing
<1>1. HasAll(d, a)
  BY <1>0, <1>a, CleanRead
<1>2. HasRead(d, a) /\ a.s.sum = d.s.sum \o Bytes(d) /\ a.s.step \in {"TRANSFER_DATA", "TRANSFER_DONE"}
  BY <1>1 DEF HasAll, HasRead
<1>3. /\ b \in DevState /\ b.s.open /\ b.s.kind # "none" /\ b.s.stored = a.s.sum /\ b.s.sum = a.s.sum
      /\ b.s.tail = a.s.tail /\ b.s.step = a.s.step /\ b.x = a.x
  BY <1>b, <1>2, CleanStore
<1>4. Passed(d, b)
  BY <1>1, <1>2, <1>3 DEF Passed, Storing, HasAll
<1>5. Verdict(a) = "SUCCESS"
  BY <1>2 DEF Verdict, Status
<1>6. CASE a.got = <<>>
  <2>1. r = b
    BY <1>0, <1>r, <1>a, <1>b, <1>5, <1>6 DEF ToDevice
  <2> QED  BY <1>r, <1>4, <2>1
<1>7. CASE a.got # <<>>
  <2>1. r = IF Verdict(c) = "SUCCESS" THEN c ELSE ToDeviceEnd(c, Verdict(c))
    BY <1>0, <1>r, <1>a, <1>b, <1>c, <1>5, <1>7 DEF ToDevice
  <2>2. b.s.sum \in Seq(Nat)
    BY <1>3 DEF DevState, DevType
  <2>3. CASE cmd = "RUNNING"
    <3>1. b.s.step = "TRANSFER_DATA" /\ b.x.state = "RUNNING" /\ b.x.tail = b.s.tail
      BY <1>4, <2>3 DEF Passed, Storing
    <3>2. HasAll(b, c)
      BY <1>3, <1>c, <3>1, CleanRead
    <3>3. c.got = <<>> /\ c.s.sum = b.s.sum
      <4>1. b.s.tail = impSeen.sig.head
        BY <1>4 DEF Passed
      <4>2. c.got = <<>> /\ c.s.sum = b.s.sum \o c.got
        BY <3>2, <4>1 DEF HasAll, HasRead
      <4> QED  BY <2>2, <4>2, ConcatEmptySeq
    <3>4. Passed(d, c)
      BY <1>3, <1>4, <3>2, <3>3 DEF Passed, Storing, HasAll, HasRead
    <3>5. Verdict(c) = "SUCCESS"
      BY <2>3, <3>4 DEF Passed, Verdict, Status
    <3> QED  BY <1>r, <2>1, <3>4, <3>5
  <2>4. CASE cmd = "COMPLETED"
    <3>1. b.s.step = "TRANSFER_DONE"
      BY <1>4, <2>4 DEF Passed
    <3>2. HasRead(b, c) /\ c.got = <<>> /\ c.s.step = "ALL_COMPLETED"
      BY <1>3, <1>c, <3>1, DoneRead
    <3>3. c.s.sum = b.s.sum
      BY <2>2, <3>2, ConcatEmptySeq DEF HasRead
    <3>4. c \in DevState /\ c.s.kind # "none" /\ c.s.stored = d.s.sum \o Bytes(d) /\ c.s.sum = impSeen.sig.cs
      BY <1>2, <1>3, <2>4, <3>2, <3>3 DEF HasRead
    <3>5. Verdict(c) = "COMPLETED"
      BY <3>2, <3>4 DEF Verdict, Status
    <3>6. Ended(ToDeviceEnd(c, "COMPLETED"), d.s.sum \o Bytes(d))
      BY <3>4, CleanEnd
    <3> QED  BY <1>r, <2>1, <2>4, <3>5, <3>6
  <2> QED  BY <2>3, <2>4 DEF Going
<1> QED  BY <1>6, <1>7

LEMMA DoneToDevice ==
    ASSUME impSeen \in ImpCopy, impSeen.conn, NEW d, Storing(d), d.s.step = "TRANSFER_DONE",
           d.s.sum = impSeen.sig.cs
    PROVE  Ended(ToDevice(d, FALSE, FALSE), d.s.sum)
<1>r. PICK r : r = ToDevice(d, FALSE, FALSE)
  OBVIOUS
<1>a. PICK a : a = DeviceRead(d, FALSE, FALSE)
  OBVIOUS
<1>b. PICK b : b = Store(a, FALSE)
  OBVIOUS
<1>0. d \in DevState /\ (d.s.kind = "none") = FALSE /\ d.s.sum \in Seq(Nat)
  BY DEF Storing, DevState, DevType
<1>1. HasRead(d, a) /\ a.got = <<>> /\ a.s.step = "ALL_COMPLETED"
  BY <1>0, <1>a, DoneRead
<1>2. a.s.sum = d.s.sum
  BY <1>0, <1>1, ConcatEmptySeq DEF HasRead
<1>3. b \in DevState /\ b.s.kind # "none" /\ b.s.stored = d.s.sum
  BY <1>1, <1>2, <1>b, CleanStore
<1>4. Verdict(a) = "COMPLETED"
  BY <1>1, <1>2 DEF Verdict, Status
<1>5. r = ToDeviceEnd(b, Verdict(a))
  BY <1>0, <1>r, <1>a, <1>b, <1>1, <1>4 DEF ToDevice
<1> QED  BY <1>r, <1>3, <1>4, <1>5, CleanEnd

\* p is d but for what the programming status and the beginning of a call change.
Alike(d, p) ==
    /\ p \in DevState /\ p.k.end = d.k.end /\ p.k.bytes = d.k.bytes
    /\ p.x.state = d.x.state /\ p.x.tail = d.x.tail
    /\ p.s.open = d.s.open /\ p.s.step = d.s.step /\ p.s.tail = d.s.tail /\ p.s.sum = d.s.sum
    /\ p.s.kind = d.s.kind /\ p.s.stored = d.s.stored

LEMMA PolledAlike ==
    ASSUME Types, NEW rval \in {"PENDING", "COMPLETED", "DEVICE_PROGRAMMING_FAILED"},
           NEW q \in DevState, q.s = dev, q.x = exp, q.k.end = disk.end, q.k.bytes = disk.bytes
    PROVE  Alike(Device0, Polled(q, rval))
<1>0. dev \in DevType /\ exp \in ExpType
  BY DEF Types
<1>1. q = [s |-> q.s, x |-> q.x, k |-> q.k, got |-> q.got] /\ q.k \in DiskType /\ q.got \in Seq(Nat)
  BY DEF DevState
<1>4. Device0.s = dev /\ Device0.x = exp /\ Device0.k = disk
  BY DEF Device0
<1>5. CASE ~(dev.poll /\ rval # "PENDING")
  <2>1. Polled(q, rval) = q
    BY <1>5 DEF Polled
  <2> QED  BY <1>4, <2>1 DEF Alike
<1>6. CASE dev.poll /\ rval # "PENDING"
  <2>p. PICK p : p = Polled(q, rval)
    OBVIOUS
  <2>s. PICK s : s = [dev EXCEPT !.poll = FALSE]
    OBVIOUS
  <2>x. PICK x : x = [exp EXCEPT !.err = rval]
    OBVIOUS
  <2>1. p = [q EXCEPT !.x.err = rval, !.s.poll = FALSE]
    BY <1>6, <2>p DEF Polled
  <2>e. p = [q EXCEPT !.x = [q.x EXCEPT !.err = rval], !.s = [q.s EXCEPT !.poll = FALSE]]
    BY <2>1
  <2>f. p = [q EXCEPT !.x = x, !.s = s]
    BY <2>e, <2>s, <2>x
  <2>2. p = [s |-> s, x |-> x, k |-> q.k, got |-> q.got]
    BY <1>1, <2>f
  <2>3. rval \in Errors
    BY <1>6 DEF Errors
  <2>4. /\ s \in DevType /\ s.open = dev.open /\ s.step = dev.step /\ s.tail = dev.tail /\ s.sum = dev.sum
        /\ s.kind = dev.kind /\ s.stored = dev.stored
    BY <1>0, <2>s DEF DevType
  <2>5. x \in ExpType /\ x.state = exp.state /\ x.tail = exp.tail
    BY <1>0, <2>3, <2>x DEF ExpType
  <2>6. p \in DevState /\ p.s = s /\ p.x = x /\ p.k = q.k
    BY <1>1, <2>2, <2>4, <2>5 DEF DevState
  <2> QED  BY <1>4, <2>p, <2>4, <2>5, <2>6 DEF Alike
<1> QED  BY <1>5, <1>6

\* What a call begins with.
Begun == [Device0 EXCEPT !.k.status = "NO_BLOCK_TRANSFERRED"]

LEMMA CallBegins ==
    ASSUME Types, NEW q, q = Begun
    PROVE  q \in DevState /\ q.s = dev /\ q.x = exp /\ q.k.end = disk.end /\ q.k.bytes = disk.bytes
<1>0. dev \in DevType /\ exp \in ExpType /\ disk \in DiskType
  BY DEF Types
<1>k. PICK k : k = [disk EXCEPT !.status = "NO_BLOCK_TRANSFERRED"]
  OBVIOUS
<1>2. k \in DiskType /\ k.end = disk.end /\ k.bytes = disk.bytes
  BY <1>0, <1>k DEF DiskType
<1>1. q = [s |-> dev, x |-> exp, k |-> k, got |-> <<>>]
  BY <1>k DEF Begun, Device0
<1>3. q.s = dev /\ q.x = exp /\ q.k = k
  BY <1>1
<1>4. q \in DevState
  BY <1>0, <1>1, <1>2 DEF DevState
<1> QED  BY <1>2, <1>3, <1>4

LEMMA CleanOpen ==
    ASSUME NEW d \in DevState, NEW kind \in {"block", "program"}
    PROVE  LET o == DeviceOpen(d, kind, FALSE)
           IN  Storing(o) /\ o.s.step = "INITIALIZED" /\ o.s.sum = <<>> /\ o.s.tail = 0
<1>o. PICK o : o = DeviceOpen(d, kind, FALSE)
  OBVIOUS
<1>0. /\ d = [s |-> d.s, x |-> d.x, k |-> d.k, got |-> d.got]
      /\ d.s \in DevType /\ d.x \in ExpType /\ d.k \in DiskType /\ d.got \in Seq(Nat)
      /\ d.s.poll \in BOOLEAN
  BY DEF DevState, DevType
<1>1. /\ "IDLE" \in States /\ 0 \in Position /\ "INITIALIZED" \in Steps /\ <<>> \in Seq(Nat)
      /\ "SUCCESS" \in Errors /\ kind \in Kinds
  BY BufSzAssumption DEF States, Position, Steps, Errors, Kinds
<1>t. PICK t : t = [NoStore EXCEPT !.open = TRUE, !.kind = kind, !.poll = d.s.poll]
  OBVIOUS
<1>x. PICK x : x = [state |-> "IDLE", tail |-> 0, err |-> "SUCCESS"]
  OBVIOUS
<1>2. o = [d EXCEPT !.x = x, !.s = t]
  BY <1>o, <1>t, <1>x DEF DeviceOpen
<1>3. o = [s |-> t, x |-> x, k |-> d.k, got |-> d.got]
  BY <1>0, <1>2
<1>4. /\ t \in DevType /\ t.open /\ t.kind = kind /\ t.stored = <<>> /\ t.sum = <<>> /\ t.tail = 0
      /\ t.step = "INITIALIZED"
  BY <1>0, <1>1, <1>t DEF NoStore, DevType
<1>5. x \in ExpType /\ x.tail = 0
  BY <1>1, <1>x DEF ExpType
<1>6. o \in DevState /\ o.s = t /\ o.x = x
  BY <1>0, <1>3, <1>4, <1>5 DEF DevState
<1> QED  BY <1>o, <1>4, <1>5, <1>6 DEF Storing

\* A call of the control stream in which nothing fails.
DeviceCall ==
    \E rval \in {"PENDING", "COMPLETED", "DEVICE_PROGRAMMING_FAILED"} :
        RunControlStream(FALSE, rval, FALSE, FALSE)
CallMakes(r) == dev' = r.s /\ exp' = r.x /\ disk' = r.k

\* It opens a stream, goes on with one, or has only the programming status.
LEMMA CallOutcome ==
    ASSUME Types, impSeen.conn, DeviceCall
    PROVE  /\ UNCHANGED <<ctl, imp, expLine, impLine, expSeen, impSeen, link, selected, env>>
           /\ \/ /\ ~dev.open /\ cmd = "RUNNING" /\ opened' = impSeen.sig.sel
                 /\ \E o : /\ Storing(o) /\ o.s.step = "INITIALIZED" /\ o.s.sum = <<>> /\ o.s.tail = 0
                           /\ CallMakes(ToDevice(o, FALSE, FALSE))
              \/ dev.open /\ opened' = opened /\ \E p : Alike(Device0, p) /\ CallMakes(ToDevice(p, FALSE, FALSE))
              \/ ~dev.open /\ cmd # "RUNNING" /\ opened' = opened /\ \E p : Alike(Device0, p) /\ CallMakes(p)
<1>1. PICK rval \in {"PENDING", "COMPLETED", "DEVICE_PROGRAMMING_FAILED"} :
         RunControlStream(FALSE, rval, FALSE, FALSE)
  BY DEF DeviceCall
<1>q. PICK q : q = Begun
  OBVIOUS
<1>p. PICK p : p = Polled(q, rval)
  OBVIOUS
<1>o. PICK o : o = OpenBlock(opened)
  OBVIOUS
<1>i. PICK kind : kind = Kind(o)
  OBVIOUS
<1>d. PICK d : d = IF ~dev.open /\ cmd = "RUNNING" /\ impSeen.conn
                   THEN DeviceOpen(p, kind, FALSE) ELSE p
  OBVIOUS
<1>r. PICK r : r = IF d.s.open THEN ToDevice(d, FALSE, FALSE) ELSE d
  OBVIOUS
<1>2. CallMakes(r) /\ opened' = o /\ UNCHANGED <<ctl, imp, expLine, impLine, expSeen, impSeen, link, selected, env>>
  BY <1>1, <1>q, <1>p, <1>o, <1>i, <1>d, <1>r DEF RunControlStream, CallMakes, Begun
<1>b. q \in DevState /\ q.s = dev /\ q.x = exp /\ q.k.end = disk.end /\ q.k.bytes = disk.bytes
  BY <1>q, CallBegins
<1>3. Alike(Device0, p)
  BY <1>b, <1>p, PolledAlike
<1>4. p \in DevState /\ p.s.open = dev.open
  BY <1>3 DEF Alike, Device0
<1>5. kind \in {"block", "program"}
  BY <1>i DEF Kind
<1>6. CASE ~dev.open /\ cmd = "RUNNING"
  <2>1. d = DeviceOpen(p, kind, FALSE)
    BY <1>d, <1>6
  <2>2. Storing(d) /\ d.s.step = "INITIALIZED" /\ d.s.sum = <<>> /\ d.s.tail = 0
    BY <1>4, <1>5, <2>1, CleanOpen
  <2>3. r = ToDevice(d, FALSE, FALSE)
    BY <1>r, <2>2 DEF Storing
  <2>4. o = impSeen.sig.sel
    BY <1>o, <1>6 DEF OpenBlock
  <2> QED  BY <1>2, <1>6, <2>2, <2>3, <2>4
<1>7. CASE dev.open
  <2>1. r = ToDevice(p, FALSE, FALSE)
    BY <1>d, <1>r, <1>4, <1>7
  <2>2. o = opened
    BY <1>o, <1>7 DEF OpenBlock
  <2> QED  BY <1>2, <1>3, <1>7, <2>1, <2>2
<1>8. CASE ~dev.open /\ cmd # "RUNNING"
  <2>1. r = p
    BY <1>d, <1>r, <1>4, <1>8
  <2>2. o = opened
    BY <1>o, <1>8 DEF OpenBlock
  <2> QED  BY <1>2, <1>3, <1>8, <2>1, <2>2
<1> QED  BY <1>6, <1>7, <1>8

----------------------------------------------------------------------------
(* Undisturbed transfers: the invariant.                                   *)

\* The snapshots of one direction from the copy at the receiver to the block
\* itself, numbered from 0.
ExpPlaces == 0 .. Len(expLine) + 1
ImpPlaces == 0 .. Len(impLine) + 1
ExpAt(i) == IF i = 0 THEN expSeen.sig ELSE IF i <= Len(expLine) THEN expLine[i] ELSE exp
ImpAt(i) == IF i = 0 THEN impSeen.sig ELSE IF i <= Len(impLine) THEN impLine[i] ELSE imp

IsKept == disk.end = "kept" /\ disk.bytes = Data /\ opened = selected

WriterRests ==
    /\ imp.cmd = "IDLE"
    /\ \/ ctl = NoWriter
       \/ ctl = [NoWriter EXCEPT !.open = TRUE] /\ imp.head = 0
       \/ ctl.open /\ ctl.step = "ALL_COMPLETED" /\ ctl.result = "completed" /\ IsKept
WriterRuns(steps) ==
    /\ ctl.open /\ ctl.result = "none" /\ ctl.step \in steps /\ imp.head = ctl.head
    /\ imp.cmd = IF ctl.step = "TRANSFER_DONE" THEN "COMPLETED" ELSE "RUNNING"
    /\ ctl.step = "INITIALIZED2" => ctl.pos = 0 /\ ctl.head = 0
    /\ ctl.step = "TRANSFER_DONE" => ctl.pos = Len(Data)
WritingSteps == {"INITIALIZED2", "TRANSFER_DATA", "TRANSFER_DONE"}

DeviceRests == ~dev.open /\ dev.stored = <<>> /\ exp.state = "IDLE"

DeviceRuns ==
    /\ Storing(Device0) /\ exp.state = "RUNNING"
    /\ Len(dev.sum) <= Len(Data) /\ dev.sum = SubSeq(Data, 1, Len(dev.sum))
    /\ \/ dev.step = "TRANSFER_DATA"
       \/ dev.step = "TRANSFER_DONE" /\ dev.sum = Data /\ impSeen.sig.cmd = "COMPLETED"

\* No transfer: the device sees no command.
ExpIdle == \A i \in ExpPlaces : ExpAt(i).state = "IDLE"
ImpQuiet == \A i \in ImpPlaces : ImpAt(i).cmd # "RUNNING"
Resting == WriterRests /\ DeviceRests /\ ExpIdle /\ ImpQuiet

\* The controller has asked for a transfer.
ImpAsking ==
    \A i, j \in ImpPlaces :
        i <= j /\ ImpAt(i).cmd = "RUNNING" =>
            ImpAt(i).head = 0 /\ ImpAt(i).sel = selected /\ ImpAt(j).cmd = "RUNNING"
Asked == WriterRuns({"INITIALIZED2"}) /\ DeviceRests /\ ExpIdle /\ ImpAsking

\* Data flows: what is in the ring of snapshot x beyond the device's tail is
\* what follows what the device has, and snapshots sent later have more.  The
\* room shown to the controller only grows.
Unread(x) ==
    \A k \in Position :
        k < Dist(x.head, dev.tail) =>
            x.buf[Onward(dev.tail, k)] = Data[Len(dev.sum) + k + 1]
FlowsTo(x, y) ==
    /\ x.cmd \in Going /\ Unread(x)
    /\ Dist(x.head, dev.tail) <= Dist(y.head, dev.tail)
    /\ x.cmd = "COMPLETED" =>
          y.cmd = "COMPLETED" /\ x.head = ctl.head /\ x.cs = Data /\ ctl.step = "TRANSFER_DONE"
ImpFlowing == \A i, j \in ImpPlaces : i <= j => FlowsTo(ImpAt(i), ImpAt(j))
Grants(x, y) ==
    /\ x.state \in {"IDLE", "RUNNING"}
    /\ x.state = "RUNNING" =>
          y.state = "RUNNING" /\ Dist(ctl.head, y.tail) <= Dist(ctl.head, x.tail)
ExpGranting == \A i, j \in ExpPlaces : i <= j => Grants(ExpAt(i), ExpAt(j))
Level == ctl.pos = Len(dev.sum) + Dist(ctl.head, dev.tail)
Flowing ==
    /\ WriterRuns(WritingSteps) /\ DeviceRuns /\ Level /\ opened = selected
    /\ ctl.step # "INITIALIZED2" => expSeen.sig.state = "RUNNING"
    /\ ImpFlowing /\ ExpGranting

\* The device has stored all and the controller does not know yet.
ExpOver ==
    \A i, j \in ExpPlaces : i <= j =>
        /\ ExpAt(i).state \in {"RUNNING", "IDLE"}
        /\ ExpAt(i).state = "IDLE" => ExpAt(j).state = "IDLE"
Over == WriterRuns({"TRANSFER_DONE"}) /\ DeviceRests /\ IsKept /\ ExpOver /\ ImpQuiet

Stages == Resting \/ Asked \/ Flowing \/ Over
CleanInv == Undisturbed => link = "up" /\ expSeen.conn /\ impSeen.conn /\ Stages

----------------------------------------------------------------------------
(* Undisturbed transfers: snapshots on their way.                          *)

\* Every snapshot is one that there was before, in the same order.
ExpKept ==
    \A i, j \in ExpPlaces' : i <= j =>
        \E a, b \in ExpPlaces : a <= b /\ ExpAt(i)' = ExpAt(a) /\ ExpAt(j)' = ExpAt(b)
ImpKept ==
    \A i, j \in ImpPlaces' : i <= j =>
        \E a, b \in ImpPlaces : a <= b /\ ImpAt(i)' = ImpAt(a) /\ ImpAt(j)' = ImpAt(b)

LEMMA ExpMoves ==
    ASSUME expLine \in Seq(ExpType), UNCHANGED exp,
           UNCHANGED <<expLine, expSeen>> \/ SendExp \/ ReceiveExp
    PROVE  ExpKept
<1>n. PICK n \in Nat : n = Len(expLine)
  OBVIOUS
<1>1. ExpPlaces = 0 .. n + 1
  BY <1>n DEF ExpPlaces
<1>2. CASE UNCHANGED <<expLine, expSeen>>
  <2>1. ExpPlaces' = ExpPlaces /\ \A i \in ExpPlaces : ExpAt(i)' = ExpAt(i)
    BY <1>2 DEF ExpPlaces, ExpAt
  <2> QED  BY <2>1 DEF ExpKept
<1>3. CASE SendExp
  <2>1. expSeen' = expSeen /\ expLine' = Append(expLine, exp)
    BY <1>3 DEF SendExp
  <2>2. Len(expLine') = n + 1 /\ expLine'[n + 1] = exp /\ (\A i \in 1 .. n : expLine'[i] = expLine[i])
    BY <1>n, <2>1
  <2>3. ExpPlaces' = 0 .. n + 2
    BY <2>2 DEF ExpPlaces
  <2>4. ASSUME NEW i \in 0 .. n + 2
        PROVE  ExpAt(i)' = ExpAt(IF i = n + 2 THEN n + 1 ELSE i)
    <3>1. CASE i = 0
      BY <1>n, <2>1, <3>1 DEF ExpAt
    <3>2. CASE i \in 1 .. n
      BY <1>n, <2>2, <3>2 DEF ExpAt
    <3>3. CASE i = n + 1
      BY <1>n, <2>2, <3>3 DEF ExpAt
    <3>4. CASE i = n + 2
      BY <1>n, <2>2, <3>4 DEF ExpAt
    <3> QED  BY <3>1, <3>2, <3>3, <3>4
  <2>5. ASSUME NEW i \in ExpPlaces', NEW j \in ExpPlaces', i <= j
        PROVE  \E a, b \in ExpPlaces : a <= b /\ ExpAt(i)' = ExpAt(a) /\ ExpAt(j)' = ExpAt(b)
    <3>a. PICK a : a = IF i = n + 2 THEN n + 1 ELSE i
      OBVIOUS
    <3>b. PICK b : b = IF j = n + 2 THEN n + 1 ELSE j
      OBVIOUS
    <3>1. i \in 0 .. n + 2 /\ j \in 0 .. n + 2
      BY <2>3
    <3>2. a \in ExpPlaces /\ b \in ExpPlaces /\ a <= b
      BY <1>1, <2>5, <3>1, <3>a, <3>b
    <3>3. ExpAt(i)' = ExpAt(a) /\ ExpAt(j)' = ExpAt(b)
      BY <2>4, <3>1, <3>a, <3>b
    <3> QED  BY <3>2, <3>3
  <2> QED  BY <2>5 DEF ExpKept
<1>4. CASE ReceiveExp
  <2>1. expLine # <<>> /\ expSeen'.sig = Head(expLine) /\ expLine' = Tail(expLine)
    BY <1>4 DEF ReceiveExp
  <2>2. n > 0 /\ Len(expLine') = n - 1 /\ expSeen'.sig = expLine[1]
        /\ (\A i \in 1 .. n - 1 : expLine'[i] = expLine[i + 1])
    BY <1>n, <2>1
  <2>3. ExpPlaces' = 0 .. n
    BY <2>2 DEF ExpPlaces
  <2>4. ASSUME NEW i \in 0 .. n
        PROVE  ExpAt(i)' = ExpAt(i + 1)
    <3>1. CASE i = 0
      BY <1>n, <2>2, <3>1 DEF ExpAt
    <3>2. CASE i \in 1 .. n - 1
      BY <1>n, <2>2, <3>2 DEF ExpAt
    <3>3. CASE i = n
      BY <1>n, <2>2, <3>3 DEF ExpAt
    <3> QED  BY <3>1, <3>2, <3>3
  <2>5. ASSUME NEW i \in ExpPlaces', NEW j \in ExpPlaces', i <= j
        PROVE  \E a, b \in ExpPlaces : a <= b /\ ExpAt(i)' = ExpAt(a) /\ ExpAt(j)' = ExpAt(b)
    <3>1. i \in 0 .. n /\ j \in 0 .. n
      BY <2>3
    <3>2. i + 1 \in ExpPlaces /\ j + 1 \in ExpPlaces /\ i + 1 <= j + 1
      BY <1>1, <2>5, <3>1
    <3>3. ExpAt(i)' = ExpAt(i + 1) /\ ExpAt(j)' = ExpAt(j + 1)
      BY <2>4, <3>1
    <3> QED  BY <3>2, <3>3
  <2> QED  BY <2>5 DEF ExpKept
<1> QED  BY <1>2, <1>3, <1>4

LEMMA ImpMoves ==
    ASSUME impLine \in Seq(ImpType), UNCHANGED imp,
           UNCHANGED <<impLine, impSeen>> \/ SendImp \/ ReceiveImp
    PROVE  ImpKept
<1>n. PICK n \in Nat : n = Len(impLine)
  OBVIOUS
<1>1. ImpPlaces = 0 .. n + 1
  BY <1>n DEF ImpPlaces
<1>2. CASE UNCHANGED <<impLine, impSeen>>
  <2>1. ImpPlaces' = ImpPlaces /\ \A i \in ImpPlaces : ImpAt(i)' = ImpAt(i)
    BY <1>2 DEF ImpPlaces, ImpAt
  <2> QED  BY <2>1 DEF ImpKept
<1>3. CASE SendImp
  <2>1. impSeen' = impSeen /\ impLine' = Append(impLine, imp)
    BY <1>3 DEF SendImp
  <2>2. Len(impLine') = n + 1 /\ impLine'[n + 1] = imp /\ (\A i \in 1 .. n : impLine'[i] = impLine[i])
    BY <1>n, <2>1
  <2>3. ImpPlaces' = 0 .. n + 2
    BY <2>2 DEF ImpPlaces
  <2>4. ASSUME NEW i \in 0 .. n + 2
        PROVE  ImpAt(i)' = ImpAt(IF i = n + 2 THEN n + 1 ELSE i)
    <3>1. CASE i = 0
      BY <1>n, <2>1, <3>1 DEF ImpAt
    <3>2. CASE i \in 1 .. n
      BY <1>n, <2>2, <3>2 DEF ImpAt
    <3>3. CASE i = n + 1
      BY <1>n, <2>2, <3>3 DEF ImpAt
    <3>4. CASE i = n + 2
      BY <1>n, <2>2, <3>4 DEF ImpAt
    <3> QED  BY <3>1, <3>2, <3>3, <3>4
  <2>5. ASSUME NEW i \in ImpPlaces', NEW j \in ImpPlaces', i <= j
        PROVE  \E a, b \in ImpPlaces : a <= b /\ ImpAt(i)' = ImpAt(a) /\ ImpAt(j)' = ImpAt(b)
    <3>a. PICK a : a = IF i = n + 2 THEN n + 1 ELSE i
      OBVIOUS
    <3>b. PICK b : b = IF j = n + 2 THEN n + 1 ELSE j
      OBVIOUS
    <3>1. i \in 0 .. n + 2 /\ j \in 0 .. n + 2
      BY <2>3
    <3>2. a \in ImpPlaces /\ b \in ImpPlaces /\ a <= b
      BY <1>1, <2>5, <3>1, <3>a, <3>b
    <3>3. ImpAt(i)' = ImpAt(a) /\ ImpAt(j)' = ImpAt(b)
      BY <2>4, <3>1, <3>a, <3>b
    <3> QED  BY <3>2, <3>3
  <2> QED  BY <2>5 DEF ImpKept
<1>4. CASE ReceiveImp
  <2>1. impLine # <<>> /\ impSeen'.sig = Head(impLine) /\ impLine' = Tail(impLine)
    BY <1>4 DEF ReceiveImp
  <2>2. n > 0 /\ Len(impLine') = n - 1 /\ impSeen'.sig = impLine[1]
        /\ (\A i \in 1 .. n - 1 : impLine'[i] = impLine[i + 1])
    BY <1>n, <2>1
  <2>3. ImpPlaces' = 0 .. n
    BY <2>2 DEF ImpPlaces
  <2>4. ASSUME NEW i \in 0 .. n
        PROVE  ImpAt(i)' = ImpAt(i + 1)
    <3>1. CASE i = 0
      BY <1>n, <2>2, <3>1 DEF ImpAt
    <3>2. CASE i \in 1 .. n - 1
      BY <1>n, <2>2, <3>2 DEF ImpAt
    <3>3. CASE i = n
      BY <1>n, <2>2, <3>3 DEF ImpAt
    <3> QED  BY <3>1, <3>2, <3>3
  <2>5. ASSUME NEW i \in ImpPlaces', NEW j \in ImpPlaces', i <= j
        PROVE  \E a, b \in ImpPlaces : a <= b /\ ImpAt(i)' = ImpAt(a) /\ ImpAt(j)' = ImpAt(b)
    <3>1. i \in 0 .. n /\ j \in 0 .. n
      BY <2>3
    <3>2. i + 1 \in ImpPlaces /\ j + 1 \in ImpPlaces /\ i + 1 <= j + 1
      BY <1>1, <2>5, <3>1
    <3>3. ImpAt(i)' = ImpAt(i + 1) /\ ImpAt(j)' = ImpAt(j + 1)
      BY <2>4, <3>1
    <3> QED  BY <3>2, <3>3
  <2> QED  BY <2>5 DEF ImpKept
<1> QED  BY <1>2, <1>3, <1>4

LEMMA EachExpKept ==
    ASSUME ExpKept, NEW i \in ExpPlaces'
    PROVE  \E a \in ExpPlaces : ExpAt(i)' = ExpAt(a)
<1>1. i <= i
  BY DEF ExpPlaces
<1> QED  BY <1>1 DEF ExpKept

LEMMA EachImpKept ==
    ASSUME ImpKept, NEW i \in ImpPlaces'
    PROVE  \E a \in ImpPlaces : ImpAt(i)' = ImpAt(a)
<1>1. i <= i
  BY DEF ImpPlaces
<1> QED  BY <1>1 DEF ImpKept

LEMMA ExpOrdersKept ==
    ASSUME ExpKept, UNCHANGED <<exp, ctl>>
    PROVE  /\ ExpIdle => ExpIdle'
           /\ ExpGranting => ExpGranting'
           /\ ExpOver => ExpOver'
<1>1. ASSUME ExpIdle PROVE ExpIdle'
  <2>1. ASSUME NEW i \in ExpPlaces'
        PROVE  ExpAt(i)'.state = "IDLE"
    BY <1>1, EachExpKept DEF ExpIdle
  <2> QED  BY <2>1 DEF ExpIdle
<1>2. ASSUME NEW i \in ExpPlaces', NEW j \in ExpPlaces', i <= j
      PROVE  \E a, b \in ExpPlaces : a <= b /\ ExpAt(i)' = ExpAt(a) /\ ExpAt(j)' = ExpAt(b)
  BY <1>2 DEF ExpKept
<1>3. ASSUME ExpGranting PROVE ExpGranting'
  <2>1. ASSUME NEW i \in ExpPlaces', NEW j \in ExpPlaces', i <= j
        PROVE  Grants(ExpAt(i), ExpAt(j))'
    <3>1. PICK a \in ExpPlaces, b \in ExpPlaces : a <= b /\ ExpAt(i)' = ExpAt(a) /\ ExpAt(j)' = ExpAt(b)
      BY <1>2, <2>1
    <3>2. Grants(ExpAt(a), ExpAt(b))
      BY <1>3, <3>1 DEF ExpGranting
    <3> QED  BY <3>1, <3>2 DEF Grants
  <2> QED  BY <2>1 DEF ExpGranting
<1>4. ASSUME ExpOver PROVE ExpOver'
  <2>1. ASSUME NEW i \in ExpPlaces', NEW j \in ExpPlaces', i <= j
        PROVE  /\ ExpAt(i)'.state \in {"RUNNING", "IDLE"}
               /\ ExpAt(i)'.state = "IDLE" => ExpAt(j)'.state = "IDLE"
    BY <1>2, <1>4, <2>1 DEF ExpOver
  <2> QED  BY <2>1 DEF ExpOver
<1> QED  BY <1>1, <1>3, <1>4

LEMMA ImpOrdersKept ==
    ASSUME ImpKept, UNCHANGED <<dev, imp, ctl, selected, env>>
    PROVE  /\ ImpQuiet => ImpQuiet'
           /\ ImpAsking => ImpAsking'
           /\ ImpFlowing => ImpFlowing'
<1>1. ASSUME ImpQuiet PROVE ImpQuiet'
  <2>1. ASSUME NEW i \in ImpPlaces'
        PROVE  ImpAt(i)'.cmd # "RUNNING"
    BY <1>1, EachImpKept DEF ImpQuiet
  <2> QED  BY <2>1 DEF ImpQuiet
<1>2. ASSUME NEW i \in ImpPlaces', NEW j \in ImpPlaces', i <= j
      PROVE  \E a, b \in ImpPlaces : a <= b /\ ImpAt(i)' = ImpAt(a) /\ ImpAt(j)' = ImpAt(b)
  BY <1>2 DEF ImpKept
<1>3. ASSUME ImpAsking PROVE ImpAsking'
  <2>1. ASSUME NEW i \in ImpPlaces', NEW j \in ImpPlaces', i <= j, ImpAt(i)'.cmd = "RUNNING"
        PROVE  ImpAt(i)'.head = 0 /\ ImpAt(i)'.sel = selected' /\ ImpAt(j)'.cmd = "RUNNING"
    BY <1>2, <1>3, <2>1 DEF ImpAsking
  <2> QED  BY <2>1 DEF ImpAsking
<1>4. ASSUME ImpFlowing PROVE ImpFlowing'
  <2>1. ASSUME NEW i \in ImpPlaces', NEW j \in ImpPlaces', i <= j
        PROVE  FlowsTo(ImpAt(i), ImpAt(j))'
    <3>1. PICK a \in ImpPlaces, b \in ImpPlaces : a <= b /\ ImpAt(i)' = ImpAt(a) /\ ImpAt(j)' = ImpAt(b)
      BY <1>2, <2>1
    <3>x. PICK x, y : x = ImpAt(a) /\ y = ImpAt(b)
      OBVIOUS
    <3>2. FlowsTo(x, y)
      BY <1>4, <3>1, <3>x DEF ImpFlowing
    <3>3. FlowsTo(x, y)'
      BY <3>2 DEF FlowsTo, Unread, Data, Content
    <3>4. ImpAt(i)' = x /\ ImpAt(j)' = y
      BY <3>1, <3>x
    <3> QED  BY <3>3, <3>4 DEF FlowsTo, Unread
  <2> QED  BY <2>1 DEF ImpFlowing
<1> QED  BY <1>1, <1>3, <1>4

\* The device's last snapshots do not change the stage of a device that runs.
LEMMA SeenMoves ==
    ASSUME ImpKept, ImpFlowing, Types, Types', impSeen.sig.cmd = "COMPLETED"
    PROVE  impSeen'.sig.cmd = "COMPLETED"
<1>0. impLine \in Seq(ImpType) /\ impLine' \in Seq(ImpType)
  BY DEF Types
<1>1. 0 \in ImpPlaces' /\ ImpAt(0)' = impSeen'.sig
  BY <1>0 DEF ImpPlaces, ImpAt
<1>2. PICK a \in ImpPlaces : ImpAt(0)' = ImpAt(a)
  BY <1>1, EachImpKept
<1>3. 0 \in ImpPlaces /\ ImpAt(0) = impSeen.sig /\ 0 <= a
  BY <1>0 DEF ImpPlaces, ImpAt
<1>4. FlowsTo(ImpAt(0), ImpAt(a))
  BY <1>3 DEF ImpFlowing
<1> QED  BY <1>1, <1>2, <1>3, <1>4 DEF FlowsTo

LEMMA GrantMoves ==
    ASSUME ExpKept, ExpGranting, Types, Types', expSeen.sig.state = "RUNNING"
    PROVE  expSeen'.sig.state = "RUNNING"
<1>0. expLine \in Seq(ExpType) /\ expLine' \in Seq(ExpType)
  BY DEF Types
<1>1. 0 \in ExpPlaces' /\ ExpAt(0)' = expSeen'.sig
  BY <1>0 DEF ExpPlaces, ExpAt
<1>2. PICK a \in ExpPlaces : ExpAt(0)' = ExpAt(a)
  BY <1>1, EachExpKept
<1>3. 0 \in ExpPlaces /\ ExpAt(0) = expSeen.sig /\ 0 <= a
  BY <1>0 DEF ExpPlaces, ExpAt
<1>4. Grants(ExpAt(0), ExpAt(a))
  BY <1>3 DEF ExpGranting
<1> QED  BY <1>1, <1>2, <1>3, <1>4 DEF Grants

\* A snapshot that moves on changes no stage.
LEMMA StagesKept ==
    ASSUME ExpKept, ImpKept, UNCHANGED <<dev, exp, disk, ctl, imp, opened, selected, env>>, Stages, Types, Types'
    PROVE  Stages'
<1>1. /\ ExpIdle => ExpIdle'
      /\ ExpGranting => ExpGranting'
      /\ ExpOver => ExpOver'
  BY ExpOrdersKept
<1>2. /\ ImpQuiet => ImpQuiet'
      /\ ImpAsking => ImpAsking'
      /\ ImpFlowing => ImpFlowing'
  BY ImpOrdersKept
<1>3. (DeviceRests => DeviceRests') /\ (WriterRests => WriterRests') /\ (IsKept => IsKept')
  BY DEF DeviceRests, WriterRests, IsKept, Data, Content
<1>5. ASSUME NEW steps, WriterRuns(steps)
      PROVE  WriterRuns(steps)'
  BY <1>5 DEF WriterRuns, Data, Content
<1>6. CASE Resting
  BY <1>1, <1>2, <1>3, <1>6 DEF Resting, Stages
<1>7. CASE Asked
  <2>1. WriterRuns({"INITIALIZED2"})'
    BY <1>5, <1>7 DEF Asked
  <2>2. Asked'
    BY <1>1, <1>2, <1>3, <1>7, <2>1 DEF Asked
  <2> QED  BY <2>2 DEF Stages
<1>8. CASE Flowing
  <2>1. WriterRuns(WritingSteps)'
    BY <1>5, <1>8 DEF Flowing, WritingSteps
  <2>2. Level'
    BY <1>8 DEF Flowing, Level
  <2>3. ctl'.step # "INITIALIZED2" => expSeen'.sig.state = "RUNNING"
    BY <1>8, GrantMoves DEF Flowing
  <2>4. DeviceRuns'
    <3>1. impSeen.sig.cmd = "COMPLETED" => impSeen'.sig.cmd = "COMPLETED"
      BY <1>8, SeenMoves DEF Flowing
    <3>2. Storing(Device0)'
      BY <1>8 DEF Flowing, DeviceRuns, Storing, Device0
    <3> QED  BY <1>8, <3>1, <3>2 DEF Flowing, DeviceRuns, Data, Content
  <2>5. Flowing'
    BY <1>1, <1>2, <1>8, <2>1, <2>2, <2>3, <2>4 DEF Flowing
  <2> QED  BY <2>5 DEF Stages
<1>9. CASE Over
  <2>1. WriterRuns({"TRANSFER_DONE"})'
    BY <1>5, <1>9 DEF Over
  <2>2. Over'
    BY <1>1, <1>2, <1>3, <1>9, <2>1 DEF Over
  <2> QED  BY <2>2 DEF Stages
<1> QED  BY <1>6, <1>7, <1>8, <1>9 DEF Stages

----------------------------------------------------------------------------
(* Undisturbed transfers: steps of the device.                             *)

\* A step of the device changes the last snapshot, one of the controller too.
LEMMA ExpLast ==
    ASSUME expLine \in Seq(ExpType), UNCHANGED <<expLine, expSeen>>
    PROVE  \E last \in ExpPlaces :
              /\ ExpPlaces' = ExpPlaces /\ ExpAt(last) = exp
              /\ \A i \in ExpPlaces : i <= last /\ ExpAt(i)' = IF i = last THEN exp' ELSE ExpAt(i)
<1>n. PICK n \in Nat : n = Len(expLine)
  OBVIOUS
<1>1. ExpPlaces = 0 .. n + 1 /\ ExpPlaces' = ExpPlaces
  BY <1>n DEF ExpPlaces
<1>2. ExpAt(n + 1) = exp
  BY <1>n DEF ExpAt
<1>3. ASSUME NEW i \in 0 .. n + 1
      PROVE  i <= n + 1 /\ ExpAt(i)' = IF i = n + 1 THEN exp' ELSE ExpAt(i)
  BY <1>n DEF ExpAt
<1>4. n + 1 \in ExpPlaces
  BY <1>1
<1> QED  BY <1>1, <1>2, <1>3, <1>4

LEMMA ImpLast ==
    ASSUME impLine \in Seq(ImpType), UNCHANGED <<impLine, impSeen>>
    PROVE  \E last \in ImpPlaces :
              /\ ImpPlaces' = ImpPlaces /\ ImpAt(last) = imp
              /\ \A i \in ImpPlaces : i <= last /\ ImpAt(i)' = IF i = last THEN imp' ELSE ImpAt(i)
<1>n. PICK n \in Nat : n = Len(impLine)
  OBVIOUS
<1>1. ImpPlaces = 0 .. n + 1 /\ ImpPlaces' = ImpPlaces
  BY <1>n DEF ImpPlaces
<1>2. ImpAt(n + 1) = imp
  BY <1>n DEF ImpAt
<1>3. ASSUME NEW i \in 0 .. n + 1
      PROVE  i <= n + 1 /\ ImpAt(i)' = IF i = n + 1 THEN imp' ELSE ImpAt(i)
  BY <1>n DEF ImpAt
<1>4. n + 1 \in ImpPlaces
  BY <1>1
<1> QED  BY <1>1, <1>2, <1>3, <1>4

\* The places and what they hold.
LEMMA PlaceTypes ==
    ASSUME Types
    PROVE  /\ 0 \in ExpPlaces /\ ExpAt(0) = expSeen.sig /\ \A i \in ExpPlaces : 0 <= i /\ i <= i /\ ExpAt(i) \in ExpType
           /\ 0 \in ImpPlaces /\ ImpAt(0) = impSeen.sig /\ \A i \in ImpPlaces : 0 <= i /\ i <= i /\ ImpAt(i) \in ImpType
<1>1. /\ expLine \in Seq(ExpType) /\ expSeen.sig \in ExpType /\ exp \in ExpType
      /\ impLine \in Seq(ImpType) /\ impSeen.sig \in ImpType /\ imp \in ImpType
  BY DEF Types, ExpCopy, ImpCopy
<1>2. 0 \in ExpPlaces /\ ExpAt(0) = expSeen.sig /\ \A i \in ExpPlaces : 0 <= i /\ i <= i
  BY <1>1 DEF ExpPlaces, ExpAt
<1>3. 0 \in ImpPlaces /\ ImpAt(0) = impSeen.sig /\ \A i \in ImpPlaces : 0 <= i /\ i <= i
  BY <1>1 DEF ImpPlaces, ImpAt
<1>4. \A i \in ExpPlaces : ExpAt(i) \in ExpType
  BY <1>1 DEF ExpPlaces, ExpAt
<1>5. \A i \in ImpPlaces : ImpAt(i) \in ImpType
  BY <1>1 DEF ImpPlaces, ImpAt
<1> QED  BY <1>2, <1>3, <1>4, <1>5

\* The next k bytes of a sequence, behind its first p.
LEMMA ReadOn ==
    ASSUME NEW c \in Seq(Nat), NEW p \in Nat, NEW k \in Nat, p + k <= Len(c)
    PROVE  /\ SubSeq(c, p + 1, p + k) \in Seq(Nat) /\ Len(SubSeq(c, p + 1, p + k)) = k
           /\ SubSeq(c, 1, p) \o SubSeq(c, p + 1, p + k) = SubSeq(c, 1, p + k)
<1>1. Len(c) \in Nat /\ \A i \in 1 .. Len(c) : c[i] \in Nat
  OBVIOUS
<1>q. PICK q : q = p + k
  OBVIOUS
<1>2. q \in Int /\ p + 1 \in Int /\ (\A i \in p + 1 .. q : c[i] \in Nat)
  BY <1>1, <1>q
<1>3. SubSeq(c, p + 1, q) \in Seq(Nat)
      /\ Len(SubSeq(c, p + 1, q)) = IF p + 1 <= q THEN q - (p + 1) + 1 ELSE 0
  BY <1>2, SubSeqProperties
<1>4. SubSeq(c, 1, p) \o SubSeq(c, p + 1, q) = SubSeq(c, 1, q)
  <2>1. 1 \in 1 .. Len(c) + 1 /\ p \in 1 - 1 .. Len(c) /\ q \in p .. Len(c)
    BY <1>1, <1>q
  <2> QED  BY <2>1, ConcatAdjacentSubSeq
<1>5. Len(SubSeq(c, p + 1, q)) = k
  BY <1>3, <1>q
<1> QED  BY <1>3, <1>4, <1>5, <1>q

\* What was unread behind the bytes taken stays unread.
LEMMA UnreadMoves ==
    ASSUME dev \in DevType, NEW x \in ImpType, NEW k \in 0 .. Dist(x.head, dev.tail), Unread(x),
           dev'.tail = Onward(dev.tail, k), Len(dev'.sum) = Len(dev.sum) + k, env' = env,
           selected' = selected
    PROVE  Unread(x)' /\ Dist(x.head, dev'.tail) = Dist(x.head, dev.tail) - k
<1>t. PICK t \in Position : t = dev.tail
  BY DEF DevType
<1>l. PICK len \in Nat : len = Len(dev.sum)
  BY DEF DevType
<1>h. x.head \in Position
  BY DEF ImpType
<1>d. PICK D \in Position : D = Dist(x.head, t)
  BY <1>h, DistMod
<1>1. k \in Nat /\ k <= D /\ D < BufSz /\ D \in Nat /\ BufSz \in Nat
  BY <1>t, <1>d, BufSzAssumption DEF Position
<1>u. PICK u : u = Onward(t, k)
  OBVIOUS
<1>2. u \in Position /\ Dist(x.head, u) = D - k
  <2>1. k \in 0 .. Dist(x.head, t)
    BY <1>t
  <2> QED  BY <1>d, <1>h, <1>u, <2>1, TailMoves
<1>3. ASSUME NEW j \in Position, j < D - k
      PROVE  x.buf[Onward(u, j)] = Data[len + k + j + 1]
  <2>1. j \in Nat /\ k + j < BufSz /\ k + j \in Position /\ k + j < D
    BY <1>1, <1>3 DEF Position
  <2>2. Onward(u, j) = Onward(t, k + j)
    BY <1>1, <1>u, <2>1, OnwardOnward
  <2>3. x.buf[Onward(t, k + j)] = Data[len + (k + j) + 1]
    BY <1>t, <1>l, <1>d, <2>1 DEF Unread
  <2>4. len + (k + j) + 1 = len + k + j + 1
    BY <1>1, <2>1
  <2> QED  BY <2>2, <2>3, <2>4
<1>4. dev'.tail = u /\ Len(dev'.sum) = len + k
  BY <1>t, <1>l, <1>u
<1>5. Unread(x)'
  BY <1>2, <1>3, <1>4 DEF Unread, Data, Content
<1> QED  BY <1>2, <1>4, <1>5, <1>t, <1>d

\* The bytes taken follow those the device has.
LEMMA TakenFollow ==
    ASSUME Types, NEW x \in ImpType, NEW k \in 0 .. Dist(x.head, dev.tail), Unread(x),
           dev.sum = SubSeq(Data, 1, Len(dev.sum)), Len(dev.sum) + k <= Len(Data),
           NEW s, s = dev.sum \o Fetched(x.buf, dev.tail, k)
    PROVE  s = SubSeq(Data, 1, Len(dev.sum) + k) /\ Len(s) = Len(dev.sum) + k
<1>0. dev \in DevType /\ env \in Environments /\ selected \in Block
  BY DEF Types
<1>t. PICK t \in Position : t = dev.tail
  BY <1>0 DEF DevType
<1>l. PICK len \in Nat : len = Len(dev.sum)
  BY <1>0 DEF DevType
<1>h. x.head \in Position /\ x.buf \in [Position -> Nat]
  BY DEF ImpType
<1>d. PICK D \in Position : D = Dist(x.head, t)
  BY <1>h, DistMod
<1>1. k \in Nat /\ k <= D /\ D < BufSz /\ k \in 0 .. BufSz /\ BufSz \in Nat
  BY <1>t, <1>d, BufSzAssumption DEF Position
<1>c. PICK content \in Seq(Nat) : content = Data
  BY <1>0, ContentType
<1>f. PICK f : f = Fetched(x.buf, t, k)
  OBVIOUS
<1>2. f \in Seq(Nat) /\ Len(f) = k /\ \A i \in 1 .. k : f[i] = x.buf[Onward(t, i - 1)]
  BY <1>1, <1>f, <1>h, FetchedOnward
<1>g. PICK g : g = SubSeq(content, len + 1, len + k)
  OBVIOUS
<1>3. g \in Seq(Nat) /\ Len(g) = k /\ SubSeq(content, 1, len) \o g = SubSeq(content, 1, len + k)
  BY <1>1, <1>c, <1>g, <1>l, ReadOn
<1>4. ASSUME NEW i \in 1 .. k
      PROVE  f[i] = g[i]
  <2>j. PICK j \in Nat : j + 1 = i /\ j = i - 1 /\ j < k
    BY <1>1
  <2>1. j \in Position /\ j < D
    BY <1>1, <2>j DEF Position
  <2>2. x.buf[Onward(t, j)] = content[len + j + 1]
    BY <1>t, <1>l, <1>d, <1>c, <2>1 DEF Unread
  <2>3. g[j + 1] = content[len + j + 1]
    BY <1>1, <1>c, <1>g, <1>l, <2>j, SubSeqAt
  <2>4. f[i] = x.buf[Onward(t, j)]
    BY <1>2, <2>j
  <2> QED  BY <2>j, <2>2, <2>3, <2>4
<1>5. f = g
  <2>1. DOMAIN f = 1 .. k /\ DOMAIN g = 1 .. k
    BY <1>2, <1>3
  <2>2. f = [i \in DOMAIN f |-> f[i]] /\ g = [i \in DOMAIN g |-> g[i]]
    BY <1>2, <1>3
  <2> QED  BY <1>4, <2>1, <2>2, Zenon
<1>p. PICK p : p = SubSeq(content, 1, len)
  OBVIOUS
<1>6. s = p \o g /\ p = dev.sum /\ p \in Seq(Nat) /\ Len(p) = len
  <2>1. p = dev.sum
    BY <1>c, <1>l, <1>p
  <2>2. dev.sum \in Seq(Nat) /\ Len(dev.sum) = len
    BY <1>0, <1>l DEF DevType
  <2>3. s = dev.sum \o f
    BY <1>t, <1>f
  <2> QED  BY <1>5, <2>1, <2>2, <2>3
<1>7. Len(p \o g) = len + k
  BY <1>1, <1>3, <1>6
<1> QED  BY <1>3, <1>6, <1>7, <1>c, <1>l, <1>p

\* A call that has only the programming status changes no stage.
PollMakes ==
    /\ dev'.open = dev.open /\ dev'.stored = dev.stored
    /\ exp'.state = exp.state /\ disk'.end = disk.end /\ disk'.bytes = disk.bytes
    /\ UNCHANGED <<ctl, imp, expLine, impLine, expSeen, impSeen, link, opened, selected, env>>

LEMMA PollKeeps ==
    ASSUME Types, PollMakes
    PROVE  /\ DeviceRests => DeviceRests'
           /\ IsKept => IsKept'
           /\ ExpIdle => ExpIdle'
           /\ ExpOver => ExpOver'
           /\ ImpQuiet => ImpQuiet'
           /\ ImpAsking => ImpAsking'
           /\ \A steps : WriterRuns(steps) => WriterRuns(steps)'
<1>0. expLine \in Seq(ExpType) /\ UNCHANGED <<ctl, imp, expLine, impLine, expSeen, impSeen, opened, selected, env>>
  BY DEF Types, PollMakes
<1>1. (DeviceRests => DeviceRests') /\ (IsKept => IsKept')
  BY <1>0 DEF PollMakes, DeviceRests, IsKept, Data, Content
<1>2. PICK last \in ExpPlaces :
              /\ ExpPlaces' = ExpPlaces /\ ExpAt(last) = exp
              /\ \A i \in ExpPlaces : i <= last /\ ExpAt(i)' = IF i = last THEN exp' ELSE ExpAt(i)
  BY <1>0, ExpLast
<1>3. \A i \in ExpPlaces : ExpAt(i)'.state = ExpAt(i).state
  BY <1>2 DEF PollMakes
<1>4. (ExpIdle => ExpIdle') /\ (ExpOver => ExpOver')
  BY <1>2, <1>3 DEF ExpIdle, ExpOver
<1>5. ImpPlaces' = ImpPlaces /\ \A i \in ImpPlaces : ImpAt(i)' = ImpAt(i)
  BY <1>0 DEF ImpPlaces, ImpAt
<1>6. (ImpQuiet => ImpQuiet') /\ (ImpAsking => ImpAsking')
  BY <1>0, <1>5 DEF ImpQuiet, ImpAsking
<1>7. ASSUME NEW steps, WriterRuns(steps)
      PROVE  WriterRuns(steps)'
  BY <1>0, <1>7 DEF WriterRuns, Data, Content
<1> QED  BY <1>1, <1>4, <1>6, <1>7

LEMMA PollCall ==
    ASSUME Types, impSeen.conn, DeviceCall, ~dev.open, cmd # "RUNNING"
    PROVE  PollMakes
<1>1. PICK p : Alike(Device0, p) /\ CallMakes(p)
  BY CallOutcome
<1>2. UNCHANGED <<ctl, imp, expLine, impLine, expSeen, impSeen, link, opened, selected, env>>
  BY CallOutcome
<1>3. Device0.s = dev /\ Device0.x = exp /\ Device0.k = disk
  BY DEF Device0
<1> QED  BY <1>1, <1>2, <1>3 DEF Alike, CallMakes, PollMakes

LEMMA RestingDevice ==
    ASSUME Types, Resting, impSeen.conn, DeviceCall
    PROVE  Resting'
<1>1. ~dev.open /\ cmd # "RUNNING"
  BY PlaceTypes DEF Resting, DeviceRests, ImpQuiet, cmd
<1>2. PollMakes
  BY <1>1, PollCall
<1>3. DeviceRests' /\ ExpIdle' /\ ImpQuiet' /\ (IsKept => IsKept')
  BY <1>2, PollKeeps DEF Resting
<1>4. WriterRests'
  BY <1>2, <1>3 DEF Resting, WriterRests, PollMakes
<1> QED  BY <1>3, <1>4 DEF Resting

LEMMA OverDevice ==
    ASSUME Types, Over, impSeen.conn, DeviceCall
    PROVE  Over'
<1>1. ~dev.open /\ cmd # "RUNNING"
  BY PlaceTypes DEF Over, DeviceRests, ImpQuiet, cmd
<1>2. PollMakes
  BY <1>1, PollCall
<1> QED  BY <1>2, PollKeeps DEF Over

\* The device starts on an empty ring.
LEMMA StartDevice ==
    ASSUME Types, Asked, ~dev.open, cmd = "RUNNING", impSeen.conn, DeviceCall
    PROVE  Flowing'
<1>0. 0 \in ImpPlaces /\ ImpAt(0) = impSeen.sig /\ \A i \in ImpPlaces : 0 <= i /\ i <= i
  BY PlaceTypes
<1>1. ASSUME NEW i \in ImpPlaces
      PROVE  ImpAt(i).cmd = "RUNNING" /\ ImpAt(i).head = 0 /\ ImpAt(i).sel = selected
  <2>1. ImpAt(i).cmd = "RUNNING"
    BY <1>0 DEF Asked, ImpAsking, cmd
  <2> QED  BY <1>0, <2>1 DEF Asked, ImpAsking
<1>u. UNCHANGED <<ctl, imp, expLine, impLine, expSeen, impSeen, link, selected, env>> /\ opened' = impSeen.sig.sel
  BY CallOutcome
<1>o. PICK o : /\ Storing(o) /\ o.s.step = "INITIALIZED" /\ o.s.sum = <<>> /\ o.s.tail = 0
               /\ CallMakes(ToDevice(o, FALSE, FALSE))
  BY CallOutcome
<1>r. PICK r : r = ToDevice(o, FALSE, FALSE)
  OBVIOUS
<1>2. impSeen \in ImpCopy /\ cmd \in Going /\ cmd # "COMPLETED" /\ impSeen.sig.head = 0 /\ impSeen.sig.sel = selected
  BY <1>0, <1>1 DEF Types, Going
<1>3. Passed(o, r)
  BY <1>o, <1>r, <1>2, CleanToDevice
<1>4. /\ Storing(r) /\ r.x.state = "RUNNING" /\ r.s.tail = 0 /\ r.s.step = "TRANSFER_DATA"
      /\ r.s.sum = <<>> \o Bytes(o)
  BY <1>2, <1>3, <1>o DEF Passed
<1>5. r.s.sum = <<>>
  <2>1. Bytes(o) = <<>>
    <3>1. Dist(impSeen.sig.head, o.s.tail) = 0
      BY <1>2, <1>o DEF Dist
    <3>2. Bytes(o) = Fetched(impSeen.sig.buf, o.s.tail, 0)
      BY <3>1 DEF Bytes
    <3>3. impSeen.sig.buf \in [Position -> Nat] /\ o.s.tail \in Position /\ 0 \in 0 .. BufSz
      BY <1>2, <1>o, BufSzAssumption DEF ImpCopy, ImpType, Position
    <3>b. PICK buf, tail : buf = impSeen.sig.buf /\ tail = o.s.tail
      OBVIOUS
    <3>5. Fetched(buf, tail, 0) \in Seq(Nat) /\ Len(Fetched(buf, tail, 0)) = 0
      BY <3>3, <3>b, FetchedOnward
    <3>4. Bytes(o) \in Seq(Nat) /\ Len(Bytes(o)) = 0
      BY <3>2, <3>5, <3>b
    <3> QED  BY <3>4
  <2> QED  BY <1>4, <2>1
<1>6. dev' = r.s /\ exp' = r.x /\ disk' = r.k
  BY <1>o, <1>r DEF CallMakes
<1>7. Storing(Device0)'
  BY <1>4, <1>6 DEF Storing, Device0, DevState
<1>8. Data \in Seq(Nat) /\ Len(Data) \in Nat /\ Data' = Data
  BY <1>u, ContentType DEF Types, Data, Content
<1>9. DeviceRuns'
  <2>1. dev'.sum = <<>> /\ Len(dev'.sum) = 0
    BY <1>5, <1>6
  <2>2. SubSeq(Data', 1, 0) = <<>>
    BY SubSeqEmpty
  <2>3. dev'.sum = SubSeq(Data', 1, Len(dev'.sum)) /\ Len(dev'.sum) <= Len(Data')
    BY <1>8, <2>1, <2>2
  <2>4. exp'.state = "RUNNING" /\ dev'.step = "TRANSFER_DATA"
    BY <1>4, <1>6
  <2> QED  BY <1>7, <2>3, <2>4 DEF DeviceRuns
<1>10. WriterRuns(WritingSteps)'
  BY <1>u DEF Asked, WriterRuns, WritingSteps, Data, Content
<1>11. ctl.step = "INITIALIZED2" /\ ctl.pos = 0 /\ ctl.head = 0
  BY DEF Asked, WriterRuns
<1>d. Dist(0, 0) = 0
  BY DEF Dist
<1>12. Level'
  BY <1>4, <1>5, <1>6, <1>11, <1>u, <1>d DEF Level
<1>13. ImpFlowing'
  <2>1. ImpPlaces' = ImpPlaces /\ \A i \in ImpPlaces : ImpAt(i)' = ImpAt(i)
    BY <1>u DEF ImpPlaces, ImpAt
  <2>2. ASSUME NEW i \in ImpPlaces, NEW j \in ImpPlaces
        PROVE  FlowsTo(ImpAt(i), ImpAt(j))'
    <3>x. PICK x, y : x = ImpAt(i) /\ y = ImpAt(j)
      OBVIOUS
    <3>1. x.cmd = "RUNNING" /\ x.head = 0 /\ y.head = 0
      BY <1>1, <3>x
    <3>2. Dist(x.head, dev'.tail) = 0 /\ Dist(y.head, dev'.tail) = 0
      BY <3>1, <1>4, <1>6, <1>d
    <3>3. Unread(x)'
      BY <3>2 DEF Unread, Position
    <3>4. FlowsTo(x, y)'
      BY <3>1, <3>2, <3>3 DEF FlowsTo, Going
    <3>5. x = ImpAt(i)' /\ y = ImpAt(j)'
      BY <2>1, <3>x
    <3> QED  BY <3>4, <3>5 DEF FlowsTo, Unread
  <2> QED  BY <2>1, <2>2 DEF ImpFlowing
<1>14. ExpGranting'
  <2>0. expLine \in Seq(ExpType) /\ exp.state = "IDLE"
    BY DEF Types, Asked, DeviceRests
  <2>1. PICK last \in ExpPlaces :
              /\ ExpPlaces' = ExpPlaces /\ ExpAt(last) = exp
              /\ \A i \in ExpPlaces : i <= last /\ ExpAt(i)' = IF i = last THEN exp' ELSE ExpAt(i)
    BY <1>u, <2>0, ExpLast
  <2>2. ASSUME NEW i \in ExpPlaces, NEW j \in ExpPlaces, i <= j
        PROVE  Grants(ExpAt(i), ExpAt(j))'
    <3>0. exp'.state = "RUNNING" /\ \A e \in ExpPlaces : ExpAt(e).state = "IDLE"
      BY <1>4, <1>6 DEF Asked, ExpIdle
    <3>1. CASE i = last
      <4>1. i \in Int /\ j \in Int /\ last \in Int /\ j <= last
        BY <2>1 DEF ExpPlaces
      <4>2. j = last
        BY <2>2, <3>1, <4>1
      <4>t. PICK t \in Position : t = exp'.tail
        BY <1>4, <1>6 DEF Storing, DevState, ExpType
      <4>h. PICK h \in Position : h = ctl'.head
        BY <1>u DEF Types, CtlType
      <4>3. Dist(h, t) \in Int
        BY DistMod DEF Position
      <4>4. ExpAt(i)' = exp' /\ ExpAt(j)' = exp'
        BY <2>1, <3>1, <4>2
      <4>5. Dist(ctl'.head, exp'.tail) <= Dist(ctl'.head, exp'.tail)
        BY <4>t, <4>h, <4>3
      <4> QED  BY <3>0, <4>4, <4>5 DEF Grants
    <3>2. CASE i # last
      <4>1. ExpAt(i)' = ExpAt(i)
        BY <2>1, <3>2
      <4> QED  BY <3>0, <4>1 DEF Grants
    <3> QED  BY <3>1, <3>2
  <2> QED  BY <2>1, <2>2 DEF ExpGranting
<1>16. opened' = selected'
  BY <1>2, <1>u
<1>15. ctl'.step = "INITIALIZED2"
  BY <1>11, <1>u
<1> QED  BY <1>9, <1>10, <1>12, <1>13, <1>14, <1>15, <1>16 DEF Flowing

LEMMA AskedDevice ==
    ASSUME Types, Asked, impSeen.conn, DeviceCall
    PROVE  Asked' \/ Flowing'
<1>1. ~dev.open
  BY DEF Asked, DeviceRests
<1>2. CASE cmd = "RUNNING"
  BY <1>1, <1>2, StartDevice
<1>3. CASE cmd # "RUNNING"
  <2>1. PollMakes
    BY <1>1, <1>3, PollCall
  <2> QED  BY <2>1, PollKeeps DEF Asked
<1> QED  BY <1>2, <1>3

\* A device that runs finds in the ring the bytes that follow those it has.
LEMMA RingFollows ==
    ASSUME Types, CtlOK(ctl), Flowing, NEW k, k = Dist(impSeen.sig.head, dev.tail),
           NEW s, s = dev.sum \o Fetched(impSeen.sig.buf, dev.tail, k)
    PROVE  /\ FlowsTo(impSeen.sig, impSeen.sig) /\ k \in 0 .. Dist(ctl.head, dev.tail) /\ k \in Nat
           /\ s = SubSeq(Data, 1, Len(s)) /\ Len(s) = Len(dev.sum) + k /\ Len(s) <= Len(Data)
           /\ cmd = "COMPLETED" => s = Data
<1>0. /\ impLine \in Seq(ImpType) /\ impSeen.sig \in ImpType /\ ctl \in CtlType /\ env \in Environments /\ selected \in Block
      /\ dev \in DevType /\ imp \in ImpType
  BY DEF Types, ImpCopy
<1>1. 0 \in ImpPlaces /\ ImpAt(0) = impSeen.sig /\ 0 <= 0 /\ \A i \in ImpPlaces : 0 <= i /\ i <= i
  BY PlaceTypes
<1>2. FlowsTo(impSeen.sig, impSeen.sig)
  BY <1>1 DEF Flowing, ImpFlowing
<1>3. FlowsTo(impSeen.sig, imp)
  <2>1. Len(impLine) + 1 \in ImpPlaces /\ ImpAt(Len(impLine) + 1) = imp
    BY <1>0 DEF ImpPlaces, ImpAt
  <2>2. 0 <= Len(impLine) + 1
    BY <1>1, <2>1
  <2> QED  BY <1>1, <2>1, <2>2 DEF Flowing, ImpFlowing
<1>h. PICK h \in Position : h = ctl.head
  BY <1>0 DEF CtlType
<1>t. PICK t \in Position : t = dev.tail
  BY <1>0 DEF DevType
<1>y. PICK y \in Position : y = impSeen.sig.head
  BY <1>0 DEF ImpType
<1>l. PICK len \in Nat : len = Len(dev.sum)
  BY <1>0 DEF DevType
<1>c. PICK n \in Nat : n = Len(Data)
  BY <1>0, ContentType
<1>e. PICK E \in Position : E = Dist(h, t)
  BY DistMod
<1>4. k = Dist(y, t) /\ k \in Position
  BY <1>y, <1>t, DistMod
<1>5. imp.head = h
  BY <1>h DEF Flowing, WriterRuns
<1>6. k <= E
  BY <1>3, <1>4, <1>5, <1>e, <1>t, <1>y DEF FlowsTo
<1>7. k \in Nat /\ E \in Nat /\ k \in 0 .. E
  BY <1>4, <1>6 DEF Position
<1>8. ctl.pos = len + E /\ len + E <= n
  <2>1. ctl.pos = len + E
    BY <1>e, <1>h, <1>l, <1>t DEF Flowing, Level
  <2> QED  BY <2>1, <1>c DEF CtlOK
<1>9. len + k <= n
  BY <1>7, <1>8
<1>10. s = SubSeq(Data, 1, len + k) /\ Len(s) = len + k
  <2>1. dev.sum = SubSeq(Data, 1, Len(dev.sum))
    BY DEF Flowing, DeviceRuns
  <2>2. k \in 0 .. Dist(impSeen.sig.head, dev.tail) /\ Unread(impSeen.sig)
    BY <1>2, <1>7 DEF FlowsTo
  <2>3. Len(dev.sum) + k <= Len(Data)
    BY <1>9, <1>c, <1>l
  <2>4. s = SubSeq(Data, 1, Len(dev.sum) + k) /\ Len(s) = Len(dev.sum) + k
    BY <1>0, <2>1, <2>2, <2>3, TakenFollow
  <2> QED  BY <1>l, <2>4
<1>11. ASSUME cmd = "COMPLETED" PROVE s = Data
  <2>1. impSeen.sig.head = ctl.head /\ ctl.step = "TRANSFER_DONE"
    BY <1>2, <1>11 DEF FlowsTo, cmd
  <2>2. ctl.pos = Len(Data)
    BY <2>1 DEF Flowing, WriterRuns
  <2>3. k = E
    BY <1>4, <1>e, <1>h, <1>y, <2>1
  <2>4. len + k = n
    BY <1>8, <1>c, <2>2, <2>3
  <2>5. Data \in Seq(Nat)
    BY <1>0, ContentType
  <2> QED  BY <1>10, <1>c, <2>4, <2>5, WholeSubSeq
<1>12. k \in 0 .. Dist(ctl.head, dev.tail)
  BY <1>7, <1>e, <1>h, <1>t
<1>13. s = SubSeq(Data, 1, Len(s)) /\ Len(s) = Len(dev.sum) + k /\ Len(s) <= Len(Data)
  BY <1>9, <1>10, <1>c, <1>l
<1> QED  BY <1>2, <1>7, <1>11, <1>12, <1>13

\* A call that takes all k bytes the device finds, and sends the new tail.
DeviceTakes(k) ==
    /\ k \in Nat /\ k = Dist(impSeen.sig.head, dev.tail) /\ k \in 0 .. Dist(ctl.head, dev.tail)
    /\ dev'.tail = Onward(dev.tail, k) /\ exp'.tail = dev'.tail
    /\ Len(dev'.sum) = Len(dev.sum) + k
    /\ exp'.state = "RUNNING"
    /\ UNCHANGED <<ctl, imp, expLine, impLine, expSeen, impSeen, link, opened, selected, env>>

\* Bytes taken are unread no more.
LEMMA TakesFlows ==
    ASSUME Types, Flowing, NEW k, DeviceTakes(k)
    PROVE  ImpFlowing'
<1>1. ImpPlaces' = ImpPlaces /\ \A i \in ImpPlaces : ImpAt(i)' = ImpAt(i)
  BY DEF DeviceTakes, ImpPlaces, ImpAt
<1>2. k \in Nat /\ k = Dist(impSeen.sig.head, dev.tail)
  BY DEF DeviceTakes
<1>3. dev'.tail = Onward(dev.tail, k) /\ Len(dev'.sum) = Len(dev.sum) + k /\ env' = env /\ selected' = selected /\ ctl' = ctl
  BY DEF DeviceTakes
<1>4. dev \in DevType /\ impSeen.sig \in ImpType
  BY DEF Types, ImpCopy
<1> SUFFICES ASSUME NEW i \in ImpPlaces, NEW j \in ImpPlaces, i <= j
             PROVE  FlowsTo(ImpAt(i), ImpAt(j))'
  BY <1>1 DEF ImpFlowing
<1>x. PICK x \in ImpType, y \in ImpType : x = ImpAt(i) /\ y = ImpAt(j)
  BY PlaceTypes
<1>5. x = ImpAt(i)' /\ y = ImpAt(j)'
  BY <1>1, <1>x
<1>6. FlowsTo(x, y)
  BY <1>x DEF Flowing, ImpFlowing
<1>7. 0 \in ImpPlaces /\ ImpAt(0) = impSeen.sig /\ 0 <= i /\ 0 <= j
  BY PlaceTypes
<1>8. FlowsTo(impSeen.sig, x) /\ FlowsTo(impSeen.sig, y)
  BY <1>7, <1>x DEF Flowing, ImpFlowing
<1>t. PICK t \in Position : t = dev.tail
  BY <1>4 DEF DevType
<1>9. x.head \in Position /\ y.head \in Position /\ impSeen.sig.head \in Position
  BY <1>4 DEF ImpType
<1>a. PICK A \in Position : A = Dist(x.head, t)
  BY <1>9, DistMod
<1>b. PICK B \in Position : B = Dist(y.head, t)
  BY <1>9, DistMod
<1>10. k <= A /\ k <= B /\ A <= B
  BY <1>2, <1>6, <1>8, <1>a, <1>b, <1>t DEF FlowsTo
<1>11. k \in 0 .. A /\ k \in 0 .. B /\ A \in Int /\ B \in Int
  BY <1>2, <1>10 DEF Position
<1>12. Unread(x)
  BY <1>6 DEF FlowsTo
<1>13. Unread(x)' /\ Dist(x.head, dev'.tail) = A - k
  <2>1. k \in 0 .. Dist(x.head, dev.tail)
    BY <1>11, <1>a, <1>t
  <2>2. Unread(x)' /\ Dist(x.head, dev'.tail) = Dist(x.head, dev.tail) - k
    BY <1>3, <1>4, <1>12, <2>1, UnreadMoves
  <2> QED  BY <2>2, <1>a, <1>t
<1>14. Dist(y.head, dev'.tail) = B - k
  <2>1. k \in 0 .. Dist(y.head, t)
    BY <1>11, <1>b
  <2>2. Dist(y.head, Onward(t, k)) = B - k
    BY <1>9, <1>b, <2>1, TailMoves
  <2> QED  BY <1>3, <1>t, <2>2
<1>15. Dist(x.head, dev'.tail) <= Dist(y.head, dev'.tail)
  BY <1>2, <1>10, <1>11, <1>13, <1>14
<1>16. FlowsTo(x, y)'
  BY <1>3, <1>6, <1>13, <1>15 DEF FlowsTo, Data, Content
<1> QED  BY <1>5, <1>16 DEF FlowsTo, Unread

\* The room shown grows.
LEMMA TakesGrants ==
    ASSUME Types, Flowing, NEW k, DeviceTakes(k)
    PROVE  ExpGranting'
<1>0. expLine \in Seq(ExpType) /\ UNCHANGED <<expLine, expSeen, ctl>> /\ dev \in DevType /\ ctl \in CtlType
  BY DEF Types, DeviceTakes
<1>1. PICK last \in ExpPlaces :
              /\ ExpPlaces' = ExpPlaces /\ ExpAt(last) = exp
              /\ \A i \in ExpPlaces : i <= last /\ ExpAt(i)' = IF i = last THEN exp' ELSE ExpAt(i)
  BY <1>0, ExpLast
<1>t. PICK t \in Position : t = dev.tail
  BY <1>0 DEF DevType
<1>h. PICK h \in Position : h = ctl.head
  BY <1>0 DEF CtlType
<1>2. exp.state = "RUNNING" /\ exp.tail = t
  BY <1>t DEF Flowing, DeviceRuns, Storing, Device0
<1>d. PICK D \in Position : D = Dist(h, t)
  BY DistMod
<1>3. exp'.state = "RUNNING" /\ Dist(h, exp'.tail) = D - k /\ D - k <= D /\ D \in Int /\ k \in Int /\ D - k \in Int
  <2>1. k \in 0 .. Dist(h, t) /\ k \in Nat /\ exp'.tail = Onward(t, k) /\ exp'.state = "RUNNING"
    BY <1>h, <1>t DEF DeviceTakes
  <2>2. Dist(h, Onward(t, k)) = D - k
    BY <1>d, <2>1, TailMoves
  <2> QED  BY <1>d, <2>1, <2>2 DEF Position
<1>4. ASSUME NEW i \in ExpPlaces, NEW j \in ExpPlaces, i <= j
      PROVE  Grants(ExpAt(i), ExpAt(j))'
  <2>0. Grants(ExpAt(i), ExpAt(j))
    BY <1>4 DEF Flowing, ExpGranting
  <2>1. CASE i = last
    <3>1. i \in Int /\ j \in Int /\ last \in Int /\ j <= last
      BY <1>1 DEF ExpPlaces
    <3>2. j = last
      BY <1>4, <2>1, <3>1
    <3>3. ExpAt(i)' = exp' /\ ExpAt(j)' = exp'
      BY <1>1, <2>1, <3>2
    <3>4. Dist(ctl'.head, exp'.tail) <= Dist(ctl'.head, exp'.tail)
      BY <1>0, <1>3, <1>h
    <3> QED  BY <1>3, <3>3, <3>4 DEF Grants
  <2>2. CASE i # last
    <3>1. ExpAt(i)' = ExpAt(i)
      BY <1>1, <2>2
    <3>2. CASE j = last
      <4> SUFFICES ASSUME ExpAt(i).state = "RUNNING"
                   PROVE  Dist(ctl'.head, ExpAt(j)'.tail) <= Dist(ctl'.head, ExpAt(i)'.tail)
        BY <1>1, <1>3, <2>0, <3>1, <3>2 DEF Grants
      <4>1. D <= Dist(h, ExpAt(i).tail)
        BY <1>1, <1>2, <1>d, <1>h, <2>0, <3>2 DEF Grants
      <4>2. Dist(h, ExpAt(j)'.tail) = D - k
        BY <1>1, <1>3, <3>2
      <4>3. Dist(h, ExpAt(i).tail) \in Int
        <5>1. PICK u \in Position : u = ExpAt(i).tail
          BY PlaceTypes DEF ExpType
        <5>2. Dist(h, u) \in Position
          BY DistMod
        <5> QED  BY <5>1, <5>2 DEF Position
      <4>4. Dist(h, ExpAt(j)'.tail) <= Dist(h, ExpAt(i).tail)
        BY <1>3, <4>1, <4>2, <4>3
      <4> QED  BY <1>0, <1>h, <3>1, <4>4
    <3>3. CASE j # last
      <4>1. ExpAt(j)' = ExpAt(j)
        BY <1>1, <3>3
      <4> QED  BY <1>0, <2>0, <3>1, <4>1 DEF Grants
    <3> QED  BY <3>2, <3>3
  <2> QED  BY <2>1, <2>2
<1> QED  BY <1>1, <1>4 DEF ExpGranting

\* The device has read and stored, and goes on.
LEMMA MoreDevice ==
    ASSUME Types, CtlOK(ctl), Flowing, NEW p, Alike(Device0, p), NEW r, Passed(p, r), CallMakes(r),
           UNCHANGED <<ctl, imp, expLine, impLine, expSeen, impSeen, link, opened, selected, env>>
    PROVE  Flowing'
<1>0. dev \in DevType /\ impSeen.sig \in ImpType /\ env \in Environments /\ ctl \in CtlType
  BY DEF Types, ImpCopy
<1>k. PICK k : k = Dist(impSeen.sig.head, dev.tail)
  OBVIOUS
<1>s. PICK s : s = dev.sum \o Fetched(impSeen.sig.buf, dev.tail, k)
  OBVIOUS
<1>1. /\ FlowsTo(impSeen.sig, impSeen.sig) /\ k \in 0 .. Dist(ctl.head, dev.tail) /\ k \in Nat
      /\ s = SubSeq(Data, 1, Len(s)) /\ Len(s) = Len(dev.sum) + k /\ Len(s) <= Len(Data)
      /\ cmd = "COMPLETED" => s = Data
  BY <1>k, <1>s, RingFollows
<1>2. p.s.tail = dev.tail /\ p.s.sum = dev.sum
  BY DEF Alike, Device0
<1>3. /\ Storing(r) /\ r.x.state = "RUNNING" /\ r.s.tail = impSeen.sig.head /\ r.s.sum = s
      /\ r.s.step = IF cmd = "RUNNING" THEN "TRANSFER_DATA" ELSE "TRANSFER_DONE"
  BY <1>2, <1>k, <1>s DEF Passed, Bytes
<1>4. dev' = r.s /\ exp' = r.x /\ disk' = r.k
  BY DEF CallMakes
<1>t. PICK t \in Position : t = dev.tail
  BY <1>0 DEF DevType
<1>y. PICK y \in Position : y = impSeen.sig.head
  BY <1>0 DEF ImpType
<1>5. y = Onward(t, k)
  BY <1>k, <1>t, <1>y, BufSzAssumption DEF Dist, Onward, Position
<1>6. DeviceTakes(k)
  <2>1. r.x.tail = r.s.tail
    BY <1>3 DEF Storing
  <2>2. dev'.tail = Onward(dev.tail, k) /\ exp'.tail = dev'.tail
    BY <1>3, <1>4, <1>5, <1>t, <1>y, <2>1
  <2>3. Len(dev'.sum) = Len(dev.sum) + k /\ exp'.state = "RUNNING"
    BY <1>1, <1>3, <1>4
  <2> QED  BY <1>1, <1>k, <2>2, <2>3 DEF DeviceTakes
<1>7. ImpFlowing' /\ ExpGranting'
  BY <1>6, TakesFlows, TakesGrants
<1>8. WriterRuns(WritingSteps)'
  BY DEF Flowing, WriterRuns, WritingSteps, Data, Content
<1>9. DeviceRuns'
  <2>1. Storing(Device0)'
    BY <1>3, <1>4 DEF Storing, Device0, DevState
  <2>2. cmd \in Going
    BY <1>1 DEF FlowsTo, cmd
  <2>3. dev'.step = "TRANSFER_DATA" \/ (dev'.step = "TRANSFER_DONE" /\ dev'.sum = Data' /\ impSeen'.sig.cmd = "COMPLETED")
    BY <1>1, <1>3, <1>4, <2>2 DEF Going, Data, Content, cmd
  <2>4. exp'.state = "RUNNING" /\ Len(dev'.sum) <= Len(Data') /\ dev'.sum = SubSeq(Data', 1, Len(dev'.sum))
    BY <1>1, <1>3, <1>4 DEF Data, Content
  <2> QED  BY <2>1, <2>3, <2>4 DEF DeviceRuns
<1>10. Level'
  <2>h. PICK h \in Position : h = ctl.head
    BY <1>0 DEF CtlType
  <2>e. PICK E \in Position : E = Dist(h, t)
    BY DistMod
  <2>l. PICK len \in Nat : len = Len(dev.sum)
    BY <1>0 DEF DevType
  <2>1. ctl.pos = len + E
    BY <1>t, <2>h, <2>e, <2>l DEF Flowing, Level
  <2>2. k \in 0 .. E
    BY <1>1, <1>t, <2>h, <2>e
  <2>3. Dist(h, Onward(t, k)) = E - k
    BY <2>e, <2>2, TailMoves
  <2>4. len + E = (len + k) + (E - k)
    BY <1>1, <2>2 DEF Position
  <2>5. dev'.tail = Onward(t, k) /\ Len(dev'.sum) = len + k /\ ctl' = ctl
    BY <1>6, <1>t, <2>l DEF DeviceTakes
  <2> QED  BY <2>1, <2>3, <2>4, <2>5, <2>h DEF Level
<1>11. (ctl'.step # "INITIALIZED2" => expSeen'.sig.state = "RUNNING") /\ opened' = selected'
  BY DEF Flowing
<1> QED  BY <1>7, <1>8, <1>9, <1>10, <1>11 DEF Flowing

\* The device has stored all and closed the transfer.
LEMMA LastDevice ==
    ASSUME Types, Flowing, cmd = "COMPLETED", NEW r, Ended(r, Data), CallMakes(r),
           UNCHANGED <<ctl, imp, expLine, impLine, expSeen, impSeen, link, opened, selected, env>>
    PROVE  Over'
<1>0. 0 \in ImpPlaces /\ ImpAt(0) = impSeen.sig /\ \A i \in ImpPlaces : 0 <= i /\ i <= i
  BY PlaceTypes
<1>1. ASSUME NEW i \in ImpPlaces PROVE ImpAt(i).cmd = "COMPLETED" /\ ctl.step = "TRANSFER_DONE"
  <2>1. FlowsTo(ImpAt(0), ImpAt(i))
    BY <1>0 DEF Flowing, ImpFlowing
  <2> QED  BY <1>0, <2>1 DEF FlowsTo, cmd
<1>2. dev' = r.s /\ exp' = r.x /\ disk' = r.k
  BY DEF CallMakes
<1>3. DeviceRests' /\ IsKept'
  BY <1>2 DEF Ended, DeviceRests, IsKept, Flowing, Data, Content
<1>4. ctl.step = "TRANSFER_DONE"
  BY <1>0, <1>1
<1>5. WriterRuns({"TRANSFER_DONE"})'
  BY <1>4 DEF Flowing, WriterRuns, Data, Content
<1>6. ImpQuiet'
  <2>1. ImpPlaces' = ImpPlaces /\ \A i \in ImpPlaces : ImpAt(i)' = ImpAt(i)
    BY DEF ImpPlaces, ImpAt
  <2> QED  BY <1>1, <2>1 DEF ImpQuiet
<1>7. ExpOver'
  <2>0. expLine \in Seq(ExpType) /\ expSeen.sig.state = "RUNNING"
    BY <1>4 DEF Types, Flowing
  <2>1. PICK last \in ExpPlaces :
              /\ ExpPlaces' = ExpPlaces /\ ExpAt(last) = exp
              /\ \A i \in ExpPlaces : i <= last /\ ExpAt(i)' = IF i = last THEN exp' ELSE ExpAt(i)
    BY <2>0, ExpLast
  <2>2. ASSUME NEW i \in ExpPlaces PROVE ExpAt(i).state = "RUNNING"
    <3>1. 0 \in ExpPlaces /\ ExpAt(0) = expSeen.sig /\ 0 <= i
      BY PlaceTypes
    <3>2. Grants(ExpAt(0), ExpAt(i))
      BY <3>1 DEF Flowing, ExpGranting
    <3> QED  BY <2>0, <3>1, <3>2 DEF Grants
  <2>3. exp'.state = "IDLE"
    BY <1>2 DEF Ended
  <2>4. ASSUME NEW i \in ExpPlaces, NEW j \in ExpPlaces, i <= j
        PROVE  /\ ExpAt(i)'.state \in {"RUNNING", "IDLE"}
               /\ ExpAt(i)'.state = "IDLE" => ExpAt(j)'.state = "IDLE"
    <3>1. CASE i = last
      <4>1. i \in Int /\ j \in Int /\ last \in Int /\ j <= last
        BY <2>1 DEF ExpPlaces
      <4>2. j = last
        BY <2>4, <3>1, <4>1
      <4> QED  BY <2>1, <2>3, <3>1, <4>2
    <3>2. CASE i # last
      BY <2>1, <2>2, <3>2
    <3> QED  BY <3>1, <3>2
  <2> QED  BY <2>1, <2>4 DEF ExpOver
<1> QED  BY <1>3, <1>5, <1>6, <1>7 DEF Over

LEMMA FlowingDevice ==
    ASSUME Types, CtlOK(ctl), Flowing, impSeen.conn, DeviceCall
    PROVE  Flowing' \/ Over'
<1>0. impSeen \in ImpCopy
  BY DEF Types
<1>k. PICK k : k = Dist(impSeen.sig.head, dev.tail)
  OBVIOUS
<1>s. PICK s : s = dev.sum \o Fetched(impSeen.sig.buf, dev.tail, k)
  OBVIOUS
<1>1. FlowsTo(impSeen.sig, impSeen.sig) /\ (cmd = "COMPLETED" => s = Data)
  BY <1>k, <1>s, RingFollows
<1>2. cmd \in Going /\ (cmd = "COMPLETED" => impSeen.sig.cs = Data)
  BY <1>1 DEF FlowsTo, cmd
<1>3. dev.open /\ Storing(Device0) /\ Device0.s = dev /\ Device0.x = exp /\ exp.state = "RUNNING"
  BY DEF Flowing, DeviceRuns, Storing, Device0
<1>u. UNCHANGED <<ctl, imp, expLine, impLine, expSeen, impSeen, link, opened, selected, env>>
  BY <1>3, CallOutcome
<1>p. PICK p : Alike(Device0, p) /\ CallMakes(ToDevice(p, FALSE, FALSE))
  BY <1>3, CallOutcome
<1>r. PICK r : r = ToDevice(p, FALSE, FALSE)
  OBVIOUS
<1>4. Storing(p) /\ p.s.step = dev.step /\ p.x.state = "RUNNING" /\ p.s.sum = dev.sum /\ p.s.tail = dev.tail
  BY <1>3, <1>p DEF Alike, Storing
<1>5. CallMakes(r)
  BY <1>p, <1>r
<1>6. p.s.sum \o Bytes(p) = s
  BY <1>4, <1>k, <1>s DEF Bytes
<1>7. CASE dev.step = "TRANSFER_DATA"
  <2>1. Passed(p, r) \/ (cmd = "COMPLETED" /\ Ended(r, p.s.sum \o Bytes(p)))
    <3>1. cmd = "COMPLETED" => p.s.sum \o Bytes(p) = impSeen.sig.cs
      BY <1>1, <1>2, <1>6
    <3> QED  BY <1>0, <1>2, <1>4, <1>7, <1>r, <3>1, CleanToDevice
  <2>2. CASE Passed(p, r)
    BY <1>p, <1>5, <1>u, <2>2, MoreDevice
  <2>3. CASE cmd = "COMPLETED" /\ Ended(r, p.s.sum \o Bytes(p))
    <3>1. Ended(r, Data)
      BY <1>1, <1>6, <2>3
    <3> QED  BY <1>5, <1>u, <2>3, <3>1, LastDevice
  <2> QED  BY <2>1, <2>2, <2>3
<1>8. CASE dev.step # "TRANSFER_DATA"
  <2>1. dev.step = "TRANSFER_DONE" /\ dev.sum = Data /\ cmd = "COMPLETED"
    BY <1>8 DEF Flowing, DeviceRuns, cmd
  <2>2. p.s.sum = impSeen.sig.cs
    BY <1>2, <1>4, <2>1
  <2>3. Ended(r, p.s.sum)
    BY <1>0, <1>4, <1>r, <2>1, <2>2, DoneToDevice
  <2>4. Ended(r, Data)
    BY <1>4, <2>1, <2>3
  <2> QED  BY <1>5, <1>u, <2>1, <2>4, LastDevice
<1> QED  BY <1>7, <1>8

\* A step of the device, undisturbed.
LEMMA CleanDevice ==
    ASSUME Undisturbed, TodInv, CleanInv, Device
    PROVE  CleanInv'
<1>0. Types /\ CtlOK(ctl) /\ link = "up" /\ expSeen.conn /\ impSeen.conn /\ Stages
  BY DEF TodInv, SumsWhole, CleanInv
<1>1. PICK rval \in {"PENDING", "COMPLETED", "DEVICE_PROGRAMMING_FAILED"},
           refused \in BOOLEAN, late \in BOOLEAN, badWrite \in BOOLEAN :
         RunControlStream(refused, rval, late, badWrite)
  BY DEF Device
<1>2. refused = FALSE /\ late = FALSE /\ badWrite = FALSE
  <2>1. ~refused /\ ~late /\ ~badWrite
    BY <1>1 DEF RunControlStream, Undisturbed
  <2> QED  BY <2>1
<1>3. DeviceCall
  BY <1>1, <1>2 DEF DeviceCall
<1>4. Stages'
  BY <1>0, <1>3, RestingDevice, AskedDevice, FlowingDevice, OverDevice DEF Stages
<1>5. UNCHANGED <<expSeen, impSeen, link>>
  BY <1>0, <1>3, CallOutcome
<1> QED  BY <1>0, <1>4, <1>5 DEF CleanInv

----------------------------------------------------------------------------
(* Undisturbed transfers: steps of the controller.                         *)

\* r is c with k more bytes in the ring, or with the end marked.
Sent(c, k, r) ==
    /\ k \in Nat /\ c.s.pos + k <= Len(Data) /\ k + Dist(c.s.head, expSeen.sig.tail) < BufSz
    /\ r.s.open = c.s.open /\ r.s.step = c.s.step /\ r.s.head = Onward(c.s.head, k) /\ r.s.pos = c.s.pos + k
    /\ r.x.cmd = c.x.cmd /\ r.x.head = r.s.head
    /\ \A q \in Position :
          r.x.buf[Onward(c.s.head, q)] =
              IF q < k THEN Data[c.s.pos + q + 1] ELSE c.x.buf[Onward(c.s.head, q)]
Marked(c, r) ==
    /\ c.s.pos = Len(Data)
    /\ r.s.open = c.s.open /\ r.s.step = "TRANSFER_DONE" /\ r.s.head = c.s.head /\ r.s.pos = c.s.pos
    /\ r.x.cmd = "COMPLETED" /\ r.x.head = c.x.head /\ r.x.buf = c.x.buf /\ r.x.cs = Data

\* The first k bytes of what is left of a sequence.
LEMMA RestAt ==
    ASSUME NEW c \in Seq(Nat), NEW p \in Nat, NEW k \in Nat, p + k <= Len(c), NEW i \in Nat, i < k
    PROVE  SubSeq(SubSeq(c, p + 1, Len(c)), 1, k)[i + 1] = c[p + i + 1]
<1>n. PICK n \in Nat : n = Len(c)
  OBVIOUS
<1>m. PICK m \in Nat : p + m = n
  <2>1. n - p \in Nat /\ p + (n - p) = n
    BY <1>n
  <2> QED  BY <2>1
<1>1. k <= m /\ i < m
  BY <1>n, <1>m
<1>r. PICK r : r = SubSeq(c, p + 1, p + m)
  OBVIOUS
<1>2. r \in Seq(Nat) /\ Len(r) = m
  <2>1. p + m <= Len(c)
    BY <1>m, <1>n
  <2>2. SubSeq(c, p + 1, p + m) \in Seq(Nat) /\ Len(SubSeq(c, p + 1, p + m)) = m
    BY <2>1, ReadOn
  <2> QED  BY <1>r, <2>2
<1>3. r[i + 1] = c[p + i + 1]
  <2>1. p + m <= Len(c)
    BY <1>m, <1>n
  <2>2. SubSeq(c, p + 1, p + m)[i + 1] = c[p + i + 1]
    BY <1>1, <2>1, SubSeqAt
  <2> QED  BY <1>r, <2>2
<1>4. SubSeq(r, 0 + 1, 0 + k)[i + 1] = r[0 + i + 1]
  <2>1. 0 \in Nat /\ 0 + k <= Len(r)
    BY <1>1, <1>2
  <2> QED  BY <1>1, <1>2, <2>1, SubSeqAt
<1>5. 0 + 1 = 1 /\ 0 + k = k /\ 0 + i + 1 = i + 1
  OBVIOUS
<1> QED  BY <1>3, <1>4, <1>5, <1>m, <1>n, <1>r

LEMMA CleanWriteData ==
    ASSUME env \in Environments, selected \in Block, expSeen \in ExpCopy, NEW c \in CtlPair, CtlOK(c.s), c.x.head = c.s.head
    PROVE  Marked(c, WriteData(c)) \/ \E k : Sent(c, k, WriteData(c))
<1>r. PICK r : r = WriteData(c)
  OBVIOUS
<1>0. c = [s |-> c.s, x |-> c.x] /\ c.s \in CtlType /\ c.x \in ImpType
  BY DEF CtlPair
<1>1. /\ c.s.pos \in Nat /\ c.s.head \in Position /\ c.s.sum \in Seq(Nat)
      /\ c.x.head \in Position /\ c.x.buf \in [Position -> Nat]
  BY <1>0 DEF CtlType, ImpType
<1>2. expSeen.sig.tail \in Position
  BY DEF ExpCopy, ExpType
<1>3. /\ Data \in Seq(Nat) /\ Len(Data) \in Nat
      /\ c.s.pos <= Len(Data) /\ c.s.sum = SubSeq(Data, 1, c.s.pos)
  BY <1>0, ContentType DEF CtlOK
<1>t. PICK rest : rest = SubSeq(Data, c.s.pos + 1, Len(Data))
  OBVIOUS
<1>4. rest \in Seq(Nat) /\ Len(rest) = Len(Data) - c.s.pos
  <2>1. 0 \in Nat /\ c.s.pos + 0 <= Len(Data)
    BY <1>1, <1>3
  <2> QED  BY <1>1, <1>3, <1>t, <2>1, SendOn
<1>k. PICK k : k = WriteCount(c.s.head, expSeen.sig.tail, Len(rest))
  OBVIOUS
<1>5. k \in 0 .. Len(rest) /\ k \in Nat /\ k + Dist(c.s.head, expSeen.sig.tail) < BufSz
  <2>1. Len(rest) \in Nat
    BY <1>4
  <2>2. k \in 0 .. Len(rest) /\ k + Dist(c.s.head, expSeen.sig.tail) < BufSz
    BY <1>1, <1>2, <1>k, <2>1, WriteRoom
  <2> QED  BY <2>1, <2>2
<1>6. CASE rest = <<>>
  <2>1. c.s.pos = Len(Data)
    <3>1. Len(rest) = 0
      BY <1>6
    <3>p. PICK q \in Nat : q = c.s.pos
      BY <1>1
    <3>n. PICK n \in Nat : n = Len(Data)
      BY <1>3
    <3>2. n - q = 0
      BY <1>4, <3>1, <3>p, <3>n
    <3>3. n = q
      BY <3>2
    <3> QED  BY <3>3, <3>p, <3>n
  <2>2. c.s.sum = Data
    BY <1>3, <2>1, SubSeqFull
  <2>3. r = [c EXCEPT !.x.cs = c.s.sum, !.x.cmd = "COMPLETED", !.s.step = "TRANSFER_DONE"]
    BY <1>r, <1>t, <1>6 DEF WriteData, Data
  <2>s. PICK s : s = [c.s EXCEPT !.step = "TRANSFER_DONE"]
    OBVIOUS
  <2>x. PICK x : x = [c.x EXCEPT !.cs = c.s.sum, !.cmd = "COMPLETED"]
    OBVIOUS
  <2>4. r = [s |-> s, x |-> x]
    BY <1>0, <2>3, <2>s, <2>x
  <2>6. s.open = c.s.open /\ s.step = "TRANSFER_DONE" /\ s.head = c.s.head /\ s.pos = c.s.pos
    BY <1>0, <2>s DEF CtlType
  <2>7. x.cs = c.s.sum /\ x.cmd = "COMPLETED" /\ x.head = c.x.head /\ x.buf = c.x.buf
    BY <1>0, <2>x DEF ImpType
  <2>8. r.s = s /\ r.x = x
    BY <2>4
  <2>9. Marked(c, r)
    BY <2>1, <2>2, <2>6, <2>7, <2>8 DEF Marked
  <2> QED  BY <1>r, <2>9
<1>7. CASE rest # <<>>
  <2>h. PICK h : h = (c.s.head + k) % BufSz
    OBVIOUS
  <2>1. h = Onward(c.s.head, k)
    <3>1. Dist(c.s.head, expSeen.sig.tail) \in Position
      BY <1>1, <1>2, DistMod
    <3>2. k \in 0 .. BufSz
      BY <1>5, <3>1, BufSzAssumption DEF Position
    <3> QED  BY <1>1, <2>h, <3>2, OnwardMod
  <2>p. PICK part : part = SubSeq(rest, 1, k)
    OBVIOUS
  <2>n. PICK n : n = c.s.pos + k
    OBVIOUS
  <2>2. c.s.pos + k <= Len(Data)
    <3>q. PICK q \in Nat : q = c.s.pos
      BY <1>1
    <3>m. PICK m \in Nat : m = Len(Data)
      BY <1>3
    <3>1. k \in Nat /\ k <= m - q
      BY <1>4, <1>5, <3>q, <3>m
    <3>2. q + k <= m
      BY <3>1
    <3> QED  BY <3>q, <3>m, <3>2
  <2>3. part \in Seq(Nat) /\ Len(part) = k
    BY <1>4, <1>5, <2>p
  <2>b. PICK b : b = Stored(c.x.buf, c.s.head, part)
    OBVIOUS
  <2>4. ASSUME NEW q \in Position
        PROVE  b[Onward(c.s.head, q)] =
                  IF q < k THEN Data[c.s.pos + q + 1] ELSE c.x.buf[Onward(c.s.head, q)]
    <3>1. b[Onward(c.s.head, q)] = IF q < Len(part) THEN part[q + 1] ELSE c.x.buf[Onward(c.s.head, q)]
      BY <1>1, <2>b, <2>3, StoredOnward
    <3>2. ASSUME q < k PROVE part[q + 1] = Data[c.s.pos + q + 1]
      <4>1. q \in Nat
        BY DEF Position
      <4>2. PICK at \in Nat : at = c.s.pos
        BY <1>1
      <4>3. at + k <= Len(Data)
        BY <2>2, <4>2
      <4>4. SubSeq(SubSeq(Data, at + 1, Len(Data)), 1, k)[q + 1] = Data[at + q + 1]
        BY <1>3, <1>5, <3>2, <4>1, <4>3, RestAt
      <4>5. part = SubSeq(SubSeq(Data, at + 1, Len(Data)), 1, k)
        BY <1>t, <2>p, <4>2
      <4>6. part[q + 1] = Data[at + q + 1]
        BY <4>4, <4>5
      <4> QED  BY <4>2, <4>6
    <3> QED  BY <2>3, <3>1, <3>2
  <2>u. PICK u : u = c.s.sum \o part
    OBVIOUS
  <2>y. PICK xh : xh = IF k > 0 THEN h ELSE c.x.head
    OBVIOUS
  <2>6. xh = h
    <3>1. k = 0 => h = c.s.head
      BY <1>1, <2>1, BufSzAssumption DEF Onward, Position
    <3>2. k > 0 \/ k = 0
      BY <1>5
    <3> QED  BY <2>y, <3>1, <3>2
  <2>7. r = [c EXCEPT !.s.head = h, !.x.head = xh, !.x.buf = b, !.s.sum = u, !.s.pos = n]
    BY <1>r, <1>t, <1>k, <1>7, <2>h, <2>p, <2>n, <2>b, <2>u, <2>y DEF WriteData, Data
  <2>s. PICK s : s = [c.s EXCEPT !.head = h, !.sum = u, !.pos = n]
    OBVIOUS
  <2>x. PICK x : x = [c.x EXCEPT !.head = xh, !.buf = b]
    OBVIOUS
  <2>8. r = [s |-> s, x |-> x]
    BY <1>0, <2>7, <2>s, <2>x
  <2>9. s.open = c.s.open /\ s.step = c.s.step /\ s.head = h /\ s.pos = n
    BY <1>0, <2>s DEF CtlType
  <2>10. x.cmd = c.x.cmd /\ x.head = xh /\ x.buf = b
    BY <1>0, <2>x DEF ImpType
  <2>11. r.s = s /\ r.x = x
    BY <2>8
  <2>12. Sent(c, k, r)
    <3>1. /\ r.s.open = c.s.open /\ r.s.step = c.s.step /\ r.s.head = Onward(c.s.head, k) /\ r.s.pos = c.s.pos + k
          /\ r.x.cmd = c.x.cmd /\ r.x.head = r.s.head /\ r.x.buf = b
      BY <2>1, <2>6, <2>9, <2>10, <2>11, <2>n
    <3>2. \A q \in Position : r.x.buf[Onward(c.s.head, q)] =
                  IF q < k THEN Data[c.s.pos + q + 1] ELSE c.x.buf[Onward(c.s.head, q)]
      BY <2>4, <3>1
    <3> QED  BY <1>5, <2>2, <3>1, <3>2 DEF Sent
  <2> QED  BY <1>r, <2>12
<1> QED  BY <1>6, <1>7

\* The call makes c of the controller.
Wrote(c, result) ==
    /\ imp' = c.x
    /\ ctl'.open = c.s.open /\ ctl'.step = c.s.step /\ ctl'.head = c.s.head /\ ctl'.pos = c.s.pos
    /\ ctl'.result = result
    /\ UNCHANGED <<dev, exp, disk, expLine, impLine, expSeen, impSeen, link, opened, selected, env>>

LEMMA CallWrites ==
    ASSUME TodInv, Write(FALSE, FALSE), NEW c, c = ControllerWrite(Controller0, FALSE, FALSE)
    PROVE  /\ ctl.open /\ ctl.result = "none"
           /\ c.s.step \in {"INITIALIZED2", "TRANSFER_DATA", "TRANSFER_DONE"} => Wrote(c, "none")
           /\ c.s.step = "ALL_COMPLETED" => Wrote(c, "completed")
           /\ c = Controller0 /\ c.s.step \in {"INITIALIZED2", "TRANSFER_DATA", "TRANSFER_DONE"} =>
                 UNCHANGED vars
<1>1. Types /\ SumsWhole /\ env \in Environments /\ selected \in Block /\ expSeen \in ExpCopy /\ ctl \in CtlType /\ imp \in ImpType
  BY DEF TodInv, Types
<1>q. PICK q : q = Controller0
  OBVIOUS
<1>2. q.s = ctl /\ q.x = imp
  BY <1>q DEF Controller0
<1>3. CtlGood(q)
  <2>1. q = [s |-> ctl, x |-> imp]
    BY <1>q DEF Controller0
  <2>2. q \in CtlPair
    BY <1>1, <2>1 DEF CtlPair
  <2> QED  BY <1>1, <1>2, <2>2 DEF CtlGood, SumsWhole
<1>4. c = ControllerWrite(q, FALSE, FALSE)
  BY <1>q
<1>5. CtlGood(c)
  BY <1>1, <1>3, <1>4, ControllerWriteGood
<1>6. c.s \in CtlType
  BY <1>5 DEF CtlGood, CtlPair
<1>r. PICK r : r = CASE Status(c.s.step) = "SUCCESS" -> "none"
                     [] Status(c.s.step) = "COMPLETED" -> "completed"
                     [] OTHER -> "failed"
  OBVIOUS
<1>7. /\ ctl' = [c.s EXCEPT !.result = r] /\ imp' = c.x
      /\ UNCHANGED <<dev, exp, disk, expLine, impLine, expSeen, impSeen, link, opened, selected, env>>
      /\ ctl.open /\ ctl.result = "none"
  BY <1>4, <1>q, <1>r DEF Write
<1>8. /\ ctl'.open = c.s.open /\ ctl'.step = c.s.step /\ ctl'.head = c.s.head /\ ctl'.pos = c.s.pos
      /\ ctl'.result = r
  BY <1>6, <1>7 DEF CtlType
<1>9. Wrote(c, r)
  BY <1>7, <1>8 DEF Wrote
<1>10. c.s.step \in {"INITIALIZED2", "TRANSFER_DATA", "TRANSFER_DONE"} => r = "none"
  BY <1>r DEF Status
<1>11. c.s.step = "ALL_COMPLETED" => r = "completed"
  BY <1>r DEF Status
<1>12. ASSUME c = Controller0, r = "none" PROVE UNCHANGED vars
  <2>1. c.s = ctl /\ c.x = imp
    BY <1>12, <1>2, <1>q
  <2>2. ctl' = [ctl EXCEPT !.result = "none"]
    BY <1>7, <1>12, <2>1
  <2>3. [ctl EXCEPT !.result = "none"] = ctl
    BY <1>1, <1>7 DEF CtlType
  <2> QED  BY <1>7, <2>1, <2>2, <2>3 DEF vars
<1> QED  BY <1>7, <1>9, <1>10, <1>11, <1>12

\* The calls of a controller that waits, starts or is answered.
LEMMA WriteCalls ==
    ASSUME TodInv, expSeen.conn, Write(FALSE, FALSE)
    PROVE  /\ ctl.open /\ ctl.result = "none"
           /\ ctl.step = "INITIALIZED" =>
                 /\ ctl'.open /\ ctl'.result = "none" /\ ctl'.step = "INITIALIZED2"
                 /\ ctl'.head = ctl.head /\ ctl'.pos = ctl.pos
                 /\ imp'.cmd = "RUNNING" /\ imp'.head = imp.head /\ imp'.sel = selected
                 /\ UNCHANGED <<dev, exp, disk, expLine, impLine, expSeen, impSeen, link, opened, selected, env>>
           /\ (ctl.step = "INITIALIZED2" /\ state # "RUNNING") \/ (ctl.step = "TRANSFER_DONE" /\ state = "RUNNING") =>
                 UNCHANGED vars
           /\ ctl.step = "TRANSFER_DONE" /\ state # "RUNNING" =>
                 /\ ctl'.open /\ ctl'.result = "completed" /\ ctl'.step = "ALL_COMPLETED"
                 /\ imp'.cmd = "IDLE"
                 /\ UNCHANGED <<dev, exp, disk, expLine, impLine, expSeen, impSeen, link, opened, selected, env>>
<1>c. PICK c : c = ControllerWrite(Controller0, FALSE, FALSE)
  OBVIOUS
<1>1. /\ ctl.open /\ ctl.result = "none"
      /\ c.s.step \in {"INITIALIZED2", "TRANSFER_DATA", "TRANSFER_DONE"} => Wrote(c, "none")
      /\ c.s.step = "ALL_COMPLETED" => Wrote(c, "completed")
      /\ c = Controller0 /\ c.s.step \in {"INITIALIZED2", "TRANSFER_DATA", "TRANSFER_DONE"} =>
            UNCHANGED vars
  BY <1>c, CallWrites
<1>q. PICK q : q = Controller0
  OBVIOUS
<1>2. q.s = ctl /\ q.x = imp /\ q = [s |-> ctl, x |-> imp] /\ ctl \in CtlType /\ imp \in ImpType
  BY <1>q DEF Controller0, TodInv, Types
<1>3. c = ControllerWrite(q, FALSE, FALSE)
  BY <1>c, <1>q
<1>4. ASSUME NEW m \in {"IDLE", "RUNNING"}, NEW t, c = [q EXCEPT !.x.cmd = m, !.s.step = t]
      PROVE  /\ c.x.cmd = m /\ c.x.head = imp.head /\ c.s.step = t
             /\ c.s.open = ctl.open /\ c.s.head = ctl.head /\ c.s.pos = ctl.pos
  <2>s. PICK s : s = [ctl EXCEPT !.step = t]
    OBVIOUS
  <2>x. PICK x : x = [imp EXCEPT !.cmd = m]
    OBVIOUS
  <2>1. c = [s |-> s, x |-> x]
    BY <1>2, <1>4, <2>s, <2>x
  <2>2. s.step = t /\ s.open = ctl.open /\ s.head = ctl.head /\ s.pos = ctl.pos
    BY <1>2, <2>s DEF CtlType
  <2>3. x.cmd = m /\ x.head = imp.head
    BY <1>2, <2>x DEF ImpType
  <2> QED  BY <2>1, <2>2, <2>3
<1>5. ASSUME ctl.step = "INITIALIZED"
      PROVE  /\ ctl'.open /\ ctl'.result = "none" /\ ctl'.step = "INITIALIZED2"
             /\ ctl'.head = ctl.head /\ ctl'.pos = ctl.pos
             /\ imp'.cmd = "RUNNING" /\ imp'.head = imp.head /\ imp'.sel = selected
             /\ UNCHANGED <<dev, exp, disk, expLine, impLine, expSeen, impSeen, link, opened, selected, env>>
  <2>1. c = [q EXCEPT !.x.sel = selected, !.x.cmd = "RUNNING", !.s.step = "INITIALIZED2"]
    BY <1>2, <1>3, <1>5 DEF ControllerWrite
  <2>s. PICK s : s = [ctl EXCEPT !.step = "INITIALIZED2"]
    OBVIOUS
  <2>x. PICK x : x = [imp EXCEPT !.sel = selected, !.cmd = "RUNNING"]
    OBVIOUS
  <2>3. c = [s |-> s, x |-> x]
    BY <1>2, <2>1, <2>s, <2>x
  <2>4. s.step = "INITIALIZED2" /\ s.open = ctl.open /\ s.head = ctl.head /\ s.pos = ctl.pos
    BY <1>2, <2>s DEF CtlType
  <2>5. x.cmd = "RUNNING" /\ x.head = imp.head /\ x.sel = selected
    BY <1>2, <2>x DEF ImpType
  <2>2. /\ c.x.cmd = "RUNNING" /\ c.x.head = imp.head /\ c.s.step = "INITIALIZED2" /\ c.x.sel = selected
        /\ c.s.open = ctl.open /\ c.s.head = ctl.head /\ c.s.pos = ctl.pos
    BY <2>3, <2>4, <2>5
  <2> QED  BY <1>1, <2>2 DEF Wrote
<1>6. ASSUME (ctl.step = "INITIALIZED2" /\ state # "RUNNING") \/ (ctl.step = "TRANSFER_DONE" /\ state = "RUNNING")
      PROVE  UNCHANGED vars
  <2>1. c = q
    BY <1>2, <1>3, <1>6 DEF ControllerWrite, AwaitStart, WaitsForDevice
  <2>2. c.s.step \in {"INITIALIZED2", "TRANSFER_DATA", "TRANSFER_DONE"}
    BY <1>2, <1>6, <2>1
  <2> QED  BY <1>1, <1>q, <2>1, <2>2
<1>7. ASSUME ctl.step = "TRANSFER_DONE", state # "RUNNING"
      PROVE  /\ ctl'.open /\ ctl'.result = "completed" /\ ctl'.step = "ALL_COMPLETED"
             /\ imp'.cmd = "IDLE"
             /\ UNCHANGED <<dev, exp, disk, expLine, impLine, expSeen, impSeen, link, opened, selected, env>>
  <2>1. c = [q EXCEPT !.x.cmd = "IDLE", !.s.step = "ALL_COMPLETED"]
    BY <1>2, <1>3, <1>7 DEF ControllerWrite, WaitsForDevice
  <2>2. c.x.cmd = "IDLE" /\ c.s.step = "ALL_COMPLETED" /\ c.s.open = ctl.open
    BY <1>4, <2>1
  <2> QED  BY <1>1, <2>2 DEF Wrote
<1> QED  BY <1>1, <1>5, <1>6, <1>7

\* A call in the data phase.
LEMMA WriteMore ==
    ASSUME TodInv, expSeen.conn, Write(FALSE, FALSE), state = "RUNNING", imp.head = ctl.head,
           ctl.step \in {"INITIALIZED2", "TRANSFER_DATA"}
    PROVE  \E c, r :
              /\ c.s.open = ctl.open /\ c.s.head = ctl.head /\ c.s.pos = ctl.pos
              /\ c.s.step = "TRANSFER_DATA" /\ c.x = imp
              /\ Marked(c, r) \/ \E k : Sent(c, k, r)
              /\ Wrote(r, "none")
<1>q. PICK q : q = Controller0
  OBVIOUS
<1>0. Types /\ CtlOK(ctl) /\ ctl \in CtlType /\ imp \in ImpType /\ env \in Environments /\ selected \in Block /\ expSeen \in ExpCopy
  BY DEF TodInv, Types, SumsWhole
<1>1. q.s = ctl /\ q.x = imp /\ q = [s |-> ctl, x |-> imp]
  BY <1>q DEF Controller0
<1>c. PICK c : c = [q EXCEPT !.s.step = "TRANSFER_DATA"]
  OBVIOUS
<1>s. PICK s : s = [ctl EXCEPT !.step = "TRANSFER_DATA"]
  OBVIOUS
<1>2. c = [s |-> s, x |-> imp]
  BY <1>1, <1>c, <1>s
<1>3. /\ s \in CtlType /\ s.open = ctl.open /\ s.head = ctl.head /\ s.pos = ctl.pos /\ s.sum = ctl.sum
      /\ s.step = "TRANSFER_DATA"
  BY <1>0, <1>s DEF CtlType, Steps
<1>4. c \in CtlPair /\ c.s = s /\ c.x = imp
  BY <1>0, <1>2, <1>3 DEF CtlPair
<1>5. CtlOK(c.s)
  BY <1>0, <1>3, <1>4 DEF CtlOK
<1>r. PICK r : r = WriteData(c)
  OBVIOUS
<1>6. Marked(c, r) \/ \E k : Sent(c, k, r)
  BY <1>0, <1>3, <1>4, <1>5, <1>r, CleanWriteData
<1>7. r = ControllerWrite(Controller0, FALSE, FALSE)
  <2>1. TransferOut(q, FALSE) = r
    BY <1>c, <1>r DEF TransferOut
  <2>2. AwaitStart(q, FALSE, FALSE) = TransferOut(q, FALSE)
    BY DEF AwaitStart
  <2> QED  BY <1>1, <1>q, <2>1, <2>2 DEF ControllerWrite
<1>8. r.s.step \in {"TRANSFER_DATA", "TRANSFER_DONE"}
  BY <1>3, <1>4, <1>6 DEF Marked, Sent
<1>9. Wrote(r, "none")
  BY <1>7, <1>8, CallWrites
<1> QED  BY <1>3, <1>4, <1>6, <1>9

LEMMA StagesStay ==
    ASSUME Types, Stages, UNCHANGED vars
    PROVE  Stages'
<1>1. UNCHANGED <<dev, exp, disk, ctl, imp, expLine, impLine, expSeen, impSeen, opened, selected, env>>
  BY DEF vars
<1>2. expLine \in Seq(ExpType) /\ impLine \in Seq(ImpType)
  BY DEF Types
<1>3. Types'
  BY <1>1 DEF Types
<1>4. ExpKept /\ ImpKept
  BY <1>1, <1>2, ExpMoves, ImpMoves
<1> QED  BY <1>1, <1>3, <1>4, StagesKept

\* The controller's own signals are the last snapshot.
LEMMA LaterImps ==
    ASSUME Types, UNCHANGED <<impLine, impSeen>>
    PROVE  \E last \in ImpPlaces :
              /\ ImpPlaces' = ImpPlaces /\ ImpAt(last) = imp /\ ImpAt(last)' = imp'
              /\ \A i \in ImpPlaces : i <= last /\ (i # last => ImpAt(i)' = ImpAt(i))
              /\ \A j \in ImpPlaces : last <= j => j = last
<1>1. PICK last \in ImpPlaces :
              /\ ImpPlaces' = ImpPlaces /\ ImpAt(last) = imp
              /\ \A i \in ImpPlaces : i <= last /\ ImpAt(i)' = IF i = last THEN imp' ELSE ImpAt(i)
  BY ImpLast DEF Types
<1>2. ASSUME NEW j \in ImpPlaces, last <= j PROVE j = last
  <2>1. j \in Int /\ last \in Int /\ j <= last
    BY <1>1 DEF ImpPlaces
  <2> QED  BY <1>2, <2>1
<1> QED  BY <1>1, <1>2

\* The controller asks for a transfer.
LEMMA RestingWrite ==
    ASSUME TodInv, Resting, expSeen.conn, Write(FALSE, FALSE)
    PROVE  Asked'
<1>0. Types /\ ctl.open /\ ctl.result = "none"
  BY WriteCalls DEF TodInv
<1>1. ctl.step = "INITIALIZED" /\ imp.head = 0 /\ ctl.head = 0 /\ ctl.pos = 0
  BY <1>0 DEF Resting, WriterRests, NoWriter
<1>2. /\ ctl'.open /\ ctl'.result = "none" /\ ctl'.step = "INITIALIZED2"
      /\ ctl'.head = 0 /\ ctl'.pos = 0 /\ imp'.cmd = "RUNNING" /\ imp'.head = 0 /\ imp'.sel = selected
      /\ UNCHANGED <<dev, exp, disk, expLine, impLine, expSeen, impSeen, link, opened, selected, env>>
  BY <1>1, WriteCalls
<1>3. WriterRuns({"INITIALIZED2"})'
  BY <1>2 DEF WriterRuns
<1>4. DeviceRests' /\ ExpIdle'
  BY <1>2 DEF Resting, DeviceRests, ExpIdle, ExpPlaces, ExpAt
<1>5. ImpAsking'
  <2>1. PICK last \in ImpPlaces :
              /\ ImpPlaces' = ImpPlaces /\ ImpAt(last) = imp /\ ImpAt(last)' = imp'
              /\ \A i \in ImpPlaces : i <= last /\ (i # last => ImpAt(i)' = ImpAt(i))
              /\ \A j \in ImpPlaces : last <= j => j = last
    BY <1>0, <1>2, LaterImps
  <2>2. \A i \in ImpPlaces : ImpAt(i).cmd # "RUNNING"
    BY DEF Resting, ImpQuiet
  <2> QED  BY <1>2, <2>1, <2>2 DEF ImpAsking
<1> QED  BY <1>3, <1>4, <1>5 DEF Asked

LEMMA AskedWrite ==
    ASSUME TodInv, Asked, expSeen.conn, Write(FALSE, FALSE)
    PROVE  Stages'
<1>0. Types
  BY DEF TodInv
<1>1. ctl.step = "INITIALIZED2" /\ state # "RUNNING"
  BY <1>0, PlaceTypes DEF Asked, WriterRuns, ExpIdle, state
<1>2. UNCHANGED vars
  BY <1>1, WriteCalls
<1> QED  BY <1>0, <1>2, StagesStay DEF Stages

\* The controller learns that the device has closed the transfer.
LEMMA OverWrite ==
    ASSUME TodInv, Over, expSeen.conn, Write(FALSE, FALSE)
    PROVE  Stages'
<1>0. Types
  BY DEF TodInv
<1>1. ctl.step = "TRANSFER_DONE"
  BY DEF Over, WriterRuns
<1>2. CASE state = "RUNNING"
  <2>1. UNCHANGED vars
    BY <1>1, <1>2, WriteCalls
  <2> QED  BY <1>0, <2>1, StagesStay DEF Stages
<1>3. CASE state # "RUNNING"
  <2>1. /\ ctl'.open /\ ctl'.result = "completed" /\ ctl'.step = "ALL_COMPLETED" /\ imp'.cmd = "IDLE"
        /\ UNCHANGED <<dev, exp, disk, expLine, impLine, expSeen, impSeen, link, opened, selected, env>>
    BY <1>1, <1>3, WriteCalls
  <2>2. IsKept' /\ DeviceRests'
    BY <2>1 DEF Over, IsKept, DeviceRests, Data, Content
  <2>3. WriterRests'
    BY <2>1, <2>2 DEF WriterRests
  <2>4. ExpIdle'
    <3>1. 0 \in ExpPlaces /\ ExpAt(0) = expSeen.sig /\ \A i \in ExpPlaces : 0 <= i /\ i <= i
      BY <1>0, PlaceTypes
    <3>2. ExpAt(0).state = "IDLE"
      BY <1>3, <3>1 DEF Over, ExpOver, state
    <3>3. \A i \in ExpPlaces : ExpAt(i).state = "IDLE"
      BY <3>1, <3>2 DEF Over, ExpOver
    <3>4. ExpPlaces' = ExpPlaces /\ \A i \in ExpPlaces : ExpAt(i)' = ExpAt(i)
      BY <2>1 DEF ExpPlaces, ExpAt
    <3> QED  BY <3>3, <3>4 DEF ExpIdle
  <2>5. ImpQuiet'
    <3>1. PICK last \in ImpPlaces :
              /\ ImpPlaces' = ImpPlaces /\ ImpAt(last) = imp /\ ImpAt(last)' = imp'
              /\ \A i \in ImpPlaces : i <= last /\ (i # last => ImpAt(i)' = ImpAt(i))
              /\ \A j \in ImpPlaces : last <= j => j = last
      BY <1>0, <2>1, LaterImps
    <3> QED  BY <2>1, <3>1 DEF Over, ImpQuiet
  <2> QED  BY <2>2, <2>3, <2>4, <2>5 DEF Resting, Stages
<1> QED  BY <1>2, <1>3

\* What a step of the controller leaves of a device that runs.
LEMMA DeviceStays ==
    ASSUME Flowing, UNCHANGED <<dev, exp, disk, impSeen, selected, env>>
    PROVE  DeviceRuns'
<1>1. Storing(Device0)'
  BY DEF Flowing, DeviceRuns, Storing, Device0
<1> QED  BY <1>1 DEF Flowing, DeviceRuns, Data, Content

LEMMA NoEndYet ==
    ASSUME Types, Flowing, ctl.step # "TRANSFER_DONE", NEW i \in ImpPlaces
    PROVE  ImpAt(i).cmd = "RUNNING"
<1>1. i <= i
  BY PlaceTypes
<1> QED  BY <1>1 DEF Flowing, ImpFlowing, FlowsTo, Going

\* The end of the data is marked.
LEMMA MarkedWrite ==
    ASSUME TodInv, Flowing, state = "RUNNING", ctl.step # "TRANSFER_DONE", NEW c, NEW r,
           c.s.open = ctl.open, c.s.head = ctl.head, c.s.pos = ctl.pos, c.x = imp,
           Marked(c, r), Wrote(r, "none")
    PROVE  Flowing'
<1>0. Types /\ ctl.open /\ imp.head = ctl.head
  BY DEF TodInv, Flowing, WriterRuns
<1>1. /\ ctl'.open /\ ctl'.result = "none" /\ ctl'.step = "TRANSFER_DONE"
      /\ ctl'.head = ctl.head /\ ctl'.pos = ctl.pos /\ ctl.pos = Len(Data)
      /\ imp'.cmd = "COMPLETED" /\ imp'.head = ctl.head /\ imp'.buf = imp.buf /\ imp'.cs = Data
      /\ UNCHANGED <<dev, exp, disk, expLine, impLine, expSeen, impSeen, link, opened, selected, env>>
  BY <1>0 DEF Wrote, Marked
<1>2. WriterRuns(WritingSteps)'
  BY <1>1 DEF WriterRuns, WritingSteps, Data, Content
<1>3. DeviceRuns'
  BY <1>1, DeviceStays
<1>4. Level'
  BY <1>1 DEF Flowing, Level
<1>5. expSeen'.sig.state = "RUNNING" /\ opened' = selected'
  BY <1>1 DEF state, Flowing
<1>6. ExpGranting'
  <2>1. ExpPlaces' = ExpPlaces /\ \A i \in ExpPlaces : ExpAt(i)' = ExpAt(i)
    BY <1>1 DEF ExpPlaces, ExpAt
  <2> QED  BY <1>1, <2>1 DEF Flowing, ExpGranting, Grants
<1>7. ImpFlowing'
  <2>1. PICK last \in ImpPlaces :
              /\ ImpPlaces' = ImpPlaces /\ ImpAt(last) = imp /\ ImpAt(last)' = imp'
              /\ \A i \in ImpPlaces : i <= last /\ (i # last => ImpAt(i)' = ImpAt(i))
              /\ \A j \in ImpPlaces : last <= j => j = last
    BY <1>0, <1>1, LaterImps
  <2> SUFFICES ASSUME NEW i \in ImpPlaces, NEW j \in ImpPlaces, i <= j
               PROVE  FlowsTo(ImpAt(i), ImpAt(j))'
    BY <2>1 DEF ImpFlowing
  <2>x. PICK x, y : x = ImpAt(i)' /\ y = ImpAt(j)'
    OBVIOUS
  <2>2. FlowsTo(ImpAt(i), ImpAt(j)) /\ ImpAt(i).cmd = "RUNNING"
    BY <1>0, NoEndYet DEF Flowing, ImpFlowing
  <2>3. x.head = ImpAt(i).head /\ x.buf = ImpAt(i).buf /\ y.head = ImpAt(j).head
    BY <1>0, <1>1, <2>1, <2>x
  <2>4. x.cmd \in Going /\ Unread(x) /\ Dist(x.head, dev.tail) <= Dist(y.head, dev.tail)
    <3>1. Unread(x)
      BY <2>2, <2>3 DEF FlowsTo, Unread
    <3>2. x.cmd \in Going
      BY <1>1, <2>1, <2>2, <2>x DEF Going
    <3> QED  BY <2>2, <2>3, <3>1, <3>2 DEF FlowsTo
  <2>5. x.cmd = "COMPLETED" =>
           y.cmd = "COMPLETED" /\ x.head = ctl'.head /\ x.cs = Data' /\ ctl'.step = "TRANSFER_DONE"
    <3>1. CASE i = last
      BY <1>1, <2>1, <2>x, <3>1 DEF Data, Content
    <3>2. CASE i # last
      BY <2>1, <2>2, <2>x, <3>2
    <3> QED  BY <3>1, <3>2
  <2>6. FlowsTo(x, y)'
    BY <1>1, <2>4, <2>5 DEF FlowsTo, Unread, Data, Content
  <2> QED  BY <2>x, <2>6 DEF FlowsTo, Unread
<1> QED  BY <1>2, <1>3, <1>4, <1>5, <1>6, <1>7 DEF Flowing

\* A call that puts k bytes behind those in the ring, as far as the controller
\* knows room for them.
ControllerSends(k) ==
    /\ k \in Nat /\ ctl.pos + k <= Len(Data) /\ k + Dist(ctl.head, expSeen.sig.tail) < BufSz
    /\ ctl'.head = Onward(ctl.head, k) /\ ctl'.pos = ctl.pos + k
    /\ imp'.cmd = "RUNNING" /\ imp'.head = ctl'.head
    /\ \A q \in Position :
          imp'.buf[Onward(ctl.head, q)] =
              IF q < k THEN Data[ctl.pos + q + 1] ELSE imp.buf[Onward(ctl.head, q)]
    /\ UNCHANGED <<dev, exp, disk, expLine, impLine, expSeen, impSeen, link, opened, selected, env>>

\* No end sees less room than there is.
LEMMA RoomLeft ==
    ASSUME Types, Flowing, state = "RUNNING", NEW k, ControllerSends(k), NEW i \in ExpPlaces
    PROVE  /\ ExpAt(i).state = "RUNNING" /\ k + Dist(ctl.head, ExpAt(i).tail) < BufSz
           /\ Dist(ctl'.head, ExpAt(i).tail) = Dist(ctl.head, ExpAt(i).tail) + k
<1>1. 0 \in ExpPlaces /\ ExpAt(0) = expSeen.sig /\ 0 <= i /\ ExpAt(i) \in ExpType
  BY PlaceTypes
<1>2. Grants(ExpAt(0), ExpAt(i)) /\ ExpAt(0).state = "RUNNING"
  BY <1>1 DEF Flowing, ExpGranting, state
<1>h. PICK h \in Position : h = ctl.head
  BY DEF Types, CtlType
<1>t. PICK t \in Position : t = ExpAt(i).tail
  BY <1>1 DEF ExpType
<1>u. PICK u \in Position : u = expSeen.sig.tail
  BY DEF Types, ExpCopy, ExpType
<1>d. PICK D \in Position : D = Dist(h, t)
  BY DistMod
<1>e. PICK E \in Position : E = Dist(h, u)
  BY DistMod
<1>3. D <= E
  BY <1>1, <1>2, <1>h, <1>t, <1>u, <1>d, <1>e DEF Grants
<1>4. k \in Nat /\ k + E < BufSz /\ ctl'.head = Onward(h, k)
  BY <1>h, <1>u, <1>e DEF ControllerSends
<1>5. k + D < BufSz
  BY <1>3, <1>4, BufSzAssumption DEF Position
<1>6. Dist(Onward(h, k), t) = D + k
  <2>1. k + Dist(h, t) < BufSz
    BY <1>5, <1>d
  <2> QED  BY <1>4, <1>d, <2>1, HeadMoves
<1>7. ExpAt(i).state = "RUNNING"
  BY <1>2 DEF Grants
<1> QED  BY <1>4, <1>5, <1>6, <1>7, <1>h, <1>t, <1>d

LEMMA SendsGrants ==
    ASSUME Types, Flowing, state = "RUNNING", NEW k, ControllerSends(k)
    PROVE  ExpGranting'
<1>1. ExpPlaces' = ExpPlaces /\ \A i \in ExpPlaces : ExpAt(i)' = ExpAt(i)
  BY DEF ControllerSends, ExpPlaces, ExpAt
<1> SUFFICES ASSUME NEW i \in ExpPlaces, NEW j \in ExpPlaces, i <= j
             PROVE  Grants(ExpAt(i), ExpAt(j))'
  BY <1>1 DEF ExpGranting
<1>2. Grants(ExpAt(i), ExpAt(j))
  BY DEF Flowing, ExpGranting
<1>3. /\ ExpAt(i).state = "RUNNING" /\ Dist(ctl'.head, ExpAt(i).tail) = Dist(ctl.head, ExpAt(i).tail) + k
      /\ ExpAt(j).state = "RUNNING" /\ Dist(ctl'.head, ExpAt(j).tail) = Dist(ctl.head, ExpAt(j).tail) + k
  BY RoomLeft
<1>h. PICK h \in Position : h = ctl.head
  BY DEF Types, CtlType
<1>t. PICK t \in Position : t = ExpAt(i).tail
  BY PlaceTypes DEF ExpType
<1>u. PICK u \in Position : u = ExpAt(j).tail
  BY PlaceTypes DEF ExpType
<1>d. PICK D \in Position : D = Dist(h, t)
  BY DistMod
<1>e. PICK E \in Position : E = Dist(h, u)
  BY DistMod
<1>4. E <= D
  BY <1>2, <1>3, <1>h, <1>t, <1>u, <1>d, <1>e DEF Grants
<1>5. E + k <= D + k
  BY <1>4 DEF Position, ControllerSends
<1>6. Dist(ctl'.head, ExpAt(j).tail) <= Dist(ctl'.head, ExpAt(i).tail)
  BY <1>3, <1>5, <1>h, <1>t, <1>u, <1>d, <1>e
<1> QED  BY <1>1, <1>3, <1>6 DEF Grants

\* New bytes follow those in the ring.
LEMMA SendsUnread ==
    ASSUME Types, Flowing, state = "RUNNING", NEW k, ControllerSends(k)
    PROVE  /\ Unread(imp') /\ Dist(imp'.head, dev.tail) = Dist(imp.head, dev.tail) + k
           /\ ctl'.pos = Len(dev.sum) + Dist(ctl'.head, dev.tail) /\ k \in Nat
           /\ Dist(imp.head, dev.tail) \in Int
<1>h. PICK h \in Position : h = ctl.head
  BY DEF Types, CtlType
<1>t. PICK t \in Position : t = dev.tail
  BY DEF Types, DevType
<1>d. PICK D \in Position : D = Dist(h, t)
  BY DistMod
<1>l. PICK len \in Nat : len = Len(dev.sum)
  BY DEF Types, DevType
<1>p. PICK pos \in Nat : pos = ctl.pos
  BY DEF Types, CtlType
<1>1. imp.head = h /\ pos = len + D
  BY <1>h, <1>t, <1>d, <1>l, <1>p DEF Flowing, WriterRuns, Level
<1>2. k \in Nat /\ D + k < BufSz /\ Dist(ctl'.head, t) = D + k
  <2>0. expLine \in Seq(ExpType)
    BY DEF Types
  <2>1. PICK last \in ExpPlaces : ExpAt(last) = exp
    BY <2>0, ExpLast DEF ControllerSends
  <2>2. exp.tail = t
    BY <1>t DEF Flowing, DeviceRuns, Storing, Device0
  <2>3. k + D < BufSz /\ Dist(ctl'.head, t) = D + k
    BY <1>h, <1>d, <2>1, <2>2, RoomLeft
  <2>4. k \in Nat
    BY DEF ControllerSends
  <2> QED  BY <2>3, <2>4, BufSzAssumption DEF Position
<1>3. imp'.head = ctl'.head /\ ctl'.pos = pos + k
  BY <1>p DEF ControllerSends
<1>4. ctl'.pos = len + (D + k)
  BY <1>1, <1>2, <1>3 DEF Position
<1>5. Unread(imp)
  <2>0. impLine \in Seq(ImpType)
    BY DEF Types
  <2>1. PICK last \in ImpPlaces : ImpAt(last) = imp /\ last <= last
    BY <2>0, ImpLast DEF ControllerSends
  <2> QED  BY <2>1 DEF Flowing, ImpFlowing, FlowsTo
<1>b. PICK old, new : old = imp.buf /\ new = imp'.buf
  OBVIOUS
<1>6. \A q \in Position : new[Onward(h, q)] = IF q < k THEN Data[pos + q + 1] ELSE old[Onward(h, q)]
  BY <1>b, <1>h, <1>p DEF ControllerSends
<1>7. \A i \in Position : i < D => old[Onward(t, i)] = Data[len + i + 1]
  BY <1>1, <1>5, <1>b, <1>t, <1>d, <1>l DEF Unread
<1>8. ASSUME NEW i \in Position, i < D + k
      PROVE  new[Onward(t, i)] = Data[len + i + 1]
  <2>q. PICK q : q = IF i < D THEN BufSz - (D - i) ELSE i - D
    OBVIOUS
  <2>1. Onward(t, i) = Onward(h, q)
    BY <1>d, <2>q, FromTail
  <2>2. q \in Position /\ (i < D => ~(q < k)) /\ (~(i < D) => q < k /\ pos + q + 1 = len + i + 1)
    BY <1>1, <1>2, <1>8, <2>q, BufSzAssumption DEF Position
  <2>3. new[Onward(h, q)] = IF q < k THEN Data[pos + q + 1] ELSE old[Onward(h, q)]
    BY <1>6, <2>2
  <2>4. CASE i < D
    <3>1. old[Onward(t, i)] = Data[len + i + 1]
      BY <1>7, <2>4
    <3> QED  BY <2>1, <2>2, <2>3, <2>4, <3>1
  <2>5. CASE ~(i < D)
    BY <2>1, <2>2, <2>3, <2>5
  <2> QED  BY <2>4, <2>5
<1>9. Unread(imp')
  <2>1. Dist(imp'.head, dev.tail) = D + k
    BY <1>2, <1>3, <1>t
  <2> QED  BY <1>8, <1>b, <1>t, <1>l, <2>1 DEF Unread
<1>10. Dist(imp'.head, dev.tail) = Dist(imp.head, dev.tail) + k /\ Dist(imp.head, dev.tail) \in Int
  BY <1>1, <1>2, <1>3, <1>t, <1>d DEF Position
<1>11. ctl'.pos = Len(dev.sum) + Dist(ctl'.head, dev.tail)
  BY <1>2, <1>4, <1>l, <1>t
<1> QED  BY <1>2, <1>9, <1>10, <1>11

LEMMA SentWrite ==
    ASSUME TodInv, Flowing, state = "RUNNING", ctl.step # "TRANSFER_DONE", NEW c, NEW r, NEW k,
           c.s.open = ctl.open, c.s.head = ctl.head, c.s.pos = ctl.pos, c.x = imp,
           c.s.step = "TRANSFER_DATA", Sent(c, k, r), Wrote(r, "none")
    PROVE  Flowing'
<1>0. Types /\ ctl.open /\ imp.head = ctl.head /\ imp.cmd = "RUNNING"
  BY DEF TodInv, Flowing, WriterRuns
<1>1. ControllerSends(k)
  BY <1>0 DEF Wrote, Sent, ControllerSends
<1>2. /\ ctl'.open /\ ctl'.result = "none" /\ ctl'.step = "TRANSFER_DATA"
      /\ UNCHANGED <<dev, exp, disk, expLine, impLine, expSeen, impSeen, link, opened, selected, env>>
  BY <1>0 DEF Wrote, Sent
<1>3. imp'.cmd = "RUNNING" /\ imp'.head = ctl'.head
  BY <1>1 DEF ControllerSends
<1>4. /\ Unread(imp') /\ Dist(imp'.head, dev.tail) = Dist(imp.head, dev.tail) + k
      /\ ctl'.pos = Len(dev.sum) + Dist(ctl'.head, dev.tail) /\ k \in Nat
      /\ Dist(imp.head, dev.tail) \in Int
  BY <1>0, <1>1, SendsUnread
<1>5. WriterRuns(WritingSteps)'
  BY <1>2, <1>3 DEF WriterRuns, WritingSteps
<1>6. DeviceRuns'
  BY <1>2, DeviceStays
<1>7. Level'
  BY <1>2, <1>4 DEF Level
<1>8. expSeen'.sig.state = "RUNNING" /\ opened' = selected'
  BY <1>2 DEF state, Flowing
<1>9. ExpGranting'
  BY <1>0, <1>1, SendsGrants
<1>10. ImpFlowing'
  <2>1. PICK last \in ImpPlaces :
              /\ ImpPlaces' = ImpPlaces /\ ImpAt(last) = imp /\ ImpAt(last)' = imp'
              /\ \A i \in ImpPlaces : i <= last /\ (i # last => ImpAt(i)' = ImpAt(i))
              /\ \A j \in ImpPlaces : last <= j => j = last
    BY <1>0, <1>2, LaterImps
  <2> SUFFICES ASSUME NEW i \in ImpPlaces, NEW j \in ImpPlaces, i <= j
               PROVE  FlowsTo(ImpAt(i), ImpAt(j))'
    BY <2>1 DEF ImpFlowing
  <2>x. PICK x, y : x = ImpAt(i)' /\ y = ImpAt(j)'
    OBVIOUS
  <2>e. PICK e : e = imp'
    OBVIOUS
  <2>2. FlowsTo(ImpAt(i), ImpAt(j)) /\ ImpAt(i).cmd = "RUNNING"
    BY <1>0, NoEndYet DEF Flowing, ImpFlowing
  <2>3. x.cmd = "RUNNING"
    BY <1>3, <2>1, <2>2, <2>x
  <2>4. Unread(x) /\ Dist(x.head, dev.tail) <= Dist(y.head, dev.tail)
    <3>1. CASE i = last
      <4>1. x = e /\ y = e
        BY <2>1, <2>x, <2>e, <3>1
      <4>2. Unread(e) /\ Dist(e.head, dev.tail) <= Dist(e.head, dev.tail)
        BY <1>4, <2>e
      <4> QED  BY <4>1, <4>2
    <3>2. CASE i # last /\ j = last
      <4>1. x = ImpAt(i) /\ y = e
        BY <2>1, <2>x, <2>e, <3>2
      <4>2. Unread(x) /\ Dist(x.head, dev.tail) <= Dist(imp.head, dev.tail)
        BY <2>1, <2>2, <3>2, <4>1 DEF FlowsTo
      <4>3. Dist(x.head, dev.tail) \in Int
        <5>1. x.head \in Position /\ dev.tail \in Position
          BY <1>0, <4>1, PlaceTypes DEF ImpType, Types, DevType
        <5> QED  BY <5>1, DistMod DEF Position
      <4>4. Dist(e.head, dev.tail) = Dist(imp.head, dev.tail) + k
        BY <1>4, <2>e
      <4> QED  BY <1>4, <4>1, <4>2, <4>3, <4>4
    <3>3. CASE i # last /\ j # last
      BY <2>1, <2>2, <2>x, <3>3 DEF FlowsTo
    <3> QED  BY <3>1, <3>2, <3>3
  <2>5. FlowsTo(x, y)'
    BY <1>2, <2>3, <2>4 DEF FlowsTo, Unread, Data, Content, Going
  <2> QED  BY <2>x, <2>5 DEF FlowsTo, Unread
<1> QED  BY <1>5, <1>6, <1>7, <1>8, <1>9, <1>10 DEF Flowing

LEMMA FlowingWrite ==
    ASSUME TodInv, Flowing, expSeen.conn, Write(FALSE, FALSE)
    PROVE  Stages'
<1>0. Types /\ imp.head = ctl.head /\ ctl.step \in WritingSteps
  BY DEF TodInv, Flowing, WriterRuns
<1>1. CASE ctl.step = "INITIALIZED2" /\ state # "RUNNING"
  <2>1. UNCHANGED vars
    BY <1>1, WriteCalls
  <2> QED  BY <1>0, <2>1, StagesStay DEF Stages
<1>2. CASE ctl.step = "TRANSFER_DONE"
  <2>1. state = "RUNNING"
    BY <1>2 DEF Flowing, state
  <2>2. UNCHANGED vars
    BY <1>2, <2>1, WriteCalls
  <2> QED  BY <1>0, <2>2, StagesStay DEF Stages
<1>3. CASE ctl.step \in {"INITIALIZED2", "TRANSFER_DATA"} /\ state = "RUNNING"
  <2>1. PICK c, r :
              /\ c.s.open = ctl.open /\ c.s.head = ctl.head /\ c.s.pos = ctl.pos
              /\ c.s.step = "TRANSFER_DATA" /\ c.x = imp
              /\ Marked(c, r) \/ \E k : Sent(c, k, r)
              /\ Wrote(r, "none")
    BY <1>0, <1>3, WriteMore
  <2>2. ctl.step # "TRANSFER_DONE"
    BY <1>3
  <2>3. CASE Marked(c, r)
    BY <1>3, <2>1, <2>2, <2>3, MarkedWrite DEF Stages
  <2>4. CASE \E k : Sent(c, k, r)
    <3>k. PICK k : Sent(c, k, r)
      BY <2>4
    <3> QED  BY <1>3, <2>1, <2>2, <3>k, SentWrite DEF Stages
  <2> QED  BY <2>1, <2>3, <2>4
<1>4. ctl.step = "TRANSFER_DATA" => state = "RUNNING"
  BY DEF Flowing, state
<1> QED  BY <1>0, <1>1, <1>2, <1>3, <1>4 DEF WritingSteps

\* A step of the controller, undisturbed.
LEMMA CleanController ==
    ASSUME Undisturbed, TodInv, CleanInv, Controller
    PROVE  CleanInv'
<1>0. link = "up" /\ expSeen.conn /\ impSeen.conn /\ Stages
  BY DEF CleanInv
<1>1. PICK interrupt \in BOOLEAN, late \in BOOLEAN : Write(interrupt, late)
  BY DEF Controller
<1>2. interrupt = FALSE /\ late = FALSE
  <2>1. ~interrupt /\ ~late
    BY <1>1 DEF Write, Undisturbed
  <2> QED  BY <2>1
<1>3. Write(FALSE, FALSE)
  BY <1>1, <1>2
<1>4. Stages'
  <2>1. CASE Resting
    BY <1>0, <1>3, <2>1, RestingWrite DEF Stages
  <2>2. CASE Asked
    BY <1>0, <1>3, <2>2, AskedWrite
  <2>3. CASE Flowing
    BY <1>0, <1>3, <2>3, FlowingWrite
  <2>4. CASE Over
    BY <1>0, <1>3, <2>4, OverWrite
  <2> QED  BY <1>0, <2>1, <2>2, <2>3, <2>4 DEF Stages
<1>5. UNCHANGED <<expSeen, impSeen, link>>
  BY <1>1 DEF Write
<1> QED  BY <1>0, <1>4, <1>5 DEF CleanInv

\* The application starts a transfer, or releases one that has its result.
LEMMA CleanApplication ==
    ASSUME Undisturbed, TodInv, CleanInv, Open \/ CloseWrite
    PROVE  CleanInv'
<1>0. link = "up" /\ expSeen.conn /\ impSeen.conn /\ Stages /\ Types
  BY DEF CleanInv, TodInv
<1>1. UNCHANGED <<dev, exp, disk, expLine, impLine, expSeen, impSeen, link, env>>
  BY DEF Open, OpenWrite, CloseWrite
<1>2. ~ctl.open \/ ctl.result # "none"
  BY DEF Open, OpenWrite, CloseWrite, Undisturbed
<1>3. Resting
  BY <1>0, <1>2 DEF Stages, Asked, Flowing, Over, WriterRuns
<1>4. imp'.cmd = "IDLE" /\ imp'.head = 0
  <2>i. PICK i : i = IdleCommand
    OBVIOUS
  <2>0. i \in ImpType /\ i.cmd = "IDLE" /\ i.head = 0
    BY <1>0, <2>i, IdleCommandType DEF Types
  <2>1. CASE Open
    <3>1. imp' = [i EXCEPT !.cs = NoSum]
      BY <2>1, <2>i DEF Open, OpenWrite
    <3> QED  BY <2>0, <3>1 DEF ImpType
  <2>2. CASE CloseWrite
    BY <2>0, <2>2, <2>i DEF CloseWrite
  <2> QED  BY <2>1, <2>2
<1>5. ctl' = NoWriter \/ ctl' = [NoWriter EXCEPT !.open = TRUE]
  BY DEF Open, OpenWrite, CloseWrite
<1>6. WriterRests'
  BY <1>4, <1>5 DEF WriterRests
<1>7. DeviceRests' /\ ExpIdle'
  BY <1>1, <1>3 DEF Resting, DeviceRests, ExpIdle, ExpPlaces, ExpAt
<1>8. ImpQuiet'
  <2>1. PICK last \in ImpPlaces :
              /\ ImpPlaces' = ImpPlaces /\ ImpAt(last) = imp /\ ImpAt(last)' = imp'
              /\ \A i \in ImpPlaces : i <= last /\ (i # last => ImpAt(i)' = ImpAt(i))
              /\ \A j \in ImpPlaces : last <= j => j = last
    BY <1>0, <1>1, LaterImps
  <2> QED  BY <1>3, <1>4, <2>1 DEF Resting, ImpQuiet
<1> QED  BY <1>0, <1>1, <1>6, <1>7, <1>8 DEF CleanInv, Stages, Resting

LEMMA CleanBlocks ==
    ASSUME Undisturbed, Types, Types', CleanInv, Blocks
    PROVE  CleanInv'
<1>0. link = "up" /\ expSeen.conn /\ impSeen.conn /\ Stages
  BY DEF CleanInv
<1>1. UNCHANGED <<dev, exp, disk, ctl, imp, link, opened, selected, env>> /\ expSeen'.conn /\ impSeen'.conn
  BY <1>0 DEF Blocks, SendExp, SendImp, ReceiveExp, ReceiveImp
<1>2. ExpKept /\ ImpKept
  <2>1. expLine \in Seq(ExpType) /\ impLine \in Seq(ImpType)
    BY DEF Types
  <2>2. UNCHANGED <<expLine, expSeen>> \/ SendExp \/ ReceiveExp
    BY DEF Blocks, SendImp, ReceiveImp
  <2>3. UNCHANGED <<impLine, impSeen>> \/ SendImp \/ ReceiveImp
    BY DEF Blocks, SendExp, ReceiveExp
  <2> QED  BY <1>1, <2>1, <2>2, <2>3, ExpMoves, ImpMoves
<1>3. Stages'
  BY <1>0, <1>1, <1>2, StagesKept
<1> QED  BY <1>0, <1>1, <1>3 DEF CleanInv

----------------------------------------------------------------------------
(* Undisturbed transfers: the theorems.                                    *)

LEMMA InitClean == Init => CleanInv
<1> SUFFICES ASSUME Init PROVE CleanInv
  OBVIOUS
<1>1. /\ dev = NoStore /\ ctl = NoWriter /\ expLine = <<>> /\ impLine = <<>>
      /\ exp.state = "IDLE" /\ imp.cmd = "IDLE" /\ expSeen.sig = exp /\ impSeen.sig = imp
      /\ expSeen.conn /\ impSeen.conn /\ link = "up"
  BY DEF Init
<1>2. ~dev.open /\ dev.stored = <<>>
  BY <1>1 DEF NoStore
<1>3. Len(expLine) = 0 /\ Len(impLine) = 0
  BY <1>1, EmptySeq
<1>4. ExpIdle
  BY <1>1, <1>3 DEF ExpIdle, ExpPlaces, ExpAt
<1>5. ImpQuiet
  BY <1>1, <1>3 DEF ImpQuiet, ImpPlaces, ImpAt
<1>6. Resting
  BY <1>1, <1>2, <1>4, <1>5 DEF Resting, WriterRests, DeviceRests
<1> QED  BY <1>1, <1>6 DEF CleanInv, Stages

\* Every undisturbed transfer goes from stage to stage, and no snapshot under
\* way can lead the controller (ioc_streamer_controller_write) or the device
\* (ioc_streamer_device_read) out of them.
THEOREM CleanInvariance == Spec => []CleanInv
<1>1. TodInv /\ TodInv' /\ CleanInv /\ [Next]_vars => CleanInv'
  <2> SUFFICES ASSUME TodInv, TodInv', CleanInv, [Next]_vars, Undisturbed'
               PROVE  CleanInv'
    BY DEF CleanInv
  <2>1. env' = env
    <3>1. ASSUME Device \/ Open PROVE env' = env
      BY <3>1 DEF Device, RunControlStream, Open, OpenWrite
    <3>2. ASSUME Controller PROVE env' = env
      BY <3>2 DEF Controller, Write
    <3>3. ASSUME CloseWrite \/ Blocks PROVE env' = env
      BY <3>3 DEF CloseWrite, Blocks, SendExp, SendImp, ReceiveExp, ReceiveImp
    <3>4. ASSUME Break \/ Notice \/ Relink \/ UNCHANGED vars PROVE env' = env
      BY <3>4 DEF vars, Break, Notice, Relink
    <3> QED  BY <3>1, <3>2, <3>3, <3>4 DEF Next
  <2>2. Undisturbed /\ Types /\ Types'
    BY <2>1 DEF Undisturbed, TodInv
  <2>3. link = "up" /\ expSeen.conn /\ impSeen.conn /\ Stages
    BY <2>2 DEF CleanInv
  <2>4. CASE Device
    BY <2>2, <2>4, CleanDevice
  <2>5. CASE Controller
    BY <2>2, <2>5, CleanController
  <2>6. CASE Open \/ CloseWrite
    BY <2>2, <2>6, CleanApplication
  <2>7. CASE Break \/ Notice \/ Relink
    BY <2>2, <2>3, <2>7 DEF Break, Notice, Relink, Undisturbed
  <2>8. CASE Blocks
    BY <2>2, <2>8, CleanBlocks
  <2>9. CASE UNCHANGED vars
    <3>1. Stages'
      BY <2>2, <2>3, <2>9, StagesStay
    <3> QED  BY <2>3, <2>9, <3>1 DEF CleanInv, vars
  <2> QED  BY <2>4, <2>5, <2>6, <2>7, <2>8, <2>9 DEF Next
<1> QED  BY <1>1, InitClean, TodInvariance, PTL DEF Spec

\* While nothing is disturbed, the bytes the device has stored of an open
\* transfer are a beginning of what the controller has for the block the device
\* has open, whatever old snapshots each end acts on: none is lost, repeated,
\* out of order or of another block (ioc_streamer_device_read).
THEOREM StoredFollows == Spec => []StoredIsBeginning
<1>1. TodInv /\ CleanInv => StoredIsBeginning
  <2> SUFFICES ASSUME TodInv, Stages
               PROVE  dev.stored = SubSeq(Content(opened), 1, Len(dev.stored))
    BY DEF CleanInv, StoredIsBeginning
  <2>1. CASE DeviceRests
    <3>1. dev.stored = <<>> /\ Len(dev.stored) = 0
      BY <2>1 DEF DeviceRests
    <3>2. SubSeq(Content(opened), 1, 0) = <<>>
      BY SubSeqEmpty
    <3> QED  BY <3>1, <3>2
  <2>2. CASE DeviceRuns /\ opened = selected
    <3>1. dev.stored = dev.sum /\ dev.sum = SubSeq(Data, 1, Len(dev.sum))
      BY <2>2 DEF DeviceRuns, Storing, Device0
    <3> QED  BY <2>2, <3>1 DEF Data
  <2> QED  BY <2>1, <2>2 DEF Stages, Resting, Asked, Flowing, Over
<1> QED  BY <1>1, CleanInvariance, TodInvariance, PTL

\* While nothing is disturbed, ioc_streamer_write returns OSAL_COMPLETED only
\* when the device has kept the whole content of the block it asked for.
THEOREM CompletedTransferKept == Spec => []CompletedIsKept
<1>1. CleanInv => CompletedIsKept
  <2> SUFFICES ASSUME Stages, ctl.result = "completed"
               PROVE  IsKept
    BY DEF CleanInv, CompletedIsKept, IsKept, Data
  <2>1. WriterRests
    BY DEF Stages, Resting, Asked, Flowing, Over, WriterRuns
  <2>2. ctl # NoWriter /\ ctl # [NoWriter EXCEPT !.open = TRUE]
    BY DEF NoWriter
  <2> QED  BY <2>1, <2>2 DEF WriterRests
<1> QED  BY <1>1, CleanInvariance, PTL

=============================================================================
