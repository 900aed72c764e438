------------------------- MODULE FlowControl_proofs -------------------------
(***************************************************************************)
(* Proofs that the masked counters of flow control never pass each other,  *)
(* for every mask, every limit and any number of keep alives, and that the *)
(* receive buffer holds what is sent when the space kept for               *)
(* acknowledgements is enough.                                             *)
(*                                                                         *)
(* Values are compared by how far they lie behind bytes_sent of the end    *)
(* that sends the data: the counters wrap, these distances do not.         *)
(***************************************************************************)
EXTENDS FlowControl, TLAPS, WellFoundedInduction

\* How far a value lies behind what e has sent.
Back(e, x) == WSub(bytes_sent[e], x)

\* What keep alives may add to the bytes in the air.
Extra(k) == k * AckSz

\* What has arrived at the other end is what was sent and is not in the stream.
ReceivedInv(e) == Back(e, bytes_received[Other(e)]) = Len(stream[e])

\* The acknowledgements on their way to e, from the oldest to the newest: none
\* is older than what e knows, none is ahead of what has been received.
AcksInOrder(e) ==
    LET s == stream[Other(e)]
        a == outack[Other(e)]
    IN  /\ Len(stream[e]) <= InAir(e)
        /\ \A i \in 1 .. Len(s) : s[i] # Plain =>
              /\ Len(stream[e]) <= Back(e, s[i]) /\ Back(e, s[i]) <= InAir(e)
              /\ \A j \in 1 .. Len(s) : i < j /\ s[j] # Plain => Back(e, s[j]) <= Back(e, s[i])
              /\ a # Plain => Back(e, a) <= Back(e, s[i])
        /\ a # Plain => Len(stream[e]) <= Back(e, a) /\ Back(e, a) <= InAir(e)

\* No more is in the air, or about to be, than flow control and the keep
\* alives allow.
AirBound(e) == InAir(e) + left[e] <= MaxAckInAir + Extra(kept[e])

\* The other end has not sent anything yet, and e at most an acknowledgement
\* and the frames that fit in the air.
Fresh(e) ==
    LET o == Other(e)
    IN  /\ stream[o] = <<>> /\ left[o] = 0 /\ outack[o] = Plain
        /\ bytes_sent[o] = 0 /\ bytes_received[e] = 0 /\ processed_bytes[e] = 0
        /\ bytes_acknowledged[o] = InitAck
        /\ bytes_sent[e] + left[e] <= MaxInAir + Extra(kept[e])
        /\ \/ bytes_acknowledged[e] = 0
           \/ bytes_acknowledged[e] = InitAck /\ bytes_sent[e] = 0 /\ left[e] = 0

\* bytes_acknowledged of the other end is the newest acknowledgement: the one
\* being written, or the last in the stream, or the last that has arrived.
LastAck(e) ==
    LET s == stream[Other(e)]
        a == outack[Other(e)]
        acked == bytes_acknowledged[Other(e)]
    IN  /\ a # Plain => acked = a
        /\ a = Plain =>
              /\ \A i \in 1 .. Len(s) :
                    /\ s[i] # Plain
                    /\ \A j \in 1 .. Len(s) : i < j => s[j] = Plain
                    => acked = s[i]
              /\ (\A i \in 1 .. Len(s) : s[i] = Plain) => acked = processed_bytes[e]

\* The flow of data from e to the other end.
Flow(e) ==
    /\ ReceivedInv(e)
    /\ AcksInOrder(e)
    /\ AirBound(e)
    /\ outack[e] # Plain => left[e] > 0
    /\ Fresh(e) \/ LastAck(e)

FlowInv == TypeOK /\ \A e \in End : Flow(e)

----------------------------------------------------------------------------
LEMMA OtherFacts ==
    ASSUME NEW e \in End
    PROVE  Other(e) \in End /\ Other(e) # e /\ Other(Other(e)) = e
BY DEF End, Other

\* Every end is e or the other end.
LEMMA TwoEnds ==
    ASSUME NEW e \in End, NEW x \in End
    PROVE  x = e \/ x = Other(e)
BY DEF End, Other

\* Arithmetic of the masked counters.
LEMMA CounterArith ==
    ASSUME NEW s \in Counter, NEW x \in Counter
    PROVE  /\ WSub(s, x) \in 0 .. Wrap - 1
           /\ WInc(s) \in Counter
           /\ WSub(s, s) = 0
           /\ WSub(s, x) + 1 < Wrap => WSub(WInc(s), x) = WSub(s, x) + 1
           /\ WSub(s, x) > 0 => WSub(s, WInc(x)) = WSub(s, x) - 1
           /\ WSub(s, x) = 0 => s = x
           /\ x = 0 => WSub(s, x) = s
BY FlowAssumption DEF WSub, WInc, Counter

\* The distance of two values that lie in order behind s.
LEMMA CounterBetween ==
    ASSUME NEW s \in Counter, NEW x \in Counter, NEW y \in Counter,
           WSub(s, y) <= WSub(s, x)
    PROVE  WSub(y, x) = WSub(s, x) - WSub(s, y)
BY FlowAssumption DEF WSub, Counter

LEMMA ExtraFacts ==
    ASSUME NEW k \in 0 .. MaxKeepalive
    PROVE  /\ Extra(k) \in Nat
           /\ Extra(k) <= Extra(MaxKeepalive)
           /\ k < MaxKeepalive => Extra(k + 1) = Extra(k) + AckSz
<1>1. k \in Nat /\ AckSz \in Nat /\ MaxKeepalive \in Nat /\ k <= MaxKeepalive
  BY FlowAssumption
<1>2. k * AckSz \in Nat /\ (k + 1) * AckSz = k * AckSz + AckSz
  BY <1>1
<1>3. PICK d \in Nat : MaxKeepalive = k + d
  <2>1. MaxKeepalive - k \in Nat /\ MaxKeepalive = k + (MaxKeepalive - k)
    BY <1>1
  <2> QED  BY <2>1
<1>4. d * AckSz \in Nat /\ MaxKeepalive * AckSz = k * AckSz + d * AckSz
  BY <1>1, <1>3
<1> QED  BY <1>1, <1>2, <1>4 DEF Extra

\* What the proofs use of the constants, without the product.
LEMMA Limits ==
    /\ Wrap \in Nat /\ AckSz \in Nat /\ AckSz > 0 /\ AckLimit \in Nat /\ AckLimit > 0
    /\ MaxInAir \in Nat /\ MaxAckInAir \in Nat /\ InitAck \in Counter
    /\ MaxFrame \in Nat /\ MaxFrame > 0 /\ MaxKeepalive \in Nat
    /\ Extra(MaxKeepalive) \in Nat
    /\ MaxInAir < MaxAckInAir /\ AckSz <= MaxInAir /\ AckLimit <= MaxAckInAir
    /\ MaxAckInAir + Extra(MaxKeepalive) < Wrap
    /\ MaxInAir + Extra(MaxKeepalive) < InitAck
    /\ InitAck + AckLimit <= Wrap
<1>1. MaxKeepalive \in 0 .. MaxKeepalive
  BY FlowAssumption
<1> QED  BY <1>1, ExtraFacts, FlowAssumption DEF Extra, Counter

\* Before the other end has sent anything it owes an acknowledgement.
LEMMA FreshOwes ==
    ASSUME TypeOK, NEW e \in End, ReceivedInv(e), Fresh(e), InAir(e) >= Len(stream[e])
    PROVE  AckNeeded(Other(e))
<1> DEFINE o == Other(e)
           r == bytes_received[o]
           n == Len(stream[e])
<1>1. o \in End
  BY OtherFacts
<1>2. bytes_sent[e] \in Counter /\ r \in Counter /\ n \in Nat
      /\ left[e] \in Nat /\ kept[e] \in 0 .. MaxKeepalive
  BY <1>1, Limits DEF TypeOK
<1>3. bytes_sent[e] < InitAck
  <2>1. bytes_sent[e] + left[e] <= MaxInAir + Extra(kept[e])
    BY DEF Fresh
  <2>2. Extra(kept[e]) \in Nat /\ Extra(kept[e]) <= Extra(MaxKeepalive)
    BY <1>2, ExtraFacts
  <2>s. PICK s \in Nat : s = bytes_sent[e]
    BY <1>2 DEF Counter
  <2>l. PICK l \in Nat : l = left[e]
    BY <1>2
  <2>x. PICK x \in Nat : x = Extra(kept[e])
    BY <2>2
  <2>m. PICK m \in Nat : m = Extra(MaxKeepalive)
    BY Limits
  <2>3. s + l <= MaxInAir + x /\ x <= m
    BY <2>1, <2>2, <2>s, <2>l, <2>x, <2>m
  <2>4. MaxInAir \in Nat /\ InitAck \in Nat /\ MaxInAir + m < InitAck
    BY <2>m, Limits DEF Counter
  <2>5. s < InitAck
    BY <2>3, <2>4
  <2> QED  BY <2>5, <2>s
<1>4. InAir(e) = bytes_sent[e]
  <2>1. processed_bytes[e] = 0 /\ 0 \in Counter
    BY Limits DEF Fresh, Counter
  <2> QED  BY <1>2, <2>1, CounterArith DEF InAir
<1>5. WSub(bytes_sent[e], r) = n /\ n <= bytes_sent[e]
  BY <1>4 DEF ReceivedInv, Back
<1>6. r < InitAck
  <2>s. PICK s \in Counter : s = bytes_sent[e]
    BY <1>2
  <2>q. PICK q \in Counter : q = r
    BY <1>2
  <2>m. PICK m \in Nat : m = Len(stream[e])
    BY <1>2
  <2>1. WSub(s, q) = m /\ m <= s /\ s < InitAck /\ InitAck \in Counter
    BY <1>3, <1>5, <2>s, <2>q, <2>m, Limits
  <2>2. q < InitAck
    BY <2>1, FlowAssumption DEF WSub, Counter
  <2> QED  BY <2>2, <2>q
<1>7. bytes_acknowledged[o] = InitAck
  BY DEF Fresh
<1> QED  BY <1>2, <1>6, <1>7, Limits DEF AckNeeded, Unacknowledged, WSub, Counter

\* An end that has acknowledged nothing yet owes the first one.
LEMMA FirstAckDue ==
    ASSUME TypeOK, NEW e \in End, bytes_received[e] = 0
    PROVE  /\ bytes_acknowledged[e] = InitAck => AckNeeded(e)
           /\ bytes_acknowledged[e] = 0 => ~AckNeeded(e)
BY Limits DEF AckNeeded, Unacknowledged, WSub, Counter

----------------------------------------------------------------------------
LEMMA NextTypeOK ==
    ASSUME TypeOK, [Next]_vars
    PROVE  TypeOK'
<1>1. CASE UNCHANGED vars
  BY <1>1 DEF TypeOK, vars
<1>2. ASSUME NEW e \in End, NEW n \in 1 .. MaxFrame, NewData(e, n)
      PROVE  TypeOK'
  BY <1>2, Limits, SMTT(30) DEF TypeOK, NewData
<1>3. ASSUME NEW e \in End, PutAck(e),
             UNCHANGED <<bytes_sent, processed_bytes, bytes_received, want, stream>>,
             kept' \in [End -> 0 .. MaxKeepalive]
      PROVE  TypeOK'
  <2>1. AckSz \in 0 .. (MaxFrame + AckSz) /\ bytes_received[e] \in Token
    BY Limits DEF TypeOK, Token
  <2> QED  BY <1>3, <2>1 DEF TypeOK, PutAck
<1>4. ASSUME NEW e \in End, AcknowledgeAsNeeded(e)
      PROVE  TypeOK'
  BY <1>3, <1>4 DEF AcknowledgeAsNeeded, TypeOK
<1>5. ASSUME NEW e \in End, SendKeepalive(e)
      PROVE  TypeOK'
  <2>1. kept' \in [End -> 0 .. MaxKeepalive]
    <3>1. PICK k \in {0, kept[e]} : k < MaxKeepalive /\ kept' = [kept EXCEPT ![e] = k + 1]
      BY <1>5 DEF SendKeepalive
    <3>2. k + 1 \in 0 .. MaxKeepalive
      BY <3>1, Limits DEF TypeOK
    <3> QED  BY <3>1, <3>2 DEF TypeOK
  <2> QED  BY <1>3, <1>5, <2>1 DEF SendKeepalive
<1>6. ASSUME NEW e \in End, MakeFrame(e)
      PROVE  TypeOK'
  <2>1. /\ want[e] \in 0 .. (MaxFrame + AckSz) /\ 0 \in 0 .. MaxFrame
        /\ Plain \in Token
    BY Limits DEF TypeOK, Token
  <2> QED  BY <1>6, <2>1 DEF TypeOK, MakeFrame
<1>7. ASSUME NEW e \in End, WriteByte(e)
      PROVE  TypeOK'
  <2>1. WInc(bytes_sent[e]) \in Counter
    BY CounterArith DEF TypeOK
  <2>2. left[e] - 1 \in 0 .. (MaxFrame + AckSz)
    BY <1>7, Limits, SMTT(30) DEF TypeOK, WriteByte
  <2>3. stream' \in [End -> Seq(Token)] /\ outack' \in [End -> Token]
    <3>1. outack[e] \in Token /\ Plain \in Token /\ stream[e] \in Seq(Token)
      BY DEF TypeOK, Token
    <3>2. \A x \in Token : Append(stream[e], x) \in Seq(Token)
      BY <3>1
    <3> QED  BY <1>7, <3>1, <3>2 DEF TypeOK, WriteByte
  <2> QED  BY <1>7, <2>1, <2>2, <2>3 DEF TypeOK, WriteByte
<1>8. ASSUME NEW e \in End, ReadByte(e)
      PROVE  TypeOK'
  <2>1. Other(e) \in End
    BY OtherFacts
  <2>2. WInc(bytes_received[e]) \in Counter
    BY CounterArith DEF TypeOK
  <2>3. Head(stream[Other(e)]) \in Token /\ Tail(stream[Other(e)]) \in Seq(Token)
    BY <1>8, <2>1 DEF TypeOK, ReadByte
  <2>4. processed_bytes' \in [End -> Counter] /\ stream' \in [End -> Seq(Token)]
    BY <1>8, <2>1, <2>3 DEF TypeOK, ReadByte, Token
  <2> QED  BY <1>8, <2>1, <2>2, <2>4 DEF TypeOK, ReadByte
<1> QED  BY <1>1, <1>2, <1>4, <1>5, <1>6, <1>7, <1>8 DEF Next

----------------------------------------------------------------------------
\* What a step leaves of the flow from e when it changes none of the state
\* the flow is made of.
LEMMA FlowKept ==
    ASSUME NEW e \in End, Flow(e),
           bytes_sent'[e] = bytes_sent[e], processed_bytes'[e] = processed_bytes[e],
           stream' = stream, left' = left, outack' = outack, kept' = kept,
           bytes_received' = bytes_received, bytes_sent' = bytes_sent,
           bytes_acknowledged' = bytes_acknowledged
    PROVE  Flow(e)'
BY DEF Flow, ReceivedInv, AcksInOrder, AirBound, Fresh, LastAck, Back, InAir

\* The values of a flow, as the lemmas below use them.
LEMMA FlowTypes ==
    ASSUME TypeOK, NEW e \in End
    PROVE  /\ bytes_sent[e] \in Counter /\ processed_bytes[e] \in Counter
           /\ bytes_received[e] \in Counter /\ bytes_acknowledged[e] \in Counter
           /\ left[e] \in Nat /\ want[e] \in Nat
           /\ kept[e] \in 0 .. MaxKeepalive
           /\ outack[e] \in Token /\ (outack[e] # Plain => outack[e] \in Counter)
           /\ stream[e] \in Seq(Token) /\ Len(stream[e]) \in Nat
           /\ \A i \in 1 .. Len(stream[e]) : stream[e][i] # Plain => stream[e][i] \in Counter
           /\ InAir(e) \in Nat
           /\ Extra(kept[e]) \in Nat /\ Extra(kept[e]) <= Extra(MaxKeepalive)
<1> USE DEF Token
<1>1. bytes_sent[e] \in Counter /\ processed_bytes[e] \in Counter
      /\ bytes_received[e] \in Counter /\ bytes_acknowledged[e] \in Counter
      /\ left[e] \in Nat /\ want[e] \in Nat
      /\ kept[e] \in 0 .. MaxKeepalive /\ outack[e] \in Token /\ stream[e] \in Seq(Token)
  BY Limits DEF TypeOK
<1>2. InAir(e) \in Nat
  <2>1. WSub(bytes_sent[e], processed_bytes[e]) \in 0 .. Wrap - 1
    BY <1>1, CounterArith
  <2> QED  BY <2>1, Limits DEF InAir
<1>3. Extra(kept[e]) \in Nat /\ Extra(kept[e]) <= Extra(MaxKeepalive)
  BY <1>1, ExtraFacts
<1>4. \A i \in 1 .. Len(stream[e]) : stream[e][i] # Plain => stream[e][i] \in Counter
  BY <1>1
<1> QED  BY <1>1, <1>2, <1>3, <1>4

\* Writing a byte at e: everything on its way back to e falls one byte behind.
LEMMA WriteOwn ==
    ASSUME TypeOK, TypeOK', NEW e \in End, Flow(e), WriteByte(e)
    PROVE  Flow(e)'
<1> DEFINE o == Other(e)
           s == stream[o]
           n == Len(stream[e])
           b == bytes_sent'[e]
<1>0. o \in End /\ o # e
  BY OtherFacts
<1>1. /\ bytes_sent'[e] = WInc(bytes_sent[e]) /\ bytes_sent'[o] = bytes_sent[o]
      /\ left'[e] = left[e] - 1 /\ left'[o] = left[o] /\ left[e] > 0
      /\ outack'[o] = outack[o] /\ stream'[o] = stream[o] /\ Len(stream'[e]) = n + 1
      /\ processed_bytes' = processed_bytes /\ bytes_received' = bytes_received
      /\ bytes_acknowledged' = bytes_acknowledged /\ kept' = kept
      /\ left[e] = 1 => outack'[e] = Plain
  BY <1>0 DEF WriteByte, TypeOK
<1>2. InAir(e) + 1 < Wrap
  <2>1. InAir(e) + left[e] <= MaxAckInAir + Extra(kept[e])
    BY DEF Flow, AirBound
  <2> QED  BY <1>1, <2>1, FlowTypes, Limits, SMTT(30)
<1>3. \A x \in Counter : Back(e, x) <= InAir(e) => WSub(b, x) = Back(e, x) + 1
  <2> SUFFICES ASSUME NEW x \in Counter, Back(e, x) <= InAir(e)
               PROVE  WSub(WInc(bytes_sent[e]), x) = WSub(bytes_sent[e], x) + 1
    BY <1>1 DEF Back
  <2>1. WSub(bytes_sent[e], x) \in 0 .. Wrap - 1 /\ WSub(bytes_sent[e], x) <= InAir(e)
    BY FlowTypes, CounterArith DEF Back
  <2> QED  BY <1>2, <2>1, FlowTypes, CounterArith, Limits
<1>4. InAir(e)' = InAir(e) + 1
  <2>1. InAir(e) = Back(e, processed_bytes[e]) /\ InAir(e)' = WSub(b, processed_bytes[e])
    BY <1>1 DEF InAir, Back
  <2> QED  BY <1>3, <2>1, FlowTypes
<1>5. ReceivedInv(e)'
  <2>1. Back(e, bytes_received[o]) = n /\ n <= InAir(e)
    BY DEF Flow, ReceivedInv, AcksInOrder
  <2>2. bytes_received[o] \in Counter
    BY <1>0, FlowTypes
  <2> QED  BY <1>1, <1>3, <2>1, <2>2 DEF ReceivedInv, Back
<1>6. AcksInOrder(e)'
  <2>1. AcksInOrder(e)
    BY DEF Flow
  <2>2. \A i \in 1 .. Len(s) : s[i] # Plain => /\ Back(e, s[i]) \in Nat
                                               /\ WSub(b, s[i]) = Back(e, s[i]) + 1
    <3> SUFFICES ASSUME NEW i \in 1 .. Len(s), s[i] # Plain
                 PROVE  Back(e, s[i]) \in Nat /\ WSub(b, s[i]) = Back(e, s[i]) + 1
      OBVIOUS
    <3>1. s[i] \in Counter
      BY <1>0, FlowTypes
    <3>2. Back(e, s[i]) <= InAir(e)
      BY <2>1 DEF AcksInOrder
    <3>3. Back(e, s[i]) \in 0 .. Wrap - 1
      BY <3>1, FlowTypes, CounterArith DEF Back
    <3> QED  BY <1>3, <3>1, <3>2, <3>3, Limits
  <2>3. outack[o] # Plain => /\ Back(e, outack[o]) \in Nat
                             /\ WSub(b, outack[o]) = Back(e, outack[o]) + 1
    <3> SUFFICES ASSUME outack[o] # Plain
                 PROVE  /\ Back(e, outack[o]) \in Nat
                        /\ WSub(b, outack[o]) = Back(e, outack[o]) + 1
      OBVIOUS
    <3>1. outack[o] \in Counter
      BY <1>0, FlowTypes
    <3>2. Back(e, outack[o]) <= InAir(e)
      BY <2>1 DEF AcksInOrder
    <3>3. Back(e, outack[o]) \in 0 .. Wrap - 1
      BY <3>1, FlowTypes, CounterArith DEF Back
    <3> QED  BY <1>3, <3>1, <3>2, <3>3, Limits
  <2>4. n \in Nat /\ InAir(e) \in Nat
    BY FlowTypes
  <2>5. Len(stream'[e]) <= InAir(e)'
    BY <1>1, <1>4, <2>1, <2>4 DEF AcksInOrder
  <2>6. ASSUME NEW i \in 1 .. Len(s), s[i] # Plain
        PROVE  /\ Len(stream'[e]) <= WSub(b, s[i]) /\ WSub(b, s[i]) <= InAir(e)'
               /\ \A j \in 1 .. Len(s) : i < j /\ s[j] # Plain => WSub(b, s[j]) <= WSub(b, s[i])
               /\ outack[o] # Plain => WSub(b, outack[o]) <= WSub(b, s[i])
    <3>1. /\ n <= Back(e, s[i]) /\ Back(e, s[i]) <= InAir(e)
          /\ \A j \in 1 .. Len(s) : i < j /\ s[j] # Plain => Back(e, s[j]) <= Back(e, s[i])
          /\ outack[o] # Plain => Back(e, outack[o]) <= Back(e, s[i])
      BY <2>1, <2>6 DEF AcksInOrder
    <3>2. Len(stream'[e]) <= WSub(b, s[i]) /\ WSub(b, s[i]) <= InAir(e)'
      BY <1>1, <1>4, <2>2, <2>4, <2>6, <3>1
    <3>3. ASSUME NEW j \in 1 .. Len(s), i < j, s[j] # Plain
          PROVE  WSub(b, s[j]) <= WSub(b, s[i])
      BY <2>2, <2>6, <3>1, <3>3
    <3>4. outack[o] # Plain => WSub(b, outack[o]) <= WSub(b, s[i])
      BY <2>2, <2>3, <2>6, <3>1
    <3> QED  BY <3>2, <3>3, <3>4
  <2>7. outack[o] # Plain => /\ Len(stream'[e]) <= WSub(b, outack[o])
                             /\ WSub(b, outack[o]) <= InAir(e)'
    <3>1. outack[o] # Plain => n <= Back(e, outack[o]) /\ Back(e, outack[o]) <= InAir(e)
      BY <2>1 DEF AcksInOrder
    <3> QED  BY <1>1, <1>4, <2>3, <2>4, <3>1
  <2> QED  BY <1>1, <2>5, <2>6, <2>7 DEF AcksInOrder, Back
<1>7. AirBound(e)'
  <2>1. InAir(e) + left[e] <= MaxAckInAir + Extra(kept[e])
    BY DEF Flow, AirBound
  <2>2. InAir(e) \in Nat /\ left[e] \in Nat
    BY FlowTypes
  <2>3. InAir(e)' + left'[e] <= MaxAckInAir + Extra(kept'[e])
    BY <1>1, <1>4, <2>1, <2>2
  <2> QED  BY <2>3 DEF AirBound
<1>8. (outack[e] # Plain => left[e] > 0)'
  BY <1>1, FlowTypes
<1>9. Fresh(e) => Fresh(e)'
  <2> SUFFICES ASSUME Fresh(e)
               PROVE  Fresh(e)'
    OBVIOUS
  <2>1. bytes_sent[e] + left[e] <= MaxInAir + Extra(kept[e])
    BY DEF Fresh
  <2>2. bytes_sent'[e] = bytes_sent[e] + 1
    <3>1. /\ bytes_sent[e] \in Nat /\ left[e] \in Nat /\ Extra(kept[e]) \in Nat
          /\ Extra(kept[e]) <= Extra(MaxKeepalive)
      BY FlowTypes DEF Counter
    <3> QED  BY <1>1, <2>1, <3>1, Limits, SMTT(30) DEF WInc
  <2>3. bytes_sent'[e] + left'[e] <= MaxInAir + Extra(kept'[e])
    BY <1>1, <2>1, <2>2, FlowTypes, Limits, SMTT(30) DEF Counter
  <2> QED  BY <1>1, <2>3 DEF Fresh
<1>10. LastAck(e) => LastAck(e)'
  BY <1>1 DEF LastAck
<1> QED  BY <1>5, <1>6, <1>7, <1>8, <1>9, <1>10 DEF Flow

\* Writing a byte at the other end: an acknowledgement moves from frame_out to
\* the end of the stream.
LEMMA WriteOther ==
    ASSUME TypeOK, TypeOK', NEW e \in End, Flow(e), Flow(Other(e)), WriteByte(Other(e))
    PROVE  Flow(e)'
<1> DEFINE o == Other(e)
           s == stream[o]
           a == outack[o]
           t == stream'[o]
<1>0. o \in End /\ o # e
  BY OtherFacts
<1>1. /\ bytes_sent'[e] = bytes_sent[e] /\ left'[e] = left[e] /\ left[o] > 0
      /\ outack'[e] = outack[e] /\ stream'[e] = stream[e]
      /\ processed_bytes' = processed_bytes /\ bytes_received' = bytes_received
      /\ bytes_acknowledged' = bytes_acknowledged /\ kept' = kept
  BY <1>0 DEF WriteByte, TypeOK
<1>2. PICK x \in Token : /\ t = Append(s, x)
                         /\ \/ x = Plain /\ outack'[o] = a
                            \/ x = a /\ outack'[o] = Plain
  <2>1. CASE left[o] = 1
    BY <1>0, <2>1, FlowTypes DEF WriteByte, TypeOK
  <2>2. CASE left[o] # 1
    <3>1. Plain \in Token
      BY DEF Token
    <3> QED  BY <1>0, <2>2, <3>1, FlowTypes DEF WriteByte, TypeOK
  <2> QED  BY <2>1, <2>2
<1>3. /\ Len(s) \in Nat /\ Len(t) = Len(s) + 1 /\ t[Len(s) + 1] = x
      /\ \A i \in 1 .. Len(s) : t[i] = s[i]
  BY <1>0, <1>2, FlowTypes
<1>4. InAir(e)' = InAir(e) /\ bytes_sent'[e] = bytes_sent[e]
  BY <1>1 DEF InAir
<1>5. AcksInOrder(e)
  BY DEF Flow
<1>6. AcksInOrder(e)'
  <2>1. \A i \in 1 .. Len(t) : i \in 1 .. Len(s) \/ i = Len(s) + 1
    BY <1>3
  <2>2. \A i \in 1 .. Len(t) : t[i] # Plain =>
          /\ Len(stream[e]) <= Back(e, t[i]) /\ Back(e, t[i]) <= InAir(e)
          /\ \A j \in 1 .. Len(t) : i < j /\ t[j] # Plain => Back(e, t[j]) <= Back(e, t[i])
          /\ outack'[o] # Plain => Back(e, outack'[o]) <= Back(e, t[i])
    <3> SUFFICES ASSUME NEW i \in 1 .. Len(t), t[i] # Plain
                 PROVE /\ Len(stream[e]) <= Back(e, t[i]) /\ Back(e, t[i]) <= InAir(e)
                       /\ \A j \in 1 .. Len(t) :
                             i < j /\ t[j] # Plain => Back(e, t[j]) <= Back(e, t[i])
                       /\ outack'[o] # Plain => Back(e, outack'[o]) <= Back(e, t[i])
      OBVIOUS
    <3>1. CASE i = Len(s) + 1
      BY <1>2, <1>3, <1>5, <3>1 DEF AcksInOrder
    <3>2. CASE i \in 1 .. Len(s)
      <4>1. s[i] = t[i]
        BY <1>3, <3>2
      <4>2. /\ Len(stream[e]) <= Back(e, s[i]) /\ Back(e, s[i]) <= InAir(e)
            /\ \A j \in 1 .. Len(s) : i < j /\ s[j] # Plain => Back(e, s[j]) <= Back(e, s[i])
            /\ a # Plain => Back(e, a) <= Back(e, s[i])
        BY <1>5, <3>2, <4>1 DEF AcksInOrder
      <4> QED  BY <1>2, <1>3, <2>1, <4>1, <4>2
    <3> QED  BY <2>1, <3>1, <3>2
  <2>3. outack'[o] # Plain => Len(stream[e]) <= Back(e, outack'[o]) /\ Back(e, outack'[o]) <= InAir(e)
    BY <1>2, <1>5 DEF AcksInOrder
  <2> QED  BY <1>1, <1>4, <1>5, <2>2, <2>3 DEF AcksInOrder, Back
<1>7. LastAck(e)
  BY <1>0, <1>1, FlowTypes DEF Flow, Fresh
<1>8. LastAck(e)'
  <2>1. CASE x = Plain /\ outack'[o] = a
    <3>1. CASE a # Plain
      BY <1>1, <1>7, <2>1, <3>1 DEF LastAck
    <3>2. CASE a = Plain
      <4>1. (\A i \in 1 .. Len(t) : t[i] = Plain) => bytes_acknowledged[o] = processed_bytes[e]
        <5>1. (\A i \in 1 .. Len(t) : t[i] = Plain) => \A i \in 1 .. Len(s) : s[i] = Plain
          BY <1>3
        <5> QED  BY <1>7, <3>2, <5>1 DEF LastAck
      <4>2. ASSUME NEW i \in 1 .. Len(t), t[i] # Plain,
                   \A j \in 1 .. Len(t) : i < j => t[j] = Plain
            PROVE  bytes_acknowledged[o] = t[i]
        <5>1. i \in 1 .. Len(s) /\ t[i] = s[i]
          BY <1>3, <2>1, <4>2
        <5>2. \A j \in 1 .. Len(s) : i < j => s[j] = Plain
          <6> SUFFICES ASSUME NEW j \in 1 .. Len(s), i < j
                       PROVE  s[j] = Plain
            OBVIOUS
          <6>1. j \in 1 .. Len(t) /\ t[j] = s[j]
            BY <1>3
          <6> QED  BY <4>2, <6>1
        <5> QED  BY <1>7, <3>2, <4>2, <5>1, <5>2 DEF LastAck
      <4> QED  BY <1>1, <2>1, <3>2, <4>1, <4>2 DEF LastAck
    <3> QED  BY <3>1, <3>2
  <2>2. CASE x # Plain /\ x = a /\ outack'[o] = Plain
    BY <1>1, <1>3, <1>7, <2>2 DEF LastAck
  <2> QED  BY <1>2, <2>1, <2>2
<1>9. ReceivedInv(e)' /\ AirBound(e)' /\ (outack[e] # Plain => left[e] > 0)'
  BY <1>1, <1>4 DEF Flow, ReceivedInv, AirBound, Back
<1> QED  BY <1>6, <1>8, <1>9 DEF Flow

\* Reading a byte at e, perhaps the end of an acknowledgement: e learns that
\* more has been processed.
LEMMA ReadOwn ==
    ASSUME TypeOK, TypeOK', NEW e \in End, Flow(e), ReadByte(e)
    PROVE  Flow(e)'
<1> DEFINE o == Other(e)
           s == stream[o]
           t == stream'[o]
           a == outack[o]
<1>0. o \in End /\ o # e
  BY OtherFacts
<1>1. /\ stream'[e] = stream[e] /\ s # <<>> /\ t = Tail(s)
      /\ bytes_received'[o] = bytes_received[o]
      /\ bytes_sent' = bytes_sent /\ bytes_acknowledged' = bytes_acknowledged
      /\ left' = left /\ outack' = outack /\ kept' = kept
      /\ processed_bytes'[e] = IF s[1] = Plain THEN processed_bytes[e] ELSE s[1]
  BY <1>0, FlowTypes DEF ReadByte, TypeOK
<1>2. /\ Len(s) \in Nat \ {0} /\ Len(t) = Len(s) - 1
      /\ \A i \in 1 .. Len(t) : i + 1 \in 2 .. Len(s) /\ t[i] = s[i + 1]
      /\ \A i \in 2 .. Len(s) : i - 1 \in 1 .. Len(t) /\ t[i - 1] = s[i]
  BY <1>0, <1>1, FlowTypes, SMTT(30)
<1>3. AcksInOrder(e)
  BY DEF Flow
<1>4. LastAck(e)
  BY <1>1 DEF Flow, Fresh
<1>5. /\ InAir(e) \in Nat /\ InAir(e)' \in Nat
      /\ s[1] = Plain => InAir(e)' = InAir(e)
      /\ s[1] # Plain => InAir(e)' = Back(e, s[1]) /\ Back(e, s[1]) <= InAir(e)
  <2>1. InAir(e) \in Nat
    BY FlowTypes
  <2>2. InAir(e)' \in Nat
    <3>1. WSub(bytes_sent'[e], processed_bytes'[e]) \in 0 .. Wrap - 1
      BY CounterArith DEF TypeOK
    <3> QED  BY <3>1, Limits DEF InAir
  <2>3. s[1] = Plain => InAir(e)' = InAir(e)
    BY <1>1 DEF InAir
  <2>4. s[1] # Plain => InAir(e)' = Back(e, s[1])
    BY <1>1 DEF InAir, Back
  <2>5. s[1] # Plain => Back(e, s[1]) <= InAir(e)
    BY <1>2, <1>3, SMTT(30) DEF AcksInOrder
  <2> QED  BY <2>1, <2>2, <2>3, <2>4, <2>5
<1>6. AcksInOrder(e)'
  <2>1. \A i \in 1 .. Len(t) : t[i] # Plain =>
          /\ Len(stream[e]) <= Back(e, t[i]) /\ Back(e, t[i]) <= InAir(e)'
          /\ \A j \in 1 .. Len(t) : i < j /\ t[j] # Plain => Back(e, t[j]) <= Back(e, t[i])
          /\ a # Plain => Back(e, a) <= Back(e, t[i])
    <3> SUFFICES ASSUME NEW i \in 1 .. Len(t), t[i] # Plain
                 PROVE  /\ Len(stream[e]) <= Back(e, t[i]) /\ Back(e, t[i]) <= InAir(e)'
                        /\ \A j \in 1 .. Len(t) :
                              i < j /\ t[j] # Plain => Back(e, t[j]) <= Back(e, t[i])
                        /\ a # Plain => Back(e, a) <= Back(e, t[i])
      OBVIOUS
    <3>1. i + 1 \in 1 .. Len(s) /\ 1 \in 1 .. Len(s) /\ t[i] = s[i + 1] /\ 1 < i + 1
      BY <1>2
    <3>2. /\ Len(stream[e]) <= Back(e, s[i + 1]) /\ Back(e, s[i + 1]) <= InAir(e)
          /\ \A j \in 1 .. Len(s) :
                i + 1 < j /\ s[j] # Plain => Back(e, s[j]) <= Back(e, s[i + 1])
          /\ a # Plain => Back(e, a) <= Back(e, s[i + 1])
          /\ s[1] # Plain => Back(e, s[i + 1]) <= Back(e, s[1])
      BY <1>3, <3>1 DEF AcksInOrder
    <3>3. \A j \in 1 .. Len(t) :
             i < j /\ t[j] # Plain => Back(e, t[j]) <= Back(e, t[i])
      <4> SUFFICES ASSUME NEW j \in 1 .. Len(t), i < j, t[j] # Plain
                   PROVE  Back(e, t[j]) <= Back(e, t[i])
        OBVIOUS
      <4>1. j + 1 \in 1 .. Len(s) /\ t[j] = s[j + 1] /\ i + 1 < j + 1
        BY <1>2
      <4> QED  BY <3>1, <3>2, <4>1
    <3> QED  BY <1>5, <3>1, <3>2, <3>3
  <2>2. a # Plain => Len(stream[e]) <= Back(e, a) /\ Back(e, a) <= InAir(e)'
    BY <1>2, <1>3, <1>5 DEF AcksInOrder
  <2>3. Len(stream[e]) <= InAir(e)'
    BY <1>2, <1>3, <1>5 DEF AcksInOrder
  <2> QED  BY <1>1, <2>1, <2>2, <2>3 DEF AcksInOrder, Back
<1>7. LastAck(e)'
  <2>1. \A i \in 1 .. Len(t) :
           t[i] # Plain /\ (\A j \in 1 .. Len(t) : i < j => t[j] = Plain)
           => s[i + 1] # Plain /\ \A j \in 1 .. Len(s) : i + 1 < j => s[j] = Plain
    <3> SUFFICES ASSUME NEW i \in 1 .. Len(t), t[i] # Plain,
                        \A j \in 1 .. Len(t) : i < j => t[j] = Plain,
                        NEW j \in 1 .. Len(s), i + 1 < j
                 PROVE  s[i + 1] # Plain /\ s[j] = Plain
      BY <1>2
    <3>1. j \in 2 .. Len(s) /\ j - 1 \in 1 .. Len(t) /\ i < j - 1
      BY <1>2
    <3> QED  BY <1>2, <3>1
  <2>2. (\A i \in 1 .. Len(t) : t[i] = Plain) => \A j \in 1 .. Len(s) : 1 < j => s[j] = Plain
    BY <1>2
  <2>3. a = Plain /\ (\A i \in 1 .. Len(t) : t[i] = Plain)
        => bytes_acknowledged[o] = processed_bytes'[e]
    <3> SUFFICES ASSUME a = Plain, \A i \in 1 .. Len(t) : t[i] = Plain
                 PROVE  bytes_acknowledged[o] = processed_bytes'[e]
      OBVIOUS
    <3>1. CASE s[1] = Plain
      <4>1. \A i \in 1 .. Len(s) : s[i] = Plain
        BY <1>2, <2>2, <3>1
      <4> QED  BY <1>1, <1>4, <3>1, <4>1 DEF LastAck
    <3>2. CASE s[1] # Plain
      <4>1. 1 \in 1 .. Len(s)
        BY <1>2
      <4> QED  BY <1>1, <1>4, <2>2, <3>2, <4>1 DEF LastAck
    <3> QED  BY <3>1, <3>2
  <2>4. a = Plain => \A i \in 1 .. Len(t) :
           t[i] # Plain /\ (\A j \in 1 .. Len(t) : i < j => t[j] = Plain)
           => bytes_acknowledged[o] = t[i]
    <3> SUFFICES ASSUME a = Plain, NEW i \in 1 .. Len(t),
                        t[i] # Plain, \A j \in 1 .. Len(t) : i < j => t[j] = Plain
                 PROVE  bytes_acknowledged[o] = t[i]
      OBVIOUS
    <3>1. i + 1 \in 1 .. Len(s) /\ t[i] = s[i + 1]
      BY <1>2
    <3>2. s[i + 1] # Plain /\ \A j \in 1 .. Len(s) : i + 1 < j => s[j] = Plain
      BY <2>1
    <3> QED  BY <1>4, <3>1, <3>2 DEF LastAck
  <2> QED  BY <1>1, <1>4, <2>3, <2>4 DEF LastAck
<1>8. ReceivedInv(e)' /\ (outack[e] # Plain => left[e] > 0)'
  BY <1>1 DEF Flow, ReceivedInv, Back
<1>9. AirBound(e)'
  <2>1. InAir(e) + left[e] <= MaxAckInAir + Extra(kept[e])
    BY DEF Flow, AirBound
  <2>2. left[e] \in Nat /\ Extra(kept[e]) \in Nat /\ InAir(e)' <= InAir(e)
    BY <1>5, FlowTypes
  <2>3. InAir(e)' + left'[e] <= MaxAckInAir + Extra(kept'[e])
    BY <1>1, <1>5, <2>1, <2>2, Limits
  <2> QED  BY <2>3 DEF AirBound
<1> QED  BY <1>6, <1>7, <1>8, <1>9 DEF Flow

\* Reading a byte at the other end.
LEMMA ReadOther ==
    ASSUME TypeOK, TypeOK', NEW e \in End, Flow(e), ReadByte(Other(e))
    PROVE  Flow(e)'
<1> DEFINE o == Other(e)
           n == Len(stream[e])
<1>0. o \in End /\ o # e /\ Other(o) = e
  BY OtherFacts
<1>1. /\ stream'[o] = stream[o] /\ stream[e] # <<>> /\ stream'[e] = Tail(stream[e])
      /\ bytes_received'[o] = WInc(bytes_received[o])
      /\ bytes_received'[e] = bytes_received[e]
      /\ processed_bytes'[e] = processed_bytes[e]
      /\ bytes_sent' = bytes_sent /\ bytes_acknowledged' = bytes_acknowledged
      /\ left' = left /\ outack' = outack /\ kept' = kept
  BY <1>0 DEF ReadByte, TypeOK
<1>2. n \in Nat /\ n > 0 /\ Len(stream'[e]) = n - 1
  BY <1>1, FlowTypes
<1>3. InAir(e)' = InAir(e) /\ InAir(e) \in Nat
  BY <1>1, FlowTypes DEF InAir
<1>4. ReceivedInv(e)'
  <2>1. bytes_sent[e] \in Counter /\ bytes_received[o] \in Counter
    BY <1>0, FlowTypes
  <2>2. WSub(bytes_sent[e], bytes_received[o]) = n
    BY DEF Flow, ReceivedInv, Back
  <2>3. WSub(bytes_sent[e], WInc(bytes_received[o])) = n - 1
    BY <1>2, <2>1, <2>2, CounterArith
  <2> QED  BY <1>1, <1>2, <2>3 DEF ReceivedInv, Back
<1>5. AcksInOrder(e)'
  <2>1. AcksInOrder(e)
    BY DEF Flow
  <2>2. \A i \in 1 .. Len(stream[o]) : stream[o][i] # Plain => Back(e, stream[o][i]) \in Nat
    <3> SUFFICES ASSUME NEW i \in 1 .. Len(stream[o]), stream[o][i] # Plain
                 PROVE  Back(e, stream[o][i]) \in Nat
      OBVIOUS
    <3>1. stream[o][i] \in Counter
      BY <1>0, FlowTypes
    <3>2. Back(e, stream[o][i]) \in 0 .. Wrap - 1
      BY <3>1, FlowTypes, CounterArith DEF Back
    <3> QED  BY <3>2, Limits
  <2>3. outack[o] # Plain => Back(e, outack[o]) \in Nat
    <3>1. outack[o] # Plain => Back(e, outack[o]) \in 0 .. Wrap - 1
      BY <1>0, FlowTypes, CounterArith DEF Back
    <3> QED  BY <3>1, Limits
  <2> QED  BY <1>1, <1>2, <1>3, <2>1, <2>2, <2>3 DEF AcksInOrder, Back
<1>6. AirBound(e)' /\ (outack[e] # Plain => left[e] > 0)'
  BY <1>1, <1>3 DEF Flow, AirBound
<1>7. Fresh(e) \/ LastAck(e)
  BY DEF Flow
<1>8. (Fresh(e) \/ LastAck(e))'
  BY <1>1, <1>7 DEF Fresh, LastAck
<1> QED  BY <1>4, <1>5, <1>6, <1>8 DEF Flow

\* e puts an acknowledgement, asked for or kept alive, into frame_out.
LEMMA PutAckOwn ==
    ASSUME TypeOK, NEW e \in End, Flow(e), left[e] = 0, PutAck(e),
           UNCHANGED <<bytes_sent, processed_bytes, bytes_received, stream>>,
           InAir(e) + AckSz <= MaxAckInAir + Extra(kept'[e]),
           Fresh(e) => bytes_sent[e] + AckSz <= MaxInAir + Extra(kept'[e])
    PROVE  Flow(e)'
<1> DEFINE o == Other(e)
<1>0. o \in End /\ o # e
  BY OtherFacts
<1>1. /\ left'[e] = AckSz /\ left'[o] = left[o]
      /\ outack'[o] = outack[o]
      /\ bytes_acknowledged'[o] = bytes_acknowledged[o]
      /\ bytes_acknowledged'[e] = bytes_received[e]
  BY <1>0 DEF PutAck, TypeOK
<1>2. InAir(e)' = InAir(e)
  BY DEF InAir
<1>3. ReceivedInv(e)' /\ AcksInOrder(e)'
  BY <1>1, <1>2 DEF Flow, ReceivedInv, AcksInOrder, Back
<1>4. AirBound(e)' /\ (outack[e] # Plain => left[e] > 0)'
  BY <1>1, <1>2, Limits DEF AirBound
<1>5. Fresh(e) => Fresh(e)'
  BY <1>1 DEF Fresh
<1>6. LastAck(e) => LastAck(e)'
  BY <1>1 DEF LastAck
<1> QED  BY <1>3, <1>4, <1>5, <1>6 DEF Flow

\* The other end does: it acknowledges all that it has received.
LEMMA PutAckOther ==
    ASSUME TypeOK, NEW e \in End, Flow(e), left[Other(e)] = 0, PutAck(Other(e)),
           UNCHANGED <<bytes_sent, processed_bytes, bytes_received, stream>>,
           kept'[e] = kept[e]
    PROVE  Flow(e)'
<1> DEFINE o == Other(e)
           r == bytes_received[o]
<1>0. o \in End /\ o # e
  BY OtherFacts
<1>1. /\ left'[e] = left[e] /\ outack'[e] = outack[e]
      /\ outack'[o] = r /\ bytes_acknowledged'[o] = r
  BY <1>0 DEF PutAck, TypeOK
<1>2. r # Plain
  BY <1>0, FlowTypes, Limits DEF Counter, Plain
<1>3. InAir(e)' = InAir(e)
  BY DEF InAir
<1>4. Back(e, r) = Len(stream[e]) /\ Len(stream[e]) \in Nat
  BY FlowTypes DEF Flow, ReceivedInv
<1>5. AcksInOrder(e)
  BY DEF Flow
<1>6. AcksInOrder(e)'
  BY <1>1, <1>3, <1>4, <1>5 DEF AcksInOrder, Back
<1>7. LastAck(e)'
  BY <1>1, <1>2 DEF LastAck
<1>8. ReceivedInv(e)' /\ AirBound(e)' /\ (outack[e] # Plain => left[e] > 0)'
  BY <1>1, <1>3 DEF Flow, ReceivedInv, AirBound, Back
<1> QED  BY <1>6, <1>7, <1>8 DEF Flow

\* A data or system frame: it fits in the air.
LEMMA MakeFrameOwn ==
    ASSUME TypeOK, NEW e \in End, Flow(e), MakeFrame(e)
    PROVE  Flow(e)'
<1> DEFINE o == Other(e)
<1>0. o \in End /\ o # e
  BY OtherFacts
<1>1. /\ left'[e] = want[e] /\ left'[o] = left[o] /\ left[e] = 0
      /\ outack'[e] = Plain /\ outack'[o] = outack[o]
      /\ bytes_sent' = bytes_sent /\ processed_bytes' = processed_bytes
      /\ bytes_received' = bytes_received /\ stream' = stream /\ kept' = kept
      /\ bytes_acknowledged' = bytes_acknowledged
  BY <1>0 DEF MakeFrame, TypeOK
<1>2. want[e] \in Nat /\ InAir(e) \in Nat /\ want[e] <= MaxInAir - InAir(e)
      /\ Extra(kept[e]) \in Nat
  BY FlowTypes DEF MakeFrame, FitsInAir
<1>3. InAir(e)' = InAir(e)
  BY <1>1 DEF InAir
<1>4. ReceivedInv(e)' /\ AcksInOrder(e)'
  BY <1>1, <1>3 DEF Flow, ReceivedInv, AcksInOrder, Back
<1>5. AirBound(e)' /\ (outack[e] # Plain => left[e] > 0)'
  BY <1>1, <1>2, <1>3, Limits DEF AirBound
<1>6. Fresh(e) => Fresh(e)'
  <2> SUFFICES ASSUME Fresh(e)
               PROVE  Fresh(e)'
    OBVIOUS
  <2>1. bytes_acknowledged[e] = 0
    BY FirstAckDue DEF Fresh, MakeFrame
  <2>2. InAir(e) = bytes_sent[e]
    <3>1. processed_bytes[e] = 0 /\ processed_bytes[e] \in Counter /\ bytes_sent[e] \in Counter
      BY FlowTypes DEF Fresh
    <3> QED  BY <3>1, CounterArith DEF InAir
  <2>3. bytes_sent'[e] + left'[e] <= MaxInAir + Extra(kept'[e])
    BY <1>1, <1>2, <2>2, Limits
  <2> QED  BY <1>1, <2>1, <2>3 DEF Fresh
<1>7. LastAck(e) => LastAck(e)'
  BY <1>1 DEF LastAck
<1> QED  BY <1>4, <1>5, <1>6, <1>7 DEF Flow

LEMMA MakeFrameOther ==
    ASSUME TypeOK, NEW e \in End, Flow(e), Flow(Other(e)), MakeFrame(Other(e))
    PROVE  Flow(e)'
<1> DEFINE o == Other(e)
<1>0. o \in End /\ o # e
  BY OtherFacts
<1>1. /\ left'[e] = left[e] /\ left[o] = 0
      /\ outack'[e] = outack[e] /\ outack'[o] = Plain
      /\ bytes_sent' = bytes_sent /\ processed_bytes' = processed_bytes
      /\ bytes_received' = bytes_received /\ stream' = stream /\ kept' = kept
      /\ bytes_acknowledged' = bytes_acknowledged /\ ~AckNeeded(o)
  BY <1>0 DEF MakeFrame, TypeOK
<1>2. outack[o] = Plain
  BY <1>1 DEF Flow
<1>3. ~Fresh(e)
  <2>1. Len(stream[e]) <= InAir(e) /\ Len(stream[e]) \in Nat /\ InAir(e) \in Nat
    BY FlowTypes DEF Flow, AcksInOrder
  <2> QED  BY <1>1, <2>1, FreshOwes DEF Flow
<1>4. InAir(e)' = InAir(e)
  BY <1>1 DEF InAir
<1>5. ReceivedInv(e)' /\ AcksInOrder(e)' /\ AirBound(e)' /\ (outack[e] # Plain => left[e] > 0)'
  BY <1>1, <1>2, <1>4 DEF Flow, ReceivedInv, AcksInOrder, AirBound, Back
<1>6. LastAck(e)'
  BY <1>1, <1>2, <1>3 DEF Flow, LastAck
<1> QED  BY <1>5, <1>6 DEF Flow

\* An acknowledgement is made only when there is room for it.
LEMMA AcknowledgeStep ==
    ASSUME TypeOK, NEW e \in End, Flow(e), Flow(Other(e)), AcknowledgeAsNeeded(e)
    PROVE  Flow(e)' /\ Flow(Other(e))'
<1> DEFINE o == Other(e)
<1>0. o \in End /\ o # e /\ Other(o) = e
  BY OtherFacts
<1>1. /\ left[e] = 0 /\ PutAck(e) /\ AckNeeded(e) /\ MaxAckInAir - InAir(e) >= AckSz
      /\ UNCHANGED <<bytes_sent, processed_bytes, bytes_received, stream>>
      /\ kept' = kept
  BY DEF AcknowledgeAsNeeded, RoomForAck
<1>2. InAir(e) \in Nat /\ Extra(kept[e]) \in Nat
  BY FlowTypes
<1>3. InAir(e) + AckSz <= MaxAckInAir + Extra(kept'[e])
  BY <1>1, <1>2, Limits
<1>4. Fresh(e) => bytes_sent[e] + AckSz <= MaxInAir + Extra(kept'[e])
  <2>1. Fresh(e) => bytes_sent[e] = 0
    BY <1>1, FirstAckDue DEF Fresh
  <2> QED  BY <1>1, <1>2, <2>1, Limits
<1>5. Flow(e)'
  BY <1>1, <1>3, <1>4, PutAckOwn
<1>6. Flow(o)'
  BY <1>0, <1>1, PutAckOther
<1> QED  BY <1>5, <1>6

\* A keep alive is not held back by flow control.  On a settled line less than
\* AckLimit bytes wait for an acknowledgement; otherwise it is counted.
LEMMA KeepaliveStep ==
    ASSUME TypeOK, NEW e \in End, Flow(e), Flow(Other(e)), SendKeepalive(e)
    PROVE  Flow(e)' /\ Flow(Other(e))'
<1> DEFINE o == Other(e)
           k == IF Settled(e) THEN 0 ELSE kept[e]
<1>0. o \in End /\ o # e /\ Other(o) = e
  BY OtherFacts
<1>1. /\ left[e] = 0 /\ PutAck(e)
      /\ UNCHANGED <<bytes_sent, processed_bytes, bytes_received, stream>>
      /\ k < MaxKeepalive /\ kept'[e] = k + 1 /\ kept'[o] = kept[o]
  BY <1>0 DEF SendKeepalive, TypeOK
<1>2. /\ InAir(e) \in Nat /\ bytes_sent[e] \in Nat /\ kept[e] \in 0 .. MaxKeepalive
      /\ Extra(kept[e]) \in Nat /\ Len(stream[e]) \in Nat
  BY FlowTypes DEF Counter
<1>3. k \in 0 .. MaxKeepalive
  BY <1>2, Limits
<1>4. Extra(k) \in Nat /\ Extra(kept'[e]) = Extra(k) + AckSz
  <2> HIDE DEF k
  <2> QED  BY <1>1, <1>3, ExtraFacts
<1>5. Settled(e) => ~Fresh(e) /\ InAir(e) <= MaxAckInAir
  <2> SUFFICES ASSUME Settled(e)
               PROVE  ~Fresh(e) /\ InAir(e) <= MaxAckInAir
    OBVIOUS
  <2>1. ~AckNeeded(o) /\ stream[e] = <<>> /\ stream[o] = <<>> /\ left[o] = 0
    BY DEF Settled
  <2>2. ReceivedInv(e) /\ Len(stream[e]) <= InAir(e) /\ (Fresh(e) \/ LastAck(e))
        /\ outack[o] = Plain
    BY <2>1 DEF Flow, AcksInOrder
  <2>3. ~Fresh(e)
    BY <1>2, <2>1, <2>2, FreshOwes
  <2>4. bytes_acknowledged[o] = processed_bytes[e]
    BY <2>1, <2>2, <2>3 DEF LastAck
  <2>5. bytes_received[o] = bytes_sent[e]
    <3>1. WSub(bytes_sent[e], bytes_received[o]) = 0
      BY <2>1, <2>2 DEF ReceivedInv, Back
    <3>2. bytes_sent[e] \in Counter /\ bytes_received[o] \in Counter
      BY <1>0, FlowTypes
    <3> QED  BY <3>1, <3>2, CounterArith
  <2>6. InAir(e) < AckLimit
    BY <1>2, <2>1, <2>4, <2>5, Limits DEF AckNeeded, Unacknowledged, InAir
  <2> QED  BY <1>2, <2>3, <2>6, Limits
<1>6. InAir(e) + AckSz <= MaxAckInAir + Extra(kept'[e])
  <2>1. CASE Settled(e)
    BY <1>2, <1>4, <1>5, <2>1, Limits
  <2>2. CASE ~Settled(e)
    <3>1. InAir(e) + left[e] <= MaxAckInAir + Extra(kept[e]) /\ k = kept[e]
      BY <2>2 DEF Flow, AirBound
    <3> QED  BY <1>1, <1>2, <1>4, <3>1, Limits
  <2> QED  BY <2>1, <2>2
<1>7. Fresh(e) => bytes_sent[e] + AckSz <= MaxInAir + Extra(kept'[e])
  <2> SUFFICES ASSUME Fresh(e)
               PROVE  bytes_sent[e] + AckSz <= MaxInAir + Extra(kept'[e])
    OBVIOUS
  <2>1. bytes_sent[e] + left[e] <= MaxInAir + Extra(kept[e]) /\ k = kept[e]
    BY <1>5 DEF Fresh
  <2> QED  BY <1>1, <1>2, <1>4, <2>1, Limits
<1>8. Flow(e)'
  BY <1>1, <1>6, <1>7, PutAckOwn
<1>9. Flow(o)'
  BY <1>0, <1>1, PutAckOther
<1> QED  BY <1>8, <1>9

----------------------------------------------------------------------------
LEMMA FlowInit == Init => FlowInv
<1> SUFFICES ASSUME Init
             PROVE  FlowInv
  OBVIOUS
<1>1. 0 \in Counter /\ InitAck \in Counter /\ Plain \in Token /\ <<>> \in Seq(Token)
  BY Limits DEF Counter, Token
<1>2. TypeOK
  BY <1>1, Limits DEF Init, TypeOK
<1>3. ASSUME NEW e \in End
      PROVE  Flow(e)
  <2>0. Other(e) \in End
    BY OtherFacts
  <2>1. WSub(0, 0) = 0
    BY DEF WSub
  <2>2. 0 \in 0 .. MaxKeepalive
    BY Limits
  <2>3. Extra(0) \in Nat
    BY <2>2, ExtraFacts
  <2>4. ReceivedInv(e) /\ AcksInOrder(e)
    BY <2>0, <2>1 DEF Init, ReceivedInv, AcksInOrder, Back, InAir
  <2>5. AirBound(e)
    BY <2>1, <2>3, Limits DEF Init, AirBound, InAir
  <2>6. Fresh(e)
    BY <2>0, <2>3, Limits DEF Init, Fresh
  <2> QED  BY <2>4, <2>5, <2>6 DEF Flow, Init
<1> QED  BY <1>2, <1>3 DEF FlowInv

LEMMA FlowNext == FlowInv /\ [Next]_vars => FlowInv'
<1> SUFFICES ASSUME FlowInv, [Next]_vars
             PROVE  FlowInv'
  OBVIOUS
<1>1. TypeOK /\ TypeOK' /\ \A e \in End : Flow(e)
  BY NextTypeOK DEF FlowInv
<1>2. CASE UNCHANGED vars
  BY <1>1, <1>2, FlowKept DEF vars, FlowInv
<1>3. ASSUME NEW e \in End, Flow(e)', Flow(Other(e))'
      PROVE  FlowInv'
  BY <1>1, <1>3, TwoEnds DEF FlowInv
<1>4. ASSUME NEW e \in End
      PROVE  Flow(e) /\ Other(e) \in End /\ Flow(Other(e)) /\ Other(Other(e)) = e
  BY <1>1, OtherFacts
<1>5. ASSUME NEW e \in End, NEW n \in 1 .. MaxFrame, NewData(e, n)
      PROVE  FlowInv'
  BY <1>1, <1>5, FlowKept DEF NewData, FlowInv
<1>6. ASSUME NEW e \in End, AcknowledgeAsNeeded(e)
      PROVE  FlowInv'
  BY <1>1, <1>3, <1>4, <1>6, AcknowledgeStep
<1>7. ASSUME NEW e \in End, MakeFrame(e)
      PROVE  FlowInv'
  BY <1>1, <1>3, <1>4, <1>7, MakeFrameOwn, MakeFrameOther
<1>8. ASSUME NEW e \in End, SendKeepalive(e)
      PROVE  FlowInv'
  BY <1>1, <1>3, <1>4, <1>8, KeepaliveStep
<1>9. ASSUME NEW e \in End, WriteByte(e)
      PROVE  FlowInv'
  BY <1>1, <1>3, <1>4, <1>9, WriteOwn, WriteOther
<1>10. ASSUME NEW e \in End, ReadByte(e)
       PROVE  FlowInv'
  BY <1>1, <1>3, <1>4, <1>10, ReadOwn, ReadOther
<1> QED  BY <1>2, <1>5, <1>6, <1>7, <1>8, <1>9, <1>10 DEF Next

\* The inductive invariant of flow control holds in every reachable state: the
\* acknowledgements in each direction and the counts they carry stay in order.
THEOREM FlowInvariance == Spec => []FlowInv
<1> QED  BY FlowInit, FlowNext, PTL DEF Spec

\* Every variable of flow control keeps its type, the counters their mask.
THEOREM FlowTypeOK == Spec => []TypeOK
<1>1. FlowInv => TypeOK
  BY DEF FlowInv
<1> QED  BY <1>1, FlowInvariance, PTL

\* What ioc_connection_send computes from masked counters is the number of bytes
\* in the stream or read and not acknowledged, for every mask and every limit.
THEOREM MaskedCountsExact == Spec => []InAirExact
<1>1. FlowInv => InAirExact
  <2> SUFFICES ASSUME FlowInv, NEW e \in End
               PROVE  InAir(e) = Len(stream[e])
                                 + WSub(bytes_received[Other(e)], processed_bytes[e])
    BY DEF InAirExact
  <2>1. TypeOK /\ Flow(e) /\ Other(e) \in End
    BY OtherFacts DEF FlowInv
  <2>2. /\ bytes_sent[e] \in Counter /\ processed_bytes[e] \in Counter
        /\ bytes_received[Other(e)] \in Counter
        /\ Len(stream[e]) \in Nat /\ InAir(e) \in Nat
    BY <2>1, FlowTypes
  <2>3. /\ WSub(bytes_sent[e], bytes_received[Other(e)]) = Len(stream[e])
        /\ Len(stream[e]) <= WSub(bytes_sent[e], processed_bytes[e])
    BY <2>1 DEF Flow, ReceivedInv, AcksInOrder, Back, InAir
  <2>4. WSub(bytes_received[Other(e)], processed_bytes[e])
        = WSub(bytes_sent[e], processed_bytes[e]) - Len(stream[e])
    BY <2>2, <2>3, CounterBetween
  <2> QED  BY <2>2, <2>4 DEF InAir
<1> QED  BY <1>1, FlowInvariance, PTL

\* Keep alives come on top of what flow control lets through.
KeepalivesOnTop == \A e \in End : Len(stream[e]) <= MaxAckInAir + kept[e] * AckSz

\* What waits in the receive buffer of the other end never exceeds the limit
\* for acknowledgements by more than the keep alives that flow control does not
\* hold back: with room for those the buffer cannot overflow.
THEOREM StreamBounded == Spec => []KeepalivesOnTop
<1>1. FlowInv => KeepalivesOnTop
  <2> SUFFICES ASSUME FlowInv, NEW e \in End
               PROVE  Len(stream[e]) <= MaxAckInAir + Extra(kept[e])
    BY DEF KeepalivesOnTop, Extra
  <2>1. TypeOK /\ Len(stream[e]) <= InAir(e) /\ InAir(e) + left[e] <= MaxAckInAir + Extra(kept[e])
    BY DEF FlowInv, Flow, AcksInOrder, AirBound
  <2>2. Len(stream[e]) \in Nat /\ InAir(e) \in Nat /\ left[e] \in Nat /\ Extra(kept[e]) \in Nat
    BY <2>1, FlowTypes
  <2> QED  BY <2>1, <2>2, Limits
<1> QED  BY <1>1, FlowInvariance, PTL

----------------------------------------------------------------------------
(* The receive buffer.                                                     *)

\* What an acknowledgement accounts for of the bytes received.
Worth(m) == m * AckLimit

\* len bytes are no more than frames below max_in_air, k keep alives and the
\* acknowledgements that are due for d bytes.
Room(len, d, k) == \E m \in Nat : len <= MaxInAir + Extra(k + m) /\ Worth(m) <= d

\* How far e has acknowledged beyond x.
Beyond(e, x) == WSub(bytes_acknowledged[e], x)

\* The bytes e has written and the other end has not read, and of these the ones
\* behind any acknowledgement.
Load(e) ==
    LET s == stream[e]
    IN  /\ Room(Len(s) + left[e], Beyond(e, processed_bytes[Other(e)]), kept[e] + 1)
        /\ \A i \in 1 .. Len(s) :
              s[i] # Plain => Room(Len(s) - i + left[e], Beyond(e, s[i]), kept[e])

LoadInv == \A e \in End : Load(e)

\* Multiples of the size and of the limit.
LEMMA ExtraStep ==
    ASSUME NEW k \in Nat
    PROVE  Extra(k) \in Nat /\ Extra(k + 1) = Extra(k) + AckSz
<1>1. AckSz \in Nat
  BY FlowAssumption
<1>2. k * AckSz \in Nat /\ (k + 1) * AckSz = k * AckSz + AckSz
  BY <1>1
<1> QED  BY <1>2 DEF Extra

LEMMA WorthStep ==
    ASSUME NEW m \in Nat
    PROVE  Worth(m) \in Nat /\ Worth(m + 1) = Worth(m) + AckLimit /\ Worth(0) = 0
<1>1. AckLimit \in Nat
  BY FlowAssumption
<1>2. m * AckLimit \in Nat /\ (m + 1) * AckLimit = m * AckLimit + AckLimit /\ 0 * AckLimit = 0
  BY <1>1
<1> QED  BY <1>2 DEF Worth

\* Frames below max_in_air and keep alives need no acknowledgement to be due.
LEMMA RoomAtFirst ==
    ASSUME NEW k \in Nat, NEW len \in Nat, NEW d \in Nat, len <= MaxInAir + Extra(k)
    PROVE  Room(len, d, k)
<1>1. k + 0 = k /\ 0 \in Nat /\ Worth(0) <= d
  BY WorthStep
<1> QED  BY <1>1 DEF Room

\* Fewer bytes, later: there is still room.
LEMMA RoomStays ==
    ASSUME NEW k \in Nat, NEW j \in {k, k + 1}, NEW len \in Nat, NEW n \in Nat,
           NEW d \in Nat, NEW f \in Nat, n <= len, d <= f, Room(len, d, k)
    PROVE  Room(n, f, j)
<1>1. PICK m \in Nat : len <= MaxInAir + Extra(k + m) /\ Worth(m) <= d
  BY DEF Room
<1>w. PICK w \in Nat : w = Worth(m)
  BY WorthStep
<1>2. Worth(m) <= f
  <2>1. w <= d
    BY <1>1, <1>w
  <2> QED  BY <2>1, <1>w
<1>h. PICK h \in Nat : h = k + m
  OBVIOUS
<1>x. PICK x \in Nat : x = Extra(h)
  BY ExtraStep
<1>3. Extra(h + 1) = x + AckSz
  BY <1>x, ExtraStep
<1>4. n <= MaxInAir + x
  <2>1. len <= MaxInAir + x
    BY <1>1, <1>h, <1>x
  <2> QED  BY <2>1, Limits
<1>5. CASE j = k
  BY <1>2, <1>4, <1>5, <1>h, <1>x DEF Room
<1>6. CASE j = k + 1
  <2>1. n <= MaxInAir + Extra(h + 1)
    <3>1. n <= MaxInAir + (x + AckSz)
      BY <1>4, Limits
    <3> QED  BY <1>3, <3>1
  <2>2. j + m = h + 1
    BY <1>6, <1>h
  <2> QED  BY <1>2, <2>1, <2>2 DEF Room
<1> QED  BY <1>5, <1>6

\* One acknowledgement more: a keep alive, or one that was due.
LEMMA RoomForKeepalive ==
    ASSUME NEW k \in Nat, NEW len \in Nat, NEW d \in Nat, NEW f \in Nat, d <= f, Room(len, d, k)
    PROVE  Room(len + AckSz, f, k + 1)
<1>1. PICK m \in Nat : len <= MaxInAir + Extra(k + m) /\ Worth(m) <= d
  BY DEF Room
<1>w. PICK w \in Nat : w = Worth(m)
  BY WorthStep
<1>2. Worth(m) <= f
  <2>1. w <= d
    BY <1>1, <1>w
  <2> QED  BY <2>1, <1>w
<1>h. PICK h \in Nat : h = k + m
  OBVIOUS
<1>x. PICK x \in Nat : x = Extra(h)
  BY ExtraStep
<1>3. Extra(h + 1) = x + AckSz
  BY <1>x, ExtraStep
<1>4. len + AckSz <= MaxInAir + (x + AckSz)
  <2>1. len <= MaxInAir + x
    BY <1>1, <1>h, <1>x
  <2> QED  BY <2>1, Limits
<1>5. (k + 1) + m = h + 1
  BY <1>h
<1> QED  BY <1>2, <1>3, <1>4, <1>5 DEF Room

LEMMA RoomForDue ==
    ASSUME NEW k \in Nat, NEW len \in Nat, NEW d \in Nat, NEW f \in Nat,
           d + AckLimit <= f, Room(len, d, k)
    PROVE  Room(len + AckSz, f, k)
<1>1. PICK m \in Nat : len <= MaxInAir + Extra(k + m) /\ Worth(m) <= d
  BY DEF Room
<1>w. PICK w \in Nat : w = Worth(m)
  BY WorthStep
<1>2. Worth(m + 1) <= f
  <2>1. w <= d
    BY <1>1, <1>w
  <2>2. w + AckLimit <= f
    BY <2>1, Limits
  <2>3. Worth(m + 1) = w + AckLimit
    BY <1>w, WorthStep
  <2> QED  BY <2>2, <2>3
<1>h. PICK h \in Nat : h = k + m
  OBVIOUS
<1>x. PICK x \in Nat : x = Extra(h)
  BY ExtraStep
<1>3. Extra(h + 1) = x + AckSz
  BY <1>x, ExtraStep
<1>4. len + AckSz <= MaxInAir + (x + AckSz)
  <2>1. len <= MaxInAir + x
    BY <1>1, <1>h, <1>x
  <2> QED  BY <2>1, Limits
<1>5. k + (m + 1) = h + 1 /\ m + 1 \in Nat
  BY <1>h
<1> QED  BY <1>2, <1>3, <1>4, <1>5 DEF Room

\* A non-empty set of naturals has a least element.
LEMMA LeastNat ==
    ASSUME NEW S, S \subseteq Nat, S # {}
    PROVE  \E x \in S : \A y \in S : x <= y
<1> DEFINE R == OpToRel(<, Nat)
<1>1. PICK x \in S : \A y \in S : ~(<<y, x>> \in R)
  <2>1. IsWellFoundedOn(R, Nat)
    BY NatLessThanWellFounded
  <2> HIDE DEF R
  <2> QED  BY <2>1, WFMin, Zenon
<1>2. \A y \in S : ~(y < x)
  BY <1>1 DEF OpToRel
<1> HIDE DEF R
<1> QED  BY <1>2

\* The last of the acknowledgements in a stream.
LEMMA LastOne ==
    ASSUME NEW s \in Seq(Token), NEW i \in 1 .. Len(s), s[i] # Plain
    PROVE  \E l \in 1 .. Len(s) :
              /\ i <= l /\ s[l] # Plain
              /\ \A j \in 1 .. Len(s) : l < j => s[j] = Plain
<1>n. PICK n \in Nat : n = Len(s)
  OBVIOUS
<1> DEFINE Ends == {d \in 0 .. n : n - d \in 1 .. n /\ s[n - d] # Plain}
<1>1. n - i \in Ends /\ Ends \subseteq Nat
  <2>1. i \in 1 .. n /\ n - i \in 0 .. n /\ n - (n - i) = i
    BY <1>n
  <2> QED  BY <2>1
<1>2. PICK d \in Ends : \A c \in Ends : d <= c
  <2> HIDE DEF Ends
  <2> QED  BY <1>1, LeastNat
<1>3. n - d \in 1 .. n /\ s[n - d] # Plain /\ d <= n - i /\ d \in 0 .. n
  BY <1>1, <1>2
<1>4. ASSUME NEW j \in 1 .. n, n - d < j
      PROVE  s[j] = Plain
  <2>1. n - j \in 0 .. n /\ n - (n - j) = j /\ ~(d <= n - j)
    BY <1>3, <1>4
  <2>2. n - j \notin Ends
    <3> HIDE DEF Ends
    <3> QED  BY <1>2, <2>1
  <2> QED  BY <2>1, <2>2
<1>5. i <= n - d
  BY <1>3, <1>n
<1> QED  BY <1>3, <1>4, <1>5, <1>n

\* What a load is made of has its type.
LEMMA LoadTypes ==
    ASSUME TypeOK, NEW e \in End
    PROVE  /\ Beyond(e, processed_bytes[Other(e)]) \in Nat
           /\ kept[e] \in Nat /\ left[e] \in Nat /\ Len(stream[e]) \in Nat
           /\ \A i \in 1 .. Len(stream[e]) :
                 stream[e][i] # Plain => stream[e][i] \in Counter /\ Beyond(e, stream[e][i]) \in Nat
<1>0. Other(e) \in End
  BY OtherFacts
<1>1. \A x \in Counter : Beyond(e, x) \in Nat
  <2> SUFFICES ASSUME NEW x \in Counter
               PROVE  WSub(bytes_acknowledged[e], x) \in Nat
    BY DEF Beyond
  <2>1. WSub(bytes_acknowledged[e], x) \in 0 .. Wrap - 1
    BY FlowTypes, CounterArith
  <2> QED  BY <2>1, Limits
<1>2. processed_bytes[Other(e)] \in Counter
  BY <1>0, FlowTypes
<1>3. kept[e] \in Nat
  BY FlowTypes, Limits
<1> QED  BY <1>1, <1>2, <1>3, FlowTypes

\* What e has received beyond x is what it has acknowledged beyond x and what it
\* has not acknowledged.
Passed(e, x) == WSub(bytes_received[e], x) = Unacknowledged(e) + Beyond(e, x)

LEMMA AckedInOrder ==
    ASSUME TypeOK, NEW e \in End, Flow(Other(e)), ~Fresh(Other(e)), outack[e] = Plain
    PROVE  /\ Passed(e, processed_bytes[Other(e)])
           /\ \A i \in 1 .. Len(stream[e]) : stream[e][i] # Plain => Passed(e, stream[e][i])
<1>o. PICK o \in End : o = Other(e) /\ Other(o) = e
  BY OtherFacts
<1>s. PICK s \in Seq(Token) : s = stream[e]
  BY FlowTypes
<1>r. PICK r \in Counter : r = bytes_received[e]
  BY FlowTypes
<1>a. PICK a \in Counter : a = bytes_acknowledged[e]
  BY FlowTypes
<1>p. PICK p \in Counter : p = processed_bytes[o]
  BY FlowTypes
<1>b. PICK b \in Counter : b = bytes_sent[o]
  BY FlowTypes
<1>1. ASSUME NEW x \in Counter, WSub(b, a) <= WSub(b, x), WSub(b, r) <= WSub(b, a)
      PROVE  Passed(e, x)
  <2>1. /\ WSub(b, a) \in Nat /\ WSub(b, x) \in Nat /\ WSub(b, r) \in Nat
        /\ WSub(b, r) <= WSub(b, x)
    <3>1. WSub(b, a) \in 0 .. Wrap - 1 /\ WSub(b, x) \in 0 .. Wrap - 1 /\ WSub(b, r) \in 0 .. Wrap - 1
      BY CounterArith
    <3> QED  BY <1>1, <3>1, Limits
  <2>2. WSub(r, x) = WSub(b, x) - WSub(b, r)
    BY <2>1, CounterBetween
  <2>3. WSub(r, a) = WSub(b, a) - WSub(b, r)
    BY <1>1, CounterBetween
  <2>4. WSub(a, x) = WSub(b, x) - WSub(b, a)
    BY <1>1, CounterBetween
  <2>5. WSub(r, x) = WSub(r, a) + WSub(a, x)
    BY <2>1, <2>2, <2>3, <2>4
  <2> QED  BY <2>5, <1>r, <1>a DEF Passed, Unacknowledged, Beyond
<1>2. /\ \A i \in 1 .. Len(s) : s[i] # Plain =>
            /\ WSub(b, r) <= WSub(b, s[i]) /\ WSub(b, s[i]) <= WSub(b, p)
            /\ \A j \in 1 .. Len(s) : i < j /\ s[j] # Plain => WSub(b, s[j]) <= WSub(b, s[i])
      /\ WSub(b, r) <= WSub(b, p)
  <2>1. ReceivedInv(o) /\ AcksInOrder(o)
    BY <1>o DEF Flow
  <2>2. WSub(b, r) = Len(stream[o])
    BY <2>1, <1>o, <1>r, <1>b DEF ReceivedInv, Back
  <2>3. WSub(b, p) = InAir(o)
    BY <1>p, <1>b DEF InAir
  <2> QED  BY <2>1, <2>2, <2>3, <1>o, <1>s, <1>b DEF AcksInOrder, Back
<1>3. /\ \A i \in 1 .. Len(s) :
            s[i] # Plain /\ (\A j \in 1 .. Len(s) : i < j => s[j] = Plain) => a = s[i]
      /\ (\A i \in 1 .. Len(s) : s[i] = Plain) => a = p
  BY <1>o, <1>s, <1>a, <1>p DEF Flow, LastAck
<1>4. CASE \A i \in 1 .. Len(s) : s[i] = Plain
  <2>1. a = p
    BY <1>3, <1>4
  <2>2. Passed(e, p)
    <3>1. WSub(b, a) <= WSub(b, p)
      <4>1. WSub(b, a) \in 0 .. Wrap - 1
        BY CounterArith
      <4> QED  BY <2>1, <4>1, Limits
    <3> QED  BY <1>1, <1>2, <2>1, <3>1
  <2> QED  BY <1>4, <1>o, <1>p, <1>s, <2>2
<1>5. CASE \E i \in 1 .. Len(s) : s[i] # Plain
  <2>1. ASSUME NEW i \in 1 .. Len(s), s[i] # Plain
        PROVE  Passed(e, s[i]) /\ Passed(e, p)
    <3>1. PICK l \in 1 .. Len(s) :
             /\ i <= l /\ s[l] # Plain
             /\ \A j \in 1 .. Len(s) : l < j => s[j] = Plain
      BY <2>1, LastOne
    <3>2. a = s[l]
      BY <1>3, <3>1
    <3>3. s[i] \in Counter
      BY <2>1 DEF Token
    <3>4. WSub(b, r) <= WSub(b, a) /\ WSub(b, a) <= WSub(b, p)
      BY <1>2, <3>1, <3>2
    <3>5. WSub(b, a) <= WSub(b, s[i])
      <4>1. CASE i = l
        <5>1. WSub(b, a) \in 0 .. Wrap - 1
          BY CounterArith
        <5> QED  BY <3>2, <4>1, <5>1, Limits
      <4>2. CASE i < l
        BY <1>2, <2>1, <3>1, <3>2, <4>2
      <4> QED  BY <3>1, <4>1, <4>2
    <3>6. Passed(e, s[i])
      BY <1>1, <3>3, <3>4, <3>5
    <3>7. Passed(e, p)
      BY <1>1, <3>4
    <3> QED  BY <3>6, <3>7
  <2> QED  BY <1>5, <1>o, <1>p, <1>s, <2>1
<1> QED  BY <1>4, <1>5

\* An acknowledgement of its own fits.
LEMMA LoadAlone ==
    ASSUME TypeOK', NEW e \in End, stream'[e] = <<>>, left'[e] \in {0, AckSz}
    PROVE  Load(e)'
<1>k. PICK k \in Nat : k = kept'[e]
  BY Limits DEF TypeOK
<1>1. Room(left'[e], Beyond(e, processed_bytes[Other(e)])', k + 1)
  <2>1. Beyond(e, processed_bytes[Other(e)])' \in Nat
    <3>1. Other(e) \in End
      BY OtherFacts
    <3>2. bytes_acknowledged'[e] \in Counter /\ processed_bytes'[Other(e)] \in Counter
      BY <3>1 DEF TypeOK
    <3>3. WSub(bytes_acknowledged'[e], processed_bytes'[Other(e)]) \in 0 .. Wrap - 1
      BY <3>2, CounterArith
    <3> QED  BY <3>3, Limits DEF Beyond
  <2>2. left'[e] \in Nat /\ left'[e] <= MaxInAir + Extra(k + 1)
    <3>h. PICK h \in Nat : h = k + 1
      OBVIOUS
    <3>1. Extra(k + 1) \in Nat
      BY <3>h, ExtraStep
    <3> QED  BY <3>1, Limits
  <2> QED  BY <2>1, <2>2, RoomAtFirst
<1>2. Len(stream'[e]) = 0 /\ 0 + left'[e] = left'[e]
  BY Limits
<1>3. Room(Len(stream'[e]) + left'[e], Beyond(e, processed_bytes[Other(e)])', kept'[e] + 1)
  BY <1>1, <1>2, <1>k
<1>4. \A i \in 1 .. Len(stream'[e]) : FALSE
  BY <1>2
<1> QED  BY <1>3, <1>4 DEF Load

\* An acknowledgement is put into frame_out: what was sent before it is as far
\* behind as before or further.
LEMMA LoadAck ==
    ASSUME TypeOK, TypeOK', NEW e \in End, Flow(e), Flow(Other(e)), Load(e),
           left[e] = 0, PutAck(e),
           UNCHANGED <<bytes_sent, processed_bytes, bytes_received, stream>>,
           kept'[e] = kept[e] + 1 \/ (kept'[e] = kept[e] /\ AckNeeded(e))
    PROVE  Load(e)'
<1>o. PICK o \in End : o = Other(e) /\ Other(o) = e
  BY OtherFacts
<1>1. left'[e] = AckSz /\ bytes_acknowledged'[e] = bytes_received[e] /\ outack[e] = Plain
  BY DEF PutAck, TypeOK, Flow
<1>2. CASE Fresh(o)
  <2>1. stream'[e] = <<>> /\ left'[e] \in {0, AckSz}
    BY <1>1, <1>2, <1>o DEF Fresh
  <2> QED  BY <2>1, LoadAlone
<1>3. CASE ~Fresh(o)
  <2>1. /\ Passed(e, processed_bytes[o])
        /\ \A i \in 1 .. Len(stream[e]) : stream[e][i] # Plain => Passed(e, stream[e][i])
    BY <1>1, <1>3, <1>o, AckedInOrder
  <2>k. PICK k \in Nat : k = kept[e]
    BY LoadTypes
  <2>u. PICK u \in Nat : u = Unacknowledged(e)
    <3>1. Unacknowledged(e) \in 0 .. Wrap - 1
      BY FlowTypes, CounterArith DEF Unacknowledged
    <3> QED  BY <3>1, Limits
  <2>2. ASSUME NEW x \in Counter, Passed(e, x), Beyond(e, x) \in Nat,
               NEW len \in Nat, NEW j \in {k, k + 1}, Room(len, Beyond(e, x), j)
        PROVE  Room(len + AckSz, WSub(bytes_received[e], x), j + (kept'[e] - k))
    <3>d. PICK d \in Nat : d = Beyond(e, x)
      BY <2>2
    <3>1. WSub(bytes_received[e], x) = u + d /\ u + d \in Nat /\ d <= u + d
      BY <2>2, <2>u, <3>d DEF Passed
    <3>f. PICK f \in Nat : f = u + d
      BY <3>1
    <3>2. Room(len, d, j) /\ j \in Nat
      BY <2>2, <3>d
    <3>3. CASE kept'[e] = k + 1
      <4>1. Room(len + AckSz, f, j + 1)
        BY <3>1, <3>2, <3>f, RoomForKeepalive
      <4>2. kept'[e] - k = 1
        BY <3>3
      <4> QED  BY <3>1, <3>f, <4>1, <4>2
    <3>4. CASE kept'[e] = k /\ AckNeeded(e)
      <4>1. d + AckLimit <= f
        BY <2>u, <3>4, <3>f, Limits DEF AckNeeded
      <4>2. Room(len + AckSz, f, j)
        BY <3>2, <4>1, RoomForDue
      <4>3. kept'[e] - k = 0 /\ j + 0 = j
        BY <3>2, <3>4
      <4> QED  BY <3>1, <3>f, <4>2, <4>3
    <3> QED  BY <2>k, <3>3, <3>4
  <2>l. PICK l \in Nat : l = Len(stream[e])
    BY LoadTypes
  <2>m. PICK m \in Nat : m = kept'[e] /\ (k + 1) + (m - k) = m + 1 /\ k + (m - k) = m
    <3>1. kept'[e] = k \/ kept'[e] = k + 1
      BY <2>k
    <3> QED  BY <3>1
  <2>3. Room(l + AckSz, WSub(bytes_received[e], processed_bytes[o]), m + 1)
    <3>1. processed_bytes[o] \in Counter /\ Beyond(e, processed_bytes[o]) \in Nat
      BY <1>o, FlowTypes, LoadTypes
    <3>2. Room(l, Beyond(e, processed_bytes[o]), k + 1)
      <4>1. l + left[e] = l
        BY <2>l
      <4> QED  BY <1>o, <2>k, <2>l, <4>1 DEF Load
    <3> QED  BY <2>1, <2>2, <2>m, <3>1, <3>2
  <2>4. ASSUME NEW i \in 1 .. l, stream[e][i] # Plain
        PROVE  Room(l - i + AckSz, WSub(bytes_received[e], stream[e][i]), m)
    <3>1. stream[e][i] \in Counter /\ Beyond(e, stream[e][i]) \in Nat
      BY <2>l, <2>4, LoadTypes
    <3>2. l - i \in Nat
      OBVIOUS
    <3>3. Room(l - i, Beyond(e, stream[e][i]), k)
      <4>1. l - i + left[e] = l - i
        BY <3>2
      <4> QED  BY <2>k, <2>l, <2>4, <4>1 DEF Load
    <3>4. Passed(e, stream[e][i])
      BY <2>1, <2>l, <2>4
    <3> QED  BY <2>2, <2>m, <3>1, <3>2, <3>3, <3>4
  <2> QED  BY <1>1, <1>o, <2>l, <2>m, <2>3, <2>4 DEF Load, Beyond
<1> QED  BY <1>2, <1>3

\* A frame is made only when it fits below max_in_air with all that is unread.
LEMMA LoadFrame ==
    ASSUME TypeOK, NEW e \in End, Flow(e), MakeFrame(e)
    PROVE  Load(e)'
<1>o. PICK o \in End : o = Other(e)
  BY OtherFacts
<1>k. PICK k \in Nat : k = kept[e]
  BY LoadTypes
<1>l. PICK l \in Nat : l = Len(stream[e])
  BY LoadTypes
<1>w. PICK w \in Nat : w = want[e]
  BY FlowTypes
<1>1. left'[e] = w /\ kept' = kept /\ stream' = stream
      /\ bytes_acknowledged' = bytes_acknowledged /\ processed_bytes' = processed_bytes
  BY <1>w DEF MakeFrame, TypeOK
<1>2. l + w <= MaxInAir
  <2>1. want[e] <= MaxInAir - InAir(e) /\ Len(stream[e]) <= InAir(e) /\ InAir(e) \in Nat
    BY FlowTypes DEF MakeFrame, FitsInAir, Flow, AcksInOrder
  <2>a. PICK a \in Nat : a = InAir(e)
    BY <2>1
  <2>2. w <= MaxInAir - a /\ l <= a
    BY <2>1, <2>a, <1>l, <1>w
  <2> QED  BY <2>2, Limits
<1>3. ASSUME NEW n \in Nat, n <= l + w, NEW d \in Nat, NEW j \in Nat
      PROVE  Room(n, d, j)
  <2>x. PICK x \in Nat : x = Extra(j)
    BY ExtraStep
  <2>1. n <= MaxInAir + x
    BY <1>2, <1>3, Limits
  <2> QED  BY <2>x, <2>1, RoomAtFirst
<1>4. Room(l + w, Beyond(e, processed_bytes[o]), k + 1)
  BY <1>3, <1>o, LoadTypes
<1>5. ASSUME NEW i \in 1 .. l, stream[e][i] # Plain
      PROVE  Room(l - i + w, Beyond(e, stream[e][i]), k)
  <2>1. l - i + w \in Nat /\ l - i + w <= l + w
    OBVIOUS
  <2>2. Beyond(e, stream[e][i]) \in Nat
    BY <1>5, <1>l, LoadTypes
  <2> QED  BY <1>3, <2>1, <2>2
<1> QED  BY <1>1, <1>4, <1>5, <1>k, <1>l, <1>o DEF Load, Beyond

\* A written byte is unread instead of waiting to be written; behind an
\* acknowledgement that has been written there is nothing.
LEMMA LoadWrite ==
    ASSUME TypeOK, TypeOK', NEW e \in End, Load(e), WriteByte(e)
    PROVE  Load(e)'
<1>o. PICK o \in End : o = Other(e)
  BY OtherFacts
<1>k. PICK k \in Nat : k = kept[e]
  BY LoadTypes
<1>l. PICK l \in Nat : l = Len(stream[e])
  BY LoadTypes
<1>w. PICK w \in Nat : w = left[e]
  BY LoadTypes
<1>z. PICK z : z = IF left[e] = 1 THEN outack[e] ELSE Plain
  OBVIOUS
<1>1. left'[e] = w - 1 /\ w > 0 /\ kept' = kept /\ stream'[e] = Append(stream[e], z)
      /\ bytes_acknowledged' = bytes_acknowledged /\ processed_bytes' = processed_bytes
  BY <1>w, <1>z DEF WriteByte, TypeOK
<1>2. Len(stream'[e]) = l + 1 /\ stream'[e][l + 1] = z
      /\ \A i \in 1 .. l : stream'[e][i] = stream[e][i]
  BY <1>1, <1>l, FlowTypes
<1>3. Room(Len(stream'[e]) + left'[e], Beyond(e, processed_bytes[o]), k + 1)
  <2>1. (l + 1) + (w - 1) = l + w
    OBVIOUS
  <2> QED  BY <1>1, <1>2, <1>k, <1>l, <1>o, <1>w, <2>1 DEF Load
<1>4. ASSUME NEW i \in 1 .. l + 1, stream'[e][i] # Plain
      PROVE  Room(Len(stream'[e]) - i + left'[e], Beyond(e, stream'[e][i]), k)
  <2>1. CASE i \in 1 .. l
    <3>1. (l + 1) - i + (w - 1) = l - i + w
      BY <2>1
    <3> QED  BY <1>1, <1>2, <1>4, <1>k, <1>l, <1>w, <2>1, <3>1 DEF Load
  <2>2. CASE i = l + 1
    <3>1. left[e] = 1 /\ w = 1
      BY <1>2, <1>4, <1>w, <1>z, <2>2
    <3>2. (l + 1) - i + (w - 1) = 0
      BY <2>2, <3>1
    <3>3. Beyond(e, z) \in Nat
      <4>1. z \in Counter
        BY <1>2, <1>4, <1>z, <2>2, FlowTypes
      <4>2. WSub(bytes_acknowledged[e], z) \in 0 .. Wrap - 1
        BY <4>1, FlowTypes, CounterArith
      <4> QED  BY <4>2, Limits DEF Beyond
    <3>4. Room(0, Beyond(e, z), k)
      <4>x. PICK x \in Nat : x = Extra(k)
        BY ExtraStep
      <4>1. 0 <= MaxInAir + x
        BY Limits
      <4> QED  BY <3>3, <4>x, <4>1, RoomAtFirst
    <3> QED  BY <1>1, <1>2, <2>2, <3>2, <3>4
  <2>3. i \in 1 .. l \/ i = l + 1
    OBVIOUS
  <2> QED  BY <2>1, <2>2, <2>3
<1> QED  BY <1>1, <1>2, <1>3, <1>4, <1>k, <1>o DEF Load, Beyond

\* The other end reads a byte: what is behind an acknowledgement that is read is
\* all there is left.
LEMMA LoadRead ==
    ASSUME TypeOK, NEW e \in End, Load(e), ReadByte(Other(e))
    PROVE  Load(e)'
<1>o. PICK o \in End : o = Other(e) /\ Other(o) = e
  BY OtherFacts
<1>k. PICK k \in Nat : k = kept[e]
  BY LoadTypes
<1>l. PICK l \in Nat : l = Len(stream[e])
  BY LoadTypes
<1>w. PICK w \in Nat : w = left[e]
  BY LoadTypes
<1>s. PICK s \in Seq(Token) : s = stream[e]
  BY FlowTypes
<1>1. /\ s # <<>> /\ stream'[e] = Tail(s) /\ left' = left /\ kept' = kept
      /\ bytes_acknowledged' = bytes_acknowledged
      /\ processed_bytes'[o] = IF s[1] = Plain THEN processed_bytes[o] ELSE s[1]
  BY <1>o, <1>s DEF ReadByte, TypeOK
<1>2. /\ l > 0 /\ Len(stream'[e]) = l - 1 /\ 1 \in 1 .. l
      /\ \A i \in 1 .. l - 1 : i + 1 \in 1 .. l /\ stream'[e][i] = s[i + 1]
  BY <1>1, <1>l, <1>s
<1>3. Room(Len(stream'[e]) + left'[e], Beyond(e, processed_bytes'[o]), k + 1)
  <2>0. l - 1 + w \in Nat
    BY <1>2
  <2>1. CASE s[1] = Plain
    <3>1. Room(l + w, Beyond(e, processed_bytes[o]), k + 1)
      BY <1>k, <1>l, <1>o, <1>w DEF Load
    <3>d. PICK d \in Nat : d = Beyond(e, processed_bytes[o])
      BY <1>o, LoadTypes
    <3>h. PICK h \in Nat : h = k + 1
      OBVIOUS
    <3>2. Room(l - 1 + w, d, h)
      <4>1. l + w \in Nat /\ l - 1 + w <= l + w /\ d <= d /\ h \in {h, h + 1}
        OBVIOUS
      <4> QED  BY <2>0, <3>1, <3>d, <3>h, <4>1, RoomStays
    <3> QED  BY <1>1, <1>2, <1>w, <2>1, <3>2, <3>d, <3>h
  <2>2. CASE s[1] # Plain
    <3>1. Room(l - 1 + w, Beyond(e, s[1]), k)
      BY <1>2, <1>k, <1>l, <1>s, <1>w, <2>2 DEF Load
    <3>d. PICK d \in Nat : d = Beyond(e, s[1])
      BY <1>2, <1>l, <1>s, <2>2, LoadTypes
    <3>2. Room(l - 1 + w, d, k + 1)
      <4>1. l - 1 + w <= l - 1 + w /\ d <= d /\ k + 1 \in {k, k + 1}
        BY <2>0
      <4> QED  BY <2>0, <3>1, <3>d, <4>1, RoomStays
    <3> QED  BY <1>1, <1>2, <1>w, <2>2, <3>2, <3>d
  <2> QED  BY <2>1, <2>2
<1>4. ASSUME NEW i \in 1 .. l - 1, stream'[e][i] # Plain
      PROVE  Room(Len(stream'[e]) - i + left'[e], Beyond(e, stream'[e][i]), k)
  <2>0. (l - 1) - i + w = l - (i + 1) + w
    OBVIOUS
  <2>1. i + 1 \in 1 .. l /\ stream'[e][i] = s[i + 1] /\ (l - 1) - i + w = l - (i + 1) + w
    BY <1>2, <2>0
  <2>2. Room(l - (i + 1) + w, Beyond(e, s[i + 1]), k)
    BY <1>4, <1>k, <1>l, <1>s, <1>w, <2>1 DEF Load
  <2> QED  BY <1>1, <1>2, <1>w, <2>1, <2>2
<1> QED  BY <1>1, <1>2, <1>3, <1>4, <1>k, <1>o DEF Load, Beyond

\* A keep alive: the first one after the line has settled, or one more.
LEMMA LoadKeepalive ==
    ASSUME TypeOK, TypeOK', NEW e \in End, Flow(e), Flow(Other(e)), Load(e), SendKeepalive(e)
    PROVE  Load(e)'
<1>1. /\ left[e] = 0 /\ PutAck(e)
      /\ UNCHANGED <<bytes_sent, processed_bytes, bytes_received, stream>>
  BY DEF SendKeepalive
<1>2. CASE Settled(e)
  <2>1. stream'[e] = <<>> /\ left'[e] \in {0, AckSz}
    BY <1>1, <1>2 DEF Settled, PutAck, TypeOK
  <2> QED  BY <2>1, LoadAlone
<1>3. CASE ~Settled(e)
  <2>1. kept'[e] = kept[e] + 1 \/ (kept'[e] = kept[e] /\ AckNeeded(e))
    BY <1>3 DEF SendKeepalive, TypeOK
  <2> QED  BY <1>1, <2>1, LoadAck
<1> QED  BY <1>2, <1>3

LEMMA LoadKept ==
    ASSUME NEW e \in End, Load(e),
           stream'[e] = stream[e], left'[e] = left[e], kept'[e] = kept[e],
           bytes_acknowledged'[e] = bytes_acknowledged[e],
           processed_bytes'[Other(e)] = processed_bytes[Other(e)]
    PROVE  Load(e)'
BY DEF Load, Beyond

LEMMA LoadInit == Init => LoadInv
<1> SUFFICES ASSUME Init, NEW e \in End
             PROVE  Load(e)
  BY DEF LoadInv
<1>1. Other(e) \in End
  BY OtherFacts
<1>2. Beyond(e, processed_bytes[Other(e)]) \in Nat
  <2>1. bytes_acknowledged[e] \in Counter /\ processed_bytes[Other(e)] \in Counter
    BY <1>1, Limits DEF Init, Counter
  <2>2. WSub(bytes_acknowledged[e], processed_bytes[Other(e)]) \in 0 .. Wrap - 1
    BY <2>1, CounterArith
  <2> QED  BY <2>2, Limits DEF Beyond
<1>3. Room(0, Beyond(e, processed_bytes[Other(e)]), 1)
  <2>x. PICK x \in Nat : x = Extra(1)
    BY ExtraStep
  <2>1. 0 <= MaxInAir + x
    BY Limits
  <2> QED  BY <1>2, <2>x, <2>1, RoomAtFirst
<1>4. stream[e] = <<>> /\ Len(stream[e]) = 0 /\ left[e] = 0 /\ kept[e] = 0
  BY DEF Init
<1> QED  BY <1>3, <1>4 DEF Load

LEMMA LoadNext == FlowInv /\ FlowInv' /\ LoadInv /\ [Next]_vars => LoadInv'
<1> SUFFICES ASSUME FlowInv, FlowInv', LoadInv, [Next]_vars, NEW e \in End
             PROVE  Load(e)'
  BY DEF LoadInv
<1>o. PICK o \in End : o = Other(e) /\ Other(o) = e /\ o # e
  BY OtherFacts
<1>1. TypeOK /\ TypeOK' /\ Flow(e) /\ Flow(o) /\ Load(e)
  BY DEF FlowInv, LoadInv
<1>2. CASE UNCHANGED vars
  BY <1>1, <1>2, LoadKept DEF vars
<1>3. ASSUME NEW x \in End, NEW n \in 1 .. MaxFrame, NewData(x, n)
      PROVE  Load(e)'
  BY <1>1, <1>3, LoadKept DEF NewData
<1>4. ASSUME AcknowledgeAsNeeded(e)
      PROVE  Load(e)'
  BY <1>1, <1>4, <1>o, LoadAck DEF AcknowledgeAsNeeded
<1>5. ASSUME MakeFrame(e)
      PROVE  Load(e)'
  BY <1>1, <1>5, LoadFrame
<1>6. ASSUME SendKeepalive(e)
      PROVE  Load(e)'
  BY <1>1, <1>6, <1>o, LoadKeepalive
<1>7. ASSUME WriteByte(e)
      PROVE  Load(e)'
  BY <1>1, <1>7, LoadWrite
<1>8. ASSUME ReadByte(e)
      PROVE  Load(e)'
  BY <1>1, <1>8, <1>o, LoadKept DEF ReadByte, TypeOK
<1>9. ASSUME ReadByte(o)
      PROVE  Load(e)'
  BY <1>1, <1>9, <1>o, LoadRead
<1>10. ASSUME AcknowledgeAsNeeded(o) \/ MakeFrame(o) \/ SendKeepalive(o) \/ WriteByte(o)
       PROVE  Load(e)'
  <2>1. /\ stream'[e] = stream[e] /\ left'[e] = left[e] /\ kept'[e] = kept[e]
        /\ bytes_acknowledged'[e] = bytes_acknowledged[e] /\ processed_bytes' = processed_bytes
    BY <1>1, <1>10, <1>o DEF AcknowledgeAsNeeded, MakeFrame, SendKeepalive, WriteByte, PutAck, TypeOK
  <2> QED  BY <1>1, <2>1, LoadKept
<1>11. ASSUME NEW x \in End
       PROVE  x = e \/ x = o
  BY <1>o, TwoEnds
<1> QED  BY <1>2, <1>3, <1>4, <1>5, <1>6, <1>7, <1>8, <1>9, <1>10, <1>11 DEF Next

\* What e has acknowledged beyond what the other end knows of, the other end has
\* sent and does not know to be processed.
LEMMA BeyondInAir ==
    ASSUME TypeOK, NEW e \in End, Flow(Other(e)), ~Fresh(Other(e))
    PROVE  Beyond(e, processed_bytes[Other(e)]) <= InAir(Other(e))
<1>o. PICK o \in End : o = Other(e) /\ Other(o) = e
  BY OtherFacts
<1>p. PICK p \in Counter : p = processed_bytes[o]
  BY FlowTypes
<1>b. PICK b \in Counter : b = bytes_sent[o]
  BY FlowTypes
<1>1. InAir(o) = WSub(b, p) /\ WSub(b, p) \in Nat
  BY <1>p, <1>b, FlowTypes DEF InAir
<1>2. CASE outack[e] # Plain
  <2>a. PICK a \in Counter : a = bytes_acknowledged[e]
    BY FlowTypes
  <2>1. a = outack[e] /\ WSub(b, a) <= WSub(b, p)
    <3>1. Back(o, outack[e]) <= InAir(o)
      BY <1>2, <1>o DEF Flow, AcksInOrder
    <3>2. a = outack[e]
      BY <1>2, <1>o, <2>a DEF Flow, LastAck
    <3> QED  BY <1>1, <1>b, <3>1, <3>2 DEF Back
  <2>2. WSub(a, p) = WSub(b, p) - WSub(b, a)
    BY <2>1, CounterBetween
  <2>3. WSub(b, a) \in Nat
    <3>1. WSub(b, a) \in 0 .. Wrap - 1
      BY CounterArith
    <3> QED  BY <3>1, Limits
  <2>4. WSub(a, p) <= WSub(b, p)
    BY <1>1, <2>2, <2>3
  <2> QED  BY <1>1, <1>o, <1>p, <2>a, <2>4 DEF Beyond
<1>3. CASE outack[e] = Plain
  <2>r. PICK r \in Counter : r = bytes_received[e]
    BY FlowTypes
  <2>1. WSub(r, p) = Unacknowledged(e) + Beyond(e, p)
    BY <1>3, <1>o, <1>p, <2>r, AckedInOrder DEF Passed
  <2>2. WSub(b, r) <= WSub(b, p)
    <3>1. Back(o, bytes_received[e]) = Len(stream[o]) /\ Len(stream[o]) <= InAir(o)
      BY <1>o DEF Flow, ReceivedInv, AcksInOrder
    <3> QED  BY <1>1, <1>b, <2>r, <3>1 DEF Back
  <2>3. WSub(r, p) = WSub(b, p) - WSub(b, r)
    BY <2>2, CounterBetween
  <2>4. WSub(b, r) \in Nat /\ Unacknowledged(e) \in Nat /\ Beyond(e, p) \in Nat
    <3>1. WSub(b, r) \in 0 .. Wrap - 1 /\ Unacknowledged(e) \in 0 .. Wrap - 1
      BY <2>r, FlowTypes, CounterArith DEF Unacknowledged
    <3>2. Beyond(e, p) \in Nat
      BY <1>o, <1>p, LoadTypes
    <3> QED  BY <3>1, <3>2, Limits
  <2>5. Beyond(e, p) <= WSub(b, p)
    BY <1>1, <2>1, <2>3, <2>4
  <2> QED  BY <1>1, <1>o, <1>p, <2>5
<1> QED  BY <1>2, <1>3

LEMMA ExtraGrows ==
    ASSUME NEW j \in Nat, NEW k \in Nat, j <= k
    PROVE  Extra(j) <= Extra(k)
<1>1. PICK d \in Nat : k = j + d
  <2>1. k - j \in Nat /\ k = j + (k - j)
    OBVIOUS
  <2> QED  BY <2>1
<1>2. AckSz \in Nat
  BY FlowAssumption
<1>3. j * AckSz \in Nat /\ d * AckSz \in Nat /\ (j + d) * AckSz = j * AckSz + d * AckSz
  BY <1>2
<1> QED  BY <1>1, <1>3 DEF Extra

\* How many times the limit fits.
LEMMA WorthFits ==
    ASSUME NEW m \in Nat, NEW s \in Nat, Worth(m) <= s
    PROVE  s \div AckLimit \in Nat /\ m <= s \div AckLimit
<1>l. PICK l \in Nat : l = AckLimit /\ l > 0
  BY Limits
<1>1. s \div l \in Nat /\ s < (s \div l + 1) * l
  BY <1>l
<1>q. PICK q \in Nat : q = s \div l
  BY <1>1
<1>2. ASSUME q < m PROVE FALSE
  <2>1. PICK d \in Nat : m = (q + 1) + d
    <3>1. m - (q + 1) \in Nat /\ m = (q + 1) + (m - (q + 1))
      BY <1>2
    <3> QED  BY <3>1
  <2>2. d * l \in Nat /\ (q + 1) * l \in Nat /\ m * l = (q + 1) * l + d * l
    BY <1>l, <2>1
  <2>3. m * l <= s
    BY <1>l DEF Worth
  <2>4. s < (q + 1) * l
    BY <1>1, <1>q
  <2> QED  BY <2>2, <2>3, <2>4
<1>3. m <= q
  BY <1>2
<1> QED  BY <1>l, <1>q, <1>3

\* The second invariant of flow control holds in every reachable state: what an
\* end has written and the other end has not read is frames below max_in_air,
\* keep alives, and acknowledgements of bytes the other end has sent since.
THEOREM LoadInvariance == Spec => []LoadInv
<1> QED  BY LoadInit, LoadNext, FlowInvariance, PTL DEF Spec

\* The receive buffer of an end holds all that the other end writes and it has
\* not read, keep alives included, when the space reserved for acknowledgements
\* is enough for those that can be owed.
THEOREM ReceiveBufferHolds ==
    ASSUME ReserveEnough
    PROVE  Spec => []RxBufferBound
<1>1. FlowInv /\ LoadInv => RxBufferBound
  <2> SUFFICES ASSUME FlowInv, LoadInv, NEW e \in End
               PROVE  Len(stream[e]) <= MaxAckInAir
    BY DEF RxBufferBound
  <2>o. PICK o \in End : o = Other(e) /\ Other(o) = e
    BY OtherFacts
  <2>1. TypeOK /\ Flow(e) /\ Flow(o) /\ Load(e)
    BY DEF FlowInv, LoadInv
  <2>2. CASE Fresh(o)
    <3>1. stream[e] = <<>> /\ Len(stream[e]) = 0
      BY <2>2, <2>o DEF Fresh
    <3> QED  BY <3>1, Limits
  <2>3. CASE ~Fresh(o)
    <3>k. PICK k \in Nat : k = kept[e] /\ k <= MaxKeepalive
      BY <2>1, FlowTypes, Limits
    <3>l. PICK l \in Nat : l = Len(stream[e])
      BY <2>1, LoadTypes
    <3>w. PICK w \in Nat : w = left[e]
      BY <2>1, LoadTypes
    <3>d. PICK d \in Nat : d = Beyond(e, processed_bytes[o])
      BY <2>1, <2>o, LoadTypes
    <3>s. PICK s \in Nat : s = MaxAckInAir + Extra(MaxKeepalive)
      BY Limits
    <3>1. PICK m \in Nat : l + w <= MaxInAir + Extra((k + 1) + m) /\ Worth(m) <= d
      BY <2>1, <2>o, <3>d, <3>k, <3>l, <3>w DEF Load, Room
    <3>2. d <= s
      <4>a. PICK a \in Nat : a = InAir(o)
        BY <2>1, FlowTypes
      <4>x. PICK x \in Nat : x = Extra(kept[o]) /\ x <= Extra(MaxKeepalive)
        BY <2>1, FlowTypes
      <4>1. d <= a
        BY <2>1, <2>3, <2>o, <3>d, <4>a, BeyondInAir
      <4>2. a <= MaxAckInAir + x
        <5>1. InAir(o) + left[o] <= MaxAckInAir + Extra(kept[o]) /\ left[o] \in Nat
          BY <2>1, FlowTypes DEF Flow, AirBound
        <5> QED  BY <4>a, <4>x, <5>1, Limits
      <4> QED  BY <3>s, <4>1, <4>2, <4>x, Limits
    <3>q. PICK q \in Nat : q = s \div AckLimit /\ m <= q
      <4>1. Worth(m) <= s
        <5>1. PICK v \in Nat : v = Worth(m)
          BY WorthStep
        <5> QED  BY <3>1, <3>2, <5>1
      <4> QED  BY <4>1, WorthFits
    <3>3. MaxInAir + Extra((MaxKeepalive + 1) + q) <= MaxAckInAir
      <4>1. MaxInAir + AckSz * (MaxKeepalive + 1 + q) <= MaxAckInAir
        BY <3>q, <3>s DEF ReserveEnough, Reserve, Extra
      <4>2. AckSz * (MaxKeepalive + 1 + q) = Extra((MaxKeepalive + 1) + q)
        BY Limits DEF Extra
      <4> QED  BY <4>1, <4>2
    <3>4. Extra((k + 1) + m) <= Extra((MaxKeepalive + 1) + q)
      <4>1. (k + 1) + m \in Nat /\ (MaxKeepalive + 1) + q \in Nat
            /\ (k + 1) + m <= (MaxKeepalive + 1) + q
        BY <3>k, <3>q, Limits
      <4> QED  BY <4>1, ExtraGrows
    <3>5. Extra((k + 1) + m) \in Nat /\ Extra((MaxKeepalive + 1) + q) \in Nat
      <4>1. (k + 1) + m \in Nat /\ (MaxKeepalive + 1) + q \in Nat
        BY Limits
      <4> QED  BY <4>1, ExtraStep
    <3>6. l <= MaxAckInAir
      BY <3>1, <3>3, <3>4, <3>5, Limits
    <3> QED  BY <3>l, <3>6
  <2> QED  BY <2>2, <2>3
<1> QED  BY <1>1, FlowInvariance, LoadInvariance, PTL
=============================================================================
