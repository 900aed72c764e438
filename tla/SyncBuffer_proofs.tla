------------------------- MODULE SyncBuffer_proofs -------------------------
(***************************************************************************)
(* Proofs about SyncBuffer for every block size, byte width and number of  *)
(* frames in the stream.                                                   *)
(***************************************************************************)
EXTENDS SyncBuffer, TLAPS, WellFoundedInduction, SequenceTheorems

----------------------------------------------------------------------------
(* The operators of SyncOps.                                               *)

\* A non-empty set of naturals has a least element.
LEMMA LeastNat ==
    ASSUME NEW S, S \subseteq Nat, S # {}
    PROVE  \E x \in S : \A y \in S : x <= y
<1> DEFINE R == OpToRel(<, Nat)
<1>1. PICK x \in S : \A y \in S : ~(<<y, x>> \in R)
  <2>1. IsWellFoundedOn(R, Nat)
    BY NatLessThanWellFounded
  <2> HIDE DEF R
  <2> QED
    BY <2>1, WFMin, Zenon
<1>2. \A y \in S : ~(y < x)
  BY <1>1 DEF OpToRel
<1> HIDE DEF R
<1> QED
  BY <1>2

\* A non-empty set of addresses has a greatest element.
LEMMA GreatestAddr ==
    ASSUME NEW S, S \subseteq Addr, S # {}
    PROVE  \E x \in S : \A y \in S : y <= x
<1> DEFINE T == {NBytes - a : a \in S}
<1>1. T \subseteq Nat /\ T # {}
  BY SyncOpsAssumption DEF Addr
<1>2. PICK t \in T : \A u \in T : t <= u
  <2> HIDE DEF T
  <2> QED
    BY <1>1, LeastNat
<1>3. PICK x \in S : t = NBytes - x
  BY <1>2
<1>4. \A y \in S : NBytes - x <= NBytes - y
  BY <1>2, <1>3
<1> QED
  BY <1>3, <1>4, SyncOpsAssumption DEF Addr

\* Byte arithmetic stays in Byte, and a delta leads back to the new value.
LEMMA ByteArithmetic ==
    ASSUME NEW x \in Byte, NEW y \in Byte
    PROVE  /\ SubByte(x, y) \in Byte
           /\ AddByte(x, y) \in Byte
           /\ AddByte(y, SubByte(x, y)) = x
BY SyncOpsAssumption DEF SubByte, AddByte, Byte

\* Ranges are sets of addresses, and only NoRange is an empty one.
LEMMA RangeFacts ==
    /\ NoRange \notin AddrRange
    /\ In(NoRange) = {}
    /\ \A r \in AddrRange : In(r) \subseteq Addr /\ In(r) # {}
    /\ \A r \in Ranges : In(r) \subseteq Addr
    /\ \A r \in Ranges : r # NoRange => r \in AddrRange
    /\ [lo |-> 0, hi |-> NBytes - 1] \in AddrRange
    /\ In([lo |-> 0, hi |-> NBytes - 1]) = Addr
<1>1. NoRange \notin AddrRange /\ In(NoRange) = {}
  BY DEF NoRange, AddrRange, In
<1>2. \A r \in AddrRange : In(r) \subseteq Addr /\ In(r) # {}
  BY SyncOpsAssumption DEF AddrRange, In, Addr
<1>3. /\ [lo |-> 0, hi |-> NBytes - 1] \in AddrRange
      /\ In([lo |-> 0, hi |-> NBytes - 1]) = Addr
  BY SyncOpsAssumption DEF AddrRange, In, Addr
<1> QED
  BY <1>1, <1>2, <1>3 DEF Ranges

\* os_memcpy of a range yields a block of bytes.
LEMMA CopyType ==
    ASSUME NEW x \in Image, NEW r \in Ranges, NEW y, \A a \in In(r) : y[a] \in Byte
    PROVE  Copy(x, y, r) \in Image
BY DEF Copy, Image

\* Merging two ranges gives a range that holds them both.
LEMMA MergeFacts ==
    ASSUME NEW r \in Ranges, NEW q \in AddrRange
    PROVE  /\ Merge(r, q) \in AddrRange
           /\ In(r) \subseteq In(Merge(r, q))
           /\ In(q) \subseteq In(Merge(r, q))
<1>1. CASE r = NoRange
  BY <1>1, RangeFacts DEF Merge
<1>2. CASE r # NoRange
  <2>1. r \in AddrRange
    BY <1>2, RangeFacts
  <2> QED
    BY <1>2, <2>1, SyncOpsAssumption DEF Merge, AddrRange, In, Addr
<1> QED
  BY <1>1, <1>2

\* Shrinking a range drops no byte that differs.
LEMMA ShrinkFacts ==
    ASSUME NEW r \in Ranges, NEW x, NEW y
    PROVE  /\ Shrink(r, x, y) \in Ranges
           /\ In(Shrink(r, x, y)) \subseteq In(r)
           /\ \A a \in In(r) : x[a] # y[a] => a \in In(Shrink(r, x, y))
<1> DEFINE diff == {a \in In(r) : x[a] # y[a]}
<1>1. diff \subseteq Addr /\ diff \subseteq Nat
  BY RangeFacts, SyncOpsAssumption DEF Addr
<1>2. CASE diff = {}
  BY <1>2, RangeFacts DEF Shrink, Ranges
<1>3. CASE diff # {}
  <2> DEFINE P(s) == s.lo \in diff /\ s.hi \in diff /\ diff \subseteq In(s)
  <2>1. PICK l \in diff : \A a \in diff : l <= a
    <3> HIDE DEF diff
    <3> QED
      BY <1>1, <1>3, LeastNat
  <2>2. PICK h \in diff : \A a \in diff : a <= h
    <3> HIDE DEF diff
    <3> QED
      BY <1>1, <1>3, GreatestAddr
  <2>3. [lo |-> l, hi |-> h] \in AddrRange /\ P([lo |-> l, hi |-> h])
    <3> HIDE DEF diff
    <3> QED
      BY <1>1, <2>1, <2>2 DEF AddrRange, In, Addr
  <2>4. Shrink(r, x, y) = CHOOSE s \in AddrRange : P(s)
    BY <1>3 DEF Shrink
  <2>5. Shrink(r, x, y) \in AddrRange /\ P(Shrink(r, x, y))
    <3> HIDE DEF P
    <3> QED
      BY <2>3, <2>4
  <2>6. In(Shrink(r, x, y)) \subseteq In(r)
    <3>1. PICK s \in AddrRange : s = Shrink(r, x, y) /\ P(s)
      BY <2>5
    <3>2. s.lo \in In(r) /\ s.hi \in In(r)
      BY <3>1
    <3>3. r \in AddrRange
      BY <3>2, RangeFacts
    <3>4. In(s) \subseteq In(r)
      BY <3>2, <3>3 DEF In, AddrRange, Addr
    <3> QED
      BY <3>1, <3>4
  <2> QED
    BY <2>5, <2>6 DEF Ranges
<1> QED
  BY <1>2, <1>3

\* Applying a frame to newdata yields a block of bytes.
LEMMA ApplyType ==
    ASSUME NEW x \in Image, NEW r \in Ranges, NEW d \in BOOLEAN,
           NEW data, \A a \in In(r) : data[a] \in Byte
    PROVE  Apply(x, r, data, d) \in Image
BY ByteArithmetic DEF Apply, Image

----------------------------------------------------------------------------
(* The operations on buffers.                                              *)

\* A source buffer whose delta holds exactly the pending bytes.
SbufOK(sb) == sb \in SbufType /\ sb.delta \in [In(sb.pend) -> Byte]

\* Every byte that differs from the last snapshot is marked as changed.
Covered(sb, m) == \A a \in Addr : m[a] # sb.buf[a] => a \in In(sb.changed)

\* From w, the pending bytes lead to the last snapshot.
Leads(sb, w) == Apply(w, sb.pend, sb.delta, ~sb.is_keyframe) = sb.buf

\* ioc_initialize_source_buffer yields a well-formed source buffer.
LEMMA NewSbufOK == SbufOK(NewSbuf)
BY RangeFacts, SyncOpsAssumption
   DEF SbufOK, SbufType, NewSbuf, Ranges, Image, Byte

\* ioc_sbuf_invalidate keeps every byte that differs in the changed range.
LEMMA InvalidateFacts ==
    ASSUME NEW sb, SbufOK(sb), NEW m \in Image, NEW r \in AddrRange
    PROVE  /\ SbufOK(Invalidate(sb, m, r))
           /\ Invalidate(sb, m, r).pend = sb.pend
           /\ Invalidate(sb, m, r).delta = sb.delta
           /\ Invalidate(sb, m, r).buf = sb.buf
           /\ Invalidate(sb, m, r).make_keyframe = sb.make_keyframe
           /\ Invalidate(sb, m, r).is_keyframe = sb.is_keyframe
           /\ In(sb.changed) \subseteq In(Invalidate(sb, m, r).changed)
           /\ \A a \in In(r) :
                 m[a] # sb.buf[a] => a \in In(Invalidate(sb, m, r).changed)
<1> DEFINE q == IF r.hi - r.lo < CheckLimit THEN Shrink(r, m, sb.buf) ELSE r
<1>1. q \in Ranges /\ \A a \in In(r) : m[a] # sb.buf[a] => a \in In(q)
  BY ShrinkFacts DEF Ranges
<1>2. Invalidate(sb, m, r) = IF q = NoRange THEN sb
                             ELSE [sb EXCEPT !.changed = Merge(sb.changed, q)]
  BY DEF Invalidate
<1> HIDE DEF q
<1>3. CASE q = NoRange
  BY <1>1, <1>2, <1>3, RangeFacts
<1>4. CASE q # NoRange
  <2>1. q \in AddrRange
    BY <1>1, <1>4, RangeFacts
  <2>2. sb.changed \in Ranges
    BY DEF SbufOK, SbufType
  <2>3. /\ Merge(sb.changed, q) \in Ranges
        /\ In(sb.changed) \subseteq In(Merge(sb.changed, q))
        /\ In(q) \subseteq In(Merge(sb.changed, q))
    BY <2>1, <2>2, MergeFacts DEF Ranges
  <2> QED
    BY <1>1, <1>2, <1>4, <2>3 DEF SbufOK, SbufType
<1> QED
  BY <1>3, <1>4

\* Taking a snapshot as a key frame.
LEMMA KeyframeFacts ==
    ASSUME NEW sb, SbufOK(sb), NEW m \in Image,
           sb.make_keyframe, sb.pend = NoRange
    PROVE  /\ SbufOK(Synchronize(sb, m))
           /\ Synchronize(sb, m).pend # NoRange
           /\ Synchronize(sb, m).make_keyframe = FALSE
           /\ Covered(Synchronize(sb, m), m)
           /\ \A w \in Image : Leads(Synchronize(sb, m), w)
<1> DEFINE r == [lo |-> 0, hi |-> NBytes - 1]
           s == [changed |-> NoRange, pend |-> r, make_keyframe |-> FALSE,
                 is_keyframe |-> TRUE, buf |-> Copy(sb.buf, m, r),
                 delta |-> [a \in In(r) |-> m[a]]]
<1>1. r \in AddrRange /\ In(r) = Addr /\ r # NoRange
  BY RangeFacts
<1> HIDE DEF r
<1>2. Synchronize(sb, m) = s
  BY <1>1, RangeFacts DEF Synchronize, MaySynchronize, SbufOK, SbufType, r
<1>3. Copy(sb.buf, m, r) = m
  BY <1>1 DEF Copy, Image
<1>4. SbufOK(s)
  <2>1. [a \in In(r) |-> m[a]] \in [In(r) -> Byte]
    BY <1>1 DEF Image
  <2>2. r \in Ranges /\ NoRange \in Ranges
    BY <1>1 DEF Ranges
  <2> QED
    BY <1>3, <2>1, <2>2 DEF SbufOK, SbufType
<1>5. Covered(s, m)
  BY <1>3 DEF Covered
<1>6. ASSUME NEW w \in Image PROVE Leads(s, w)
  BY <1>1, <1>3 DEF Leads, Apply, Image
<1> QED
  BY <1>1, <1>2, <1>4, <1>5, <1>6

\* Taking a snapshot in general.
LEMMA SynchronizeFacts ==
    ASSUME NEW sb, SbufOK(sb), NEW m \in Image,
           ~sb.make_keyframe => Covered(sb, m)
    PROVE  /\ SbufOK(Synchronize(sb, m))
           /\ ~sb.make_keyframe => ~Synchronize(sb, m).make_keyframe
           /\ ~Synchronize(sb, m).make_keyframe => Covered(Synchronize(sb, m), m)
           /\ Synchronize(sb, m).pend = NoRange => sb.pend = NoRange
           /\ \A w \in Image : Leads(sb, w) => Leads(Synchronize(sb, m), w)
<1>1. CASE ~MaySynchronize(sb)
  BY <1>1 DEF Synchronize
<1>2. CASE MaySynchronize(sb) /\ sb.make_keyframe
  BY <1>2, KeyframeFacts DEF MaySynchronize
<1>3. CASE MaySynchronize(sb) /\ ~sb.make_keyframe
  <2> DEFINE r == Shrink(sb.changed, m, sb.buf)
             d == [a \in In(r) |-> SubByte(m[a], sb.buf[a])]
             s == [changed |-> NoRange, pend |-> r, make_keyframe |-> FALSE,
                   is_keyframe |-> FALSE, buf |-> Copy(sb.buf, m, r),
                   delta |-> d]
  <2>1. sb.changed \in Ranges /\ sb.buf \in Image /\ NoRange \in Ranges
    BY DEF SbufOK, SbufType, Ranges
  <2>2. r \in Ranges /\ \A a \in Addr : m[a] # sb.buf[a] => a \in In(r)
    BY <1>3, <2>1, ShrinkFacts DEF Covered
  <2>3. In(r) \subseteq Addr
    BY <2>2, RangeFacts
  <2>4. Synchronize(sb, m) = IF r = NoRange THEN [sb EXCEPT !.changed = NoRange] ELSE s
    BY <1>3 DEF Synchronize, SbufOK, SbufType
  <2>5. sb.pend = NoRange
    BY <1>3 DEF MaySynchronize
  <2>6. CASE r = NoRange
    <3>1. \A a \in Addr : m[a] = sb.buf[a]
      BY <2>2, <2>6, RangeFacts
    <3>2. Synchronize(sb, m) = [sb EXCEPT !.changed = NoRange]
      BY <2>4, <2>6
    <3> HIDE DEF r, d, s
    <3>3. SbufOK([sb EXCEPT !.changed = NoRange])
      BY <2>1 DEF SbufOK, SbufType
    <3> QED
      BY <1>3, <2>5, <3>1, <3>2, <3>3 DEF Covered, Leads, SbufOK, SbufType
  <2>7. CASE r # NoRange
    <3>1. Synchronize(sb, m) = s
      BY <2>4, <2>7
    <3>2. Copy(sb.buf, m, r) = m
      <4> HIDE DEF r
      <4> QED
        BY <2>1, <2>2 DEF Copy, Image
    <3>3. d \in [In(r) -> Byte]
      <4> HIDE DEF r
      <4> QED
        BY <2>1, <2>3, ByteArithmetic DEF Image
    <3>4. SbufOK(s)
      <4> HIDE DEF r, d
      <4> QED
        BY <2>1, <2>2, <3>2, <3>3 DEF SbufOK, SbufType
    <3>5. Covered(s, m)
      <4> HIDE DEF r, d
      <4> QED
        BY <3>2 DEF Covered
    <3>6. ASSUME NEW w \in Image, Leads(sb, w) PROVE Leads(s, w)
      <4>1. \A a \in Addr : w[a] = sb.buf[a]
        BY <2>5, <3>6, RangeFacts DEF Leads, Apply
      <4>2. ASSUME NEW a \in Addr
            PROVE  Apply(w, r, d, TRUE)[a] = m[a]
        <5>1. CASE a \in In(r)
          <6>1. Apply(w, r, d, TRUE)[a] = AddByte(w[a], SubByte(m[a], sb.buf[a]))
            <7> HIDE DEF r
            <7> QED
              BY <5>1 DEF Apply
          <6>2. m[a] \in Byte /\ sb.buf[a] \in Byte
            BY <2>1 DEF Image
          <6>3. AddByte(sb.buf[a], SubByte(m[a], sb.buf[a])) = m[a]
            BY <6>2, ByteArithmetic
          <6> HIDE DEF r, d, s
          <6> QED
            BY <4>1, <6>1, <6>3
        <5>2. CASE a \notin In(r)
          <6>1. Apply(w, r, d, TRUE)[a] = w[a]
            <7> HIDE DEF r, d
            <7> QED
              BY <5>2 DEF Apply
          <6> QED
            BY <2>2, <4>1, <5>2, <6>1
        <5> QED
          BY <5>1, <5>2
      <4>3. Apply(w, r, d, TRUE) = m
        <5> HIDE DEF r, d
        <5> QED
          BY <4>2 DEF Apply, Image
      <4> HIDE DEF r, d
      <4> QED
        BY <3>2, <4>3 DEF Leads
    <3> HIDE DEF r, d, s
    <3>7. s.pend = r /\ s.make_keyframe = FALSE
      BY DEF s
    <3> QED
      BY <2>7, <3>1, <3>4, <3>5, <3>6, <3>7
  <2> QED
    BY <2>6, <2>7
<1> QED
  BY <1>1, <1>2, <1>3

\* A frame splits the pending range into the bytes it carries and the rest.
LEMMA ChunkFacts ==
    ASSUME NEW sb, SbufOK(sb), sb.pend # NoRange,
           NEW n \in 1 .. (sb.pend.hi - sb.pend.lo + 1)
    PROVE  /\ Chunk(sb, n) \in AddrRange
           /\ Rest(sb, n) \in Ranges
           /\ In(sb.pend) = In(Chunk(sb, n)) \union In(Rest(sb, n))
           /\ In(Chunk(sb, n)) \intersect In(Rest(sb, n)) = {}
<1>1. sb.pend \in AddrRange
  BY RangeFacts DEF SbufOK, SbufType
<1>2. PICK l \in Addr, h \in Addr : sb.pend.lo = l /\ sb.pend.hi = h /\ l <= h
  BY <1>1 DEF AddrRange
<1>3. l \in Int /\ h \in Int /\ n \in Int /\ 1 <= n /\ n <= h - l + 1
      /\ 0 <= l /\ h <= NBytes - 1
  BY <1>2, SyncOpsAssumption DEF Addr
<1>4. Chunk(sb, n) = [lo |-> l, hi |-> l + n - 1]
  BY <1>2 DEF Chunk
<1>5. In(sb.pend) = l .. h
  BY <1>2 DEF In
<1>6. Chunk(sb, n) \in AddrRange
  BY <1>3, <1>4, SyncOpsAssumption DEF AddrRange, Addr
<1>7. CASE l + n > h
  <2>1. Rest(sb, n) = NoRange
    BY <1>2, <1>7 DEF Rest
  <2>2. In(Chunk(sb, n)) = l .. h
    BY <1>3, <1>4, <1>7 DEF In
  <2> QED
    BY <1>5, <1>6, <2>1, <2>2, RangeFacts DEF Ranges
<1>8. CASE ~(l + n > h)
  <2>1. Rest(sb, n) = [lo |-> l + n, hi |-> h]
    BY <1>2, <1>8 DEF Rest
  <2>2. Rest(sb, n) \in AddrRange
    BY <1>3, <1>8, <2>1, SyncOpsAssumption DEF AddrRange, Addr
  <2>3. In(Chunk(sb, n)) = l .. (l + n - 1) /\ In(Rest(sb, n)) = (l + n) .. h
    BY <1>4, <2>1 DEF In
  <2>4. l .. h = (l .. (l + n - 1)) \union ((l + n) .. h)
    BY <1>3, <1>8
  <2>5. (l .. (l + n - 1)) \intersect ((l + n) .. h) = {}
    BY <1>3, <1>8
  <2> QED
    BY <1>5, <1>6, <2>2, <2>3, <2>4, <2>5 DEF Ranges
<1> QED
  BY <1>7, <1>8

\* What a frame with the first n pending bytes makes of w.
AfterChunk(w, sb, n) == Apply(w, Chunk(sb, n), sb.delta, ~sb.is_keyframe)

\* Sending a frame keeps what the pending bytes and the stream lead to.
LEMMA DataFrameFacts ==
    ASSUME NEW sb, SbufOK(sb), sb.pend # NoRange,
           NEW n \in 1 .. (sb.pend.hi - sb.pend.lo + 1), NEW w \in Image,
           NEW after, after = AfterChunk(w, sb, n),
           NEW f, f = DataFrame(sb, n, after)
    PROVE  /\ SbufOK(AfterDataFrame(sb, n))
           /\ AfterDataFrame(sb, n).changed = sb.changed
           /\ AfterDataFrame(sb, n).buf = sb.buf
           /\ AfterDataFrame(sb, n).make_keyframe = sb.make_keyframe
           /\ f \in FrameType /\ f.data \in [In(f.range) -> Byte]
           /\ f.after = after
           /\ after = Apply(w, f.range, f.data, f.delta)
           /\ AfterDataFrame(sb, n).pend = NoRange => f.complete
           /\ Leads(sb, w) => Leads(AfterDataFrame(sb, n), after)
<1> DEFINE c == Chunk(sb, n)
           q == Rest(sb, n)
           dc == [a \in In(c) |-> sb.delta[a]]
           dq == [a \in In(q) |-> sb.delta[a]]
           k == ~sb.is_keyframe
<1>1. /\ c \in AddrRange /\ c \in Ranges /\ q \in Ranges
      /\ In(sb.pend) = In(c) \union In(q)
      /\ In(c) \intersect In(q) = {}
  BY ChunkFacts DEF Ranges
<1>2. In(c) \subseteq Addr /\ In(q) \subseteq Addr
  BY <1>1, RangeFacts
<1>3. AfterDataFrame(sb, n) = [sb EXCEPT !.pend = q, !.delta = dq]
  BY DEF AfterDataFrame
<1>4. f = [range |-> c, data |-> dc, delta |-> k,
           complete |-> q = NoRange, after |-> after]
  BY DEF DataFrame
<1>5. after = Apply(w, c, sb.delta, k)
  BY DEF AfterChunk
<1> HIDE DEF c, q, k
<1>6. sb.delta \in [In(sb.pend) -> Byte] /\ k \in BOOLEAN
  BY DEF SbufOK, k
<1>7. dc \in [In(c) -> Byte] /\ dq \in [In(q) -> Byte]
  BY <1>1, <1>6
<1>8. after \in Image
  BY <1>1, <1>5, <1>6, ApplyType
<1>9. after = Apply(w, c, dc, k)
  BY <1>5 DEF Apply
<1>10. ASSUME Leads(sb, w) PROVE Apply(after, q, dq, k) = sb.buf
  <2>1. sb.buf = Apply(w, sb.pend, sb.delta, k)
    BY <1>10 DEF Leads, k
  <2>2. ASSUME NEW a \in Addr
        PROVE  Apply(after, q, dq, k)[a] = Apply(w, sb.pend, sb.delta, k)[a]
    <3>1. CASE a \in In(q)
      <4>1. after[a] = w[a]
        BY <1>1, <1>5, <3>1 DEF Apply
      <4>2. dq[a] = sb.delta[a] /\ a \in In(sb.pend)
        BY <1>1, <3>1
      <4> HIDE DEF dq
      <4> QED
        BY <3>1, <4>1, <4>2 DEF Apply
    <3>2. CASE a \notin In(q)
      <4> HIDE DEF dq
      <4> QED
        BY <1>1, <1>5, <3>2 DEF Apply
    <3> QED
      BY <3>1, <3>2
  <2> HIDE DEF dq
  <2> QED
    BY <2>1, <2>2 DEF Apply
<1> HIDE DEF dc, dq
<1>11. PICK t : t = AfterDataFrame(sb, n)
  OBVIOUS
<1>12. /\ t \in SbufType /\ t.pend = q /\ t.delta = dq
       /\ t.changed = sb.changed /\ t.buf = sb.buf
       /\ t.make_keyframe = sb.make_keyframe
       /\ t.is_keyframe = sb.is_keyframe
  <2>1. PICK D : D = UNION {[In(r) -> Byte] : r \in Ranges}
    OBVIOUS
  <2>2. dq \in D
    BY <1>1, <1>7, <2>1
  <2>3. sb \in [changed : Ranges, pend : Ranges, make_keyframe : BOOLEAN,
                is_keyframe : BOOLEAN, buf : Image, delta : D]
    BY <2>1 DEF SbufOK, SbufType
  <2>4. t \in [changed : Ranges, pend : Ranges, make_keyframe : BOOLEAN,
               is_keyframe : BOOLEAN, buf : Image, delta : D]
    BY <1>1, <1>3, <1>11, <2>2, <2>3
  <2>5. t \in SbufType
    BY <2>1, <2>4 DEF SbufType
  <2> QED
    BY <1>3, <1>11, <2>3, <2>5
<1>13. SbufOK(t)
  BY <1>7, <1>12 DEF SbufOK
<1>14. Leads(sb, w) => Leads(t, after)
  BY <1>10, <1>12 DEF Leads, k
<1>15. PICK e \in BOOLEAN : e = (q = NoRange)
  OBVIOUS
<1>16. f = [range |-> c, data |-> dc, delta |-> k, complete |-> e, after |-> after]
  BY <1>4, <1>15, Zenon
<1>17. /\ f.range = c /\ f.data = dc /\ f.delta = k /\ f.after = after
       /\ f.complete = e
  BY <1>16
<1>18. f \in FrameType
  <2>1. PICK D : D = UNION {[In(r) -> Byte] : r \in AddrRange}
    OBVIOUS
  <2>2. dc \in D
    BY <1>1, <1>7, <2>1
  <2>3. f \in [range : AddrRange, delta : BOOLEAN, complete : BOOLEAN,
               data : D, after : Image]
    <3>1. c \in AddrRange /\ k \in BOOLEAN /\ e \in BOOLEAN
      BY <1>1, <1>6
    <3> QED
      BY <1>8, <1>16, <2>2, <3>1
  <2> QED
    BY <2>1, <2>3 DEF FrameType
<1>19. f.data \in [In(f.range) -> Byte]
  BY <1>7, <1>17
<1>20. t.pend = NoRange => f.complete
  BY <1>12, <1>15, <1>17
<1> QED
  BY <1>9, <1>11, <1>12, <1>13, <1>14, <1>17, <1>18, <1>19, <1>20

\* Outside its ranges a target buffer agrees with itself and with the block.
TargetCovered(tb, m) ==
    \A a \in Addr : /\ tb.newdata[a] # tb.buf[a] => a \in In(tb.new)
                    /\ m[a] # tb.buf[a] => a \in In(tb.got)

\* Publishing takes all of newdata.
LEMMA TbufSynchronizeFacts ==
    ASSUME NEW tb \in TbufType, NEW m
    PROVE  /\ TbufSynchronize(tb) \in TbufType
           /\ TbufSynchronize(tb).newdata = tb.newdata
           /\ TbufSynchronize(tb).new = NoRange
           /\ TargetCovered(tb, m) => TargetCovered(TbufSynchronize(tb), m)
<1> DEFINE r == Shrink(tb.new, tb.buf, tb.newdata)
<1>0. /\ tb.new \in Ranges /\ tb.got \in Ranges /\ tb.buf \in Image
      /\ tb.newdata \in Image /\ NoRange \in Ranges
  BY DEF TbufType, Ranges
<1>1. /\ r \in Ranges
      /\ \A a \in In(tb.new) : tb.buf[a] # tb.newdata[a] => a \in In(r)
  BY <1>0, ShrinkFacts
<1>2. TbufSynchronize(tb) =
        IF r = NoRange THEN [tb EXCEPT !.new = NoRange]
        ELSE [newdata |-> tb.newdata, buf |-> Copy(tb.buf, tb.newdata, r),
              new |-> NoRange, got |-> Merge(tb.got, r)]
  BY DEF TbufSynchronize
<1> HIDE DEF r
<1>3. CASE r = NoRange
  <2>1. TbufSynchronize(tb) = [tb EXCEPT !.new = NoRange]
    BY <1>2, <1>3
  <2>2. In(r) = {}
    BY <1>3, RangeFacts
  <2> QED
    BY <1>0, <1>1, <2>1, <2>2 DEF TbufType, TargetCovered
<1>4. CASE r # NoRange
  <2>1. r \in AddrRange
    BY <1>1, <1>4, RangeFacts
  <2>2. /\ Merge(tb.got, r) \in Ranges
        /\ In(tb.got) \subseteq In(Merge(tb.got, r))
        /\ In(r) \subseteq In(Merge(tb.got, r))
    BY <1>0, <2>1, MergeFacts DEF Ranges
  <2>3. Copy(tb.buf, tb.newdata, r) \in Image
    <3>1. \A a \in In(r) : tb.newdata[a] \in Byte
      BY <1>0, <2>1, RangeFacts DEF Image
    <3> QED
      BY <1>0, <1>1, <3>1, CopyType
  <2>4. \A a \in Addr : Copy(tb.buf, tb.newdata, r)[a]
                          = IF a \in In(r) THEN tb.newdata[a] ELSE tb.buf[a]
    BY DEF Copy
  <2>5. PICK b : b = Copy(tb.buf, tb.newdata, r)
    OBVIOUS
  <2>6. PICK g : g = Merge(tb.got, r)
    OBVIOUS
  <2>7. TbufSynchronize(tb) = [newdata |-> tb.newdata, buf |-> b,
                               new |-> NoRange, got |-> g]
    BY <1>2, <1>4, <2>5, <2>6
  <2>8. TbufSynchronize(tb) \in TbufType
    BY <1>0, <2>2, <2>3, <2>5, <2>6, <2>7 DEF TbufType
  <2>9. ASSUME TargetCovered(tb, m) PROVE TargetCovered(TbufSynchronize(tb), m)
    <3>1. \A a \in Addr : b[a] = tb.newdata[a]
      BY <1>1, <2>4, <2>5, <2>9 DEF TargetCovered
    <3>2. \A a \in Addr : m[a] # b[a] => a \in In(g)
      BY <2>2, <2>4, <2>5, <2>6, <2>9 DEF TargetCovered
    <3> QED
      BY <2>7, <3>1, <3>2 DEF TargetCovered
  <2> QED
    BY <2>7, <2>8, <2>9
<1> QED
  BY <1>3, <1>4

\* ioc_store_data_frame applies the frame and keeps the target's ranges.
LEMMA StoreDataFrameFacts ==
    ASSUME NEW tb \in TbufType, NEW m, NEW f \in FrameType,
           f.data \in [In(f.range) -> Byte]
    PROVE  /\ StoreDataFrame(tb, f) \in TbufType
           /\ StoreDataFrame(tb, f).newdata
                = Apply(tb.newdata, f.range, f.data, f.delta)
           /\ f.complete => StoreDataFrame(tb, f).new = NoRange
           /\ TargetCovered(tb, m) => TargetCovered(StoreDataFrame(tb, f), m)
<1>1. PICK nd : nd = Apply(tb.newdata, f.range, f.data, f.delta)
  OBVIOUS
<1>2. PICK nw : nw = Merge(tb.new, f.range)
  OBVIOUS
<1>3. PICK t1 : t1 = [tb EXCEPT !.newdata = nd, !.new = nw]
  OBVIOUS
<1>4. StoreDataFrame(tb, f) = IF f.complete THEN TbufSynchronize(t1) ELSE t1
  BY <1>1, <1>2, <1>3 DEF StoreDataFrame
<1>5. /\ f.range \in AddrRange /\ f.range \in Ranges /\ f.delta \in BOOLEAN
      /\ f.complete \in BOOLEAN
      /\ tb.new \in Ranges /\ tb.newdata \in Image
  BY DEF FrameType, TbufType, Ranges
<1>6. nd \in Image
  BY <1>1, <1>5, ApplyType
<1>7. /\ nw \in Ranges /\ In(tb.new) \subseteq In(nw)
      /\ In(f.range) \subseteq In(nw)
  BY <1>2, <1>5, MergeFacts DEF Ranges
<1>8. t1 \in TbufType /\ t1.newdata = nd /\ t1.new = nw
      /\ t1.buf = tb.buf /\ t1.got = tb.got
  BY <1>3, <1>6, <1>7 DEF TbufType
<1>9. \A a \in Addr : a \notin In(f.range) => nd[a] = tb.newdata[a]
  BY <1>1 DEF Apply
<1>10. TargetCovered(tb, m) => TargetCovered(t1, m)
  BY <1>7, <1>8, <1>9 DEF TargetCovered
<1>11. CASE f.complete
  BY <1>1, <1>4, <1>8, <1>10, <1>11, TbufSynchronizeFacts
<1>12. CASE ~f.complete
  BY <1>1, <1>4, <1>8, <1>10, <1>12
<1> QED
  BY <1>11, <1>12

----------------------------------------------------------------------------
(* The inductive invariant.                                                *)

\* What the stream leads to is a block of bytes.
LEMMA WireType ==
    ASSUME TypeOK
    PROVE  Base \in Image /\ Wire \in Image
<1>1. Base \in Image
  BY DEF TypeOK, Base, TbufType
<1>2. CASE chan = <<>>
  BY <1>1, <1>2 DEF Wire
<1>3. CASE chan # <<>>
  <2>1. chan \in Seq(FrameType) /\ Len(chan) \in 1 .. Len(chan)
    BY <1>3 DEF TypeOK
  <2>2. chan[Len(chan)] \in FrameType
    BY <2>1
  <2> QED
    BY <1>1, <1>3, <2>2 DEF Wire, FrameType
<1> QED
  BY <1>2, <1>3

\* The invariants in terms of the predicates the lemmas are about.
LEMMA Restated ==
    /\ TypeOK => SbufOK(sbuf)
    /\ NoLostWrite <=>
         (HasBuf(scon) /\ ~sbuf.make_keyframe => Covered(sbuf, smblk))
    /\ DeltaCoherence <=>
         (scon = "linked" /\ tcon \in {"open", "linked"} => Leads(sbuf, Wire))
    /\ TargetRangesCover <=> (tcon = "linked" => TargetCovered(tbuf, tmblk))
BY DEF TypeOK, SbufOK, NoLostWrite, Covered, DeltaCoherence, Leads,
       TargetRangesCover, TargetCovered

\* A step of the source's end, or of the application there, that leaves the
\* stream and the target's end alone.
LEMMA SourceStep ==
    ASSUME IInv, UNCHANGED chan, UNCHANGED tgtVars,
           smblk' \in Image, SbufOK(sbuf'), scon' \in ConState,
           HasBuf(scon') /\ ~sbuf'.make_keyframe => Covered(sbuf', smblk'),
           scon' = "linked" => ~sbuf'.make_keyframe,
           scon' = "linked" /\ tcon \in {"open", "linked"} => Leads(sbuf', Wire),
           scon' = "linked" /\ sbuf'.pend = NoRange =>
                scon = "linked" /\ sbuf.pend = NoRange
    PROVE  IInv'
<1>1. Wire' = Wire /\ Base' = Base
  BY DEF Wire, Base, tgtVars
<1>2. TypeOK'
  BY DEF IInv, TypeOK, SbufOK, tgtVars
<1>3. NoLostWrite'
  BY DEF NoLostWrite, Covered
<1>4. DeltaCoherence'
  BY <1>1 DEF DeltaCoherence, Leads, tgtVars
<1>5. TargetRangesCover'
  BY DEF IInv, TargetRangesCover, tgtVars
<1>6. KeyframeTaken' /\ StreamRead'
  BY DEF IInv, StreamInv, KeyframeTaken, StreamRead, tgtVars
<1>7. FramesChain'
  BY <1>1 DEF IInv, StreamInv, FramesChain, tgtVars
<1>8. LastComplete'
  BY DEF IInv, StreamInv, LastComplete, tgtVars
<1> QED
  BY <1>2, <1>3, <1>4, <1>5, <1>6, <1>7, <1>8 DEF IInv, StreamInv

\* ioc_write preserves the invariant.
LEMMA WriteStep ==
    ASSUME IInv, NEW r \in AddrRange, NEW v \in [In(r) -> Byte], Write(r, v)
    PROVE  IInv'
<1>1. /\ smblk' = Copy(smblk, v, r)
      /\ sbuf' = IF HasBuf(scon) THEN Invalidate(sbuf, smblk', r) ELSE sbuf
      /\ scon' = scon /\ chan' = chan /\ UNCHANGED tgtVars
  BY DEF Write
<1>2. smblk' \in Image
  <2>1. smblk \in Image /\ r \in Ranges /\ \A a \in In(r) : v[a] \in Byte
    BY DEF IInv, TypeOK, Ranges
  <2> QED
    BY <1>1, <2>1, CopyType
<1>3. SbufOK(sbuf) /\ scon \in ConState
  BY Restated DEF IInv, TypeOK
<1>4. \A a \in Addr : a \notin In(r) => smblk'[a] = smblk[a]
  BY <1>1 DEF Copy
<1>5. CASE HasBuf(scon)
  <2>1. /\ SbufOK(sbuf')
        /\ sbuf'.pend = sbuf.pend /\ sbuf'.delta = sbuf.delta
        /\ sbuf'.buf = sbuf.buf
        /\ sbuf'.make_keyframe = sbuf.make_keyframe
        /\ sbuf'.is_keyframe = sbuf.is_keyframe
        /\ In(sbuf.changed) \subseteq In(sbuf'.changed)
        /\ \A a \in In(r) : smblk'[a] # sbuf.buf[a] => a \in In(sbuf'.changed)
    <3>1. sbuf' = Invalidate(sbuf, smblk', r)
      BY <1>1, <1>5
    <3>2. PICK m \in Image : m = smblk'
      BY <1>2
    <3> QED
      BY <1>3, <3>1, <3>2, InvalidateFacts
  <2>2. ~sbuf.make_keyframe => Covered(sbuf, smblk)
    BY <1>5, Restated DEF IInv
  <2>3. ~sbuf'.make_keyframe => Covered(sbuf', smblk')
    BY <1>4, <2>1, <2>2 DEF Covered
  <2>4. /\ scon = "linked" => ~sbuf.make_keyframe
        /\ scon = "linked" /\ tcon \in {"open", "linked"} => Leads(sbuf, Wire)
    BY Restated DEF IInv, StreamInv, KeyframeTaken
  <2>5. Leads(sbuf, Wire) => Leads(sbuf', Wire)
    BY <2>1 DEF Leads
  <2> QED
    BY <1>1, <1>2, <1>3, <2>1, <2>3, <2>4, <2>5, SourceStep
<1>6. CASE ~HasBuf(scon)
  <2>1. sbuf' = sbuf /\ scon' # "linked"
    BY <1>1, <1>6 DEF HasBuf
  <2> QED
    BY <1>1, <1>2, <1>3, <1>6, <2>1, SourceStep
<1> QED
  BY <1>5, <1>6

\* ioc_send preserves the invariant.
LEMMA SendStep ==
    ASSUME IInv, Send
    PROVE  IInv'
<1>1. /\ HasBuf(scon) /\ sbuf' = Synchronize(sbuf, smblk)
      /\ smblk' = smblk /\ scon' = scon /\ chan' = chan /\ UNCHANGED tgtVars
  BY DEF Send
<1>2. /\ SbufOK(sbuf) /\ scon \in ConState /\ smblk \in Image /\ Wire \in Image
      /\ ~sbuf.make_keyframe => Covered(sbuf, smblk)
      /\ scon = "linked" => ~sbuf.make_keyframe
      /\ scon = "linked" /\ tcon \in {"open", "linked"} => Leads(sbuf, Wire)
  BY <1>1, Restated, WireType DEF IInv, TypeOK, StreamInv, KeyframeTaken
<1>3. /\ SbufOK(sbuf')
      /\ ~sbuf.make_keyframe => ~sbuf'.make_keyframe
      /\ ~sbuf'.make_keyframe => Covered(sbuf', smblk)
      /\ sbuf'.pend = NoRange => sbuf.pend = NoRange
      /\ Leads(sbuf, Wire) => Leads(sbuf', Wire)
  BY <1>1, <1>2, SynchronizeFacts
<1> QED
  BY <1>1, <1>2, <1>3, SourceStep

\* ioc_mbinfo_new_sbuf preserves the invariant.
LEMMA LinkSourceStep ==
    ASSUME IInv, LinkSource
    PROVE  IInv'
<1>1. /\ scon' = "linked" /\ sbuf' = Synchronize(NewSbuf, smblk)
      /\ smblk' = smblk /\ chan' = chan /\ UNCHANGED tgtVars
  BY DEF LinkSource
<1>2. smblk \in Image /\ Wire \in Image
  BY WireType DEF IInv, TypeOK
<1>3. SbufOK(NewSbuf) /\ NewSbuf.make_keyframe /\ NewSbuf.pend = NoRange
  BY NewSbufOK DEF NewSbuf
<1>4. /\ SbufOK(sbuf') /\ sbuf'.pend # NoRange /\ sbuf'.make_keyframe = FALSE
      /\ Covered(sbuf', smblk) /\ Leads(sbuf', Wire)
  BY <1>1, <1>2, <1>3, KeyframeFacts
<1> QED
  BY <1>1, <1>2, <1>4, SourceStep DEF ConState

\* ioc_reset_connection_state at the source preserves the invariant.
LEMMA ResetSourceStep ==
    ASSUME IInv, ResetSource
    PROVE  IInv'
<1>1. /\ scon' = "reset" /\ sbuf' = ResetSbuf(sbuf)
      /\ smblk' = smblk /\ chan' = chan /\ UNCHANGED tgtVars
  BY DEF ResetSource
<1>2. SbufOK(sbuf) /\ smblk \in Image
  BY Restated DEF IInv, TypeOK
<1>3. SbufOK(sbuf') /\ sbuf'.make_keyframe
  <2>1. PICK D : D = UNION {[In(r) -> Byte] : r \in Ranges}
    OBVIOUS
  <2>2. PICK d : d = [a \in In(NoRange) |-> 0]
    OBVIOUS
  <2>3. d \in [In(NoRange) -> Byte] /\ NoRange \in Ranges
    BY <2>2, RangeFacts DEF Ranges
  <2>4. d \in D
    BY <2>1, <2>3
  <2>5. sbuf \in [changed : Ranges, pend : Ranges, make_keyframe : BOOLEAN,
                  is_keyframe : BOOLEAN, buf : Image, delta : D]
    BY <1>2, <2>1 DEF SbufOK, SbufType
  <2>6. sbuf' = [sbuf EXCEPT !.pend = NoRange, !.make_keyframe = TRUE,
                             !.is_keyframe = TRUE, !.delta = d]
    BY <1>1, <2>2 DEF ResetSbuf
  <2>7. sbuf' \in [changed : Ranges, pend : Ranges, make_keyframe : BOOLEAN,
                   is_keyframe : BOOLEAN, buf : Image, delta : D]
    BY <2>3, <2>4, <2>5, <2>6
  <2>8. sbuf'.pend = NoRange /\ sbuf'.delta = d /\ sbuf'.make_keyframe = TRUE
    BY <2>5, <2>6
  <2> QED
    BY <2>1, <2>3, <2>7, <2>8 DEF SbufOK, SbufType
<1> QED
  BY <1>1, <1>2, <1>3, SourceStep DEF ConState

\* Releasing the source buffer preserves the invariant.
LEMMA CloseSourceStep ==
    ASSUME IInv, CloseSource
    PROVE  IInv'
<1>1. /\ scon' = "closed" /\ sbuf' = NewSbuf
      /\ smblk' = smblk /\ chan' = chan /\ UNCHANGED tgtVars
  BY DEF CloseSource
<1>2. SbufOK(sbuf') /\ ~HasBuf(scon') /\ scon' \in ConState /\ scon' # "linked"
  BY <1>1, NewSbufOK DEF HasBuf, ConState
<1>3. smblk' \in Image
  BY <1>1 DEF IInv, TypeOK
<1> QED
  BY <1>1, <1>2, <1>3, SourceStep

\* A frame enters the stream, or is lost because nobody reads the stream.
LEMMA MakeDataFrameStep ==
    ASSUME IInv, NEW n \in 1 .. NBytes, MakeDataFrame(n)
    PROVE  IInv'
<1>1. PICK after : after = AfterChunk(Wire, sbuf, n)
  OBVIOUS
<1>2. PICK f : f = DataFrame(sbuf, n, after)
  OBVIOUS
<1>3. /\ scon = "linked" /\ sbuf.pend # NoRange
      /\ n \in 1 .. (sbuf.pend.hi - sbuf.pend.lo + 1)
      /\ chan' = IF tcon \in {"open", "linked"} THEN Append(chan, f) ELSE chan
      /\ sbuf' = AfterDataFrame(sbuf, n)
      /\ smblk' = smblk /\ scon' = scon
      /\ tmblk' = tmblk /\ tbuf' = tbuf /\ tcon' = tcon
  BY <1>1, <1>2 DEF MakeDataFrame, tgtVars, AfterChunk
<1>4. /\ SbufOK(sbuf) /\ Wire \in Image /\ smblk \in Image
      /\ ~sbuf.make_keyframe
      /\ Covered(sbuf, smblk)
      /\ tcon \in {"open", "linked"} => Leads(sbuf, Wire)
      /\ chan \in Seq(FrameType)
  BY <1>3, Restated, WireType DEF IInv, TypeOK, StreamInv, KeyframeTaken, HasBuf
<1>5. /\ SbufOK(sbuf')
      /\ sbuf'.changed = sbuf.changed /\ sbuf'.buf = sbuf.buf
      /\ sbuf'.make_keyframe = sbuf.make_keyframe
      /\ f \in FrameType /\ f.data \in [In(f.range) -> Byte]
      /\ f.after = after
      /\ after = Apply(Wire, f.range, f.data, f.delta)
      /\ sbuf'.pend = NoRange => f.complete
      /\ Leads(sbuf, Wire) => Leads(sbuf', after)
  <2>1. PICK t : t = AfterDataFrame(sbuf, n)
    OBVIOUS
  <2>2. /\ SbufOK(sbuf) /\ sbuf.pend # NoRange /\ Wire \in Image
        /\ n \in 1 .. (sbuf.pend.hi - sbuf.pend.lo + 1)
    BY <1>3, <1>4
  <2>3. /\ SbufOK(t)
        /\ t.changed = sbuf.changed /\ t.buf = sbuf.buf
        /\ t.make_keyframe = sbuf.make_keyframe
        /\ f \in FrameType /\ f.data \in [In(f.range) -> Byte]
        /\ f.after = after
        /\ after = Apply(Wire, f.range, f.data, f.delta)
        /\ t.pend = NoRange => f.complete
        /\ Leads(sbuf, Wire) => Leads(t, after)
    BY <1>1, <1>2, <2>1, <2>2, DataFrameFacts
  <2>4. sbuf' = t
    BY <1>3, <2>1
  <2> QED
    BY <2>3, <2>4
<1>6. NoLostWrite'
  BY <1>3, <1>4, <1>5 DEF NoLostWrite, Covered
<1>7. TargetRangesCover'
  BY <1>3 DEF IInv, TargetRangesCover
<1>8. KeyframeTaken'
  BY <1>3, <1>4, <1>5 DEF KeyframeTaken
<1>9. Base' = Base
  BY <1>3 DEF Base
<1>10. CASE tcon \in {"open", "linked"}
  <2>1. /\ chan' = Append(chan, f) /\ chan' \in Seq(FrameType)
        /\ Len(chan') = Len(chan) + 1 /\ Len(chan) \in Nat
        /\ chan' # <<>> /\ chan'[Len(chan')] = f
        /\ \A i \in 1 .. Len(chan) : chan'[i] = chan[i]
    BY <1>3, <1>4, <1>5, <1>10
  <2>2. Wire' = after
    BY <1>5, <2>1 DEF Wire
  <2>3. TypeOK'
    <3>1. \A i \in 1 .. Len(chan') : chan'[i].data \in [In(chan'[i].range) -> Byte]
      <4> SUFFICES ASSUME NEW i \in 1 .. Len(chan')
                   PROVE  chan'[i].data \in [In(chan'[i].range) -> Byte]
        OBVIOUS
      <4>1. CASE i \in 1 .. Len(chan)
        BY <2>1, <4>1 DEF IInv, TypeOK
      <4>2. CASE i \notin 1 .. Len(chan)
        <5>1. i = Len(chan')
          BY <2>1, <4>2
        <5> QED
          BY <1>5, <2>1, <5>1
      <4> QED
        BY <4>1, <4>2
    <3> QED
      BY <1>3, <1>5, <2>1, <3>1 DEF IInv, TypeOK, SbufOK
  <2>4. DeltaCoherence'
    BY <1>3, <1>4, <1>5, <1>10, <2>2 DEF DeltaCoherence, Leads
  <2>5. StreamRead'
    BY <1>3, <1>10 DEF StreamRead
  <2>6. FramesChain'
    <3> SUFFICES ASSUME NEW i \in 1 .. Len(chan')
                 PROVE  chan'[i].after =
                          Apply(IF i = 1 THEN Base ELSE chan'[i - 1].after,
                                chan'[i].range, chan'[i].data, chan'[i].delta)
      BY <1>9 DEF FramesChain
    <3>1. CASE i \in 1 .. Len(chan)
      <4>1. i # 1 => i - 1 \in 1 .. Len(chan)
        BY <2>1, <3>1
      <4>2. chan[i].after = Apply(IF i = 1 THEN Base ELSE chan[i - 1].after,
                                  chan[i].range, chan[i].data, chan[i].delta)
        BY <3>1 DEF IInv, StreamInv, FramesChain
      <4> QED
        BY <2>1, <3>1, <4>1, <4>2
    <3>2. CASE i \notin 1 .. Len(chan)
      <4>1. i = Len(chan) + 1
        BY <2>1, <3>2
      <4>2. Wire = IF i = 1 THEN Base ELSE chan'[i - 1].after
        <5>1. CASE chan = <<>>
          BY <5>1, <4>1 DEF Wire
        <5>2. CASE chan # <<>>
          <6>1. i # 1 /\ i - 1 = Len(chan) /\ Len(chan) \in 1 .. Len(chan)
            BY <1>4, <2>1, <4>1, <5>2
          <6> QED
            BY <2>1, <5>2, <6>1 DEF Wire
        <5> QED
          BY <5>1, <5>2
      <4>3. chan'[i] = f
        BY <2>1, <4>1
      <4> QED
        BY <1>5, <4>2, <4>3
    <3> QED
      BY <3>1, <3>2
  <2>7. LastComplete'
    BY <1>5, <2>1 DEF LastComplete
  <2> QED
    BY <1>6, <1>7, <1>8, <2>3, <2>4, <2>5, <2>6, <2>7 DEF IInv, StreamInv
<1>11. CASE tcon \notin {"open", "linked"}
  <2>1. chan' = chan /\ chan = <<>>
    BY <1>3, <1>11 DEF IInv, StreamInv, StreamRead
  <2>2. TypeOK'
    BY <1>3, <1>5, <2>1 DEF IInv, TypeOK, SbufOK
  <2>3. DeltaCoherence'
    BY <1>3, <1>11 DEF DeltaCoherence
  <2>4. StreamRead' /\ FramesChain'
    BY <2>1 DEF StreamRead, FramesChain
  <2>5. LastComplete'
    BY <1>3, <1>11, <2>1 DEF LastComplete
  <2> QED
    BY <1>6, <1>7, <1>8, <2>2, <2>3, <2>4, <2>5 DEF IInv, StreamInv
<1> QED
  BY <1>10, <1>11

\* ioc_process_received_data_frame preserves the invariant.
LEMMA ReceiveDataFrameStep ==
    ASSUME IInv, ReceiveDataFrame
    PROVE  IInv'
<1>1. /\ tcon = "linked" /\ chan # <<>>
      /\ tbuf' = StoreDataFrame(tbuf, Head(chan)) /\ chan' = Tail(chan)
      /\ tmblk' = tmblk /\ tcon' = tcon
      /\ smblk' = smblk /\ sbuf' = sbuf /\ scon' = scon
  BY DEF ReceiveDataFrame, srcVars
<1>2. chan \in Seq(FrameType) /\ tbuf \in TbufType
  BY DEF IInv, TypeOK
<1>3. /\ chan' \in Seq(FrameType) /\ Len(chan) \in Nat /\ Len(chan) >= 1
      /\ Len(chan') = Len(chan) - 1
      /\ \A i \in 1 .. Len(chan') : chan'[i] = chan[i + 1]
      /\ Head(chan) = chan[1]
  BY <1>1, <1>2
<1>4. PICK f : f = chan[1]
  OBVIOUS
<1>5. /\ f \in FrameType /\ f.data \in [In(f.range) -> Byte]
      /\ f.after = Apply(tbuf.newdata, f.range, f.data, f.delta)
  <2>1. 1 \in 1 .. Len(chan)
    BY <1>3
  <2> QED
    BY <1>1, <1>2, <1>4, <2>1
       DEF IInv, TypeOK, StreamInv, FramesChain, Base, HasBuf
<1>6. /\ tbuf' \in TbufType
      /\ tbuf'.newdata = f.after
      /\ f.complete => tbuf'.new = NoRange
      /\ TargetCovered(tbuf, tmblk) => TargetCovered(tbuf', tmblk)
  <2>t. PICK t : t = StoreDataFrame(tbuf, f)
    OBVIOUS
  <2>1. tbuf' = t
    BY <1>1, <1>3, <1>4, <2>t
  <2>2. tbuf \in TbufType /\ f \in FrameType /\ f.data \in [In(f.range) -> Byte]
    BY <1>2, <1>5
  <2>3. /\ t \in TbufType
        /\ t.newdata = Apply(tbuf.newdata, f.range, f.data, f.delta)
        /\ f.complete => t.new = NoRange
        /\ TargetCovered(tbuf, tmblk) => TargetCovered(t, tmblk)
    BY <2>t, <2>2, StoreDataFrameFacts
  <2> QED  BY <1>5, <2>1, <2>3
<1>7. Base' = f.after
  BY <1>1, <1>6 DEF Base, HasBuf
<1>8. Wire' = Wire
  <2>1. CASE chan' = <<>>
    <3>1. Len(chan) = 1
      BY <1>3, <2>1
    <3> QED
      BY <1>1, <1>4, <1>7, <2>1, <3>1 DEF Wire
  <2>2. CASE chan' # <<>>
    <3>1. Len(chan') \in 1 .. Len(chan') /\ Len(chan') + 1 = Len(chan)
      BY <1>3, <2>2
    <3> QED
      BY <1>1, <1>3, <2>2, <3>1 DEF Wire
  <2> QED
    BY <2>1, <2>2
<1>9. TypeOK'
  <2>1. \A i \in 1 .. Len(chan') : i + 1 \in 1 .. Len(chan)
    BY <1>3
  <2> QED
    BY <1>1, <1>3, <1>6, <2>1 DEF IInv, TypeOK
<1>10. NoLostWrite'
  BY <1>1 DEF IInv, NoLostWrite
<1>11. DeltaCoherence'
  BY <1>1, <1>8 DEF IInv, DeltaCoherence
<1>12. TargetRangesCover'
  BY <1>1, <1>6 DEF IInv, TargetRangesCover, TargetCovered
<1>13. KeyframeTaken' /\ StreamRead'
  BY <1>1 DEF IInv, StreamInv, KeyframeTaken, StreamRead
<1>14. FramesChain'
  <2> SUFFICES ASSUME NEW i \in 1 .. Len(chan')
               PROVE  chan'[i].after =
                        Apply(IF i = 1 THEN f.after ELSE chan'[i - 1].after,
                              chan'[i].range, chan'[i].data, chan'[i].delta)
    BY <1>7 DEF FramesChain
  <2>1. /\ i + 1 \in 1 .. Len(chan) /\ i + 1 # 1 /\ (i + 1) - 1 = i
        /\ i # 1 => i - 1 \in 1 .. Len(chan') /\ (i - 1) + 1 = i
    BY <1>3
  <2>2. chan[i + 1].after = Apply(chan[i].after, chan[i + 1].range,
                                  chan[i + 1].data, chan[i + 1].delta)
    BY <2>1 DEF IInv, StreamInv, FramesChain
  <2>3. chan[i].after = IF i = 1 THEN f.after ELSE chan'[i - 1].after
    BY <1>3, <1>4, <2>1
  <2> QED
    BY <1>3, <2>2, <2>3
<1>15. LastComplete'
  <2>1. CASE chan' = <<>>
    <3>1. Len(chan) = 1
      BY <1>3, <2>1
    <3> QED
      BY <1>1, <1>4, <1>6, <2>1, <3>1 DEF IInv, StreamInv, LastComplete
  <2>2. CASE chan' # <<>>
    <3>1. Len(chan') \in 1 .. Len(chan') /\ Len(chan') + 1 = Len(chan)
      BY <1>3, <2>2
    <3> QED
      BY <1>1, <1>3, <2>2, <3>1 DEF IInv, StreamInv, LastComplete
  <2> QED
    BY <2>1, <2>2
<1> QED
  BY <1>9, <1>10, <1>11, <1>12, <1>13, <1>14, <1>15 DEF IInv, StreamInv

\* ioc_mbinfo_new_tbuf preserves the invariant.
LEMMA LinkTargetStep ==
    ASSUME IInv, LinkTarget
    PROVE  IInv'
<1>1. /\ tcon = "open" /\ tcon' = "linked" /\ tbuf' = NewTbuf(tmblk)
      /\ tmblk' = tmblk /\ chan' = chan
      /\ smblk' = smblk /\ sbuf' = sbuf /\ scon' = scon
  BY DEF LinkTarget, srcVars
<1>2. /\ tbuf' \in TbufType /\ tbuf'.newdata = tmblk /\ tbuf'.new = NoRange
      /\ tbuf'.buf = tmblk
  BY <1>1 DEF NewTbuf, TbufType, Ranges, IInv, TypeOK
<1>3. Base' = Base /\ Wire' = Wire
  BY <1>1, <1>2 DEF Base, Wire, HasBuf
<1>4. TypeOK'
  BY <1>1, <1>2 DEF IInv, TypeOK, ConState
<1>5. NoLostWrite' /\ DeltaCoherence'
  BY <1>1, <1>3 DEF IInv, NoLostWrite, DeltaCoherence
<1>6. TargetRangesCover'
  BY <1>1, <1>2 DEF TargetRangesCover
<1>7. FramesChain'
  BY <1>1, <1>3 DEF IInv, StreamInv, FramesChain
<1>8. KeyframeTaken' /\ StreamRead' /\ LastComplete'
  BY <1>1, <1>2 DEF IInv, StreamInv, KeyframeTaken, StreamRead, LastComplete
<1> QED
  BY <1>4, <1>5, <1>6, <1>7, <1>8 DEF IInv, StreamInv

\* The target's end goes down, with or without ioc_reset_connection_state.
LEMMA TargetDownStep ==
    ASSUME IInv, ResetTarget \/ CloseTarget
    PROVE  IInv'
<1>1. /\ tcon' \in {"reset", "closed"} /\ chan' = <<>> /\ tmblk' = tmblk
      /\ tbuf' \in {ResetTbuf(tbuf), NewTbuf(tmblk)}
      /\ smblk' = smblk /\ sbuf' = sbuf /\ scon' = scon
  BY DEF ResetTarget, CloseTarget, srcVars
<1>2. tbuf' \in TbufType
  <2>1. tbuf \in TbufType /\ tmblk \in Image /\ NoRange \in Ranges
    BY DEF IInv, TypeOK, Ranges
  <2>2. ResetTbuf(tbuf) \in TbufType
    BY <2>1 DEF ResetTbuf, TbufType
  <2>3. NewTbuf(tmblk) \in TbufType
    BY <2>1 DEF NewTbuf, TbufType
  <2> QED
    BY <1>1, <2>2, <2>3
<1>3. TypeOK'
  <2>1. chan' \in Seq(FrameType) /\ Len(chan') = 0
    BY <1>1
  <2> QED
    BY <1>1, <1>2, <2>1 DEF IInv, TypeOK, ConState
<1>4. NoLostWrite' /\ DeltaCoherence' /\ TargetRangesCover'
  BY <1>1 DEF IInv, NoLostWrite, DeltaCoherence, TargetRangesCover
<1>5. KeyframeTaken' /\ StreamRead' /\ FramesChain' /\ LastComplete'
  BY <1>1 DEF IInv, StreamInv, KeyframeTaken, StreamRead, FramesChain, LastComplete
<1> QED
  BY <1>3, <1>4, <1>5 DEF IInv, StreamInv

\* ioc_receive preserves the invariant.
LEMMA ReceiveStep ==
    ASSUME IInv, Receive
    PROVE  IInv'
<1>1. /\ HasBuf(tcon) /\ tmblk' = Copy(tmblk, tbuf.buf, tbuf.got)
      /\ tbuf' = [tbuf EXCEPT !.got = NoRange]
      /\ tcon' = tcon /\ chan' = chan
      /\ smblk' = smblk /\ sbuf' = sbuf /\ scon' = scon
  BY DEF Receive, srcVars
<1>2. /\ tbuf \in TbufType /\ tmblk \in Image
      /\ tbuf.buf \in Image /\ tbuf.got \in Ranges
  BY DEF IInv, TypeOK, TbufType
<1>3. /\ tbuf' \in TbufType /\ tbuf'.newdata = tbuf.newdata
      /\ tbuf'.new = tbuf.new /\ tbuf'.buf = tbuf.buf
  BY <1>1, <1>2 DEF TbufType, Ranges
<1>4. tmblk' \in Image
  <2>1. \A a \in In(tbuf.got) : tbuf.buf[a] \in Byte
    BY <1>2, RangeFacts DEF Image
  <2> QED
    BY <1>1, <1>2, <2>1, CopyType
<1>5. Base' = Base /\ Wire' = Wire
  BY <1>1, <1>3 DEF Base, Wire
<1>6. TypeOK'
  BY <1>1, <1>3, <1>4 DEF IInv, TypeOK
<1>7. NoLostWrite' /\ DeltaCoherence'
  BY <1>1, <1>5 DEF IInv, NoLostWrite, DeltaCoherence
<1>8. TargetRangesCover'
  <2>1. \A a \in Addr : tmblk'[a] = IF a \in In(tbuf.got) THEN tbuf.buf[a] ELSE tmblk[a]
    BY <1>1 DEF Copy
  <2> QED
    BY <1>1, <1>3, <2>1 DEF IInv, TargetRangesCover
<1>9. FramesChain'
  BY <1>1, <1>5 DEF IInv, StreamInv, FramesChain
<1>10. KeyframeTaken' /\ StreamRead' /\ LastComplete'
  BY <1>1, <1>3 DEF IInv, StreamInv, KeyframeTaken, StreamRead, LastComplete
<1> QED
  BY <1>6, <1>7, <1>8, <1>9, <1>10 DEF IInv, StreamInv

\* A new stream preserves the invariant.
LEMMA ConnectStep ==
    ASSUME IInv, Connect
    PROVE  IInv'
<1>1. /\ scon' = "open" /\ tcon' = "open" /\ chan' = <<>>
      /\ smblk' = smblk /\ sbuf' = sbuf /\ tmblk' = tmblk /\ tbuf' = tbuf
  BY DEF Connect
<1>2. TypeOK'
  <2>1. chan' \in Seq(FrameType) /\ Len(chan') = 0
    BY <1>1
  <2> QED
    BY <1>1, <2>1 DEF IInv, TypeOK, ConState
<1>3. NoLostWrite' /\ DeltaCoherence' /\ TargetRangesCover'
  BY <1>1 DEF IInv, NoLostWrite, DeltaCoherence, TargetRangesCover, HasBuf
<1>4. KeyframeTaken' /\ StreamRead' /\ FramesChain' /\ LastComplete'
  BY <1>1 DEF KeyframeTaken, StreamRead, FramesChain, LastComplete
<1> QED
  BY <1>2, <1>3, <1>4 DEF IInv, StreamInv

----------------------------------------------------------------------------
(* The theorems.                                                           *)

\* The invariant holds before the first connection.
LEMMA InitIInv == Init => IInv
<1> SUFFICES ASSUME Init PROVE IInv
  OBVIOUS
<1>1. /\ smblk \in Image /\ tmblk \in Image /\ sbuf = NewSbuf
      /\ tbuf = NewTbuf(tmblk) /\ scon = "closed" /\ tcon = "closed"
      /\ chan = <<>>
  BY DEF Init
<1>2. tbuf \in TbufType
  BY <1>1 DEF NewTbuf, TbufType, Ranges
<1>3. chan \in Seq(FrameType) /\ Len(chan) = 0
  BY <1>1
<1>4. TypeOK
  BY <1>1, <1>2, <1>3, NewSbufOK DEF TypeOK, SbufOK, ConState
<1>5. NoLostWrite /\ DeltaCoherence /\ TargetRangesCover
  BY <1>1 DEF NoLostWrite, DeltaCoherence, TargetRangesCover, HasBuf
<1>6. StreamInv
  BY <1>1, <1>3 DEF StreamInv, KeyframeTaken, StreamRead, FramesChain, LastComplete
<1> QED
  BY <1>4, <1>5, <1>6 DEF IInv

\* Every step of the two ends preserves the invariant.
LEMMA NextIInv == IInv /\ [Next]_vars => IInv'
<1> SUFFICES ASSUME IInv, [Next]_vars PROVE IInv'
  OBVIOUS
<1>1. ASSUME NEW r \in AddrRange, NEW v \in [In(r) -> Byte], Write(r, v) PROVE IInv'
  BY <1>1, WriteStep
<1>2. CASE Send
  BY <1>2, SendStep
<1>3. ASSUME NEW n \in 1 .. NBytes, MakeDataFrame(n) PROVE IInv'
  BY <1>3, MakeDataFrameStep
<1>4. CASE LinkSource
  BY <1>4, LinkSourceStep
<1>5. CASE ResetSource
  BY <1>5, ResetSourceStep
<1>6. CASE CloseSource
  BY <1>6, CloseSourceStep
<1>7. CASE ReceiveDataFrame
  BY <1>7, ReceiveDataFrameStep
<1>8. CASE LinkTarget
  BY <1>8, LinkTargetStep
<1>9. CASE ResetTarget \/ CloseTarget
  BY <1>9, TargetDownStep
<1>10. CASE Receive
  BY <1>10, ReceiveStep
<1>11. CASE Connect
  BY <1>11, ConnectStep
<1>12. CASE UNCHANGED vars
  BY <1>12 DEF vars, IInv, TypeOK, NoLostWrite, DeltaCoherence, TargetRangesCover,
               StreamInv, KeyframeTaken, StreamRead, FramesChain, LastComplete,
               Base, Wire
<1> QED
  BY <1>1, <1>2, <1>3, <1>4, <1>5, <1>6, <1>7, <1>8, <1>9, <1>10, <1>11, <1>12
     DEF Next

\* The inductive invariant holds in every reachable state.
THEOREM Invariance == Spec => []IInv
BY InitIInv, NextIInv, PTL DEF Spec

\* Type correctness: the ranges the code copies and sends never leave the
\* memory block, and a frame's data matches its range.
THEOREM TypeCorrect == Spec => []TypeOK
<1>1. IInv => TypeOK
  BY DEF IInv
<1> QED
  BY <1>1, Invariance, PTL

\* No write to the block is lost: ioc_sbuf_invalidate and
\* ioc_sbuf_synchronize never forget a byte that differs from what was sent.
THEOREM WritesKept == Spec => []NoLostWrite
<1>1. IInv => NoLostWrite
  BY DEF IInv
<1> QED
  BY <1>1, Invariance, PTL

\* Deltas in the stream add up to the source's last snapshot.
THEOREM DeltasCoherent == Spec => []DeltaCoherence
<1>1. IInv => DeltaCoherence
  BY DEF IInv
<1> QED
  BY <1>1, Invariance, PTL

\* The ranges the target copies cover everything that differs.
THEOREM TargetCovers == Spec => []TargetRangesCover
<1>1. IInv => TargetRangesCover
  BY DEF IInv
<1> QED
  BY <1>1, Invariance, PTL

\* When nothing is left to send or to receive the two blocks are equal, for
\* every block size, byte width and number of frames in the stream.
THEOREM QuiescentEquality == Spec => []QuiescentEqual
<1>1. IInv => QuiescentEqual
  <2> SUFFICES ASSUME IInv, scon = "linked", tcon = "linked",
                      sbuf.changed = NoRange, sbuf.pend = NoRange,
                      chan = <<>>, tbuf.got = NoRange
               PROVE  tmblk = smblk
    BY DEF QuiescentEqual
  <2>1. smblk \in Image /\ tmblk \in Image
    BY DEF IInv, TypeOK
  <2>2. \A a \in Addr : smblk[a] = sbuf.buf[a]
    BY RangeFacts DEF IInv, StreamInv, KeyframeTaken, NoLostWrite, HasBuf
  <2>3. \A a \in Addr : sbuf.buf[a] = tbuf.newdata[a]
    BY RangeFacts DEF IInv, DeltaCoherence, Wire, Base, HasBuf, Apply
  <2>4. tbuf.new = NoRange
    BY DEF IInv, StreamInv, LastComplete
  <2>5. \A a \in Addr : tbuf.newdata[a] = tbuf.buf[a] /\ tmblk[a] = tbuf.buf[a]
    BY <2>4, RangeFacts DEF IInv, TargetRangesCover
  <2> QED
    BY <2>1, <2>2, <2>3, <2>5 DEF Image
<1> QED
  BY <1>1, Invariance, PTL

\* What is in the stream continues what the target has, frame by frame, and
\* nobody takes half a snapshot for a whole one.
THEOREM StreamContinues == Spec => []StreamInv
<1>1. IInv => StreamInv
  BY DEF IInv
<1> QED
  BY <1>1, Invariance, PTL

----------------------------------------------------------------------------
(* The snapshots in the stream, by induction over the frames.              *)

\* The recursion of SnapshotsUpTo, as an equation.
Recursion(s, f) ==
    f = [i \in 0 .. Len(s) |->
            IF i = 0 THEN <<>>
            ELSE IF s[i].complete THEN Append(f[i - 1], s[i].after)
            ELSE f[i - 1]]

\* f holds the snapshots up to each of the first n frames of s.
Counts(s, n, f) ==
    /\ f \in [0 .. n -> Seq(Image)]
    /\ f[0] = <<>>
    /\ \A i \in 1 .. n :
          /\ s[i].complete => f[i] = Append(f[i - 1], s[i].after)
          /\ ~s[i].complete => f[i] = f[i - 1]

LEMMA UpToExists ==
    ASSUME NEW s \in Seq(FrameType)
    PROVE  \E f : Counts(s, Len(s), f)
<1> DEFINE S == {n \in 0 .. Len(s) : ~\E f : Counts(s, n, f)}
<1>1. Len(s) \in Nat /\ \A i \in 1 .. Len(s) : s[i].after \in Image
  <2>1. \A i \in 1 .. Len(s) : s[i] \in FrameType
    OBVIOUS
  <2> QED  BY <2>1 DEF FrameType
<1>2. 0 \notin S
  <2> DEFINE f == [i \in 0 .. 0 |-> <<>>]
  <2>1. <<>> \in Seq(Image)
    OBVIOUS
  <2>2. Counts(s, 0, f)
    BY <2>1 DEF Counts
  <2> QED  BY <2>2
<1>3. ASSUME NEW n \in S, \A m \in S : n <= m
      PROVE  FALSE
  <2>1. n \in 1 .. Len(s) /\ n - 1 \in 0 .. Len(s) /\ n - 1 \notin S
    BY <1>1, <1>2, <1>3
  <2>2. PICK f : Counts(s, n - 1, f)
    BY <2>1
  <2> DEFINE last == IF s[n].complete THEN Append(f[n - 1], s[n].after) ELSE f[n - 1]
             g == [i \in 0 .. n |-> IF i = n THEN last ELSE f[i]]
  <2>3. f[n - 1] \in Seq(Image) /\ last \in Seq(Image)
    BY <1>1, <2>1, <2>2 DEF Counts
  <2>4. g \in [0 .. n -> Seq(Image)]
    <3> HIDE DEF last
    <3> QED  BY <2>1, <2>2, <2>3 DEF Counts
  <2>5. g[0] = <<>> /\ g[n] = last /\ \A i \in 0 .. (n - 1) : g[i] = f[i]
    <3> HIDE DEF last
    <3> QED  BY <2>1, <2>2 DEF Counts
  <2>6. \A i \in 1 .. n : /\ s[i].complete => g[i] = Append(g[i - 1], s[i].after)
                          /\ ~s[i].complete => g[i] = g[i - 1]
    <3> SUFFICES ASSUME NEW i \in 1 .. n
                 PROVE  /\ s[i].complete => g[i] = Append(g[i - 1], s[i].after)
                        /\ ~s[i].complete => g[i] = g[i - 1]
      OBVIOUS
    <3> HIDE DEF g
    <3>1. CASE i = n
      <4>1. n - 1 \in 0 .. (n - 1)
        BY <2>1
      <4>2. g[n - 1] = f[n - 1]
        BY <2>5, <4>1
      <4> QED  BY <2>5, <3>1, <4>2
    <3>2. CASE i # n
      <4>1. i \in 1 .. (n - 1) /\ i - 1 \in 0 .. (n - 1) /\ i \in 0 .. (n - 1)
        BY <2>1, <3>2
      <4> QED  BY <2>2, <2>5, <4>1 DEF Counts
    <3> QED  BY <3>1, <3>2
  <2>7. Counts(s, n, g)
    <3> HIDE DEF g
    <3> QED  BY <2>4, <2>5, <2>6 DEF Counts
  <2> QED  BY <2>7
<1>4. S = {}
  <2>1. S \subseteq Nat
    BY <1>1
  <2> HIDE DEF S
  <2> QED  BY <1>3, <2>1, LeastNat
<1> QED  BY <1>1, <1>4

\* What SnapshotsUpTo computes.
LEMMA UpToFacts ==
    ASSUME NEW s \in Seq(FrameType)
    PROVE  Counts(s, Len(s), SnapshotsUpTo(s))
<1>1. SnapshotsUpTo(s) = CHOOSE f : Recursion(s, f)
  BY DEF SnapshotsUpTo, Recursion
<1>2. PICK f : Counts(s, Len(s), f)
  BY UpToExists
<1>3. Len(s) \in Nat
  OBVIOUS
<1>4. Recursion(s, f)
  <2> DEFINE g == [i \in 0 .. Len(s) |->
                     IF i = 0 THEN <<>>
                     ELSE IF s[i].complete THEN Append(f[i - 1], s[i].after)
                     ELSE f[i - 1]]
  <2>1. \A i \in 0 .. Len(s) : f[i] = g[i]
    <3> SUFFICES ASSUME NEW i \in 0 .. Len(s)
                 PROVE  f[i] = g[i]
      OBVIOUS
    <3>1. CASE i = 0
      BY <1>2, <3>1 DEF Counts
    <3>2. CASE i # 0
      <4>1. i \in 1 .. Len(s)
        BY <1>3, <3>2
      <4> QED  BY <1>2, <3>2, <4>1 DEF Counts
    <3> QED  BY <3>1, <3>2
  <2>2. f = [i \in 0 .. Len(s) |-> f[i]]
    BY <1>2 DEF Counts
  <2> QED  BY <2>1, <2>2 DEF Recursion
<1>5. Recursion(s, SnapshotsUpTo(s))
  BY <1>1, <1>4
<1>h. PICK h : h = SnapshotsUpTo(s)
  OBVIOUS
<1>6. /\ h = [i \in 0 .. Len(s) |-> h[i]]
      /\ h[0] = <<>>
      /\ \A i \in 1 .. Len(s) : /\ s[i].complete => h[i] = Append(h[i - 1], s[i].after)
                                /\ ~s[i].complete => h[i] = h[i - 1]
  <2>1. Recursion(s, h)
    BY <1>5, <1>h
  <2>2. h = [i \in 0 .. Len(s) |->
                IF i = 0 THEN <<>>
                ELSE IF s[i].complete THEN Append(h[i - 1], s[i].after)
                ELSE h[i - 1]]
    BY <2>1 DEF Recursion
  <2>3. DOMAIN h = 0 .. Len(s) /\ h = [i \in 0 .. Len(s) |-> h[i]]
    BY <2>2
  <2>4. h[0] = <<>>
    BY <1>3, <2>2
  <2>5. \A i \in 1 .. Len(s) : i \in 0 .. Len(s) /\ i # 0
    BY <1>3
  <2>6. \A i \in 1 .. Len(s) : /\ s[i].complete => h[i] = Append(h[i - 1], s[i].after)
                               /\ ~s[i].complete => h[i] = h[i - 1]
    BY <2>2, <2>5
  <2> QED  BY <2>3, <2>4, <2>6
<1>7. \A i \in 0 .. Len(s) : h[i] \in Seq(Image)
  <2> DEFINE S == {n \in 0 .. Len(s) : h[n] # f[n]}
  <2>1. ASSUME NEW n \in S, \A m \in S : n <= m
        PROVE  FALSE
    <3>1. n # 0
      BY <1>2, <1>6, <2>1 DEF Counts
    <3>2. n \in 1 .. Len(s) /\ n - 1 \in 0 .. Len(s) /\ n - 1 \notin S
      BY <1>3, <2>1, <3>1
    <3>3. h[n - 1] = f[n - 1]
      BY <3>2
    <3>4. /\ s[n].complete => f[n] = Append(f[n - 1], s[n].after)
          /\ ~s[n].complete => f[n] = f[n - 1]
      BY <1>2, <3>2 DEF Counts
    <3>5. /\ s[n].complete => h[n] = Append(h[n - 1], s[n].after)
          /\ ~s[n].complete => h[n] = h[n - 1]
      BY <1>6, <3>2
    <3> QED  BY <2>1, <3>3, <3>4, <3>5
  <2>2. S = {}
    <3>1. S \subseteq Nat
      BY <1>3
    <3> HIDE DEF S
    <3> QED  BY <2>1, <3>1, LeastNat
  <2> QED  BY <1>2, <2>2 DEF Counts
<1>8. h \in [0 .. Len(s) -> Seq(Image)]
  BY <1>6, <1>7
<1>9. Counts(s, Len(s), h)
  BY <1>6, <1>8 DEF Counts
<1> QED  BY <1>9, <1>h

\* Two sequences that agree on their first n frames have the same snapshots
\* there.
LEMMA SamePrefix ==
    ASSUME NEW s, NEW t, NEW n \in Nat, NEW f, NEW g, Counts(s, n, f), Counts(t, n, g),
           \A i \in 1 .. n : s[i] = t[i]
    PROVE  f[n] = g[n]
<1> DEFINE S == {i \in 0 .. n : f[i] # g[i]}
<1>1. ASSUME NEW i \in S, \A m \in S : i <= m
      PROVE  FALSE
  <2>1. i # 0
    BY <1>1 DEF Counts
  <2>2. i \in 1 .. n /\ i - 1 \in 0 .. n /\ i - 1 \notin S
    BY <1>1, <2>1
  <2>3. f[i - 1] = g[i - 1]
    BY <2>2
  <2>4. /\ s[i].complete => f[i] = Append(f[i - 1], s[i].after)
        /\ ~s[i].complete => f[i] = f[i - 1]
    BY <2>2 DEF Counts
  <2>5. /\ t[i].complete => g[i] = Append(g[i - 1], t[i].after)
        /\ ~t[i].complete => g[i] = g[i - 1]
    BY <2>2 DEF Counts
  <2>6. s[i] = t[i]
    BY <2>2
  <2> QED  BY <1>1, <2>3, <2>4, <2>5, <2>6
<1>2. S = {}
  <2>1. S \subseteq Nat
    OBVIOUS
  <2> HIDE DEF S
  <2> QED  BY <1>1, <2>1, LeastNat
<1>3. n \in 0 .. n
  OBVIOUS
<1> QED  BY <1>2, <1>3

LEMMA SnapshotsType ==
    ASSUME NEW s \in Seq(FrameType)
    PROVE  Snapshots(s) \in Seq(Image) /\ (s = <<>> => Snapshots(s) = <<>>)
<1>1. Counts(s, Len(s), SnapshotsUpTo(s)) /\ Len(s) \in Nat
  BY UpToFacts
<1>2. Len(s) \in 0 .. Len(s)
  BY <1>1
<1> QED  BY <1>1, <1>2 DEF Snapshots, Counts

\* A frame added to the stream.
LEMMA SnapshotsAppend ==
    ASSUME NEW s \in Seq(FrameType), NEW x \in FrameType
    PROVE  /\ x.complete => Snapshots(Append(s, x)) = Append(Snapshots(s), x.after)
           /\ ~x.complete => Snapshots(Append(s, x)) = Snapshots(s)
<1> DEFINE t == Append(s, x)
           n == Len(s)
           f == SnapshotsUpTo(s)
           g == SnapshotsUpTo(t)
<1>1. n \in Nat /\ t \in Seq(FrameType) /\ Len(t) = n + 1 /\ t[n + 1] = x
      /\ \A i \in 1 .. n : t[i] = s[i]
  OBVIOUS
<1> HIDE DEF t
<1>2. Counts(s, n, f) /\ Counts(t, n + 1, g)
  BY <1>1, UpToFacts
<1>3. Counts(t, n, [i \in 0 .. n |-> g[i]])
  BY <1>1, <1>2 DEF Counts
<1>4. f[n] = g[n]
  <2>1. f[n] = [i \in 0 .. n |-> g[i]][n]
    <3> HIDE DEF f, g, n
    <3> QED  BY <1>1, <1>2, <1>3, SamePrefix
  <2> QED  BY <1>1, <2>1
<1>5. /\ x.complete => g[n + 1] = Append(g[n], x.after)
      /\ ~x.complete => g[n + 1] = g[n]
  <2>1. n + 1 \in 1 .. (n + 1) /\ (n + 1) - 1 = n
    BY <1>1
  <2> HIDE DEF g, n
  <2> QED  BY <1>1, <1>2, <2>1 DEF Counts
<1> QED  BY <1>1, <1>4, <1>5 DEF Snapshots, t

\* The first frame taken out of the stream.
LEMMA SnapshotsTail ==
    ASSUME NEW s \in Seq(FrameType), s # <<>>
    PROVE  /\ Head(s).complete => Snapshots(s) = <<Head(s).after>> \o Snapshots(Tail(s))
           /\ ~Head(s).complete => Snapshots(s) = Snapshots(Tail(s))
<1> DEFINE t == Tail(s)
           n == Len(t)
           f == SnapshotsUpTo(s)
           g == SnapshotsUpTo(t)
           p == IF s[1].complete THEN <<s[1].after>> ELSE <<>>
<1>1. n \in Nat /\ t \in Seq(FrameType) /\ Len(s) = n + 1 /\ Head(s) = s[1]
      /\ \A i \in 1 .. n : t[i] = s[i + 1]
  OBVIOUS
<1>2. s[1].after \in Image /\ \A i \in 1 .. n : t[i].after \in Image
  <2>1. s[1] \in FrameType /\ \A i \in 1 .. n : t[i] \in FrameType
    BY <1>1
  <2> QED  BY <2>1 DEF FrameType
<1> HIDE DEF t
<1>3. Counts(s, n + 1, f) /\ Counts(t, n, g)
  BY <1>1, UpToFacts
<1> HIDE DEF n, f, g
<1>4. p \in Seq(Image) /\ p \o <<>> = p
  BY <1>2
<1> DEFINE S == {i \in 0 .. n : f[i + 1] # p \o g[i]}
<1>5. 0 \notin S
  <2>1. f[0] = <<>> /\ g[0] = <<>>
    BY <1>3 DEF Counts
  <2>2. 1 \in 1 .. (n + 1) /\ 1 - 1 = 0
    BY <1>1
  <2>3. /\ s[1].complete => f[1] = Append(f[0], s[1].after)
        /\ ~s[1].complete => f[1] = f[0]
    BY <1>3, <2>2 DEF Counts
  <2>4. Append(<<>>, s[1].after) = <<s[1].after>>
    OBVIOUS
  <2>5. f[1] = p
    BY <2>1, <2>3, <2>4
  <2> HIDE DEF p
  <2> QED  BY <1>4, <2>1, <2>5
<1>6. ASSUME NEW i \in S, \A m \in S : i <= m
      PROVE  FALSE
  <2>1. i \in 1 .. n /\ i - 1 \in 0 .. n /\ i - 1 \notin S /\ (i - 1) + 1 = i
        /\ i + 1 \in 1 .. (n + 1) /\ (i + 1) - 1 = i
    <3>1. i \in 0 .. n /\ S \subseteq 0 .. n
      OBVIOUS
    <3> HIDE DEF S
    <3>2. i # 0
      BY <1>5
    <3>3. i \in 1 .. n /\ i - 1 \in 0 .. n /\ (i - 1) + 1 = i
          /\ i + 1 \in 1 .. (n + 1) /\ (i + 1) - 1 = i /\ ~(i <= i - 1)
      BY <1>1, <3>1, <3>2
    <3> QED  BY <1>6, <3>3
  <2>2. f[i] = p \o g[i - 1]
    BY <2>1
  <2>3. g[i - 1] \in Seq(Image)
    BY <1>3, <2>1 DEF Counts
  <2>4. s[i + 1] = t[i]
    BY <1>1, <2>1
  <2>5. /\ t[i].complete => f[i + 1] = Append(f[i], t[i].after) /\ g[i] = Append(g[i - 1], t[i].after)
        /\ ~t[i].complete => f[i + 1] = f[i] /\ g[i] = g[i - 1]
    <3>1. /\ s[i + 1].complete => f[i + 1] = Append(f[i], s[i + 1].after)
          /\ ~s[i + 1].complete => f[i + 1] = f[i]
      BY <1>3, <2>1 DEF Counts
    <3>2. /\ t[i].complete => g[i] = Append(g[i - 1], t[i].after)
          /\ ~t[i].complete => g[i] = g[i - 1]
      BY <1>3, <2>1 DEF Counts
    <3> QED  BY <2>4, <3>1, <3>2
  <2>6. f[i + 1] # p \o g[i]
    BY <1>6
  <2> HIDE DEF p
  <2>7. \A q \in Seq(Image), x \in Image : Append(p \o q, x) = p \o Append(q, x)
    <3> SUFFICES ASSUME NEW q \in Seq(Image), NEW x \in Image
                 PROVE  Append(p \o q, x) = p \o Append(q, x)
      OBVIOUS
    <3>1. p \in Seq(Image) /\ <<x>> \in Seq(Image) /\ p \o q \in Seq(Image)
      BY <1>4
    <3>2. Append(p \o q, x) = (p \o q) \o <<x>> /\ Append(q, x) = q \o <<x>>
      BY <3>1, AppendIsConcat
    <3>3. (p \o q) \o <<x>> = p \o (q \o <<x>>)
      <4>1. PICK y : y = <<x>>
        OBVIOUS
      <4>2. y \in Seq(Image) /\ q \in Seq(Image) /\ p \in Seq(Image)
        BY <3>1, <4>1
      <4>3. (p \o q) \o y = p \o (q \o y)
        BY <4>2, ConcatAssociative, SMTT(30)
      <4> QED  BY <4>1, <4>3
    <3> QED  BY <3>2, <3>3
  <2>8. t[i].after \in Image
    BY <1>2, <2>1
  <2> QED  BY <2>2, <2>3, <2>5, <2>6, <2>7, <2>8
<1>7. S = {}
  <2>1. S \subseteq Nat
    <3> HIDE DEF p
    <3> QED  BY <1>1
  <2> HIDE DEF S
  <2> QED  BY <1>6, <2>1, LeastNat
<1>8. f[n + 1] = p \o g[n]
  <2>1. n \in 0 .. n
    BY <1>1
  <2> HIDE DEF p
  <2> QED  BY <1>7, <2>1
<1>9. Snapshots(s) = p \o Snapshots(t)
  BY <1>1, <1>8 DEF Snapshots, f, g, n
<1>10. Snapshots(t) \in Seq(Image)
  BY <1>1, SnapshotsType
<1> QED  BY <1>1, <1>9, <1>10 DEF t

----------------------------------------------------------------------------
(* The refinement.                                                         *)

\* rcv of the snapshot channel.
Rcv == IF tcon = "linked" THEN tbuf.buf ELSE tmblk

\* After a reset nothing waits for the application at the target.
ResetQuiet == tcon = "reset" => tbuf.got = NoRange

RefInv == IInv /\ ResetQuiet

\* The steps of the channel, over the variables of this specification.
LEMMA ChannelSteps ==
    /\ TransitSnapshots' = TransitSnapshots /\ Rcv' = Rcv /\ tmblk' = tmblk
       /\ (smblk' = smblk \/ smblk' \in Image)
       => [Channel!ChNext]_(Channel!chVars)
    /\ TransitSnapshots' = Append(TransitSnapshots, smblk) /\ Rcv' = Rcv
       /\ tmblk' = tmblk /\ smblk' = smblk
       => [Channel!ChNext]_(Channel!chVars)
    /\ TransitSnapshots # <<>> /\ Rcv' = Head(TransitSnapshots)
       /\ TransitSnapshots' = Tail(TransitSnapshots)
       /\ tmblk' = tmblk /\ smblk' = smblk
       => [Channel!ChNext]_(Channel!chVars)
    /\ TransitSnapshots' = TransitSnapshots /\ tmblk' = Rcv /\ Rcv' = Rcv
       /\ smblk' = smblk
       => [Channel!ChNext]_(Channel!chVars)
    /\ (\E n \in 0 .. Len(TransitSnapshots) :
           TransitSnapshots' = SubSeq(TransitSnapshots, 1, n))
       /\ Rcv' = Rcv /\ tmblk' = tmblk /\ smblk' = smblk
       => [Channel!ChNext]_(Channel!chVars)
    /\ (\E n \in 0 .. Len(TransitSnapshots) :
           TransitSnapshots' = SubSeq(TransitSnapshots, n + 1, Len(TransitSnapshots)))
       /\ Rcv' = tmblk /\ tmblk' = tmblk /\ smblk' = smblk
       => [Channel!ChNext]_(Channel!chVars)
BY DEF Channel!ChNext, Channel!chVars, Channel!ChWrite, Channel!Publish, Channel!Arrive,
       Channel!Obtain, Channel!LoseTail, Channel!LoseArrived, Rcv

LEMMA TransitType ==
    ASSUME IInv
    PROVE  /\ chan \in Seq(FrameType) /\ Snapshots(chan) \in Seq(Image)
           /\ BeingSent \in Seq(Image) /\ TransitSnapshots \in Seq(Image)
           /\ <<>> \in Seq(Image)
           /\ Snapshots(chan) \o <<>> = Snapshots(chan)
           /\ (chan = <<>> => Snapshots(chan) = <<>>)
<1>1. chan \in Seq(FrameType) /\ sbuf.buf \in Image
  BY DEF IInv, TypeOK, SbufType
<1>2. Snapshots(chan) \in Seq(Image) /\ (chan = <<>> => Snapshots(chan) = <<>>)
  BY <1>1, SnapshotsType
<1>3. BeingSent \in Seq(Image) /\ <<>> \in Seq(Image)
  BY <1>1 DEF BeingSent
<1>4. Snapshots(chan) \o BeingSent \in Seq(Image) /\ Snapshots(chan) \o <<>> = Snapshots(chan)
  BY <1>2, <1>3, ConcatEmptySeq, ConcatProperties
<1> QED  BY <1>1, <1>2, <1>3, <1>4 DEF TransitSnapshots

\* The snapshot being sent is lost: the end of the line is cut off.
LEMMA CutTail ==
    ASSUME IInv, TransitSnapshots' = Snapshots(chan)
    PROVE  \E n \in 0 .. Len(TransitSnapshots) :
               TransitSnapshots' = SubSeq(TransitSnapshots, 1, n)
<1> DEFINE S == Snapshots(chan)
           B == BeingSent
           n == Len(S)
<1>1. S \in Seq(Image) /\ B \in Seq(Image) /\ TransitSnapshots = S \o B
  BY TransitType DEF TransitSnapshots
<1> HIDE DEF S, B
<1>2. n \in Nat /\ Len(B) \in Nat /\ Len(S \o B) = n + Len(B)
      /\ \A i \in 1 .. n : (S \o B)[i] = S[i]
  BY <1>1
<1>3. SubSeq(S \o B, 1, n) = S
  BY <1>1, <1>2
<1>4. n \in 0 .. Len(TransitSnapshots)
  BY <1>1, <1>2
<1> QED  BY <1>1, <1>3, <1>4 DEF S

\* The stream is lost, the snapshot being sent stays.
LEMMA CutHead ==
    ASSUME IInv, TransitSnapshots' = BeingSent
    PROVE  \E n \in 0 .. Len(TransitSnapshots) :
               TransitSnapshots' = SubSeq(TransitSnapshots, n + 1, Len(TransitSnapshots))
<1> DEFINE S == Snapshots(chan)
           B == BeingSent
           n == Len(S)
<1>1. S \in Seq(Image) /\ B \in Seq(Image) /\ TransitSnapshots = S \o B
  BY TransitType DEF TransitSnapshots
<1> HIDE DEF S, B
<1>2. n \in Nat /\ Len(B) \in Nat /\ Len(S \o B) = n + Len(B) /\ S \o B \in Seq(Image)
      /\ \A i \in 1 .. Len(B) : (S \o B)[i + n] = B[i]
  BY <1>1, ConcatProperties
<1>3. SubSeq(S \o B, n + 1, n + Len(B)) = B
  <2> DEFINE Q == SubSeq(S \o B, n + 1, n + Len(B))
  <2>1. /\ Q \in Seq(Image) /\ Len(Q) = Len(B)
        /\ \A i \in 1 .. Len(B) : Q[i] = (S \o B)[i + n]
    BY <1>2
  <2> HIDE DEF Q
  <2>2. Q = B
    BY <1>1, <1>2, <2>1, SeqEqual
  <2> QED  BY <2>2 DEF Q
<1>4. n \in 0 .. Len(TransitSnapshots)
  BY <1>1, <1>2
<1> QED  BY <1>1, <1>2, <1>3, <1>4 DEF B

\* What ioc_sbuf_synchronize does to the pending range and the snapshot.
LEMMA SynchronizeShape ==
    ASSUME NEW sb, SbufOK(sb), NEW m \in Image,
           ~sb.make_keyframe => Covered(sb, m)
    PROVE  \/ Synchronize(sb, m).pend = sb.pend /\ Synchronize(sb, m).buf = sb.buf
           \/ /\ sb.pend = NoRange /\ Synchronize(sb, m).pend # NoRange
              /\ Synchronize(sb, m).buf = m
<1> DEFINE t == Synchronize(sb, m)
<1>1. sb \in SbufType
  BY DEF SbufOK
<1>2. \/ t = sb
      \/ t = [sb EXCEPT !.changed = NoRange]
      \/ /\ sb.pend = NoRange /\ t.pend # NoRange
         /\ t.changed = NoRange /\ t.make_keyframe = FALSE
  BY DEF Synchronize, MaySynchronize
<1>3. SbufOK(t) /\ (~t.make_keyframe => Covered(t, m))
  BY SynchronizeFacts
<1>4. CASE t = sb \/ t = [sb EXCEPT !.changed = NoRange]
  <2>1. t.pend = sb.pend /\ t.buf = sb.buf
    <3> HIDE DEF t
    <3> QED  BY <1>1, <1>4 DEF SbufType
  <2> QED  BY <2>1
<1>5. CASE sb.pend = NoRange /\ t.pend # NoRange
           /\ t.changed = NoRange /\ t.make_keyframe = FALSE
  <2> HIDE DEF t
  <2>1. t.buf \in Image /\ \A a \in Addr : m[a] = t.buf[a]
    BY <1>3, <1>5, RangeFacts DEF Covered, SbufOK, SbufType
  <2>2. t.buf = m
    BY <2>1 DEF Image
  <2> QED  BY <1>5, <2>2 DEF t
<1> QED  BY <1>2, <1>4, <1>5

LEMMA WriteRef ==
    ASSUME IInv, IInv', NEW r \in AddrRange, NEW v \in [In(r) -> Byte], Write(r, v)
    PROVE  [Channel!ChNext]_(Channel!chVars)
<1>1. smblk' \in Image /\ SbufOK(sbuf)
  BY Restated DEF IInv, TypeOK
<1>2. /\ scon' = scon /\ chan' = chan /\ tmblk' = tmblk /\ tbuf' = tbuf /\ tcon' = tcon
      /\ sbuf' = IF HasBuf(scon) THEN Invalidate(sbuf, smblk', r) ELSE sbuf
  BY DEF Write, tgtVars
<1>3. sbuf'.pend = sbuf.pend /\ sbuf'.buf = sbuf.buf
  BY <1>1, <1>2, InvalidateFacts
<1>4. TransitSnapshots' = TransitSnapshots /\ Rcv' = Rcv
  BY <1>2, <1>3 DEF TransitSnapshots, BeingSent, Rcv
<1> QED  BY <1>1, <1>2, <1>4, ChannelSteps

\* The source takes a snapshot of its block.
LEMMA SnapshotRef ==
    ASSUME IInv, NEW sb, SbufOK(sb), ~sb.make_keyframe => Covered(sb, smblk),
           sbuf' = Synchronize(sb, smblk), scon' = "linked",
           smblk' = smblk, chan' = chan, tmblk' = tmblk, tbuf' = tbuf, tcon' = tcon,
           BeingSent = IF sb.pend # NoRange THEN <<sb.buf>> ELSE <<>>
    PROVE  [Channel!ChNext]_(Channel!chVars)
<1>1. Rcv' = Rcv
  BY DEF Rcv
<1>2. smblk \in Image
  BY DEF IInv, TypeOK
<1>3. CASE sbuf'.pend = sb.pend /\ sbuf'.buf = sb.buf
  <2>1. TransitSnapshots' = TransitSnapshots
    BY <1>3 DEF TransitSnapshots, BeingSent
  <2> QED  BY <1>1, <2>1, ChannelSteps
<1>4. CASE sb.pend = NoRange /\ sbuf'.pend # NoRange /\ sbuf'.buf = smblk
  <2>1. BeingSent = <<>> /\ BeingSent' = <<smblk>>
    BY <1>4 DEF BeingSent
  <2>2. TransitSnapshots = Snapshots(chan) /\ TransitSnapshots' = Snapshots(chan) \o <<smblk>>
    BY <2>1, TransitType DEF TransitSnapshots
  <2>3. TransitSnapshots' = Append(TransitSnapshots, smblk)
    BY <1>2, <2>2, TransitType, AppendIsConcat
  <2> QED  BY <1>1, <2>3, ChannelSteps
<1> QED  BY <1>2, <1>3, <1>4, SynchronizeShape

LEMMA SendRef ==
    ASSUME IInv, Send
    PROVE  [Channel!ChNext]_(Channel!chVars)
<1>1. /\ smblk' = smblk /\ scon' = scon /\ chan' = chan
      /\ tmblk' = tmblk /\ tbuf' = tbuf /\ tcon' = tcon
      /\ sbuf' = Synchronize(sbuf, smblk) /\ HasBuf(scon)
  BY DEF Send, tgtVars
<1>2. CASE scon # "linked"
  <2>1. TransitSnapshots' = TransitSnapshots /\ Rcv' = Rcv
    BY <1>1, <1>2 DEF TransitSnapshots, BeingSent, Rcv
  <2> QED  BY <1>1, <2>1, ChannelSteps
<1>3. CASE scon = "linked"
  <2>1. SbufOK(sbuf) /\ (~sbuf.make_keyframe => Covered(sbuf, smblk))
    BY <1>1, Restated DEF IInv
  <2>2. BeingSent = IF sbuf.pend # NoRange THEN <<sbuf.buf>> ELSE <<>>
    BY <1>3 DEF BeingSent
  <2> QED  BY <1>1, <1>3, <2>1, <2>2, SnapshotRef
<1> QED  BY <1>2, <1>3

LEMMA LinkSourceRef ==
    ASSUME IInv, LinkSource
    PROVE  [Channel!ChNext]_(Channel!chVars)
<1>1. /\ smblk' = smblk /\ scon' = "linked" /\ chan' = chan /\ scon = "open"
      /\ tmblk' = tmblk /\ tbuf' = tbuf /\ tcon' = tcon
      /\ sbuf' = Synchronize(NewSbuf, smblk)
  BY DEF LinkSource, tgtVars
<1>2. SbufOK(NewSbuf) /\ NewSbuf.make_keyframe /\ NewSbuf.pend = NoRange
  BY NewSbufOK DEF NewSbuf
<1>3. BeingSent = IF NewSbuf.pend # NoRange THEN <<NewSbuf.buf>> ELSE <<>>
  BY <1>1, <1>2 DEF BeingSent
<1> QED  BY <1>1, <1>2, <1>3, SnapshotRef

\* The source's end goes down.
LEMMA SourceDownRef ==
    ASSUME IInv, ResetSource \/ CloseSource
    PROVE  [Channel!ChNext]_(Channel!chVars)
<1>1. /\ smblk' = smblk /\ scon' # "linked" /\ chan' = chan
      /\ tmblk' = tmblk /\ tbuf' = tbuf /\ tcon' = tcon
  BY DEF ResetSource, CloseSource, tgtVars
<1>2. TransitSnapshots' = Snapshots(chan) /\ Rcv' = Rcv
  BY <1>1, TransitType DEF TransitSnapshots, BeingSent, Rcv
<1> QED  BY <1>1, <1>2, CutTail, ChannelSteps


\* A frame is sent.  The last one of a snapshot takes it from the source buffer
\* into the stream; when nobody reads the stream, the snapshot is lost with it.
LEMMA MakeDataFrameRef ==
    ASSUME IInv, NEW n \in 1 .. NBytes, MakeDataFrame(n)
    PROVE  [Channel!ChNext]_(Channel!chVars)
<1> DEFINE after == Apply(Wire, Chunk(sbuf, n), sbuf.delta, ~sbuf.is_keyframe)
           f == DataFrame(sbuf, n, after)
<1>1. /\ scon = "linked" /\ sbuf.pend # NoRange
      /\ n \in 1 .. (sbuf.pend.hi - sbuf.pend.lo + 1)
      /\ chan' = IF tcon \in {"open", "linked"} THEN Append(chan, f) ELSE chan
      /\ sbuf' = AfterDataFrame(sbuf, n)
      /\ smblk' = smblk /\ scon' = scon
      /\ tmblk' = tmblk /\ tbuf' = tbuf /\ tcon' = tcon
  BY DEF MakeDataFrame, tgtVars
<1>2. SbufOK(sbuf) /\ Wire \in Image /\ sbuf.buf \in Image /\ sbuf \in SbufType
  BY Restated, WireType DEF IInv, SbufOK, SbufType
<1>3. f \in FrameType /\ f.after = after /\ sbuf'.buf = sbuf.buf
  <2>1. after = AfterChunk(Wire, sbuf, n)
    BY DEF AfterChunk
  <2> HIDE DEF after
  <2> QED  BY <1>1, <1>2, <2>1, DataFrameFacts
<1>4. f.complete = (Rest(sbuf, n) = NoRange) /\ sbuf'.pend = Rest(sbuf, n)
  BY <1>1, <1>2 DEF DataFrame, AfterDataFrame, SbufType
<1>5. Rcv' = Rcv /\ BeingSent = <<sbuf.buf>>
      /\ BeingSent' = IF Rest(sbuf, n) # NoRange THEN <<sbuf.buf>> ELSE <<>>
  BY <1>1, <1>3, <1>4 DEF Rcv, BeingSent
<1>6. /\ chan \in Seq(FrameType) /\ Snapshots(chan) \in Seq(Image)
      /\ Snapshots(chan) \o <<>> = Snapshots(chan)
  BY TransitType
<1>7. CASE tcon \in {"open", "linked"}
  <2>1. chan' = Append(chan, f)
    BY <1>1, <1>7
  <2> HIDE DEF f
  <2>2. CASE Rest(sbuf, n) # NoRange
    <3>1. Snapshots(chan') = Snapshots(chan)
      BY <1>3, <1>4, <1>6, <2>1, <2>2, SnapshotsAppend
    <3>2. TransitSnapshots' = TransitSnapshots
      BY <1>5, <2>2, <3>1 DEF TransitSnapshots
    <3> QED  BY <1>1, <1>5, <3>2, ChannelSteps
  <2>3. CASE Rest(sbuf, n) = NoRange
    <3>1. after = sbuf.buf
      <4>1. In(Chunk(sbuf, n)) = In(sbuf.pend)
        BY <1>1, <1>2, <2>3, ChunkFacts, RangeFacts
      <4>2. Apply(Wire, sbuf.pend, sbuf.delta, ~sbuf.is_keyframe) = sbuf.buf
        BY <1>1, <1>7 DEF IInv, DeltaCoherence
      <4> QED  BY <4>1, <4>2 DEF Apply
    <3>2. Snapshots(chan') = Append(Snapshots(chan), sbuf.buf)
      <4>1. f.after = sbuf.buf
        BY <1>3, <3>1
      <4>2. f.complete
        BY <1>4, <2>3
      <4> QED  BY <1>3, <1>6, <2>1, <4>1, <4>2, SnapshotsAppend
    <3>3. Append(Snapshots(chan), sbuf.buf) = Snapshots(chan) \o <<sbuf.buf>>
          /\ Append(Snapshots(chan), sbuf.buf) \in Seq(Image)
      BY <1>2, <1>6, AppendIsConcat
    <3>4. TransitSnapshots' = Snapshots(chan') \o <<>>
          /\ TransitSnapshots = Snapshots(chan) \o <<sbuf.buf>>
      BY <1>5, <2>3 DEF TransitSnapshots
    <3>5. TransitSnapshots' = TransitSnapshots
      BY <3>2, <3>3, <3>4, ConcatEmptySeq
    <3> QED  BY <1>1, <1>5, <3>5, ChannelSteps
  <2> QED  BY <2>2, <2>3
<1>8. CASE tcon \notin {"open", "linked"}
  <2>1. chan' = chan
    BY <1>1, <1>8
  <2>2. CASE Rest(sbuf, n) # NoRange
    <3>1. TransitSnapshots' = TransitSnapshots
      BY <1>5, <2>1, <2>2 DEF TransitSnapshots
    <3> QED  BY <1>1, <1>5, <3>1, ChannelSteps
  <2>3. CASE Rest(sbuf, n) = NoRange
    <3>1. TransitSnapshots' = Snapshots(chan)
      BY <1>5, <1>6, <2>1, <2>3 DEF TransitSnapshots
    <3> QED  BY <1>1, <1>5, <3>1, CutTail, ChannelSteps
  <2> QED  BY <2>2, <2>3
<1> QED  BY <1>7, <1>8

\* A frame arrives.  The last one of a snapshot publishes it as a whole.
LEMMA ReceiveDataFrameRef ==
    ASSUME IInv, IInv', ReceiveDataFrame
    PROVE  [Channel!ChNext]_(Channel!chVars)
<1> DEFINE f == Head(chan)
<1>1. /\ tcon = "linked" /\ chan # <<>> /\ tbuf' = StoreDataFrame(tbuf, f)
      /\ chan' = Tail(chan) /\ tmblk' = tmblk /\ tcon' = tcon
      /\ smblk' = smblk /\ sbuf' = sbuf /\ scon' = scon
  BY DEF ReceiveDataFrame, srcVars
<1>2. chan \in Seq(FrameType) /\ f = chan[1] /\ f \in FrameType /\ 1 \in 1 .. Len(chan)
      /\ Tail(chan) \in Seq(FrameType)
  BY <1>1, TransitType
<1>3. tbuf \in TbufType /\ tbuf' \in TbufType /\ f.data \in [In(f.range) -> Byte]
  BY <1>2 DEF IInv, TypeOK
<1>4. f.after \in Image /\ f.after = Apply(tbuf.newdata, f.range, f.data, f.delta)
  <2>1. f.after \in Image
    BY <1>2 DEF FrameType
  <2>2. f.after = Apply(Base, f.range, f.data, f.delta)
    BY <1>2 DEF IInv, StreamInv, FramesChain
  <2> QED  BY <1>1, <2>1, <2>2 DEF Base, HasBuf
<1>5. BeingSent' = BeingSent /\ Rcv = tbuf.buf /\ Rcv' = tbuf'.buf
  BY <1>1 DEF BeingSent, Rcv
<1>6. Snapshots(Tail(chan)) \in Seq(Image) /\ BeingSent \in Seq(Image)
  BY <1>2, SnapshotsType, TransitType
<1>7. CASE f.complete
  <2>1. tbuf'.newdata = f.after /\ tbuf'.new = NoRange
    BY <1>1, <1>2, <1>3, <1>4, <1>7, StoreDataFrameFacts
  <2>2. tbuf'.buf = f.after
    <3>1. \A a \in Addr : tbuf'.newdata[a] = tbuf'.buf[a]
      BY <1>1, <2>1, RangeFacts DEF IInv, TargetRangesCover
    <3>2. tbuf'.buf \in Image /\ tbuf'.newdata \in Image
      BY <1>3 DEF TbufType
    <3>3. tbuf'.buf = tbuf'.newdata
      BY <3>1, <3>2 DEF Image
    <3> QED  BY <2>1, <3>3
  <2>3. Snapshots(chan) = <<f.after>> \o Snapshots(Tail(chan))
    BY <1>1, <1>2, <1>7, SnapshotsTail
  <2> DEFINE q == Snapshots(Tail(chan)) \o BeingSent
             x == f.after
  <2>4. TransitSnapshots' = q /\ TransitSnapshots = <<x>> \o q /\ q \in Seq(Image)
    <3>1. TransitSnapshots' = q /\ TransitSnapshots = (<<x>> \o Snapshots(Tail(chan))) \o BeingSent
      BY <1>1, <1>5, <2>3 DEF TransitSnapshots
    <3>2. <<x>> \in Seq(Image)
      BY <1>4
    <3>3. (<<x>> \o Snapshots(Tail(chan))) \o BeingSent = <<x>> \o q
      BY <1>6, <3>2, ConcatAssociative
    <3>4. q \in Seq(Image)
      BY <1>6, ConcatProperties
    <3> QED  BY <3>1, <3>3, <3>4
  <2>5. x \in Image /\ Rcv' = x
    BY <1>4, <1>5, <2>2
  <2> HIDE DEF q, x
  <2>6. <<x>> \o q # <<>> /\ Head(<<x>> \o q) = x /\ Tail(<<x>> \o q) = q
    <3> DEFINE w == <<x>> \o q
    <3>0. <<x>> \in Seq(Image) /\ Len(<<x>>) = 1 /\ <<x>>[1] = x /\ Len(q) \in Nat
      BY <2>4, <2>5
    <3>1. w \in Seq(Image) /\ Len(w) = 1 + Len(q) /\ w[1] = x
          /\ \A i \in 1 .. Len(q) : w[i + 1] = q[i]
      BY <2>4, <3>0, ConcatProperties
    <3> HIDE DEF w
    <3>2. w # <<>> /\ Head(w) = x /\ Tail(w) \in Seq(Image) /\ Len(Tail(w)) = Len(q)
          /\ \A i \in 1 .. Len(q) : Tail(w)[i] = q[i]
      BY <3>0, <3>1
    <3>3. Tail(w) = q
      BY <2>4, <3>0, <3>2, SeqEqual
    <3> QED  BY <3>2, <3>3 DEF w
  <2> QED  BY <1>1, <2>4, <2>5, <2>6, ChannelSteps
<1>8. CASE ~f.complete
  <2>1. tbuf'.buf = tbuf.buf
    BY <1>1, <1>3, <1>8 DEF StoreDataFrame, TbufType
  <2>2. Snapshots(chan) = Snapshots(Tail(chan))
    BY <1>1, <1>2, <1>8, SnapshotsTail
  <2>3. TransitSnapshots' = TransitSnapshots
    BY <1>1, <1>5, <2>2 DEF TransitSnapshots
  <2> QED  BY <1>1, <1>5, <2>1, <2>3, ChannelSteps
<1> QED  BY <1>7, <1>8

LEMMA LinkTargetRef ==
    ASSUME LinkTarget
    PROVE  [Channel!ChNext]_(Channel!chVars)
<1>1. TransitSnapshots' = TransitSnapshots /\ Rcv' = Rcv /\ tmblk' = tmblk /\ smblk' = smblk
  BY DEF LinkTarget, srcVars, TransitSnapshots, BeingSent, Rcv, NewTbuf
<1> QED  BY <1>1, ChannelSteps

\* The target's end goes down.
LEMMA TargetDownRef ==
    ASSUME IInv, IInv', ResetTarget \/ CloseTarget
    PROVE  [Channel!ChNext]_(Channel!chVars)
<1>1. /\ chan' = <<>> /\ tcon' # "linked" /\ tmblk' = tmblk
      /\ smblk' = smblk /\ sbuf' = sbuf /\ scon' = scon
  BY DEF ResetTarget, CloseTarget, srcVars
<1>2. Snapshots(chan') = <<>>
  <2>1. chan' \in Seq(FrameType)
    BY DEF IInv, TypeOK
  <2> QED  BY <1>1, <2>1, SnapshotsType
<1>3. TransitSnapshots' = BeingSent
  <2>1. BeingSent' = BeingSent /\ BeingSent \in Seq(Image)
    BY <1>1, TransitType DEF BeingSent
  <2>2. TransitSnapshots' = <<>> \o BeingSent
    BY <1>2, <2>1 DEF TransitSnapshots
  <2> QED  BY <2>1, <2>2, ConcatEmptySeq
<1>4. Rcv' = tmblk
  BY <1>1 DEF Rcv
<1> QED  BY <1>1, <1>3, <1>4, CutHead, ChannelSteps

\* ioc_receive makes the snapshot that arrived last the value of the block.
LEMMA ReceiveRef ==
    ASSUME RefInv, Receive
    PROVE  [Channel!ChNext]_(Channel!chVars)
<1>1. /\ HasBuf(tcon) /\ tbuf.got # NoRange /\ tmblk' = Copy(tmblk, tbuf.buf, tbuf.got)
      /\ tbuf' = [tbuf EXCEPT !.got = NoRange] /\ tcon' = tcon /\ chan' = chan
      /\ smblk' = smblk /\ sbuf' = sbuf /\ scon' = scon
  BY DEF Receive, srcVars
<1>2. tcon = "linked"
  BY <1>1 DEF RefInv, ResetQuiet, HasBuf
<1>3. tbuf \in TbufType /\ tbuf.buf \in Image /\ tmblk \in Image
  BY DEF RefInv, IInv, TypeOK, TbufType
<1>4. Rcv = tbuf.buf /\ Rcv' = tbuf.buf
  BY <1>1, <1>2, <1>3 DEF Rcv, TbufType
<1>5. tmblk' = tbuf.buf
  <2>1. \A a \in Addr : tmblk[a] # tbuf.buf[a] => a \in In(tbuf.got)
    BY <1>2 DEF RefInv, IInv, TargetRangesCover
  <2>2. Copy(tmblk, tbuf.buf, tbuf.got) = [a \in Addr |-> tbuf.buf[a]]
    BY <2>1 DEF Copy
  <2> QED  BY <1>1, <1>3, <2>2 DEF Image
<1>6. TransitSnapshots' = TransitSnapshots
  BY <1>1 DEF TransitSnapshots, BeingSent
<1> QED  BY <1>1, <1>4, <1>5, <1>6, ChannelSteps

LEMMA ConnectRef ==
    ASSUME IInv, Connect
    PROVE  [Channel!ChNext]_(Channel!chVars)
<1>1. /\ scon = "closed" /\ tcon = "closed" /\ scon' = "open" /\ tcon' = "open"
      /\ chan' = <<>> /\ smblk' = smblk /\ tmblk' = tmblk
  BY DEF Connect
<1>2. chan = <<>>
  BY <1>1 DEF IInv, StreamInv, StreamRead
<1>3. TransitSnapshots' = TransitSnapshots /\ Rcv' = Rcv
  BY <1>1, <1>2 DEF TransitSnapshots, BeingSent, Rcv
<1> QED  BY <1>1, <1>3, ChannelSteps

LEMMA InitRefInv == Init => RefInv
BY InitIInv DEF Init, RefInv, ResetQuiet

LEMMA NextRefInv == RefInv /\ [Next]_vars => RefInv'
<1> SUFFICES ASSUME RefInv, [Next]_vars
             PROVE  ResetQuiet'
  BY NextIInv DEF RefInv
<1>1. tbuf \in TbufType /\ ResetQuiet
  BY DEF RefInv, IInv, TypeOK
<1>2. CASE UNCHANGED vars
  BY <1>1, <1>2 DEF ResetQuiet, vars
<1>3. CASE tcon' # "reset"
  BY <1>3 DEF ResetQuiet
<1>4. CASE tcon' = tcon /\ tbuf' = tbuf
  BY <1>1, <1>4 DEF ResetQuiet
<1>5. CASE ReceiveDataFrame \/ LinkTarget \/ CloseTarget \/ Connect
  BY <1>3, <1>5 DEF ReceiveDataFrame, LinkTarget, CloseTarget, Connect
<1>6. CASE ResetTarget \/ Receive
  BY <1>1, <1>6 DEF ResetTarget, Receive, ResetTbuf, ResetQuiet, TbufType
<1> QED
  BY <1>2, <1>4, <1>5, <1>6
     DEF Next, Write, Send, MakeDataFrame, LinkSource, ResetSource, CloseSource, tgtVars

LEMMA NextRef ==
    ASSUME RefInv, RefInv', [Next]_vars
    PROVE  [Channel!ChNext]_(Channel!chVars)
<1>1. IInv /\ IInv'
  BY DEF RefInv
<1>2. CASE UNCHANGED vars
  <2>1. TransitSnapshots' = TransitSnapshots /\ Rcv' = Rcv /\ tmblk' = tmblk /\ smblk' = smblk
    BY <1>2 DEF vars, TransitSnapshots, BeingSent, Rcv
  <2> QED  BY <2>1, ChannelSteps
<1> QED
  BY <1>1, <1>2, WriteRef, SendRef, MakeDataFrameRef, LinkSourceRef, SourceDownRef,
     ReceiveDataFrameRef, LinkTargetRef, TargetDownRef, ReceiveRef, ConnectRef DEF Next

LEMMA InitRef == Init => Channel!ChInit
<1> SUFFICES ASSUME Init
             PROVE  Channel!ChInit
  OBVIOUS
<1>1. smblk \in Image /\ tmblk \in Image /\ Rcv = tmblk
  BY DEF Init, Rcv
<1>2. TransitSnapshots = <<>>
  <2>1. IInv /\ chan = <<>> /\ BeingSent = <<>>
    BY InitIInv DEF Init, BeingSent
  <2> QED  BY <2>1, TransitType DEF TransitSnapshots
<1> QED  BY <1>1, <1>2 DEF Channel!ChInit, Rcv

\* The buffers, deltas, key frames and range copies implement ordered delivery
\* of whole snapshots, for every block size, byte width and number of frames.
THEOREM ImplementsChannel == Spec => SnapshotsInOrder
<1>1. Spec => []RefInv
  BY InitRefInv, NextRefInv, PTL DEF Spec
<1> QED  BY <1>1, InitRef, NextRef, PTL DEF Spec, SnapshotsInOrder, Channel!ChSpec
============================================================================
