-------------------------- MODULE FrameCodec_proofs --------------------------
(***************************************************************************)
(* Proofs about FrameCodec for every buffer size, longest run, room in a   *)
(* frame and data: what ioc_compress puts into a frame ioc_uncompress      *)
(* takes out of it, and the frames of a snapshot carry exactly its range.  *)
(***************************************************************************)
EXTENDS FrameCodec, TLAPS, WellFoundedInduction, SequenceTheorems

----------------------------------------------------------------------------
(* Loops.                                                                  *)

\* A non-empty set of naturals has a least element.
LEMMA LeastNat ==
    ASSUME NEW S, S \subseteq Nat, S # {}
    PROVE  \E x \in S : \A y \in S : x <= y
<1> DEFINE R == OpToRel(<, Nat)
<1>1. PICK x \in S : \A y \in S : ~(<<y, x>> \in R)
  <2>1. IsWellFoundedOn(R, Nat)
    BY NatLessThanWellFounded
  <2> HIDE DEF R
  <2> QED  BY <2>1, WFMin, Zenon
<1>2. \A y \in S : ~(y < x)
  BY <1>1 DEF OpToRel
<1> HIDE DEF R
<1> QED  BY <1>2

\* What holds of 0 and goes on from each number to the next holds of all.
LEMMA Upwards ==
    ASSUME NEW n \in Nat, NEW S, 0 \in S, \A k \in 1 .. n : k - 1 \in S => k \in S
    PROVE  \A k \in 0 .. n : k \in S
<1> DEFINE B == {k \in 0 .. n : k \notin S}
<1>1. SUFFICES ASSUME B # {} PROVE FALSE
  OBVIOUS
<1>2. B \subseteq Nat
  OBVIOUS
<1>3. PICK k \in B : \A y \in B : k <= y
  <2> HIDE DEF B
  <2> QED  BY <1>1, <1>2, LeastNat
<1>4. k \in 1 .. n /\ k - 1 \in 0 .. n /\ k - 1 \notin B
  BY <1>3
<1> QED  BY <1>3, <1>4

\* f is what the loop with the turn G over V, which stops in S, ends with.
IsLoop(V, S, G, f) == f = [r \in V |-> IF r \in S THEN r ELSE f[G[r]]]

\* m counts the turns down from at most n.
CountsDown(V, S, G, n, m) ==
    /\ m \in [V -> 0 .. n]
    /\ \A r \in V : r \notin S => G[r] \in V /\ m[G[r]] < m[r]

\* A loop every turn of which counts m down has such a function.
LEMMA LoopExists ==
    ASSUME NEW V, NEW S, NEW G, NEW n \in Nat, NEW m, CountsDown(V, S, G, n, m)
    PROVE  \E f \in [V -> V] : IsLoop(V, S, G, f)
<1> DEFINE D(k) == {r \in V : m[r] <= k}
           Ends(k, f) == /\ f \in [D(k) -> V]
                         /\ \A r \in D(k) : f[r] = IF r \in S THEN r ELSE f[G[r]]
           K == {k \in 0 .. n : \E f : Ends(k, f)}
<1>0. \A r \in V : /\ m[r] \in 0 .. n
                   /\ r \notin S => G[r] \in V /\ m[G[r]] \in 0 .. n /\ m[G[r]] < m[r]
  BY DEF CountsDown
<1>1. 0 \in K
  <2>1. \A r \in D(0) : r \in S
    BY <1>0
  <2>2. PICK f : f = [r \in D(0) |-> r]
    OBVIOUS
  <2>3. Ends(0, f)
    BY <2>1, <2>2
  <2> HIDE DEF Ends
  <2> QED  BY <2>3
<1>2. ASSUME NEW k \in 1 .. n, k - 1 \in K
      PROVE  k \in K
  <2>1. PICK f : Ends(k - 1, f)
    BY <1>2
  <2>2. PICK g : g = [r \in D(k) |-> IF r \in S THEN r ELSE f[G[r]]]
    OBVIOUS
  <2>3. ASSUME NEW r \in D(k), r \notin S
        PROVE  G[r] \in D(k - 1) /\ G[r] \in D(k)
    BY <1>0, <2>3
  <2>4. ASSUME NEW r \in D(k - 1)
        PROVE  g[r] = f[r]
    <3>1. r \in D(k)
      BY <1>0, <2>4
    <3>2. g[r] = IF r \in S THEN r ELSE f[G[r]]
      BY <2>2, <3>1
    <3> QED  BY <2>1, <3>2
  <2>5. g \in [D(k) -> V]
    <3>1. ASSUME NEW r \in D(k)
          PROVE  (IF r \in S THEN r ELSE f[G[r]]) \in V
      BY <2>1, <2>3, <3>1
    <3> QED  BY <2>2, <3>1
  <2>6. ASSUME NEW r \in D(k)
        PROVE  g[r] = IF r \in S THEN r ELSE g[G[r]]
    <3>1. g[r] = IF r \in S THEN r ELSE f[G[r]]
      BY <2>2
    <3>2. r \notin S => g[G[r]] = f[G[r]]
      BY <2>3, <2>4
    <3> QED  BY <3>1, <3>2
  <2>7. Ends(k, g)
    BY <2>5, <2>6
  <2> HIDE DEF Ends
  <2> QED  BY <2>7
<1>3. \A k \in 0 .. n : k \in K
  <2> HIDE DEF K
  <2> QED  BY <1>1, <1>2, Upwards
<1>4. PICK f : Ends(n, f)
  <2> HIDE DEF Ends
  <2>1. n \in K
    <3> HIDE DEF K
    <3> QED  BY <1>3
  <2> QED  BY <2>1
<1>5. D(n) = V
  BY <1>0
<1>6. f \in [V -> V] /\ \A r \in V : f[r] = IF r \in S THEN r ELSE f[G[r]]
  BY <1>4, <1>5
<1>7. f = [r \in V |-> IF r \in S THEN r ELSE f[G[r]]]
  <2>1. PICK g : g = [r \in V |-> IF r \in S THEN r ELSE f[G[r]]]
    OBVIOUS
  <2> QED  BY <1>6, <2>1
<1> QED  BY <1>6, <1>7 DEF IsLoop

\* What such a function ends with is in V.
EndsIn(V, S, G, f) ==
    /\ \A r \in V : f[r] \in V
    /\ \A r \in V : r \in S => f[r] = r
    /\ \A r \in V : r \notin S => f[r] = f[G[r]]

LEMMA LoopTyped ==
    ASSUME NEW V, NEW S, NEW G, NEW n \in Nat, NEW m, CountsDown(V, S, G, n, m),
           NEW f, IsLoop(V, S, G, f)
    PROVE  EndsIn(V, S, G, f)
<1> DEFINE K == {k \in 0 .. n : \A r \in V : m[r] <= k => f[r] \in V}
<1>0. \A r \in V : /\ m[r] \in 0 .. n
                   /\ r \notin S => G[r] \in V /\ m[G[r]] \in 0 .. n /\ m[G[r]] < m[r]
  BY DEF CountsDown
<1>1. \A r \in V : f[r] = IF r \in S THEN r ELSE f[G[r]]
  BY DEF IsLoop
<1>2. 0 \in K
  <2>1. ASSUME NEW r \in V, m[r] <= 0
        PROVE  f[r] \in V
    <3>1. r \in S
      BY <1>0, <2>1
    <3> QED  BY <1>1, <3>1
  <2> QED  BY <2>1
<1>3. ASSUME NEW k \in 1 .. n, k - 1 \in K
      PROVE  k \in K
  <2>1. ASSUME NEW r \in V, m[r] <= k
        PROVE  f[r] \in V
    <3>1. CASE r \in S
      BY <1>1, <3>1
    <3>2. CASE r \notin S
      <4>1. G[r] \in V /\ m[G[r]] <= k - 1
        BY <1>0, <2>1, <3>2
      <4>2. f[G[r]] \in V
        BY <1>3, <4>1
      <4> QED  BY <1>1, <3>2, <4>2
    <3> QED  BY <3>1, <3>2
  <2> QED  BY <2>1
<1>4. \A k \in 0 .. n : k \in K
  <2> HIDE DEF K
  <2> QED  BY <1>2, <1>3, Upwards
<1>5. \A r \in V : f[r] \in V
  <2>1. n \in K
    <3> HIDE DEF K
    <3> QED  BY <1>4
  <2> QED  BY <1>0, <2>1
<1> QED  BY <1>1, <1>5 DEF EndsIn

\* What holds where it stops and goes back over every turn holds of all.
LEMMA LoopInduction ==
    ASSUME NEW V, NEW S, NEW G, NEW n \in Nat, NEW m, CountsDown(V, S, G, n, m),
           NEW P, \A r \in V : r \in S => r \in P,
           \A r \in V : r \notin S /\ G[r] \in P => r \in P
    PROVE  \A r \in V : r \in P
<1> DEFINE K == {k \in 0 .. n : \A r \in V : m[r] <= k => r \in P}
<1>0. \A r \in V : /\ m[r] \in 0 .. n
                   /\ r \notin S => G[r] \in V /\ m[G[r]] \in 0 .. n /\ m[G[r]] < m[r]
  BY DEF CountsDown
<1>1. 0 \in K
  <2>1. ASSUME NEW r \in V, m[r] <= 0
        PROVE  r \in P
    <3>1. r \in S
      BY <1>0, <2>1
    <3> QED  BY <3>1
  <2> QED  BY <2>1
<1>2. ASSUME NEW k \in 1 .. n, k - 1 \in K
      PROVE  k \in K
  <2>1. ASSUME NEW r \in V, m[r] <= k, r \notin S
        PROVE  r \in P
    <3>1. G[r] \in V /\ m[G[r]] <= k - 1
      BY <1>0, <2>1
    <3>2. G[r] \in P
      BY <1>2, <3>1
    <3> QED  BY <2>1, <3>2
  <2> QED  BY <2>1
<1>3. \A k \in 0 .. n : k \in K
  <2> HIDE DEF K
  <2> QED  BY <1>1, <1>2, Upwards
<1>4. n \in K
  <2> HIDE DEF K
  <2> QED  BY <1>3
<1> QED  BY <1>0, <1>4

----------------------------------------------------------------------------
(* The pieces of a frame.                                                  *)

\* A count up to the longest run fits into its byte.
LEMMA CountFits ==
    ASSUME NEW n \in 0 .. MaxRun
    PROVE  n % (MaxRun + 1) = n
<1>1. MaxRun + 1 \in Nat /\ 0 <= n /\ n < MaxRun + 1
  BY CodecAssumption
<1> QED  BY <1>1

LEMMA AtMostFacts ==
    ASSUME NEW x \in Nat, NEW limit \in Nat
    PROVE  /\ AtMost(x, limit) \in Nat /\ AtMost(x, limit) <= x /\ AtMost(x, limit) <= limit
           /\ x # 0 /\ limit # 0 => AtMost(x, limit) # 0
BY DEF AtMost

LEMMA MinFacts ==
    ASSUME NEW S, S \subseteq Nat, S # {}
    PROVE  Min(S) \in S /\ \A y \in S : Min(S) <= y
<1>1. \E x \in S : \A y \in S : x <= y
  BY LeastNat
<1> QED  BY <1>1 DEF Min

\* A literal run is not longer than what is left, and has a zero byte after
\* it when it is empty.
LEMMA LiteralRunFacts ==
    ASSUME NEW buf, NEW p \in Nat, NEW n \in Nat, n # 0
    PROVE  /\ LiteralRun(buf, p, n) \in Nat
           /\ LiteralRun(buf, p, n) <= n /\ LiteralRun(buf, p, n) <= MaxRun
           /\ LiteralRun(buf, p, n) = 0 => buf[p] = 0
<1>1. PICK max \in Nat : max = AtMost(n, MaxRun) /\ max <= n /\ max <= MaxRun /\ max # 0
  BY AtMostFacts, CodecAssumption
<1>2. PICK S : S = {c \in 0 .. max :
                      c = max \/ (buf[p + c] = 0 /\ (c = max - 1 \/ buf[p + c + 1] = 0))}
  OBVIOUS
<1>3. S \subseteq Nat /\ max \in S
  BY <1>2
<1>4. PICK c : c = Min(S) /\ c \in S
  BY <1>3, MinFacts
<1>5. LiteralRun(buf, p, n) = c
  BY <1>1, <1>2, <1>4 DEF LiteralRun
<1>6. c \in 0 .. max /\ (c = max \/ buf[p + c] = 0)
  BY <1>2, <1>4
<1>7. ASSUME c = 0
      PROVE  buf[p] = 0
  <2>1. p + c = p
    BY <1>7
  <2>2. buf[p + c] = 0
    BY <1>1, <1>6, <1>7
  <2> QED  BY <2>1, <2>2
<1>8. MaxRun \in Nat
  BY CodecAssumption
<1>9. c \in Nat /\ c <= n /\ c <= MaxRun
  BY <1>1, <1>6, <1>8
<1> QED  BY <1>5, <1>7, <1>9

\* A zero run is zero bytes, and not empty where there is one.
LEMMA ZeroRunFacts ==
    ASSUME NEW buf, NEW p \in Nat, NEW n \in Nat
    PROVE  /\ ZeroRun(buf, p, n) \in Nat
           /\ ZeroRun(buf, p, n) <= n /\ ZeroRun(buf, p, n) <= MaxRun
           /\ \A i \in 0 .. ZeroRun(buf, p, n) - 1 : buf[p + i] = 0
           /\ n # 0 /\ buf[p] = 0 => ZeroRun(buf, p, n) # 0
<1>1. PICK max \in Nat : max = AtMost(n, MaxRun) /\ max <= n /\ max <= MaxRun /\ (n # 0 => max # 0)
  BY AtMostFacts, CodecAssumption
<1>2. PICK S : S = {c \in 0 .. max : c = max \/ buf[p + c] # 0}
  OBVIOUS
<1>3. S \subseteq Nat /\ max \in S
  BY <1>2
<1>4. PICK z : z = Min(S) /\ z \in S /\ \A y \in S : z <= y
  BY <1>3, MinFacts
<1>5. ZeroRun(buf, p, n) = z
  BY <1>1, <1>2, <1>4 DEF ZeroRun
<1>6. z \in 0 .. max /\ (z = max \/ buf[p + z] # 0)
  BY <1>2, <1>4
<1>7. ASSUME NEW i \in 0 .. z - 1
      PROVE  buf[p + i] = 0
  <2>1. i \in 0 .. max /\ i # max /\ ~(z <= i)
    BY <1>6
  <2>2. i \notin S
    BY <1>4, <2>1
  <2> QED  BY <1>2, <2>1, <2>2
<1>8. ASSUME n # 0, buf[p] = 0
      PROVE  z # 0
  <2>1. SUFFICES ASSUME z = 0 PROVE FALSE
    OBVIOUS
  <2>2. p + z = p
    BY <2>1
  <2>3. buf[p + z] # 0
    BY <1>1, <1>6, <1>8, <2>1
  <2> QED  BY <1>8, <2>2, <2>3
<1>9. MaxRun \in Nat
  BY CodecAssumption
<1>10. z \in Nat /\ z <= n /\ z <= MaxRun
  BY <1>1, <1>6, <1>9
<1> QED  BY <1>5, <1>7, <1>8, <1>10

LEMMA Associative ==
    ASSUME NEW a \in Seq(Nat), NEW b \in Seq(Nat), NEW c \in Seq(Nat)
    PROVE  (a \o b) \o c = a \o (b \o c)
OBVIOUS

\* Consecutive bytes of a buffer.
LEMMA BytesFacts ==
    ASSUME NEW buf, NEW a \in Nat, NEW n \in Nat, \A b \in a .. a + n - 1 : buf[b] \in Nat
    PROVE  /\ Bytes(buf, a, n) \in Seq(Nat) /\ Len(Bytes(buf, a, n)) = n
           /\ \A i \in 1 .. n : Bytes(buf, a, n)[i] = buf[a + i - 1]
<1>1. \A i \in 1 .. n : buf[a + i - 1] \in Nat
  OBVIOUS
<1>2. PICK q : q = [i \in 1 .. n |-> buf[a + i - 1]]
  OBVIOUS
<1>3. q \in [1 .. n -> Nat]
  BY <1>1, <1>2
<1>4. q \in Seq(Nat) /\ Len(q) = n
  BY <1>3
<1> QED  BY <1>2, <1>4 DEF Bytes

Joined(buf, a, n, z) == Bytes(buf, a, n) \o Bytes(buf, a + n, z) = Bytes(buf, a, n + z)

LEMMA BytesJoin ==
    ASSUME NEW buf, NEW a \in Nat, NEW n \in Nat, NEW z \in Nat,
           \A b \in a .. a + n + z - 1 : buf[b] \in Nat
    PROVE  Joined(buf, a, n, z)
<1>1. PICK x, y, w : x = Bytes(buf, a, n) /\ y = Bytes(buf, a + n, z) /\ w = Bytes(buf, a, n + z)
  OBVIOUS
<1>2. x \in Seq(Nat) /\ Len(x) = n /\ \A i \in 1 .. n : x[i] = buf[a + i - 1]
  <2>1. \A b \in a .. a + n - 1 : buf[b] \in Nat
    OBVIOUS
  <2> QED  BY <1>1, <2>1, BytesFacts
<1>3. y \in Seq(Nat) /\ Len(y) = z /\ \A i \in 1 .. z : y[i] = buf[(a + n) + i - 1]
  <2>1. PICK c \in Nat : c = a + n
    OBVIOUS
  <2>2. \A b \in c .. c + z - 1 : buf[b] \in Nat
    BY <2>1
  <2> QED  BY <1>1, <2>1, <2>2, BytesFacts
<1>4. w \in Seq(Nat) /\ Len(w) = n + z /\ \A i \in 1 .. n + z : w[i] = buf[a + i - 1]
  <2>1. PICK c \in Nat : c = n + z
    OBVIOUS
  <2>2. \A b \in a .. a + c - 1 : buf[b] \in Nat
    BY <2>1
  <2> QED  BY <1>1, <2>1, <2>2, BytesFacts
<1>5. /\ x \o y \in Seq(Nat) /\ Len(x \o y) = n + z
      /\ \A i \in 1 .. n + z : (x \o y)[i] = IF i <= n THEN x[i] ELSE y[i - n]
  <2>1. /\ x \o y \in Seq(Nat) /\ Len(x \o y) = Len(x) + Len(y)
        /\ \A i \in 1 .. Len(x) + Len(y) : (x \o y)[i] = IF i <= Len(x) THEN x[i] ELSE y[i - Len(x)]
    BY <1>2, <1>3, ConcatProperties
  <2>2. Len(x) = n /\ Len(y) = z
    BY <1>2, <1>3
  <2> QED  BY <2>1, <2>2
<1>6. ASSUME NEW i \in 1 .. n + z
      PROVE  (x \o y)[i] = w[i]
  <2>0. (x \o y)[i] = IF i <= n THEN x[i] ELSE y[i - n]
    BY <1>5
  <2>1. CASE i <= n
    <3>1. i \in 1 .. n
      BY <2>1
    <3>2. (x \o y)[i] = x[i]
      BY <2>0, <2>1
    <3> QED  BY <1>2, <1>4, <3>1, <3>2
  <2>2. CASE ~(i <= n)
    <3>1. PICK j \in 1 .. z : j = i - n
      BY <2>2
    <3>2. (a + n) + j - 1 = a + i - 1
      BY <3>1
    <3>3. (x \o y)[i] = y[j]
      BY <2>0, <2>2, <3>1
    <3>4. y[j] = buf[(a + n) + j - 1]
      BY <1>3
    <3>5. w[i] = buf[a + i - 1]
      BY <1>4
    <3> QED  BY <3>2, <3>3, <3>4, <3>5
  <2> QED  BY <2>1, <2>2
<1>7. x \o y = w
  BY <1>4, <1>5, <1>6, SeqEqual
<1> QED  BY <1>1, <1>7 DEF Joined

LEMMA ZerosAre ==
    ASSUME NEW buf, NEW a \in Nat, NEW z \in Nat, \A i \in 0 .. z - 1 : buf[a + i] = 0
    PROVE  Zeros(z) = Bytes(buf, a, z) /\ Zeros(z) \in Seq(Nat)
<1>1. \A i \in 1 .. z : buf[a + i - 1] = 0
  <2>1. ASSUME NEW i \in 1 .. z
        PROVE  buf[a + i - 1] = 0
    <3>1. i - 1 \in 0 .. z - 1 /\ a + (i - 1) = a + i - 1
      OBVIOUS
    <3> QED  BY <3>1
  <2> QED  BY <2>1
<1>2. [i \in 1 .. z |-> 0] \in Seq(Nat)
  OBVIOUS
<1> QED  BY <1>1, <1>2 DEF Zeros, Bytes

----------------------------------------------------------------------------
(* ioc_compress.                                                           *)

\* Bytes s .. e of a buffer, or none of it.
InBuf(buf, s, e) ==
    buf \in [Addr -> Byte] /\ s \in Nat /\ e \in Nat /\ s <= e + 1 /\ e < NBytes

Loop(s, e) == [next : s .. e + 1, dst : Seq(Nat), done : BOOLEAN]

Over(r, e) == r.done \/ r.next > e

\* x begins with y.
Begins(y, x) == Len(y) <= Len(x) /\ \A i \in 1 .. Len(y) : x[i] = y[i]

\* The count n and n bytes stored after r.dst.
Literals(buf, r, n) == Append(r.dst, n) \o Bytes(buf, r.next, n)

\* The ways a turn goes: no room, no room or need for the zero run, both.
TurnMade(buf, e, sz, r, t) ==
    \/ t = [r EXCEPT !.done = TRUE]
    \/ \E n \in Nat :
          /\ r.next + n <= e + 1 /\ Len(Literals(buf, r, n)) <= sz
          /\ t = [next |-> r.next + n, dst |-> Literals(buf, r, n), done |-> TRUE]
    \/ \E n \in Nat, z \in Nat :
          /\ r.next + n + z <= e + 1 /\ n + z # 0 /\ Len(Literals(buf, r, n)) < sz
          /\ \A i \in 0 .. z - 1 : buf[r.next + n + i] = 0
          /\ t = [next |-> r.next + n + z, dst |-> Append(Literals(buf, r, n), z), done |-> FALSE]

LEMMA InBufFacts ==
    ASSUME NEW buf, NEW s, NEW e, InBuf(buf, s, e)
    PROVE  /\ s \in Nat /\ e \in Nat /\ NBytes \in Nat
           /\ \A b \in s .. e : b \in Addr /\ buf[b] \in Byte /\ buf[b] \in Nat
<1>1. \A b \in s .. e : b \in Addr
  BY CodecAssumption DEF InBuf, Addr
<1>2. \A b \in Addr : buf[b] \in Byte
  BY DEF InBuf
<1>3. \A x \in Byte : x \in Nat
  BY CodecAssumption DEF Byte
<1> QED  BY <1>1, <1>2, <1>3, CodecAssumption DEF InBuf

LEMMA LoopFacts ==
    ASSUME NEW s \in Nat, NEW e \in Nat, NEW r \in Loop(s, e)
    PROVE  /\ r.next \in Nat /\ s <= r.next /\ r.next <= e + 1
           /\ r.dst \in Seq(Nat) /\ Len(r.dst) \in Nat /\ r.done \in BOOLEAN
           /\ r = [next |-> r.next, dst |-> r.dst, done |-> r.done]
BY DEF Loop

\* x holds them.
Stored(buf, r, n, x) ==
    /\ x[Len(r.dst) + 1] = n
    /\ \A j \in 1 .. n : x[Len(r.dst) + 1 + j] = buf[r.next + j - 1]

LEMMA LiteralsFacts ==
    ASSUME NEW buf, NEW s, NEW e, InBuf(buf, s, e), NEW r \in Loop(s, e), NEW n \in Nat,
           r.next + n <= e + 1
    PROVE  /\ Literals(buf, r, n) \in Seq(Nat) /\ Len(Literals(buf, r, n)) = Len(r.dst) + 1 + n
           /\ Begins(r.dst, Literals(buf, r, n))
           /\ Stored(buf, r, n, Literals(buf, r, n))
<1>1. PICK p \in Nat, d \in Seq(Nat) : p = r.next /\ d = r.dst /\ s <= p /\ p + n <= e + 1
  BY InBufFacts, LoopFacts
<1>2. PICK y : y = Bytes(buf, p, n)
  OBVIOUS
<1>3. y \in Seq(Nat) /\ Len(y) = n /\ \A i \in 1 .. n : y[i] = buf[p + i - 1]
  <2>1. \A b \in p .. p + n - 1 : buf[b] \in Nat
    <3>1. \A b \in p .. p + n - 1 : b \in s .. e
      BY <1>1, InBufFacts
    <3> QED  BY <3>1, InBufFacts
  <2> QED  BY <1>2, <2>1, BytesFacts
<1>4. PICK a : a = Append(d, n)
  OBVIOUS
<1>5. /\ a \in Seq(Nat) /\ Len(a) = Len(d) + 1 /\ Len(d) \in Nat
      /\ a[Len(d) + 1] = n /\ \A i \in 1 .. Len(d) : a[i] = d[i]
  BY <1>4
<1>6. PICK x : x = a \o y
  OBVIOUS
<1>7. /\ x \in Seq(Nat) /\ Len(x) = Len(d) + 1 + n
      /\ \A i \in 1 .. Len(d) + 1 + n : x[i] = IF i <= Len(d) + 1 THEN a[i] ELSE y[i - (Len(d) + 1)]
  <2>1. /\ a \o y \in Seq(Nat) /\ Len(a \o y) = Len(a) + Len(y)
        /\ \A i \in 1 .. Len(a) + Len(y) : (a \o y)[i] = IF i <= Len(a) THEN a[i] ELSE y[i - Len(a)]
    BY <1>3, <1>5, ConcatProperties
  <2>2. Len(a) = Len(d) + 1 /\ Len(a) + Len(y) = Len(d) + 1 + n
    BY <1>3, <1>5
  <2> QED  BY <1>6, <2>1, <2>2
<1>8. Begins(d, x) /\ x[Len(d) + 1] = n
  <2>1. \A i \in 1 .. Len(d) : i \in 1 .. Len(d) + 1 + n /\ i <= Len(d) + 1
    BY <1>5
  <2>2. Len(d) + 1 \in 1 .. Len(d) + 1 + n /\ Len(d) <= Len(d) + 1 + n
    BY <1>5
  <2> QED  BY <1>5, <1>7, <2>1, <2>2 DEF Begins
<1>9. ASSUME NEW j \in 1 .. n
      PROVE  x[Len(d) + 1 + j] = buf[p + j - 1]
  <2>1. PICK i \in 1 .. Len(d) + 1 + n : i = Len(d) + 1 + j /\ ~(i <= Len(d) + 1) /\ i - (Len(d) + 1) = j
    BY <1>5
  <2>2. x[i] = y[j]
    BY <1>7, <2>1
  <2> QED  BY <1>3, <2>1, <2>2
<1>10. x = Literals(buf, r, n)
  BY <1>1, <1>2, <1>4, <1>6 DEF Literals
<1>11. Stored(buf, r, n, x)
  BY <1>1, <1>8, <1>9 DEF Stored
<1> QED  BY <1>1, <1>7, <1>8, <1>10, <1>11

LEMMA TurnIsMade ==
    ASSUME NEW buf, NEW s, NEW e, InBuf(buf, s, e), NEW sz \in Nat, NEW r \in Loop(s, e), ~Over(r, e)
    PROVE  TurnMade(buf, e, sz, r, Turn(buf, e, sz, r))
<1>0. /\ s \in Nat /\ e \in Nat /\ r.next \in Nat /\ s <= r.next /\ r.next <= e
      /\ Len(r.dst) \in Nat
  BY InBufFacts, LoopFacts DEF Over
<1>n. PICK n \in Nat : /\ n = LiteralRun(buf, r.next, e - r.next + 1)
                       /\ n <= e - r.next + 1 /\ n <= MaxRun /\ (n = 0 => buf[r.next] = 0)
  <2>1. PICK k \in Nat, q \in Nat : k = e - r.next + 1 /\ k # 0 /\ q = r.next
    BY <1>0
  <2>2. PICK n \in Nat : n = LiteralRun(buf, q, k)
    BY <2>1, LiteralRunFacts
  <2>3. n <= k /\ n <= MaxRun /\ (n = 0 => buf[q] = 0)
    BY <2>1, <2>2, LiteralRunFacts
  <2> QED  BY <2>1, <2>2, <2>3
<1>p. PICK p \in Nat : p = r.next + n /\ p <= e + 1
  BY <1>0, <1>n
<1>l. n % (MaxRun + 1) = n /\ Len(Literals(buf, r, n)) = Len(r.dst) + 1 + n
  <2>1. n \in 0 .. MaxRun
    BY <1>n, CodecAssumption
  <2> QED  BY <1>p, <2>1, CountFits, LiteralsFacts
<1>x. PICK x : x = Literals(buf, r, n)
  OBVIOUS
<1>t. Turn(buf, e, sz, r) =
        IF Len(r.dst) + n >= sz THEN [r EXCEPT !.done = TRUE]
        ELSE IF p > e \/ Len(x) >= sz THEN [next |-> p, dst |-> x, done |-> TRUE]
        ELSE [next |-> p + ZeroRun(buf, p, e - p + 1),
              dst |-> Append(x, ZeroRun(buf, p, e - p + 1) % (MaxRun + 1)), done |-> FALSE]
  BY <1>n, <1>p, <1>l, <1>x DEF Turn, Literals
<1>1. CASE Len(r.dst) + n >= sz
  BY <1>1, <1>t DEF TurnMade
<1>2. CASE ~(Len(r.dst) + n >= sz) /\ (p > e \/ Len(x) >= sz)
  <2>1. Turn(buf, e, sz, r) = [next |-> r.next + n, dst |-> Literals(buf, r, n), done |-> TRUE]
    BY <1>2, <1>p, <1>t, <1>x
  <2>2. r.next + n <= e + 1 /\ Len(Literals(buf, r, n)) <= sz
    BY <1>0, <1>2, <1>l, <1>p
  <2> QED  BY <2>1, <2>2 DEF TurnMade
<1>3. CASE ~(Len(r.dst) + n >= sz) /\ ~(p > e \/ Len(x) >= sz)
  <2>z. PICK z \in Nat : /\ z = ZeroRun(buf, p, e - p + 1) /\ z <= e - p + 1 /\ z <= MaxRun
                         /\ \A i \in 0 .. z - 1 : buf[p + i] = 0
                         /\ buf[p] = 0 => z # 0
    <3>1. PICK k \in Nat : k = e - p + 1 /\ k # 0
      BY <1>0, <1>3
    <3>2. PICK z \in Nat : z = ZeroRun(buf, p, k)
      BY ZeroRunFacts
    <3>3. /\ z <= k /\ z <= MaxRun /\ (\A i \in 0 .. z - 1 : buf[p + i] = 0)
          /\ k # 0 /\ buf[p] = 0 => z # 0
      BY <3>2, ZeroRunFacts
    <3> QED  BY <3>1, <3>2, <3>3
  <2>1. z % (MaxRun + 1) = z
    <3>1. z \in 0 .. MaxRun
      BY <2>z, CodecAssumption
    <3> QED  BY <3>1, CountFits
  <2>2. n + z # 0
    <3>1. CASE n = 0
      <4>1. p = r.next
        BY <1>0, <1>p, <3>1
      <4> QED  BY <1>n, <2>z, <3>1, <4>1
    <3>2. CASE n # 0
      BY <3>2
    <3> QED  BY <3>1, <3>2
  <2>3. Turn(buf, e, sz, r) =
           [next |-> r.next + n + z, dst |-> Append(Literals(buf, r, n), z), done |-> FALSE]
    <3>1. Turn(buf, e, sz, r) = [next |-> p + ZeroRun(buf, p, e - p + 1),
                                 dst |-> Append(x, ZeroRun(buf, p, e - p + 1) % (MaxRun + 1)),
                                 done |-> FALSE]
      BY <1>3, <1>t
    <3>2. Turn(buf, e, sz, r) = [next |-> p + z, dst |-> Append(x, z), done |-> FALSE]
      BY <2>1, <2>z, <3>1
    <3>3. Append(x, z) = Append(Literals(buf, r, n), z)
      BY <1>x
    <3>4. p + z = r.next + n + z
      BY <1>p
    <3> QED  BY <3>2, <3>3, <3>4
  <2>4. r.next + n + z <= e + 1 /\ Len(Literals(buf, r, n)) < sz
    <3>1. p + z <= e + 1 /\ r.next + n + z = p + z
      BY <1>0, <1>p, <2>z
    <3>2. Len(x) < sz
      <4>1. Len(x) \in Nat
        BY <1>0, <1>l, <1>x
      <4> QED  BY <1>3, <4>1
    <3> QED  BY <1>x, <3>1, <3>2
  <2>5. \A i \in 0 .. z - 1 : buf[r.next + n + i] = 0
    BY <1>p, <2>z
  <2> QED  BY <2>2, <2>3, <2>4, <2>5 DEF TurnMade
<1> QED  BY <1>1, <1>2, <1>3

\* A turn stays in the loop and stores more or ends it.
LEMMA TurnFacts ==
    ASSUME NEW buf, NEW s, NEW e, InBuf(buf, s, e), NEW sz \in Nat, NEW r \in Loop(s, e), ~Over(r, e),
           NEW t, t = Turn(buf, e, sz, r)
    PROVE  /\ t \in Loop(s, e) /\ (t.done \/ t.next > r.next) /\ t.next >= r.next
           /\ Begins(r.dst, t.dst) /\ (Len(r.dst) <= sz => Len(t.dst) <= sz)
<1>0. /\ s \in Nat /\ e \in Nat /\ r.next \in Nat /\ s <= r.next /\ r.next <= e
      /\ r.dst \in Seq(Nat) /\ Len(r.dst) \in Nat
      /\ r = [next |-> r.next, dst |-> r.dst, done |-> r.done]
  BY InBufFacts, LoopFacts DEF Over
<1>1. TurnMade(buf, e, sz, r, t)
  BY TurnIsMade
<1>2. CASE t = [r EXCEPT !.done = TRUE]
  <2>1. t = [next |-> r.next, dst |-> r.dst, done |-> TRUE]
    BY <1>0, <1>2
  <2>2. Begins(r.dst, r.dst)
    BY <1>0 DEF Begins
  <2> QED  BY <1>0, <2>1, <2>2 DEF Loop
<1>3. ASSUME NEW n \in Nat, r.next + n <= e + 1, Len(Literals(buf, r, n)) <= sz,
             t = [next |-> r.next + n, dst |-> Literals(buf, r, n), done |-> TRUE]
      PROVE  /\ t \in Loop(s, e) /\ (t.done \/ t.next > r.next) /\ t.next >= r.next
             /\ Begins(r.dst, t.dst) /\ (Len(r.dst) <= sz => Len(t.dst) <= sz)
  <2>1. PICK x : x = Literals(buf, r, n) /\ x \in Seq(Nat) /\ Begins(r.dst, x)
    BY <1>3, LiteralsFacts
  <2>2. r.next + n \in s .. e + 1
    BY <1>0, <1>3
  <2> QED  BY <1>0, <1>3, <2>1, <2>2 DEF Loop
<1>4. ASSUME NEW n \in Nat, NEW z \in Nat, r.next + n + z <= e + 1, n + z # 0,
             Len(Literals(buf, r, n)) < sz,
             t = [next |-> r.next + n + z, dst |-> Append(Literals(buf, r, n), z), done |-> FALSE]
      PROVE  /\ t \in Loop(s, e) /\ (t.done \/ t.next > r.next) /\ t.next >= r.next
             /\ Begins(r.dst, t.dst) /\ (Len(r.dst) <= sz => Len(t.dst) <= sz)
  <2>1. PICK x : x = Literals(buf, r, n) /\ x \in Seq(Nat) /\ Begins(r.dst, x)
    <3>1. r.next + n <= e + 1
      BY <1>0, <1>4
    <3> QED  BY <3>1, LiteralsFacts
  <2>2. r.next + n + z \in s .. e + 1 /\ r.next + n + z > r.next
    BY <1>0, <1>4
  <2>3. PICK y : y = Append(x, z)
    OBVIOUS
  <2>4. /\ y \in Seq(Nat) /\ Len(y) = Len(x) + 1 /\ Len(x) \in Nat
        /\ \A i \in 1 .. Len(x) : y[i] = x[i]
    BY <2>1, <2>3
  <2>5. Begins(r.dst, y)
    <3>1. PICK d : d = r.dst /\ Len(d) \in Nat
      BY <1>0
    <3>2. Len(d) <= Len(x) /\ \A i \in 1 .. Len(d) : x[i] = d[i]
      BY <2>1, <3>1 DEF Begins
    <3>3. \A i \in 1 .. Len(d) : i \in 1 .. Len(x)
      BY <2>4, <3>1, <3>2
    <3>4. Len(d) <= Len(y) /\ \A i \in 1 .. Len(d) : y[i] = d[i]
      BY <2>4, <3>1, <3>2, <3>3
    <3> QED  BY <3>1, <3>4 DEF Begins
  <2>6. Len(y) <= sz
    BY <1>4, <2>1, <2>4
  <2> QED  BY <1>0, <1>4, <2>1, <2>2, <2>3, <2>4, <2>5, <2>6 DEF Loop
<1> QED  BY <1>1, <1>2, <1>3, <1>4 DEF TurnMade

\* Every turn takes a byte or ends the loop.
LEMMA TurnsCountDown ==
    ASSUME NEW buf, NEW s, NEW e, InBuf(buf, s, e), NEW sz \in Nat, NEW V, V = Loop(s, e),
           NEW S, S = {r \in V : Over(r, e)}, NEW G, G = [r \in V |-> Turn(buf, e, sz, r)]
    PROVE  \E n, m : n \in Nat /\ CountsDown(V, S, G, n, m)
<1>n. PICK n \in Nat : n = e - s + 2
  BY InBufFacts DEF InBuf
<1>m. PICK m : m = [r \in V |-> (e + 1 - r.next) + (IF r.done THEN 0 ELSE 1)]
  OBVIOUS
<1>0. /\ s \in Nat /\ e \in Nat
      /\ \A r \in V : r.next \in Nat /\ s <= r.next /\ r.next <= e + 1 /\ r.done \in BOOLEAN
  BY InBufFacts, LoopFacts
<1>1. m \in [V -> 0 .. n]
  <2>1. \A r \in V : (e + 1 - r.next) + (IF r.done THEN 0 ELSE 1) \in 0 .. n
    BY <1>0, <1>n
  <2> QED  BY <1>m, <2>1
<1>2. ASSUME NEW r \in V, r \notin S
      PROVE  G[r] \in V /\ m[G[r]] < m[r]
  <2>1. PICK t : t = Turn(buf, e, sz, r) /\ t = G[r]
    OBVIOUS
  <2>2. ~Over(r, e)
    BY <1>2
  <2>3. t \in V /\ (t.done \/ t.next > r.next) /\ t.next >= r.next
    BY <2>1, <2>2, TurnFacts
  <2>4. m[r] = (e + 1 - r.next) + 1
    BY <1>m, <2>2 DEF Over
  <2>5. m[t] = (e + 1 - t.next) + (IF t.done THEN 0 ELSE 1)
    BY <1>m, <2>3
  <2>6. m[t] < m[r]
    BY <1>0, <2>3, <2>4, <2>5
  <2> QED  BY <2>1, <2>3, <2>6
<1> QED  BY <1>1, <1>2 DEF CountsDown

\* The loop of ioc_compress as a function.
LEMMA TurnsFacts ==
    ASSUME NEW buf, NEW s, NEW e, InBuf(buf, s, e), NEW sz \in Nat
    PROVE  /\ \A r \in Loop(s, e) : Turns(buf, s, e, sz)[r] \in Loop(s, e)
           /\ \A r \in Loop(s, e) : Over(r, e) => Turns(buf, s, e, sz)[r] = r
           /\ \A r \in Loop(s, e) : ~Over(r, e) =>
                 Turns(buf, s, e, sz)[r] = Turns(buf, s, e, sz)[Turn(buf, e, sz, r)]
<1>V. PICK V : V = Loop(s, e)
  OBVIOUS
<1>S. PICK S : S = {r \in V : Over(r, e)}
  OBVIOUS
<1>G. PICK G : G = [r \in V |-> Turn(buf, e, sz, r)]
  OBVIOUS
<1>c. PICK n, m : n \in Nat /\ CountsDown(V, S, G, n, m)
  <2>1. \E n, m : n \in Nat /\ CountsDown(V, S, G, n, m)
    BY <1>V, <1>S, <1>G, TurnsCountDown
  <2> QED  BY <2>1
<1>3. PICK f \in [V -> V] : IsLoop(V, S, G, f)
  BY <1>c, LoopExists
<1>4. ASSUME NEW q
      PROVE  IsLoop(V, S, G, q) <=>
                q = [r \in V |-> IF r.done \/ r.next > e THEN r ELSE q[Turn(buf, e, sz, r)]]
  <2>1. \A r \in V : /\ (r \in S <=> r.done \/ r.next > e)
                     /\ G[r] = Turn(buf, e, sz, r)
    BY <1>S, <1>G DEF Over
  <2>2. \A r \in V : (IF r \in S THEN r ELSE q[G[r]])
                       = (IF r.done \/ r.next > e THEN r ELSE q[Turn(buf, e, sz, r)])
    BY <2>1
  <2>3. [r \in V |-> IF r \in S THEN r ELSE q[G[r]]]
          = [r \in V |-> IF r.done \/ r.next > e THEN r ELSE q[Turn(buf, e, sz, r)]]
    BY <2>2
  <2> QED  BY <2>3 DEF IsLoop
<1>h. PICK h : h = Turns(buf, s, e, sz)
  OBVIOUS
<1>5. IsLoop(V, S, G, h)
  <2>1. h = CHOOSE q : q = [r \in V |-> IF r.done \/ r.next > e THEN r ELSE q[Turn(buf, e, sz, r)]]
    BY <1>h, <1>V DEF Turns, Loop
  <2>2. f = [r \in V |-> IF r.done \/ r.next > e THEN r ELSE f[Turn(buf, e, sz, r)]]
    BY <1>3, <1>4
  <2>3. h = [r \in V |-> IF r.done \/ r.next > e THEN r ELSE h[Turn(buf, e, sz, r)]]
    BY <2>1, <2>2
  <2> QED  BY <1>4, <2>3
<1>6. /\ \A r \in V : h[r] \in V
      /\ \A r \in V : r \in S => h[r] = r
      /\ \A r \in V : r \notin S => h[r] = h[G[r]]
  <2>1. EndsIn(V, S, G, h)
    BY <1>5, <1>c, LoopTyped
  <2> QED  BY <2>1 DEF EndsIn
<1>7. \A r \in V : (r \in S <=> Over(r, e)) /\ G[r] = Turn(buf, e, sz, r)
  BY <1>S, <1>G
<1>8. /\ \A r \in V : h[r] \in V
      /\ \A r \in V : Over(r, e) => h[r] = r
      /\ \A r \in V : ~Over(r, e) => h[r] = h[Turn(buf, e, sz, r)]
  BY <1>6, <1>7
<1> QED  BY <1>8, <1>h, <1>V

\* What holds where the loop ends and goes back over every turn holds of all.
LEMMA TurnsInduction ==
    ASSUME NEW buf, NEW s, NEW e, InBuf(buf, s, e), NEW sz \in Nat, NEW P,
           \A r \in Loop(s, e) : Over(r, e) => r \in P,
           \A r \in Loop(s, e) : ~Over(r, e) /\ Turn(buf, e, sz, r) \in P => r \in P
    PROVE  \A r \in Loop(s, e) : r \in P
<1>V. PICK V : V = Loop(s, e)
  OBVIOUS
<1>S. PICK S : S = {r \in V : Over(r, e)}
  OBVIOUS
<1>G. PICK G : G = [r \in V |-> Turn(buf, e, sz, r)]
  OBVIOUS
<1>c. PICK n, m : n \in Nat /\ CountsDown(V, S, G, n, m)
  <2>1. \E n, m : n \in Nat /\ CountsDown(V, S, G, n, m)
    BY <1>V, <1>S, <1>G, TurnsCountDown
  <2> QED  BY <2>1
<1>1. \A r \in V : r \in S => r \in P
  BY <1>V, <1>S
<1>2. \A r \in V : r \notin S /\ G[r] \in P => r \in P
  BY <1>V, <1>S, <1>G
<1>3. \A r \in V : r \in P
  BY <1>1, <1>2, <1>c, LoopInduction
<1> QED  BY <1>3, <1>V

----------------------------------------------------------------------------
(* ioc_uncompress.                                                         *)

Reading(src) == [i : 1 .. Len(src) + 1, out : Seq(Nat), ok : BOOLEAN]

Read(src, d) == d.i > Len(src) \/ ~d.ok

\* A turn stays in the loop and reads a count or ends it.
LEMMA DecodeTurnFacts ==
    ASSUME NEW src \in Seq(Nat), NEW d \in Reading(src), ~Read(src, d), NEW t, t = DecodeTurn(src, d)
    PROVE  t \in Reading(src) /\ (~t.ok \/ t.i > d.i) /\ t.i >= d.i
<1>0. /\ Len(src) \in Nat /\ d.i \in Nat /\ 1 <= d.i /\ d.i <= Len(src) /\ d.out \in Seq(Nat) /\ d.ok
      /\ d = [i |-> d.i, out |-> d.out, ok |-> d.ok]
  BY DEF Reading, Read
<1>i. \A i \in 1 .. Len(src) : src[i] \in Nat
  BY ElementOfSeq
<1>z. PICK z \in Nat : z = d.i + src[d.i] + 1 /\ z > d.i
  <2>1. d.i \in 1 .. Len(src)
    BY <1>0
  <2>2. PICK k \in Nat : k = src[d.i]
    BY <1>i, <2>1
  <2> QED  BY <1>0, <2>2
<1>x. PICK x : x = d.out \o SubSeq(src, d.i + 1, z - 1)
  OBVIOUS
<1>y. PICK y : y = x \o Zeros(src[z])
  OBVIOUS
<1>t. t = IF z - 1 > Len(src) THEN [d EXCEPT !.ok = FALSE]
          ELSE IF z > Len(src) THEN [i |-> z, out |-> x, ok |-> TRUE]
          ELSE [i |-> z + 1, out |-> y, ok |-> TRUE]
  BY <1>z, <1>x, <1>y DEF DecodeTurn
<1>1. CASE z - 1 > Len(src)
  <2>1. t = [i |-> d.i, out |-> d.out, ok |-> FALSE]
    BY <1>0, <1>1, <1>t
  <2> QED  BY <1>0, <2>1 DEF Reading
<1>2. CASE ~(z - 1 > Len(src))
  <2>1. x \in Seq(Nat)
    <3>1. PICK a \in Int, b \in Int : a = d.i + 1 /\ b = z - 1
      BY <1>0
    <3>2. \A i \in a .. b : src[i] \in Nat
      BY <1>0, <1>2, <1>i, <3>1
    <3>3. SubSeq(src, a, b) \in Seq(Nat)
      BY <3>2, SubSeqProperties
    <3> QED  BY <1>0, <1>x, <3>1, <3>3, ConcatProperties
  <2>2. CASE z > Len(src)
    <3>1. t = [i |-> z, out |-> x, ok |-> TRUE]
      BY <1>2, <1>t, <2>2
    <3>2. z \in 1 .. Len(src) + 1
      BY <1>0, <1>2, <1>z
    <3> QED  BY <1>0, <1>z, <2>1, <3>1, <3>2 DEF Reading
  <2>3. CASE ~(z > Len(src))
    <3>1. t = [i |-> z + 1, out |-> y, ok |-> TRUE]
      <4>1. t = IF z > Len(src) THEN [i |-> z, out |-> x, ok |-> TRUE]
                ELSE [i |-> z + 1, out |-> y, ok |-> TRUE]
        BY <1>2, <1>t
      <4> QED  BY <2>3, <4>1
    <3>3. z + 1 \in 1 .. Len(src) + 1
      BY <1>0, <1>z, <2>3
    <3>2. y \in Seq(Nat)
      <4>5. z \in 1 .. Len(src)
        BY <1>0, <1>z, <2>3
      <4>1. PICK k \in Nat : k = src[z]
        BY <1>i, <4>5
      <4>0. Zeros(k) \in Seq(Nat)
        BY DEF Zeros
      <4>2. PICK w \in Seq(Nat) : w = Zeros(k)
        BY <4>0
      <4>3. x \o w \in Seq(Nat)
        BY <2>1, ConcatProperties
      <4> QED  BY <1>y, <4>1, <4>2, <4>3
    <3>4. t \in Reading(src)
      BY <3>1, <3>2, <3>3 DEF Reading
    <3>5. t.i = z + 1
      BY <3>1
    <3> QED  BY <1>0, <1>z, <3>4, <3>5
  <2> QED  BY <2>2, <2>3
<1> QED  BY <1>1, <1>2

LEMMA DecodeTurnsFacts ==
    ASSUME NEW src \in Seq(Nat)
    PROVE  /\ \A d \in Reading(src) : DecodeTurns(src)[d] \in Reading(src)
           /\ \A d \in Reading(src) : Read(src, d) => DecodeTurns(src)[d] = d
           /\ \A d \in Reading(src) : ~Read(src, d) =>
                 DecodeTurns(src)[d] = DecodeTurns(src)[DecodeTurn(src, d)]
<1>V. PICK V : V = Reading(src)
  OBVIOUS
<1>S. PICK S : S = {d \in V : Read(src, d)}
  OBVIOUS
<1>G. PICK G : G = [d \in V |-> DecodeTurn(src, d)]
  OBVIOUS
<1>n. PICK n \in Nat : n = Len(src) + 1
  OBVIOUS
<1>m. PICK m : m = [d \in V |-> (n - d.i) + (IF d.ok THEN 1 ELSE 0)]
  OBVIOUS
<1>0. \A d \in V : d.i \in 1 .. n /\ d.ok \in BOOLEAN
  BY <1>V, <1>n DEF Reading
<1>1. m \in [V -> 0 .. n]
  <2>1. \A d \in V : (n - d.i) + (IF d.ok THEN 1 ELSE 0) \in 0 .. n
    BY <1>0
  <2> QED  BY <1>m, <2>1
<1>2. ASSUME NEW d \in V, d \notin S
      PROVE  G[d] \in V /\ m[G[d]] < m[d]
  <2>1. PICK t : t = DecodeTurn(src, d) /\ t = G[d]
    BY <1>G
  <2>2. ~Read(src, d)
    BY <1>2, <1>S
  <2>3. t \in V /\ (~t.ok \/ t.i > d.i) /\ t.i >= d.i
    BY <1>V, <2>1, <2>2, DecodeTurnFacts
  <2>4. m[d] = (n - d.i) + 1
    BY <1>m, <2>2 DEF Read
  <2>5. m[t] = (n - t.i) + (IF t.ok THEN 1 ELSE 0)
    BY <1>m, <2>3
  <2>6. m[t] < m[d]
    BY <1>0, <2>3, <2>4, <2>5
  <2> QED  BY <2>1, <2>3, <2>6
<1>c. CountsDown(V, S, G, n, m)
  BY <1>1, <1>2 DEF CountsDown
<1>3. PICK f \in [V -> V] : IsLoop(V, S, G, f)
  BY <1>c, LoopExists
<1>4. ASSUME NEW q
      PROVE  IsLoop(V, S, G, q) <=>
                q = [d \in V |-> IF d.i > Len(src) \/ ~d.ok THEN d ELSE q[DecodeTurn(src, d)]]
  <2>1. \A d \in V : /\ (d \in S <=> d.i > Len(src) \/ ~d.ok)
                     /\ G[d] = DecodeTurn(src, d)
    BY <1>S, <1>G DEF Read
  <2>2. \A d \in V : (IF d \in S THEN d ELSE q[G[d]])
                       = (IF d.i > Len(src) \/ ~d.ok THEN d ELSE q[DecodeTurn(src, d)])
    BY <2>1
  <2>3. [d \in V |-> IF d \in S THEN d ELSE q[G[d]]]
          = [d \in V |-> IF d.i > Len(src) \/ ~d.ok THEN d ELSE q[DecodeTurn(src, d)]]
    BY <2>2
  <2> QED  BY <2>3 DEF IsLoop
<1>h. PICK h : h = DecodeTurns(src)
  OBVIOUS
<1>5. IsLoop(V, S, G, h)
  <2>1. h = CHOOSE q : q = [d \in V |-> IF d.i > Len(src) \/ ~d.ok THEN d ELSE q[DecodeTurn(src, d)]]
    BY <1>h, <1>V DEF DecodeTurns, Reading
  <2>2. f = [d \in V |-> IF d.i > Len(src) \/ ~d.ok THEN d ELSE f[DecodeTurn(src, d)]]
    BY <1>3, <1>4
  <2>3. h = [d \in V |-> IF d.i > Len(src) \/ ~d.ok THEN d ELSE h[DecodeTurn(src, d)]]
    BY <2>1, <2>2
  <2> QED  BY <1>4, <2>3
<1>6. EndsIn(V, S, G, h)
  BY <1>5, <1>c, LoopTyped
<1>7. \A d \in V : (d \in S <=> Read(src, d)) /\ G[d] = DecodeTurn(src, d)
  BY <1>S, <1>G
<1>8. /\ \A d \in V : h[d] \in V
      /\ \A d \in V : Read(src, d) => h[d] = d
      /\ \A d \in V : ~Read(src, d) => h[d] = h[DecodeTurn(src, d)]
  BY <1>6, <1>7 DEF EndsIn
<1> QED  BY <1>8, <1>h, <1>V

----------------------------------------------------------------------------
(* What has been stored is read again.                                     *)

\* They are at place i of src.
ReadsBack(buf, r, n, src, i) ==
    /\ i \in 1 .. Len(src) /\ src[i] = n /\ i + n = Len(Literals(buf, r, n))
    /\ i + n <= Len(src) /\ SubSeq(src, i + 1, i + n) = Bytes(buf, r.next, n)

LEMMA LiteralsRead ==
    ASSUME NEW buf, NEW s, NEW e, InBuf(buf, s, e), NEW r \in Loop(s, e), NEW n \in Nat,
           r.next + n <= e + 1, NEW src \in Seq(Nat), Begins(Literals(buf, r, n), src),
           NEW i, i = Len(r.dst) + 1
    PROVE  ReadsBack(buf, r, n, src, i)
<1>1. PICK x, k : x = Literals(buf, r, n) /\ k = Len(r.dst)
  OBVIOUS
<1>2. k \in Nat /\ r.next \in Nat /\ i = k + 1 /\ Len(src) \in Nat
  BY <1>1, InBufFacts, LoopFacts
<1>3. /\ x \in Seq(Nat) /\ Len(x) = k + 1 + n /\ x[k + 1] = n
      /\ \A j \in 1 .. n : x[k + 1 + j] = buf[r.next + j - 1]
  <2>1. /\ Literals(buf, r, n) \in Seq(Nat) /\ Len(Literals(buf, r, n)) = Len(r.dst) + 1 + n
        /\ Stored(buf, r, n, Literals(buf, r, n))
    BY LiteralsFacts
  <2> QED  BY <1>1, <2>1 DEF Stored
<1>4. Len(x) <= Len(src) /\ \A j \in 1 .. Len(x) : src[j] = x[j]
  BY <1>1 DEF Begins
<1>5. i \in 1 .. Len(src) /\ src[i] = n /\ i + n = Len(x) /\ i + n <= Len(src)
  <2>1. i \in 1 .. Len(x) /\ i + n = Len(x)
    <3>1. Len(x) = k + 1 + n
      BY <1>3
    <3> QED  BY <1>2, <3>1
  <2>2. src[i] = x[i]
    BY <1>4, <2>1
  <2>3. x[i] = n
    BY <1>2, <1>3
  <2>4. Len(x) \in Nat
    BY <1>2, <1>3
  <2>5. i \in 1 .. Len(src) /\ i + n <= Len(src)
    BY <1>2, <1>4, <2>1, <2>4
  <2> QED  BY <2>1, <2>2, <2>3, <2>5
<1>6. PICK a \in Int, b \in Int : a = i + 1 /\ b = i + n
  BY <1>2
<1>7. PICK q : q = SubSeq(src, a, b)
  OBVIOUS
<1>8. q \in Seq(Nat) /\ Len(q) = n /\ \A j \in 1 .. n : q[j] = src[a + j - 1]
  <2>1. \A j \in a .. b : src[j] \in Nat
    <3>1. \A j \in a .. b : j \in 1 .. Len(src)
      BY <1>2, <1>5, <1>6
    <3> QED  BY <3>1, ElementOfSeq
  <2>2. /\ SubSeq(src, a, b) \in Seq(Nat)
        /\ Len(SubSeq(src, a, b)) = IF a <= b THEN b - a + 1 ELSE 0
        /\ \A j \in 1 .. b - a + 1 : SubSeq(src, a, b)[j] = src[a + j - 1]
    BY <2>1, SubSeqProperties
  <2>3. b - a + 1 = n /\ (a <= b \/ n = 0)
    BY <1>2, <1>6
  <2> QED  BY <1>7, <2>2, <2>3
<1>9. PICK y : y = Bytes(buf, r.next, n)
  OBVIOUS
<1>10. y \in Seq(Nat) /\ Len(y) = n /\ \A j \in 1 .. n : y[j] = buf[r.next + j - 1]
  <2>1. \A c \in r.next .. r.next + n - 1 : buf[c] \in Nat
    <3>1. \A c \in r.next .. r.next + n - 1 : c \in s .. e
      BY InBufFacts, LoopFacts
    <3> QED  BY <3>1, InBufFacts
  <2> QED  BY <1>2, <1>9, <2>1, BytesFacts
<1>11. ASSUME NEW j \in 1 .. n
       PROVE  q[j] = y[j]
  <2>1. PICK c \in 1 .. Len(x) : c = k + 1 + j /\ c = a + j - 1
    BY <1>2, <1>3, <1>6
  <2>2. q[j] = src[c] /\ src[c] = x[c] /\ x[c] = buf[r.next + j - 1]
    BY <1>3, <1>4, <1>8, <2>1
  <2> QED  BY <1>10, <2>2
<1>12. q = y
  BY <1>8, <1>10, <1>11, SeqEqual
<1> QED  BY <1>1, <1>5, <1>6, <1>7, <1>9, <1>12 DEF ReadsBack

\* The turn that reads d ends with g.
Reads(src, d, g) == d \in Reading(src) /\ ~Read(src, d) /\ DecodeTurn(src, d) = g

\* A frame that ends with literals.
LEMMA DecodeLast ==
    ASSUME NEW buf, NEW s, NEW e, InBuf(buf, s, e), NEW r \in Loop(s, e), NEW n \in Nat,
           r.next + n <= e + 1, NEW src \in Seq(Nat), src = Literals(buf, r, n),
           NEW o \in Seq(Nat), NEW d, d = [i |-> Len(r.dst) + 1, out |-> o, ok |-> TRUE]
    PROVE  Reads(src, d, [i |-> Len(src) + 1, out |-> o \o Bytes(buf, r.next, n), ok |-> TRUE])
<1>1. PICK i \in 1 .. Len(src) : i = Len(r.dst) + 1 /\ src[i] = n /\ i + n = Len(src)
                                 /\ SubSeq(src, i + 1, i + n) = Bytes(buf, r.next, n)
  <2>1. Begins(Literals(buf, r, n), src)
    BY DEF Begins
  <2>2. PICK i : i = Len(r.dst) + 1
    OBVIOUS
  <2>3. ReadsBack(buf, r, n, src, i)
    BY <2>1, <2>2, LiteralsRead
  <2> QED  BY <2>2, <2>3 DEF ReadsBack
<1>2. d.i = i /\ d.out = o /\ d.ok /\ d = [i |-> i, out |-> o, ok |-> TRUE]
  BY <1>1
<1>3. d \in Reading(src) /\ ~Read(src, d)
  BY <1>2 DEF Reading, Read
<1>z. PICK z \in Nat : z = i + n + 1 /\ z - 1 = i + n
  <2>1. i \in Nat
    BY <1>1
  <2> QED  BY <2>1
<1>e. z = Len(src) + 1
  BY <1>1, <1>z
<1>4. DecodeTurn(src, d) = IF z - 1 > Len(src) THEN [d EXCEPT !.ok = FALSE]
                           ELSE IF z > Len(src) THEN [i |-> z, out |-> o \o SubSeq(src, i + 1, z - 1), ok |-> TRUE]
                           ELSE [i |-> z + 1, out |-> (o \o SubSeq(src, i + 1, z - 1)) \o Zeros(src[z]), ok |-> TRUE]
  BY <1>1, <1>2, <1>z DEF DecodeTurn
<1>5. ~(z - 1 > Len(src)) /\ z > Len(src)
  BY <1>e
<1>6. DecodeTurn(src, d) = [i |-> z, out |-> o \o SubSeq(src, i + 1, z - 1), ok |-> TRUE]
  BY <1>4, <1>5
<1> QED  BY <1>1, <1>3, <1>6, <1>e, <1>z DEF Reads

\* And one that goes on with zeros.
LEMMA DecodeBoth ==
    ASSUME NEW buf, NEW s, NEW e, InBuf(buf, s, e), NEW r \in Loop(s, e), NEW n \in Nat, NEW z \in Nat,
           r.next + n + z <= e + 1, \A j \in 0 .. z - 1 : buf[r.next + n + j] = 0,
           NEW src \in Seq(Nat), Begins(Append(Literals(buf, r, n), z), src),
           NEW o \in Seq(Nat), NEW d, d = [i |-> Len(r.dst) + 1, out |-> o, ok |-> TRUE]
    PROVE  Reads(src, d, [i |-> Len(Append(Literals(buf, r, n), z)) + 1,
                          out |-> o \o Bytes(buf, r.next, n + z), ok |-> TRUE])
<1>0. r.next \in Nat /\ s <= r.next /\ s \in Nat /\ e \in Nat /\ r.next + n <= e + 1
  BY InBufFacts, LoopFacts
<1>x. PICK x, y : x = Literals(buf, r, n) /\ y = Append(x, z) /\ x \in Seq(Nat)
  BY <1>0, LiteralsFacts
<1>y. /\ y \in Seq(Nat) /\ Len(y) = Len(x) + 1 /\ Len(x) \in Nat /\ y[Len(x) + 1] = z
      /\ \A j \in 1 .. Len(x) : y[j] = x[j]
  BY <1>x
<1>b. Len(y) <= Len(src) /\ Len(src) \in Nat /\ \A j \in 1 .. Len(y) : src[j] = y[j]
  <2>1. Begins(y, src)
    BY <1>x
  <2> QED  BY <2>1 DEF Begins
<1>p. Begins(x, src)
  <2>1. \A j \in 1 .. Len(x) : j \in 1 .. Len(y)
    BY <1>y
  <2>2. Len(x) <= Len(src)
    <3>1. Len(y) = Len(x) + 1 /\ Len(y) <= Len(src) /\ Len(x) \in Nat /\ Len(src) \in Nat
      BY <1>b, <1>y
    <3> QED  BY <3>1
  <2>3. ASSUME NEW j \in 1 .. Len(x)
        PROVE  src[j] = x[j]
    <3>1. src[j] = y[j]
      BY <1>b, <2>1
    <3>2. y[j] = x[j]
      BY <1>y
    <3> QED  BY <3>1, <3>2
  <2> QED  BY <2>2, <2>3 DEF Begins
<1>1. PICK i \in 1 .. Len(src) : i = Len(r.dst) + 1 /\ src[i] = n /\ i + n = Len(x)
                                 /\ SubSeq(src, i + 1, i + n) = Bytes(buf, r.next, n)
  <2>1. PICK i : i = Len(r.dst) + 1
    OBVIOUS
  <2>2. Begins(Literals(buf, r, n), src)
    BY <1>p, <1>x
  <2>3. ReadsBack(buf, r, n, src, i)
    BY <1>0, <2>1, <2>2, LiteralsRead
  <2> QED  BY <1>x, <2>1, <2>3 DEF ReadsBack
<1>2. d.i = i /\ d.out = o /\ d.ok /\ d = [i |-> i, out |-> o, ok |-> TRUE]
  BY <1>1
<1>3. d \in Reading(src) /\ ~Read(src, d)
  BY <1>2 DEF Reading, Read
<1>k. PICK k \in Nat : k = i + n + 1 /\ k = Len(y) /\ k - 1 = i + n
  <2>1. PICK l \in Nat : l = Len(x)
    BY <1>y
  <2>2. i \in Nat /\ i + n = l /\ Len(y) = l + 1
    BY <1>1, <1>y, <2>1
  <2> QED  BY <2>2
<1>4. DecodeTurn(src, d) = IF k - 1 > Len(src) THEN [d EXCEPT !.ok = FALSE]
                           ELSE IF k > Len(src) THEN [i |-> k, out |-> o \o SubSeq(src, i + 1, k - 1), ok |-> TRUE]
                           ELSE [i |-> k + 1, out |-> (o \o SubSeq(src, i + 1, k - 1)) \o Zeros(src[k]), ok |-> TRUE]
  BY <1>1, <1>2, <1>k DEF DecodeTurn
<1>5. ~(k - 1 > Len(src)) /\ ~(k > Len(src))
  BY <1>b, <1>k
<1>6. DecodeTurn(src, d) = [i |-> k + 1, out |-> (o \o SubSeq(src, i + 1, k - 1)) \o Zeros(src[k]), ok |-> TRUE]
  BY <1>4, <1>5
<1>7. src[k] = z
  <2>1. k \in 1 .. Len(y) /\ k = Len(x) + 1
    <3>1. PICK l \in Nat : l = Len(x)
      BY <1>y
    <3>2. Len(y) = l + 1
      BY <1>y, <3>1
    <3>3. k = l + 1 /\ k = Len(y) /\ 1 <= k
      BY <1>k, <3>2
    <3> QED  BY <3>1, <3>3
  <2> QED  BY <1>b, <1>y, <2>1
<1>8. (o \o Bytes(buf, r.next, n)) \o Zeros(z) = o \o Bytes(buf, r.next, n + z)
  <2>1. PICK a \in Nat, p \in Nat : a = r.next /\ p = a + n
    BY <1>0
  <2>2. \A c \in a .. a + n + z - 1 : buf[c] \in Nat
    <3>1. \A c \in a .. a + n + z - 1 : c \in s .. e
      <4>1. a + n + z <= e + 1 /\ s <= a
        BY <1>0, <2>1
      <4> QED  BY <1>0, <4>1
    <3> QED  BY <3>1, InBufFacts
  <2>3. Zeros(z) = Bytes(buf, p, z) /\ Zeros(z) \in Seq(Nat)
    <3>1. \A j \in 0 .. z - 1 : buf[p + j] = 0
      BY <2>1
    <3> QED  BY <3>1, ZerosAre
  <2>4. Bytes(buf, a, n) \in Seq(Nat)
    <3>1. \A c \in a .. a + n - 1 : buf[c] \in Nat
      BY <2>2
    <3> QED  BY <3>1, BytesFacts
  <2>5. Bytes(buf, a, n) \o Bytes(buf, a + n, z) = Bytes(buf, a, n + z)
    <3>1. Joined(buf, a, n, z)
      BY <2>1, <2>2, BytesJoin
    <3> QED  BY <3>1 DEF Joined
  <2>6. (o \o Bytes(buf, a, n)) \o Zeros(z) = o \o (Bytes(buf, a, n) \o Zeros(z))
    <3>1. PICK u, v : u = Bytes(buf, a, n) /\ v = Zeros(z) /\ u \in Seq(Nat) /\ v \in Seq(Nat)
      BY <2>3, <2>4
    <3>2. (o \o u) \o v = o \o (u \o v)
      BY <3>1, Associative
    <3> QED  BY <3>1, <3>2
  <2> QED  BY <2>1, <2>3, <2>5, <2>6
<1> QED  BY <1>1, <1>3, <1>6, <1>7, <1>8, <1>k, <1>x DEF Reads

\* From place i of src on, ioc_uncompress reads the bytes a .. p - 1.
ReadsOn(buf, src, i, a, p) ==
    \A o \in Seq(Nat) :
       DecodeTurns(src)[[i |-> i, out |-> o, ok |-> TRUE]]
         = [i |-> Len(src) + 1, out |-> o \o Bytes(buf, a, p - a), ok |-> TRUE]

\* From state r of the loop, ioc_uncompress reads all that is stored until
\* the loop ends, as the bytes it is passed over meanwhile.
Carries(buf, s, e, sz, r) ==
    \E src \in Seq(Nat), p \in Nat :
       /\ src = Turns(buf, s, e, sz)[r].dst /\ p = Turns(buf, s, e, sz)[r].next
       /\ Begins(r.dst, src) /\ r.next <= p /\ p <= e + 1
       /\ Len(r.dst) <= sz => Len(src) <= sz
       /\ ReadsOn(buf, src, Len(r.dst) + 1, r.next, p)

\* The loop ends alike from r and from t.
SameEnd(buf, s, e, sz, r, t) == Turns(buf, s, e, sz)[r] = Turns(buf, s, e, sz)[t]

LEMMA TurnOnce ==
    ASSUME NEW buf, NEW s, NEW e, InBuf(buf, s, e), NEW sz \in Nat, NEW r \in Loop(s, e), ~Over(r, e),
           NEW t, t = Turn(buf, e, sz, r)
    PROVE  SameEnd(buf, s, e, sz, r, t)
<1>1. Turns(buf, s, e, sz)[r] = Turns(buf, s, e, sz)[Turn(buf, e, sz, r)]
  BY TurnsFacts
<1> QED  BY <1>1 DEF SameEnd

LEMMA CarriesAtEnd ==
    ASSUME NEW buf, NEW s, NEW e, InBuf(buf, s, e), NEW sz \in Nat, NEW r \in Loop(s, e), Over(r, e)
    PROVE  Carries(buf, s, e, sz, r)
<1>0. /\ r.next \in Nat /\ r.next <= e + 1 /\ r.dst \in Seq(Nat) /\ Len(r.dst) \in Nat
  BY InBufFacts, LoopFacts
<1>1. Turns(buf, s, e, sz)[r] = r
  BY TurnsFacts
<1>2. PICK src \in Seq(Nat), p \in Nat : src = r.dst /\ p = r.next
  BY <1>0
<1>3. Begins(src, src)
  BY DEF Begins
<1>4. ASSUME NEW o \in Seq(Nat), NEW d, d = [i |-> Len(src) + 1, out |-> o, ok |-> TRUE]
      PROVE  DecodeTurns(src)[d] = [i |-> Len(src) + 1, out |-> o \o Bytes(buf, p, p - p), ok |-> TRUE]
  <2>1. d \in Reading(src) /\ Read(src, d)
    <3>1. Len(src) + 1 \in 1 .. Len(src) + 1 /\ Len(src) + 1 > Len(src)
      OBVIOUS
    <3> QED  BY <1>4, <3>1 DEF Reading, Read
  <2>2. DecodeTurns(src)[d] = d
    BY <2>1, DecodeTurnsFacts
  <2>3. Bytes(buf, p, p - p) = <<>>
    BY DEF Bytes
  <2>4. o \o <<>> = o
    OBVIOUS
  <2> QED  BY <1>4, <2>2, <2>3, <2>4
<1>5. r.next <= p /\ p <= e + 1
  BY <1>0, <1>2
<1>6. ReadsOn(buf, src, Len(r.dst) + 1, r.next, p)
  BY <1>2, <1>4 DEF ReadsOn
<1> QED  BY <1>1, <1>2, <1>3, <1>5, <1>6 DEF Carries

\* A turn without room stores nothing.
LEMMA CarriesNoRoom ==
    ASSUME NEW buf, NEW s, NEW e, InBuf(buf, s, e), NEW sz \in Nat, NEW r \in Loop(s, e), ~Over(r, e),
           NEW t \in Loop(s, e), t = Turn(buf, e, sz, r), t = [r EXCEPT !.done = TRUE],
           Carries(buf, s, e, sz, t)
    PROVE  Carries(buf, s, e, sz, r)
<1>0. r = [next |-> r.next, dst |-> r.dst, done |-> r.done]
  BY InBufFacts, LoopFacts
<1>1. t.next = r.next /\ t.dst = r.dst
  BY <1>0
<1>2. SameEnd(buf, s, e, sz, r, t)
  BY TurnOnce
<1>3. Turns(buf, s, e, sz)[r] = Turns(buf, s, e, sz)[t]
  BY <1>2 DEF SameEnd
<1> QED  BY <1>1, <1>3 DEF Carries

\* One with room for the literals only ends the frame with them.
LEMMA CarriesLiterals ==
    ASSUME NEW buf, NEW s, NEW e, InBuf(buf, s, e), NEW sz \in Nat, NEW r \in Loop(s, e), ~Over(r, e),
           NEW t \in Loop(s, e), t = Turn(buf, e, sz, r), NEW n \in Nat, r.next + n <= e + 1,
           Len(Literals(buf, r, n)) <= sz,
           t = [next |-> r.next + n, dst |-> Literals(buf, r, n), done |-> TRUE]
    PROVE  Carries(buf, s, e, sz, r)
<1>0. /\ r.next \in Nat /\ r.dst \in Seq(Nat) /\ Len(r.dst) \in Nat /\ s \in Nat /\ e \in Nat
  BY InBufFacts, LoopFacts
<1>1. Turns(buf, s, e, sz)[r] = t
  <2>1. SameEnd(buf, s, e, sz, r, t)
    BY TurnOnce
  <2>2. Over(t, e)
    BY DEF Over
  <2>3. Turns(buf, s, e, sz)[t] = t
    BY <2>2, TurnsFacts
  <2> QED  BY <2>1, <2>3 DEF SameEnd
<1>2. PICK src, p : src = Literals(buf, r, n) /\ p = r.next + n
  OBVIOUS
<1>3. src \in Seq(Nat) /\ Begins(r.dst, src) /\ Len(src) <= sz
  BY <1>2, LiteralsFacts
<1>4. p \in Nat /\ r.next <= p /\ p <= e + 1 /\ p - r.next = n
  BY <1>0, <1>2
<1>5. ASSUME NEW o \in Seq(Nat), NEW d, d = [i |-> Len(r.dst) + 1, out |-> o, ok |-> TRUE]
      PROVE  DecodeTurns(src)[d] = [i |-> Len(src) + 1, out |-> o \o Bytes(buf, r.next, n), ok |-> TRUE]
  <2>1. PICK g : g = [i |-> Len(src) + 1, out |-> o \o Bytes(buf, r.next, n), ok |-> TRUE]
    OBVIOUS
  <2>2. d \in Reading(src) /\ ~Read(src, d) /\ DecodeTurn(src, d) = g
    <3>1. Reads(src, d, [i |-> Len(src) + 1, out |-> o \o Bytes(buf, r.next, n), ok |-> TRUE])
      BY <1>2, <1>3, <1>5, DecodeLast
    <3> QED  BY <2>1, <3>1 DEF Reads
  <2>3. DecodeTurns(src)[d] = DecodeTurns(src)[g]
    BY <1>3, <2>2, DecodeTurnsFacts
  <2>4. g \in Reading(src)
    BY <1>3, <2>2, DecodeTurnFacts
  <2>5. Read(src, g)
    <3>1. Len(src) \in Nat /\ g.i = Len(src) + 1
      BY <1>3, <2>1
    <3> QED  BY <3>1 DEF Read
  <2>6. DecodeTurns(src)[g] = g
    BY <1>3, <2>4, <2>5, DecodeTurnsFacts
  <2> QED  BY <2>1, <2>3, <2>6
<1>6. Turns(buf, s, e, sz)[r].dst = src /\ Turns(buf, s, e, sz)[r].next = p
  BY <1>1, <1>2
<1>7. ReadsOn(buf, src, Len(r.dst) + 1, r.next, p)
  BY <1>4, <1>5 DEF ReadsOn
<1> QED  BY <1>3, <1>4, <1>6, <1>7 DEF Carries

\* One with room for both goes on after them.
LEMMA CarriesBoth ==
    ASSUME NEW buf, NEW s, NEW e, InBuf(buf, s, e), NEW sz \in Nat, NEW r \in Loop(s, e), ~Over(r, e),
           NEW t \in Loop(s, e), t = Turn(buf, e, sz, r), NEW n \in Nat, NEW z \in Nat,
           r.next + n + z <= e + 1, Len(Literals(buf, r, n)) < sz,
           \A j \in 0 .. z - 1 : buf[r.next + n + j] = 0,
           t = [next |-> r.next + n + z, dst |-> Append(Literals(buf, r, n), z), done |-> FALSE],
           Carries(buf, s, e, sz, t)
    PROVE  Carries(buf, s, e, sz, r)
<1>0. /\ r.next \in Nat /\ s <= r.next /\ r.dst \in Seq(Nat) /\ Len(r.dst) \in Nat /\ s \in Nat /\ e \in Nat
  BY InBufFacts, LoopFacts
<1>1. Turns(buf, s, e, sz)[r] = Turns(buf, s, e, sz)[t]
  <2>1. SameEnd(buf, s, e, sz, r, t)
    BY TurnOnce
  <2> QED  BY <2>1 DEF SameEnd
<1>t. PICK y, w, a : /\ y = t.dst /\ w = t.next /\ a = r.next /\ y = Append(Literals(buf, r, n), z)
                     /\ w = a + (n + z)
  <2>1. t.dst = Append(Literals(buf, r, n), z) /\ t.next = r.next + n + z
    OBVIOUS
  <2>2. r.next + n + z = r.next + (n + z)
    BY <1>0
  <2> QED  BY <2>1, <2>2
<1>a. a \in Nat /\ w \in Nat /\ s <= a /\ a <= w
  <2>1. a \in Nat /\ s <= a
    BY <1>0, <1>t
  <2>2. w = a + (n + z)
    BY <1>t
  <2> QED  BY <2>1, <2>2
<1>2. PICK src \in Seq(Nat), p \in Nat :
         /\ src = Turns(buf, s, e, sz)[t].dst /\ p = Turns(buf, s, e, sz)[t].next
         /\ Begins(y, src) /\ w <= p /\ p <= e + 1
         /\ Len(y) <= sz => Len(src) <= sz
         /\ ReadsOn(buf, src, Len(y) + 1, w, p)
  BY <1>t DEF Carries
<1>3. Len(src) <= sz
  <2>1. PICK x \in Seq(Nat) : x = Literals(buf, r, n)
    <3>1. r.next + n <= e + 1
      BY <1>0
    <3> QED  BY <3>1, LiteralsFacts
  <2>2. Len(y) = Len(x) + 1 /\ Len(x) < sz /\ Len(x) \in Nat
    BY <1>t, <2>1
  <2>3. Len(y) <= sz
    BY <2>2
  <2> QED  BY <1>2, <2>3
<1>4. Begins(r.dst, src)
  <2>1. Begins(r.dst, y)
    <3>1. Begins(r.dst, t.dst)
      BY TurnFacts
    <3> QED  BY <1>t, <3>1
  <2>2. PICK d : d = r.dst /\ Len(d) \in Nat
    BY <1>0
  <2>3. Len(y) \in Nat /\ Len(src) \in Nat
    <3>1. y \in Seq(Nat)
      BY <1>0, <1>t, LoopFacts
    <3> QED  BY <3>1
  <2>4. Len(d) <= Len(y) /\ \A i \in 1 .. Len(d) : y[i] = d[i]
    BY <2>1, <2>2 DEF Begins
  <2>5. Len(y) <= Len(src) /\ \A i \in 1 .. Len(y) : src[i] = y[i]
    BY <1>2 DEF Begins
  <2>6. \A i \in 1 .. Len(d) : i \in 1 .. Len(y)
    BY <2>2, <2>3, <2>4
  <2>7. Len(d) <= Len(src)
    BY <2>2, <2>3, <2>4, <2>5
  <2>8. \A i \in 1 .. Len(d) : src[i] = d[i]
    BY <2>4, <2>5, <2>6
  <2> QED  BY <2>2, <2>7, <2>8 DEF Begins
<1>5. ASSUME NEW o \in Seq(Nat), NEW d, d = [i |-> Len(r.dst) + 1, out |-> o, ok |-> TRUE]
      PROVE  DecodeTurns(src)[d] = [i |-> Len(src) + 1, out |-> o \o Bytes(buf, a, p - a), ok |-> TRUE]
  <2>q. PICK q, v, b : q = Bytes(buf, a, n + z) /\ v = Bytes(buf, w, p - w) /\ b = Bytes(buf, a, p - a)
    OBVIOUS
  <2>1. q \in Seq(Nat) /\ v \in Seq(Nat) /\ q \o v = b
    <3>1. PICK k \in Nat, l \in Nat : k = n + z /\ l = p - w /\ k + l = p - a /\ w = a + k
      <4>1. PICK k \in Nat : k = n + z
        OBVIOUS
      <4>2. PICK l \in Nat : l = p - w
        BY <1>2, <1>a
      <4>3. w = a + k
        BY <1>t, <4>1
      <4>4. k + l = p - a
        BY <1>a, <4>2, <4>3
      <4> QED  BY <4>1, <4>2, <4>3, <4>4
    <3>2. \A c \in a .. p - 1 : buf[c] \in Nat
      <4>1. \A c \in a .. p - 1 : c \in s .. e
        <5>1. p <= e + 1 /\ s <= a
          BY <1>2, <1>a
        <5> QED  BY <1>0, <1>a, <5>1
      <4> QED  BY <4>1, InBufFacts
    <3>3. \A c \in a .. a + k + l - 1 : buf[c] \in Nat
      BY <1>a, <3>1, <3>2
    <3>4. Joined(buf, a, k, l)
      BY <1>a, <3>3, BytesJoin
    <3>7. Bytes(buf, a, k) \o Bytes(buf, a + k, l) = Bytes(buf, a, k + l)
      BY <3>4 DEF Joined
    <3>5. Bytes(buf, a, k) \in Seq(Nat)
      <4>1. \A c \in a .. a + k - 1 : buf[c] \in Nat
        BY <1>a, <3>3
      <4> QED  BY <1>a, <4>1, BytesFacts
    <3>6. Bytes(buf, w, l) \in Seq(Nat)
      <4>1. \A c \in w .. w + l - 1 : buf[c] \in Nat
        BY <1>a, <3>1, <3>3
      <4> QED  BY <1>a, <4>1, BytesFacts
    <3> QED  BY <2>q, <3>1, <3>5, <3>6, <3>7
  <2>2. PICK o2 : o2 = o \o q
    OBVIOUS
  <2>3. o2 \in Seq(Nat) /\ o2 \o v = o \o b
    <3>1. (o \o q) \o v = o \o (q \o v)
      BY <2>1, Associative
    <3>2. o \o q \in Seq(Nat)
      BY <2>1, ConcatProperties
    <3> QED  BY <2>1, <2>2, <3>1, <3>2
  <2>4. PICK g : g = [i |-> Len(y) + 1, out |-> o2, ok |-> TRUE]
    OBVIOUS
  <2>5. d \in Reading(src) /\ ~Read(src, d) /\ DecodeTurn(src, d) = g
    <3>1. Begins(Append(Literals(buf, r, n), z), src)
      BY <1>2, <1>t
    <3>2. /\ d \in Reading(src) /\ ~Read(src, d)
          /\ DecodeTurn(src, d) =
                 [i |-> Len(Append(Literals(buf, r, n), z)) + 1,
                  out |-> o \o Bytes(buf, r.next, n + z), ok |-> TRUE]
      <4>1. Reads(src, d, [i |-> Len(Append(Literals(buf, r, n), z)) + 1,
                           out |-> o \o Bytes(buf, r.next, n + z), ok |-> TRUE])
        BY <1>5, <3>1, DecodeBoth
      <4> QED  BY <4>1 DEF Reads
    <3> QED  BY <1>t, <2>2, <2>4, <2>q, <3>2
  <2>6. DecodeTurns(src)[d] = DecodeTurns(src)[g]
    BY <2>5, DecodeTurnsFacts
  <2>7. DecodeTurns(src)[g] = [i |-> Len(src) + 1, out |-> o2 \o v, ok |-> TRUE]
    BY <1>2, <2>3, <2>4, <2>q DEF ReadsOn
  <2> QED  BY <2>3, <2>6, <2>7, <2>q
<1>6. a <= p
  BY <1>2, <1>a
<1>7. src = Turns(buf, s, e, sz)[r].dst /\ p = Turns(buf, s, e, sz)[r].next
  BY <1>1, <1>2
<1>8. ReadsOn(buf, src, Len(r.dst) + 1, a, p)
  BY <1>5 DEF ReadsOn
<1> QED  BY <1>2, <1>3, <1>4, <1>6, <1>7, <1>8, <1>t DEF Carries

\* So a turn that carries on carries.
LEMMA TurnCarries ==
    ASSUME NEW buf, NEW s, NEW e, InBuf(buf, s, e), NEW sz \in Nat, NEW r \in Loop(s, e), ~Over(r, e),
           Carries(buf, s, e, sz, Turn(buf, e, sz, r))
    PROVE  Carries(buf, s, e, sz, r)
<1>1. PICK t : t = Turn(buf, e, sz, r)
  OBVIOUS
<1>2. t \in Loop(s, e) /\ Carries(buf, s, e, sz, t)
  BY <1>1, TurnFacts
<1>3. TurnMade(buf, e, sz, r, t)
  BY <1>1, TurnIsMade
<1>4. CASE t = [r EXCEPT !.done = TRUE]
  BY <1>1, <1>2, <1>4, CarriesNoRoom
<1>5. ASSUME NEW n \in Nat, r.next + n <= e + 1, Len(Literals(buf, r, n)) <= sz,
             t = [next |-> r.next + n, dst |-> Literals(buf, r, n), done |-> TRUE]
      PROVE  Carries(buf, s, e, sz, r)
  BY <1>1, <1>2, <1>5, CarriesLiterals
<1>6. ASSUME NEW n \in Nat, NEW z \in Nat, r.next + n + z <= e + 1, Len(Literals(buf, r, n)) < sz,
             \A i \in 0 .. z - 1 : buf[r.next + n + i] = 0,
             t = [next |-> r.next + n + z, dst |-> Append(Literals(buf, r, n), z), done |-> FALSE]
      PROVE  Carries(buf, s, e, sz, r)
  BY <1>1, <1>2, <1>6, CarriesBoth
<1> QED  BY <1>3, <1>4, <1>5, <1>6 DEF TurnMade

LEMMA AllCarry ==
    ASSUME NEW buf, NEW s, NEW e, InBuf(buf, s, e), NEW sz \in Nat
    PROVE  \A r \in Loop(s, e) : Carries(buf, s, e, sz, r)
<1>P. PICK P : P = {r \in Loop(s, e) : Carries(buf, s, e, sz, r)}
  OBVIOUS
<1>1. ASSUME NEW r \in Loop(s, e), Over(r, e)
      PROVE  r \in P
  <2>1. Carries(buf, s, e, sz, r)
    BY <1>1, CarriesAtEnd
  <2> QED  BY <1>P, <2>1
<1>2. ASSUME NEW r \in Loop(s, e), ~Over(r, e), Turn(buf, e, sz, r) \in P
      PROVE  r \in P
  <2>1. Carries(buf, s, e, sz, Turn(buf, e, sz, r))
    BY <1>P, <1>2
  <2>2. Carries(buf, s, e, sz, r)
    BY <1>2, <2>1, TurnCarries
  <2> QED  BY <1>P, <2>2
<1>3. \A r \in Loop(s, e) : r \in P
  BY <1>1, <1>2, TurnsInduction
<1> QED  BY <1>P, <1>3

\* What ioc_compress makes of a range in sz bytes is what ioc_uncompress
\* takes apart: x stands for the bytes from s up to p.
Stands(buf, s, e, sz, x, p) ==
    /\ p \in Nat /\ s <= p /\ p <= e + 1
    /\ x \in Seq(Nat) /\ Len(x) \in Nat /\ Len(x) <= sz
    /\ WellFormed(x) /\ Decode(x) = Bytes(buf, s, p - s)

LEMMA RunsStand ==
    ASSUME NEW buf, NEW s, NEW e, InBuf(buf, s, e), NEW sz \in Nat,
           NEW x, x = Runs(buf, s, e, sz).dst, NEW p, p = Runs(buf, s, e, sz).next
    PROVE  Stands(buf, s, e, sz, x, p)
<1>0. s \in Nat /\ e \in Nat /\ s <= e + 1
  BY InBufFacts DEF InBuf
<1>r. PICK r : r = [next |-> s, dst |-> <<>>, done |-> FALSE]
  OBVIOUS
<1>1. r \in Loop(s, e)
  <2>1. s \in s .. e + 1
    BY <1>0
  <2> QED  BY <1>r, <2>1 DEF Loop
<1>2. Carries(buf, s, e, sz, r)
  BY <1>1, AllCarry
<1>3. r.dst = <<>> /\ r.next = s /\ Len(r.dst) = 0
  BY <1>r
<1>4. x = Turns(buf, s, e, sz)[r].dst /\ p = Turns(buf, s, e, sz)[r].next
  BY <1>r DEF Runs
<1>5. x \in Seq(Nat) /\ p \in Nat /\ s <= p /\ p <= e + 1 /\ (0 <= sz => Len(x) <= sz)
  BY <1>2, <1>3, <1>4 DEF Carries
<1>6. ReadsOn(buf, x, 1, s, p)
  <2>1. ReadsOn(buf, x, 0 + 1, s, p)
    BY <1>2, <1>3, <1>4 DEF Carries
  <2> QED  BY <2>1
<1>7. PICK d : d = [i |-> 1, out |-> <<>>, ok |-> TRUE]
  OBVIOUS
<1>8. DecodeTurns(x)[d] = [i |-> Len(x) + 1, out |-> <<>> \o Bytes(buf, s, p - s), ok |-> TRUE]
  <2>1. <<>> \in Seq(Nat)
    OBVIOUS
  <2> QED  BY <1>6, <1>7, <2>1 DEF ReadsOn
<1>9. Bytes(buf, s, p - s) \in Seq(Nat)
  <2>1. PICK n \in Nat : n = p - s
    BY <1>0, <1>5
  <2>2. \A b \in s .. s + n - 1 : b \in s .. e
    <3>1. s + n = p
      BY <1>0, <1>5, <2>1
    <3>2. s + n <= e + 1
      BY <1>5, <3>1
    <3> QED  BY <1>0, <2>1, <3>2
  <2>3. \A b \in s .. s + n - 1 : buf[b] \in Nat
    BY <2>2, InBufFacts
  <2> QED  BY <1>0, <2>1, <2>3, BytesFacts
<1>10. <<>> \o Bytes(buf, s, p - s) = Bytes(buf, s, p - s)
  BY <1>9
<1>11. WellFormed(x) /\ Decode(x) = Bytes(buf, s, p - s)
  BY <1>7, <1>8, <1>10 DEF WellFormed, Decode, Decoded
<1> QED  BY <1>5, <1>11 DEF Stands

\* ioc_compress followed by ioc_uncompress gives back the bytes that were
\* taken, in no more than the sz bytes of room, for every buffer: counts that
\* reach MaxRun, runs cut by the end of the room and a zero run without
\* literals included.
THEOREM CompressRoundTrip ==
    ASSUME NEW buf \in [Addr -> Byte], NEW s \in Addr, NEW e \in Addr, s <= e + 1, NEW sz \in Nat
    PROVE  LET r == Runs(buf, s, e, sz)
           IN  /\ s <= r.next /\ r.next <= e + 1 /\ Len(r.dst) <= sz
               /\ WellFormed(r.dst) /\ Decode(r.dst) = Bytes(buf, s, r.next - s)
<1>1. InBuf(buf, s, e)
  BY CodecAssumption DEF InBuf, Addr
<1>2. PICK r : r = Runs(buf, s, e, sz)
  OBVIOUS
<1>3. Stands(buf, s, e, sz, r.dst, r.next)
  BY <1>1, <1>2, RunsStand
<1> QED  BY <1>2, <1>3 DEF Stands

----------------------------------------------------------------------------
(* The frames of a snapshot.                                               *)

\* x with the n bytes of buf from f added or copied, byte by byte.
Stretch(x, buf, f, n, add) ==
    [b \in Addr |-> IF f <= b /\ b < f + n
                    THEN IF add THEN (x[b] + buf[b]) % ByteMod ELSE buf[b]
                    ELSE x[b]]

LEMMA StoreIsStretch ==
    ASSUME NEW x, NEW buf, NEW f \in Nat, NEW n \in Nat, NEW add \in BOOLEAN
    PROVE  Store(x, f, Bytes(buf, f, n), add) = Stretch(x, buf, f, n, add)
<1>1. PICK d : d = Bytes(buf, f, n)
  OBVIOUS
<1>2. Len(d) = n /\ \A i \in 1 .. n : d[i] = buf[f + i - 1]
  BY <1>1 DEF Bytes
<1>3. ASSUME NEW b \in Addr
      PROVE  (IF b \in f .. f + Len(d) - 1
              THEN IF add THEN (x[b] + d[b - f + 1]) % ByteMod ELSE d[b - f + 1]
              ELSE x[b])
             = (IF f <= b /\ b < f + n
                THEN IF add THEN (x[b] + buf[b]) % ByteMod ELSE buf[b]
                ELSE x[b])
  <2>0. b \in Nat
    BY DEF Addr
  <2>1. b \in f .. f + Len(d) - 1 <=> f <= b /\ b < f + n
    BY <1>2, <2>0
  <2>2. ASSUME f <= b, b < f + n
        PROVE  d[b - f + 1] = buf[b]
    <3>1. PICK i \in 1 .. n : i = b - f + 1 /\ f + i - 1 = b
      BY <2>0, <2>2
    <3> QED  BY <1>2, <3>1
  <2> QED  BY <2>1, <2>2
<1> QED  BY <1>1, <1>3 DEF Store, Stretch

LEMMA StretchTyped ==
    ASSUME NEW x \in [Addr -> Byte], NEW buf \in [Addr -> Byte], NEW f \in Nat, NEW n \in Nat,
           NEW add \in BOOLEAN
    PROVE  Stretch(x, buf, f, n, add) \in [Addr -> Byte]
<1>1. ASSUME NEW b \in Addr
      PROVE  (x[b] + buf[b]) % ByteMod \in Byte
  <2>1. PICK c \in Nat : c = x[b] + buf[b]
    BY CodecAssumption DEF Byte
  <2>2. c % ByteMod \in 0 .. ByteMod - 1
    BY CodecAssumption
  <2> QED  BY <2>1, <2>2 DEF Byte
<1> QED  BY <1>1 DEF Stretch

\* Two stretches that follow each other are one: no byte is added twice.
LEMMA StretchJoin ==
    ASSUME NEW x, NEW buf, NEW f \in Nat, NEW n \in Nat, NEW m \in Nat, NEW add \in BOOLEAN
    PROVE  Stretch(Stretch(x, buf, f, n, add), buf, f + n, m, add) = Stretch(x, buf, f, n + m, add)
<1>1. PICK y : y = Stretch(x, buf, f, n, add)
  OBVIOUS
<1>2. ASSUME NEW b \in Addr
      PROVE  (IF f + n <= b /\ b < f + n + m
              THEN IF add THEN (y[b] + buf[b]) % ByteMod ELSE buf[b]
              ELSE y[b])
             = (IF f <= b /\ b < f + (n + m)
                THEN IF add THEN (x[b] + buf[b]) % ByteMod ELSE buf[b]
                ELSE x[b])
  <2>0. b \in Nat
    BY DEF Addr
  <2>1. y[b] = IF f <= b /\ b < f + n
               THEN IF add THEN (x[b] + buf[b]) % ByteMod ELSE buf[b]
               ELSE x[b]
    BY <1>1 DEF Stretch
  <2>2. CASE f + n <= b
    <3>1. y[b] = x[b]
      BY <2>0, <2>1, <2>2
    <3>2. (b < f + n + m <=> b < f + (n + m)) /\ f <= b
      BY <2>0, <2>2
    <3> QED  BY <2>2, <3>1, <3>2
  <2>3. CASE ~(f + n <= b)
    <3>1. (f <= b /\ b < f + n) <=> (f <= b /\ b < f + (n + m))
      BY <2>0, <2>3
    <3> QED  BY <2>1, <2>3, <3>1
  <2> QED  BY <2>2, <2>3
<1>3. Stretch(y, buf, f + n, m, add)
        = [b \in Addr |-> IF f + n <= b /\ b < f + n + m
                          THEN IF add THEN (y[b] + buf[b]) % ByteMod ELSE buf[b]
                          ELSE y[b]]
  BY DEF Stretch
<1>4. Stretch(x, buf, f, n + m, add)
        = [b \in Addr |-> IF f <= b /\ b < f + (n + m)
                          THEN IF add THEN (x[b] + buf[b]) % ByteMod ELSE buf[b]
                          ELSE x[b]]
  BY DEF Stretch
<1> QED  BY <1>1, <1>2, <1>3, <1>4

RangeOk ==
    /\ delta \in [Addr -> Byte] /\ base \in [Addr -> Byte] /\ newdata \in [Addr -> Byte]
    /\ isdelta \in BOOLEAN
    /\ first \in Nat /\ start \in Nat /\ end \in Addr
    /\ first <= start /\ start <= end + 1

\* The frame in the stream stands for the bytes just taken off the range.
FrameStands ==
    /\ frame = [addr |-> frame.addr, data |-> frame.data, compressed |-> frame.compressed]
    /\ frame.addr \in Nat /\ first <= frame.addr /\ frame.addr < start
    /\ frame.data \in Seq(Nat) /\ Len(frame.data) <= MaxData
    /\ frame.compressed \in BOOLEAN
    /\ frame.compressed => /\ WellFormed(frame.data)
                           /\ Decode(frame.data) = Bytes(delta, frame.addr, start - frame.addr)
                           /\ Len(frame.data) < start - frame.addr
    /\ ~frame.compressed => frame.data = Bytes(delta, frame.addr, start - frame.addr)

CodecInv ==
    /\ RangeOk
    /\ frame = NoFrame \/ FrameStands
    /\ CarriesRange

LEMMA ExpectedIs ==
    ASSUME RangeOk, NEW a \in Nat, first <= a
    PROVE  Expected(a) = Stretch(base, delta, first, a - first, isdelta)
<1>1. PICK n \in Nat : n = a - first
  BY DEF RangeOk
<1>2. first \in Nat /\ isdelta \in BOOLEAN
  BY DEF RangeOk
<1>3. Store(base, first, Bytes(delta, first, n), isdelta) = Stretch(base, delta, first, n, isdelta)
  BY <1>2, StoreIsStretch
<1> QED  BY <1>1, <1>3 DEF Expected

\* The bytes a .. p - 1 on top of those before a.
LEMMA ExpectedOn ==
    ASSUME RangeOk, NEW a \in Nat, NEW p \in Nat, first <= a, a <= p
    PROVE  Store(Expected(a), a, Bytes(delta, a, p - a), isdelta) = Expected(p)
<1>0. first \in Nat /\ isdelta \in BOOLEAN
  BY DEF RangeOk
<1>1. PICK n \in Nat, m \in Nat : n = a - first /\ m = p - a /\ first + n = a /\ n + m = p - first
  <2>1. a - first \in Nat /\ p - a \in Nat /\ first + (a - first) = a
        /\ (a - first) + (p - a) = p - first
    BY <1>0
  <2> QED  BY <2>1
<1>2. Expected(a) = Stretch(base, delta, first, n, isdelta)
  BY <1>1, ExpectedIs
<1>3. Expected(p) = Stretch(base, delta, first, n + m, isdelta)
  <2>1. first <= p
    BY <1>0
  <2> QED  BY <1>1, <2>1, ExpectedIs
<1>4. PICK y : y = Stretch(base, delta, first, n, isdelta)
  OBVIOUS
<1>5. Store(y, a, Bytes(delta, a, m), isdelta) = Stretch(y, delta, a, m, isdelta)
  BY <1>0, StoreIsStretch
<1>6. Stretch(Stretch(base, delta, first, n, isdelta), delta, first + n, m, isdelta)
        = Stretch(base, delta, first, n + m, isdelta)
  BY <1>0, StretchJoin
<1> QED  BY <1>1, <1>2, <1>3, <1>4, <1>5, <1>6

LEMMA ExpectedTyped ==
    ASSUME RangeOk, NEW a \in Nat, first <= a
    PROVE  Expected(a) \in [Addr -> Byte]
<1>1. PICK n \in Nat : n = a - first
  BY DEF RangeOk
<1>2. Stretch(base, delta, first, n, isdelta) \in [Addr -> Byte]
  BY StretchTyped DEF RangeOk
<1> QED  BY <1>1, <1>2, ExpectedIs

LEMMA CodecInit == Init => CodecInv
<1> SUFFICES ASSUME Init PROVE CodecInv
  OBVIOUS
<1>1. /\ delta \in [Addr -> Byte] /\ base \in [Addr -> Byte] /\ start \in Addr
      /\ end \in start .. NBytes - 1 /\ isdelta \in BOOLEAN /\ first = start
      /\ newdata = base /\ frame = NoFrame
  BY DEF Init
<1>2. RangeOk
  <2>1. start \in Nat /\ end \in Addr /\ start <= end + 1 /\ first <= start
    BY <1>1, CodecAssumption DEF Addr
  <2> QED  BY <1>1, <2>1 DEF RangeOk
<1>3. newdata = Expected(start)
  <2>1. first \in Nat /\ start \in Nat /\ start - first = 0 /\ first <= start
    BY <1>1, <1>2 DEF RangeOk
  <2>2. Expected(start) = Stretch(base, delta, first, 0, isdelta)
    BY <1>2, <2>1, ExpectedIs
  <2>3. \A b \in Addr : ~(first <= b /\ b < first + 0)
    BY <2>1 DEF Addr
  <2>4. Stretch(base, delta, first, 0, isdelta) = [b \in Addr |-> base[b]]
    BY <2>3 DEF Stretch
  <2> QED  BY <1>1, <2>2, <2>4
<1> QED  BY <1>1, <1>2, <1>3 DEF CodecInv, CarriesRange

\* ioc_make_data_frame, compressed: the frame stands for the bytes taken.
LEMMA MakeCompressed ==
    ASSUME RangeOk, NEW sz \in 1 .. MaxData, Pending, Compressible(delta, start, end, sz),
           NEW x, x = Runs(delta, start, end, sz).dst, NEW p, p = Runs(delta, start, end, sz).next
    PROVE  /\ Stands(delta, start, end, sz, x, p) /\ start < p /\ Len(x) < p - start
           /\ Len(x) <= MaxData
<1>0. start \in Nat /\ end \in Addr /\ sz \in Nat /\ sz <= MaxData
  BY CodecAssumption DEF RangeOk
<1>1. InBuf(delta, start, end)
  BY CodecAssumption DEF InBuf, Addr, RangeOk
<1>2. Stands(delta, start, end, sz, x, p)
  BY <1>0, <1>1, RunsStand
<1>3. Len(x) < p - start
  BY DEF Compressible
<1>4. p \in Nat /\ Len(x) \in Nat /\ Len(x) <= sz
  BY <1>2 DEF Stands
<1> QED  BY <1>0, <1>2, <1>3, <1>4, CodecAssumption

LEMMA CodecMake ==
    ASSUME CodecInv, NEW sz \in 1 .. MaxData, MakeDataFrame(sz)
    PROVE  CodecInv'
<1>0. /\ start \in Nat /\ end \in Addr /\ end \in Nat /\ sz \in Nat /\ sz # 0 /\ sz <= MaxData
      /\ first \in Nat /\ first <= start /\ start <= end /\ NBytes \in Nat
  BY CodecAssumption DEF CodecInv, RangeOk, MakeDataFrame, Pending, Addr
<1>1. RangeOk /\ frame = NoFrame /\ newdata = Expected(start)
  BY DEF CodecInv, MakeDataFrame, CarriesRange
<1>2. UNCHANGED <<delta, end, first, base, isdelta, newdata>>
  BY DEF MakeDataFrame
<1>e. Expected(start)' = Store(base, first, Bytes(delta, first, start' - first), isdelta)
  BY <1>2 DEF Expected
<1>3. CASE Compressible(delta, start, end, sz)
  <2>1. PICK x, p : x = Runs(delta, start, end, sz).dst /\ p = Runs(delta, start, end, sz).next
    OBVIOUS
  <2>2. frame' = [addr |-> start, data |-> x, compressed |-> TRUE] /\ start' = p
    BY <1>3, <2>1 DEF MakeDataFrame
  <2>3. Stands(delta, start, end, sz, x, p) /\ start < p /\ Len(x) < p - start /\ Len(x) <= MaxData
    BY <1>1, <1>3, <2>1, MakeCompressed DEF MakeDataFrame
  <2>4. /\ p \in Nat /\ p <= end + 1 /\ x \in Seq(Nat)
        /\ WellFormed(x) /\ Decode(x) = Bytes(delta, start, p - start)
    BY <2>3 DEF Stands
  <2>5. /\ frame'.addr = start /\ frame'.data = x /\ frame'.compressed = TRUE
        /\ frame' = [addr |-> frame'.addr, data |-> frame'.data, compressed |-> frame'.compressed]
    BY <2>2
  <2>6. RangeOk'
    BY <1>0, <1>1, <1>2, <2>2, <2>3, <2>4 DEF RangeOk
  <2>7. FrameStands'
    BY <1>0, <1>2, <2>2, <2>3, <2>4, <2>5 DEF FrameStands
  <2>8. frame' # NoFrame
    BY <2>5 DEF NoFrame
  <2>9. newdata' = Expected(start)
    BY <1>1, <1>2
  <2>10. Expected(frame.addr)' = Expected(start)
    BY <1>2, <2>5 DEF Expected
  <2> QED  BY <2>6, <2>7, <2>8, <2>9, <2>10 DEF CodecInv, CarriesRange, NoFrame
<1>4. CASE ~Compressible(delta, start, end, sz)
  <2>1. PICK n : n = AtMost(end - start + 1, sz)
    OBVIOUS
  <2>2. n \in Nat /\ n # 0 /\ n <= end - start + 1 /\ n <= sz
    BY <1>0, <2>1 DEF AtMost
  <2>3. frame' = [addr |-> start, data |-> Bytes(delta, start, n), compressed |-> FALSE]
        /\ start' = start + n
    BY <1>4, <2>1 DEF MakeDataFrame
  <2>4. PICK x : x = Bytes(delta, start, n)
    OBVIOUS
  <2>5. x \in Seq(Nat) /\ Len(x) = n
    <3>1. InBuf(delta, start, end)
      BY <1>1, CodecAssumption DEF InBuf, Addr, RangeOk
    <3>2. \A b \in start .. start + n - 1 : b \in start .. end
      BY <1>0, <2>2
    <3>3. \A b \in start .. start + n - 1 : delta[b] \in Nat
      BY <3>1, <3>2, InBufFacts
    <3> QED  BY <1>0, <2>2, <2>4, <3>3, BytesFacts
  <2>6. /\ frame'.addr = start /\ frame'.data = x /\ frame'.compressed = FALSE
        /\ frame' = [addr |-> frame'.addr, data |-> frame'.data, compressed |-> frame'.compressed]
    BY <2>3, <2>4
  <2>7. RangeOk'
    <3>1. start' \in Nat /\ first <= start' /\ start' <= end + 1
      BY <1>0, <2>2, <2>3
    <3> QED  BY <1>1, <1>2, <3>1 DEF RangeOk
  <2>8. FrameStands'
    <3>1. start' - start = n /\ start < start' /\ n <= MaxData
      BY <1>0, <2>2, <2>3, CodecAssumption
    <3>2. x = Bytes(delta, start, start' - start)
      BY <2>4, <3>1
    <3> QED  BY <1>0, <1>2, <2>5, <2>6, <3>1, <3>2 DEF FrameStands
  <2>9. frame' # NoFrame
    <3>1. frame'.data # <<>>
      BY <2>2, <2>5, <2>6
    <3> QED  BY <3>1 DEF NoFrame
  <2>10. newdata' = Expected(start)
    BY <1>1, <1>2
  <2>11. Expected(frame.addr)' = Expected(start)
    BY <1>2, <2>6 DEF Expected
  <2> QED  BY <2>7, <2>8, <2>9, <2>10, <2>11 DEF CodecInv, CarriesRange, NoFrame
<1> QED  BY <1>3, <1>4

LEMMA CodecStore ==
    ASSUME CodecInv, StoreDataFrame
    PROVE  CodecInv'
<1>1. /\ RangeOk /\ FrameStands /\ newdata = Expected(frame.addr) /\ frame # NoFrame
      /\ frame' = NoFrame /\ UNCHANGED <<delta, start, end, first, base, isdelta>>
  BY DEF CodecInv, StoreDataFrame, CarriesRange
<1>2. /\ frame.addr \in Nat /\ first <= frame.addr /\ frame.addr <= start /\ start \in Nat
      /\ first \in Nat /\ first <= start
  BY <1>1 DEF FrameStands, RangeOk
<1>3. newdata' = Store(newdata, frame.addr, Bytes(delta, frame.addr, start - frame.addr), isdelta)
  BY <1>1 DEF StoreDataFrame, FrameStands
<1>4. newdata' = Expected(start)
  BY <1>1, <1>2, <1>3, ExpectedOn
<1>5. newdata' \in [Addr -> Byte]
  BY <1>1, <1>2, <1>4, ExpectedTyped
<1>6. RangeOk'
  BY <1>1, <1>5 DEF RangeOk
<1>7. Expected(start)' = Expected(start)
  BY <1>1 DEF Expected
<1> QED  BY <1>1, <1>4, <1>6, <1>7 DEF CodecInv, CarriesRange, NoFrame

\* Whatever ioc_make_data_frame and ioc_store_data_frame do, the frame in
\* the stream stands for exactly the bytes taken off the range, and is
\* compressed only if it can be taken apart again.
THEOREM CodecInvariance == Spec => []CodecInv
<1>1. CodecInv /\ [Next]_vars => CodecInv'
  <2> SUFFICES ASSUME CodecInv, [Next]_vars PROVE CodecInv'
    OBVIOUS
  <2>1. ASSUME NEW sz \in 1 .. MaxData, MakeDataFrame(sz) PROVE CodecInv'
    BY <2>1, CodecMake
  <2>2. CASE StoreDataFrame
    BY <2>2, CodecStore
  <2>3. CASE UNCHANGED vars
    BY <2>3 DEF vars, CodecInv, RangeOk, FrameStands, CarriesRange, Expected
  <2> QED  BY <2>1, <2>2, <2>3 DEF Next
<1> QED  BY CodecInit, <1>1, PTL DEF Spec

\* No byte of the range is sent twice, skipped or touched from outside, by
\* any cutting into frames and any mixture of compressed and plain ones.
THEOREM RangeIsCarried == Spec => []CarriesRange
<1>1. CodecInv => CarriesRange
  BY DEF CodecInv
<1> QED  BY <1>1, CodecInvariance, PTL

\* ioc_compress never writes past the data area of the frame, and a frame is
\* sent compressed only when that is shorter.
THEOREM FramesFit == Spec => []FrameFits
<1>1. CodecInv => FrameFits
  <2> SUFFICES ASSUME CodecInv PROVE FrameFits
    OBVIOUS
  <2>1. CASE frame = NoFrame
    <3>1. frame.data = <<>> /\ frame.compressed = FALSE
      BY <2>1 DEF NoFrame
    <3> QED  BY <3>1, CodecAssumption DEF FrameFits
  <2>2. CASE FrameStands
    BY <2>2 DEF FrameStands, FrameFits
  <2> QED  BY <2>1, <2>2 DEF CodecInv
<1> QED  BY <1>1, CodecInvariance, PTL

\* A frame that ioc_make_data_frame sent compressed is never the corrupt data
\* that makes ioc_store_data_frame close the connection.
NeverCorrupt == frame.compressed => WellFormed(frame.data)

THEOREM CompressedIsWellFormed == Spec => []NeverCorrupt
<1>1. CodecInv => NeverCorrupt
  BY DEF CodecInv, FrameStands, NoFrame, NeverCorrupt
<1> QED  BY <1>1, CodecInvariance, PTL

\* Every frame takes at least one byte off the range and none past its end,
\* whatever room there is: ioc_make_data_frame never sends an empty frame.
FrameAdvances == frame = NoFrame /\ frame' # NoFrame => start < start' /\ start' <= end + 1

THEOREM FramesAdvance == Spec => [][FrameAdvances]_vars
<1>1. CodecInv /\ CodecInv' /\ [Next]_vars => [FrameAdvances]_vars
  <2> SUFFICES ASSUME CodecInv, CodecInv', [Next]_vars, frame = NoFrame, frame' # NoFrame
               PROVE  start < start' /\ start' <= end + 1
    BY DEF FrameAdvances
  <2>1. ASSUME NEW sz \in 1 .. MaxData, MakeDataFrame(sz)
        PROVE  start < start' /\ start' <= end + 1
    <3>1. start' <= (end + 1)' /\ frame'.addr < start'
      BY DEF CodecInv, RangeOk, FrameStands
    <3>2. end' = end /\ frame'.addr = start
      BY <2>1 DEF MakeDataFrame
    <3> QED  BY <3>1, <3>2
  <2>2. ~StoreDataFrame
    BY DEF StoreDataFrame
  <2>3. ~UNCHANGED vars
    BY DEF vars
  <2> QED  BY <2>1, <2>2, <2>3 DEF Next
<1> QED  BY <1>1, CodecInvariance, PTL DEF Spec

=============================================================================
