--------------------------- MODULE MbInfo_proofs ----------------------------
(***************************************************************************)
(* Proof that the lists, cursors and requests of memory block info stay    *)
(* consistent and that no buffer is ever tied to a block of another name,  *)
(* for every set of names and every size of requests; and that data finds  *)
(* its target and removed blocks are gone at the upper end, for devices    *)
(* that wait for the upper end before they go and come back.               *)
(***************************************************************************)
EXTENDS MCMbInfo, TLAPS, SequenceTheorems, WellFoundedInduction

----------------------------------------------------------------------------
(* Recursion over a sequence.                                              *)

\* A non-empty set of naturals has a least element.
LEMMA LeastNat ==
    ASSUME NEW S, S \subseteq Nat, S # {}
    PROVE  \E x \in S : \A y \in S : x <= y
<1> DEFINE R == OpToRel(<, Nat)
<1>1. PICK x \in S : \A y \in S : ~(<<y, x>> \in R)
  <2>1. IsWellFoundedOn(R, Nat)
    BY NatLessThanWellFounded
  <2> HIDE DEF R
  <2> QED  BY <2>1, WFMin, Zenon
<1>2. \A y \in S : ~(y < x)
  BY <1>1 DEF OpToRel
<1> HIDE DEF R
<1> QED  BY <1>2

\* What holds of 0 and goes on from each number to the next holds of all.
LEMMA Upwards ==
    ASSUME NEW n \in Nat, NEW S, 0 \in S, \A k \in 1 .. n : k - 1 \in S => k \in S
    PROVE  \A k \in 0 .. n : k \in S
<1> DEFINE B == {k \in 0 .. n : k \notin S}
<1>1. SUFFICES ASSUME B # {} PROVE FALSE
  OBVIOUS
<1>2. B \subseteq Nat
  OBVIOUS
<1>3. PICK k \in B : \A y \in B : k <= y
  <2> HIDE DEF B
  <2> QED  BY <1>1, <1>2, LeastNat
<1>4. k \in 1 .. n /\ k - 1 \in 0 .. n /\ k - 1 \notin B
  BY <1>3
<1> QED  BY <1>3, <1>4

\* A function defined by recursion up to n.
Defined(V, v, n, G) ==
    \E f \in [0 .. n -> V] : f[0] = v /\ \A i \in 1 .. n : f[i] = G[i][f[i - 1]]

LEMMA RecursionUpTo ==
    ASSUME NEW V, NEW v \in V, NEW n \in Nat, NEW G \in [1 .. n -> [V -> V]]
    PROVE  Defined(V, v, n, G)
<1> DEFINE Fits(k, f) == f \in [0 .. k -> V] /\ f[0] = v /\ \A i \in 1 .. k : f[i] = G[i][f[i - 1]]
           S == {k \in 0 .. n : \E f : Fits(k, f)}
<1>1. 0 \in S
  <2>1. Fits(0, [i \in 0 .. 0 |-> v])
    OBVIOUS
  <2> HIDE DEF Fits
  <2> QED  BY <2>1
<1>2. ASSUME NEW k \in 1 .. n, k - 1 \in S
      PROVE  k \in S
  <2>1. PICK f : Fits(k - 1, f)
    BY <1>2
  <2>2. f[k - 1] \in V /\ G[k][f[k - 1]] \in V
    <3>1. k - 1 \in 0 .. k - 1
      BY <1>2
    <3>2. f[k - 1] \in V
      BY <2>1, <3>1
    <3> QED  BY <3>2
  <2>x. PICK x \in V : x = G[k][f[k - 1]]
    BY <2>2
  <2>g. PICK g : g = [i \in 0 .. k |-> IF i = k THEN x ELSE f[i]]
    OBVIOUS
  <2>3. ASSUME NEW i \in 0 .. k, i # k
        PROVE  i \in 0 .. k - 1 /\ g[i] = f[i]
    BY <1>2, <2>3, <2>g
  <2>4. g \in [0 .. k -> V]
    BY <2>1, <2>3, <2>g
  <2>5. g[0] = v /\ g[k] = x
    BY <1>2, <2>1, <2>3, <2>g
  <2>6. ASSUME NEW i \in 1 .. k
        PROVE  g[i] = G[i][g[i - 1]]
    <3>1. g[i - 1] = f[i - 1]
      BY <2>3
    <3>2. CASE i = k
      BY <2>5, <2>x, <3>1, <3>2
    <3>3. CASE i # k
      <4>1. i \in 1 .. k - 1
        BY <3>3
      <4> QED  BY <2>1, <2>3, <3>1, <3>3, <4>1
    <3> QED  BY <3>2, <3>3
  <2>7. Fits(k, g)
    BY <2>4, <2>5, <2>6
  <2> HIDE DEF Fits
  <2> QED  BY <2>7
<1>3. \A k \in 0 .. n : k \in S
  <2> HIDE DEF S
  <2> QED  BY <1>1, <1>2, Upwards
<1>4. n \in S
  <2> HIDE DEF S
  <2> QED  BY <1>3
<1> QED  BY <1>4 DEF Defined

----------------------------------------------------------------------------
(* Lists of blocks and buffers.                                            *)

\* The elements of a list.
Elements(list) == {list[i] : i \in 1 .. Len(list)}

Distinct(list) == \A i, j \in 1 .. Len(list) : list[i].id = list[j].id => i = j

\* What the recursion of KeptUpTo says.
KeptBy(list, gone, f) ==
    f = [k \in 0 .. Len(list) |->
            IF k = 0 THEN <<>>
            ELSE IF list[k].id \in gone THEN f[k - 1]
            ELSE Append(f[k - 1], list[k])]

LEMMA KeptEquation ==
    ASSUME NEW S, NEW list \in Seq(S), NEW gone
    PROVE  KeptBy(list, gone, KeptUpTo(list, gone))
<1>1. KeptUpTo(list, gone) = CHOOSE f : KeptBy(list, gone, f)
  BY DEF KeptUpTo, KeptBy
<1>2. Len(list) \in Nat /\ <<>> \in Seq(S) /\ \A i \in 1 .. Len(list) : list[i] \in S
  OBVIOUS
<1>g. PICK G : G = [i \in 1 .. Len(list) |->
                      [x \in Seq(S) |-> IF list[i].id \in gone THEN x ELSE Append(x, list[i])]]
  OBVIOUS
<1>3. G \in [1 .. Len(list) -> [Seq(S) -> Seq(S)]]
  <2>1. ASSUME NEW i \in 1 .. Len(list), NEW x \in Seq(S)
        PROVE  (IF list[i].id \in gone THEN x ELSE Append(x, list[i])) \in Seq(S)
    BY <1>2
  <2> QED  BY <1>g, <2>1
<1>4. PICK f \in [0 .. Len(list) -> Seq(S)] :
         f[0] = <<>> /\ \A i \in 1 .. Len(list) : f[i] = G[i][f[i - 1]]
  <2>n. PICK n \in Nat : n = Len(list)
    BY <1>2
  <2>V. PICK V : V = Seq(S)
    OBVIOUS
  <2>v. PICK v \in V : v = <<>>
    BY <1>2, <2>V
  <2>1. G \in [1 .. n -> [V -> V]]
    BY <1>3, <2>n, <2>V
  <2>2. \E f \in [0 .. n -> V] : f[0] = v /\ \A i \in 1 .. n : f[i] = G[i][f[i - 1]]
    BY <2>1, RecursionUpTo DEF Defined
  <2> QED  BY <2>2, <2>n, <2>v, <2>V
<1>5. ASSUME NEW k \in 0 .. Len(list)
      PROVE  f[k] = IF k = 0 THEN <<>>
                    ELSE IF list[k].id \in gone THEN f[k - 1]
                    ELSE Append(f[k - 1], list[k])
  <2>1. CASE k = 0
    BY <1>4, <2>1
  <2>2. CASE k # 0
    <3>1. k \in 1 .. Len(list) /\ k - 1 \in 0 .. Len(list)
      BY <1>2, <2>2
    <3>2. f[k] = G[k][f[k - 1]] /\ f[k - 1] \in Seq(S)
      BY <1>4, <3>1
    <3> QED  BY <1>g, <2>2, <3>1, <3>2
  <2> QED  BY <2>1, <2>2
<1>6. KeptBy(list, gone, f)
  <2>1. f = [k \in 0 .. Len(list) |-> f[k]]
    BY <1>4
  <2>g. PICK g : g = [k \in 0 .. Len(list) |->
                        IF k = 0 THEN <<>>
                        ELSE IF list[k].id \in gone THEN f[k - 1]
                        ELSE Append(f[k - 1], list[k])]
    OBVIOUS
  <2>2. g = [k \in 0 .. Len(list) |-> g[k]]
    BY <2>g
  <2>3. \A k \in 0 .. Len(list) : g[k] = f[k]
    BY <1>5, <2>g
  <2>4. f = g
    BY <2>1, <2>2, <2>3
  <2> QED  BY <2>4, <2>g DEF KeptBy
<1> QED  BY <1>1, <1>6

\* Without keeps what is not gone, and no id twice.
LEMMA WithoutFacts ==
    ASSUME NEW S, NEW list \in Seq(S), NEW gone
    PROVE  /\ Without(list, gone) \in Seq(S)
           /\ Elements(Without(list, gone)) = {x \in Elements(list) : x.id \notin gone}
           /\ Distinct(list) => Distinct(Without(list, gone))
<1>h. PICK h : h = KeptUpTo(list, gone)
  OBVIOUS
<1>0. Len(list) \in Nat /\ \A i \in 1 .. Len(list) : list[i] \in S
  OBVIOUS
<1>1. KeptBy(list, gone, h)
  BY <1>h, KeptEquation
<1>2. /\ h[0] = <<>>
      /\ \A k \in 1 .. Len(list) :
            h[k] = IF list[k].id \in gone THEN h[k - 1] ELSE Append(h[k - 1], list[k])
  <2>1. 0 \in 0 .. Len(list) /\ \A k \in 1 .. Len(list) : k \in 0 .. Len(list) /\ k # 0
    BY <1>0
  <2> QED  BY <1>1, <2>1 DEF KeptBy
<1> DEFINE P(k) == /\ h[k] \in Seq(S)
                   /\ \A j \in 1 .. Len(h[k]) : \E i \in 1 .. k : h[k][j] = list[i] /\ list[i].id \notin gone
                   /\ \A i \in 1 .. k : list[i].id \notin gone => \E j \in 1 .. Len(h[k]) : h[k][j] = list[i]
                   /\ Distinct(list) => Distinct(h[k])
           Q == {k \in 0 .. Len(list) : P(k)}
<1>3. P(0)
  BY <1>2 DEF Distinct
<1>4. ASSUME NEW k \in 1 .. Len(list), P(k - 1)
      PROVE  P(k)
  <2>1. CASE list[k].id \in gone
    <3>1. h[k] = h[k - 1]
      BY <1>2, <2>1
    <3>2. \A i \in 1 .. k - 1 : i \in 1 .. k
      BY <1>0
    <3>3. \A i \in 1 .. k : i # k => i \in 1 .. k - 1
      BY <1>0
    <3>p. PICK p \in Seq(S) : p = h[k - 1]
      BY <1>4
    <3>4. /\ \A j \in 1 .. Len(p) : \E i \in 1 .. k - 1 : p[j] = list[i] /\ list[i].id \notin gone
          /\ \A i \in 1 .. k - 1 : list[i].id \notin gone => \E j \in 1 .. Len(p) : p[j] = list[i]
          /\ Distinct(list) => Distinct(p)
      BY <1>4, <3>p
    <3>5. \A j \in 1 .. Len(p) : \E i \in 1 .. k : p[j] = list[i] /\ list[i].id \notin gone
      BY <3>2, <3>4
    <3>6. \A i \in 1 .. k : list[i].id \notin gone => \E j \in 1 .. Len(p) : p[j] = list[i]
      BY <2>1, <3>3, <3>4
    <3>7. h[k] = p
      BY <3>1, <3>p
    <3> QED  BY <3>4, <3>5, <3>6, <3>7
  <2>2. CASE list[k].id \notin gone
    <3>p. PICK p \in Seq(S) : p = h[k - 1]
      BY <1>4
    <3>q. PICK q : q = h[k]
      OBVIOUS
    <3>n. PICK n \in Nat : n = Len(p)
      OBVIOUS
    <3>1. q = Append(p, list[k]) /\ list[k] \in S
      BY <1>0, <1>2, <2>2, <3>p, <3>q
    <3>2. /\ q \in Seq(S) /\ Len(q) = n + 1
          /\ q[n + 1] = list[k] /\ \A j \in 1 .. n : q[j] = p[j]
      BY <3>1, <3>n
    <3>3. ASSUME NEW j \in 1 .. n
          PROVE  \E i \in 1 .. k - 1 : q[j] = list[i] /\ list[i].id \notin gone
      BY <1>4, <3>p, <3>n, <3>2
    <3>4. ASSUME NEW j \in 1 .. Len(q)
          PROVE  \E i \in 1 .. k : q[j] = list[i] /\ list[i].id \notin gone
      <4>1. CASE j = n + 1
        BY <1>0, <2>2, <3>2, <4>1
      <4>2. CASE j # n + 1
        <5>1. j \in 1 .. n
          BY <3>2, <4>2
        <5>2. PICK i \in 1 .. k - 1 : q[j] = list[i] /\ list[i].id \notin gone
          BY <3>3, <5>1
        <5> QED  BY <1>0, <5>2
      <4> QED  BY <4>1, <4>2
    <3>5. ASSUME NEW i \in 1 .. k, list[i].id \notin gone
          PROVE  \E j \in 1 .. Len(q) : q[j] = list[i]
      <4>1. CASE i = k
        BY <3>2, <4>1
      <4>2. CASE i # k
        <5>1. i \in 1 .. k - 1
          BY <1>0, <4>2
        <5>2. PICK j \in 1 .. n : p[j] = list[i]
          BY <1>4, <3>5, <3>p, <3>n, <5>1
        <5> QED  BY <3>2, <5>2
      <4> QED  BY <4>1, <4>2
    <3>6. ASSUME Distinct(list), NEW j1 \in 1 .. Len(q), NEW j2 \in 1 .. Len(q), q[j1].id = q[j2].id
          PROVE  j1 = j2
      <4>0. Distinct(p)
        BY <1>4, <3>6, <3>p
      <4>1. ASSUME NEW j \in 1 .. n
            PROVE  q[j].id # list[k].id
        <5>1. PICK i \in 1 .. k - 1 : q[j] = list[i]
          BY <3>3
        <5>2. i \in 1 .. Len(list) /\ i # k
          BY <1>0
        <5> QED  BY <3>6, <5>1, <5>2 DEF Distinct
      <4>2. CASE j1 \in 1 .. n /\ j2 \in 1 .. n
        BY <3>2, <3>6, <3>n, <4>0, <4>2 DEF Distinct
      <4>3. CASE ~(j1 \in 1 .. n /\ j2 \in 1 .. n)
        BY <3>2, <3>6, <4>1, <4>3
      <4> QED  BY <4>2, <4>3
    <3> QED  BY <3>2, <3>4, <3>5, <3>6, <3>q DEF Distinct
  <2> QED  BY <2>1, <2>2
<1>5. 0 \in Q /\ \A k \in 1 .. Len(list) : k - 1 \in Q => k \in Q
  <2>1. 0 \in 0 .. Len(list) /\ \A k \in 1 .. Len(list) : k \in 0 .. Len(list)
    BY <1>0
  <2> HIDE DEF P
  <2>2. 0 \in Q
    BY <1>3, <2>1
  <2>3. ASSUME NEW k \in 1 .. Len(list), k - 1 \in Q
        PROVE  k \in Q
    <3>1. P(k - 1)
      BY <2>3
    <3> QED  BY <1>4, <2>1, <3>1
  <2> QED  BY <2>2, <2>3
<1>6. Len(list) \in Q
  <2> HIDE DEF Q
  <2>n. PICK n \in Nat : n = Len(list)
    BY <1>0
  <2>1. 0 \in Q /\ \A k \in 1 .. n : k - 1 \in Q => k \in Q
    BY <1>5, <2>n
  <2>2. \A k \in 0 .. n : k \in Q
    BY <2>1, Upwards
  <2>3. n \in 0 .. n
    OBVIOUS
  <2> QED  BY <2>2, <2>3, <2>n
<1>7. P(Len(list))
  <2> HIDE DEF P
  <2> QED  BY <1>6
<1>w. PICK w : w = Without(list, gone)
  OBVIOUS
<1>8. w = h[Len(list)]
  BY <1>h, <1>w DEF Without
<1>9. /\ w \in Seq(S)
      /\ \A j \in 1 .. Len(w) : \E i \in 1 .. Len(list) : w[j] = list[i] /\ list[i].id \notin gone
      /\ \A i \in 1 .. Len(list) : list[i].id \notin gone => \E j \in 1 .. Len(w) : w[j] = list[i]
      /\ Distinct(list) => Distinct(w)
  BY <1>7, <1>8
<1>10. Elements(w) = {x \in Elements(list) : x.id \notin gone}
  <2>1. ASSUME NEW x \in Elements(w)
        PROVE  x \in Elements(list) /\ x.id \notin gone
    <3>1. PICK j \in 1 .. Len(w) : x = w[j]
      BY DEF Elements
    <3> QED  BY <1>9, <3>1 DEF Elements
  <2>2. ASSUME NEW x \in Elements(list), x.id \notin gone
        PROVE  x \in Elements(w)
    <3>1. PICK i \in 1 .. Len(list) : x = list[i]
      BY DEF Elements
    <3>2. PICK j \in 1 .. Len(w) : w[j] = list[i]
      BY <1>9, <2>2, <3>1
    <3> QED  BY <3>1, <3>2 DEF Elements
  <2> QED  BY <2>1, <2>2
<1> QED  BY <1>9, <1>10, <1>w

\* Lists one element longer, one element shorter, and empty.
LEMMA ElementFacts ==
    ASSUME NEW S, NEW list \in Seq(S)
    PROVE  /\ Elements(list) \subseteq S /\ Range(list) = Elements(list)
           /\ Elements(<<>>) = {}
           /\ \A x \in S : Append(list, x) \in Seq(S) /\ Elements(Append(list, x)) = Elements(list) \union {x}
           /\ list # <<>> => /\ Head(list) \in Elements(list)
                             /\ Tail(list) \in Seq(S) /\ Elements(Tail(list)) \subseteq Elements(list)
<1>n. PICK n \in Nat : n = Len(list)
  OBVIOUS
<1>1. Elements(list) \subseteq S /\ Range(list) = Elements(list) /\ Elements(<<>>) = {}
  BY DEF Elements, Range
<1>2. ASSUME NEW x \in S
      PROVE  Append(list, x) \in Seq(S) /\ Elements(Append(list, x)) = Elements(list) \union {x}
  <2>a. PICK a : a = Append(list, x)
    OBVIOUS
  <2>1. /\ a \in Seq(S) /\ Len(a) = n + 1 /\ a[n + 1] = x
        /\ \A i \in 1 .. n : a[i] = list[i]
    BY <1>n, <2>a
  <2>2. ASSUME NEW y \in Elements(a)
        PROVE  y \in Elements(list) \union {x}
    <3>1. PICK i \in 1 .. n + 1 : y = a[i]
      BY <2>1 DEF Elements
    <3>2. i = n + 1 \/ i \in 1 .. n
      OBVIOUS
    <3> QED  BY <1>n, <2>1, <3>1, <3>2 DEF Elements
  <2>3. ASSUME NEW y \in Elements(list)
        PROVE  y \in Elements(a)
    <3>1. PICK i \in 1 .. n : y = list[i]
      BY <1>n DEF Elements
    <3>2. i \in 1 .. n + 1
      OBVIOUS
    <3> QED  BY <2>1, <3>1, <3>2 DEF Elements
  <2>4. x \in Elements(a)
    <3>1. n + 1 \in 1 .. n + 1
      OBVIOUS
    <3> QED  BY <2>1, <3>1 DEF Elements
  <2> QED  BY <2>1, <2>2, <2>3, <2>4, <2>a
<1>3. ASSUME list # <<>>
      PROVE  /\ Head(list) \in Elements(list)
             /\ Tail(list) \in Seq(S) /\ Elements(Tail(list)) \subseteq Elements(list)
  <2>1. n # 0 /\ Head(list) = list[1]
    BY <1>3, <1>n
  <2>2. Head(list) \in Elements(list)
    <3>1. 1 \in 1 .. n
      BY <2>1
    <3> QED  BY <1>n, <2>1, <3>1 DEF Elements
  <2>a. PICK a : a = Tail(list)
    OBVIOUS
  <2>3. a \in Seq(S) /\ Len(a) = n - 1 /\ \A i \in 1 .. n - 1 : a[i] = list[i + 1]
    BY <1>3, <1>n, <2>a
  <2>4. ASSUME NEW y \in Elements(a)
        PROVE  y \in Elements(list)
    <3>1. PICK i \in 1 .. n - 1 : y = a[i]
      BY <2>3 DEF Elements
    <3>2. i + 1 \in 1 .. n
      OBVIOUS
    <3> QED  BY <1>n, <2>3, <3>1, <3>2 DEF Elements
  <2> QED  BY <2>2, <2>3, <2>4, <2>a
<1> QED  BY <1>1, <1>2, <1>3

\* Ids in terms of elements.
LEMMA IdsFacts ==
    ASSUME NEW S, NEW list \in Seq(S)
    PROVE  /\ \A x \in Elements(list) : x.id \in Ids(list)
           /\ \A i \in Ids(list) : \E x \in Elements(list) : x.id = i
BY DEF Ids, Elements

\* In a list of distinct ids an id stands for one element.
LEMMA DistinctElements ==
    ASSUME NEW S, NEW list \in Seq(S), Distinct(list),
           NEW x \in Elements(list), NEW y \in Elements(list), x.id = y.id
    PROVE  x = y
<1>1. PICK i \in 1 .. Len(list) : x = list[i]
  BY DEF Elements
<1>2. PICK j \in 1 .. Len(list) : y = list[j]
  BY DEF Elements
<1> QED  BY <1>1, <1>2 DEF Distinct

LEMMA DistinctAppend ==
    ASSUME NEW S, NEW list \in Seq(S), Distinct(list), NEW x \in S,
           \A y \in Elements(list) : y.id # x.id
    PROVE  Distinct(Append(list, x))
<1>n. PICK n \in Nat : n = Len(list)
  OBVIOUS
<1>a. PICK a : a = Append(list, x)
  OBVIOUS
<1>1. Len(a) = n + 1 /\ a[n + 1] = x /\ \A i \in 1 .. n : a[i] = list[i]
  BY <1>n, <1>a
<1>2. \A i \in 1 .. n : list[i].id # x.id
  BY <1>n DEF Elements
<1>3. ASSUME NEW i \in 1 .. n + 1, NEW j \in 1 .. n + 1, a[i].id = a[j].id
      PROVE  i = j
  <2>1. CASE i \in 1 .. n /\ j \in 1 .. n
    BY <1>n, <1>1, <1>3, <2>1 DEF Distinct
  <2>2. CASE ~(i \in 1 .. n /\ j \in 1 .. n)
    BY <1>1, <1>2, <1>3, <2>2
  <2> QED  BY <2>1, <2>2
<1> QED  BY <1>1, <1>3, <1>a DEF Distinct

\* Where a cursor goes: to an element that is not gone, or to the end.
LEMMA AdvanceFacts ==
    ASSUME NEW S, NEW list \in Seq(S), NEW cur, NEW gone
    PROVE  \/ Advance(list, cur, gone) = 0
           \/ \E x \in Elements(list) : x.id = Advance(list, cur, gone) /\ x.id \notin gone
<1> DEFINE kept == {i \in 1 .. Len(list) :
                      (\E j \in 1 .. i : list[j].id = cur) /\ list[i].id \notin gone}
<1>1. CASE kept = {}
  BY <1>1 DEF Advance
<1>2. CASE kept # {}
  <2>1. kept \subseteq Nat /\ kept \subseteq 1 .. Len(list)
    OBVIOUS
  <2>3. \A i \in kept : list[i] \in Elements(list) /\ list[i].id \notin gone
    BY DEF Elements
  <2>2. Advance(list, cur, gone) = list[CHOOSE i \in kept : \A j \in kept : i <= j].id
    BY <1>2 DEF Advance
  <2> HIDE DEF kept
  <2>4. \E i \in kept : \A j \in kept : i <= j
    BY <1>2, <2>1, LeastNat
  <2>5. PICK i \in kept : i = CHOOSE k \in kept : \A j \in kept : k <= j
    BY <2>4
  <2> QED  BY <2>2, <2>3, <2>5
<1> QED  BY <1>1, <1>2

----------------------------------------------------------------------------
(* Requests to remove blocks.                                              *)

Request == {p \in Seq(Nat) : Len(p) \in 1 .. PackN}

\* A request is never longer than IOC_PACK_N_REQUESTS.
LEMMA AddRequestType ==
    ASSUME NEW q \in Seq(Request), NEW id \in Nat
    PROVE  AddRequest(q, id) \in Seq(Request)
<1>n. PICK n \in Nat : n = Len(q)
  OBVIOUS
<1>0. PackN \in Nat \ {0}
  BY MbInfoAssumption
<1>1. CASE q # <<>> /\ Len(q[n]) < PackN
  <2>1. n \in 1 .. n /\ q[n] \in Request
    BY <1>1, <1>n
  <2>l. PICK l : l = q[n]
    OBVIOUS
  <2>a. PICK a : a = Append(l, id)
    OBVIOUS
  <2>2. l \in Seq(Nat) /\ Len(l) \in 1 .. PackN /\ Len(l) < PackN
    BY <1>1, <2>1, <2>l DEF Request
  <2>3. a \in Seq(Nat) /\ Len(a) = Len(l) + 1
    BY <2>2, <2>a
  <2>4. a \in Request
    BY <1>0, <2>2, <2>3 DEF Request
  <2>5. AddRequest(q, id) = [q EXCEPT ![n] = a]
    BY <1>1, <1>n, <2>l, <2>a DEF AddRequest
  <2>r. PICK r : r = [q EXCEPT ![n] = a]
    OBVIOUS
  <2>6. q \in [1 .. n -> Request]
    BY <1>n
  <2>7. r \in [1 .. n -> Request]
    BY <2>r, <2>4, <2>6
  <2>8. r \in Seq(Request)
    BY <2>7, SeqDef
  <2> QED  BY <2>5, <2>8, <2>r
<1>2. CASE ~(q # <<>> /\ Len(q[n]) < PackN)
  <2>a. PICK a : a = <<id>>
    OBVIOUS
  <2>1. a \in Seq(Nat) /\ Len(a) = 1
    BY <2>a
  <2>2. a \in Request
    <3>1. 1 \in 1 .. PackN
      BY <1>0
    <3> QED  BY <2>1, <3>1 DEF Request
  <2>3. AddRequest(q, id) = Append(q, a)
    BY <1>2, <1>n, <2>a DEF AddRequest
  <2> QED  BY <2>2, <2>3
<1> QED  BY <1>1, <1>2

\* What the recursion of RequestsUpTo says.
RequestsBy(q, ids, f) ==
    f = [k \in 0 .. Len(ids) |-> IF k = 0 THEN q ELSE AddRequest(f[k - 1], ids[k])]

LEMMA RequestsEquation ==
    ASSUME NEW q \in Seq(Request), NEW ids \in Seq(Nat)
    PROVE  RequestsBy(q, ids, RequestsUpTo(q, ids))
<1>1. RequestsUpTo(q, ids) = CHOOSE f : RequestsBy(q, ids, f)
  BY DEF RequestsUpTo, RequestsBy
<1>n. PICK n \in Nat : n = Len(ids)
  OBVIOUS
<1>V. PICK V : V = Seq(Request)
  OBVIOUS
<1>2. \A i \in 1 .. n : ids[i] \in Nat
  BY <1>n
<1>g. PICK G : G = [i \in 1 .. n |-> [x \in V |-> AddRequest(x, ids[i])]]
  OBVIOUS
<1>3. G \in [1 .. n -> [V -> V]]
  <2>1. ASSUME NEW i \in 1 .. n, NEW x \in V
        PROVE  AddRequest(x, ids[i]) \in V
    BY <1>2, <1>V, AddRequestType
  <2> QED  BY <1>g, <2>1
<1>4. PICK f \in [0 .. n -> V] : f[0] = q /\ \A i \in 1 .. n : f[i] = G[i][f[i - 1]]
  <2>v. PICK v \in V : v = q
    BY <1>V
  <2>1. \E f \in [0 .. n -> V] : f[0] = v /\ \A i \in 1 .. n : f[i] = G[i][f[i - 1]]
    <3>1. Defined(V, v, n, G)
      BY <1>3, RecursionUpTo
    <3> QED  BY <3>1 DEF Defined
  <2> QED  BY <2>1, <2>v
<1>5. ASSUME NEW k \in 0 .. n
      PROVE  f[k] = IF k = 0 THEN q ELSE AddRequest(f[k - 1], ids[k])
  <2>1. CASE k = 0
    BY <1>4, <2>1
  <2>2. CASE k # 0
    <3>1. k \in 1 .. n /\ k - 1 \in 0 .. n
      BY <2>2
    <3>2. f[k] = G[k][f[k - 1]] /\ f[k - 1] \in V
      BY <1>4, <3>1
    <3> QED  BY <1>g, <2>2, <3>1, <3>2
  <2> QED  BY <2>1, <2>2
<1>6. RequestsBy(q, ids, f)
  <2>1. f = [k \in 0 .. n |-> f[k]]
    BY <1>4
  <2>g. PICK g : g = [k \in 0 .. n |-> IF k = 0 THEN q ELSE AddRequest(f[k - 1], ids[k])]
    OBVIOUS
  <2>2. g = [k \in 0 .. n |-> g[k]]
    BY <2>g
  <2>3. \A k \in 0 .. n : g[k] = f[k]
    BY <1>5, <2>g
  <2>4. f = g
    BY <2>1, <2>2, <2>3
  <2> QED  BY <1>n, <2>4, <2>g DEF RequestsBy
<1> QED  BY <1>1, <1>6

LEMMA AddRequestsType ==
    ASSUME NEW q \in Seq(Request), NEW ids \in Seq(Nat)
    PROVE  AddRequests(q, ids) \in Seq(Request)
<1>n. PICK n \in Nat : n = Len(ids)
  OBVIOUS
<1>V. PICK V : V = Seq(Request)
  OBVIOUS
<1>2. \A i \in 1 .. n : ids[i] \in Nat
  BY <1>n
<1>7. PICK h : h = RequestsUpTo(q, ids)
  OBVIOUS
<1>8. RequestsBy(q, ids, h)
  BY <1>7, RequestsEquation
<1>9. h[0] = q /\ \A k \in 1 .. n : h[k] = AddRequest(h[k - 1], ids[k])
  <2>1. 0 \in 0 .. n /\ \A k \in 1 .. n : k \in 0 .. n /\ k # 0
    OBVIOUS
  <2> QED  BY <1>8, <1>n, <2>1 DEF RequestsBy
<1> DEFINE Q == {k \in 0 .. n : h[k] \in V}
<1>10. 0 \in Q
  BY <1>9, <1>V
<1>11. ASSUME NEW k \in 1 .. n, k - 1 \in Q
       PROVE  k \in Q
  <2>1. h[k - 1] \in Seq(Request)
    BY <1>11, <1>V
  <2>2. AddRequest(h[k - 1], ids[k]) \in V
    BY <1>2, <1>V, <2>1, AddRequestType
  <2> QED  BY <1>9, <2>2
<1>12. \A k \in 0 .. n : k \in Q
  <2> HIDE DEF Q
  <2> QED  BY <1>10, <1>11, Upwards
<1>13. n \in 0 .. n
  OBVIOUS
<1>14. h[n] \in V
  BY <1>12, <1>13
<1> QED  BY <1>14, <1>V, <1>7, <1>n DEF AddRequests

----------------------------------------------------------------------------
(* The inductive invariant.  Ids are never used twice (lastId), so what an *)
(* id in a frame or a buffer once meant it means as long as a block has    *)
(* it: this is what makes NoCrossWiring survive blocks that are deleted    *)
(* and created again while their ids are on the way.                       *)

SbufType == [id : Nat, rid : Nat, used : BOOLEAN]
TbufType == [id : Nat, rid : Nat]
InfoFrame == [t : {"info"}, id : Nat, name : Names]
DataFrame == [t : {"data"}, id : Nat]
RemoveFrame == [t : {"remove"}, ids : Request]
Frame == InfoFrame \union DataFrame \union RemoveFrame

Types ==
    /\ mblk \in [End -> Seq(BlockType)] /\ lastId \in [End -> Nat]
    /\ sbuf \in [End -> Seq(SbufType)] /\ tbuf \in [End -> Seq(TbufType)]
    /\ current \in Nat /\ scur \in Nat /\ tcur \in Nat
    /\ reqs \in Seq(Request)
    /\ line \in [End -> Seq(Frame)]
    /\ open \in [End -> BOOLEAN]

Blocks(e) == Elements(mblk[e])
Links(e) == Elements(sbuf[e]) \union Elements(tbuf[e])

\* The id is in use or was; a block that has it has this name.
Means(e, id, n) ==
    id <= lastId[e] /\ \A b \in Blocks(e) : b.id = id => b.name = n

\* A buffer belongs to a block, and its remote id means a block of that name.
LinkOK(e, l) ==
    \E b \in Blocks(e) : b.id = l.id /\ Means(Other(e), l.rid, b.name)

BlocksOK == \A e \in End : /\ Distinct(mblk[e])
                           /\ \A b \in Blocks(e) : b.id <= lastId[e]
LinksOK == \A e \in End : \A l \in Links(e) : LinkOK(e, l)
FramesOK == \A e \in End : \A f \in Elements(line[e]) :
               f.t = "info" => Means(e, f.id, f.name)
CursorsOK ==
    /\ current \in Ids(mblk["L"]) \union {0}
    /\ scur \in Ids(sbuf["U"]) \union {0}
    /\ tcur \in Ids(tbuf["U"]) \union {0}

MbInv == Types /\ BlocksOK /\ LinksOK /\ FramesOK /\ CursorsOK

\* What every step does to the blocks: a new one has a new id.
BlockStep ==
    \A e \in End :
        /\ lastId[e] <= lastId'[e]
        /\ \A b \in Blocks(e)' : b \in Blocks(e) \/ b.id > lastId[e]

\* What an id means it goes on to mean.
LEMMA MeansStay ==
    ASSUME Types, Types', BlockStep, NEW e \in End, NEW id \in Nat, NEW n, Means(e, id, n)
    PROVE  Means(e, id, n)'
<1>1. lastId[e] \in Nat /\ lastId'[e] \in Nat /\ lastId[e] <= lastId'[e]
  BY DEF Types, BlockStep
<1>2. id <= lastId'[e]
  BY <1>1 DEF Means
<1>3. ASSUME NEW b \in Blocks(e)', b.id = id
      PROVE  b.name = n
  <2>1. b \in Blocks(e)
    BY <1>1, <1>3 DEF BlockStep, Means
  <2> QED  BY <1>3, <2>1 DEF Means
<1> QED  BY <1>2, <1>3 DEF Means

\* A frame is old, or info of a block its sender has.
LEMMA FramesStay ==
    ASSUME MbInv, Types', BlockStep,
           \A e \in End : \A f \in Elements(line'[e]) :
               f \in Elements(line[e]) \/ (f.t = "info" => Means(e, f.id, f.name)')
    PROVE  FramesOK'
<1> SUFFICES ASSUME NEW e \in End, NEW f \in Elements(line'[e]), f.t = "info",
                    f \in Elements(line[e])
             PROVE  Means(e, f.id, f.name)'
  BY DEF FramesOK
<1>1. Means(e, f.id, f.name)
  BY DEF MbInv, FramesOK
<1>2. f \in Frame
  <2>1. line[e] \in Seq(Frame)
    BY DEF MbInv, Types
  <2> QED  BY <2>1, ElementFacts
<1>3. f.id \in Nat
  BY <1>2 DEF Frame, InfoFrame, DataFrame, RemoveFrame
<1> QED  BY <1>1, <1>3, MeansStay DEF MbInv

\* A buffer is old, and its block is still there, or tied correctly.
LEMMA LinksStay ==
    ASSUME MbInv, Types', BlockStep,
           \A e \in End : \A l \in Links(e)' :
               \/ LinkOK(e, l)'
               \/ /\ \E k \in Links(e) : k.id = l.id /\ k.rid = l.rid
                  /\ \E b \in Blocks(e)' : b.id = l.id
    PROVE  LinksOK'
<1> SUFFICES ASSUME NEW e \in End, NEW l \in Links(e)',
                    \E k \in Links(e) : k.id = l.id /\ k.rid = l.rid,
                    \E b \in Blocks(e)' : b.id = l.id
             PROVE  LinkOK(e, l)'
  BY DEF LinksOK
<1>1. PICK k \in Links(e) : k.id = l.id /\ k.rid = l.rid
  OBVIOUS
<1>2. PICK c \in Blocks(e)' : c.id = l.id
  OBVIOUS
<1>3. PICK b \in Blocks(e) : b.id = l.id /\ Means(Other(e), l.rid, b.name)
  BY <1>1 DEF MbInv, LinksOK, LinkOK
<1>4. mblk[e] \in Seq(BlockType) /\ Distinct(mblk[e]) /\ lastId[e] \in Nat
  BY DEF MbInv, Types, BlocksOK
<1>5. b.id \in Nat /\ b.id <= lastId[e]
  <2>1. b \in BlockType
    BY <1>4, ElementFacts DEF Blocks
  <2>2. b.id \in Nat
    BY <2>1 DEF BlockType
  <2> QED  BY <2>2 DEF MbInv, BlocksOK
<1>6. c \in Blocks(e)
  BY <1>2, <1>3, <1>4, <1>5 DEF BlockStep
<1>7. c = b
  BY <1>2, <1>3, <1>4, <1>6, DistinctElements DEF Blocks
<1>8. Other(e) \in End
  BY DEF Other, End
<1>9. k.rid \in Nat
  <2>1. sbuf[e] \in Seq(SbufType) /\ tbuf[e] \in Seq(TbufType)
    BY DEF MbInv, Types
  <2>2. k \in SbufType \/ k \in TbufType
    BY <1>1, <2>1, ElementFacts DEF Links
  <2> QED  BY <2>2 DEF SbufType, TbufType
<1>10. Means(Other(e), l.rid, b.name)'
  BY <1>1, <1>3, <1>8, <1>9, MeansStay DEF MbInv
<1> QED  BY <1>2, <1>7, <1>10 DEF LinkOK

\* Steps that leave the blocks alone.
LEMMA SameBlocks ==
    ASSUME MbInv, mblk' = mblk, lastId' = lastId
    PROVE  BlockStep /\ BlocksOK'
<1>1. \A e \in End : lastId[e] \in Nat
  BY DEF MbInv, Types
<1>2. BlockStep
  BY <1>1 DEF BlockStep, Blocks
<1>3. BlocksOK'
  BY DEF MbInv, BlocksOK, Blocks
<1> QED  BY <1>2, <1>3

\* Each buffer has its block.
LEMMA Owners ==
    ASSUME MbInv, NEW e \in End
    PROVE  \A l \in Links(e) : l.id \in Ids(mblk[e]) /\ \E b \in Blocks(e) : b.id = l.id
<1>1. mblk[e] \in Seq(BlockType)
  BY DEF MbInv, Types
<1>2. ASSUME NEW l \in Links(e)
      PROVE  l.id \in Ids(mblk[e]) /\ \E b \in Blocks(e) : b.id = l.id
  <2>1. PICK b \in Blocks(e) : b.id = l.id
    BY DEF MbInv, LinksOK, LinkOK
  <2> QED  BY <1>1, <2>1, IdsFacts DEF Blocks
<1> QED  BY <1>2

----------------------------------------------------------------------------
(* The stream.                                                             *)

LEMMA PutFrames ==
    ASSUME Types, NEW e \in End, NEW f \in Frame, Put(e, f)
    PROVE  /\ line' \in [End -> Seq(Frame)]
           /\ \A d \in End : \A g \in Elements(line'[d]) :
                 g \in Elements(line[d]) \/ (d = e /\ g = f)
<1>s. PICK s : s = line[e]
  OBVIOUS
<1>1. line \in [End -> Seq(Frame)] /\ s \in Seq(Frame)
  BY <1>s DEF Types
<1>r. PICK r : r = IF open[Other(e)] THEN Append(s, f) ELSE s
  OBVIOUS
<1>2. line' = [line EXCEPT ![e] = r]
  BY <1>r, <1>s DEF Put
<1>3. r \in Seq(Frame) /\ \A g \in Elements(r) : g \in Elements(s) \/ g = f
  <2>1. CASE open[Other(e)]
    <3>1. r = Append(s, f)
      BY <1>r, <2>1
    <3> QED  BY <1>1, <3>1, ElementFacts
  <2>2. CASE ~open[Other(e)]
    BY <1>1, <1>r, <2>2
  <2> QED  BY <2>1, <2>2
<1>4. line' \in [End -> Seq(Frame)]
  BY <1>1, <1>2, <1>3
<1>5. ASSUME NEW d \in End, NEW g \in Elements(line'[d])
      PROVE  g \in Elements(line[d]) \/ (d = e /\ g = f)
  <2>1. CASE d = e
    BY <1>1, <1>2, <1>3, <1>s, <1>5, <2>1
  <2>2. CASE d # e
    BY <1>1, <1>2, <1>5, <2>2
  <2> QED  BY <2>1, <2>2
<1> QED  BY <1>4, <1>5

LEMMA TakeFrames ==
    ASSUME Types, NEW e \in End, NEW t, Incoming(e, t), Take(e)
    PROVE  /\ line' \in [End -> Seq(Frame)]
           /\ \A d \in End : \A g \in Elements(line'[d]) : g \in Elements(line[d])
           /\ Other(e) \in End
           /\ Head(line[Other(e)]) \in Elements(line[Other(e)])
           /\ Head(line[Other(e)]) \in Frame
           /\ Head(line[Other(e)]).t = t
<1>o. PICK o \in End : o = Other(e)
  BY DEF Other, End
<1>s. PICK s : s = line[o]
  OBVIOUS
<1>1. line \in [End -> Seq(Frame)] /\ s \in Seq(Frame)
  BY <1>s DEF Types
<1>2. s # <<>> /\ Head(s).t = t
  BY <1>o, <1>s DEF Incoming
<1>3. /\ Head(s) \in Elements(s) /\ Tail(s) \in Seq(Frame) /\ Elements(Tail(s)) \subseteq Elements(s)
      /\ Elements(s) \subseteq Frame
  BY <1>1, <1>2, ElementFacts
<1>r. PICK r : r = Tail(s)
  OBVIOUS
<1>4. line' = [line EXCEPT ![o] = r]
  BY <1>o, <1>s, <1>r DEF Take
<1>5. line' \in [End -> Seq(Frame)]
  BY <1>1, <1>3, <1>4, <1>r
<1>6. ASSUME NEW d \in End, NEW g \in Elements(line'[d])
      PROVE  g \in Elements(line[d])
  <2>1. CASE d = o
    BY <1>1, <1>3, <1>4, <1>s, <1>r, <1>6, <2>1
  <2>2. CASE d # o
    BY <1>1, <1>4, <1>6, <2>2
  <2> QED  BY <2>1, <2>2
<1> QED  BY <1>2, <1>3, <1>5, <1>6, <1>o, <1>s

\* What is read but leaves blocks and buffers alone.
LEMMA TakeOnly ==
    ASSUME MbInv, NEW e \in End, NEW t, Incoming(e, t), Take(e),
           UNCHANGED <<mblk, lastId, sbuf, tbuf, reqs, open>>, UNCHANGED cursors
    PROVE  MbInv'
<1>0. Types
  BY DEF MbInv
<1>1. /\ line' \in [End -> Seq(Frame)]
      /\ \A d \in End : \A g \in Elements(line'[d]) : g \in Elements(line[d])
  BY <1>0, TakeFrames
<1>2. Types'
  BY <1>0, <1>1 DEF Types, cursors
<1>3. BlockStep /\ BlocksOK'
  BY SameBlocks
<1>4. FramesOK'
  BY <1>1, <1>2, <1>3, FramesStay
<1>5. LinksOK'
  BY DEF MbInv, LinksOK, LinkOK, Links, Blocks, Means
<1>6. CursorsOK'
  BY DEF MbInv, CursorsOK, cursors
<1> QED  BY <1>2, <1>3, <1>4, <1>5, <1>6 DEF MbInv

----------------------------------------------------------------------------
(* The actions.                                                            *)

LEMMA InitInv == Init => MbInv
<1> SUFFICES ASSUME Init PROVE MbInv
  OBVIOUS
<1>n. PICK n \in Nat : n = Len(OwnNames)
  BY MbInfoAssumption
<1>1. \A i \in 1 .. n : OwnNames[i] \in Names
  BY <1>n, MbInfoAssumption DEF Names
<1>b. PICK own : own = [i \in 1 .. n |-> [id |-> i, name |-> OwnNames[i], dyn |-> FALSE]]
  OBVIOUS
<1>2. \A i \in 1 .. n : own[i] \in BlockType /\ own[i].id = i
  BY <1>1, <1>b DEF BlockType
<1>3. own \in Seq(BlockType) /\ Len(own) = n
  BY <1>2, <1>b
<1>4. mblk = [e \in End |-> IF e = "L" THEN <<>> ELSE own]
  BY <1>b, <1>n DEF Init
<1>5. lastId = [e \in End |-> IF e = "L" THEN 0 ELSE n]
  BY <1>n DEF Init
<1>6. \A e \in End : /\ sbuf[e] = <<>> /\ tbuf[e] = <<>> /\ line[e] = <<>>
  BY DEF Init
<1>7. Types
  <2>1. mblk \in [End -> Seq(BlockType)]
    BY <1>3, <1>4
  <2>2. lastId \in [End -> Nat]
    BY <1>5
  <2> QED  BY <2>1, <2>2 DEF Init, Types
<1>8. \A e \in End : Links(e) = {} /\ Elements(line[e]) = {}
  BY <1>6 DEF Links, Elements
<1>9. BlocksOK
  <2>1. mblk["L"] = <<>> /\ mblk["U"] = own /\ lastId["U"] = n
    BY <1>4, <1>5 DEF End
  <2>2. Distinct(mblk["L"]) /\ Blocks("L") = {}
    BY <2>1 DEF Distinct, Blocks, Elements
  <2>3. Distinct(mblk["U"])
    BY <1>2, <1>3, <2>1 DEF Distinct
  <2>4. \A b \in Blocks("U") : b.id <= lastId["U"]
    BY <1>2, <1>3, <2>1 DEF Blocks, Elements
  <2> QED  BY <2>2, <2>3, <2>4 DEF BlocksOK, End
<1>10. LinksOK /\ FramesOK
  BY <1>8 DEF LinksOK, FramesOK
<1>11. CursorsOK
  BY DEF Init, CursorsOK
<1> QED  BY <1>7, <1>9, <1>10, <1>11 DEF MbInv

\* Ids are numbers.
LEMMA IdsNat ==
    ASSUME Types, NEW e \in End
    PROVE  Ids(mblk[e]) \subseteq Nat /\ Ids(sbuf[e]) \subseteq Nat /\ Ids(tbuf[e]) \subseteq Nat
<1>1. mblk[e] \in Seq(BlockType) /\ sbuf[e] \in Seq(SbufType) /\ tbuf[e] \in Seq(TbufType)
  BY DEF Types
<1>2. Ids(mblk[e]) \subseteq Nat
  <2>1. \A x \in Elements(mblk[e]) : x \in BlockType
    BY <1>1, ElementFacts
  <2> QED  BY <1>1, <2>1, IdsFacts DEF BlockType
<1>3. Ids(sbuf[e]) \subseteq Nat
  <2>1. \A x \in Elements(sbuf[e]) : x \in SbufType
    BY <1>1, ElementFacts
  <2> QED  BY <1>1, <2>1, IdsFacts DEF SbufType
<1>4. Ids(tbuf[e]) \subseteq Nat
  <2>1. \A x \in Elements(tbuf[e]) : x \in TbufType
    BY <1>1, ElementFacts
  <2> QED  BY <1>1, <2>1, IdsFacts DEF TbufType
<1> QED  BY <1>2, <1>3, <1>4

\* A new block at one end.
LEMMA NewBlock ==
    ASSUME MbInv, NEW e \in End, NEW b \in BlockType, b.id = lastId[e] + 1,
           mblk' = [mblk EXCEPT ![e] = Append(@, b)],
           lastId' = [lastId EXCEPT ![e] = b.id]
    PROVE  /\ mblk' \in [End -> Seq(BlockType)] /\ lastId' \in [End -> Nat]
           /\ BlockStep /\ BlocksOK'
           /\ Blocks(e)' = Blocks(e) \union {b}
           /\ \A d \in End : Blocks(d) \subseteq Blocks(d)' /\ Ids(mblk[d]) \subseteq Ids(mblk'[d])
           /\ b.id \in Ids(mblk'[e])
<1>s. PICK s : s = mblk[e]
  OBVIOUS
<1>r. PICK r : r = Append(s, b)
  OBVIOUS
<1>1. /\ mblk \in [End -> Seq(BlockType)] /\ lastId \in [End -> Nat] /\ s \in Seq(BlockType)
      /\ Distinct(s) /\ \A c \in Elements(s) : c.id <= lastId[e]
  BY <1>s DEF MbInv, Types, BlocksOK, Blocks
<1>2. r \in Seq(BlockType) /\ Elements(r) = Elements(s) \union {b} /\ Elements(s) \subseteq BlockType
  BY <1>1, <1>r, ElementFacts
<1>3. mblk' = [mblk EXCEPT ![e] = r]
  BY <1>s, <1>r
<1>4. mblk' \in [End -> Seq(BlockType)] /\ mblk'[e] = r /\ \A d \in End : d # e => mblk'[d] = mblk[d]
  BY <1>1, <1>2, <1>3
<1>5. b.id \in Nat /\ \A c \in Elements(s) : c.id \in Nat
  BY <1>2 DEF BlockType
<1>6. /\ lastId' \in [End -> Nat] /\ lastId'[e] = lastId[e] + 1
      /\ \A d \in End : d # e => lastId'[d] = lastId[d]
  BY <1>1, <1>5
<1>7. Distinct(r)
  <2>1. lastId[e] \in Nat
    BY <1>1
  <2>2. \A c \in Elements(s) : c.id # b.id
    BY <1>1, <1>5, <2>1
  <2> QED  BY <1>1, <1>r, <2>2, DistinctAppend
<1>8. Blocks(e)' = Blocks(e) \union {b} /\ \A d \in End : d # e => Blocks(d)' = Blocks(d)
  BY <1>2, <1>4, <1>s DEF Blocks
<1>9. BlockStep
  <2>1. b.id > lastId[e] /\ \A d \in End : lastId[d] \in Nat
    BY <1>1
  <2> QED  BY <1>6, <1>8, <2>1 DEF BlockStep
<1>10. BlocksOK'
  <2>1. lastId[e] \in Nat
    BY <1>1
  <2>2. \A c \in Elements(r) : c.id <= lastId'[e]
    BY <1>1, <1>2, <1>5, <1>6, <2>1
  <2>3. ASSUME NEW d \in End, d # e
        PROVE  Distinct(mblk'[d]) /\ \A c \in Blocks(d)' : c.id <= lastId'[d]
    BY <1>4, <1>6, <1>8, <2>3 DEF MbInv, BlocksOK
  <2>4. Distinct(mblk'[e]) /\ \A c \in Blocks(e)' : c.id <= lastId'[e]
    BY <1>4, <1>7, <2>2 DEF Blocks
  <2> QED  BY <2>3, <2>4 DEF BlocksOK
<1>11. \A d \in End : Blocks(d) \subseteq Blocks(d)'
  BY <1>8
<1>12. ASSUME NEW d \in End, NEW i \in Ids(mblk[d])
       PROVE  i \in Ids(mblk'[d])
  <2>1. PICK c \in Blocks(d) : c.id = i
    BY <1>1, IdsFacts DEF Blocks
  <2> QED  BY <1>4, <1>11, <2>1, IdsFacts DEF Blocks
<1>13. b.id \in Ids(mblk'[e])
  BY <1>4, <1>8, IdsFacts DEF Blocks
<1> QED  BY <1>4, <1>6, <1>8, <1>9, <1>10, <1>11, <1>12, <1>13

LEMMA AddMblkInv ==
    ASSUME MbInv, NEW n \in Names, AddMblk(n)
    PROVE  MbInv'
<1>i. PICK id : id = lastId["L"] + 1
  OBVIOUS
<1>b. PICK b : b = [id |-> id, name |-> n, dyn |-> TRUE]
  OBVIOUS
<1>0. Types /\ "L" \in End /\ lastId["L"] \in Nat /\ current \in Nat
  BY DEF MbInv, Types, End
<1>1. id \in Nat /\ b \in BlockType /\ b.id = id
  BY <1>0, <1>i, <1>b DEF BlockType
<1>2. /\ mblk' = [mblk EXCEPT !["L"] = Append(@, b)]
      /\ lastId' = [lastId EXCEPT !["L"] = b.id]
      /\ current' = CursorToNew(id)
  BY <1>i, <1>b, <1>1 DEF AddMblk, UniqueId
<1>3. /\ mblk' \in [End -> Seq(BlockType)] /\ lastId' \in [End -> Nat]
      /\ BlockStep /\ BlocksOK'
      /\ \A d \in End : Blocks(d) \subseteq Blocks(d)' /\ Ids(mblk[d]) \subseteq Ids(mblk'[d])
      /\ id \in Ids(mblk'["L"])
  <2>1. /\ b.id = lastId["L"] + 1
        /\ mblk' = [mblk EXCEPT !["L"] = Append(@, b)]
        /\ lastId' = [lastId EXCEPT !["L"] = b.id]
    BY <1>1, <1>2, <1>i
  <2>2. /\ mblk' \in [End -> Seq(BlockType)] /\ lastId' \in [End -> Nat]
        /\ BlockStep /\ BlocksOK'
        /\ \A d \in End : Blocks(d) \subseteq Blocks(d)' /\ Ids(mblk[d]) \subseteq Ids(mblk'[d])
        /\ b.id \in Ids(mblk'["L"])
    BY <1>0, <1>1, <2>1, NewBlock, Zenon
  <2> QED  BY <1>1, <2>2
<1>4. current' \in Nat
  BY <1>0, <1>1, <1>2 DEF CursorToNew
<1>5. Types'
  BY <1>0, <1>3, <1>4 DEF Types, AddMblk
<1>6. FramesOK'
  BY <1>3, <1>5, FramesStay DEF AddMblk
<1>7. LinksOK'
  <2>1. \A e \in End : Links(e)' = Links(e)
    BY DEF AddMblk, Links
  <2>2. \A e \in End : \A l \in Links(e) : \E c \in Blocks(e)' : c.id = l.id
    BY <1>3, Owners
  <2> QED  BY <1>3, <1>5, <2>1, <2>2, LinksStay
<1>8. CursorsOK'
  <2>1. current' \in Ids(mblk'["L"]) \union {0}
    BY <1>0, <1>2, <1>3 DEF MbInv, CursorsOK, CursorToNew
  <2> QED  BY <2>1 DEF MbInv, CursorsOK, AddMblk
<1> QED  BY <1>3, <1>5, <1>6, <1>7, <1>8 DEF MbInv

\* Frames sent, buffers and blocks as they were.
LEMMA SendRemoveInv ==
    ASSUME MbInv, SendRemove
    PROVE  MbInv'
<1>f. PICK f : f = [t |-> "remove", ids |-> reqs[1]]
  OBVIOUS
<1>0. Types /\ "L" \in End /\ reqs \in Seq(Request) /\ reqs # <<>>
  BY DEF MbInv, Types, End, SendRemove
<1>1. reqs[1] \in Request /\ Tail(reqs) \in Seq(Request)
  BY <1>0
<1>2. f \in Frame /\ f.t = "remove"
  BY <1>1, <1>f DEF Frame, RemoveFrame
<1>3. /\ line' \in [End -> Seq(Frame)]
      /\ \A d \in End : \A g \in Elements(line'[d]) : g \in Elements(line[d]) \/ (d = "L" /\ g = f)
  <2>1. Put("L", f)
    BY <1>f DEF SendRemove
  <2> QED  BY <1>0, <1>2, <2>1, PutFrames
<1>4. Types'
  BY <1>0, <1>1, <1>3 DEF Types, SendRemove, cursors
<1>5. BlockStep /\ BlocksOK'
  BY SameBlocks DEF SendRemove
<1>6. FramesOK'
  <2>1. \A d \in End : \A g \in Elements(line'[d]) :
           g \in Elements(line[d]) \/ (g.t = "info" => Means(d, g.id, g.name)')
    BY <1>2, <1>3
  <2> QED  BY <1>4, <1>5, <2>1, FramesStay
<1>7. LinksOK'
  BY DEF MbInv, LinksOK, LinkOK, Links, Blocks, Means, SendRemove
<1>8. CursorsOK'
  BY DEF MbInv, CursorsOK, SendRemove, cursors
<1> QED  BY <1>4, <1>5, <1>6, <1>7, <1>8 DEF MbInv

LEMMA SendInfoInv ==
    ASSUME MbInv, NEW e \in End, SendInfo(e)
    PROVE  MbInv'
<1>i. PICK id : id = InfoTurn(e)
  OBVIOUS
<1>b. PICK b : b = CHOOSE x \in Range(mblk[e]) : x.id = id
  OBVIOUS
<1>f. PICK f : f = [t |-> "info", id |-> id, name |-> b.name]
  OBVIOUS
<1>0. Types /\ mblk[e] \in Seq(BlockType) /\ Distinct(mblk[e]) /\ id # 0 /\ lastId[e] \in Nat
  BY <1>i DEF MbInv, Types, BlocksOK, SendInfo
<1>1. id \in Ids(mblk[e])
  <2>1. CASE e = "L"
    BY <1>0, <1>i, <2>1 DEF InfoTurn, MbInv, CursorsOK
  <2>2. CASE e = "U"
    <3>1. sbuf["U"] \in Seq(SbufType) /\ tbuf["U"] \in Seq(TbufType) /\ "U" \in End
      BY DEF MbInv, Types, End
    <3>2. id \in Ids(sbuf["U"]) \/ id \in Ids(tbuf["U"])
      BY <1>0, <1>i, <2>2 DEF InfoTurn, MbInv, CursorsOK
    <3>3. \E l \in Links("U") : l.id = id
      BY <3>1, <3>2, IdsFacts DEF Links
    <3> QED  BY <2>2, <3>1, <3>3, Owners
  <2> QED  BY <2>1, <2>2 DEF End
<1>2. b \in Blocks(e) /\ b.id = id
  <2>1. \E x \in Blocks(e) : x.id = id
    BY <1>0, <1>1, IdsFacts DEF Blocks
  <2>2. Range(mblk[e]) = Blocks(e)
    BY <1>0, ElementFacts DEF Blocks
  <2> QED  BY <1>b, <2>1, <2>2
<1>3. b \in BlockType /\ id \in Nat /\ b.name \in Names
  <2>1. b \in BlockType
    BY <1>0, <1>2, ElementFacts DEF Blocks
  <2> QED  BY <1>2, <2>1 DEF BlockType
<1>4. f \in Frame /\ f.id = id /\ f.name = b.name
  BY <1>3, <1>f DEF Frame, InfoFrame
<1>5. Means(e, id, b.name)
  <2>1. id <= lastId[e]
    BY <1>2 DEF MbInv, BlocksOK
  <2>2. \A c \in Blocks(e) : c.id = id => c = b
    BY <1>0, <1>2, DistinctElements DEF Blocks
  <2> QED  BY <2>1, <2>2 DEF Means
<1>6. /\ line' \in [End -> Seq(Frame)]
      /\ \A d \in End : \A g \in Elements(line'[d]) : g \in Elements(line[d]) \/ (d = e /\ g = f)
  <2>1. Put(e, f)
    BY <1>i, <1>b, <1>f DEF SendInfo
  <2> QED  BY <1>0, <1>4, <2>1, PutFrames
<1>7. BlockStep /\ BlocksOK'
  BY SameBlocks DEF SendInfo
<1>8. CursorsOK' /\ current' \in Nat /\ scur' \in Nat /\ tcur' \in Nat
  <2>0. /\ mblk["L"] \in Seq(BlockType) /\ sbuf["U"] \in Seq(SbufType) /\ tbuf["U"] \in Seq(TbufType)
        /\ current \in Nat /\ scur \in Nat /\ tcur \in Nat
    BY <1>0 DEF Types, End
  <2>1. /\ current' = Advance(mblk["L"], id, {id}) \/ current' = current
        /\ scur' = Advance(sbuf["U"], id, {id}) \/ scur' = scur
        /\ tcur' = Advance(tbuf["U"], id, {id}) \/ tcur' = tcur
    BY <1>i DEF SendInfo
  <2>2. /\ current' \in Ids(mblk["L"]) \union {0}
        /\ scur' \in Ids(sbuf["U"]) \union {0}
        /\ tcur' \in Ids(tbuf["U"]) \union {0}
    <3>1. Advance(mblk["L"], id, {id}) \in Ids(mblk["L"]) \union {0}
      BY <2>0, AdvanceFacts, IdsFacts
    <3>2. Advance(sbuf["U"], id, {id}) \in Ids(sbuf["U"]) \union {0}
      BY <2>0, AdvanceFacts, IdsFacts
    <3>3. Advance(tbuf["U"], id, {id}) \in Ids(tbuf["U"]) \union {0}
      BY <2>0, AdvanceFacts, IdsFacts
    <3> QED  BY <2>1, <3>1, <3>2, <3>3 DEF MbInv, CursorsOK
  <2>3. Ids(mblk["L"]) \subseteq Nat /\ Ids(sbuf["U"]) \subseteq Nat /\ Ids(tbuf["U"]) \subseteq Nat
    BY <1>0, IdsNat DEF End
  <2>4. CursorsOK'
    BY <2>2 DEF CursorsOK, SendInfo
  <2> QED  BY <2>2, <2>3, <2>4
<1>9. Types'
  BY <1>0, <1>6, <1>8 DEF Types, SendInfo
<1>10. FramesOK'
  <2>1. Means(e, f.id, f.name)'
    BY <1>0, <1>3, <1>4, <1>5, <1>7, <1>9, MeansStay
  <2>2. \A d \in End : \A g \in Elements(line'[d]) :
           g \in Elements(line[d]) \/ (g.t = "info" => Means(d, g.id, g.name)')
    BY <1>6, <2>1
  <2> QED  BY <1>7, <1>9, <2>2, FramesStay
<1>11. LinksOK'
  BY DEF MbInv, LinksOK, LinkOK, Links, Blocks, Means, SendInfo
<1> QED  BY <1>7, <1>8, <1>9, <1>10, <1>11 DEF MbInv

\* ioc_send and the sending of data change only the flag of a source buffer.
LEMMA UsedOnly ==
    ASSUME Types, NEW e \in End, NEW i \in DOMAIN sbuf[e], NEW v \in BOOLEAN,
           sbuf' = [sbuf EXCEPT ![e][i].used = v]
    PROVE  /\ sbuf' \in [End -> Seq(SbufType)]
           /\ \A d \in End : \A l \in Elements(sbuf'[d]) :
                 \E k \in Elements(sbuf[d]) : k.id = l.id /\ k.rid = l.rid
           /\ \A d \in End : Ids(sbuf'[d]) = Ids(sbuf[d])
<1>s. PICK s : s = sbuf[e]
  OBVIOUS
<1>0. sbuf[e] \in Seq(SbufType)
  BY DEF Types
<1>n. PICK n \in Nat : n = Len(s)
  BY <1>0, <1>s
<1>1. sbuf \in [End -> Seq(SbufType)] /\ s \in Seq(SbufType) /\ s \in [1 .. n -> SbufType] /\ i \in 1 .. n
  BY <1>s, <1>n DEF Types
<1>x. PICK x : x = s[i]
  OBVIOUS
<1>y. PICK y : y = [x EXCEPT !.used = v]
  OBVIOUS
<1>r. PICK r : r = [s EXCEPT ![i] = y]
  OBVIOUS
<1>2. x \in SbufType
  BY <1>1, <1>x
<1>3. y \in SbufType /\ y.id = x.id /\ y.rid = x.rid
  BY <1>2, <1>y DEF SbufType
<1>4. /\ r \in [1 .. n -> SbufType] /\ r[i] = y /\ \A j \in 1 .. n : j # i => r[j] = s[j]
  BY <1>1, <1>3, <1>r
<1>5. r \in Seq(SbufType) /\ Len(r) = n
  BY <1>4
<1>6. sbuf' = [sbuf EXCEPT ![e] = r]
  BY <1>s, <1>x, <1>y, <1>r
<1>7. sbuf' \in [End -> Seq(SbufType)] /\ sbuf'[e] = r /\ \A d \in End : d # e => sbuf'[d] = sbuf[d]
  BY <1>1, <1>5, <1>6
<1>8. \A j \in 1 .. n : r[j].id = s[j].id /\ r[j].rid = s[j].rid
  BY <1>3, <1>4, <1>x
<1>9. \A l \in Elements(r) : \E k \in Elements(s) : k.id = l.id /\ k.rid = l.rid
  <2>1. ASSUME NEW l \in Elements(r)
        PROVE  \E k \in Elements(s) : k.id = l.id /\ k.rid = l.rid
    <3>1. PICK j \in 1 .. n : l = r[j]
      BY <1>5 DEF Elements
    <3>2. s[j] \in Elements(s)
      BY <1>n DEF Elements
    <3> QED  BY <1>8, <3>1, <3>2
  <2> QED  BY <2>1
<1>10. Ids(r) = Ids(s)
  BY <1>5, <1>8, <1>n DEF Ids
<1> QED  BY <1>7, <1>9, <1>10, <1>s

\* A step that sends a frame without info, or none, and changes flags of
\* source buffers.
LEMMA FlagStep ==
    ASSUME MbInv, NEW e \in End, NEW i \in DOMAIN sbuf[e], NEW v \in BOOLEAN,
           sbuf' = [sbuf EXCEPT ![e][i].used = v],
           line' \in [End -> Seq(Frame)],
           \A d \in End : \A g \in Elements(line'[d]) : g \in Elements(line[d]) \/ g.t # "info",
           UNCHANGED <<mblk, lastId, tbuf, reqs, open>>, UNCHANGED cursors
    PROVE  MbInv'
<1>0. Types
  BY DEF MbInv
<1>1. /\ sbuf' \in [End -> Seq(SbufType)]
      /\ \A d \in End : \A l \in Elements(sbuf'[d]) :
            \E k \in Elements(sbuf[d]) : k.id = l.id /\ k.rid = l.rid
      /\ \A d \in End : Ids(sbuf'[d]) = Ids(sbuf[d])
  BY <1>0, UsedOnly
<1>2. Types'
  BY <1>0, <1>1 DEF Types, cursors
<1>3. BlockStep /\ BlocksOK'
  BY SameBlocks
<1>4. FramesOK'
  BY <1>2, <1>3, FramesStay
<1>5. LinksOK'
  <2>1. \A d \in End : \A l \in Links(d)' : \E k \in Links(d) : k.id = l.id /\ k.rid = l.rid
    BY <1>1 DEF Links
  <2>2. ASSUME NEW d \in End, NEW l \in Links(d)'
        PROVE  \E b \in Blocks(d)' : b.id = l.id
    <3>1. PICK k \in Links(d) : k.id = l.id
      BY <2>1
    <3>2. \E b \in Blocks(d) : b.id = k.id
      BY Owners
    <3> QED  BY <3>1, <3>2 DEF Blocks
  <2> QED  BY <1>2, <1>3, <2>1, <2>2, LinksStay
<1>6. CursorsOK'
  <2>1. "U" \in End
    BY DEF End
  <2> QED  BY <1>1, <2>1 DEF MbInv, CursorsOK, cursors
<1> QED  BY <1>2, <1>3, <1>4, <1>5, <1>6 DEF MbInv

LEMMA SendDataInv ==
    ASSUME MbInv, NEW e \in End, NEW i \in DOMAIN sbuf[e], SendData(e, i)
    PROVE  MbInv'
<1>f. PICK f : f = [t |-> "data", id |-> sbuf[e][i].rid]
  OBVIOUS
<1>0. Types /\ sbuf[e] \in Seq(SbufType)
  BY DEF MbInv, Types
<1>1. f \in Frame /\ f.t = "data"
  <2>1. sbuf[e][i] \in SbufType
    BY <1>0
  <2>2. sbuf[e][i].rid \in Nat
    BY <2>1 DEF SbufType
  <2> QED  BY <1>f, <2>2 DEF Frame, DataFrame
<1>2. /\ line' \in [End -> Seq(Frame)]
      /\ \A d \in End : \A g \in Elements(line'[d]) : g \in Elements(line[d]) \/ (d = e /\ g = f)
  <2>1. Put(e, f)
    BY <1>f DEF SendData
  <2> QED  BY <1>0, <1>1, <2>1, PutFrames
<1>3. \A d \in End : \A g \in Elements(line'[d]) : g \in Elements(line[d]) \/ g.t # "info"
  BY <1>1, <1>2
<1>4. /\ sbuf' = [sbuf EXCEPT ![e][i].used = FALSE]
      /\ UNCHANGED <<mblk, lastId, tbuf, reqs, open>> /\ UNCHANGED cursors
  BY DEF SendData
<1> QED  BY <1>2, <1>3, <1>4, FlagStep

LEMMA SendInv ==
    ASSUME MbInv, NEW e \in End, NEW i \in DOMAIN sbuf[e], Send(e, i)
    PROVE  MbInv'
<1>1. line' \in [End -> Seq(Frame)] /\ line' = line
  BY DEF MbInv, Types, Send
<1>2. /\ sbuf' = [sbuf EXCEPT ![e][i].used = TRUE]
      /\ UNCHANGED <<mblk, lastId, tbuf, reqs, open>> /\ UNCHANGED cursors
  BY DEF Send
<1> QED  BY <1>1, <1>2, FlagStep

\* Both ends open with empty streams.
LEMMA ConnectInv ==
    ASSUME MbInv, Connect
    PROVE  MbInv'
<1>0. Types /\ "L" \in End /\ mblk["L"] \in Seq(BlockType)
  BY DEF MbInv, Types, End
<1>1. current' \in Ids(mblk["L"]) \union {0}
  <2>1. CASE mblk["L"] = <<>>
    BY <2>1 DEF Connect
  <2>2. CASE mblk["L"] # <<>>
    <3>1. 1 \in 1 .. Len(mblk["L"])
      BY <1>0, <2>2
    <3> QED  BY <2>2, <3>1 DEF Connect, Ids
  <2> QED  BY <2>1, <2>2
<1>2. current' \in Nat
  BY <1>0, <1>1, IdsNat
<1>3. line' = [e \in End |-> <<>>] /\ open' = [e \in End |-> TRUE]
  BY DEF Connect
<1>4. Types'
  <2>1. line' \in [End -> Seq(Frame)] /\ open' \in [End -> BOOLEAN]
    BY <1>3
  <2> QED  BY <1>0, <1>2, <2>1 DEF Types, Connect
<1>5. BlockStep /\ BlocksOK'
  BY SameBlocks DEF Connect
<1>6. FramesOK'
  <2>1. \A e \in End : Elements(line'[e]) = {}
    BY <1>3 DEF Elements
  <2> QED  BY <2>1 DEF FramesOK
<1>7. LinksOK'
  BY DEF MbInv, LinksOK, LinkOK, Links, Blocks, Means, Connect
<1>8. CursorsOK'
  BY <1>1 DEF MbInv, CursorsOK, Connect
<1> QED  BY <1>4, <1>5, <1>6, <1>7, <1>8 DEF MbInv

\* Blocks released at one end.
LEMMA ReleaseBlocks ==
    ASSUME MbInv, NEW e \in End, NEW gone,
           mblk' = [mblk EXCEPT ![e] = Without(@, gone)], lastId' = lastId
    PROVE  /\ mblk' \in [End -> Seq(BlockType)]
           /\ BlockStep /\ BlocksOK'
           /\ Blocks(e)' = {b \in Blocks(e) : b.id \notin gone}
           /\ \A d \in End : d # e => mblk'[d] = mblk[d]
<1>s. PICK s : s = mblk[e]
  OBVIOUS
<1>r. PICK r : r = Without(s, gone)
  OBVIOUS
<1>1. /\ mblk \in [End -> Seq(BlockType)] /\ lastId \in [End -> Nat] /\ s \in Seq(BlockType)
      /\ Distinct(s)
  BY <1>s DEF MbInv, Types, BlocksOK
<1>2. r \in Seq(BlockType) /\ Elements(r) = {b \in Elements(s) : b.id \notin gone} /\ Distinct(r)
  BY <1>1, <1>r, WithoutFacts
<1>3. mblk' = [mblk EXCEPT ![e] = r]
  BY <1>s, <1>r
<1>4. mblk' \in [End -> Seq(BlockType)] /\ mblk'[e] = r /\ \A d \in End : d # e => mblk'[d] = mblk[d]
  BY <1>1, <1>2, <1>3
<1>5. Blocks(e)' = {b \in Blocks(e) : b.id \notin gone} /\ \A d \in End : d # e => Blocks(d)' = Blocks(d)
  BY <1>2, <1>4, <1>s DEF Blocks
<1>6. BlockStep
  <2>1. \A d \in End : lastId[d] \in Nat
    BY <1>1
  <2>2. \A d \in End : Blocks(d)' \subseteq Blocks(d)
    BY <1>5
  <2> QED  BY <2>1, <2>2 DEF BlockStep
<1>7. BlocksOK'
  <2>1. \A d \in End : Distinct(mblk'[d])
    BY <1>2, <1>4 DEF MbInv, BlocksOK
  <2>2. \A d \in End : Blocks(d)' \subseteq Blocks(d)
    BY <1>5
  <2> QED  BY <2>1, <2>2 DEF MbInv, BlocksOK
<1> QED  BY <1>4, <1>5, <1>6, <1>7

\* Buffers released with their blocks.
LEMMA ReleaseBuffers ==
    ASSUME Types, NEW e \in End, NEW gone,
           sbuf' = [sbuf EXCEPT ![e] = Without(@, gone)],
           tbuf' = [tbuf EXCEPT ![e] = Without(@, gone)]
    PROVE  /\ sbuf' \in [End -> Seq(SbufType)] /\ tbuf' \in [End -> Seq(TbufType)]
           /\ Elements(sbuf'[e]) = {l \in Elements(sbuf[e]) : l.id \notin gone}
           /\ Elements(tbuf'[e]) = {l \in Elements(tbuf[e]) : l.id \notin gone}
           /\ \A d \in End : d # e => sbuf'[d] = sbuf[d] /\ tbuf'[d] = tbuf[d]
<1>1. /\ sbuf \in [End -> Seq(SbufType)] /\ tbuf \in [End -> Seq(TbufType)]
      /\ sbuf[e] \in Seq(SbufType) /\ tbuf[e] \in Seq(TbufType)
  BY DEF Types
<1>s. PICK s : s = Without(sbuf[e], gone)
  OBVIOUS
<1>t. PICK t : t = Without(tbuf[e], gone)
  OBVIOUS
<1>2. s \in Seq(SbufType) /\ Elements(s) = {l \in Elements(sbuf[e]) : l.id \notin gone}
  BY <1>1, <1>s, WithoutFacts
<1>3. t \in Seq(TbufType) /\ Elements(t) = {l \in Elements(tbuf[e]) : l.id \notin gone}
  BY <1>1, <1>t, WithoutFacts
<1>4. sbuf' = [sbuf EXCEPT ![e] = s] /\ tbuf' = [tbuf EXCEPT ![e] = t]
  BY <1>s, <1>t
<1>5. /\ sbuf' \in [End -> Seq(SbufType)] /\ sbuf'[e] = s
      /\ \A d \in End : d # e => sbuf'[d] = sbuf[d]
  BY <1>1, <1>2, <1>4
<1>6. /\ tbuf' \in [End -> Seq(TbufType)] /\ tbuf'[e] = t
      /\ \A d \in End : d # e => tbuf'[d] = tbuf[d]
  BY <1>1, <1>3, <1>4
<1> QED  BY <1>2, <1>3, <1>5, <1>6

\* Blocks and their buffers released together.
LEMMA ReleaseLinks ==
    ASSUME MbInv, NEW e \in End, NEW gone, Types',
           mblk' = [mblk EXCEPT ![e] = Without(@, gone)], lastId' = lastId,
           sbuf' = [sbuf EXCEPT ![e] = Without(@, gone)],
           tbuf' = [tbuf EXCEPT ![e] = Without(@, gone)]
    PROVE  LinksOK'
<1>0. Types
  BY DEF MbInv
<1>1. /\ BlockStep /\ Blocks(e)' = {b \in Blocks(e) : b.id \notin gone}
      /\ \A d \in End : d # e => mblk'[d] = mblk[d]
  BY ReleaseBlocks
<1>2. /\ Elements(sbuf'[e]) = {l \in Elements(sbuf[e]) : l.id \notin gone}
      /\ Elements(tbuf'[e]) = {l \in Elements(tbuf[e]) : l.id \notin gone}
      /\ \A d \in End : d # e => sbuf'[d] = sbuf[d] /\ tbuf'[d] = tbuf[d]
  BY <1>0, ReleaseBuffers
<1>3. Links(e)' = {l \in Links(e) : l.id \notin gone} /\ \A d \in End : d # e => Links(d)' = Links(d)
  BY <1>2 DEF Links
<1>4. \A d \in End : Links(d)' \subseteq Links(d)
  BY <1>3
<1>5. ASSUME NEW d \in End, NEW l \in Links(d)'
      PROVE  \E b \in Blocks(d)' : b.id = l.id
  <2>1. PICK b \in Blocks(d) : b.id = l.id
    BY <1>4, Owners
  <2>2. CASE d = e
    BY <1>1, <1>3, <2>1, <2>2
  <2>3. CASE d # e
    BY <1>1, <2>1, <2>3 DEF Blocks
  <2> QED  BY <2>2, <2>3
<1> QED  BY <1>1, <1>4, <1>5, LinksStay

\* A cursor after elements are gone.
LEMMA CursorKept ==
    ASSUME NEW S, NEW list \in Seq(S), NEW cur, NEW gone, NEW new \in Seq(S),
           Elements(new) = {x \in Elements(list) : x.id \notin gone}
    PROVE  Advance(list, cur, gone) \in Ids(new) \union {0}
<1>a. PICK a : a = Advance(list, cur, gone)
  OBVIOUS
<1>1. a = 0 \/ \E x \in Elements(list) : x.id = a /\ x.id \notin gone
  BY <1>a, AdvanceFacts
<1>2. a = 0 \/ \E x \in Elements(new) : x.id = a
  BY <1>1
<1>3. a \in Ids(new) \union {0}
  BY <1>2, IdsFacts
<1> QED  BY <1>3, <1>a

LEMMA RemoteIdsType ==
    ASSUME NEW S, \A x \in S : x.rid \in Nat, NEW list \in Seq(S), NEW id
    PROVE  RemoteIds(list, id) \in Seq(Nat)
<1>l. PICK ls : ls = Without(list, Ids(list) \ {id})
  OBVIOUS
<1>1. ls \in Seq(S)
  BY <1>l, WithoutFacts
<1>2. \A i \in 1 .. Len(ls) : ls[i].rid \in Nat
  BY <1>1
<1>3. RemoteIds(list, id) = [i \in 1 .. Len(ls) |-> ls[i].rid]
  BY <1>l DEF RemoteIds
<1> QED  BY <1>1, <1>2, <1>3

LEMMA DeviceDroppedInv ==
    ASSUME MbInv, NEW id, DeviceDropped(id)
    PROVE  MbInv'
<1>g. PICK gone : gone = {id}
  OBVIOUS
<1>0. /\ Types /\ "L" \in End /\ "U" \in End /\ "U" # "L"
      /\ mblk["L"] \in Seq(BlockType) /\ sbuf["L"] \in Seq(SbufType) /\ tbuf["L"] \in Seq(TbufType)
  BY DEF MbInv, Types, End
<1>1. /\ mblk' = [mblk EXCEPT !["L"] = Without(@, gone)] /\ lastId' = lastId
      /\ sbuf' = [sbuf EXCEPT !["L"] = Without(@, gone)]
      /\ tbuf' = [tbuf EXCEPT !["L"] = Without(@, gone)]
      /\ current' = Advance(mblk["L"], current, gone)
      /\ reqs' = DelRequests(id)
  BY <1>g DEF DeviceDropped
<1>2. /\ mblk' \in [End -> Seq(BlockType)] /\ BlockStep /\ BlocksOK'
      /\ Blocks("L")' = {b \in Blocks("L") : b.id \notin gone}
      /\ mblk'["U"] = mblk["U"]
  BY <1>0, <1>1, ReleaseBlocks
<1>3. /\ sbuf' \in [End -> Seq(SbufType)] /\ tbuf' \in [End -> Seq(TbufType)]
      /\ sbuf'["U"] = sbuf["U"] /\ tbuf'["U"] = tbuf["U"]
  BY <1>0, <1>1, ReleaseBuffers
<1>4. reqs' \in Seq(Request)
  <2>1. RemoteIds(sbuf["L"], id) \in Seq(Nat)
    <3>1. \A x \in SbufType : x.rid \in Nat
      BY DEF SbufType
    <3> QED  BY <1>0, <3>1, RemoteIdsType
  <2>2. RemoteIds(tbuf["L"], id) \in Seq(Nat)
    <3>1. \A x \in TbufType : x.rid \in Nat
      BY DEF TbufType
    <3> QED  BY <1>0, <3>1, RemoteIdsType
  <2>3. RemoteIds(sbuf["L"], id) \o RemoteIds(tbuf["L"], id) \in Seq(Nat)
    BY <2>1, <2>2
  <2>4. reqs \in Seq(Request)
    BY <1>0 DEF Types
  <2> QED  BY <1>1, <2>3, <2>4, AddRequestsType DEF DelRequests
<1>5. current' \in Ids(mblk'["L"]) \union {0}
  <2>1. mblk'["L"] \in Seq(BlockType)
    BY <1>0, <1>2
  <2>2. Elements(mblk'["L"]) = {b \in Elements(mblk["L"]) : b.id \notin gone}
    BY <1>2 DEF Blocks
  <2> QED  BY <1>0, <1>1, <2>1, <2>2, CursorKept
<1>6. current' \in Nat
  <2>1. current' = 0 \/ \E x \in Elements(mblk["L"]) : x.id = current'
    BY <1>0, <1>1, AdvanceFacts
  <2>2. Ids(mblk["L"]) \subseteq Nat
    BY <1>0, IdsNat
  <2> QED  BY <1>0, <2>1, <2>2, IdsFacts
<1>7. Types'
  BY <1>0, <1>1, <1>2, <1>3, <1>4, <1>6 DEF Types, DeviceDropped
<1>8. FramesOK'
  BY <1>2, <1>7, FramesStay DEF DeviceDropped
<1>9. LinksOK'
  BY <1>0, <1>1, <1>7, ReleaseLinks
<1>10. CursorsOK'
  BY <1>3, <1>5 DEF MbInv, CursorsOK, DeviceDropped
<1> QED  BY <1>2, <1>7, <1>8, <1>9, <1>10 DEF MbInv

LEMMA ReceiveRemoveInv ==
    ASSUME MbInv, ReceiveRemove
    PROVE  MbInv'
<1>g. PICK gone : gone = Range(Head(line["L"]).ids)
                           \intersect (Ids(sbuf["U"]) \union Ids(tbuf["U"]))
  OBVIOUS
<1>0. /\ Types /\ "L" \in End /\ "U" \in End /\ "U" # "L"
      /\ mblk["U"] \in Seq(BlockType) /\ sbuf["U"] \in Seq(SbufType) /\ tbuf["U"] \in Seq(TbufType)
  BY DEF MbInv, Types, End
<1>1. /\ mblk' = [mblk EXCEPT !["U"] = Without(@, gone)] /\ lastId' = lastId
      /\ sbuf' = [sbuf EXCEPT !["U"] = Without(@, gone)]
      /\ tbuf' = [tbuf EXCEPT !["U"] = Without(@, gone)]
      /\ scur' = Advance(sbuf["U"], scur, gone)
      /\ tcur' = Advance(tbuf["U"], tcur, gone)
      /\ UNCHANGED <<current, reqs, open>>
  BY <1>g DEF ReceiveRemove
<1>2. /\ mblk' \in [End -> Seq(BlockType)] /\ BlockStep /\ BlocksOK'
      /\ mblk'["L"] = mblk["L"]
  BY <1>0, <1>1, ReleaseBlocks
<1>3. /\ sbuf' \in [End -> Seq(SbufType)] /\ tbuf' \in [End -> Seq(TbufType)]
      /\ Elements(sbuf'["U"]) = {l \in Elements(sbuf["U"]) : l.id \notin gone}
      /\ Elements(tbuf'["U"]) = {l \in Elements(tbuf["U"]) : l.id \notin gone}
  BY <1>0, <1>1, ReleaseBuffers
<1>4. scur' \in Ids(sbuf'["U"]) \union {0} /\ tcur' \in Ids(tbuf'["U"]) \union {0}
  <2>1. sbuf'["U"] \in Seq(SbufType) /\ tbuf'["U"] \in Seq(TbufType)
    BY <1>0, <1>3
  <2>2. scur' \in Ids(sbuf'["U"]) \union {0}
    BY <1>0, <1>1, <1>3, <2>1, CursorKept
  <2>3. tcur' \in Ids(tbuf'["U"]) \union {0}
    BY <1>0, <1>1, <1>3, <2>1, CursorKept
  <2> QED  BY <2>2, <2>3
<1>5. scur' \in Nat /\ tcur' \in Nat
  <2>1. scur' = 0 \/ \E x \in Elements(sbuf["U"]) : x.id = scur'
    BY <1>0, <1>1, AdvanceFacts
  <2>2. tcur' = 0 \/ \E x \in Elements(tbuf["U"]) : x.id = tcur'
    BY <1>0, <1>1, AdvanceFacts
  <2>3. Ids(sbuf["U"]) \subseteq Nat /\ Ids(tbuf["U"]) \subseteq Nat
    BY <1>0, IdsNat
  <2> QED  BY <1>0, <2>1, <2>2, <2>3, IdsFacts
<1>6. /\ line' \in [End -> Seq(Frame)]
      /\ \A d \in End : \A h \in Elements(line'[d]) : h \in Elements(line[d])
  BY <1>0, TakeFrames DEF ReceiveRemove
<1>7. Types'
  BY <1>0, <1>1, <1>2, <1>3, <1>5, <1>6 DEF Types
<1>8. FramesOK'
  BY <1>2, <1>6, <1>7, FramesStay
<1>9. LinksOK'
  BY <1>0, <1>1, <1>7, ReleaseLinks
<1>10. CursorsOK'
  BY <1>1, <1>2, <1>4 DEF MbInv, CursorsOK
<1> QED  BY <1>2, <1>7, <1>8, <1>9, <1>10 DEF MbInv

\* The buffers of an end that closes are all gone, whatever happens to its
\* blocks.
LEMMA CloseInv ==
    ASSUME MbInv, NEW e \in End, Close(e)
    PROVE  MbInv'
<1>0. /\ Types /\ "L" \in End /\ "U" \in End /\ "U" # "L"
      /\ mblk \in [End -> Seq(BlockType)] /\ lastId \in [End -> Nat]
      /\ sbuf \in [End -> Seq(SbufType)] /\ tbuf \in [End -> Seq(TbufType)]
      /\ line \in [End -> Seq(Frame)] /\ open \in [End -> BOOLEAN]
  BY DEF MbInv, Types, End
<1>1. /\ open' = [open EXCEPT ![e] = FALSE] /\ line' = [line EXCEPT ![Other(e)] = <<>>]
      /\ sbuf' = [sbuf EXCEPT ![e] = <<>>] /\ tbuf' = [tbuf EXCEPT ![e] = <<>>]
      /\ lastId' = lastId
  BY DEF Close
<1>2. /\ open' \in [End -> BOOLEAN] /\ line' \in [End -> Seq(Frame)]
      /\ sbuf' \in [End -> Seq(SbufType)] /\ tbuf' \in [End -> Seq(TbufType)]
      /\ sbuf'[e] = <<>> /\ tbuf'[e] = <<>>
      /\ \A d \in End : d # e => sbuf'[d] = sbuf[d] /\ tbuf'[d] = tbuf[d]
      /\ \A d \in End : line'[d] = <<>> \/ line'[d] = line[d]
  <2>1. open' \in [End -> BOOLEAN]
    BY <1>0, <1>1
  <2>2. sbuf' \in [End -> Seq(SbufType)] /\ sbuf'[e] = <<>> /\ \A d \in End : d # e => sbuf'[d] = sbuf[d]
    BY <1>0, <1>1
  <2>3. tbuf' \in [End -> Seq(TbufType)] /\ tbuf'[e] = <<>> /\ \A d \in End : d # e => tbuf'[d] = tbuf[d]
    BY <1>0, <1>1
  <2>o. PICK o \in End : o = Other(e)
    BY DEF Other, End
  <2>4. line' = [line EXCEPT ![o] = <<>>]
    BY <1>1, <2>o
  <2>5. line' \in [End -> Seq(Frame)] /\ \A d \in End : line'[d] = <<>> \/ line'[d] = line[d]
    BY <1>0, <2>4
  <2> QED  BY <2>1, <2>2, <2>3, <2>5
<1>n. Elements(<<>>) = {}
  BY DEF Elements
<1>3. \A d \in End : \A f \in Elements(line'[d]) : f \in Elements(line[d])
  BY <1>2, <1>n
<1>4. Links(e)' = {} /\ \A d \in End : d # e => Links(d)' = Links(d)
  BY <1>2, <1>n DEF Links
<1>5. /\ mblk' \in [End -> Seq(BlockType)] /\ BlockStep /\ BlocksOK'
      /\ \A d \in End : d # e => mblk'[d] = mblk[d]
  <2>1. CASE e = "L"
    <3>1. mblk' = mblk
      BY <2>1 DEF Close
    <3> QED  BY <1>0, <1>1, <3>1, SameBlocks
  <2>2. CASE e = "U"
    <3>1. PICK gone : mblk' = [mblk EXCEPT !["U"] = Without(@, gone)]
      BY <1>0, <2>2 DEF Close
    <3> QED  BY <1>0, <1>1, <2>2, <3>1, ReleaseBlocks
  <2> QED  BY <2>1, <2>2 DEF End
<1>6. CursorsOK' /\ current' \in Nat /\ scur' \in Nat /\ tcur' \in Nat /\ reqs' \in Seq(Request)
  <2>1. CASE e = "L"
    <3>1. reqs' = <<>> /\ current' = 0 /\ UNCHANGED <<mblk, scur, tcur>>
      BY <2>1 DEF Close
    <3>2. sbuf'["U"] = sbuf["U"] /\ tbuf'["U"] = tbuf["U"]
      BY <1>0, <1>2, <2>1
    <3>3. CursorsOK'
      BY <3>1, <3>2 DEF MbInv, CursorsOK
    <3> QED  BY <1>0, <3>1, <3>3 DEF Types
  <2>2. CASE e = "U"
    <3>1. scur' = 0 /\ tcur' = 0 /\ UNCHANGED <<reqs, current>>
      BY <1>0, <2>2 DEF Close
    <3>2. mblk'["L"] = mblk["L"]
      BY <1>0, <1>5, <2>2
    <3>3. CursorsOK'
      BY <3>1, <3>2 DEF MbInv, CursorsOK
    <3> QED  BY <1>0, <3>1, <3>3 DEF Types
  <2> QED  BY <2>1, <2>2 DEF End
<1>7. Types'
  BY <1>0, <1>1, <1>2, <1>5, <1>6 DEF Types
<1>8. FramesOK'
  BY <1>3, <1>5, <1>7, FramesStay
<1>9. LinksOK'
  <2>1. ASSUME NEW d \in End, NEW l \in Links(d)'
        PROVE  l \in Links(d) /\ \E b \in Blocks(d)' : b.id = l.id
    <3>1. d # e /\ l \in Links(d)
      BY <1>4, <2>1
    <3>2. Blocks(d)' = Blocks(d)
      BY <1>5, <3>1 DEF Blocks
    <3> QED  BY <3>1, <3>2, Owners
  <2> QED  BY <1>5, <1>7, <2>1, LinksStay
<1> QED  BY <1>5, <1>6, <1>7, <1>8, <1>9 DEF MbInv

\* ioc_mbinfo_received.  The block found by its name, or created with it,
\* is tied to the id that came with that name.
LEMMA ReceiveInfoInv ==
    ASSUME MbInv, NEW e \in End, ReceiveInfo(e)
    PROVE  MbInv'
<1>o. PICK o \in End : o = Other(e)
  BY DEF Other, End
<1>f. PICK f : f = Head(line[o])
  OBVIOUS
<1>m. PICK same : same = {x \in Range(mblk[e]) : x.name = f.name}
  OBVIOUS
<1>b. PICK b : b = IF same # {} THEN CHOOSE x \in same : TRUE
                   ELSE [id |-> UniqueId(e), name |-> f.name, dyn |-> TRUE]
  OBVIOUS
<1>s. PICK newS \in BOOLEAN : newS = (CanSend(e, b.name) /\ ~Linked(sbuf[e], b.id))
  OBVIOUS
<1>t. PICK newT \in BOOLEAN : newT = (CanReceive(e, b.name) /\ ~Linked(tbuf[e], b.id))
  OBVIOUS
<1>x. PICK x : x = [id |-> b.id, rid |-> f.id, used |-> TRUE]
  OBVIOUS
<1>y. PICK y : y = [id |-> b.id, rid |-> f.id]
  OBVIOUS
<1>0. /\ Types /\ mblk[e] \in Seq(BlockType) /\ lastId[e] \in Nat /\ "U" \in End /\ "L" \in End
      /\ sbuf \in [End -> Seq(SbufType)] /\ tbuf \in [End -> Seq(TbufType)]
      /\ scur \in Nat /\ tcur \in Nat
  BY DEF MbInv, Types, End
<1>1. /\ IF same # {} THEN UNCHANGED <<mblk, lastId>>
         ELSE /\ mblk' = [mblk EXCEPT ![e] = Append(@, b)]
              /\ lastId' = [lastId EXCEPT ![e] = b.id]
      /\ sbuf' = IF ~newS THEN sbuf ELSE [sbuf EXCEPT ![e] = Append(@, x)]
      /\ tbuf' = IF ~newT THEN tbuf ELSE [tbuf EXCEPT ![e] = Append(@, y)]
      /\ scur' = IF newS /\ e = "U" /\ scur = 0 THEN b.id ELSE scur
      /\ tcur' = IF newT /\ e = "U" /\ tcur = 0 THEN b.id ELSE tcur
      /\ UNCHANGED <<current, reqs, open>>
      /\ Incoming(e, "info") /\ Take(e)
  BY <1>o, <1>f, <1>m, <1>b, <1>s, <1>t, <1>x, <1>y DEF ReceiveInfo
<1>2. /\ line' \in [End -> Seq(Frame)]
      /\ \A d \in End : \A g \in Elements(line'[d]) : g \in Elements(line[d])
      /\ f \in Elements(line[o]) /\ f \in Frame /\ f.t = "info"
  BY <1>0, <1>1, <1>o, <1>f, TakeFrames
<1>3. f.id \in Nat /\ f.name \in Names
  BY <1>2 DEF Frame, InfoFrame, DataFrame, RemoveFrame
<1>4. Means(o, f.id, f.name)
  BY <1>2 DEF MbInv, FramesOK
<1>5. /\ b \in BlockType /\ b.name = f.name
      /\ mblk' \in [End -> Seq(BlockType)] /\ lastId' \in [End -> Nat]
      /\ BlockStep /\ BlocksOK' /\ b \in Blocks(e)'
      /\ \A d \in End : Blocks(d) \subseteq Blocks(d)' /\ Ids(mblk[d]) \subseteq Ids(mblk'[d])
  <2>1. CASE same # {}
    <3>1. b \in same
      BY <1>b, <2>1
    <3>2. b \in Blocks(e) /\ b.name = f.name
      BY <1>0, <1>m, <3>1, ElementFacts DEF Blocks
    <3>3. b \in BlockType
      BY <1>0, <3>2, ElementFacts DEF Blocks
    <3>4. mblk' = mblk /\ lastId' = lastId
      BY <1>1, <2>1
    <3>5. BlockStep /\ BlocksOK'
      BY <3>4, SameBlocks
    <3>6. \A d \in End : Blocks(d)' = Blocks(d)
      BY <3>4 DEF Blocks
    <3> QED  BY <1>0, <3>2, <3>3, <3>4, <3>5, <3>6 DEF Types
  <2>2. CASE same = {}
    <3>1. b = [id |-> lastId[e] + 1, name |-> f.name, dyn |-> TRUE]
      BY <1>b, <2>2 DEF UniqueId
    <3>2. b \in BlockType /\ b.name = f.name /\ b.id = lastId[e] + 1
      BY <1>0, <1>3, <3>1 DEF BlockType
    <3>3. mblk' = [mblk EXCEPT ![e] = Append(@, b)] /\ lastId' = [lastId EXCEPT ![e] = b.id]
      BY <1>1, <2>2
    <3>4. /\ mblk' \in [End -> Seq(BlockType)] /\ lastId' \in [End -> Nat]
          /\ BlockStep /\ BlocksOK' /\ Blocks(e)' = Blocks(e) \union {b}
          /\ \A d \in End : Blocks(d) \subseteq Blocks(d)' /\ Ids(mblk[d]) \subseteq Ids(mblk'[d])
      BY <3>2, <3>3, NewBlock
    <3> QED  BY <3>2, <3>4
  <2> QED  BY <2>1, <2>2
<1>6. b.id \in Nat
  BY <1>5 DEF BlockType
<1>7. x \in SbufType /\ x.id = b.id /\ x.rid = f.id /\ y \in TbufType /\ y.id = b.id /\ y.rid = f.id
  BY <1>3, <1>6, <1>x, <1>y DEF SbufType, TbufType
<1>8. /\ sbuf' \in [End -> Seq(SbufType)]
      /\ \A d \in End : \A l \in Elements(sbuf'[d]) : l \in Elements(sbuf[d]) \/ (d = e /\ l = x)
      /\ \A d \in End : Elements(sbuf[d]) \subseteq Elements(sbuf'[d])
      /\ newS => x \in Elements(sbuf'[e])
  <2>1. CASE ~newS
    BY <1>0, <1>1, <2>1
  <2>2. CASE newS
    <3>s. PICK s : s = Append(sbuf[e], x)
      OBVIOUS
    <3>1. s \in Seq(SbufType) /\ Elements(s) = Elements(sbuf[e]) \union {x}
      <4>1. sbuf[e] \in Seq(SbufType)
        BY <1>0
      <4> QED  BY <1>7, <3>s, <4>1, ElementFacts
    <3>2. sbuf' = [sbuf EXCEPT ![e] = s]
      BY <1>1, <2>2, <3>s
    <3>3. sbuf' \in [End -> Seq(SbufType)] /\ sbuf'[e] = s /\ \A d \in End : d # e => sbuf'[d] = sbuf[d]
      BY <1>0, <3>1, <3>2
    <3> QED  BY <3>1, <3>3
  <2> QED  BY <2>1, <2>2
<1>9. /\ tbuf' \in [End -> Seq(TbufType)]
      /\ \A d \in End : \A l \in Elements(tbuf'[d]) : l \in Elements(tbuf[d]) \/ (d = e /\ l = y)
      /\ \A d \in End : Elements(tbuf[d]) \subseteq Elements(tbuf'[d])
      /\ newT => y \in Elements(tbuf'[e])
  <2>1. CASE ~newT
    BY <1>0, <1>1, <2>1
  <2>2. CASE newT
    <3>s. PICK s : s = Append(tbuf[e], y)
      OBVIOUS
    <3>1. s \in Seq(TbufType) /\ Elements(s) = Elements(tbuf[e]) \union {y}
      <4>1. tbuf[e] \in Seq(TbufType)
        BY <1>0
      <4> QED  BY <1>7, <3>s, <4>1, ElementFacts
    <3>2. tbuf' = [tbuf EXCEPT ![e] = s]
      BY <1>1, <2>2, <3>s
    <3>3. tbuf' \in [End -> Seq(TbufType)] /\ tbuf'[e] = s /\ \A d \in End : d # e => tbuf'[d] = tbuf[d]
      BY <1>0, <3>1, <3>2
    <3> QED  BY <3>1, <3>3
  <2> QED  BY <2>1, <2>2
<1>10. scur' \in Nat /\ tcur' \in Nat
  BY <1>0, <1>1, <1>6
<1>11. Types'
  BY <1>0, <1>1, <1>2, <1>5, <1>8, <1>9, <1>10 DEF Types
<1>12. FramesOK'
  BY <1>2, <1>5, <1>11, FramesStay
<1>13. LinksOK'
  <2>1. Means(o, f.id, f.name)'
    BY <1>0, <1>3, <1>4, <1>5, <1>11, MeansStay
  <2>2. LinkOK(e, x)' /\ LinkOK(e, y)'
    BY <1>5, <1>7, <1>o, <2>1 DEF LinkOK
  <2>3. ASSUME NEW d \in End, NEW l \in Links(d)'
        PROVE  \/ LinkOK(d, l)'
               \/ l \in Links(d) /\ \E c \in Blocks(d)' : c.id = l.id
    <3>1. CASE l \in Links(d)
      BY <1>5, <3>1, Owners
    <3>2. CASE l \notin Links(d)
      <4>1. d = e /\ (l = x \/ l = y)
        BY <1>8, <1>9, <2>3, <3>2 DEF Links
      <4> QED  BY <2>2, <4>1
    <3> QED  BY <3>1, <3>2
  <2> QED  BY <1>5, <1>11, <2>3, LinksStay
<1>14. CursorsOK'
  <2>1. current' \in Ids(mblk'["L"]) \union {0}
    BY <1>0, <1>1, <1>5 DEF MbInv, CursorsOK
  <2>2. scur' \in Ids(sbuf'["U"]) \union {0}
    <3>0. sbuf["U"] \in Seq(SbufType) /\ sbuf'["U"] \in Seq(SbufType)
      BY <1>0, <1>8
    <3>1. CASE newS /\ e = "U" /\ scur = 0
      <4>1. x \in Elements(sbuf'["U"]) /\ scur' = x.id
        BY <1>1, <1>7, <1>8, <3>1
      <4> QED  BY <3>0, <4>1, IdsFacts
    <3>2. CASE ~(newS /\ e = "U" /\ scur = 0)
      <4>1. scur' = scur /\ scur \in Ids(sbuf["U"]) \union {0}
        BY <1>1, <3>2 DEF MbInv, CursorsOK
      <4>2. CASE scur \in Ids(sbuf["U"])
        <5>1. PICK l \in Elements(sbuf["U"]) : l.id = scur
          BY <3>0, <4>2, IdsFacts
        <5>2. l \in Elements(sbuf'["U"])
          BY <1>0, <1>8
        <5> QED  BY <3>0, <4>1, <5>1, <5>2, IdsFacts
      <4> QED  BY <4>1, <4>2
    <3> QED  BY <3>1, <3>2
  <2>3. tcur' \in Ids(tbuf'["U"]) \union {0}
    <3>0. tbuf["U"] \in Seq(TbufType) /\ tbuf'["U"] \in Seq(TbufType)
      BY <1>0, <1>9
    <3>1. CASE newT /\ e = "U" /\ tcur = 0
      <4>1. y \in Elements(tbuf'["U"]) /\ tcur' = y.id
        BY <1>1, <1>7, <1>9, <3>1
      <4> QED  BY <3>0, <4>1, IdsFacts
    <3>2. CASE ~(newT /\ e = "U" /\ tcur = 0)
      <4>1. tcur' = tcur /\ tcur \in Ids(tbuf["U"]) \union {0}
        BY <1>1, <3>2 DEF MbInv, CursorsOK
      <4>2. CASE tcur \in Ids(tbuf["U"])
        <5>1. PICK l \in Elements(tbuf["U"]) : l.id = tcur
          BY <3>0, <4>2, IdsFacts
        <5>2. l \in Elements(tbuf'["U"])
          BY <1>0, <1>9
        <5> QED  BY <3>0, <4>1, <5>1, <5>2, IdsFacts
      <4> QED  BY <4>1, <4>2
    <3> QED  BY <3>1, <3>2
  <2> QED  BY <2>1, <2>2, <2>3 DEF CursorsOK
<1> QED  BY <1>5, <1>11, <1>12, <1>13, <1>14 DEF MbInv

----------------------------------------------------------------------------
(* The theorems.                                                           *)

LEMMA NextInv ==
    ASSUME MbInv, [Next]_vars
    PROVE  MbInv'
<1>1. ASSUME SendRemove PROVE MbInv'
  BY <1>1, SendRemoveInv
<1>2. ASSUME NEW e \in End, SendInfo(e) PROVE MbInv'
  BY <1>2, SendInfoInv
<1>3. ASSUME NEW e \in End, NEW i \in DOMAIN sbuf[e], SendData(e, i) PROVE MbInv'
  BY <1>3, SendDataInv
<1>4. ASSUME NEW e \in End, ReceiveInfo(e) PROVE MbInv'
  BY <1>4, ReceiveInfoInv
<1>5. ASSUME NEW e \in End, ReceiveData(e) PROVE MbInv'
  BY <1>5, TakeOnly DEF ReceiveData
<1>6. ASSUME IgnoreInfo PROVE MbInv'
  <2>1. "L" \in End
    BY DEF End
  <2> QED  BY <1>6, <2>1, TakeOnly DEF IgnoreInfo
<1>7. ASSUME ReceiveRemove PROVE MbInv'
  BY <1>7, ReceiveRemoveInv
<1>8. ASSUME NEW n \in Names, AddMblk(n) PROVE MbInv'
  BY <1>8, AddMblkInv
<1>9. ASSUME NEW id, DeviceDropped(id) PROVE MbInv'
  BY <1>9, DeviceDroppedInv
<1>10. ASSUME NEW e \in End, NEW i \in DOMAIN sbuf[e], Send(e, i) PROVE MbInv'
  BY <1>10, SendInv
<1>11. ASSUME Connect PROVE MbInv'
  BY <1>11, ConnectInv
<1>12. ASSUME NEW e \in End, Close(e) PROVE MbInv'
  BY <1>12, CloseInv
<1>13. ASSUME UNCHANGED vars PROVE MbInv'
  BY <1>13 DEF vars, MbInv, Types, BlocksOK, LinksOK, LinkOK, FramesOK, CursorsOK, Means,
               Blocks, Links
<1> QED  BY <1>1, <1>2, <1>3, <1>4, <1>5, <1>6, <1>7, <1>8, <1>9, <1>10, <1>11, <1>12, <1>13
         DEF Next, Work

\* Every reachable state satisfies the inductive invariant: what an id on
\* the stream or in a buffer meant when it was sent, it means for ever.
THEOREM MbInfoInvariance == Spec => []MbInv
<1>1. Init => MbInv
  BY InitInv
<1>2. MbInv /\ [Next]_vars => MbInv'
  BY NextInv
<1> QED  BY <1>1, <1>2, PTL DEF Spec

\* The lists of blocks and buffers, the cursors of ioc_get_mbinfo_to_send
\* and the requests of ioc_add_request_to_remove_mblk stay consistent: no
\* cursor dangles, whatever is added, removed, lost and connected again.
THEOREM ListsConsistent == Spec => []TypeOK
<1>1. MbInv => TypeOK
  <2> SUFFICES ASSUME MbInv PROVE TypeOK
    OBVIOUS
  <2>1. Types /\ CursorsOK
    BY DEF MbInv
  <2>2. ASSUME NEW e \in End
        PROVE  Ids(sbuf[e]) \union Ids(tbuf[e]) \subseteq Ids(mblk[e])
    <3>1. sbuf[e] \in Seq(SbufType) /\ tbuf[e] \in Seq(TbufType)
      BY <2>1 DEF Types
    <3>2. \A l \in Links(e) : l.id \in Ids(mblk[e])
      BY Owners
    <3>3. \A i \in Ids(sbuf[e]) \union Ids(tbuf[e]) : \E l \in Links(e) : l.id = i
      BY <3>1, IdsFacts DEF Links
    <3> QED  BY <3>2, <3>3
  <2>3. \A e \in End : \A i, j \in 1 .. Len(mblk[e]) : mblk[e][i].id = mblk[e][j].id => i = j
    BY DEF MbInv, BlocksOK, Distinct
  <2>4. \A i \in 1 .. Len(reqs) : Len(reqs[i]) \in 1 .. PackN
    <3>1. \A i \in 1 .. Len(reqs) : reqs[i] \in Request
      BY <2>1 DEF Types
    <3> QED  BY <3>1 DEF Request
  <2> QED  BY <2>1, <2>2, <2>3, <2>4 DEF TypeOK, Types, CursorsOK
<1> QED  BY <1>1, MbInfoInvariance, PTL

\* No source or target buffer (ioc_mbinfo_new_sbuf, ioc_mbinfo_new_tbuf) is
\* ever tied to a block of another name.
THEOREM BuffersNeverCross == Spec => []NoCrossWiring
<1>1. MbInv => NoCrossWiring
  <2> SUFFICES ASSUME MbInv, NEW e \in End, NEW l \in Links(e), l.rid \in Ids(mblk[Other(e)])
               PROVE  NameOf(Other(e), l.rid) = NameOf(e, l.id)
    BY DEF NoCrossWiring, Links, Elements
  <2>o. PICK o \in End : o = Other(e)
    BY DEF Other, End
  <2>1. /\ mblk[e] \in Seq(BlockType) /\ mblk[o] \in Seq(BlockType)
        /\ Distinct(mblk[e])
    BY DEF MbInv, Types, BlocksOK
  <2>2. PICK b \in Blocks(e) : b.id = l.id /\ Means(o, l.rid, b.name)
    BY <2>o DEF MbInv, LinksOK, LinkOK
  <2>3. Range(mblk[e]) = Blocks(e) /\ Range(mblk[o]) = Blocks(o)
    BY <2>1, ElementFacts DEF Blocks
  <2>4. NameOf(e, l.id) = b.name
    <3>1. PICK c : c = CHOOSE x \in Blocks(e) : x.id = l.id
      OBVIOUS
    <3>2. c \in Blocks(e) /\ c.id = l.id
      BY <2>2, <3>1
    <3>3. c = b
      BY <2>1, <2>2, <3>2, DistinctElements DEF Blocks
    <3> QED  BY <2>3, <3>1, <3>3 DEF NameOf
  <2>5. NameOf(o, l.rid) = b.name
    <3>1. PICK c : c = CHOOSE x \in Blocks(o) : x.id = l.rid
      OBVIOUS
    <3>2. \E x \in Blocks(o) : x.id = l.rid
      BY <2>1, <2>o, IdsFacts DEF Blocks
    <3>3. c \in Blocks(o) /\ c.id = l.rid
      BY <3>1, <3>2
    <3>4. c.name = b.name
      BY <2>2, <3>3 DEF Means
    <3> QED  BY <2>3, <3>1, <3>4 DEF NameOf
  <2> QED  BY <2>4, <2>5, <2>o
<1> QED  BY <1>1, MbInfoInvariance, PTL

----------------------------------------------------------------------------
(* What stays of a list when elements go, in order, and where a cursor on  *)
(* the list goes.                                                          *)

\* The list w, read through the increasing map m, is what the first k
\* elements of the list keep.
EmbedsTo(list, gone, w, m, k) ==
    /\ m \in [1 .. Len(w) -> 1 .. k]
    /\ \A j \in 1 .. Len(w) : w[j] = list[m[j]] /\ w[j].id \notin gone
    /\ \A i, j \in 1 .. Len(w) : i < j => m[i] < m[j]
    /\ \A i \in 1 .. k : list[i].id \notin gone => \E j \in 1 .. Len(w) : m[j] = i

\* One more element, which stays.
LEMMA EmbedsOneMore ==
    ASSUME NEW S, NEW list \in Seq(S), NEW gone, NEW p \in Seq(S), NEW m, NEW k \in Nat,
           k + 1 \in 1 .. Len(list), EmbedsTo(list, gone, p, m, k), list[k + 1].id \notin gone
    PROVE  \E r : EmbedsTo(list, gone, Append(p, list[k + 1]), r, k + 1)
<1>n. PICK n \in Nat : n = Len(p)
  OBVIOUS
<1>x. PICK x \in S : x = list[k + 1]
  OBVIOUS
<1>q. PICK q : q = Append(p, x)
  OBVIOUS
<1>1. q \in Seq(S) /\ Len(q) = n + 1 /\ q[n + 1] = x /\ \A j \in 1 .. n : q[j] = p[j]
  BY <1>n, <1>q
<1>2. /\ m \in [1 .. n -> 1 .. k]
      /\ \A j \in 1 .. n : p[j] = list[m[j]] /\ p[j].id \notin gone
      /\ \A i, j \in 1 .. n : i < j => m[i] < m[j]
      /\ \A i \in 1 .. k : list[i].id \notin gone => \E j \in 1 .. n : m[j] = i
  BY <1>n DEF EmbedsTo
<1>r. PICK r : r = [j \in 1 .. n + 1 |-> IF j = n + 1 THEN k + 1 ELSE m[j]]
  OBVIOUS
<1>3. r[n + 1] = k + 1 /\ \A j \in 1 .. n : r[j] = m[j] /\ m[j] \in 1 .. k
  BY <1>2, <1>r
<1>4. \A j \in 1 .. n + 1 : j = n + 1 \/ j \in 1 .. n
  OBVIOUS
<1>5. r \in [1 .. n + 1 -> 1 .. k + 1]
  <2>1. \A j \in 1 .. n + 1 : r[j] \in 1 .. k + 1
    BY <1>3, <1>4
  <2> QED  BY <1>r, <2>1
<1>6. ASSUME NEW j \in 1 .. n + 1
      PROVE  q[j] = list[r[j]] /\ q[j].id \notin gone
  <2>1. CASE j = n + 1
    BY <1>1, <1>3, <1>x, <2>1
  <2>2. CASE j \in 1 .. n
    BY <1>1, <1>2, <1>3, <2>2
  <2> QED  BY <1>4, <2>1, <2>2
<1>7. ASSUME NEW i \in 1 .. n + 1, NEW j \in 1 .. n + 1, i < j
      PROVE  r[i] < r[j]
  <2>1. i \in 1 .. n
    BY <1>7
  <2>2. CASE j = n + 1
    BY <1>3, <2>1, <2>2
  <2>3. CASE j \in 1 .. n
    BY <1>2, <1>3, <1>7, <2>1, <2>3
  <2> QED  BY <1>4, <2>2, <2>3
<1>8. ASSUME NEW i \in 1 .. k + 1, list[i].id \notin gone
      PROVE  \E j \in 1 .. n + 1 : r[j] = i
  <2>1. CASE i = k + 1
    BY <1>3, <2>1
  <2>2. CASE i # k + 1
    <3>1. i \in 1 .. k
      BY <2>2
    <3>2. PICK j \in 1 .. n : m[j] = i
      BY <1>2, <1>8, <3>1
    <3> QED  BY <1>3, <3>2
  <2> QED  BY <2>1, <2>2
<1>9. EmbedsTo(list, gone, q, r, k + 1)
  BY <1>1, <1>5, <1>6, <1>7, <1>8 DEF EmbedsTo
<1> QED  BY <1>9, <1>q, <1>x

\* Without keeps the order.
LEMMA WithoutOrder ==
    ASSUME NEW S, NEW list \in Seq(S), NEW gone
    PROVE  \E m : EmbedsTo(list, gone, Without(list, gone), m, Len(list))
<1>h. PICK h : h = KeptUpTo(list, gone)
  OBVIOUS
<1>n. PICK n \in Nat : n = Len(list)
  OBVIOUS
<1>1. KeptBy(list, gone, h)
  BY <1>h, KeptEquation
<1>2. /\ h[0] = <<>>
      /\ \A k \in 1 .. n :
            h[k] = IF list[k].id \in gone THEN h[k - 1] ELSE Append(h[k - 1], list[k])
  <2>1. 0 \in 0 .. n /\ \A k \in 1 .. n : k \in 0 .. n /\ k # 0
    OBVIOUS
  <2> QED  BY <1>1, <1>n, <2>1 DEF KeptBy
<1> DEFINE P(k) == h[k] \in Seq(S) /\ \E m : EmbedsTo(list, gone, h[k], m, k)
           Q == {k \in 0 .. n : P(k)}
<1>3. P(0)
  <2>m. PICK m : m = [j \in 1 .. 0 |-> j]
    OBVIOUS
  <2>1. EmbedsTo(list, gone, <<>>, m, 0)
    BY <2>m DEF EmbedsTo
  <2> QED  BY <1>2, <2>1
<1>4. ASSUME NEW k \in 1 .. n, P(k - 1)
      PROVE  P(k)
  <2>j. PICK j \in Nat : j = k - 1
    OBVIOUS
  <2>p. PICK p \in Seq(S) : p = h[j]
    BY <1>4, <2>j
  <2>m. PICK m : EmbedsTo(list, gone, p, m, j)
    BY <1>4, <2>j, <2>p
  <2>k. k = j + 1 /\ j + 1 \in 1 .. Len(list)
    BY <1>n, <2>j
  <2>1. CASE list[k].id \in gone
    <3>1. h[k] = p
      BY <1>2, <2>1, <2>j, <2>p
    <3>2. m \in [1 .. Len(p) -> 1 .. k]
      <4>1. m \in [1 .. Len(p) -> 1 .. j] /\ \A i \in 1 .. j : i \in 1 .. k
        BY <2>m, <2>k DEF EmbedsTo
      <4> QED  BY <4>1
    <3>3. \A i \in 1 .. k : list[i].id \notin gone => i \in 1 .. j
      BY <2>1, <2>k
    <3>4. EmbedsTo(list, gone, p, m, k)
      BY <2>m, <3>2, <3>3 DEF EmbedsTo
    <3> QED  BY <3>1, <3>4
  <2>2. CASE list[k].id \notin gone
    <3>0. list[k] \in S
      BY <1>n
    <3>1. h[k] = Append(p, list[k])
      BY <1>2, <2>2, <2>j, <2>p
    <3>2. \E r : EmbedsTo(list, gone, Append(p, list[j + 1]), r, j + 1)
      BY <2>2, <2>m, <2>k, EmbedsOneMore
    <3>3. Append(p, list[k]) \in Seq(S)
      BY <3>0
    <3> QED  BY <2>k, <3>1, <3>2, <3>3
  <2> QED  BY <2>1, <2>2
<1>5. 0 \in Q /\ \A k \in 1 .. n : k - 1 \in Q => k \in Q
  <2>1. 0 \in 0 .. n /\ \A k \in 1 .. n : k \in 0 .. n
    OBVIOUS
  <2> HIDE DEF P
  <2>2. 0 \in Q
    BY <1>3, <2>1
  <2>3. ASSUME NEW k \in 1 .. n, k - 1 \in Q
        PROVE  k \in Q
    <3>1. P(k - 1)
      BY <2>3
    <3> QED  BY <1>4, <2>1, <3>1
  <2> QED  BY <2>2, <2>3
<1>6. \A k \in 0 .. n : k \in Q
  <2> HIDE DEF Q
  <2> QED  BY <1>5, Upwards
<1>7. P(n)
  <2> HIDE DEF P
  <2> QED  BY <1>6
<1> QED  BY <1>7, <1>h, <1>n DEF Without

\* Something not gone at or after the cursor: the cursor does not pass it.
LEMMA AdvanceUpTo ==
    ASSUME NEW S, NEW list \in Seq(S), NEW cur, NEW gone, NEW i \in 1 .. Len(list),
           \E j \in 1 .. i : list[j].id = cur, list[i].id \notin gone
    PROVE  \E c \in 1 .. i : list[c].id = Advance(list, cur, gone) /\ list[c].id \notin gone
<1> DEFINE kept == {k \in 1 .. Len(list) :
                      (\E j \in 1 .. k : list[j].id = cur) /\ list[k].id \notin gone}
<1>1. i \in kept
  OBVIOUS
<1>2. kept \subseteq Nat /\ kept # {}
  BY <1>1
<1>3. Advance(list, cur, gone) = list[CHOOSE k \in kept : \A j \in kept : k <= j].id
  BY <1>2 DEF Advance
<1>4. \A k \in kept : k \in 1 .. Len(list) /\ list[k].id \notin gone
  OBVIOUS
<1> HIDE DEF kept
<1>5. \E k \in kept : \A j \in kept : k <= j
  BY <1>2, LeastNat
<1>6. PICK c \in kept : c = CHOOSE k \in kept : \A j \in kept : k <= j
  BY <1>5
<1>m. \A j \in kept : c <= j
  BY <1>5, <1>6
<1>c. c \in 1 .. Len(list) /\ list[c].id \notin gone
  BY <1>4
<1>n. PICK n \in Nat : n = Len(list)
  OBVIOUS
<1>7. c \in 1 .. i
  <2>1. c <= i
    BY <1>1, <1>m
  <2> QED  BY <1>c, <1>n, <2>1
<1>8. list[c].id = Advance(list, cur, gone)
  BY <1>3, <1>6
<1> QED  BY <1>7, <1>8, <1>c

\* The cursor is at the j-th element of the list or before it.
Ahead(list, cur, j) == cur # 0 /\ \E i \in 1 .. j : list[i].id = cur

\* What was not passed and is not gone is not passed after elements are gone.
LEMMA AheadKept ==
    ASSUME NEW S, NEW list \in Seq(S), NEW cur, NEW gone, NEW m,
           EmbedsTo(list, gone, Without(list, gone), m, Len(list)),
           \A i \in 1 .. Len(list) : list[i].id # 0,
           NEW j \in 1 .. Len(Without(list, gone)), Ahead(list, cur, m[j])
    PROVE  Ahead(Without(list, gone), Advance(list, cur, gone), j)
<1>w. PICK w \in Seq(S) : w = Without(list, gone)
  BY WithoutFacts
<1>n. PICK n \in Nat : n = Len(list)
  OBVIOUS
<1>a. PICK a : a = Advance(list, cur, gone)
  OBVIOUS
<1>1. /\ m \in [1 .. Len(w) -> 1 .. n]
      /\ \A k \in 1 .. Len(w) : w[k] = list[m[k]] /\ w[k].id \notin gone
      /\ \A i, k \in 1 .. Len(w) : i < k => m[i] < m[k]
      /\ \A i \in 1 .. n : list[i].id \notin gone => \E k \in 1 .. Len(w) : m[k] = i
  BY <1>w, <1>n DEF EmbedsTo
<1>j. j \in 1 .. Len(w) /\ Len(w) \in Nat
  BY <1>w
<1>2. PICK i \in 1 .. n : i = m[j]
  BY <1>1, <1>j
<1>3. list[i].id \notin gone /\ \E k \in 1 .. i : list[k].id = cur
  BY <1>1, <1>2, <1>j DEF Ahead
<1>4. PICK c \in 1 .. i : list[c].id = a /\ list[c].id \notin gone
  BY <1>3, <1>n, <1>a, AdvanceUpTo
<1>5. c \in 1 .. n
  OBVIOUS
<1>6. PICK k \in 1 .. Len(w) : m[k] = c
  BY <1>1, <1>4, <1>5
<1>7. k \in 1 .. j
  <2>1. ~(j < k)
    <3>1. ASSUME j < k PROVE FALSE
      <4>1. m[j] < m[k]
        BY <1>1, <1>j, <3>1
      <4> QED  BY <1>2, <1>6, <4>1
    <3> QED  BY <3>1
  <2> QED  BY <1>j, <2>1
<1>8. w[k].id = a
  BY <1>1, <1>4, <1>6
<1>9. a # 0
  BY <1>4, <1>5, <1>n
<1> QED  BY <1>7, <1>8, <1>9, <1>w, <1>a DEF Ahead

\* The ids of a list go up.
Rises(list) == \A i, j \in 1 .. Len(list) : i < j => list[i].id < list[j].id

LEMMA WithoutRises ==
    ASSUME NEW S, NEW list \in Seq(S), NEW gone, Rises(list)
    PROVE  Rises(Without(list, gone))
<1>w. PICK w \in Seq(S) : w = Without(list, gone)
  BY WithoutFacts
<1>n. PICK n \in Nat : n = Len(list)
  OBVIOUS
<1>m. PICK m : EmbedsTo(list, gone, w, m, n)
  BY <1>w, <1>n, WithoutOrder
<1>1. ASSUME NEW i \in 1 .. Len(w), NEW j \in 1 .. Len(w), i < j
      PROVE  w[i].id < w[j].id
  <2>1. m[i] \in 1 .. n /\ m[j] \in 1 .. n /\ m[i] < m[j] /\ w[i] = list[m[i]] /\ w[j] = list[m[j]]
    BY <1>m, <1>1 DEF EmbedsTo
  <2>2. PICK a \in 1 .. n : a = m[i]
    BY <2>1
  <2>3. PICK b \in 1 .. n : b = m[j]
    BY <2>1
  <2> QED  BY <1>n, <2>1, <2>2, <2>3 DEF Rises
<1> QED  BY <1>1, <1>w DEF Rises

\* On a list whose ids go up a cursor goes up, or to the end.
LEMMA AdvanceRises ==
    ASSUME NEW S, NEW list \in Seq(S), NEW cur, NEW gone, Rises(list),
           \A i \in 1 .. Len(list) : list[i].id \in Nat
    PROVE  LET a == Advance(list, cur, gone)
           IN  a = 0 \/ (a \in Nat /\ cur \in Nat /\ cur <= a /\ a \notin gone)
<1> DEFINE kept == {i \in 1 .. Len(list) :
                      (\E j \in 1 .. i : list[j].id = cur) /\ list[i].id \notin gone}
<1>a. PICK a : a = Advance(list, cur, gone)
  OBVIOUS
<1>1. CASE kept = {}
  BY <1>1 DEF Advance
<1>2. CASE kept # {}
  <2>1. kept \subseteq Nat
    OBVIOUS
  <2>2. a = list[CHOOSE i \in kept : \A j \in kept : i <= j].id
    BY <1>2, <1>a DEF Advance
  <2>3. \A i \in kept : /\ i \in 1 .. Len(list) /\ list[i].id \notin gone
                        /\ \E j \in 1 .. i : list[j].id = cur
    OBVIOUS
  <2> HIDE DEF kept
  <2>4. \E i \in kept : \A j \in kept : i <= j
    BY <1>2, <2>1, LeastNat
  <2>5. PICK c \in kept : c = CHOOSE k \in kept : \A j \in kept : k <= j
    BY <2>4
  <2>n. PICK n \in Nat : n = Len(list)
    OBVIOUS
  <2>6. c \in 1 .. n /\ list[c].id \notin gone /\ a = list[c].id
    BY <2>2, <2>3, <2>5, <2>n
  <2>7. PICK j \in 1 .. c : list[j].id = cur
    BY <2>3
  <2>8. list[j].id \in Nat /\ list[c].id \in Nat
    BY <2>6, <2>n
  <2>9. list[j].id <= list[c].id
    <3>1. CASE j = c
      BY <2>8, <3>1
    <3>2. CASE j < c
      BY <2>6, <2>8, <2>n, <3>2 DEF Rises
    <3> QED  BY <2>6, <3>1, <3>2
  <2> QED  BY <1>a, <2>6, <2>7, <2>8, <2>9
<1> QED  BY <1>1, <1>2, <1>a

----------------------------------------------------------------------------
(* The ids that the requests to remove blocks ask for.                     *)

\* The ids that a list of requests asks to remove.
Asked(q) == {u \in Nat : \E i \in 1 .. Len(q) : u \in Elements(q[i])}

LEMMA AskedFacts ==
    ASSUME NEW q \in Seq(Request)
    PROVE  /\ Asked(<<>>) = {}
           /\ \A a \in Request : Asked(Append(q, a)) = Asked(q) \union Elements(a)
           /\ q # <<>> => Asked(q) = Asked(Tail(q)) \union Elements(q[1])
<1>n. PICK n \in Nat : n = Len(q)
  OBVIOUS
<1>0. \A a \in Request : Elements(a) \subseteq Nat
  <2>1. ASSUME NEW a \in Request PROVE Elements(a) \subseteq Nat
    <3>1. a \in Seq(Nat)
      BY DEF Request
    <3> QED  BY <3>1, ElementFacts
  <2> QED  BY <2>1
<1>1. Asked(<<>>) = {}
  BY DEF Asked
<1>2. ASSUME NEW a \in Request
      PROVE  Asked(Append(q, a)) = Asked(q) \union Elements(a)
  <2>r. PICK r : r = Append(q, a)
    OBVIOUS
  <2>1. Len(r) = n + 1 /\ r[n + 1] = a /\ \A i \in 1 .. n : r[i] = q[i]
    BY <1>n, <2>r
  <2>2. ASSUME NEW u \in Asked(r)
        PROVE  u \in Asked(q) \union Elements(a)
    <3>1. PICK i \in 1 .. n + 1 : u \in Elements(r[i])
      BY <2>1 DEF Asked
    <3>2. i = n + 1 \/ i \in 1 .. n
      OBVIOUS
    <3>3. u \in Nat
      BY DEF Asked
    <3> QED  BY <1>n, <2>1, <3>1, <3>2, <3>3 DEF Asked
  <2>3. ASSUME NEW u \in Asked(q)
        PROVE  u \in Asked(r)
    <3>1. PICK i \in 1 .. n : u \in Elements(q[i])
      BY <1>n DEF Asked
    <3>2. i \in 1 .. n + 1 /\ u \in Nat
      BY DEF Asked
    <3> QED  BY <2>1, <3>1, <3>2 DEF Asked
  <2>4. ASSUME NEW u \in Elements(a)
        PROVE  u \in Asked(r)
    <3>1. n + 1 \in 1 .. n + 1 /\ u \in Nat
      BY <1>0
    <3> QED  BY <2>1, <2>4, <3>1 DEF Asked
  <2> QED  BY <2>2, <2>3, <2>4, <2>r
<1>3. ASSUME q # <<>>
      PROVE  Asked(q) = Asked(Tail(q)) \union Elements(q[1])
  <2>r. PICK r : r = Tail(q)
    OBVIOUS
  <2>1. n # 0 /\ Len(r) = n - 1 /\ \A i \in 1 .. n - 1 : r[i] = q[i + 1]
    BY <1>3, <1>n, <2>r
  <2>2. ASSUME NEW u \in Asked(q)
        PROVE  u \in Asked(r) \union Elements(q[1])
    <3>1. PICK i \in 1 .. n : u \in Elements(q[i])
      BY <1>n DEF Asked
    <3>2. u \in Nat
      BY DEF Asked
    <3>3. CASE i = 1
      BY <3>1, <3>3
    <3>4. CASE i # 1
      <4>1. PICK j \in 1 .. n - 1 : i = j + 1
        <5>1. i - 1 \in 1 .. n - 1 /\ i = (i - 1) + 1
          BY <3>4
        <5> QED  BY <5>1
      <4>2. u \in Elements(r[j])
        BY <2>1, <3>1, <4>1
      <4> QED  BY <2>1, <3>2, <4>2 DEF Asked
    <3> QED  BY <3>3, <3>4
  <2>3. ASSUME NEW u \in Asked(r)
        PROVE  u \in Asked(q)
    <3>1. PICK i \in 1 .. n - 1 : u \in Elements(r[i])
      BY <2>1 DEF Asked
    <3>2. u \in Nat /\ i + 1 \in 1 .. n
      BY DEF Asked
    <3>3. u \in Elements(q[i + 1])
      BY <2>1, <3>1
    <3> QED  BY <1>n, <3>2, <3>3 DEF Asked
  <2>4. ASSUME NEW u \in Elements(q[1])
        PROVE  u \in Asked(q)
    <3>1. 1 \in 1 .. n /\ q[1] \in Request
      BY <1>n, <2>1
    <3>2. u \in Nat
      BY <1>0, <2>4, <3>1
    <3> QED  BY <1>n, <2>4, <3>1, <3>2 DEF Asked
  <2> QED  BY <2>2, <2>3, <2>4, <2>r
<1> QED  BY <1>1, <1>2, <1>3

LEMMA AddRequestAsks ==
    ASSUME NEW q \in Seq(Request), NEW id \in Nat
    PROVE  Asked(AddRequest(q, id)) = Asked(q) \union {id}
<1>n. PICK n \in Nat : n = Len(q)
  OBVIOUS
<1>0. PackN \in Nat \ {0}
  BY MbInfoAssumption
<1>1. CASE q # <<>> /\ Len(q[n]) < PackN
  <2>1. n \in 1 .. n /\ q[n] \in Request
    BY <1>1, <1>n
  <2>l. PICK l \in Request : l = q[n]
    BY <2>1
  <2>a. PICK a : a = Append(l, id)
    OBVIOUS
  <2>2. l \in Seq(Nat)
    BY DEF Request
  <2>3. Elements(a) = Elements(l) \union {id}
    BY <2>2, <2>a, ElementFacts
  <2>4. AddRequest(q, id) = [q EXCEPT ![n] = a]
    BY <1>1, <1>n, <2>l, <2>a DEF AddRequest
  <2>r. PICK r : r = [q EXCEPT ![n] = a]
    OBVIOUS
  <2>5. Len(r) = n /\ r[n] = a /\ \A i \in 1 .. n : i # n => r[i] = q[i]
    <3>1. q \in [1 .. n -> Request]
      BY <1>n
    <3>2. r[n] = a /\ \A i \in 1 .. n : i # n => r[i] = q[i]
      BY <2>1, <2>r, <3>1
    <3>3. r \in Seq(Request)
      <4>1. a \in Request
        <5>1. Len(a) = Len(l) + 1 /\ a \in Seq(Nat) /\ Len(l) \in 1 .. PackN /\ Len(l) < PackN
          BY <1>1, <2>l, <2>2, <2>a DEF Request
        <5> QED  BY <1>0, <5>1 DEF Request
      <4>2. r \in [1 .. n -> Request]
        BY <2>r, <3>1, <4>1
      <4> QED  BY <4>2, SeqDef
    <3>4. DOMAIN r = 1 .. n
      BY <2>r, <3>1
    <3>5. Len(r) = n
      BY <3>3, <3>4
    <3> QED  BY <3>2, <3>5
  <2>6. ASSUME NEW u \in Asked(r)
        PROVE  u \in Asked(q) \union {id}
    <3>1. PICK i \in 1 .. n : u \in Elements(r[i])
      BY <2>5 DEF Asked
    <3>2. u = id \/ u \in Elements(q[i])
      BY <2>3, <2>5, <2>l, <3>1
    <3>3. u \in Nat
      BY DEF Asked
    <3> QED  BY <1>n, <3>2, <3>3 DEF Asked
  <2>7. ASSUME NEW u \in Asked(q)
        PROVE  u \in Asked(r)
    <3>1. PICK i \in 1 .. n : u \in Elements(q[i])
      BY <1>n DEF Asked
    <3>2. u \in Elements(r[i])
      BY <2>3, <2>5, <2>l, <3>1
    <3>3. u \in Nat
      BY DEF Asked
    <3> QED  BY <2>5, <3>2, <3>3 DEF Asked
  <2>8. id \in Asked(r)
    <3>1. id \in Elements(r[n])
      BY <2>3, <2>5
    <3> QED  BY <2>1, <2>5, <3>1 DEF Asked
  <2> QED  BY <2>4, <2>6, <2>7, <2>8, <2>r
<1>2. CASE ~(q # <<>> /\ Len(q[n]) < PackN)
  <2>a. PICK a : a = <<id>>
    OBVIOUS
  <2>1. a \in Seq(Nat) /\ Len(a) = 1 /\ a[1] = id
    BY <2>a
  <2>2. a \in Request
    <3>1. 1 \in 1 .. PackN
      BY <1>0
    <3> QED  BY <2>1, <3>1 DEF Request
  <2>3. AddRequest(q, id) = Append(q, a)
    BY <1>2, <1>n, <2>a DEF AddRequest
  <2>4. Elements(a) = {id}
    BY <2>1 DEF Elements
  <2> QED  BY <2>2, <2>3, <2>4, AskedFacts
<1> QED  BY <1>1, <1>2

LEMMA AddRequestsAsk ==
    ASSUME NEW q \in Seq(Request), NEW ids \in Seq(Nat)
    PROVE  Asked(AddRequests(q, ids)) = Asked(q) \union Elements(ids)
<1>n. PICK n \in Nat : n = Len(ids)
  OBVIOUS
<1>1. \A i \in 1 .. n : ids[i] \in Nat
  BY <1>n
<1>h. PICK h : h = RequestsUpTo(q, ids)
  OBVIOUS
<1>2. h[0] = q /\ \A k \in 1 .. n : h[k] = AddRequest(h[k - 1], ids[k])
  <2>1. 0 \in 0 .. n /\ \A k \in 1 .. n : k \in 0 .. n /\ k # 0
    OBVIOUS
  <2>2. RequestsBy(q, ids, h)
    BY <1>h, RequestsEquation
  <2> QED  BY <1>n, <2>1, <2>2 DEF RequestsBy
<1> DEFINE First(k) == {ids[i] : i \in 1 .. k}
           P(k) == h[k] \in Seq(Request) /\ Asked(h[k]) = Asked(q) \union First(k)
           Q == {k \in 0 .. n : P(k)}
<1>3. P(0)
  BY <1>2
<1>4. ASSUME NEW k \in 1 .. n, P(k - 1)
      PROVE  P(k)
  <2>j. PICK j \in 0 .. n : j = k - 1
    OBVIOUS
  <2>p. PICK p \in Seq(Request) : p = h[j]
    BY <1>4, <2>j
  <2>1. Asked(p) = Asked(q) \union First(j)
    BY <1>4, <2>j, <2>p
  <2>2. h[k] = AddRequest(p, ids[k]) /\ ids[k] \in Nat
    BY <1>1, <1>2, <2>j, <2>p
  <2>3. h[k] \in Seq(Request)
    BY <2>2, AddRequestType
  <2>4. Asked(h[k]) = Asked(p) \union {ids[k]}
    BY <2>2, AddRequestAsks
  <2>5. First(k) = First(j) \union {ids[k]}
    <3>1. \A i \in 1 .. k : i = k \/ i \in 1 .. j
      BY <2>j
    <3>2. k \in 1 .. k /\ \A i \in 1 .. j : i \in 1 .. k
      BY <2>j
    <3> QED  BY <3>1, <3>2
  <2> HIDE DEF First
  <2>6. Asked(h[k]) = Asked(q) \union First(k)
    BY <2>1, <2>4, <2>5
  <2> QED  BY <2>3, <2>6
<1>5. \A k \in 0 .. n : k \in Q
  <2>1. 0 \in 0 .. n /\ \A k \in 1 .. n : k \in 0 .. n
    OBVIOUS
  <2> HIDE DEF P
  <2>2. 0 \in Q
    BY <1>3, <2>1
  <2>3. ASSUME NEW k \in 1 .. n, k - 1 \in Q
        PROVE  k \in Q
    <3>1. P(k - 1)
      BY <2>3
    <3> QED  BY <1>4, <2>1, <3>1
  <2> HIDE DEF Q
  <2> QED  BY <2>2, <2>3, Upwards
<1>6. P(n)
  <2> HIDE DEF P
  <2> QED  BY <1>5
<1> QED  BY <1>6, <1>h, <1>n DEF AddRequests, Elements

\* The remote ids of the buffers of a block.
LEMMA RemoteIdsFacts ==
    ASSUME NEW S, NEW list \in Seq(S), NEW id
    PROVE  Elements(RemoteIds(list, id)) = {l.rid : l \in {k \in Elements(list) : k.id = id}}
<1>l. PICK ls : ls = Without(list, Ids(list) \ {id})
  OBVIOUS
<1>1. ls \in Seq(S) /\ Elements(ls) = {k \in Elements(list) : k.id \notin Ids(list) \ {id}}
  BY <1>l, WithoutFacts
<1>2. Elements(ls) = {k \in Elements(list) : k.id = id}
  BY <1>1, IdsFacts
<1>r. PICK r : r = [i \in 1 .. Len(ls) |-> ls[i].rid]
  OBVIOUS
<1>3. Len(r) = Len(ls) /\ \A i \in 1 .. Len(ls) : r[i] = ls[i].rid
  BY <1>1, <1>r
<1>4. Elements(r) = {l.rid : l \in Elements(ls)}
  BY <1>3 DEF Elements
<1> QED  BY <1>2, <1>4, <1>l, <1>r DEF RemoteIds

LEMMA ConcatElements ==
    ASSUME NEW S, NEW s \in Seq(S), NEW t \in Seq(S)
    PROVE  Elements(s \o t) = Elements(s) \union Elements(t)
<1>n. PICK n \in Nat : n = Len(s)
  OBVIOUS
<1>m. PICK m \in Nat : m = Len(t)
  OBVIOUS
<1>r. PICK r : r = s \o t
  OBVIOUS
<1>1. /\ Len(r) = n + m
      /\ \A i \in 1 .. n + m : r[i] = IF i <= n THEN s[i] ELSE t[i - n]
  BY <1>n, <1>m, <1>r
<1>2. ASSUME NEW x \in Elements(r) PROVE x \in Elements(s) \union Elements(t)
  <2>1. PICK i \in 1 .. n + m : x = r[i]
    BY <1>1 DEF Elements
  <2>2. CASE i <= n
    <3>1. i \in 1 .. n /\ x = s[i]
      BY <1>1, <2>1, <2>2
    <3> QED  BY <1>n, <3>1 DEF Elements
  <2>3. CASE ~(i <= n)
    <3>1. i - n \in 1 .. m /\ x = t[i - n]
      BY <1>1, <2>1, <2>3
    <3> QED  BY <1>m, <3>1 DEF Elements
  <2> QED  BY <2>2, <2>3
<1>3. ASSUME NEW x \in Elements(s) PROVE x \in Elements(r)
  <2>1. PICK i \in 1 .. n : x = s[i]
    BY <1>n DEF Elements
  <2>2. i \in 1 .. n + m /\ x = r[i]
    BY <1>1, <2>1
  <2> QED  BY <1>1, <2>2 DEF Elements
<1>4. ASSUME NEW x \in Elements(t) PROVE x \in Elements(r)
  <2>1. PICK i \in 1 .. m : x = t[i]
    BY <1>m DEF Elements
  <2>j. PICK j \in 1 .. n + m : j = i + n
    OBVIOUS
  <2>2. ~(j <= n) /\ j - n = i
    BY <2>j
  <2>3. x = r[j]
    BY <1>1, <2>1, <2>2
  <2> QED  BY <1>1, <2>3 DEF Elements
<1> QED  BY <1>2, <1>3, <1>4, <1>r

----------------------------------------------------------------------------
(* What an action does, in terms of sets of blocks, buffers, ids and       *)
(* frames.  The proofs below use these facts, not the actions.             *)

Bufs(e) == Ids(sbuf[e]) \union Ids(tbuf[e])
Named(e, n) == \E b \in Blocks(e) : b.name = n

\* The ends and their lists.
LEMMA EndFacts ==
    ASSUME Types
    PROVE  /\ "L" \in End /\ "U" \in End /\ "L" # "U"
           /\ Other("L") = "U" /\ Other("U") = "L"
           /\ \A e \in End : /\ mblk[e] \in Seq(BlockType) /\ lastId[e] \in Nat
                             /\ sbuf[e] \in Seq(SbufType) /\ tbuf[e] \in Seq(TbufType)
                             /\ line[e] \in Seq(Frame)
           /\ reqs \in Seq(Request) /\ current \in Nat /\ scur \in Nat /\ tcur \in Nat
BY DEF Types, End, Other

\* Blocks and buffers in terms of their types and ids.
LEMMA LinkFacts ==
    ASSUME Types, NEW e \in End
    PROVE  /\ \A b \in Blocks(e) : b \in BlockType /\ b.id \in Nat /\ b.name \in Names
           /\ \A l \in Links(e) : l.id \in Nat /\ l.rid \in Nat
           /\ Bufs(e) = {l.id : l \in Links(e)}
           /\ \A l \in Elements(sbuf[e]) : l \in Links(e) /\ l.id \in Ids(sbuf[e])
           /\ \A l \in Elements(tbuf[e]) : l \in Links(e) /\ l.id \in Ids(tbuf[e])
           /\ Ids(mblk[e]) = {b.id : b \in Blocks(e)}
<1>1. mblk[e] \in Seq(BlockType) /\ sbuf[e] \in Seq(SbufType) /\ tbuf[e] \in Seq(TbufType)
  BY DEF Types
<1>2. \A b \in Blocks(e) : b \in BlockType /\ b.id \in Nat /\ b.name \in Names
  <2>1. \A b \in Blocks(e) : b \in BlockType
    BY <1>1, ElementFacts DEF Blocks
  <2> QED  BY <2>1 DEF BlockType
<1>3. \A l \in Links(e) : l.id \in Nat /\ l.rid \in Nat
  <2>1. \A l \in Links(e) : l \in SbufType \/ l \in TbufType
    BY <1>1, ElementFacts DEF Links
  <2> QED  BY <2>1 DEF SbufType, TbufType
<1>4. /\ \A l \in Elements(sbuf[e]) : l \in Links(e) /\ l.id \in Ids(sbuf[e])
      /\ \A l \in Elements(tbuf[e]) : l \in Links(e) /\ l.id \in Ids(tbuf[e])
  BY <1>1, IdsFacts DEF Links
<1>5. Bufs(e) = {l.id : l \in Links(e)}
  <2>1. \A i \in Ids(sbuf[e]) : \E l \in Links(e) : l.id = i
    BY <1>1, IdsFacts DEF Links
  <2>2. \A i \in Ids(tbuf[e]) : \E l \in Links(e) : l.id = i
    BY <1>1, IdsFacts DEF Links
  <2>3. \A l \in Links(e) : l.id \in Bufs(e)
    BY <1>4 DEF Links, Bufs
  <2> QED  BY <2>1, <2>2, <2>3 DEF Bufs
<1>6. Ids(mblk[e]) = {b.id : b \in Blocks(e)}
  BY <1>1, IdsFacts DEF Blocks
<1> QED  BY <1>2, <1>3, <1>4, <1>5, <1>6

\* What a device's block brings.
BlockAdded(n, b) ==
    /\ b.id = lastId["L"] + 1 /\ b.name = n /\ ~Named("L", n)
    /\ mblk'["L"] = Append(mblk["L"], b) /\ mblk'["U"] = mblk["U"]
    /\ Blocks("L")' = Blocks("L") \union {b} /\ Blocks("U")' = Blocks("U")
    /\ lastId'["L"] = b.id /\ lastId'["U"] = lastId["U"]
    /\ current' = IF current = 0 THEN b.id ELSE current
    /\ UNCHANGED <<sbuf, tbuf, scur, tcur, reqs, line, open>>

LEMMA AddDoes ==
    ASSUME MbInv, NEW n \in Names, AddMblk(n)
    PROVE  \E b \in BlockType : BlockAdded(n, b)
<1>0. Types
  BY DEF MbInv
<1>1. /\ "L" \in End /\ "U" \in End /\ "L" # "U" /\ mblk["L"] \in Seq(BlockType)
      /\ lastId["L"] \in Nat
  BY <1>0, EndFacts
<1>b. PICK b : b = [id |-> lastId["L"] + 1, name |-> n, dyn |-> TRUE]
  OBVIOUS
<1>2. b \in BlockType /\ b.id = lastId["L"] + 1 /\ b.name = n
  BY <1>1, <1>b DEF BlockType
<1>3. /\ mblk' = [mblk EXCEPT !["L"] = Append(@, b)]
      /\ lastId' = [lastId EXCEPT !["L"] = b.id]
  BY <1>b, <1>2 DEF AddMblk, UniqueId
<1>4. mblk'["L"] = Append(mblk["L"], b) /\ mblk'["U"] = mblk["U"]
  BY <1>0, <1>1, <1>3 DEF Types
<1>5. lastId'["L"] = b.id /\ lastId'["U"] = lastId["U"]
  BY <1>0, <1>1, <1>3 DEF Types
<1>6. Blocks("L")' = Blocks("L") \union {b} /\ Blocks("U")' = Blocks("U")
  <2>1. Elements(Append(mblk["L"], b)) = Elements(mblk["L"]) \union {b}
    BY <1>1, <1>2, ElementFacts
  <2> QED  BY <1>4, <2>1 DEF Blocks
<1>7. ~Named("L", n)
  <2>1. Range(mblk["L"]) = Blocks("L")
    BY <1>1, ElementFacts DEF Blocks
  <2> QED  BY <2>1 DEF AddMblk, Named
<1>8. current' = IF current = 0 THEN b.id ELSE current
  BY <1>2 DEF AddMblk, CursorToNew, UniqueId
<1>9. UNCHANGED <<sbuf, tbuf, scur, tcur, reqs, line, open>>
  BY DEF AddMblk
<1> QED  BY <1>2, <1>4, <1>5, <1>6, <1>7, <1>8, <1>9 DEF BlockAdded

\* What the loss of a device takes.
BlockDropped(id) ==
    /\ mblk'["L"] = Without(mblk["L"], {id})
    /\ Blocks("L")' = {b \in Blocks("L") : b.id # id} /\ Blocks("U")' = Blocks("U")
    /\ Elements(sbuf'["L"]) = {l \in Elements(sbuf["L"]) : l.id # id}
    /\ Elements(tbuf'["L"]) = {l \in Elements(tbuf["L"]) : l.id # id}
    /\ sbuf'["U"] = sbuf["U"] /\ tbuf'["U"] = tbuf["U"]
    /\ Asked(reqs') = Asked(reqs) \union {l.rid : l \in {k \in Links("L") : k.id = id}}
    /\ current' = Advance(mblk["L"], current, {id})
    /\ UNCHANGED <<lastId, scur, tcur, line, open>>

LEMMA DropDoes ==
    ASSUME MbInv, NEW id, DeviceDropped(id)
    PROVE  BlockDropped(id)
<1>g. PICK gone : gone = {id}
  OBVIOUS
<1>0. Types
  BY DEF MbInv
<1>1. /\ "L" \in End /\ "U" \in End /\ "L" # "U"
      /\ mblk["L"] \in Seq(BlockType) /\ sbuf["L"] \in Seq(SbufType) /\ tbuf["L"] \in Seq(TbufType)
      /\ reqs \in Seq(Request)
  BY <1>0, EndFacts
<1>2. /\ mblk' = [mblk EXCEPT !["L"] = Without(@, gone)] /\ lastId' = lastId
      /\ sbuf' = [sbuf EXCEPT !["L"] = Without(@, gone)]
      /\ tbuf' = [tbuf EXCEPT !["L"] = Without(@, gone)]
      /\ current' = Advance(mblk["L"], current, {id})
      /\ reqs' = DelRequests(id)
      /\ UNCHANGED <<lastId, scur, tcur, line, open>>
  BY <1>g DEF DeviceDropped
<1>3. /\ Blocks("L")' = {b \in Blocks("L") : b.id \notin gone}
      /\ mblk'["U"] = mblk["U"]
  BY <1>1, <1>2, ReleaseBlocks
<1>4. mblk'["L"] = Without(mblk["L"], {id})
  BY <1>0, <1>1, <1>2, <1>g DEF Types
<1>5. /\ Elements(sbuf'["L"]) = {l \in Elements(sbuf["L"]) : l.id \notin gone}
      /\ Elements(tbuf'["L"]) = {l \in Elements(tbuf["L"]) : l.id \notin gone}
      /\ sbuf'["U"] = sbuf["U"] /\ tbuf'["U"] = tbuf["U"]
  BY <1>0, <1>1, <1>2, ReleaseBuffers
<1>6. Asked(reqs') = Asked(reqs) \union {l.rid : l \in {k \in Links("L") : k.id = id}}
  <2>s. PICK s : s = RemoteIds(sbuf["L"], id)
    OBVIOUS
  <2>t. PICK t : t = RemoteIds(tbuf["L"], id)
    OBVIOUS
  <2>1. s \in Seq(Nat) /\ Elements(s) = {l.rid : l \in {k \in Elements(sbuf["L"]) : k.id = id}}
    <3>1. \A x \in SbufType : x.rid \in Nat
      BY DEF SbufType
    <3> QED  BY <1>1, <2>s, <3>1, RemoteIdsType, RemoteIdsFacts
  <2>2. t \in Seq(Nat) /\ Elements(t) = {l.rid : l \in {k \in Elements(tbuf["L"]) : k.id = id}}
    <3>1. \A x \in TbufType : x.rid \in Nat
      BY DEF TbufType
    <3> QED  BY <1>1, <2>t, <3>1, RemoteIdsType, RemoteIdsFacts
  <2>3. s \o t \in Seq(Nat) /\ Elements(s \o t) = Elements(s) \union Elements(t)
    BY <2>1, <2>2, ConcatElements
  <2>4. Asked(reqs') = Asked(reqs) \union Elements(s \o t)
    BY <1>1, <1>2, <2>s, <2>t, <2>3, AddRequestsAsk DEF DelRequests
  <2>5. Elements(s) \union Elements(t) = {l.rid : l \in {k \in Links("L") : k.id = id}}
    BY <2>1, <2>2 DEF Links
  <2> QED  BY <2>3, <2>4, <2>5
<1> QED  BY <1>2, <1>3, <1>4, <1>5, <1>6, <1>g DEF BlockDropped, Blocks

\* Ids of what is kept.
LEMMA IdsWithout ==
    ASSUME NEW S, NEW list \in Seq(S), NEW gone
    PROVE  Ids(Without(list, gone)) = Ids(list) \ gone
<1>w. PICK w : w = Without(list, gone)
  OBVIOUS
<1>1. w \in Seq(S) /\ Elements(w) = {x \in Elements(list) : x.id \notin gone}
  BY <1>w, WithoutFacts
<1>2. ASSUME NEW i \in Ids(w) PROVE i \in Ids(list) \ gone
  <2>1. PICK x \in Elements(w) : x.id = i
    BY <1>1, IdsFacts
  <2> QED  BY <1>1, <2>1, IdsFacts
<1>3. ASSUME NEW i \in Ids(list) \ gone PROVE i \in Ids(w)
  <2>1. PICK x \in Elements(list) : x.id = i
    BY IdsFacts
  <2> QED  BY <1>1, <2>1, IdsFacts
<1> QED  BY <1>2, <1>3, <1>w

\* What a request to remove blocks does at the upper end.
RemoveRead(f, gone) ==
    /\ line["L"] # <<>> /\ f = Head(line["L"]) /\ f \in RemoveFrame
    /\ gone = Elements(f.ids) \intersect Bufs("U")
    /\ line'["L"] = Tail(line["L"]) /\ line'["U"] = line["U"]
    /\ mblk'["L"] = mblk["L"] /\ Blocks("U")' = {b \in Blocks("U") : b.id \notin gone}
    /\ sbuf'["U"] = Without(sbuf["U"], gone)
    /\ Links("U")' = {l \in Links("U") : l.id \notin gone}
    /\ Ids(sbuf'["U"]) = Ids(sbuf["U"]) \ gone /\ Ids(tbuf'["U"]) = Ids(tbuf["U"]) \ gone
    /\ sbuf'["L"] = sbuf["L"] /\ tbuf'["L"] = tbuf["L"]
    /\ scur' = Advance(sbuf["U"], scur, gone)
    /\ open["U"] /\ UNCHANGED <<lastId, current, reqs, open>>

LEMMA RemoveDoes ==
    ASSUME MbInv, ReceiveRemove
    PROVE  \E f, gone : RemoveRead(f, gone)
<1>f. PICK f : f = Head(line["L"])
  OBVIOUS
<1>g. PICK gone : gone = Range(f.ids) \intersect (Ids(sbuf["U"]) \union Ids(tbuf["U"]))
  OBVIOUS
<1>0. Types
  BY DEF MbInv
<1>1. /\ "L" \in End /\ "U" \in End /\ "L" # "U" /\ Other("U") = "L"
      /\ mblk["U"] \in Seq(BlockType) /\ sbuf["U"] \in Seq(SbufType) /\ tbuf["U"] \in Seq(TbufType)
  BY <1>0, EndFacts
<1>2. /\ mblk' = [mblk EXCEPT !["U"] = Without(@, gone)] /\ lastId' = lastId
      /\ sbuf' = [sbuf EXCEPT !["U"] = Without(@, gone)]
      /\ tbuf' = [tbuf EXCEPT !["U"] = Without(@, gone)]
      /\ scur' = Advance(sbuf["U"], scur, gone)
      /\ UNCHANGED <<lastId, current, reqs, open>>
      /\ Incoming("U", "remove") /\ Take("U")
  BY <1>f, <1>g DEF ReceiveRemove
<1>3. /\ mblk'["L"] = mblk["L"] /\ Blocks("U")' = {b \in Blocks("U") : b.id \notin gone}
  BY <1>1, <1>2, ReleaseBlocks
<1>4. /\ Elements(sbuf'["U"]) = {l \in Elements(sbuf["U"]) : l.id \notin gone}
      /\ Elements(tbuf'["U"]) = {l \in Elements(tbuf["U"]) : l.id \notin gone}
      /\ sbuf'["L"] = sbuf["L"] /\ tbuf'["L"] = tbuf["L"]
  BY <1>0, <1>1, <1>2, ReleaseBuffers
<1>5. sbuf'["U"] = Without(sbuf["U"], gone)
  BY <1>0, <1>1, <1>2 DEF Types
<1>6. tbuf'["U"] = Without(tbuf["U"], gone)
  BY <1>0, <1>1, <1>2 DEF Types
<1>7. Ids(sbuf'["U"]) = Ids(sbuf["U"]) \ gone /\ Ids(tbuf'["U"]) = Ids(tbuf["U"]) \ gone
  BY <1>1, <1>5, <1>6, IdsWithout
<1>8. f \in Frame /\ f.t = "remove"
  BY <1>0, <1>1, <1>2, <1>f, TakeFrames
<1>9. f \in RemoveFrame
  BY <1>8 DEF Frame, InfoFrame, DataFrame, RemoveFrame
<1>10. line["L"] # <<>> /\ open["U"] /\ line'["L"] = Tail(line["L"]) /\ line'["U"] = line["U"]
  <2>1. line["L"] # <<>> /\ open["U"]
    BY <1>1, <1>2 DEF Incoming
  <2> QED  BY <1>0, <1>1, <1>2, <2>1 DEF Take, Types
<1>11. gone = Elements(f.ids) \intersect Bufs("U")
  <2>1. f.ids \in Seq(Nat)
    BY <1>9 DEF RemoveFrame, Request
  <2> QED  BY <1>g, <2>1, ElementFacts DEF Bufs
<1>12. Links("U")' = {l \in Links("U") : l.id \notin gone}
  BY <1>4 DEF Links
<1> QED  BY <1>2, <1>3, <1>4, <1>5, <1>7, <1>9, <1>10, <1>11, <1>12, <1>f DEF RemoveRead

\* What memory block info does at the end that reads it.
InfoRead(e, o, f, b) ==
    /\ o = Other(e) /\ open[e]
    /\ line[o] # <<>> /\ f = Head(line[o]) /\ f \in InfoFrame
    /\ line'[o] = Tail(line[o]) /\ line'[e] = line[e]
    /\ b \in BlockType /\ b.name = f.name
    /\ \/ b \in Blocks(e) /\ mblk' = mblk /\ lastId' = lastId
       \/ /\ e = "U" /\ b.dyn /\ b.id = lastId["U"] + 1 /\ ~Named("U", f.name)
          /\ mblk'["L"] = mblk["L"] /\ Blocks("U")' = Blocks("U") \union {b}
          /\ lastId'["L"] = lastId["L"] /\ lastId'["U"] = b.id
    /\ sbuf'[o] = sbuf[o] /\ tbuf'[o] = tbuf[o]
    /\ Ids(sbuf'[e]) = Ids(sbuf[e]) \union (IF CanSend(e, b.name) THEN {b.id} ELSE {})
    /\ Ids(tbuf'[e]) = Ids(tbuf[e]) \union (IF CanReceive(e, b.name) THEN {b.id} ELSE {})
    /\ \A l \in Elements(sbuf'[e]) :
          l \in Elements(sbuf[e]) \/ (l.id = b.id /\ l.rid = f.id /\ CanSend(e, b.name))
    /\ \A l \in Elements(tbuf'[e]) :
          l \in Elements(tbuf[e]) \/ (l.id = b.id /\ l.rid = f.id /\ CanReceive(e, b.name))
    /\ UNCHANGED <<current, reqs, open>>

\* The source buffer that info adds, at the end of the list.
SourceAdded(e, f, b) ==
    \/ sbuf'[e] = sbuf[e] /\ scur' = scur
    \/ \E x \in SbufType :
          /\ x.id = b.id /\ x.rid = f.id /\ CanSend(e, b.name)
          /\ sbuf'[e] = Append(sbuf[e], x)
          /\ scur' = IF e = "U" /\ scur = 0 THEN b.id ELSE scur

LEMMA IdsAppend ==
    ASSUME NEW S, NEW list \in Seq(S), NEW x \in S
    PROVE  Ids(Append(list, x)) = Ids(list) \union {x.id}
<1>w. PICK w : w = Append(list, x)
  OBVIOUS
<1>1. w \in Seq(S) /\ Elements(w) = Elements(list) \union {x}
  BY <1>w, ElementFacts
<1>2. ASSUME NEW i \in Ids(w) PROVE i \in Ids(list) \union {x.id}
  <2>1. PICK y \in Elements(w) : y.id = i
    BY <1>1, IdsFacts
  <2> QED  BY <1>1, <2>1, IdsFacts
<1>3. ASSUME NEW i \in Ids(list) PROVE i \in Ids(w)
  <2>1. PICK y \in Elements(list) : y.id = i
    BY IdsFacts
  <2> QED  BY <1>1, <2>1, IdsFacts
<1>4. x.id \in Ids(w)
  BY <1>1, IdsFacts
<1> QED  BY <1>2, <1>3, <1>4, <1>w

LEMMA ReadInfoDoes ==
    ASSUME MbInv, NEW e \in End, ReceiveInfo(e)
    PROVE  \E o \in End : \E f, b : InfoRead(e, o, f, b) /\ SourceAdded(e, f, b)
<1>o. PICK o \in End : o = Other(e) /\ o # e
  BY DEF Other, End
<1>f. PICK f : f = Head(line[o])
  OBVIOUS
<1>m. PICK same : same = {x \in Range(mblk[e]) : x.name = f.name}
  OBVIOUS
<1>b. PICK b : b = IF same # {} THEN CHOOSE x \in same : TRUE
                   ELSE [id |-> UniqueId(e), name |-> f.name, dyn |-> TRUE]
  OBVIOUS
<1>s. PICK newS \in BOOLEAN : newS = (CanSend(e, b.name) /\ ~Linked(sbuf[e], b.id))
  OBVIOUS
<1>t. PICK newT \in BOOLEAN : newT = (CanReceive(e, b.name) /\ ~Linked(tbuf[e], b.id))
  OBVIOUS
<1>x. PICK x : x = [id |-> b.id, rid |-> f.id, used |-> TRUE]
  OBVIOUS
<1>y. PICK y : y = [id |-> b.id, rid |-> f.id]
  OBVIOUS
<1>0. Types
  BY DEF MbInv
<1>T. /\ "L" \in End /\ "U" \in End /\ "L" # "U" /\ mblk[e] \in Seq(BlockType)
      /\ sbuf[e] \in Seq(SbufType) /\ tbuf[e] \in Seq(TbufType) /\ lastId[e] \in Nat
  BY <1>0, EndFacts
<1>1. /\ same # {} \/ e = "U"
      /\ IF same # {} THEN UNCHANGED <<mblk, lastId>>
         ELSE /\ mblk' = [mblk EXCEPT ![e] = Append(@, b)]
              /\ lastId' = [lastId EXCEPT ![e] = b.id]
      /\ sbuf' = IF ~newS THEN sbuf ELSE [sbuf EXCEPT ![e] = Append(@, x)]
      /\ tbuf' = IF ~newT THEN tbuf ELSE [tbuf EXCEPT ![e] = Append(@, y)]
      /\ scur' = IF newS /\ e = "U" /\ scur = 0 THEN b.id ELSE scur
      /\ UNCHANGED <<current, reqs, open>>
      /\ Incoming(e, "info") /\ Take(e)
  BY <1>o, <1>f, <1>m, <1>b, <1>s, <1>t, <1>x, <1>y DEF ReceiveInfo
<1>2. f \in Frame /\ f.t = "info"
  BY <1>0, <1>1, <1>o, <1>f, TakeFrames
<1>3. f \in InfoFrame /\ f.id \in Nat /\ f.name \in Names
  BY <1>2 DEF Frame, InfoFrame, DataFrame, RemoveFrame
<1>4. open[e] /\ line[o] # <<>> /\ line'[o] = Tail(line[o]) /\ line'[e] = line[e]
  <2>1. open[e] /\ line[o] # <<>>
    BY <1>1, <1>o DEF Incoming
  <2>2. line' = [line EXCEPT ![o] = Tail(@)] /\ line \in [End -> Seq(Frame)]
    BY <1>0, <1>1, <1>o DEF Take, Types
  <2> QED  BY <1>o, <2>1, <2>2
<1>5. /\ b \in BlockType /\ b.name = f.name
      /\ \/ b \in Blocks(e) /\ mblk' = mblk /\ lastId' = lastId
         \/ /\ e = "U" /\ b.dyn /\ b.id = lastId["U"] + 1 /\ ~Named("U", f.name)
            /\ mblk'["L"] = mblk["L"] /\ Blocks("U")' = Blocks("U") \union {b}
            /\ lastId'["L"] = lastId["L"] /\ lastId'["U"] = b.id
  <2>0. Range(mblk[e]) = Blocks(e)
    BY <1>T, ElementFacts DEF Blocks
  <2>1. CASE same # {}
    <3>1. b \in same
      BY <1>b, <2>1
    <3>2. b \in Blocks(e) /\ b.name = f.name
      BY <1>m, <2>0, <3>1
    <3>3. b \in BlockType
      BY <1>T, <3>2, ElementFacts DEF Blocks
    <3> QED  BY <1>1, <2>1, <3>2, <3>3
  <2>2. CASE same = {}
    <3>1. e = "U"
      BY <1>1, <2>2
    <3>2. b = [id |-> lastId[e] + 1, name |-> f.name, dyn |-> TRUE]
      BY <1>b, <2>2 DEF UniqueId
    <3>3. b \in BlockType /\ b.name = f.name /\ b.id = lastId["U"] + 1 /\ b.dyn
      BY <1>T, <1>3, <3>1, <3>2 DEF BlockType
    <3>4. mblk' = [mblk EXCEPT ![e] = Append(@, b)] /\ lastId' = [lastId EXCEPT ![e] = b.id]
      BY <1>1, <2>2
    <3>5. mblk'["L"] = mblk["L"] /\ mblk'["U"] = Append(mblk["U"], b)
      BY <1>0, <1>T, <3>1, <3>4 DEF Types
    <3>6. lastId'["L"] = lastId["L"] /\ lastId'["U"] = b.id
      BY <1>0, <1>T, <3>1, <3>4 DEF Types
    <3>7. Blocks("U")' = Blocks("U") \union {b}
      <4>1. mblk["U"] \in Seq(BlockType)
        BY <1>T, <3>1
      <4>2. Elements(Append(mblk["U"], b)) = Elements(mblk["U"]) \union {b}
        BY <3>3, <4>1, ElementFacts
      <4> QED  BY <3>5, <4>2 DEF Blocks
    <3>8. ~Named("U", f.name)
      BY <1>m, <2>0, <2>2, <3>1 DEF Named
    <3> QED  BY <3>1, <3>3, <3>5, <3>6, <3>7, <3>8
  <2> QED  BY <2>1, <2>2
<1>6. b.id \in Nat
  BY <1>5 DEF BlockType
<1>7. x \in SbufType /\ x.id = b.id /\ x.rid = f.id /\ y \in TbufType /\ y.id = b.id /\ y.rid = f.id
  BY <1>3, <1>6, <1>x, <1>y DEF SbufType, TbufType
<1>8. /\ sbuf'[o] = sbuf[o]
      /\ ~newS => sbuf'[e] = sbuf[e]
      /\ newS => sbuf'[e] = Append(sbuf[e], x)
  <2>1. sbuf \in [End -> Seq(SbufType)]
    BY <1>0 DEF Types
  <2> QED  BY <1>1, <1>o, <2>1
<1>9. /\ tbuf'[o] = tbuf[o]
      /\ ~newT => tbuf'[e] = tbuf[e]
      /\ newT => tbuf'[e] = Append(tbuf[e], y)
  <2>1. tbuf \in [End -> Seq(TbufType)]
    BY <1>0 DEF Types
  <2> QED  BY <1>1, <1>o, <2>1
<1>10. /\ Ids(sbuf'[e]) = Ids(sbuf[e]) \union (IF CanSend(e, b.name) THEN {b.id} ELSE {})
       /\ \A l \in Elements(sbuf'[e]) :
             l \in Elements(sbuf[e]) \/ (l.id = b.id /\ l.rid = f.id /\ CanSend(e, b.name))
  <2>1. CASE newS
    <3>1. CanSend(e, b.name) /\ sbuf'[e] = Append(sbuf[e], x)
      BY <1>s, <1>8, <2>1
    <3>2. /\ Elements(sbuf'[e]) = Elements(sbuf[e]) \union {x}
          /\ Ids(sbuf'[e]) = Ids(sbuf[e]) \union {x.id}
      BY <1>T, <1>7, <3>1, ElementFacts, IdsAppend
    <3> QED  BY <1>7, <3>1, <3>2
  <2>2. CASE ~newS
    <3>1. sbuf'[e] = sbuf[e] /\ (~CanSend(e, b.name) \/ b.id \in Ids(sbuf[e]))
      BY <1>s, <1>8, <2>2 DEF Linked
    <3> QED  BY <3>1
  <2> QED  BY <2>1, <2>2
<1>11. /\ Ids(tbuf'[e]) = Ids(tbuf[e]) \union (IF CanReceive(e, b.name) THEN {b.id} ELSE {})
       /\ \A l \in Elements(tbuf'[e]) :
             l \in Elements(tbuf[e]) \/ (l.id = b.id /\ l.rid = f.id /\ CanReceive(e, b.name))
  <2>1. CASE newT
    <3>1. CanReceive(e, b.name) /\ tbuf'[e] = Append(tbuf[e], y)
      BY <1>t, <1>9, <2>1
    <3>2. /\ Elements(tbuf'[e]) = Elements(tbuf[e]) \union {y}
          /\ Ids(tbuf'[e]) = Ids(tbuf[e]) \union {y.id}
      BY <1>T, <1>7, <3>1, ElementFacts, IdsAppend
    <3> QED  BY <1>7, <3>1, <3>2
  <2>2. CASE ~newT
    <3>1. tbuf'[e] = tbuf[e] /\ (~CanReceive(e, b.name) \/ b.id \in Ids(tbuf[e]))
      BY <1>t, <1>9, <2>2 DEF Linked
    <3> QED  BY <3>1
  <2> QED  BY <2>1, <2>2
<1>12. SourceAdded(e, f, b)
  <2>1. CASE newS
    <3>1. CanSend(e, b.name) /\ sbuf'[e] = Append(sbuf[e], x)
      BY <1>s, <1>8, <2>1
    <3>2. scur' = IF e = "U" /\ scur = 0 THEN b.id ELSE scur
      BY <1>1, <2>1
    <3> QED  BY <1>7, <3>1, <3>2 DEF SourceAdded
  <2>2. CASE ~newS
    BY <1>1, <1>8, <2>2 DEF SourceAdded
  <2> QED  BY <2>1, <2>2
<1>13. InfoRead(e, o, f, b)
  BY <1>1, <1>3, <1>4, <1>5, <1>8, <1>9, <1>10, <1>11, <1>o, <1>f DEF InfoRead
<1> QED  BY <1>12, <1>13

\* A frame sent: the other end gets it, or it is lost.
FrameSent(e, o, f) ==
    /\ o = Other(e) /\ open[e] /\ f \in Frame
    /\ line'[e] = IF open[o] THEN Append(line[e], f) ELSE line[e]
    /\ line'[o] = line[o]

LEMMA PutDoes ==
    ASSUME Types, NEW e \in End, NEW f \in Frame, Put(e, f), open[e]
    PROVE  \E o \in End : FrameSent(e, o, f)
<1>o. PICK o \in End : o = Other(e) /\ o # e
  BY DEF Other, End
<1>r. PICK r : r = IF open[o] THEN Append(line[e], f) ELSE line[e]
  OBVIOUS
<1>1. line' = [line EXCEPT ![e] = r] /\ line \in [End -> Seq(Frame)]
  BY <1>o, <1>r DEF Put, Types
<1>2. line'[e] = r /\ line'[o] = line[o]
  BY <1>1, <1>o
<1> QED  BY <1>2, <1>o, <1>r DEF FrameSent

\* Memory block info sent.
InfoSent(e, o, f, b) ==
    /\ FrameSent(e, o, f) /\ f \in InfoFrame /\ f.id = b.id /\ f.name = b.name
    /\ b \in Blocks(e) /\ b.id # 0
    /\ e = "L" => /\ b.id = current /\ scur' = scur
                  /\ current' = Advance(mblk["L"], b.id, {b.id})
    /\ e = "U" => /\ b.id \in Bufs("U") /\ current' = current
                  /\ scur' = IF scur = b.id THEN Advance(sbuf["U"], b.id, {b.id}) ELSE scur
    /\ UNCHANGED <<mblk, lastId, sbuf, tbuf, reqs, open>>

LEMMA SendInfoDoes ==
    ASSUME MbInv, NEW e \in End, SendInfo(e)
    PROVE  \E o \in End : \E f, b : InfoSent(e, o, f, b)
<1>i. PICK id : id = InfoTurn(e)
  OBVIOUS
<1>b. PICK b : b = CHOOSE x \in Range(mblk[e]) : x.id = id
  OBVIOUS
<1>f. PICK f : f = [t |-> "info", id |-> id, name |-> b.name]
  OBVIOUS
<1>0. Types
  BY DEF MbInv
<1>T. /\ "L" \in End /\ "U" \in End /\ "L" # "U" /\ mblk[e] \in Seq(BlockType)
      /\ id # 0 /\ open[e]
  BY <1>0, <1>i, EndFacts DEF SendInfo, MayPut
<1>1. id \in Ids(mblk[e]) /\ (e = "U" => id \in Bufs("U"))
  <2>1. CASE e = "L"
    BY <1>T, <1>i, <2>1 DEF InfoTurn, MbInv, CursorsOK
  <2>2. CASE e = "U"
    <3>1. id \in Bufs("U")
      BY <1>T, <1>i, <2>2 DEF InfoTurn, MbInv, CursorsOK, Bufs
    <3>2. \E l \in Links("U") : l.id = id
      BY <1>0, <1>T, <3>1, LinkFacts
    <3> QED  BY <1>T, <2>2, <3>1, <3>2, Owners
  <2> QED  BY <2>1, <2>2 DEF End
<1>2. b \in Blocks(e) /\ b.id = id
  <2>1. \E x \in Blocks(e) : x.id = id
    BY <1>T, <1>1, IdsFacts DEF Blocks
  <2>2. Range(mblk[e]) = Blocks(e)
    BY <1>T, ElementFacts DEF Blocks
  <2> QED  BY <1>b, <2>1, <2>2
<1>3. id \in Nat /\ b.name \in Names
  BY <1>0, <1>2, LinkFacts
<1>4. f \in InfoFrame /\ f.id = id /\ f.name = b.name /\ f \in Frame
  BY <1>3, <1>f DEF Frame, InfoFrame
<1>5. PICK o \in End : FrameSent(e, o, f)
  <2>1. Put(e, f)
    BY <1>i, <1>b, <1>f DEF SendInfo
  <2> QED  BY <1>0, <1>T, <1>4, <2>1, PutDoes
<1>6. /\ current' = IF e = "L" THEN Advance(mblk["L"], id, {id}) ELSE current
      /\ scur' = IF e = "U" /\ scur = id THEN Advance(sbuf["U"], id, {id}) ELSE scur
      /\ UNCHANGED <<mblk, lastId, sbuf, tbuf, reqs, open>>
  BY <1>i DEF SendInfo
<1>7. e = "L" => id = current
  BY <1>i DEF InfoTurn
<1>8. InfoSent(e, o, f, b)
  BY <1>T, <1>1, <1>2, <1>4, <1>5, <1>6, <1>7 DEF InfoSent
<1> QED  BY <1>8

\* Buffers of the same ids: only flags of source buffers have changed.
SameLinks ==
    /\ \A e \in End : /\ Len(sbuf'[e]) = Len(sbuf[e])
                      /\ \A j \in 1 .. Len(sbuf[e]) : /\ sbuf'[e][j].id = sbuf[e][j].id
                                                      /\ sbuf'[e][j].rid = sbuf[e][j].rid
    /\ tbuf' = tbuf

LEMMA FlagDoes ==
    ASSUME Types, NEW e \in End, NEW i \in DOMAIN sbuf[e], NEW v \in BOOLEAN,
           sbuf' = [sbuf EXCEPT ![e][i].used = v], tbuf' = tbuf
    PROVE  SameLinks
<1>s. PICK s : s = sbuf[e]
  OBVIOUS
<1>0. sbuf \in [End -> Seq(SbufType)] /\ s \in Seq(SbufType)
  BY <1>s DEF Types
<1>n. PICK n \in Nat : n = Len(s)
  BY <1>0
<1>1. s \in [1 .. n -> SbufType] /\ i \in 1 .. n
  BY <1>0, <1>s, <1>n
<1>x. PICK x \in SbufType : x = s[i]
  BY <1>1
<1>y. PICK y : y = [x EXCEPT !.used = v]
  OBVIOUS
<1>2. y \in SbufType /\ y.id = x.id /\ y.rid = x.rid
  BY <1>y DEF SbufType
<1>r. PICK r : r = [s EXCEPT ![i] = y]
  OBVIOUS
<1>3. r \in [1 .. n -> SbufType] /\ r[i] = y /\ \A j \in 1 .. n : j # i => r[j] = s[j]
  BY <1>1, <1>2, <1>r
<1>4. r \in Seq(SbufType) /\ Len(r) = n
  BY <1>3
<1>5. sbuf' = [sbuf EXCEPT ![e] = r]
  BY <1>s, <1>x, <1>y, <1>r
<1>6. sbuf'[e] = r /\ \A d \in End : d # e => sbuf'[d] = sbuf[d]
  BY <1>0, <1>5
<1>7. \A j \in 1 .. n : r[j].id = s[j].id /\ r[j].rid = s[j].rid
  BY <1>2, <1>3, <1>x
<1> QED  BY <1>4, <1>6, <1>7, <1>s, <1>n DEF SameLinks

\* The same elements, ids and links, up to flags.
LEMMA SameLinksFacts ==
    ASSUME MbInv, Types', SameLinks, NEW e \in End
    PROVE  /\ Ids(sbuf'[e]) = Ids(sbuf[e]) /\ Bufs(e)' = Bufs(e)
           /\ \A l \in Elements(sbuf'[e]) : \E k \in Elements(sbuf[e]) : k.id = l.id /\ k.rid = l.rid
           /\ \A l \in Links(e)' : \E k \in Links(e) : k.id = l.id /\ k.rid = l.rid
<1>1. /\ Len(sbuf'[e]) = Len(sbuf[e])
      /\ \A j \in 1 .. Len(sbuf[e]) : /\ sbuf'[e][j].id = sbuf[e][j].id
                                      /\ sbuf'[e][j].rid = sbuf[e][j].rid
      /\ tbuf'[e] = tbuf[e]
  BY DEF SameLinks
<1>2. Ids(sbuf'[e]) = Ids(sbuf[e])
  BY <1>1 DEF Ids
<1>3. \A l \in Elements(sbuf'[e]) : \E k \in Elements(sbuf[e]) : k.id = l.id /\ k.rid = l.rid
  BY <1>1 DEF Elements
<1>4. \A l \in Links(e)' : \E k \in Links(e) : k.id = l.id /\ k.rid = l.rid
  BY <1>1, <1>3 DEF Links
<1> QED  BY <1>1, <1>2, <1>3, <1>4 DEF Bufs

\* Data sent.
DataSent(e, o, f, j) ==
    /\ FrameSent(e, o, f) /\ f \in DataFrame
    /\ j \in 1 .. Len(sbuf[e]) /\ f.id = sbuf[e][j].rid
    /\ NothingToRemove(e) /\ InfoTurn(e) = 0 /\ SameLinks
    /\ UNCHANGED <<mblk, lastId, reqs, open>> /\ UNCHANGED cursors

LEMMA SendDataDoes ==
    ASSUME MbInv, NEW e \in End, NEW i \in DOMAIN sbuf[e], SendData(e, i)
    PROVE  \E o \in End : \E f : DataSent(e, o, f, i)
<1>f. PICK f : f = [t |-> "data", id |-> sbuf[e][i].rid]
  OBVIOUS
<1>0. Types /\ sbuf[e] \in Seq(SbufType)
  BY DEF MbInv, Types
<1>1. f \in DataFrame /\ f.id = sbuf[e][i].rid /\ f \in Frame
  <2>1. sbuf[e][i] \in SbufType
    BY <1>0
  <2>2. sbuf[e][i].rid \in Nat
    BY <2>1 DEF SbufType
  <2> QED  BY <1>f, <2>2 DEF Frame, DataFrame
<1>2. PICK o \in End : FrameSent(e, o, f)
  <2>1. Put(e, f) /\ open[e]
    BY <1>f DEF SendData, MayPut
  <2> QED  BY <1>0, <1>1, <2>1, PutDoes
<1>3. /\ sbuf' = [sbuf EXCEPT ![e][i].used = FALSE]
      /\ UNCHANGED <<mblk, lastId, tbuf, reqs, open>> /\ UNCHANGED cursors
      /\ NothingToRemove(e) /\ InfoTurn(e) = 0
  BY DEF SendData, DataTurn
<1>4. SameLinks
  BY <1>0, <1>3, FlagDoes
<1>5. i \in 1 .. Len(sbuf[e])
  BY <1>0
<1>6. DataSent(e, o, f, i)
  BY <1>1, <1>2, <1>3, <1>4, <1>5 DEF DataSent
<1> QED  BY <1>6

\* A request to remove blocks sent.
RemoveSent(f) ==
    /\ FrameSent("L", "U", f) /\ f \in RemoveFrame
    /\ reqs # <<>> /\ f.ids = reqs[1] /\ reqs' = Tail(reqs)
    /\ UNCHANGED <<mblk, lastId, sbuf, tbuf, open>> /\ UNCHANGED cursors

LEMMA SendRemoveDoes ==
    ASSUME MbInv, SendRemove
    PROVE  \E f : RemoveSent(f)
<1>f. PICK f : f = [t |-> "remove", ids |-> reqs[1]]
  OBVIOUS
<1>0. Types /\ reqs \in Seq(Request) /\ reqs # <<>>
  BY DEF MbInv, Types, SendRemove
<1>T. "L" \in End /\ Other("L") = "U"
  BY <1>0, EndFacts
<1>1. f \in RemoveFrame /\ f.ids = reqs[1] /\ f \in Frame
  <2>1. reqs[1] \in Request
    BY <1>0
  <2> QED  BY <1>f, <2>1 DEF Frame, RemoveFrame
<1>2. FrameSent("L", "U", f)
  <2>1. Put("L", f) /\ open["L"]
    BY <1>f DEF SendRemove, MayPut
  <2>2. PICK o \in End : FrameSent("L", o, f)
    BY <1>0, <1>1, <1>T, <2>1, PutDoes
  <2>3. o = "U"
    BY <1>T, <2>2 DEF FrameSent
  <2> QED  BY <2>2, <2>3
<1> QED  BY <1>0, <1>1, <1>2 DEF RemoveSent, SendRemove

\* A frame taken that changes nothing else.
Skipped(e, o, f) ==
    /\ o = Other(e) /\ open[e]
    /\ line[o] # <<>> /\ f = Head(line[o]) /\ f \in Frame /\ f.t # "remove"
    /\ line'[o] = Tail(line[o]) /\ line'[e] = line[e]
    /\ f.t = "info" => e = "L" /\ ~Named("L", f.name)
    /\ UNCHANGED <<mblk, lastId, sbuf, tbuf, reqs, open>> /\ UNCHANGED cursors

LEMMA SkipDoes ==
    ASSUME MbInv, NEW e \in End, ReceiveData(e) \/ (e = "L" /\ IgnoreInfo)
    PROVE  \E o \in End : \E f : Skipped(e, o, f)
<1>o. PICK o \in End : o = Other(e) /\ o # e
  BY DEF Other, End
<1>f. PICK f : f = Head(line[o])
  OBVIOUS
<1>0. Types
  BY DEF MbInv
<1>T. "L" \in End /\ Other("L") = "U" /\ mblk["L"] \in Seq(BlockType)
  BY <1>0, EndFacts
<1>1. PICK t \in {"data", "info"} :
         /\ Incoming(e, t) /\ Take(e)
         /\ t = "info" => e = "L" /\ \A b \in Range(mblk["L"]) : b.name # Head(line["U"]).name
         /\ UNCHANGED <<mblk, lastId, sbuf, tbuf, reqs, open>> /\ UNCHANGED cursors
  <2>1. CASE ReceiveData(e)
    BY <2>1 DEF ReceiveData
  <2>2. CASE e = "L" /\ IgnoreInfo
    BY <2>2 DEF IgnoreInfo
  <2> QED  BY <2>1, <2>2
<1>2. f \in Frame /\ f.t = t
  BY <1>0, <1>1, <1>o, <1>f, TakeFrames
<1>3. open[e] /\ line[o] # <<>> /\ line'[o] = Tail(line[o]) /\ line'[e] = line[e]
  <2>1. open[e] /\ line[o] # <<>>
    BY <1>1, <1>o DEF Incoming
  <2>2. line' = [line EXCEPT ![o] = Tail(@)] /\ line \in [End -> Seq(Frame)]
    BY <1>0, <1>1, <1>o DEF Take, Types
  <2> QED  BY <1>o, <2>1, <2>2
<1>4. f.t = "info" => e = "L" /\ ~Named("L", f.name)
  <2>1. Range(mblk["L"]) = Blocks("L")
    BY <1>T, ElementFacts DEF Blocks
  <2> QED  BY <1>1, <1>2, <1>f, <1>o, <1>T, <2>1 DEF Named
<1>5. f.t # "remove"
  BY <1>2
<1> QED  BY <1>1, <1>2, <1>3, <1>4, <1>5, <1>o, <1>f DEF Skipped

\* An end closed.
Closed(e, o) ==
    /\ o = Other(e) /\ open[e] /\ ~open'[e] /\ open'[o] = open[o]
    /\ line'[o] = <<>> /\ line'[e] = line[e]
    /\ sbuf'[e] = <<>> /\ tbuf'[e] = <<>> /\ sbuf'[o] = sbuf[o] /\ tbuf'[o] = tbuf[o]
    /\ lastId' = lastId
    /\ e = "L" => reqs' = <<>> /\ current' = 0 /\ UNCHANGED <<mblk, scur>>
    /\ e = "U" => /\ mblk'["L"] = mblk["L"] /\ UNCHANGED <<reqs, current>>
                  /\ Blocks("U")' = {b \in Blocks("U") : ~(b.dyn /\ b.id \in Bufs("U"))}

LEMMA CloseDoes ==
    ASSUME MbInv, NEW e \in End, Close(e)
    PROVE  \E o \in End : Closed(e, o)
<1>o. PICK o \in End : o = Other(e) /\ o # e
  BY DEF Other, End
<1>0. Types
  BY DEF MbInv
<1>T. "L" \in End /\ "U" \in End /\ "L" # "U" /\ mblk["U"] \in Seq(BlockType)
  BY <1>0, EndFacts
<1>1. /\ open' = [open EXCEPT ![e] = FALSE] /\ open[e]
      /\ line' = [line EXCEPT ![o] = <<>>]
      /\ sbuf' = [sbuf EXCEPT ![e] = <<>>] /\ tbuf' = [tbuf EXCEPT ![e] = <<>>]
      /\ lastId' = lastId
  BY <1>o DEF Close
<1>2. ~open'[e] /\ open'[o] = open[o]
  BY <1>0, <1>1, <1>o DEF Types
<1>3. line'[o] = <<>> /\ line'[e] = line[e]
  BY <1>0, <1>1, <1>o DEF Types
<1>4. sbuf'[e] = <<>> /\ sbuf'[o] = sbuf[o]
  BY <1>0, <1>1, <1>o DEF Types
<1>5. tbuf'[e] = <<>> /\ tbuf'[o] = tbuf[o]
  BY <1>0, <1>1, <1>o DEF Types
<1>6. e = "L" => reqs' = <<>> /\ current' = 0 /\ UNCHANGED <<mblk, scur>>
  BY DEF Close
<1>7. e = "U" => /\ mblk'["L"] = mblk["L"] /\ UNCHANGED <<reqs, current>>
                 /\ Blocks("U")' = {b \in Blocks("U") : ~(b.dyn /\ b.id \in Bufs("U"))}
  <2> SUFFICES ASSUME e = "U"
               PROVE  /\ mblk'["L"] = mblk["L"] /\ UNCHANGED <<reqs, current>>
                      /\ Blocks("U")' = {b \in Blocks("U") : ~(b.dyn /\ b.id \in Bufs("U"))}
    OBVIOUS
  <2>g. PICK gone : gone = {b.id : b \in {x \in Range(mblk["U"]) : x.dyn}} \intersect Bufs("U")
    OBVIOUS
  <2>1. mblk' = [mblk EXCEPT !["U"] = Without(@, gone)] /\ UNCHANGED <<reqs, current>>
    BY <1>T, <2>g DEF Close, Bufs
  <2>2. mblk'["L"] = mblk["L"] /\ Blocks("U")' = {b \in Blocks("U") : b.id \notin gone}
    BY <1>1, <1>T, <2>1, ReleaseBlocks
  <2>3. ASSUME NEW b \in Blocks("U")
        PROVE  b.id \in gone <=> b.dyn /\ b.id \in Bufs("U")
    <3>1. Range(mblk["U"]) = Blocks("U")
      BY <1>T, ElementFacts DEF Blocks
    <3>2. gone = {x.id : x \in {y \in Blocks("U") : y.dyn}} \intersect Bufs("U")
      BY <2>g, <3>1
    <3>3. \A x \in Blocks("U") : x.id = b.id => x = b
      BY <1>T, DistinctElements DEF Blocks, MbInv, BlocksOK
    <3> QED  BY <3>2, <3>3
  <2> QED  BY <2>1, <2>2, <2>3
<1> QED  BY <1>1, <1>2, <1>3, <1>4, <1>5, <1>6, <1>7, <1>o DEF Closed

\* Both ends connected.
Connected ==
    /\ ~open["L"] /\ ~open["U"]
    /\ line'["L"] = <<>> /\ line'["U"] = <<>>
    /\ UNCHANGED <<mblk, lastId, sbuf, tbuf, scur, reqs>>

LEMMA ConnectDoes ==
    ASSUME MbInv, Connect
    PROVE  Connected
BY DEF Connect, Connected, End

----------------------------------------------------------------------------
(* Each end on its own: names, ages, and what a closed end keeps.          *)

\* Ids start at one.  Blocks of the lower end have names of their own and
\* are listed by age; a closed end has no buffers and no requests.
LowerOK ==
    /\ \A e \in End : \A b \in Blocks(e) : b.id # 0
    /\ \A x, y \in Blocks("L") : x.name = y.name => x = y
    /\ Rises(mblk["L"])
    /\ ~open["L"] => Links("L") = {} /\ Asked(reqs) = {}

\* A block of the upper end that has a buffer has the target buffer its name
\* allows.  A dynamic one has a buffer and a name of its own.
UpperOK ==
    /\ ~open["U"] => Links("U") = {}
    /\ \A b \in Blocks("U") : b.id \in Bufs("U") /\ b.name \in UpNames => b.id \in Ids(tbuf["U"])
    /\ \A b \in Blocks("U") : b.dyn => b.id \in Bufs("U")
    /\ \A b, c \in Blocks("U") : b.dyn /\ c.name = b.name => c = b

\* Blocks and buffers of the lower end as they were.
LEMMA LowerStays ==
    ASSUME MbInv, LowerOK, mblk'["L"] = mblk["L"],
           \A b \in Blocks("U")' : b \in Blocks("U"),
           open'["L"] = open["L"],
           ~open["L"] => Links("L")' = {} /\ Asked(reqs') = {}
    PROVE  LowerOK'
<1>1. Blocks("L")' = Blocks("L")
  BY DEF Blocks
<1>2. \A e \in End : \A b \in Blocks(e)' : b.id # 0
  BY <1>1 DEF LowerOK, End
<1> QED  BY <1>1, <1>2 DEF LowerOK

\* Blocks and buffers of the upper end as they were.
LEMMA UpperStays ==
    ASSUME UpperOK, Blocks("U")' = Blocks("U"), Ids(sbuf'["U"]) = Ids(sbuf["U"]),
           Ids(tbuf'["U"]) = Ids(tbuf["U"]), open'["U"] = open["U"],
           ~open["U"] => Links("U")' = {}
    PROVE  UpperOK'
<1>1. Bufs("U")' = Bufs("U")
  BY DEF Bufs
<1> QED  BY <1>1 DEF UpperOK

StructOK == LowerOK /\ UpperOK

\* Steps that change neither blocks nor the ids of buffers.
LEMMA StructStays ==
    ASSUME MbInv, StructOK, Types', SameLinks, mblk' = mblk, open' = open,
           Asked(reqs') \subseteq Asked(reqs)
    PROVE  StructOK'
<1>0. "L" \in End /\ "U" \in End
  BY DEF End
<1>1. \A e \in End : /\ Ids(sbuf'[e]) = Ids(sbuf[e]) /\ tbuf'[e] = tbuf[e]
                     /\ Links(e) = {} => Links(e)' = {}
  BY SameLinksFacts DEF SameLinks
<1>2. \A e \in End : Blocks(e)' = Blocks(e)
  BY DEF Blocks
<1>3. LowerOK'
  <2>1. ~open["L"] => Links("L")' = {} /\ Asked(reqs') = {}
    BY <1>0, <1>1 DEF StructOK, LowerOK
  <2> QED  BY <1>0, <1>2, <2>1, LowerStays DEF StructOK
<1>4. UpperOK'
  <2>1. ~open["U"] => Links("U")' = {}
    BY <1>0, <1>1 DEF StructOK, UpperOK
  <2> QED  BY <1>0, <1>1, <1>2, <2>1, UpperStays DEF StructOK
<1> QED  BY <1>3, <1>4 DEF StructOK

LEMMA SameLinksSame ==
    ASSUME sbuf' = sbuf, tbuf' = tbuf
    PROVE  SameLinks
BY DEF SameLinks

LEMMA AppendRises ==
    ASSUME NEW S, NEW list \in Seq(S), NEW b \in S, Rises(list),
           \A x \in Elements(list) : x.id < b.id
    PROVE  Rises(Append(list, b))
<1>n. PICK n \in Nat : n = Len(list)
  OBVIOUS
<1>a. PICK a : a = Append(list, b)
  OBVIOUS
<1>1. Len(a) = n + 1 /\ a[n + 1] = b /\ \A i \in 1 .. n : a[i] = list[i]
  BY <1>n, <1>a
<1>2. ASSUME NEW i \in 1 .. n + 1, NEW j \in 1 .. n + 1, i < j
      PROVE  a[i].id < a[j].id
  <2>1. i \in 1 .. n
    BY <1>2
  <2>2. CASE j = n + 1
    BY <1>1, <1>n, <2>1, <2>2 DEF Elements
  <2>3. CASE j # n + 1
    <3>1. j \in 1 .. n
      BY <2>3
    <3> QED  BY <1>1, <1>2, <1>n, <2>1, <3>1 DEF Rises
  <2> QED  BY <2>2, <2>3
<1> QED  BY <1>1, <1>2, <1>a DEF Rises

LEMMA AddStruct ==
    ASSUME MbInv, StructOK, NEW n, NEW b \in BlockType, BlockAdded(n, b)
    PROVE  StructOK'
<1>0. Types
  BY DEF MbInv
<1>T. "L" \in End /\ "U" \in End /\ lastId["L"] \in Nat /\ mblk["L"] \in Seq(BlockType)
  BY <1>0, EndFacts
<1>1. /\ b.id = lastId["L"] + 1 /\ b.name = n /\ ~Named("L", n)
      /\ mblk'["L"] = Append(mblk["L"], b) /\ mblk'["U"] = mblk["U"]
      /\ Blocks("L")' = Blocks("L") \union {b} /\ Blocks("U")' = Blocks("U")
      /\ UNCHANGED <<sbuf, tbuf, scur, tcur, reqs, line, open>>
  BY DEF BlockAdded
<1>2. \A x \in Blocks("L") : x.id < b.id
  <2>1. \A x \in Blocks("L") : x.id \in Nat /\ x.id <= lastId["L"]
    BY <1>0, <1>T, LinkFacts DEF MbInv, BlocksOK
  <2> QED  BY <1>1, <1>T, <2>1
<1>3. \A e \in End : Links(e)' = Links(e) /\ Ids(sbuf'[e]) = Ids(sbuf[e]) /\ Ids(tbuf'[e]) = Ids(tbuf[e])
  BY <1>1 DEF Links
<1>4. UpperOK'
  BY <1>1, <1>3, <1>T, UpperStays DEF StructOK, UpperOK
<1>5. LowerOK'
  <2>1. \A e \in End : \A c \in Blocks(e)' : c.id # 0
    <3>1. b.id # 0
      BY <1>1, <1>T
    <3> QED  BY <1>1, <3>1 DEF End, StructOK, LowerOK
  <2>2. \A x, y \in Blocks("L")' : x.name = y.name => x = y
    BY <1>1 DEF StructOK, LowerOK, Named
  <2>3. Rises(mblk'["L"])
    <3>1. Rises(mblk["L"])
      BY DEF StructOK, LowerOK
    <3> QED  BY <1>1, <1>2, <1>T, <3>1, AppendRises DEF Blocks
  <2>4. ~open'["L"] => Links("L")' = {} /\ Asked(reqs') = {}
    BY <1>1, <1>3, <1>T DEF StructOK, LowerOK
  <2> QED  BY <2>1, <2>2, <2>3, <2>4 DEF LowerOK
<1> QED  BY <1>4, <1>5 DEF StructOK

LEMMA DropStruct ==
    ASSUME MbInv, StructOK, NEW id, BlockDropped(id)
    PROVE  StructOK'
<1>0. Types
  BY DEF MbInv
<1>T. "L" \in End /\ "U" \in End /\ mblk["L"] \in Seq(BlockType)
  BY <1>0, EndFacts
<1>1. /\ mblk'["L"] = Without(mblk["L"], {id})
      /\ Blocks("L")' = {b \in Blocks("L") : b.id # id} /\ Blocks("U")' = Blocks("U")
      /\ sbuf'["U"] = sbuf["U"] /\ tbuf'["U"] = tbuf["U"]
      /\ UNCHANGED <<lastId, scur, tcur, line, open>>
  BY DEF BlockDropped
<1>2. UpperOK'
  BY <1>1, UpperStays DEF StructOK, UpperOK, Links
<1>3. Links("L")' = {l \in Links("L") : l.id # id}
  BY DEF BlockDropped, Links
<1>4. Links("L") = {} => Asked(reqs') = Asked(reqs)
  BY DEF BlockDropped
<1>5. LowerOK'
  <2>1. \A e \in End : \A c \in Blocks(e)' : c.id # 0
    BY <1>1 DEF End, StructOK, LowerOK
  <2>2. \A x, y \in Blocks("L")' : x.name = y.name => x = y
    BY <1>1 DEF StructOK, LowerOK
  <2>3. Rises(mblk'["L"])
    <3>1. Rises(mblk["L"])
      BY DEF StructOK, LowerOK
    <3> QED  BY <1>1, <1>T, <3>1, WithoutRises
  <2>4. ~open'["L"] => Links("L")' = {} /\ Asked(reqs') = {}
    BY <1>1, <1>3, <1>4 DEF StructOK, LowerOK
  <2> QED  BY <2>1, <2>2, <2>3, <2>4 DEF LowerOK
<1> QED  BY <1>2, <1>5 DEF StructOK

LEMMA RemoveStruct ==
    ASSUME MbInv, StructOK, NEW f, NEW gone, RemoveRead(f, gone)
    PROVE  StructOK'
<1>1. /\ mblk'["L"] = mblk["L"] /\ Blocks("U")' = {b \in Blocks("U") : b.id \notin gone}
      /\ Links("U")' = {l \in Links("U") : l.id \notin gone}
      /\ Ids(sbuf'["U"]) = Ids(sbuf["U"]) \ gone /\ Ids(tbuf'["U"]) = Ids(tbuf["U"]) \ gone
      /\ sbuf'["L"] = sbuf["L"] /\ tbuf'["L"] = tbuf["L"]
      /\ open' = open /\ reqs' = reqs
  BY DEF RemoveRead
<1>2. LowerOK'
  BY <1>1, LowerStays DEF StructOK, LowerOK, Links
<1>3. Bufs("U")' = Bufs("U") \ gone
  BY <1>1 DEF Bufs
<1>4. UpperOK'
  BY <1>1, <1>3 DEF StructOK, UpperOK
<1> QED  BY <1>2, <1>4 DEF StructOK

LEMMA ReadInfoStruct ==
    ASSUME MbInv, StructOK, NEW e \in End, NEW o, NEW f, NEW b, InfoRead(e, o, f, b)
    PROVE  StructOK'
<1>0. Types
  BY DEF MbInv
<1>T. /\ "L" \in End /\ "U" \in End /\ "L" # "U" /\ Other("L") = "U" /\ Other("U") = "L"
      /\ lastId["U"] \in Nat
  BY <1>0, EndFacts
<1>1. /\ o = Other(e) /\ open[e] /\ open' = open /\ reqs' = reqs
      /\ b.name = f.name /\ b \in BlockType /\ f \in InfoFrame
      /\ \/ b \in Blocks(e) /\ mblk' = mblk /\ lastId' = lastId
         \/ /\ e = "U" /\ b.dyn /\ b.id = lastId["U"] + 1 /\ ~Named("U", f.name)
            /\ mblk'["L"] = mblk["L"] /\ Blocks("U")' = Blocks("U") \union {b}
      /\ sbuf'[o] = sbuf[o] /\ tbuf'[o] = tbuf[o]
      /\ Ids(sbuf'[e]) = Ids(sbuf[e]) \union (IF CanSend(e, b.name) THEN {b.id} ELSE {})
      /\ Ids(tbuf'[e]) = Ids(tbuf[e]) \union (IF CanReceive(e, b.name) THEN {b.id} ELSE {})
  BY DEF InfoRead
<1>2. CASE e = "L"
  <2>1. mblk' = mblk /\ o = "U"
    BY <1>1, <1>2, <1>T
  <2>2. UpperOK'
    BY <1>1, <2>1, UpperStays DEF StructOK, UpperOK, Links, Blocks
  <2>3. LowerOK'
    BY <1>1, <1>2, <2>1, LowerStays DEF StructOK, LowerOK, Blocks
  <2> QED  BY <2>2, <2>3 DEF StructOK
<1>3. CASE e = "U"
  <2>1. o = "L" /\ mblk'["L"] = mblk["L"] /\ b \in Blocks("U")'
    BY <1>1, <1>3, <1>T DEF Blocks
  <2>2. LowerOK'
    <3>1. Blocks("L")' = Blocks("L") /\ Links("L")' = Links("L")
      BY <1>1, <2>1 DEF Blocks, Links
    <3>2. \A d \in End : \A c \in Blocks(d)' : c.id # 0
      <4>1. Blocks("U")' = Blocks("U") \/ (Blocks("U")' = Blocks("U") \union {b} /\ b.id # 0)
        BY <1>1, <1>T DEF Blocks
      <4> QED  BY <3>1, <4>1 DEF End, StructOK, LowerOK
    <3> QED  BY <1>1, <2>1, <3>1, <3>2 DEF StructOK, LowerOK
  <2>3. \A c \in Blocks("U")' : c \in Blocks("U") \/ (c = b /\ b.dyn /\ ~Named("U", b.name))
    BY <1>1, <1>3 DEF Blocks
  <2>4. Blocks("U") \subseteq Blocks("U")'
    BY <1>1, <1>3 DEF Blocks
  <2>5. b.name \in Names
    BY <1>1 DEF InfoFrame
  <2>6. /\ b.id \in Bufs("U")'
        /\ b.name \in UpNames => b.id \in Ids(tbuf'["U"])
        /\ Bufs("U") \subseteq Bufs("U")' /\ Bufs("U")' \subseteq Bufs("U") \union {b.id}
        /\ Ids(tbuf["U"]) \subseteq Ids(tbuf'["U"])
    BY <1>1, <1>3, <1>T, <2>5 DEF Bufs, CanSend, CanReceive, Names
  <2>7. \A c \in Blocks("U")' : c.id = b.id => c.name = b.name
    <3>1. Distinct(mblk["U"]) /\ mblk["U"] \in Seq(BlockType) /\ \A c \in Blocks("U") : c.id \in Nat /\ c.id <= lastId["U"]
      BY <1>0, <1>T, LinkFacts, EndFacts DEF MbInv, BlocksOK
    <3>2. CASE b \in Blocks("U") /\ mblk' = mblk
      <4>1. \A c \in Blocks("U") : c.id = b.id => c = b
        BY <3>1, <3>2, DistinctElements DEF Blocks
      <4> QED  BY <3>2, <4>1 DEF Blocks
    <3>3. CASE b.id = lastId["U"] + 1 /\ Blocks("U")' = Blocks("U") \union {b}
      <4>1. \A c \in Blocks("U") : c.id # b.id
        BY <1>T, <3>1, <3>3
      <4> QED  BY <3>3, <4>1
    <3> QED  BY <1>1, <1>3, <3>2, <3>3
  <2>8. UpperOK'
    <3>1. open'["U"]
      BY <1>1, <1>3
    <3>2. ASSUME NEW c \in Blocks("U")', c.id \in Bufs("U")', c.name \in UpNames
          PROVE  c.id \in Ids(tbuf'["U"])
      <4>1. CASE c.id = b.id
        BY <2>6, <2>7, <3>2, <4>1
      <4>2. CASE c.id # b.id
        <5>1. c \in Blocks("U") /\ c.id \in Bufs("U")
          BY <2>3, <2>6, <3>2, <4>2
        <5> QED  BY <2>6, <3>2, <5>1 DEF StructOK, UpperOK
      <4> QED  BY <4>1, <4>2
    <3>3. ASSUME NEW c \in Blocks("U")', c.dyn
          PROVE  c.id \in Bufs("U")'
      BY <2>3, <2>6, <3>3 DEF StructOK, UpperOK
    <3>4. ASSUME NEW c \in Blocks("U")', NEW d \in Blocks("U")', c.dyn, d.name = c.name
          PROVE  d = c
      BY <2>3, <3>4 DEF StructOK, UpperOK, Named
    <3> QED  BY <3>1, <3>2, <3>3, <3>4 DEF UpperOK
  <2> QED  BY <2>2, <2>8 DEF StructOK
<1> QED  BY <1>2, <1>3 DEF End

LEMMA CloseStruct ==
    ASSUME MbInv, StructOK, NEW e \in End, NEW o, Closed(e, o)
    PROVE  StructOK'
<1>0. Types
  BY DEF MbInv
<1>T. "L" \in End /\ "U" \in End /\ "L" # "U" /\ Other("L") = "U" /\ Other("U") = "L"
  BY <1>0, EndFacts
<1>1. /\ o = Other(e) /\ ~open'[e] /\ open'[o] = open[o]
      /\ sbuf'[e] = <<>> /\ tbuf'[e] = <<>> /\ sbuf'[o] = sbuf[o] /\ tbuf'[o] = tbuf[o]
  BY DEF Closed
<1>2. Links(e)' = {} /\ Links(o)' = Links(o) /\ Asked(<<>>) = {} /\ Bufs(e)' = {}
  <2>1. Ids(<<>>) = {} /\ Elements(<<>>) = {}
    BY DEF Ids, Elements
  <2> QED  BY <1>1, <2>1 DEF Links, Asked, Bufs
<1>3. CASE e = "L"
  <2>1. reqs' = <<>> /\ mblk' = mblk /\ o = "U"
    BY <1>1, <1>3, <1>T DEF Closed
  <2>2. UpperOK'
    BY <1>1, <1>2, <2>1, UpperStays DEF StructOK, UpperOK, Blocks
  <2>3. LowerOK'
    BY <1>2, <1>3, <2>1 DEF StructOK, LowerOK, Blocks
  <2> QED  BY <2>2, <2>3 DEF StructOK
<1>4. CASE e = "U"
  <2>1. /\ mblk'["L"] = mblk["L"] /\ reqs' = reqs /\ o = "L"
        /\ Blocks("U")' = {b \in Blocks("U") : ~(b.dyn /\ b.id \in Bufs("U"))}
    BY <1>1, <1>4, <1>T DEF Closed
  <2>2. LowerOK'
    BY <1>1, <1>2, <2>1, LowerStays DEF StructOK, LowerOK
  <2>3. \A b \in Blocks("U")' : b \in Blocks("U") /\ ~b.dyn
    BY <2>1 DEF StructOK, UpperOK
  <2>4. UpperOK'
    BY <1>2, <1>4, <2>3 DEF UpperOK
  <2> QED  BY <2>2, <2>4 DEF StructOK
<1> QED  BY <1>3, <1>4 DEF End

LEMMA ConnectStruct ==
    ASSUME MbInv, StructOK, Connected
    PROVE  StructOK'
<1>0. Types
  BY DEF MbInv
<1>T. "L" \in End /\ "U" \in End
  BY <1>0, EndFacts
<1>1. \A e \in End : Links(e) = {}
  BY DEF Connected, StructOK, LowerOK, UpperOK, End
<1>2. \A e \in End : Blocks(e)' = Blocks(e) /\ Links(e)' = Links(e) /\ Bufs(e)' = Bufs(e)
  BY DEF Connected, Blocks, Links, Bufs
<1>3. Asked(reqs') = {}
  BY DEF Connected, StructOK, LowerOK
<1>4. LowerOK'
  BY <1>1, <1>2, <1>3, <1>T DEF Connected, StructOK, LowerOK
<1>5. UpperOK'
  BY <1>1, <1>2, <1>T DEF Connected, StructOK, UpperOK
<1> QED  BY <1>4, <1>5 DEF StructOK

LEMMA InitStruct == Init => StructOK
<1> SUFFICES ASSUME Init PROVE StructOK
  OBVIOUS
<1>0. MbInv
  BY InitInv
<1>n. PICK n \in Nat : n = Len(OwnNames)
  BY MbInfoAssumption
<1>b. PICK own : own = [i \in 1 .. n |-> [id |-> i, name |-> OwnNames[i], dyn |-> FALSE]]
  OBVIOUS
<1>1. mblk["L"] = <<>> /\ mblk["U"] = own
  BY <1>b, <1>n DEF Init, End
<1>2. \A i \in 1 .. n : own[i].id = i /\ own[i].dyn = FALSE
  BY <1>b
<1>3. Blocks("L") = {} /\ Rises(mblk["L"])
  BY <1>1 DEF Blocks, Elements, Rises
<1>4. \A c \in Blocks("U") : c.id # 0 /\ ~c.dyn
  <2>1. Len(own) = n
    BY <1>b
  <2> QED  BY <1>1, <1>2, <2>1 DEF Blocks, Elements
<1>5. \A e \in End : Links(e) = {} /\ Bufs(e) = {}
  BY DEF Init, Links, Bufs, Elements, Ids
<1>6. Asked(reqs) = {}
  BY DEF Init, Asked
<1>7. "L" \in End /\ "U" \in End
  BY DEF End
<1>8. LowerOK
  BY <1>3, <1>4, <1>5, <1>6, <1>7 DEF LowerOK, End
<1>9. UpperOK
  BY <1>4, <1>5, <1>7 DEF UpperOK
<1> QED  BY <1>8, <1>9 DEF StructOK

LEMMA StructNext ==
    ASSUME MbInv, MbInv', StructOK, [Next]_vars
    PROVE  StructOK'
<1>T. Types /\ Types' /\ reqs \in Seq(Request)
  BY DEF MbInv, Types
<1>1. ASSUME SendRemove PROVE StructOK'
  <2>1. PICK f : RemoveSent(f)
    BY <1>1, SendRemoveDoes
  <2>2. SameLinks
    BY <2>1, SameLinksSame DEF RemoveSent
  <2>3. Asked(reqs') \subseteq Asked(reqs)
    BY <1>T, <2>1, AskedFacts DEF RemoveSent
  <2> QED  BY <1>T, <2>1, <2>2, <2>3, StructStays DEF RemoveSent
<1>2. ASSUME NEW e \in End, SendInfo(e) PROVE StructOK'
  <2>1. PICK o, f, b : o \in End /\ InfoSent(e, o, f, b)
    BY <1>2, SendInfoDoes
  <2>2. SameLinks /\ Asked(reqs') \subseteq Asked(reqs) /\ mblk' = mblk /\ open' = open
    BY <2>1, SameLinksSame DEF InfoSent
  <2> QED  BY <1>T, <2>2, StructStays
<1>3. ASSUME NEW e \in End, NEW i \in DOMAIN sbuf[e], SendData(e, i) PROVE StructOK'
  <2>1. PICK o, f : o \in End /\ DataSent(e, o, f, i)
    BY <1>3, SendDataDoes
  <2>2. SameLinks /\ Asked(reqs') \subseteq Asked(reqs) /\ mblk' = mblk /\ open' = open
    BY <2>1 DEF DataSent
  <2> QED  BY <1>T, <2>2, StructStays
<1>4. ASSUME NEW e \in End, ReceiveInfo(e) PROVE StructOK'
  <2>1. PICK o, f, b : o \in End /\ InfoRead(e, o, f, b)
    BY <1>4, ReadInfoDoes
  <2> QED  BY <2>1, ReadInfoStruct
<1>5. ASSUME NEW e \in End, ReceiveData(e) \/ (e = "L" /\ IgnoreInfo) PROVE StructOK'
  <2>1. PICK o, f : o \in End /\ Skipped(e, o, f)
    BY <1>5, SkipDoes
  <2>2. SameLinks /\ Asked(reqs') \subseteq Asked(reqs) /\ mblk' = mblk /\ open' = open
    BY <2>1, SameLinksSame DEF Skipped
  <2> QED  BY <1>T, <2>2, StructStays
<1>7. ASSUME ReceiveRemove PROVE StructOK'
  BY <1>7, RemoveDoes, RemoveStruct
<1>8. ASSUME NEW n \in Names, AddMblk(n) PROVE StructOK'
  BY <1>8, AddDoes, AddStruct
<1>9. ASSUME NEW id, DeviceDropped(id) PROVE StructOK'
  BY <1>9, DropDoes, DropStruct
<1>10. ASSUME NEW e \in End, NEW i \in DOMAIN sbuf[e], Send(e, i) PROVE StructOK'
  <2>1. SameLinks
    BY <1>T, <1>10, FlagDoes DEF Send
  <2>2. Asked(reqs') \subseteq Asked(reqs) /\ mblk' = mblk /\ open' = open
    BY <1>10 DEF Send
  <2> QED  BY <1>T, <2>1, <2>2, StructStays
<1>11. ASSUME Connect PROVE StructOK'
  BY <1>11, ConnectDoes, ConnectStruct
<1>12. ASSUME NEW e \in End, Close(e) PROVE StructOK'
  BY <1>12, CloseDoes, CloseStruct
<1>13. ASSUME UNCHANGED vars PROVE StructOK'
  <2>1. SameLinks /\ Asked(reqs') \subseteq Asked(reqs) /\ mblk' = mblk /\ open' = open
    BY <1>13, SameLinksSame DEF vars
  <2> QED  BY <1>T, <2>1, StructStays
<1>14. "L" \in End
  BY DEF End
<1> QED  BY <1>1, <1>2, <1>3, <1>4, <1>5, <1>7, <1>8, <1>9, <1>10, <1>11, <1>12, <1>13, <1>14
         DEF Next, Work

----------------------------------------------------------------------------
(* Data for the lower end.  A source buffer of the upper end is created by *)
(* info, and the answer to that info goes before the first data: either the *)
(* target buffer is there, or the answer is on the way ahead of the data, or *)
(* the cursor of ioc_get_mbinfo_to_send has not passed the buffer.  This   *)
(* holds of every device, patient or not.                                  *)

\* Info about a block of this name among the frames, and before a frame.
InfoOn(s, n) == \E q \in 1 .. Len(s) : s[q].t = "info" /\ s[q].name = n
InfoBefore(s, p, n) == \E q \in 1 .. p - 1 : s[q].t = "info" /\ s[q].name = n

LEMMA InfoAppend ==
    ASSUME NEW S, NEW s \in Seq(S), NEW f \in S, NEW n
    PROVE  /\ InfoOn(s, n) => InfoOn(Append(s, f), n)
           /\ f.t = "info" /\ f.name = n => InfoOn(Append(s, f), n)
           /\ \A p \in 1 .. Len(s) : InfoBefore(s, p, n) => InfoBefore(Append(s, f), p, n)
           /\ InfoOn(s, n) => InfoBefore(Append(s, f), Len(s) + 1, n)
<1>k. PICK k \in Nat : k = Len(s)
  OBVIOUS
<1>a. PICK a : a = Append(s, f)
  OBVIOUS
<1>1. Len(a) = k + 1 /\ a[k + 1] = f /\ \A i \in 1 .. k : a[i] = s[i]
  BY <1>k, <1>a
<1>2. ASSUME InfoOn(s, n)
      PROVE  InfoOn(a, n) /\ InfoBefore(a, k + 1, n)
  <2>1. PICK q \in 1 .. k : s[q].t = "info" /\ s[q].name = n
    BY <1>2, <1>k DEF InfoOn
  <2>2. q \in 1 .. k + 1 /\ q \in 1 .. (k + 1) - 1 /\ a[q] = s[q]
    BY <1>1
  <2> QED  BY <1>1, <2>1, <2>2 DEF InfoOn, InfoBefore
<1>3. f.t = "info" /\ f.name = n => InfoOn(a, n)
  <2>1. k + 1 \in 1 .. k + 1
    OBVIOUS
  <2> QED  BY <1>1, <2>1 DEF InfoOn
<1>4. ASSUME NEW p \in 1 .. k, InfoBefore(s, p, n)
      PROVE  InfoBefore(a, p, n)
  <2>1. PICK q \in 1 .. p - 1 : s[q].t = "info" /\ s[q].name = n
    BY <1>4 DEF InfoBefore
  <2>2. a[q] = s[q]
    BY <1>1
  <2> QED  BY <2>1, <2>2 DEF InfoBefore
<1> QED  BY <1>2, <1>3, <1>4, <1>a, <1>k

LEMMA InfoTail ==
    ASSUME NEW S, NEW s \in Seq(S), s # <<>>, NEW n,
           ~(Head(s).t = "info" /\ Head(s).name = n)
    PROVE  /\ InfoOn(s, n) => InfoOn(Tail(s), n)
           /\ \A p \in 1 .. Len(Tail(s)) : InfoBefore(s, p + 1, n) => InfoBefore(Tail(s), p, n)
<1>k. PICK k \in Nat : k = Len(s)
  OBVIOUS
<1>a. PICK a : a = Tail(s)
  OBVIOUS
<1>1. k # 0 /\ Len(a) = k - 1 /\ Head(s) = s[1] /\ \A i \in 1 .. k - 1 : a[i] = s[i + 1]
  BY <1>k, <1>a
<1>2. ASSUME NEW q \in 1 .. k, s[q].t = "info" /\ s[q].name = n
      PROVE  \E i \in 1 .. k - 1 : q = i + 1 /\ a[i] = s[q]
  <2>1. q # 1
    BY <1>1, <1>2
  <2>2. PICK i \in 1 .. k - 1 : i = q - 1
    BY <2>1
  <2>3. q = i + 1
    BY <2>2
  <2> QED  BY <1>1, <2>3
<1>3. InfoOn(s, n) => InfoOn(a, n)
  BY <1>1, <1>2, <1>k DEF InfoOn
<1>4. ASSUME NEW p \in 1 .. k - 1, InfoBefore(s, p + 1, n)
      PROVE  InfoBefore(a, p, n)
  <2>1. PICK q \in 1 .. (p + 1) - 1 : s[q].t = "info" /\ s[q].name = n
    BY <1>4 DEF InfoBefore
  <2>2. q \in 1 .. k
    OBVIOUS
  <2>3. PICK i \in 1 .. k - 1 : q = i + 1 /\ a[i] = s[q]
    BY <1>2, <2>1, <2>2
  <2>4. i \in 1 .. p - 1
    BY <2>3
  <2> QED  BY <2>1, <2>3, <2>4 DEF InfoBefore
<1> QED  BY <1>1, <1>3, <1>4, <1>a

Both == open["L"] /\ open["U"]

\* A source buffer of the upper end is tied to a block whose target buffer
\* the lower end has, or will have before it reads data: info about the
\* block is on the way, or the cursor has not passed the buffer yet.
SourceFollowed(j) ==
    \A x \in Blocks("L") : x.id = sbuf["U"][j].rid =>
        /\ x.name \in DownNames
        /\ \/ x.id \in Ids(tbuf["L"]) \/ InfoOn(line["U"], x.name)
           \/ Ahead(sbuf["U"], scur, j)
DataFollowed(p) ==
    \A x \in Blocks("L") : x.id = line["U"][p].id =>
        /\ x.name \in DownNames
        /\ x.id \in Ids(tbuf["L"]) \/ InfoBefore(line["U"], p, x.name)

DownOK ==
    /\ Both => \A j \in 1 .. Len(sbuf["U"]) : SourceFollowed(j)
    /\ open["L"] => \A p \in 1 .. Len(line["U"]) : line["U"][p].t = "data" => DataFollowed(p)
    /\ \A f \in Elements(line["U"]) : f.t = "data" => f.id <= lastId["L"]

\* Steps that nothing of this is about.
LEMMA DownStays ==
    ASSUME MbInv, DownOK, SameLinks, mblk'["L"] = mblk["L"], lastId'["L"] = lastId["L"],
           line'["U"] = line["U"], scur' = scur, open' = open
    PROVE  DownOK'
<1>0. "L" \in End /\ "U" \in End
  BY DEF End
<1>1. /\ Len(sbuf'["U"]) = Len(sbuf["U"]) /\ tbuf'["L"] = tbuf["L"]
      /\ \A j \in 1 .. Len(sbuf["U"]) : sbuf'["U"][j].id = sbuf["U"][j].id /\ sbuf'["U"][j].rid = sbuf["U"][j].rid
  BY <1>0 DEF SameLinks
<1>2. Blocks("L")' = Blocks("L") /\ Both' = Both
  BY DEF Blocks, Both
<1>n. PICK n \in Nat : n = Len(sbuf["U"])
  BY <1>0 DEF MbInv, Types
<1>3. ASSUME Both, NEW j \in 1 .. n
      PROVE  SourceFollowed(j)'
  <2>1. SourceFollowed(j)
    BY <1>3, <1>n DEF DownOK
  <2>2. Ahead(sbuf["U"], scur, j) => Ahead(sbuf'["U"], scur', j)
    <3>1. ASSUME NEW i \in 1 .. j PROVE sbuf'["U"][i].id = sbuf["U"][i].id
      BY <1>1, <1>n
    <3> QED  BY <3>1 DEF Ahead
  <2>3. sbuf'["U"][j].rid = sbuf["U"][j].rid
    BY <1>1, <1>n
  <2> QED  BY <1>1, <1>2, <2>1, <2>2, <2>3 DEF SourceFollowed
<1>4. ASSUME NEW p, DataFollowed(p)
      PROVE  DataFollowed(p)'
  BY <1>1, <1>2, <1>4 DEF DataFollowed
<1> QED  BY <1>1, <1>2, <1>3, <1>4, <1>n DEF DownOK

\* Blocks and target buffers of the lower end, when the line and the source
\* buffers of the upper end are as they were: a block there is an old one,
\* or newer than all ids on the way; its target buffer stays with it.
LEMMA DownLower ==
    ASSUME MbInv, DownOK, sbuf'["U"] = sbuf["U"], line'["U"] = line["U"], scur' = scur,
           open' = open, lastId["L"] <= lastId'["L"], lastId'["L"] \in Nat,
           \A x \in Blocks("L")' : x \in Blocks("L") \/ x.id > lastId["L"],
           \A x \in Blocks("L")' : x.id \in Ids(tbuf["L"]) => x.id \in Ids(tbuf'["L"])
    PROVE  DownOK'
<1>0. Types
  BY DEF MbInv
<1>T. /\ "L" \in End /\ "U" \in End /\ sbuf["U"] \in Seq(SbufType) /\ line["U"] \in Seq(Frame)
      /\ lastId["L"] \in Nat /\ Other("U") = "L"
  BY <1>0, EndFacts
<1>1. Both' = Both
  BY DEF Both
<1>n. PICK n \in Nat : n = Len(sbuf["U"])
  BY <1>T
<1>m. PICK m \in Nat : m = Len(line["U"])
  BY <1>T
<1>2. ASSUME Both, NEW j \in 1 .. n
      PROVE  SourceFollowed(j)'
  <2>1. SourceFollowed(j)
    BY <1>2, <1>n DEF DownOK
  <2>2. PICK l : l = sbuf["U"][j]
    OBVIOUS
  <2>3. l \in Links("U") /\ l.rid \in Nat
    <3>1. l \in Elements(sbuf["U"])
      BY <1>n, <2>2 DEF Elements
    <3> QED  BY <1>0, <1>T, <3>1, LinkFacts
  <2>4. l.rid <= lastId["L"]
    BY <1>T, <2>3 DEF MbInv, LinksOK, LinkOK, Means
  <2>5. ASSUME NEW x \in Blocks("L")', x.id = l.rid
        PROVE  x \in Blocks("L")
    <3>1. ~(x.id > lastId["L"])
      BY <1>T, <2>3, <2>4, <2>5
    <3> QED  BY <3>1
  <2> QED  BY <2>1, <2>2, <2>5 DEF SourceFollowed
<1>3. ASSUME open["L"], NEW p \in 1 .. m, line["U"][p].t = "data"
      PROVE  DataFollowed(p)'
  <2>1. DataFollowed(p)
    BY <1>3, <1>m DEF DownOK
  <2>f. PICK f : f = line["U"][p]
    OBVIOUS
  <2>2. f \in Elements(line["U"]) /\ f \in Frame /\ f.t = "data"
    BY <1>T, <1>m, <1>3, <2>f, ElementFacts DEF Elements
  <2>3. f.id \in Nat /\ f.id <= lastId["L"]
    BY <2>2 DEF DownOK, Frame, InfoFrame, DataFrame, RemoveFrame
  <2>4. ASSUME NEW x \in Blocks("L")', x.id = f.id
        PROVE  x \in Blocks("L")
    <3>1. ~(x.id > lastId["L"])
      BY <1>T, <2>3, <2>4
    <3> QED  BY <3>1
  <2> QED  BY <2>1, <2>4, <2>f DEF DataFollowed
<1>4. ASSUME NEW f \in Elements(line["U"]), f.t = "data"
      PROVE  f.id <= lastId'["L"]
  <2>1. f.id \in Nat /\ f.id <= lastId["L"]
    <3>1. f \in Frame
      BY <1>T, ElementFacts
    <3> QED  BY <1>4, <3>1 DEF DownOK, Frame, InfoFrame, DataFrame, RemoveFrame
  <2> QED  BY <1>T, <2>1
<1> QED  BY <1>1, <1>2, <1>3, <1>4, <1>n, <1>m DEF DownOK

\* The lower end takes a frame.  If it was info about a block there, that
\* block has its target buffer now.
LEMMA DownTake ==
    ASSUME MbInv, DownOK, line["U"] # <<>>, line'["U"] = Tail(line["U"]),
           mblk'["L"] = mblk["L"], lastId'["L"] = lastId["L"],
           sbuf'["U"] = sbuf["U"], scur' = scur, open' = open,
           Ids(tbuf["L"]) \subseteq Ids(tbuf'["L"]),
           \A x \in Blocks("L") :
               Head(line["U"]).t = "info" /\ Head(line["U"]).name = x.name /\ x.name \in DownNames
                   => x.id \in Ids(tbuf'["L"])
    PROVE  DownOK'
<1>0. Types
  BY DEF MbInv
<1>s. PICK s \in Seq(Frame) : s = line["U"]
  BY <1>0, EndFacts
<1>r. PICK r : r = Tail(s)
  OBVIOUS
<1>1. Both' = Both /\ Blocks("L")' = Blocks("L") /\ s # <<>> /\ line'["U"] = r
  BY <1>s, <1>r DEF Both, Blocks
<1>m. PICK m \in Nat : m = Len(s)
  OBVIOUS
<1>2. m # 0 /\ Len(r) = m - 1 /\ \A p \in 1 .. m - 1 : r[p] = s[p + 1]
  BY <1>1, <1>r, <1>m
<1>3. ASSUME NEW x \in Blocks("L"), x.name \in DownNames, x.id \notin Ids(tbuf'["L"])
      PROVE  /\ InfoOn(s, x.name) => InfoOn(r, x.name)
             /\ \A p \in 1 .. m - 1 : InfoBefore(s, p + 1, x.name) => InfoBefore(r, p, x.name)
  <2>1. ~(Head(s).t = "info" /\ Head(s).name = x.name)
    BY <1>3, <1>s
  <2> QED  BY <1>1, <1>2, <1>r, <2>1, InfoTail
<1>4. ASSUME NEW j, SourceFollowed(j)
      PROVE  SourceFollowed(j)'
  BY <1>1, <1>3, <1>4, <1>s DEF SourceFollowed
<1>5. ASSUME NEW p \in 1 .. m - 1, DataFollowed(p + 1)
      PROVE  DataFollowed(p)'
  BY <1>1, <1>2, <1>3, <1>5, <1>s DEF DataFollowed
<1>6. ASSUME open["L"], NEW p \in 1 .. m - 1, r[p].t = "data"
      PROVE  DataFollowed(p)'
  <2>1. p + 1 \in 1 .. m /\ s[p + 1].t = "data"
    BY <1>2, <1>6
  <2>2. DataFollowed(p + 1)
    BY <1>6, <1>s, <1>m, <2>1 DEF DownOK
  <2> QED  BY <1>5, <2>2
<1>7. \A f \in Elements(r) : f \in Elements(s)
  BY <1>1, <1>r, ElementFacts
<1> QED  BY <1>1, <1>2, <1>4, <1>6, <1>7, <1>s DEF DownOK

LEMMA SkipDown ==
    ASSUME MbInv, DownOK, NEW e \in End, NEW o, NEW f, Skipped(e, o, f)
    PROVE  DownOK'
<1>T. "L" \in End /\ "U" \in End /\ "L" # "U" /\ Other("L") = "U" /\ Other("U") = "L"
  BY EndFacts DEF MbInv
<1>1. UNCHANGED <<mblk, lastId, sbuf, tbuf, reqs, open>> /\ UNCHANGED cursors /\ o = Other(e)
  BY DEF Skipped
<1>2. CASE e = "U"
  <2>1. line'["U"] = line["U"] /\ SameLinks
    BY <1>1, <1>2, SameLinksSame DEF Skipped
  <2> QED  BY <1>1, <2>1, DownStays DEF cursors
<1>3. CASE e = "L"
  <2>1. line["U"] # <<>> /\ line'["U"] = Tail(line["U"]) /\ f = Head(line["U"])
    BY <1>1, <1>3, <1>T DEF Skipped
  <2>2. \A x \in Blocks("L") : ~(Head(line["U"]).t = "info" /\ Head(line["U"]).name = x.name)
    BY <2>1 DEF Skipped, Named
  <2> QED  BY <1>1, <2>1, <2>2, DownTake DEF cursors
<1> QED  BY <1>2, <1>3 DEF End

LEMMA AddDown ==
    ASSUME MbInv, DownOK, NEW n, NEW b \in BlockType, BlockAdded(n, b)
    PROVE  DownOK'
<1>1. lastId["L"] \in Nat /\ b.id = lastId["L"] + 1 /\ lastId'["L"] = b.id
  BY EndFacts DEF MbInv, BlockAdded
<1>2. /\ sbuf' = sbuf /\ line' = line /\ scur' = scur /\ open' = open /\ tbuf' = tbuf
      /\ Blocks("L")' = Blocks("L") \union {b}
  BY DEF BlockAdded
<1>3. lastId["L"] <= lastId'["L"] /\ lastId'["L"] \in Nat /\ b.id > lastId["L"]
  BY <1>1
<1>4. \A x \in Blocks("L")' : x \in Blocks("L") \/ x.id > lastId["L"]
  BY <1>2, <1>3
<1> QED  BY <1>2, <1>3, <1>4, DownLower

LEMMA DropDown ==
    ASSUME MbInv, DownOK, Types', NEW id, BlockDropped(id)
    PROVE  DownOK'
<1>T. "L" \in End /\ tbuf["L"] \in Seq(TbufType) /\ lastId["L"] \in Nat /\ tbuf'["L"] \in Seq(TbufType)
  BY EndFacts DEF MbInv, Types, End
<1>1. /\ sbuf'["U"] = sbuf["U"] /\ line' = line /\ scur' = scur /\ open' = open /\ lastId' = lastId
      /\ Blocks("L")' = {b \in Blocks("L") : b.id # id}
      /\ Elements(tbuf'["L"]) = {l \in Elements(tbuf["L"]) : l.id # id}
  BY DEF BlockDropped
<1>2. ASSUME NEW x \in Blocks("L")', x.id \in Ids(tbuf["L"])
      PROVE  x.id \in Ids(tbuf'["L"])
  <2>1. PICK l \in Elements(tbuf["L"]) : l.id = x.id
    BY <1>T, <1>2, IdsFacts
  <2>2. l \in Elements(tbuf'["L"])
    BY <1>1, <2>1
  <2> QED  BY <1>T, <2>1, <2>2, IdsFacts
<1>3. lastId["L"] <= lastId'["L"] /\ lastId'["L"] \in Nat
  BY <1>1, <1>T
<1>4. \A x \in Blocks("L")' : x \in Blocks("L")
  BY <1>1
<1> QED  BY <1>1, <1>2, <1>3, <1>4, DownLower

LEMMA CloseDown ==
    ASSUME MbInv, DownOK, NEW e \in End, NEW o, Closed(e, o)
    PROVE  DownOK'
<1>T. "L" \in End /\ "U" \in End /\ "L" # "U" /\ Other("L") = "U" /\ Other("U") = "L"
  BY EndFacts DEF MbInv
<1>1. /\ o = Other(e) /\ ~open'[e] /\ open'[o] = open[o]
      /\ line'[o] = <<>> /\ line'[e] = line[e] /\ tbuf'[o] = tbuf[o] /\ lastId' = lastId
  BY DEF Closed
<1>2. ~Both'
  BY <1>1 DEF Both, End
<1>3. Elements(<<>>) = {}
  BY DEF Elements
<1>4. CASE e = "L"
  BY <1>1, <1>2, <1>3, <1>4, <1>T DEF DownOK
<1>5. CASE e = "U"
  <2>1. line'["U"] = line["U"] /\ open'["L"] = open["L"] /\ tbuf'["L"] = tbuf["L"] /\ mblk'["L"] = mblk["L"]
    BY <1>1, <1>5, <1>T DEF Closed
  <2>2. ASSUME NEW p, DataFollowed(p) PROVE DataFollowed(p)'
    BY <2>1, <2>2 DEF DataFollowed, Blocks
  <2> QED  BY <1>1, <1>2, <2>1, <2>2 DEF DownOK
<1> QED  BY <1>4, <1>5 DEF End

LEMMA ConnectDown ==
    ASSUME MbInv, StructOK, Connected
    PROVE  DownOK'
<1>1. sbuf'["U"] = sbuf["U"] /\ line'["U"] = <<>> /\ Links("U") = {}
  BY DEF Connected, StructOK, UpperOK
<1>2. ~ \E j \in 1 .. Len(sbuf["U"]) : TRUE
  BY <1>1 DEF Links, Elements
<1>3. Elements(<<>>) = {} /\ Len(<<>>) = 0
  BY DEF Elements
<1> QED  BY <1>1, <1>2, <1>3 DEF DownOK

LEMMA RemoveDown ==
    ASSUME MbInv, StructOK, DownOK, NEW f, NEW gone, RemoveRead(f, gone)
    PROVE  DownOK'
<1>0. Types
  BY DEF MbInv
<1>s. PICK s \in Seq(SbufType) : s = sbuf["U"]
  BY <1>0, EndFacts
<1>w. PICK w \in Seq(SbufType) : w = Without(s, gone)
  BY WithoutFacts
<1>1. /\ sbuf'["U"] = w /\ scur' = Advance(s, scur, gone) /\ line'["U"] = line["U"]
      /\ mblk'["L"] = mblk["L"] /\ tbuf'["L"] = tbuf["L"] /\ lastId' = lastId /\ open' = open
  BY <1>s, <1>w DEF RemoveRead
<1>2. Both' = Both /\ Blocks("L")' = Blocks("L")
  BY <1>1 DEF Both, Blocks
<1>n. PICK n \in Nat : n = Len(s)
  OBVIOUS
<1>m. PICK m : EmbedsTo(s, gone, w, m, n)
  BY <1>w, <1>n, WithoutOrder
<1>3. \A i \in 1 .. n : s[i].id # 0
  <2>1. ASSUME NEW i \in 1 .. n PROVE s[i].id # 0
    <3>1. s[i] \in Links("U")
      BY <1>n, <1>s DEF Links, Elements
    <3>2. PICK b \in Blocks("U") : b.id = s[i].id
      BY <3>1, Owners DEF End
    <3> QED  BY <3>2 DEF StructOK, LowerOK, End
  <2> QED  BY <2>1
<1>4. ASSUME Both, NEW j \in 1 .. Len(w)
      PROVE  SourceFollowed(j)'
  <2>1. PICK i \in 1 .. n : i = m[j]
    BY <1>m DEF EmbedsTo
  <2>2. w[j] = s[i]
    BY <1>m, <2>1 DEF EmbedsTo
  <2>3. SourceFollowed(i)
    BY <1>4, <1>n, <1>s DEF DownOK
  <2>4. Ahead(s, scur, i) => Ahead(w, scur', j)
    BY <1>1, <1>3, <1>n, <1>m, <1>w, <2>1, AheadKept
  <2> QED  BY <1>1, <1>2, <1>s, <2>2, <2>3, <2>4 DEF SourceFollowed
<1>5. ASSUME NEW p, DataFollowed(p) PROVE DataFollowed(p)'
  BY <1>1, <1>2, <1>5 DEF DataFollowed
<1> QED  BY <1>1, <1>2, <1>4, <1>5 DEF DownOK

LEMMA SentDownStays ==
    ASSUME MbInv, DownOK, NEW e \in End, NEW o, NEW f, FrameSent(e, o, f), e = "L" \/ ~open["L"],
           SameLinks, mblk' = mblk, lastId' = lastId, open' = open, scur' = scur \/ ~open["L"]
    PROVE  DownOK'
<1>T. "L" \in End /\ "U" \in End /\ "L" # "U" /\ Other("L") = "U" /\ Other("U") = "L"
  BY EndFacts DEF MbInv
<1>1. line'["U"] = line["U"]
  BY <1>T DEF FrameSent, End
<1>2. CASE scur' = scur
  BY <1>1, <1>2, DownStays
<1>3. CASE ~open["L"]
  BY <1>1, <1>3 DEF DownOK, Both
<1> QED  BY <1>2, <1>3

\* Info from the upper end: the buffer at the cursor, which it passes, has
\* its info on the way now.
LEMMA SendInfoDown ==
    ASSUME MbInv, StructOK, DownOK, NEW e \in End, NEW o, NEW f, NEW b, InfoSent(e, o, f, b)
    PROVE  DownOK'
<1>0. Types
  BY DEF MbInv
<1>T. "L" \in End /\ "U" \in End /\ "L" # "U" /\ Other("L") = "U" /\ Other("U") = "L"
  BY <1>0, EndFacts
<1>1. /\ FrameSent(e, o, f) /\ mblk' = mblk /\ lastId' = lastId /\ open' = open
      /\ sbuf' = sbuf /\ tbuf' = tbuf /\ SameLinks
  BY SameLinksSame DEF InfoSent
<1>2. CASE e = "L" \/ ~open["L"]
  <2>1. scur' = scur \/ ~open["L"]
    BY <1>2 DEF InfoSent
  <2> QED  BY <1>1, <1>2, <2>1, SentDownStays
<1>3. CASE e = "U" /\ open["L"]
  <2>s. PICK s \in Seq(Frame) : s = line["U"]
    BY <1>0, EndFacts
  <2>u. PICK u \in Seq(SbufType) : u = sbuf["U"]
    BY <1>0, EndFacts
  <2>1. /\ line'["U"] = Append(s, f) /\ f \in Frame /\ f.t = "info" /\ f.name = b.name
        /\ b \in Blocks("U") /\ b.id # 0
        /\ scur' = IF scur = b.id THEN Advance(u, b.id, {b.id}) ELSE scur
    BY <1>1, <1>3, <1>T, <2>s, <2>u DEF FrameSent, InfoSent, InfoFrame
  <2>2. Both' = Both /\ Blocks("L")' = Blocks("L")
    BY <1>1 DEF Both, Blocks
  <2>3. \A n : InfoOn(s, n) => InfoOn(Append(s, f), n)
    BY <2>1, InfoAppend
  <2>4. InfoOn(Append(s, f), b.name)
    BY <2>1, InfoAppend
  <2>n. PICK n \in Nat : n = Len(u)
    OBVIOUS
  <2>5. \A i \in 1 .. n : u[i].id # 0
    <3>1. ASSUME NEW i \in 1 .. n PROVE u[i].id # 0
      <4>1. u[i] \in Links("U")
        BY <2>n, <2>u DEF Links, Elements
      <4>2. PICK c \in Blocks("U") : c.id = u[i].id
        BY <4>1, <1>T, Owners
      <4> QED  BY <4>2, <1>T DEF StructOK, LowerOK
    <3> QED  BY <3>1
  <2>6. ASSUME Both, NEW j \in 1 .. n, NEW x \in Blocks("L"), x.id = u[j].rid
        PROVE  /\ x.name \in DownNames
               /\ \/ x.id \in Ids(tbuf["L"]) \/ InfoOn(Append(s, f), x.name)
                  \/ Ahead(u, scur', j)
    <3>1. /\ x.name \in DownNames
          /\ x.id \in Ids(tbuf["L"]) \/ InfoOn(s, x.name) \/ Ahead(u, scur, j)
      BY <2>6, <2>n, <2>u, <2>s DEF DownOK, SourceFollowed
    <3>2. CASE x.id \in Ids(tbuf["L"]) \/ InfoOn(s, x.name)
      BY <2>3, <3>1, <3>2
    <3>3. CASE Ahead(u, scur, j)
      <4>1. CASE scur # b.id
        BY <2>1, <3>1, <3>3, <4>1
      <4>2. CASE scur = b.id /\ u[j].id = b.id
        <5>1. u[j] \in Links("U")
          BY <2>n, <2>u DEF Links, Elements
        <5>2. PICK c \in Blocks("U") : c.id = u[j].id /\ Means("L", u[j].rid, c.name)
          BY <1>T, <5>1 DEF MbInv, LinksOK, LinkOK
        <5>3. c = b
          <6>1. mblk["U"] \in Seq(BlockType) /\ Distinct(mblk["U"])
            BY <1>0, <1>T, EndFacts DEF MbInv, BlocksOK
          <6> QED  BY <2>1, <4>2, <5>2, <6>1, DistinctElements DEF Blocks
        <5>4. x.name = b.name
          BY <2>6, <5>2, <5>3 DEF Means
        <5> QED  BY <2>4, <3>1, <5>4
      <4>3. CASE scur = b.id /\ u[j].id # b.id
        <5>1. PICK c \in 1 .. j : u[c].id = Advance(u, b.id, {b.id})
          <6>g. PICK gone : gone = {b.id}
            OBVIOUS
          <6>c. PICK cur : cur = b.id
            OBVIOUS
          <6>1. j \in 1 .. Len(u) /\ (\E i \in 1 .. j : u[i].id = cur) /\ u[j].id \notin gone
            BY <2>n, <3>3, <4>3, <6>c, <6>g DEF Ahead
          <6>2. \E c \in 1 .. j : u[c].id = Advance(u, cur, gone) /\ u[c].id \notin gone
            BY <6>1, AdvanceUpTo
          <6> QED  BY <6>2, <6>c, <6>g
        <5>2. u[c].id # 0 /\ scur' = u[c].id
          BY <2>1, <2>5, <4>3, <5>1
        <5> QED  BY <3>1, <5>2 DEF Ahead
      <4> QED  BY <4>1, <4>2, <4>3
    <3> QED  BY <3>1, <3>2, <3>3
  <2>7. ASSUME Both, NEW j \in 1 .. n PROVE SourceFollowed(j)'
    BY <1>1, <2>1, <2>2, <2>6, <2>7, <2>u DEF SourceFollowed
  <2>m. PICK m \in Nat : m = Len(s)
    OBVIOUS
  <2>a. PICK a : a = Append(s, f)
    OBVIOUS
  <2>8. Len(a) = m + 1 /\ a[m + 1] = f /\ \A p \in 1 .. m : a[p] = s[p]
    BY <2>m, <2>a
  <2>9. ASSUME NEW p \in 1 .. m + 1, a[p].t = "data"
        PROVE  DataFollowed(p)'
    <3>1. p \in 1 .. m
      BY <2>1, <2>8, <2>9
    <3>2. DataFollowed(p) /\ a[p] = s[p]
      BY <1>3, <2>8, <2>9, <2>s, <2>m, <3>1 DEF DownOK
    <3>3. \A k : InfoBefore(s, p, k) => InfoBefore(a, p, k)
      BY <2>1, <2>a, <2>m, <3>1, InfoAppend
    <3> QED  BY <1>1, <2>1, <2>2, <2>a, <2>s, <3>2, <3>3 DEF DataFollowed
  <2>10. \A g \in Elements(a) : g \in Elements(s) \/ g = f
    BY <2>1, <2>a, ElementFacts
  <2> QED  BY <1>1, <2>1, <2>2, <2>7, <2>8, <2>9, <2>10, <2>n, <2>u, <2>a, <2>s DEF DownOK
<1> QED  BY <1>2, <1>3 DEF End

\* Data from the upper end: no cursor is left, so the info is sent before.
LEMMA SendDataDown ==
    ASSUME MbInv, DownOK, NEW e \in End, NEW o, NEW f, NEW j, DataSent(e, o, f, j)
    PROVE  DownOK'
<1>0. Types
  BY DEF MbInv
<1>T. "L" \in End /\ "U" \in End /\ "L" # "U" /\ Other("L") = "U" /\ Other("U") = "L" /\ lastId["L"] \in Nat
  BY <1>0, EndFacts
<1>1. /\ FrameSent(e, o, f) /\ mblk' = mblk /\ lastId' = lastId /\ open' = open
      /\ SameLinks /\ scur' = scur /\ tbuf' = tbuf
  BY DEF DataSent, cursors, SameLinks
<1>2. CASE e = "L" \/ ~open["L"]
  BY <1>1, <1>2, SentDownStays
<1>3. CASE e = "U" /\ open["L"]
  <2>s. PICK s \in Seq(Frame) : s = line["U"]
    BY <1>0, EndFacts
  <2>u. PICK u \in Seq(SbufType) : u = sbuf["U"]
    BY <1>0, EndFacts
  <2>1. /\ line'["U"] = Append(s, f) /\ f \in Frame /\ f.t = "data" /\ open["U"]
        /\ j \in 1 .. Len(u) /\ f.id = u[j].rid /\ scur = 0
    BY <1>1, <1>3, <1>T, <2>s, <2>u DEF FrameSent, DataSent, DataFrame, InfoTurn
  <2>2. Both' = Both /\ Blocks("L")' = Blocks("L") /\ Both
    BY <1>1, <1>3, <2>1 DEF Both, Blocks
  <2>3. \A n : InfoOn(s, n) => InfoOn(Append(s, f), n)
    BY <2>1, InfoAppend
  <2>n. PICK n \in Nat : n = Len(u)
    OBVIOUS
  <2>4. /\ Len(sbuf'["U"]) = n
        /\ \A i \in 1 .. n : sbuf'["U"][i].rid = u[i].rid
    BY <1>1, <1>T, <2>n, <2>u DEF SameLinks
  <2>5. ASSUME NEW i \in 1 .. n PROVE SourceFollowed(i) /\ ~Ahead(u, scur, i)
    BY <2>1, <2>2, <2>n, <2>u DEF DownOK, Ahead
  <2>6. ASSUME NEW i \in 1 .. n PROVE SourceFollowed(i)'
    <3>1. SourceFollowed(i) /\ ~Ahead(u, scur, i)
      BY <2>5
    <3> QED  BY <1>1, <2>1, <2>2, <2>3, <2>4, <2>s, <2>u, <3>1 DEF SourceFollowed
  <2>m. PICK m \in Nat : m = Len(s)
    OBVIOUS
  <2>a. PICK a : a = Append(s, f)
    OBVIOUS
  <2>8. Len(a) = m + 1 /\ a[m + 1] = f /\ \A p \in 1 .. m : a[p] = s[p]
    BY <2>m, <2>a
  <2>9. ASSUME NEW p \in 1 .. m, a[p].t = "data"
        PROVE  DataFollowed(p)'
    <3>2. DataFollowed(p) /\ a[p] = s[p]
      BY <1>3, <2>8, <2>9, <2>s, <2>m DEF DownOK
    <3>3. \A k : InfoBefore(s, p, k) => InfoBefore(a, p, k)
      BY <2>1, <2>a, <2>m, InfoAppend
    <3> QED  BY <1>1, <2>1, <2>2, <2>a, <2>s, <3>2, <3>3 DEF DataFollowed
  <2>10. DataFollowed(m + 1)'
    <3>1. SourceFollowed(j) /\ ~Ahead(u, scur, j)
      BY <2>1, <2>5, <2>n
    <3>2. \A k : InfoOn(s, k) => InfoBefore(a, m + 1, k)
      BY <2>1, <2>a, <2>m, InfoAppend
    <3>3. ASSUME NEW x \in Blocks("L"), x.id = a[m + 1].id
          PROVE  x.name \in DownNames /\ (x.id \in Ids(tbuf["L"]) \/ InfoBefore(a, m + 1, x.name))
      <4>1. x.id = u[j].rid
        BY <2>1, <2>8, <3>3
      <4>2. x.name \in DownNames /\ (x.id \in Ids(tbuf["L"]) \/ InfoOn(s, x.name))
        BY <2>s, <2>u, <3>1, <4>1 DEF SourceFollowed
      <4> QED  BY <3>2, <4>2
    <3> QED  BY <1>1, <2>1, <2>2, <2>a, <3>3 DEF DataFollowed
  <2>11. ASSUME NEW p \in 1 .. m + 1, a[p].t = "data" PROVE DataFollowed(p)'
    <3>1. p \in 1 .. m \/ p = m + 1
      OBVIOUS
    <3> QED  BY <2>9, <2>10, <2>11, <3>1
  <2>12. f.id <= lastId["L"]
    <3>1. u[j] \in Links("U")
      BY <2>1, <2>u DEF Links, Elements
    <3> QED  BY <1>T, <2>1, <3>1 DEF MbInv, LinksOK, LinkOK, Means
  <2>13. \A g \in Elements(a) : g \in Elements(s) \/ g = f
    BY <2>1, <2>a, ElementFacts
  <2> QED  BY <1>1, <2>1, <2>2, <2>4, <2>6, <2>8, <2>11, <2>12, <2>13, <2>n, <2>a, <2>s DEF DownOK
<1> QED  BY <1>2, <1>3 DEF End

\* Info read at the upper end: the new source buffer is where the cursor
\* is, or after it.
LEMMA ReadInfoDown ==
    ASSUME MbInv, StructOK, DownOK, NEW e \in End, NEW o, NEW f, NEW b,
           InfoRead(e, o, f, b), SourceAdded(e, f, b)
    PROVE  DownOK'
<1>0. Types
  BY DEF MbInv
<1>T. "L" \in End /\ "U" \in End /\ "L" # "U" /\ Other("L") = "U" /\ Other("U") = "L"
  BY <1>0, EndFacts
<1>1. /\ o = Other(e) /\ open' = open /\ line[o] # <<>> /\ f = Head(line[o])
      /\ line'[o] = Tail(line[o]) /\ line'[e] = line[e] /\ b.name = f.name
      /\ sbuf'[o] = sbuf[o] /\ tbuf'[o] = tbuf[o]
      /\ Ids(tbuf'[e]) = Ids(tbuf[e]) \union (IF CanReceive(e, b.name) THEN {b.id} ELSE {})
      /\ \/ b \in Blocks(e) /\ mblk' = mblk /\ lastId' = lastId
         \/ e = "U" /\ mblk'["L"] = mblk["L"] /\ lastId'["L"] = lastId["L"]
  BY DEF InfoRead
<1>2. CASE e = "L"
  <2>1. /\ line["U"] # <<>> /\ line'["U"] = Tail(line["U"]) /\ f = Head(line["U"])
        /\ mblk' = mblk /\ lastId' = lastId /\ sbuf'["U"] = sbuf["U"] /\ b \in Blocks("L")
    BY <1>1, <1>2, <1>T
  <2>2. scur' = scur
    BY <1>2, <1>T DEF SourceAdded
  <2>3. ASSUME NEW x \in Blocks("L"), f.name = x.name, x.name \in DownNames
        PROVE  x.id \in Ids(tbuf'["L"])
    <3>1. x = b
      BY <1>1, <2>1, <2>3 DEF StructOK, LowerOK
    <3>2. CanReceive("L", b.name)
      BY <1>1, <2>3 DEF CanReceive
    <3> QED  BY <1>1, <1>2, <3>1, <3>2
  <2>4. Ids(tbuf["L"]) \subseteq Ids(tbuf'["L"])
    BY <1>1, <1>2
  <2> QED  BY <1>1, <2>1, <2>2, <2>3, <2>4, DownTake
<1>3. CASE e = "U"
  <2>1. /\ line'["U"] = line["U"] /\ tbuf'["L"] = tbuf["L"] /\ mblk'["L"] = mblk["L"]
        /\ lastId'["L"] = lastId["L"]
    BY <1>1, <1>3, <1>T
  <2>2. CASE sbuf'["U"] = sbuf["U"] /\ scur' = scur
    <3>1. Both' = Both /\ Blocks("L")' = Blocks("L")
      BY <1>1, <2>1 DEF Both, Blocks
    <3>2. ASSUME NEW j, SourceFollowed(j) PROVE SourceFollowed(j)'
      BY <2>1, <2>2, <3>1, <3>2 DEF SourceFollowed
    <3>3. ASSUME NEW p, DataFollowed(p) PROVE DataFollowed(p)'
      BY <2>1, <3>1, <3>3 DEF DataFollowed
    <3> QED  BY <1>1, <2>1, <2>2, <3>1, <3>2, <3>3 DEF DownOK
  <2>3. CASE \E x \in SbufType :
                /\ x.id = b.id /\ x.rid = f.id /\ CanSend("U", b.name)
                /\ sbuf'["U"] = Append(sbuf["U"], x)
                /\ scur' = IF scur = 0 THEN b.id ELSE scur
    <3>x. PICK x \in SbufType :
                /\ x.id = b.id /\ x.rid = f.id /\ CanSend("U", b.name)
                /\ sbuf'["U"] = Append(sbuf["U"], x)
                /\ scur' = IF scur = 0 THEN b.id ELSE scur
      BY <2>3
    <3>u. PICK u \in Seq(SbufType) : u = sbuf["U"]
      BY <1>0, EndFacts
    <3>n. PICK n \in Nat : n = Len(u)
      OBVIOUS
    <3>a. PICK a : a = Append(u, x)
      OBVIOUS
    <3>1. /\ sbuf'["U"] = a /\ Len(a) = n + 1 /\ a[n + 1] = x
          /\ \A j \in 1 .. n : a[j] = u[j]
      BY <3>x, <3>u, <3>n, <3>a
    <3>2. Both' = Both /\ Blocks("L")' = Blocks("L")
      BY <1>1, <2>1 DEF Both, Blocks
    <3>3. ASSUME NEW j \in 1 .. n, Ahead(u, scur, j)
          PROVE  Ahead(a, scur', j)
      <4>1. scur # 0 /\ \E i \in 1 .. j : u[i].id = scur
        BY <3>3 DEF Ahead
      <4>2. \A i \in 1 .. j : a[i] = u[i]
        BY <3>1
      <4> QED  BY <3>x, <4>1, <4>2 DEF Ahead
    <3>4. ASSUME Both, NEW j \in 1 .. n PROVE SourceFollowed(j)'
      <4>1. SourceFollowed(j)
        BY <3>4, <3>u, <3>n DEF DownOK
      <4> QED  BY <2>1, <3>1, <3>2, <3>3, <3>u, <4>1 DEF SourceFollowed
    <3>5. Ahead(a, scur', n + 1)
      <4>1. CASE scur = 0
        <5>1. b.id # 0
          <6>1. b \in Blocks("U") \/ b.id = lastId["U"] + 1
            BY <1>3 DEF InfoRead
          <6>2. lastId["U"] \in Nat
            BY <1>0, EndFacts
          <6> QED  BY <1>T, <6>1, <6>2 DEF StructOK, LowerOK
        <5>2. n + 1 \in 1 .. n + 1 /\ a[n + 1].id = b.id /\ scur' = b.id
          BY <3>1, <3>x, <4>1
        <5> QED  BY <5>1, <5>2 DEF Ahead
      <4>2. CASE scur # 0
        <5>1. scur \in Ids(u) /\ scur' = scur
          BY <3>u, <3>x, <4>2 DEF MbInv, CursorsOK
        <5>2. PICK i \in 1 .. n : u[i].id = scur
          BY <3>n, <5>1 DEF Ids
        <5>3. i \in 1 .. n + 1 /\ a[i].id = scur
          BY <3>1, <5>2
        <5> QED  BY <4>2, <5>1, <5>3 DEF Ahead
      <4> QED  BY <4>1, <4>2
    <3>6. SourceFollowed(n + 1)'
      <4>1. f \in Elements(line["L"]) /\ f \in InfoFrame
        <5>1. f \in InfoFrame /\ line["L"] # <<>> /\ f = Head(line["L"])
          BY <1>1, <1>3, <1>T DEF InfoRead
        <5>2. line["L"] \in Seq(Frame)
          BY <1>0, EndFacts
        <5> QED  BY <5>1, <5>2, ElementFacts
      <4>2. Means("L", f.id, f.name)
        BY <1>T, <4>1 DEF MbInv, FramesOK, InfoFrame
      <4>3. b.name \in DownNames
        BY <1>T, <3>x DEF CanSend
      <4>4. ASSUME NEW y \in Blocks("L"), y.id = f.id
            PROVE  y.name \in DownNames
        BY <1>1, <4>2, <4>3, <4>4 DEF Means
      <4> QED  BY <3>1, <3>2, <3>5, <3>x, <4>4 DEF SourceFollowed
    <3>7. ASSUME Both, NEW j \in 1 .. n + 1 PROVE SourceFollowed(j)'
      <4>1. j \in 1 .. n \/ j = n + 1
        OBVIOUS
      <4> QED  BY <3>4, <3>6, <3>7, <4>1
    <3>8. ASSUME NEW p, DataFollowed(p) PROVE DataFollowed(p)'
      BY <2>1, <3>2, <3>8 DEF DataFollowed
    <3> QED  BY <1>1, <2>1, <3>1, <3>2, <3>7, <3>8 DEF DownOK
  <2> QED  BY <1>3, <2>2, <2>3 DEF SourceAdded
<1> QED  BY <1>2, <1>3 DEF End

LEMMA InitDown == Init => DownOK
<1> SUFFICES ASSUME Init PROVE DownOK
  OBVIOUS
<1>1. line["U"] = <<>> /\ ~open["L"]
  BY DEF Init, End
<1>2. Elements(<<>>) = {}
  BY DEF Elements
<1> QED  BY <1>1, <1>2 DEF DownOK, Both

LEMMA DownNext ==
    ASSUME MbInv, MbInv', StructOK, DownOK, [Next]_vars
    PROVE  DownOK'
<1>T. Types /\ Types' /\ "L" \in End /\ "U" \in End /\ "L" # "U"
  BY DEF MbInv, End
<1>1. ASSUME SendRemove PROVE DownOK'
  <2>1. PICK f : RemoveSent(f)
    BY <1>1, SendRemoveDoes
  <2>2. SameLinks /\ line'["U"] = line["U"]
    BY <2>1, SameLinksSame DEF RemoveSent, FrameSent
  <2> QED  BY <2>1, <2>2, DownStays DEF RemoveSent, cursors
<1>2. ASSUME NEW e \in End, SendInfo(e) PROVE DownOK'
  BY <1>2, SendInfoDoes, SendInfoDown
<1>3. ASSUME NEW e \in End, NEW i \in DOMAIN sbuf[e], SendData(e, i) PROVE DownOK'
  BY <1>3, SendDataDoes, SendDataDown
<1>4. ASSUME NEW e \in End, ReceiveInfo(e) PROVE DownOK'
  BY <1>4, ReadInfoDoes, ReadInfoDown
<1>5. ASSUME NEW e \in End, ReceiveData(e) \/ (e = "L" /\ IgnoreInfo) PROVE DownOK'
  BY <1>5, SkipDoes, SkipDown
<1>7. ASSUME ReceiveRemove PROVE DownOK'
  BY <1>7, RemoveDoes, RemoveDown
<1>8. ASSUME NEW n \in Names, AddMblk(n) PROVE DownOK'
  BY <1>8, AddDoes, AddDown
<1>9. ASSUME NEW id, DeviceDropped(id) PROVE DownOK'
  BY <1>9, <1>T, DropDoes, DropDown
<1>10. ASSUME NEW e \in End, NEW i \in DOMAIN sbuf[e], Send(e, i) PROVE DownOK'
  <2>1. SameLinks
    BY <1>T, <1>10, FlagDoes DEF Send
  <2> QED  BY <1>10, <2>1, DownStays DEF Send, cursors
<1>11. ASSUME Connect PROVE DownOK'
  BY <1>11, ConnectDoes, ConnectDown
<1>12. ASSUME NEW e \in End, Close(e) PROVE DownOK'
  BY <1>12, CloseDoes, CloseDown
<1>13. ASSUME UNCHANGED vars PROVE DownOK'
  <2>1. SameLinks
    BY <1>13, SameLinksSame DEF vars
  <2> QED  BY <1>13, <2>1, DownStays DEF vars
<1> QED  BY <1>1, <1>2, <1>3, <1>4, <1>5, <1>7, <1>8, <1>9, <1>10, <1>11, <1>12, <1>13, <1>T
         DEF Next, Work

----------------------------------------------------------------------------
(* Data for the upper end.  The buffers of the lower end are tied to ids of *)
(* the upper one.  When a device goes, requests to remove these ids follow: *)
(* nothing else may be tied to them, and data is sent before them or never. *)
(* A device that comes back too early would be tied to the old block, which *)
(* is why devices are patient here.                                        *)

\* The ids that requests on the way ask to remove; no data frame comes
\* behind a request to remove its target.
AskedOn(s) == {u \in Nat : \E i \in 1 .. Len(s) : s[i].t = "remove" /\ u \in Elements(s[i].ids)}
DataFirst(s) ==
    \A p \in 1 .. Len(s) : \A q \in 1 .. p - 1 :
        s[p].t = "data" /\ s[q].t = "remove" => s[p].id \notin Elements(s[q].ids)

LEMMA FrameIds ==
    ASSUME NEW f \in Frame
    PROVE  /\ f.t \in {"info", "data", "remove"}
           /\ f.t = "info" => f \in InfoFrame /\ f.id \in Nat /\ f.name \in Names
           /\ f.t = "data" => f \in DataFrame /\ f.id \in Nat
           /\ f.t = "remove" => f \in RemoveFrame /\ Elements(f.ids) \subseteq Nat
<1>1. ASSUME f \in RemoveFrame PROVE Elements(f.ids) \subseteq Nat
  <2>1. f.ids \in Seq(Nat)
    BY <1>1 DEF RemoveFrame, Request
  <2> QED  BY <2>1, ElementFacts
<1> QED  BY <1>1 DEF Frame, InfoFrame, DataFrame, RemoveFrame

LEMMA AskedOnAppend ==
    ASSUME NEW s \in Seq(Frame), NEW f \in Frame
    PROVE  AskedOn(Append(s, f)) = AskedOn(s) \union (IF f.t = "remove" THEN Elements(f.ids) ELSE {})
<1>n. PICK n \in Nat : n = Len(s)
  OBVIOUS
<1>r. PICK r : r = Append(s, f)
  OBVIOUS
<1>1. Len(r) = n + 1 /\ r[n + 1] = f /\ \A i \in 1 .. n : r[i] = s[i]
  BY <1>n, <1>r
<1>2. ASSUME NEW u \in AskedOn(r)
      PROVE  u \in AskedOn(s) \/ (f.t = "remove" /\ u \in Elements(f.ids))
  <2>1. PICK i \in 1 .. n + 1 : r[i].t = "remove" /\ u \in Elements(r[i].ids)
    BY <1>1 DEF AskedOn
  <2>2. i = n + 1 \/ i \in 1 .. n
    OBVIOUS
  <2>3. u \in Nat
    BY DEF AskedOn
  <2> QED  BY <1>1, <1>n, <2>1, <2>2, <2>3 DEF AskedOn
<1>3. ASSUME NEW u \in AskedOn(s) PROVE u \in AskedOn(r)
  <2>1. PICK i \in 1 .. n : s[i].t = "remove" /\ u \in Elements(s[i].ids)
    BY <1>n DEF AskedOn
  <2>2. i \in 1 .. n + 1 /\ u \in Nat
    BY DEF AskedOn
  <2> QED  BY <1>1, <2>1, <2>2 DEF AskedOn
<1>4. ASSUME f.t = "remove", NEW u \in Elements(f.ids) PROVE u \in AskedOn(r)
  <2>1. n + 1 \in 1 .. n + 1 /\ u \in Nat
    BY <1>4, FrameIds
  <2> QED  BY <1>1, <1>4, <2>1 DEF AskedOn
<1> QED  BY <1>2, <1>3, <1>4, <1>r

LEMMA AskedOnTail ==
    ASSUME NEW s \in Seq(Frame), s # <<>>
    PROVE  AskedOn(s) = AskedOn(Tail(s))
                          \union (IF Head(s).t = "remove" THEN Elements(Head(s).ids) ELSE {})
<1>n. PICK n \in Nat : n = Len(s)
  OBVIOUS
<1>r. PICK r : r = Tail(s)
  OBVIOUS
<1>f. PICK f : f = Head(s)
  OBVIOUS
<1>1. n # 0 /\ Len(r) = n - 1 /\ f = s[1] /\ \A i \in 1 .. n - 1 : r[i] = s[i + 1]
  BY <1>n, <1>r, <1>f
<1>2. f \in Frame
  BY <1>f
<1>3. ASSUME NEW u \in AskedOn(s)
      PROVE  u \in AskedOn(r) \/ (f.t = "remove" /\ u \in Elements(f.ids))
  <2>1. PICK i \in 1 .. n : s[i].t = "remove" /\ u \in Elements(s[i].ids)
    BY <1>n DEF AskedOn
  <2>2. u \in Nat
    BY DEF AskedOn
  <2>3. CASE i = 1
    BY <1>1, <2>1, <2>3
  <2>4. CASE i # 1
    <3>1. PICK j \in 1 .. n - 1 : i = j + 1
      <4>1. i - 1 \in 1 .. n - 1 /\ i = (i - 1) + 1
        BY <2>4
      <4> QED  BY <4>1
    <3>2. r[j] = s[i]
      BY <1>1, <3>1
    <3> QED  BY <1>1, <2>1, <2>2, <3>2 DEF AskedOn
  <2> QED  BY <2>3, <2>4
<1>4. ASSUME NEW u \in AskedOn(r) PROVE u \in AskedOn(s)
  <2>1. PICK i \in 1 .. n - 1 : r[i].t = "remove" /\ u \in Elements(r[i].ids)
    BY <1>1 DEF AskedOn
  <2>j. PICK j \in 1 .. n : j = i + 1
    OBVIOUS
  <2>2. s[j] = r[i] /\ u \in Nat
    BY <1>1, <2>j DEF AskedOn
  <2> QED  BY <1>n, <2>1, <2>2 DEF AskedOn
<1>5. ASSUME f.t = "remove", NEW u \in Elements(f.ids) PROVE u \in AskedOn(s)
  <2>1. 1 \in 1 .. n /\ u \in Nat
    BY <1>1, <1>2, <1>5, FrameIds
  <2> QED  BY <1>1, <1>n, <1>5, <2>1 DEF AskedOn
<1> QED  BY <1>3, <1>4, <1>5, <1>r, <1>f

LEMMA DataFirstAppend ==
    ASSUME NEW s \in Seq(Frame), NEW f \in Frame, DataFirst(s),
           f.t = "data" => f.id \notin AskedOn(s)
    PROVE  DataFirst(Append(s, f))
<1>n. PICK n \in Nat : n = Len(s)
  OBVIOUS
<1>r. PICK r : r = Append(s, f)
  OBVIOUS
<1>1. Len(r) = n + 1 /\ r[n + 1] = f /\ \A i \in 1 .. n : r[i] = s[i]
  BY <1>n, <1>r
<1>2. ASSUME NEW p \in 1 .. n + 1, NEW q \in 1 .. p - 1, r[p].t = "data", r[q].t = "remove"
      PROVE  r[p].id \notin Elements(r[q].ids)
  <2>1. q \in 1 .. n /\ r[q] = s[q]
    BY <1>1
  <2>2. CASE p = n + 1
    <3>1. r[p] = f /\ f.t = "data" /\ f.id \in Nat
      BY <1>1, <1>2, <2>2, FrameIds
    <3>2. f.id \notin AskedOn(s)
      BY <3>1
    <3> QED  BY <1>2, <1>n, <2>1, <3>1, <3>2 DEF AskedOn
  <2>3. CASE p # n + 1
    <3>1. p \in 1 .. n /\ r[p] = s[p]
      BY <1>1, <2>3
    <3> QED  BY <1>2, <1>n, <2>1, <3>1 DEF DataFirst
  <2> QED  BY <2>2, <2>3
<1> QED  BY <1>1, <1>2, <1>r DEF DataFirst

LEMMA DataFirstTail ==
    ASSUME NEW s \in Seq(Frame), s # <<>>, DataFirst(s)
    PROVE  /\ DataFirst(Tail(s))
           /\ Head(s).t = "remove" =>
                \A g \in Elements(Tail(s)) : g.t = "data" => g.id \notin Elements(Head(s).ids)
<1>n. PICK n \in Nat : n = Len(s)
  OBVIOUS
<1>r. PICK r : r = Tail(s)
  OBVIOUS
<1>f. PICK f : f = Head(s)
  OBVIOUS
<1>1. n # 0 /\ Len(r) = n - 1 /\ f = s[1] /\ \A i \in 1 .. n - 1 : r[i] = s[i + 1]
  BY <1>n, <1>r, <1>f
<1>2. ASSUME NEW p \in 1 .. n - 1, NEW q \in 1 .. p - 1, r[p].t = "data", r[q].t = "remove"
      PROVE  r[p].id \notin Elements(r[q].ids)
  <2>a. PICK a \in 1 .. n : a = p + 1
    OBVIOUS
  <2>b. PICK b \in 1 .. a - 1 : b = q + 1
    BY <2>a
  <2>1. r[p] = s[a] /\ r[q] = s[b]
    BY <1>1, <2>a, <2>b
  <2> QED  BY <1>2, <1>n, <2>1 DEF DataFirst
<1>3. ASSUME f.t = "remove", NEW g \in Elements(r), g.t = "data"
      PROVE  g.id \notin Elements(f.ids)
  <2>1. PICK i \in 1 .. n - 1 : g = r[i]
    BY <1>1 DEF Elements
  <2>a. PICK a \in 1 .. n : a = i + 1
    OBVIOUS
  <2>2. s[a] = g /\ 1 \in 1 .. a - 1
    BY <1>1, <2>1, <2>a
  <2> QED  BY <1>1, <1>3, <1>n, <2>2 DEF DataFirst
<1> QED  BY <1>1, <1>2, <1>3, <1>r, <1>f DEF DataFirst

\* The ids of the upper end that are to be removed.
Pending == Asked(reqs) \union AskedOn(line["L"])

\* Data on the way to the upper end has its target buffer there, and no
\* request that is ahead of it takes the buffer away.
DataOK ==
    open["U"] => /\ DataFirst(line["L"])
                 /\ \A f \in Elements(line["L"]) : f.t = "data" => f.id \in Ids(tbuf["U"])

\* What the lower end is tied to, or reads that it may be tied to, is there
\* and is not to be removed; what is to be removed has no namesake left.
TiesOK ==
    /\ \A l \in Elements(sbuf["L"]) : l.rid \in Ids(tbuf["U"])
    /\ \A l \in Links("L") : l.rid \in Bufs("U") /\ l.rid \notin Pending
OffersOK ==
    \A f \in Elements(line["U"]) : f.t = "info" /\ Named("L", f.name) =>
        f.id \in Bufs("U") /\ f.id \notin Pending
GoingOK ==
    \A b \in Blocks("U") : b.id \in Pending => b.id \in Bufs("U") /\ ~Named("L", b.name)

UpOK ==
    /\ \A u \in Pending : u <= lastId["U"]
    /\ DataOK
    /\ Both => TiesOK /\ OffersOK /\ GoingOK

\* The target buffers of the upper end do not get fewer and the line to it is
\* left alone, or a frame that is no request is taken from it.
LEMMA DataStays ==
    ASSUME Types, DataOK, open'["U"] = open["U"], Ids(tbuf["U"]) \subseteq Ids(tbuf'["U"]),
           \/ line'["L"] = line["L"]
           \/ line["L"] # <<>> /\ Head(line["L"]).t # "remove" /\ line'["L"] = Tail(line["L"])
    PROVE  DataOK' /\ AskedOn(line'["L"]) = AskedOn(line["L"])
<1>s. PICK s \in Seq(Frame) : s = line["L"]
  BY EndFacts
<1>r. PICK r : r = Tail(s)
  OBVIOUS
<1>1. CASE line'["L"] = line["L"]
  BY <1>1 DEF DataOK
<1>2. CASE s # <<>> /\ Head(s).t # "remove" /\ line'["L"] = r
  <2>1. AskedOn(s) = AskedOn(r)
    BY <1>2, <1>r, AskedOnTail
  <2>2. DataFirst(s) => DataFirst(r)
    BY <1>2, <1>r, DataFirstTail
  <2>3. \A g \in Elements(r) : g \in Elements(s)
    BY <1>2, <1>r, ElementFacts
  <2> QED  BY <1>2, <1>s, <2>1, <2>2, <2>3 DEF DataOK
<1> QED  BY <1>1, <1>2, <1>s, <1>r

\* What the upper end must know when a device comes, and the lower end when
\* one goes: see MCMbInfo.
ForgottenFacts(n) ==
    /\ \A b \in Blocks("U") : b.id \in Bufs("U") => b.name # n
    /\ \A f \in Elements(line["U"]) : f.t = "info" => f.name # n

LEMMA NameFacts ==
    ASSUME MbInv, NEW e \in End, NEW b \in Blocks(e)
    PROVE  /\ NameOf(e, b.id) = b.name
           /\ \A c \in Blocks(e) : c.id = b.id => c = b
<1>T. mblk[e] \in Seq(BlockType) /\ Range(mblk[e]) = Blocks(e)
  BY ElementFacts DEF MbInv, Types, Blocks
<1>1. \A c \in Blocks(e) : c.id = b.id => c = b
  BY <1>T, DistinctElements DEF Blocks, MbInv, BlocksOK
<1>c. PICK c : c = CHOOSE x \in Range(mblk[e]) : x.id = b.id
  OBVIOUS
<1>2. c \in Blocks(e) /\ c.id = b.id
  BY <1>T, <1>c
<1>3. NameOf(e, b.id) = c.name
  BY <1>c DEF NameOf
<1> QED  BY <1>1, <1>2, <1>3

LEMMA ForgottenMeans ==
    ASSUME MbInv, NEW n, Forgotten(n)
    PROVE  ForgottenFacts(n)
<1>0. Types /\ "U" \in End /\ line["U"] \in Seq(Frame)
  BY EndFacts DEF MbInv
<1>1. ASSUME NEW b \in Blocks("U"), b.id \in Bufs("U")
      PROVE  b.name # n
  BY <1>0, <1>1, NameFacts DEF Forgotten, Bufs
<1>2. Range(line["U"]) = Elements(line["U"])
  BY <1>0, ElementFacts
<1> QED  BY <1>1, <1>2 DEF Forgotten, ForgottenFacts

\* The id of a buffer at the upper end, and the block it belongs to.
LEMMA BufOwner ==
    ASSUME MbInv, NEW e \in End, NEW u \in Bufs(e)
    PROVE  \E b \in Blocks(e) : b.id = u
<1>1. PICK l \in Links(e) : l.id = u
  BY LinkFacts DEF MbInv
<1> QED  BY <1>1, Owners

\* The frames on a line after one was sent.
LEMMA LineGrows ==
    ASSUME NEW s \in Seq(Frame), NEW f \in Frame, NEW r, r = s \/ r = Append(s, f)
    PROVE  r \in Seq(Frame) /\ \A g \in Elements(r) : g \in Elements(s) \/ g = f
<1>1. Append(s, f) \in Seq(Frame) /\ Elements(Append(s, f)) = Elements(s) \union {f}
  BY ElementFacts
<1> QED  BY <1>1

\* Nothing but frames and flags changes.
LEMMA UpStays ==
    ASSUME MbInv, Types', UpOK, SameLinks, mblk' = mblk, lastId' = lastId, open' = open,
           Pending' \subseteq Pending, DataOK',
           Both => \A f \in Elements(line'["U"]) : f.t = "info" /\ Named("L", f.name) =>
               \/ f \in Elements(line["U"])
               \/ f.id \in Bufs("U") /\ f.id \notin Pending
    PROVE  UpOK'
<1>0. "L" \in End /\ "U" \in End
  BY DEF End
<1>1. /\ \A e \in End : Bufs(e)' = Bufs(e) /\ Blocks(e)' = Blocks(e)
      /\ tbuf' = tbuf /\ Both' = Both
  BY SameLinksFacts DEF SameLinks, Blocks, Both
<1>2. \A n : Named("L", n)' <=> Named("L", n)
  BY <1>0, <1>1 DEF Named
<1>3. /\ \A l \in Elements(sbuf'["L"]) : \E k \in Elements(sbuf["L"]) : k.id = l.id /\ k.rid = l.rid
      /\ \A l \in Links("L")' : \E k \in Links("L") : k.id = l.id /\ k.rid = l.rid
  BY <1>0, SameLinksFacts
<1>4. \A u \in Pending' : u <= lastId'["U"]
  BY DEF UpOK
<1>5. Both => TiesOK'
  BY <1>0, <1>1, <1>3 DEF UpOK, TiesOK
<1>6. Both => OffersOK'
  BY <1>0, <1>1, <1>2 DEF UpOK, OffersOK
<1>7. Both => GoingOK'
  BY <1>0, <1>1, <1>2 DEF UpOK, GoingOK
<1> QED  BY <1>1, <1>4, <1>5, <1>6, <1>7 DEF UpOK

LEMMA SendRemoveUp ==
    ASSUME MbInv, Types', UpOK, NEW f, RemoveSent(f)
    PROVE  UpOK'
<1>0. Types /\ reqs \in Seq(Request) /\ line["L"] \in Seq(Frame)
  BY EndFacts DEF MbInv
<1>1. /\ FrameSent("L", "U", f) /\ f \in RemoveFrame
      /\ reqs # <<>> /\ f.ids = reqs[1] /\ reqs' = Tail(reqs)
      /\ UNCHANGED <<mblk, lastId, sbuf, tbuf, open>>
  BY DEF RemoveSent
<1>2. f \in Frame /\ f.t = "remove"
  BY <1>1 DEF Frame, RemoveFrame
<1>3. Asked(reqs) = Asked(reqs') \union Elements(f.ids)
  BY <1>0, <1>1, AskedFacts
<1>4. AskedOn(line'["L"]) \subseteq AskedOn(line["L"]) \union Elements(f.ids)
  BY <1>0, <1>1, <1>2, AskedOnAppend DEF FrameSent
<1>5. Pending' \subseteq Pending
  BY <1>3, <1>4 DEF Pending
<1>6. DataOK'
  <2>1. CASE open["U"]
    <3>1. line'["L"] = Append(line["L"], f)
      BY <1>1, <2>1 DEF FrameSent
    <3>2. DataFirst(line["L"]) => DataFirst(line'["L"])
      BY <1>0, <1>2, <3>1, DataFirstAppend
    <3>3. \A g \in Elements(line'["L"]) : g \in Elements(line["L"]) \/ g = f
      BY <1>0, <1>2, <3>1, ElementFacts
    <3> QED  BY <1>1, <1>2, <2>1, <3>2, <3>3 DEF UpOK, DataOK
  <2>2. CASE ~open["U"]
    BY <1>1, <2>2 DEF DataOK
  <2> QED  BY <2>1, <2>2
<1>7. SameLinks /\ line'["U"] = line["U"]
  BY <1>1, SameLinksSame DEF FrameSent
<1> QED  BY <1>1, <1>5, <1>6, <1>7, UpStays

LEMMA SkipUp ==
    ASSUME MbInv, Types', UpOK, NEW e \in End, NEW o, NEW f, Skipped(e, o, f)
    PROVE  UpOK'
<1>T. /\ "L" \in End /\ "U" \in End /\ "L" # "U" /\ Other("L") = "U" /\ Other("U") = "L"
      /\ Types /\ line["U"] \in Seq(Frame)
  BY EndFacts DEF MbInv
<1>1. /\ UNCHANGED <<mblk, lastId, sbuf, tbuf, reqs, open>> /\ o = Other(e)
      /\ line[o] # <<>> /\ f = Head(line[o]) /\ f.t # "remove"
      /\ line'[o] = Tail(line[o]) /\ line'[e] = line[e]
  BY DEF Skipped
<1>2. \/ line'["L"] = line["L"]
      \/ line["L"] # <<>> /\ Head(line["L"]).t # "remove" /\ line'["L"] = Tail(line["L"])
  BY <1>1, <1>T DEF End
<1>3. DataOK' /\ AskedOn(line'["L"]) = AskedOn(line["L"])
  BY <1>1, <1>2, <1>T, DataStays DEF UpOK
<1>4. Pending' \subseteq Pending
  BY <1>1, <1>3 DEF Pending
<1>5. \A g \in Elements(line'["U"]) : g \in Elements(line["U"])
  <2>1. line'["U"] = line["U"] \/ (line["U"] # <<>> /\ line'["U"] = Tail(line["U"]))
    BY <1>1, <1>T DEF End
  <2> QED  BY <1>T, <2>1, ElementFacts
<1>6. SameLinks
  BY <1>1, SameLinksSame
<1> QED  BY <1>1, <1>3, <1>4, <1>5, <1>6, UpStays

LEMMA SendInfoUp ==
    ASSUME MbInv, Types', UpOK, NEW e \in End, NEW o, NEW f, NEW b, InfoSent(e, o, f, b)
    PROVE  UpOK'
<1>T. /\ "L" \in End /\ "U" \in End /\ "L" # "U" /\ Other("L") = "U" /\ Other("U") = "L"
      /\ Types /\ line["U"] \in Seq(Frame) /\ line["L"] \in Seq(Frame)
  BY EndFacts DEF MbInv
<1>1. /\ UNCHANGED <<mblk, lastId, sbuf, tbuf, reqs, open>> /\ FrameSent(e, o, f)
      /\ f \in InfoFrame /\ f.id = b.id /\ f.name = b.name /\ b \in Blocks(e)
      /\ e = "U" => b.id \in Bufs("U")
  BY DEF InfoSent
<1>2. f \in Frame /\ f.t = "info" /\ SameLinks
  BY <1>1, SameLinksSame DEF Frame, InfoFrame
<1>3. CASE e = "L"
  <2>1. /\ line'["U"] = line["U"]
        /\ line'["L"] = line["L"] \/ line'["L"] = Append(line["L"], f)
    BY <1>1, <1>3, <1>T DEF FrameSent
  <2>2. AskedOn(line'["L"]) = AskedOn(line["L"])
    BY <1>2, <1>T, <2>1, AskedOnAppend
  <2>3. DataFirst(line["L"]) => DataFirst(line'["L"])
    BY <1>2, <1>T, <2>1, DataFirstAppend
  <2>4. \A g \in Elements(line'["L"]) : g \in Elements(line["L"]) \/ g = f
    BY <1>2, <1>T, <2>1, LineGrows
  <2>5. DataOK'
    BY <1>1, <1>2, <2>3, <2>4 DEF UpOK, DataOK
  <2>6. Pending' \subseteq Pending
    BY <1>1, <2>2 DEF Pending
  <2> QED  BY <1>1, <1>2, <2>1, <2>5, <2>6, UpStays
<1>4. CASE e = "U"
  <2>1. /\ line'["L"] = line["L"]
        /\ line'["U"] = line["U"] \/ line'["U"] = Append(line["U"], f)
    BY <1>1, <1>4, <1>T DEF FrameSent
  <2>2. \A g \in Elements(line'["U"]) : g \in Elements(line["U"]) \/ g = f
    BY <1>2, <1>T, <2>1, LineGrows
  <2>3. DataOK'
    BY <1>1, <1>T, <2>1, DataStays DEF UpOK
  <2>4. Pending' = Pending
    BY <1>1, <2>1 DEF Pending
  <2>5. Both /\ Named("L", f.name) => f.id \in Bufs("U") /\ f.id \notin Pending
    BY <1>1, <1>4 DEF UpOK, GoingOK
  <2> QED  BY <1>1, <1>2, <2>2, <2>3, <2>4, <2>5, UpStays
<1> QED  BY <1>3, <1>4 DEF End

LEMMA SendDataUp ==
    ASSUME MbInv, Types', UpOK, NEW e \in End, NEW o, NEW f, NEW j, DataSent(e, o, f, j)
    PROVE  UpOK'
<1>T. /\ "L" \in End /\ "U" \in End /\ "L" # "U" /\ Other("L") = "U" /\ Other("U") = "L"
      /\ Types /\ line["U"] \in Seq(Frame) /\ line["L"] \in Seq(Frame)
  BY EndFacts DEF MbInv
<1>1. /\ UNCHANGED <<mblk, lastId, reqs, open>> /\ SameLinks /\ FrameSent(e, o, f)
      /\ f \in DataFrame /\ j \in 1 .. Len(sbuf[e]) /\ f.id = sbuf[e][j].rid
  BY DEF DataSent
<1>2. f \in Frame /\ f.t = "data" /\ tbuf' = tbuf
  BY <1>1 DEF Frame, DataFrame, SameLinks
<1>3. CASE e = "L"
  <2>1. /\ line'["U"] = line["U"] /\ open["L"]
        /\ open["U"] => line'["L"] = Append(line["L"], f)
        /\ ~open["U"] => line'["L"] = line["L"]
    BY <1>1, <1>3, <1>T DEF FrameSent
  <2>2. AskedOn(line'["L"]) = AskedOn(line["L"])
    BY <1>2, <1>T, <2>1, AskedOnAppend
  <2>3. Pending' \subseteq Pending
    BY <1>1, <2>2 DEF Pending
  <2>4. DataOK'
    <3>1. CASE open["U"]
      <4>1. \E l \in Elements(sbuf["L"]) : f.id = l.rid
        BY <1>1, <1>3 DEF Elements
      <4>2. f.id \in Ids(tbuf["U"]) /\ f.id \notin AskedOn(line["L"])
        BY <2>1, <3>1, <4>1 DEF UpOK, TiesOK, Both, Links, Pending
      <4>3. DataFirst(line["L"]) => DataFirst(line'["L"])
        BY <1>2, <1>T, <2>1, <3>1, <4>2, DataFirstAppend
      <4>4. \A g \in Elements(line'["L"]) : g \in Elements(line["L"]) \/ g = f
        BY <1>2, <1>T, <2>1, <3>1, LineGrows
      <4> QED  BY <1>2, <3>1, <4>2, <4>3, <4>4 DEF UpOK, DataOK
    <3>2. CASE ~open["U"]
      BY <1>1, <3>2 DEF DataOK
    <3> QED  BY <3>1, <3>2
  <2> QED  BY <1>1, <1>2, <2>1, <2>3, <2>4, UpStays
<1>4. CASE e = "U"
  <2>1. /\ line'["L"] = line["L"]
        /\ line'["U"] = line["U"] \/ line'["U"] = Append(line["U"], f)
    BY <1>1, <1>4, <1>T DEF FrameSent
  <2>2. \A g \in Elements(line'["U"]) : g \in Elements(line["U"]) \/ g = f
    BY <1>2, <1>T, <2>1, LineGrows
  <2>3. DataOK'
    BY <1>1, <1>2, <1>T, <2>1, DataStays DEF UpOK
  <2>4. Pending' = Pending
    BY <1>1, <2>1 DEF Pending
  <2> QED  BY <1>1, <1>2, <2>2, <2>3, <2>4, UpStays
<1> QED  BY <1>3, <1>4 DEF End

LEMMA AddUp ==
    ASSUME MbInv, UpOK, NEW n, NEW b \in BlockType, BlockAdded(n, b), ForgottenFacts(n)
    PROVE  UpOK'
<1>1. /\ b.name = n /\ Blocks("L")' = Blocks("L") \union {b} /\ Blocks("U")' = Blocks("U")
      /\ UNCHANGED <<sbuf, tbuf, reqs, line, open>> /\ lastId'["U"] = lastId["U"]
  BY DEF BlockAdded
<1>2. /\ Pending' = Pending /\ Both' = Both /\ Links("L")' = Links("L")
      /\ Bufs("U")' = Bufs("U") /\ DataOK' = DataOK
  BY <1>1 DEF Pending, Both, Links, Bufs, DataOK
<1>3. \A m : Named("L", m)' <=> Named("L", m) \/ m = n
  BY <1>1 DEF Named
<1>4. Both => TiesOK'
  BY <1>1, <1>2 DEF UpOK, TiesOK
<1>5. Both => OffersOK'
  BY <1>1, <1>2, <1>3 DEF UpOK, OffersOK, ForgottenFacts
<1>6. Both => GoingOK'
  BY <1>1, <1>2, <1>3 DEF UpOK, GoingOK, ForgottenFacts
<1> QED  BY <1>1, <1>2, <1>4, <1>5, <1>6 DEF UpOK

LEMMA ReadInfoUp ==
    ASSUME MbInv, StructOK, UpOK, NEW e \in End, NEW o, NEW f, NEW b, InfoRead(e, o, f, b)
    PROVE  UpOK'
<1>T. /\ "L" \in End /\ "U" \in End /\ "L" # "U" /\ Other("L") = "U" /\ Other("U") = "L"
      /\ Types /\ line["U"] \in Seq(Frame) /\ lastId["U"] \in Nat
  BY EndFacts DEF MbInv
<1>1. /\ o = Other(e) /\ line[o] # <<>> /\ f = Head(line[o]) /\ f \in InfoFrame
      /\ line'[o] = Tail(line[o]) /\ line'[e] = line[e]
      /\ b \in BlockType /\ b.name = f.name
      /\ sbuf'[o] = sbuf[o] /\ tbuf'[o] = tbuf[o] /\ reqs' = reqs /\ open' = open
  BY DEF InfoRead
<1>2. f.t = "info" /\ Both' = Both
  BY <1>1 DEF InfoFrame, Both
<1>3. CASE e = "L"
  <2>1. /\ o = "U" /\ mblk' = mblk /\ lastId' = lastId /\ b \in Blocks("L")
        /\ sbuf'["U"] = sbuf["U"] /\ tbuf'["U"] = tbuf["U"] /\ line'["L"] = line["L"]
    BY <1>1, <1>3, <1>T DEF InfoRead
  <2>2. /\ \A l \in Elements(sbuf'["L"]) :
              l \in Elements(sbuf["L"]) \/ (l.rid = f.id /\ CanSend("L", b.name))
        /\ \A l \in Elements(tbuf'["L"]) : l \in Elements(tbuf["L"]) \/ l.rid = f.id
    BY <1>3 DEF InfoRead
  <2>3. /\ \A c : Blocks(c)' = Blocks(c) /\ Bufs("U")' = Bufs("U") /\ Pending' = Pending
        /\ DataOK' = DataOK
    BY <1>1, <2>1 DEF Blocks, Bufs, Pending, DataOK
  <2>4. \A n : Named("L", n)' <=> Named("L", n)
    BY <2>3 DEF Named
  <2>5. f \in Elements(line["U"]) /\ \A g \in Elements(line'["U"]) : g \in Elements(line["U"])
    BY <1>1, <1>T, <2>1, ElementFacts
  <2>6. Both => f.id \in Bufs("U") /\ f.id \notin Pending
    <3>1. Named("L", f.name)
      BY <1>1, <2>1 DEF Named
    <3> QED  BY <1>2, <2>5, <3>1 DEF UpOK, OffersOK
  <2>7. Both /\ CanSend("L", b.name) => f.id \in Ids(tbuf["U"])
    <3> SUFFICES ASSUME Both, CanSend("L", b.name) PROVE f.id \in Ids(tbuf["U"])
      OBVIOUS
    <3>1. PICK x \in Blocks("U") : x.id = f.id
      BY <1>T, <2>6, BufOwner
    <3>2. x.name = f.name
      BY <1>2, <1>T, <2>5, <3>1 DEF MbInv, FramesOK, Means
    <3>3. x.name \in UpNames
      BY <1>1, <3>2 DEF CanSend
    <3> QED  BY <2>6, <3>1, <3>3 DEF StructOK, UpperOK
  <2>8. Both => TiesOK'
    BY <2>1, <2>2, <2>3, <2>6, <2>7 DEF UpOK, TiesOK, Links
  <2>9. Both => OffersOK'
    BY <2>3, <2>4, <2>5 DEF UpOK, OffersOK
  <2>10. Both => GoingOK'
    BY <2>3, <2>4 DEF UpOK, GoingOK
  <2> QED  BY <1>2, <2>1, <2>3, <2>8, <2>9, <2>10 DEF UpOK
<1>4. CASE e = "U"
  <2>1. /\ o = "L" /\ mblk'["L"] = mblk["L"] /\ line'["U"] = line["U"]
        /\ sbuf'["L"] = sbuf["L"] /\ tbuf'["L"] = tbuf["L"]
        /\ line["L"] # <<>> /\ Head(line["L"]).t # "remove" /\ line'["L"] = Tail(line["L"])
    BY <1>1, <1>2, <1>4, <1>T DEF InfoRead
  <2>2. Ids(tbuf["U"]) \subseteq Ids(tbuf'["U"]) /\ Ids(sbuf["U"]) \subseteq Ids(sbuf'["U"])
    BY <1>4 DEF InfoRead
  <2>3. DataOK' /\ AskedOn(line'["L"]) = AskedOn(line["L"])
    BY <1>1, <1>T, <2>1, <2>2, DataStays DEF UpOK
  <2>4. /\ Pending' = Pending /\ Bufs("U") \subseteq Bufs("U")'
        /\ Links("L")' = Links("L") /\ Blocks("L")' = Blocks("L")
    BY <1>1, <2>1, <2>2, <2>3 DEF Pending, Bufs, Links, Blocks
  <2>5. \A n : Named("L", n)' <=> Named("L", n)
    BY <2>4 DEF Named
  <2>6. \/ Blocks("U")' = Blocks("U") /\ lastId' = lastId
        \/ Blocks("U")' = Blocks("U") \union {b} /\ lastId'["U"] = b.id /\ b.id = lastId["U"] + 1
    BY <1>4 DEF InfoRead, Blocks
  <2>7. \A u \in Pending : u \in Nat /\ u <= lastId["U"]
    BY DEF UpOK, Pending, Asked, AskedOn
  <2>8. \A u \in Pending : u <= lastId'["U"] /\ u # lastId["U"] + 1
    BY <1>T, <2>6, <2>7
  <2>9. \A c \in Blocks("U")' : c \in Blocks("U") \/ c.id \notin Pending
    BY <2>6, <2>8
  <2>10. Both => TiesOK'
    BY <2>1, <2>2, <2>4 DEF UpOK, TiesOK
  <2>11. Both => OffersOK'
    BY <2>1, <2>4, <2>5 DEF UpOK, OffersOK
  <2>12. Both => GoingOK'
    BY <2>4, <2>5, <2>9 DEF UpOK, GoingOK
  <2> QED  BY <1>2, <2>3, <2>4, <2>8, <2>10, <2>11, <2>12 DEF UpOK
<1> QED  BY <1>3, <1>4 DEF End

\* Requests are for the namesake of the lost block, and for nothing that
\* another block is tied to.
LEMMA LostNamesake ==
    ASSUME MbInv, Both, UpOK, NEW l \in Links("L"), NEW y \in Blocks("U"), y.id = l.rid
    PROVE  \E x \in Blocks("L") : x.id = l.id /\ x.name = y.name
<1>0. "L" \in End /\ Other("L") = "U"
  BY DEF End, Other
<1>1. PICK x \in Blocks("L") : x.id = l.id /\ Means("U", l.rid, x.name)
  BY <1>0 DEF MbInv, LinksOK, LinkOK
<1> QED  BY <1>1 DEF Means

LEMMA DropUp ==
    ASSUME MbInv, StructOK, UpOK, NEW id, BlockDropped(id)
    PROVE  UpOK'
<1>T. /\ "L" \in End /\ "U" \in End /\ "L" # "U" /\ Other("L") = "U" /\ Other("U") = "L"
      /\ Types /\ line["U"] \in Seq(Frame)
  BY EndFacts DEF MbInv
<1>1. /\ Blocks("L")' = {b \in Blocks("L") : b.id # id} /\ Blocks("U")' = Blocks("U")
      /\ Elements(sbuf'["L"]) = {l \in Elements(sbuf["L"]) : l.id # id}
      /\ Elements(tbuf'["L"]) = {l \in Elements(tbuf["L"]) : l.id # id}
      /\ sbuf'["U"] = sbuf["U"] /\ tbuf'["U"] = tbuf["U"]
      /\ UNCHANGED <<lastId, line, open>>
  BY DEF BlockDropped
<1>r. PICK R : R = {l.rid : l \in {k \in Links("L") : k.id = id}}
  OBVIOUS
<1>2. Pending' = Pending \union R
  BY <1>1, <1>r DEF BlockDropped, Pending
<1>3. /\ Both' = Both /\ Bufs("U")' = Bufs("U") /\ DataOK' = DataOK
      /\ Links("L")' = {l \in Links("L") : l.id # id}
  BY <1>1 DEF Both, Bufs, DataOK, Links
<1>4. \A u \in R : \E l \in Links("L") : l.id = id /\ l.rid = u
  BY <1>r
<1>5. \A u \in Pending' : u <= lastId'["U"]
  <2>1. \A u \in R : u <= lastId["U"]
    BY <1>4, <1>T DEF MbInv, LinksOK, LinkOK, Means
  <2> QED  BY <1>1, <1>2, <2>1 DEF UpOK
<1>6. \A n : Named("L", n)' => Named("L", n) /\ \E x \in Blocks("L") : x.name = n /\ x.id # id
  BY <1>1 DEF Named
<1>7. ASSUME Both, NEW u \in R, NEW y \in Blocks("U"), y.id = u
      PROVE  ~Named("L", y.name)'
  <2>1. PICK l \in Links("L") : l.id = id /\ l.rid = u
    BY <1>4
  <2>2. PICK x \in Blocks("L") : x.id = id /\ x.name = y.name
    BY <1>7, <2>1, LostNamesake
  <2>3. \A z \in Blocks("L") : z.name = y.name => z = x
    BY <2>2 DEF StructOK, LowerOK
  <2> QED  BY <1>6, <2>2, <2>3
<1>8. Both => TiesOK'
  <2> SUFFICES ASSUME Both PROVE TiesOK'
    OBVIOUS
  <2>1. ASSUME NEW l \in Links("L"), l.id # id
        PROVE  l.rid \in Bufs("U") /\ l.rid \notin Pending'
    <3>1. l.rid \in Bufs("U") /\ l.rid \notin Pending
      BY DEF UpOK, TiesOK
    <3>2. PICK y \in Blocks("U") : y.id = l.rid
      BY <1>T, <3>1, BufOwner
    <3>3. PICK x \in Blocks("L") : x.id = l.id /\ x.name = y.name
      BY <3>2, LostNamesake
    <3>4. Named("L", y.name)'
      BY <1>1, <2>1, <3>3 DEF Named
    <3> QED  BY <1>2, <1>7, <3>1, <3>2, <3>4
  <2> QED  BY <1>1, <1>3, <2>1 DEF UpOK, TiesOK
<1>9. Both => OffersOK'
  <2> SUFFICES ASSUME Both PROVE OffersOK'
    OBVIOUS
  <2>1. ASSUME NEW f \in Elements(line["U"]), f.t = "info", Named("L", f.name)'
        PROVE  f.id \in Bufs("U") /\ f.id \notin Pending'
    <3>1. f.id \in Bufs("U") /\ f.id \notin Pending
      BY <1>6, <2>1 DEF UpOK, OffersOK
    <3>2. PICK y \in Blocks("U") : y.id = f.id
      BY <1>T, <3>1, BufOwner
    <3>3. y.name = f.name
      BY <1>T, <2>1, <3>2 DEF MbInv, FramesOK, Means
    <3> QED  BY <1>2, <1>7, <2>1, <3>1, <3>2, <3>3
  <2> QED  BY <1>1, <1>3, <2>1 DEF OffersOK
<1>10. Both => GoingOK'
  <2> SUFFICES ASSUME Both PROVE GoingOK'
    OBVIOUS
  <2>1. ASSUME NEW b \in Blocks("U"), b.id \in R
        PROVE  b.id \in Bufs("U") /\ ~Named("L", b.name)'
    BY <1>4, <1>7, <2>1 DEF UpOK, TiesOK
  <2> QED  BY <1>1, <1>2, <1>3, <1>6, <2>1 DEF UpOK, GoingOK
<1> QED  BY <1>3, <1>5, <1>8, <1>9, <1>10 DEF UpOK

LEMMA RemoveUp ==
    ASSUME MbInv, UpOK, NEW f, NEW gone, RemoveRead(f, gone)
    PROVE  UpOK'
<1>s. PICK s \in Seq(Frame) : s = line["L"]
  BY EndFacts DEF MbInv
<1>1. /\ s # <<>> /\ f = Head(s) /\ f.t = "remove"
      /\ gone = Elements(f.ids) \intersect Bufs("U")
      /\ line'["L"] = Tail(s) /\ line'["U"] = line["U"]
      /\ mblk'["L"] = mblk["L"] /\ Blocks("U")' = {b \in Blocks("U") : b.id \notin gone}
      /\ Ids(sbuf'["U"]) = Ids(sbuf["U"]) \ gone /\ Ids(tbuf'["U"]) = Ids(tbuf["U"]) \ gone
      /\ sbuf'["L"] = sbuf["L"] /\ tbuf'["L"] = tbuf["L"]
      /\ open["U"] /\ UNCHANGED <<lastId, current, reqs, open>>
  BY <1>s DEF RemoveRead, RemoveFrame
<1>2. Pending' \subseteq Pending /\ Elements(f.ids) \subseteq Pending
  BY <1>1, <1>s, AskedOnTail DEF Pending
<1>3. /\ Both' = Both /\ Links("L")' = Links("L") /\ Bufs("U")' = Bufs("U") \ gone
      /\ gone \subseteq Pending
  BY <1>1, <1>2 DEF Both, Links, Bufs
<1>4. \A n : Named("L", n)' <=> Named("L", n)
  BY <1>1 DEF Named, Blocks
<1>5. DataOK'
  <2>1. DataFirst(s) /\ \A g \in Elements(s) : g.t = "data" => g.id \in Ids(tbuf["U"])
    BY <1>1, <1>s DEF UpOK, DataOK
  <2>2. /\ DataFirst(Tail(s))
        /\ \A g \in Elements(Tail(s)) : g.t = "data" => g.id \notin Elements(f.ids)
    BY <1>1, <2>1, DataFirstTail
  <2>3. \A g \in Elements(Tail(s)) : g \in Elements(s)
    BY <1>1, ElementFacts
  <2> QED  BY <1>1, <2>1, <2>2, <2>3 DEF DataOK
<1>6. Both => TiesOK'
  <2>1. \A l \in Elements(sbuf["L"]) : l \in Links("L")
    BY DEF Links
  <2> QED  BY <1>1, <1>2, <1>3, <2>1 DEF UpOK, TiesOK
<1>7. Both => OffersOK'
  BY <1>1, <1>2, <1>3, <1>4 DEF UpOK, OffersOK
<1>8. Both => GoingOK'
  BY <1>1, <1>2, <1>3, <1>4 DEF UpOK, GoingOK
<1> QED  BY <1>1, <1>2, <1>3, <1>5, <1>6, <1>7, <1>8 DEF UpOK

LEMMA CloseUp ==
    ASSUME MbInv, UpOK, NEW e \in End, NEW o, Closed(e, o)
    PROVE  UpOK'
<1>T. "L" \in End /\ "U" \in End /\ "L" # "U" /\ Other("L") = "U" /\ Other("U") = "L"
  BY EndFacts DEF MbInv
<1>1. /\ o = Other(e) /\ ~open'[e] /\ open'[o] = open[o] /\ lastId' = lastId
      /\ line'[o] = <<>> /\ line'[e] = line[e]
  BY DEF Closed
<1>2. ~Both'
  BY <1>1 DEF Both, End
<1>3. Asked(<<>>) = {} /\ AskedOn(<<>>) = {}
  BY DEF Asked, AskedOn
<1>4. CASE e = "L"
  <2>1. reqs' = <<>> /\ line'["L"] = line["L"] /\ tbuf'["U"] = tbuf["U"] /\ open'["U"] = open["U"]
    BY <1>1, <1>4, <1>T DEF Closed
  <2>2. Pending' \subseteq Pending /\ DataOK' = DataOK
    BY <1>3, <2>1 DEF Pending, DataOK
  <2> QED  BY <1>1, <1>2, <2>2 DEF UpOK
<1>5. CASE e = "U"
  <2>1. reqs' = reqs /\ line'["L"] = <<>> /\ ~open'["U"]
    BY <1>1, <1>5, <1>T DEF Closed
  <2>2. Pending' \subseteq Pending /\ DataOK'
    BY <1>3, <2>1 DEF Pending, DataOK
  <2> QED  BY <1>1, <1>2, <2>2 DEF UpOK
<1> QED  BY <1>4, <1>5 DEF End

\* Nothing is tied or asked when the line is empty.
LEMMA FreshUp ==
    ASSUME StructOK, ~open["L"], line'["L"] = <<>>, line'["U"] = <<>>,
           UNCHANGED <<mblk, lastId, sbuf, tbuf, reqs>>
    PROVE  UpOK'
<1>1. Links("L")' = {} /\ Asked(reqs') = {}
  BY DEF StructOK, LowerOK, Links
<1>2. AskedOn(<<>>) = {} /\ Elements(<<>>) = {} /\ DataFirst(<<>>)
  BY DEF AskedOn, Elements, DataFirst
<1>3. Pending' = {} /\ Elements(sbuf'["L"]) = {}
  BY <1>1, <1>2 DEF Pending, Links
<1> QED  BY <1>1, <1>2, <1>3 DEF UpOK, DataOK, TiesOK, OffersOK, GoingOK

LEMMA InitUp == Init => UpOK
<1> SUFFICES ASSUME Init PROVE UpOK
  OBVIOUS
<1>1. ~Both /\ ~open["U"] /\ reqs = <<>> /\ line["L"] = <<>>
  BY DEF Init, End, Both
<1>2. Asked(<<>>) = {} /\ AskedOn(<<>>) = {}
  BY DEF Asked, AskedOn
<1> QED  BY <1>1, <1>2 DEF UpOK, Pending, DataOK

----------------------------------------------------------------------------
(* Removal at the upper end.  A dynamic block there has a namesake at the  *)
(* lower end or is asked to be removed: no info about a device may be on the *)
(* way, or still to be sent, when its answer has come.                     *)

\* The steps of patient devices.
PatientNext ==
    \/ Work
    \/ \E n \in Names : Forgotten(n) /\ AddMblk(n)
    \/ \E id \in Ids(mblk["L"]) : Answered(id) /\ DeviceDropped(id)
    \/ \E e \in End : \E i \in DOMAIN sbuf[e] : Send(e, i)
    \/ Connect
    \/ \E e \in End : Close(e)
    \/ UNCHANGED vars

LEMMA SameUp ==
    ASSUME MbInv, Types', UpOK, SameLinks, mblk' = mblk, lastId' = lastId, open' = open,
           reqs' = reqs, line' = line
    PROVE  UpOK'
<1>1. Pending' = Pending
  BY DEF Pending
<1>2. DataOK'
  BY DEF UpOK, DataOK, SameLinks
<1>3. line'["U"] = line["U"]
  OBVIOUS
<1> QED  BY <1>1, <1>2, <1>3, UpStays

LEMMA UpNext ==
    ASSUME MbInv, MbInv', StructOK, UpOK, PatientNext
    PROVE  UpOK'
<1>T. Types /\ Types' /\ "L" \in End /\ "U" \in End /\ "L" # "U"
  BY DEF MbInv, End
<1>1. ASSUME SendRemove PROVE UpOK'
  BY <1>1, <1>T, SendRemoveDoes, SendRemoveUp
<1>2. ASSUME NEW e \in End, SendInfo(e) PROVE UpOK'
  BY <1>2, <1>T, SendInfoDoes, SendInfoUp
<1>3. ASSUME NEW e \in End, NEW i \in DOMAIN sbuf[e], SendData(e, i) PROVE UpOK'
  BY <1>3, <1>T, SendDataDoes, SendDataUp
<1>4. ASSUME NEW e \in End, ReceiveInfo(e) PROVE UpOK'
  BY <1>4, ReadInfoDoes, ReadInfoUp
<1>5. ASSUME NEW e \in End, ReceiveData(e) \/ (e = "L" /\ IgnoreInfo) PROVE UpOK'
  BY <1>5, <1>T, SkipDoes, SkipUp
<1>6. ASSUME ReceiveRemove PROVE UpOK'
  BY <1>6, RemoveDoes, RemoveUp
<1>7. ASSUME NEW n \in Names, Forgotten(n), AddMblk(n) PROVE UpOK'
  BY <1>7, AddDoes, AddUp, ForgottenMeans
<1>8. ASSUME NEW id, DeviceDropped(id) PROVE UpOK'
  BY <1>8, DropDoes, DropUp
<1>9. ASSUME NEW e \in End, NEW i \in DOMAIN sbuf[e], Send(e, i) PROVE UpOK'
  <2>1. SameLinks
    BY <1>T, <1>9, FlagDoes DEF Send
  <2> QED  BY <1>9, <1>T, <2>1, SameUp DEF Send, cursors
<1>10. ASSUME Connect PROVE UpOK'
  BY <1>10, ConnectDoes, FreshUp DEF Connected
<1>11. ASSUME NEW e \in End, Close(e) PROVE UpOK'
  BY <1>11, CloseDoes, CloseUp
<1>12. ASSUME UNCHANGED vars PROVE UpOK'
  <2>1. SameLinks
    BY <1>12, SameLinksSame DEF vars
  <2> QED  BY <1>12, <1>T, <2>1, SameUp DEF vars
<1> QED  BY <1>1, <1>2, <1>3, <1>4, <1>5, <1>6, <1>7, <1>8, <1>9, <1>10, <1>11, <1>12, <1>T
         DEF PatientNext, Work

\* Data that the lower end reads.
LowerFindsTarget ==
    Incoming("L", "data") =>
        LET id == Head(line["U"]).id
        IN  id \in Ids(tbuf["L"]) \/ id \notin Ids(mblk["L"])

LEMMA LowerData ==
    ASSUME MbInv, DownOK
    PROVE  LowerFindsTarget
<1>T. /\ "L" \in End /\ Other("L") = "U" /\ line["U"] \in Seq(Frame) /\ mblk["L"] \in Seq(BlockType)
  BY EndFacts DEF MbInv
<1>s. PICK s \in Seq(Frame) : s = line["U"]
  BY <1>T
<1>1. ASSUME Incoming("L", "data"), Head(s).id \in Ids(mblk["L"])
      PROVE  Head(s).id \in Ids(tbuf["L"])
  <2>1. open["L"] /\ s # <<>> /\ Head(s).t = "data"
    BY <1>1, <1>T, <1>s DEF Incoming
  <2>2. 1 \in 1 .. Len(s) /\ s[1] = Head(s)
    BY <2>1
  <2>3. DataFollowed(1)
    BY <2>1, <2>2, <1>s DEF DownOK
  <2>4. PICK x \in Blocks("L") : x.id = Head(s).id
    BY <1>1, <1>T, IdsFacts DEF Blocks
  <2>5. ~InfoBefore(s, 1, x.name)
    BY DEF InfoBefore
  <2> QED  BY <2>2, <2>3, <2>4, <2>5, <1>s DEF DataFollowed
<1> QED  BY <1>1, <1>s DEF LowerFindsTarget

LEMMA DataArrives ==
    ASSUME MbInv, DownOK, UpOK
    PROVE  DataFindsTarget
<1>T. /\ Other("L") = "U" /\ Other("U") = "L" /\ line["L"] \in Seq(Frame)
  BY EndFacts DEF MbInv
<1>1. ASSUME Incoming("U", "data")
      PROVE  Head(line["L"]).id \in Ids(tbuf["U"])
  <2>1. open["U"] /\ line["L"] # <<>> /\ Head(line["L"]).t = "data"
    BY <1>1, <1>T DEF Incoming
  <2>2. Head(line["L"]) \in Elements(line["L"])
    BY <1>T, <2>1, ElementFacts
  <2> QED  BY <2>1, <2>2 DEF UpOK, DataOK
<1> QED  BY <1>1, <1>T, LowerData DEF DataFindsTarget, LowerFindsTarget, End

----------------------------------------------------------------------------
\* Infos are on the way in the order of the ids they are about.
InfosRise(s) ==
    \A p \in 1 .. Len(s) : \A q \in 1 .. p - 1 :
        s[p].t = "info" /\ s[q].t = "info" => s[q].id < s[p].id

LEMMA InfosRiseAppend ==
    ASSUME NEW s \in Seq(Frame), NEW f \in Frame, InfosRise(s),
           f.t = "info" => \A g \in Elements(s) : g.t = "info" => g.id < f.id
    PROVE  InfosRise(Append(s, f))
<1>n. PICK n \in Nat : n = Len(s)
  OBVIOUS
<1>r. PICK r : r = Append(s, f)
  OBVIOUS
<1>1. Len(r) = n + 1 /\ r[n + 1] = f /\ \A i \in 1 .. n : r[i] = s[i]
  BY <1>n, <1>r
<1>2. ASSUME NEW p \in 1 .. n + 1, NEW q \in 1 .. p - 1, r[p].t = "info", r[q].t = "info"
      PROVE  r[q].id < r[p].id
  <2>1. q \in 1 .. n /\ r[q] = s[q]
    BY <1>1
  <2>2. CASE p = n + 1
    <3>1. r[p] = f /\ r[q] \in Elements(s)
      BY <1>1, <1>n, <2>1, <2>2 DEF Elements
    <3> QED  BY <1>2, <3>1
  <2>3. CASE p # n + 1
    <3>1. p \in 1 .. n /\ r[p] = s[p]
      BY <1>1, <2>3
    <3> QED  BY <1>2, <1>n, <2>1, <3>1 DEF InfosRise
  <2> QED  BY <2>2, <2>3
<1> QED  BY <1>1, <1>2, <1>r DEF InfosRise

LEMMA InfosRiseTail ==
    ASSUME NEW s \in Seq(Frame), s # <<>>, InfosRise(s)
    PROVE  /\ InfosRise(Tail(s))
           /\ Head(s).t = "info" =>
                \A g \in Elements(Tail(s)) : g.t = "info" => Head(s).id < g.id
<1>n. PICK n \in Nat : n = Len(s)
  OBVIOUS
<1>r. PICK r : r = Tail(s)
  OBVIOUS
<1>f. PICK f : f = Head(s)
  OBVIOUS
<1>1. n # 0 /\ Len(r) = n - 1 /\ f = s[1] /\ \A i \in 1 .. n - 1 : r[i] = s[i + 1]
  BY <1>n, <1>r, <1>f
<1>2. ASSUME NEW p \in 1 .. n - 1, NEW q \in 1 .. p - 1, r[p].t = "info", r[q].t = "info"
      PROVE  r[q].id < r[p].id
  <2>a. PICK a \in 1 .. n : a = p + 1
    OBVIOUS
  <2>b. PICK b \in 1 .. a - 1 : b = q + 1
    BY <2>a
  <2>1. r[p] = s[a] /\ r[q] = s[b]
    BY <1>1, <2>a, <2>b
  <2> QED  BY <1>2, <1>n, <2>1 DEF InfosRise
<1>3. ASSUME f.t = "info", NEW g \in Elements(r), g.t = "info"
      PROVE  f.id < g.id
  <2>1. PICK i \in 1 .. n - 1 : g = r[i]
    BY <1>1 DEF Elements
  <2>a. PICK a \in 1 .. n : a = i + 1
    OBVIOUS
  <2>2. s[a] = g /\ 1 \in 1 .. a - 1
    BY <1>1, <2>1, <2>a
  <2> QED  BY <1>1, <1>3, <1>n, <2>2 DEF InfosRise
<1> QED  BY <1>1, <1>2, <1>3, <1>r, <1>f DEF InfosRise

\* The cursor has passed every block that info is on the way about.
InfosOK ==
    /\ InfosRise(line["L"])
    /\ \A f \in Elements(line["L"]) : f.t = "info" => current = 0 \/ f.id < current

\* No info about the block is to come to the upper end.
Announced(id) ==
    /\ current = 0 \/ id < current
    /\ \A f \in Elements(line["L"]) : f.t = "info" => f.id # id

\* A dynamic block of the upper end is to be removed or has its namesake.
KeptOK == \A b \in Blocks("U") : b.dyn => b.id \in Pending \/ Named("L", b.name)

\* Info on the way to the upper end is about a block that is still there.
SentOK == \A f \in Elements(line["L"]) : f.t = "info" => \E x \in Blocks("L") : x.id = f.id

\* A block that the upper end has answered about was announced.
DoneOK ==
    /\ \A l \in Links("L") : Announced(l.id)
    /\ \A f \in Elements(line["U"]) : f.t = "info" =>
          \A x \in Blocks("L") : x.name = f.name => Announced(x.id)
    /\ \A b \in Blocks("U") : b.id \in Bufs("U") =>
          \A x \in Blocks("L") : x.name = b.name => Announced(x.id)

RemOK == InfosOK /\ (Both => KeptOK /\ SentOK /\ DoneOK)

LEMMA AnnouncedStays ==
    ASSUME current \in Nat, current' \in Nat, NEW id \in Nat, Announced(id),
           \/ current' = 0
           \/ current # 0 /\ current <= current'
           \/ id < current',
           \A f \in Elements(line'["L"]) : f.t = "info" => f \in Elements(line["L"]) \/ f.id # id
    PROVE  Announced(id)'
<1>1. current' = 0 \/ id < current'
  BY DEF Announced
<1> QED  BY <1>1 DEF Announced

\* A cursor only goes down the list.
LEMMA CursorRises ==
    ASSUME MbInv, StructOK, NEW gone, current' = Advance(mblk["L"], current, gone)
    PROVE  current' = 0 \/ (current # 0 /\ current <= current' /\ current' \notin gone)
<1>T. mblk["L"] \in Seq(BlockType) /\ current \in Nat
  BY EndFacts DEF MbInv
<1>1. \A i \in 1 .. Len(mblk["L"]) : mblk["L"][i].id \in Nat
  <2>s. PICK s \in Seq(BlockType) : s = mblk["L"]
    BY <1>T
  <2>1. \A i \in 1 .. Len(s) : s[i] \in BlockType
    OBVIOUS
  <2> QED  BY <2>1, <2>s DEF BlockType
<1>2. current' = 0 \/ (current' \in Nat /\ current <= current' /\ current' \notin gone)
  BY <1>1, <1>T, AdvanceRises DEF StructOK, LowerOK
<1>3. current = 0 => current' = 0
  <2> SUFFICES ASSUME current = 0 PROVE current' = 0
    OBVIOUS
  <2>n. PICK n \in Nat : n = Len(mblk["L"])
    BY <1>T
  <2>1. \A i \in 1 .. n : mblk["L"][i].id # 0
    BY <2>n DEF StructOK, LowerOK, Blocks, Elements, End
  <2>2. ~ \E i \in 1 .. n : \E j \in 1 .. i : mblk["L"][j].id = 0
    <3>1. \A i \in 1 .. n : \A j \in 1 .. i : j \in 1 .. n
      OBVIOUS
    <3> QED  BY <2>1, <3>1
  <2> QED  BY <2>2, <2>n DEF Advance
<1> QED  BY <1>2, <1>3

\* The line to the upper end is left alone, or a frame is taken from it.
LEMMA InfosStay ==
    ASSUME Types, InfosOK,
           current' = 0 \/ (current # 0 /\ current <= current') \/ (current = 0 /\ lastId["L"] < current'),
           current' \in Nat, FramesOK,
           line'["L"] = line["L"] \/ (line["L"] # <<>> /\ line'["L"] = Tail(line["L"])) \/ line'["L"] = <<>>
    PROVE  InfosOK' /\ \A g \in Elements(line'["L"]) : g \in Elements(line["L"])
<1>s. PICK s \in Seq(Frame) : s = line["L"]
  BY EndFacts
<1>T. current \in Nat /\ "L" \in End /\ lastId["L"] \in Nat
  BY EndFacts
<1>1. InfosRise(line'["L"]) /\ \A g \in Elements(line'["L"]) : g \in Elements(s)
  <2>1. CASE line'["L"] = s
    BY <1>s, <2>1 DEF InfosOK
  <2>2. CASE s # <<>> /\ line'["L"] = Tail(s)
    BY <1>s, <2>2, ElementFacts, InfosRiseTail DEF InfosOK
  <2>3. CASE line'["L"] = <<>>
    BY <2>3 DEF InfosRise, Elements
  <2> QED  BY <1>s, <2>1, <2>2, <2>3
<1>2. ASSUME NEW f \in Elements(s), f.t = "info"
      PROVE  current' = 0 \/ f.id < current'
  <2>1. f \in Frame
    BY ElementFacts
  <2>2. f.id \in Nat
    BY <1>2, <2>1, FrameIds
  <2>3. current = 0 \/ f.id < current
    BY <1>2, <1>s DEF InfosOK
  <2>4. f.id <= lastId["L"]
    BY <1>2, <1>s, <1>T DEF FramesOK, Means
  <2> QED  BY <1>T, <2>2, <2>3, <2>4
<1> QED  BY <1>1, <1>2, <1>s DEF InfosOK

\* Nothing but frames, flags and the cursor changes.
LEMMA RemStays ==
    ASSUME MbInv, Types', RemOK, SameLinks, mblk' = mblk, open' = open, InfosOK',
           current' = 0 \/ (current # 0 /\ current <= current'),
           Both => Pending \subseteq Pending',
           Both => \A f \in Elements(line'["L"]) : f.t = "info" =>
               \/ f \in Elements(line["L"])
               \/ current # 0 /\ f.id = current /\ \E x \in Blocks("L") : x.id = f.id,
           Both => \A f \in Elements(line'["U"]) : f.t = "info" =>
               \/ f \in Elements(line["U"])
               \/ \E b \in Blocks("U") : b.name = f.name /\ b.id \in Bufs("U")
    PROVE  RemOK'
<1>T. "L" \in End /\ "U" \in End /\ current \in Nat /\ current' \in Nat /\ Types
  BY EndFacts DEF MbInv, Types
<1>1. /\ \A e \in End : Bufs(e)' = Bufs(e) /\ Blocks(e)' = Blocks(e)
      /\ Both' = Both
  BY <1>T, SameLinksFacts DEF Blocks, Both
<1>2. \A n : Named("L", n)' <=> Named("L", n)
  BY <1>1, <1>T DEF Named
<1> SUFFICES ASSUME Both PROVE KeptOK' /\ SentOK' /\ DoneOK'
  BY <1>1 DEF RemOK
<1>3. KeptOK /\ SentOK /\ DoneOK
  BY DEF RemOK
<1>4. KeptOK'
  BY <1>1, <1>2, <1>3, <1>T DEF KeptOK
<1>5. SentOK'
  BY <1>1, <1>3, <1>T DEF SentOK
<1>6. ASSUME NEW id \in Nat, Announced(id)
      PROVE  Announced(id)'
  <2>1. current # 0 => current # id
    BY <1>6, <1>T DEF Announced
  <2>2. \A f \in Elements(line'["L"]) : f.t = "info" => f \in Elements(line["L"]) \/ f.id # id
    BY <2>1
  <2> QED  BY <1>6, <1>T, <2>2, AnnouncedStays
<1>7. \A x \in Blocks("L") : x.id \in Nat
  BY <1>T, LinkFacts
<1>8. \A l \in Links("L") : l.id \in Nat
  BY <1>T, LinkFacts
<1>9. \A l \in Links("L")' : Announced(l.id)'
  <2>1. \A l \in Links("L")' : \E k \in Links("L") : k.id = l.id
    BY <1>T, SameLinksFacts
  <2>2. \A k \in Links("L") : Announced(k.id)
    BY <1>3 DEF DoneOK
  <2> QED  BY <1>6, <1>8, <2>1, <2>2
<1>10. ASSUME NEW b \in Blocks("U"), b.id \in Bufs("U"), NEW x \in Blocks("L"), x.name = b.name
       PROVE  Announced(x.id) /\ Announced(x.id)'
  <2>1. Announced(x.id)
    BY <1>3, <1>10 DEF DoneOK
  <2> QED  BY <1>6, <1>7, <2>1
<1>11. ASSUME NEW f \in Elements(line'["U"]), f.t = "info", NEW x \in Blocks("L"), x.name = f.name
       PROVE  Announced(x.id)'
  <2>1. CASE f \in Elements(line["U"])
    <3>1. Announced(x.id)
      BY <1>3, <1>11, <2>1 DEF DoneOK
    <3> QED  BY <1>6, <1>7, <3>1
  <2>2. CASE f \notin Elements(line["U"])
    <3>1. PICK b \in Blocks("U") : b.name = f.name /\ b.id \in Bufs("U")
      BY <1>11, <2>2
    <3> QED  BY <1>10, <1>11, <3>1
  <2> QED  BY <2>1, <2>2
<1>12. DoneOK'
  BY <1>1, <1>9, <1>10, <1>11, <1>T DEF DoneOK
<1> QED  BY <1>4, <1>5, <1>12

LEMMA SendRemoveRem ==
    ASSUME MbInv, Types', RemOK, NEW f, RemoveSent(f)
    PROVE  RemOK'
<1>0. Types /\ reqs \in Seq(Request) /\ line["L"] \in Seq(Frame) /\ current \in Nat
  BY EndFacts DEF MbInv
<1>1. /\ FrameSent("L", "U", f) /\ f \in RemoveFrame
      /\ reqs # <<>> /\ f.ids = reqs[1] /\ reqs' = Tail(reqs)
      /\ UNCHANGED <<mblk, lastId, sbuf, tbuf, open>> /\ current' = current
  BY DEF RemoveSent, cursors
<1>2. f \in Frame /\ f.t = "remove"
  BY <1>1 DEF Frame, RemoveFrame
<1>3. line'["U"] = line["U"] /\ (line'["L"] = line["L"] \/ line'["L"] = Append(line["L"], f))
  BY <1>1 DEF FrameSent
<1>4. Both => Pending \subseteq Pending'
  <2>1. Asked(reqs) = Asked(reqs') \union Elements(f.ids)
    BY <1>0, <1>1, AskedFacts
  <2>2. Both => AskedOn(line'["L"]) = AskedOn(line["L"]) \union Elements(f.ids)
    BY <1>0, <1>1, <1>2, AskedOnAppend DEF FrameSent, Both
  <2> QED  BY <2>1, <2>2 DEF Pending
<1>5. \A g \in Elements(line'["L"]) : g \in Elements(line["L"]) \/ g = f
  BY <1>0, <1>2, <1>3, LineGrows
<1>6. InfosOK'
  <2>1. InfosRise(line'["L"])
    BY <1>0, <1>2, <1>3, InfosRiseAppend DEF RemOK, InfosOK
  <2> QED  BY <1>1, <1>2, <1>5, <2>1 DEF RemOK, InfosOK
<1>7. SameLinks
  BY <1>1, SameLinksSame
<1>8. current' = 0 \/ (current # 0 /\ current <= current')
  BY <1>0, <1>1
<1> QED  BY <1>1, <1>2, <1>3, <1>4, <1>5, <1>6, <1>7, <1>8, RemStays

LEMMA SkipRem ==
    ASSUME MbInv, Types', UpOK, RemOK, NEW e \in End, NEW o, NEW f, Skipped(e, o, f)
    PROVE  RemOK'
<1>T. /\ "L" \in End /\ "U" \in End /\ "L" # "U" /\ Other("L") = "U" /\ Other("U") = "L"
      /\ Types /\ line["U"] \in Seq(Frame) /\ line["L"] \in Seq(Frame) /\ current \in Nat
  BY EndFacts DEF MbInv
<1>1. /\ UNCHANGED <<mblk, lastId, sbuf, tbuf, reqs, open>> /\ current' = current /\ o = Other(e)
      /\ line[o] # <<>> /\ f = Head(line[o]) /\ f.t # "remove"
      /\ line'[o] = Tail(line[o]) /\ line'[e] = line[e]
  BY DEF Skipped, cursors
<1>2. \/ line'["L"] = line["L"]
      \/ line["L"] # <<>> /\ Head(line["L"]).t # "remove" /\ line'["L"] = Tail(line["L"])
  BY <1>1, <1>T DEF End
<1>3. Pending' = Pending
  <2>1. AskedOn(line'["L"]) = AskedOn(line["L"])
    BY <1>T, <1>2, AskedOnTail
  <2> QED  BY <1>1, <2>1 DEF Pending
<1>4. \A g \in Elements(line'["U"]) : g \in Elements(line["U"])
  <2>1. line'["U"] = line["U"] \/ (line["U"] # <<>> /\ line'["U"] = Tail(line["U"]))
    BY <1>1, <1>T DEF End
  <2> QED  BY <1>T, <2>1, ElementFacts
<1>5. current' = 0 \/ (current # 0 /\ current <= current')
  BY <1>1, <1>T
<1>6. InfosOK' /\ \A g \in Elements(line'["L"]) : g \in Elements(line["L"])
  BY <1>1, <1>2, <1>5, <1>T, InfosStay DEF MbInv, RemOK
<1>7. SameLinks
  BY <1>1, SameLinksSame
<1> QED  BY <1>1, <1>3, <1>4, <1>5, <1>6, <1>7, RemStays

LEMMA SendDataRem ==
    ASSUME MbInv, Types', RemOK, NEW e \in End, NEW o, NEW f, NEW j, DataSent(e, o, f, j)
    PROVE  RemOK'
<1>T. /\ "L" \in End /\ "U" \in End /\ "L" # "U" /\ Other("L") = "U" /\ Other("U") = "L"
      /\ Types /\ line["U"] \in Seq(Frame) /\ line["L"] \in Seq(Frame) /\ current \in Nat
  BY EndFacts DEF MbInv
<1>1. /\ UNCHANGED <<mblk, lastId, reqs, open>> /\ current' = current /\ SameLinks
      /\ FrameSent(e, o, f) /\ f \in DataFrame
  BY DEF DataSent, cursors
<1>2. f \in Frame /\ f.t = "data"
  BY <1>1 DEF Frame, DataFrame
<1>3. /\ line'["L"] = line["L"] \/ line'["L"] = Append(line["L"], f)
      /\ line'["U"] = line["U"] \/ line'["U"] = Append(line["U"], f)
  BY <1>1, <1>T DEF FrameSent, End
<1>4. Pending' = Pending
  <2>1. AskedOn(line'["L"]) = AskedOn(line["L"])
    BY <1>T, <1>2, <1>3, AskedOnAppend
  <2> QED  BY <1>1, <2>1 DEF Pending
<1>5. \A g \in Elements(line'["L"]) : g \in Elements(line["L"]) \/ g = f
  BY <1>T, <1>2, <1>3, LineGrows
<1>6. \A g \in Elements(line'["U"]) : g \in Elements(line["U"]) \/ g = f
  BY <1>T, <1>2, <1>3, LineGrows
<1>7. InfosOK'
  <2>1. InfosRise(line'["L"])
    BY <1>T, <1>2, <1>3, InfosRiseAppend DEF RemOK, InfosOK
  <2> QED  BY <1>1, <1>2, <1>5, <2>1 DEF RemOK, InfosOK
<1>8. current' = 0 \/ (current # 0 /\ current <= current')
  BY <1>1, <1>T
<1> QED  BY <1>1, <1>2, <1>4, <1>5, <1>6, <1>7, <1>8, RemStays

LEMMA SendInfoRem ==
    ASSUME MbInv, Types', StructOK, RemOK, NEW e \in End, NEW o, NEW f, NEW b, InfoSent(e, o, f, b)
    PROVE  RemOK'
<1>T. /\ "L" \in End /\ "U" \in End /\ "L" # "U" /\ Other("L") = "U" /\ Other("U") = "L"
      /\ Types /\ line["U"] \in Seq(Frame) /\ line["L"] \in Seq(Frame)
      /\ current \in Nat /\ current' \in Nat
  BY EndFacts DEF MbInv, Types
<1>1. /\ UNCHANGED <<mblk, lastId, sbuf, tbuf, reqs, open>> /\ FrameSent(e, o, f)
      /\ f \in InfoFrame /\ f.id = b.id /\ f.name = b.name /\ b \in Blocks(e) /\ b.id # 0
  BY DEF InfoSent
<1>2. f \in Frame /\ f.t = "info" /\ SameLinks
  BY <1>1, SameLinksSame DEF Frame, InfoFrame
<1>3. CASE e = "L"
  <2>1. /\ line'["U"] = line["U"] /\ b.id = current /\ current' = Advance(mblk["L"], current, {b.id})
        /\ line'["L"] = line["L"] \/ line'["L"] = Append(line["L"], f)
    BY <1>1, <1>3, <1>T DEF FrameSent, InfoSent
  <2>2. AskedOn(line'["L"]) = AskedOn(line["L"])
    BY <1>2, <1>T, <2>1, AskedOnAppend
  <2>3. Pending' = Pending
    BY <1>1, <2>2 DEF Pending
  <2>4. \A g \in Elements(line'["L"]) : g \in Elements(line["L"]) \/ g = f
    BY <1>2, <1>T, <2>1, LineGrows
  <2>5. current' = 0 \/ (current # 0 /\ current <= current' /\ current' # b.id)
    <3>1. current' = 0 \/ (current # 0 /\ current <= current' /\ current' \notin {b.id})
      BY <2>1, CursorRises
    <3> QED  BY <3>1
  <2>6. InfosOK'
    <3>1. \A g \in Elements(line["L"]) : g.t = "info" => g.id \in Nat /\ g.id < f.id
      <4>1. \A g \in Elements(line["L"]) : g.t = "info" => g.id < f.id
        BY <1>1, <2>1 DEF RemOK, InfosOK
      <4>2. \A g \in Elements(line["L"]) : g \in Frame
        BY <1>T, ElementFacts
      <4> QED  BY <4>1, <4>2, FrameIds
    <3>2. InfosRise(line'["L"])
      BY <1>T, <1>2, <2>1, <3>1, InfosRiseAppend DEF RemOK, InfosOK
    <3>3. ASSUME NEW g \in Elements(line'["L"]), g.t = "info"
          PROVE  current' = 0 \/ g.id < current'
      <4>1. g.id \in Nat /\ g.id <= current
        BY <1>1, <1>2, <1>T, <2>1, <2>4, <3>1, <3>3
      <4>2. current' = 0 \/ current < current'
        BY <1>T, <2>1, <2>5
      <4> QED  BY <1>T, <4>1, <4>2
    <3> QED  BY <3>2, <3>3 DEF InfosOK
  <2> QED  BY <1>1, <1>2, <1>3, <2>1, <2>3, <2>4, <2>5, <2>6, RemStays
<1>4. CASE e = "U"
  <2>1. /\ line'["L"] = line["L"] /\ b.id \in Bufs("U") /\ current' = current
        /\ line'["U"] = line["U"] \/ line'["U"] = Append(line["U"], f)
    BY <1>1, <1>4, <1>T DEF FrameSent, InfoSent
  <2>2. \A g \in Elements(line'["U"]) : g \in Elements(line["U"]) \/ g = f
    BY <1>2, <1>T, <2>1, LineGrows
  <2>3. InfosOK'
    BY <2>1 DEF RemOK, InfosOK
  <2>4. Pending' = Pending
    BY <1>1, <2>1 DEF Pending
  <2>5. current' = 0 \/ (current # 0 /\ current <= current')
    BY <2>1, <1>T
  <2> QED  BY <1>1, <1>2, <1>4, <2>1, <2>2, <2>3, <2>4, <2>5, RemStays
<1> QED  BY <1>3, <1>4 DEF End

LEMMA ReadInfoRem ==
    ASSUME MbInv, Types', StructOK, RemOK, NEW e \in End, NEW o, NEW f, NEW b, InfoRead(e, o, f, b)
    PROVE  RemOK'
<1>T. /\ "L" \in End /\ "U" \in End /\ "L" # "U" /\ Other("L") = "U" /\ Other("U") = "L"
      /\ Types /\ line["U"] \in Seq(Frame) /\ line["L"] \in Seq(Frame)
      /\ current \in Nat /\ current' \in Nat
  BY EndFacts DEF MbInv, Types
<1>1. /\ o = Other(e) /\ line[o] # <<>> /\ f = Head(line[o]) /\ f \in InfoFrame
      /\ line'[o] = Tail(line[o]) /\ line'[e] = line[e]
      /\ b \in BlockType /\ b.name = f.name
      /\ sbuf'[o] = sbuf[o] /\ tbuf'[o] = tbuf[o] /\ reqs' = reqs /\ open' = open /\ current' = current
  BY DEF InfoRead
<1>2. f.t = "info" /\ Both' = Both
  BY <1>1 DEF InfoFrame, Both
<1>c. current' = 0 \/ (current # 0 /\ current <= current')
  BY <1>1, <1>T
<1>3. CASE e = "L"
  <2>1. /\ o = "U" /\ mblk' = mblk /\ b \in Blocks("L")
        /\ sbuf'["U"] = sbuf["U"] /\ tbuf'["U"] = tbuf["U"] /\ line'["L"] = line["L"]
    BY <1>1, <1>3, <1>T DEF InfoRead
  <2>2. /\ \A l \in Elements(sbuf'["L"]) : l \in Elements(sbuf["L"]) \/ l.id = b.id
        /\ \A l \in Elements(tbuf'["L"]) : l \in Elements(tbuf["L"]) \/ l.id = b.id
    BY <1>3 DEF InfoRead
  <2>3. /\ \A c : Blocks(c)' = Blocks(c) /\ Bufs("U")' = Bufs("U") /\ Pending' = Pending
        /\ InfosOK' = InfosOK
    BY <1>1, <2>1 DEF Blocks, Bufs, Pending, InfosOK
  <2>4. /\ \A n : Named("L", n)' <=> Named("L", n)
        /\ \A id : Announced(id)' <=> Announced(id)
    BY <1>1, <2>1, <2>3 DEF Named, Announced
  <2>5. f \in Elements(line["U"]) /\ \A g \in Elements(line'["U"]) : g \in Elements(line["U"])
    BY <1>1, <1>T, <2>1, ElementFacts
  <2>6. Both => KeptOK' /\ SentOK'
    BY <2>1, <2>3, <2>4 DEF RemOK, KeptOK, SentOK
  <2>7. Both => Announced(b.id)
    BY <1>1, <1>2, <2>1, <2>5 DEF RemOK, DoneOK
  <2>8. \A l \in Links("L")' : l \in Links("L") \/ l.id = b.id
    BY <2>2 DEF Links
  <2>9. Both => DoneOK'
    BY <2>3, <2>4, <2>5, <2>7, <2>8 DEF RemOK, DoneOK
  <2> QED  BY <1>2, <2>3, <2>6, <2>9 DEF RemOK
<1>4. CASE e = "U"
  <2>1. /\ o = "L" /\ mblk'["L"] = mblk["L"] /\ line'["U"] = line["U"]
        /\ sbuf'["L"] = sbuf["L"] /\ tbuf'["L"] = tbuf["L"]
        /\ line["L"] # <<>> /\ f = Head(line["L"]) /\ line'["L"] = Tail(line["L"])
    BY <1>1, <1>2, <1>4, <1>T DEF InfoRead
  <2>2. InfosOK' /\ \A g \in Elements(line'["L"]) : g \in Elements(line["L"])
    BY <1>T, <1>c, <2>1, InfosStay DEF MbInv, RemOK
  <2>3. AskedOn(line'["L"]) = AskedOn(line["L"])
    BY <1>2, <1>T, <2>1, AskedOnTail
  <2>4. Pending' = Pending /\ Links("L")' = Links("L") /\ Blocks("L")' = Blocks("L")
    BY <1>1, <2>1, <2>3 DEF Pending, Links, Blocks
  <2>5. \A n : Named("L", n)' <=> Named("L", n)
    BY <2>4 DEF Named
  <2>6. /\ Blocks("U")' = Blocks("U") \union {b}
        /\ Bufs("U")' \subseteq Bufs("U") \union {b.id}
        /\ b \in Blocks("U") \/ \A c \in Blocks("U") : c.id <= lastId["U"] /\ b.id = lastId["U"] + 1
    <3>1. Blocks("U")' = Blocks("U") \union {b}
      BY <1>4 DEF InfoRead, Blocks
    <3>2. Bufs("U")' \subseteq Bufs("U") \union {b.id}
      BY <1>4 DEF InfoRead, Bufs
    <3>3. b \in Blocks("U") \/ \A c \in Blocks("U") : c.id <= lastId["U"] /\ b.id = lastId["U"] + 1
      BY <1>4, <1>T DEF InfoRead, MbInv, BlocksOK
    <3> QED  BY <3>1, <3>2, <3>3
  <2>7. \A c \in Blocks("U") : c.id = b.id => c = b
    <3>1. CASE b \in Blocks("U")
      BY <1>T, <3>1, NameFacts
    <3>2. CASE \A c \in Blocks("U") : c.id <= lastId["U"] /\ b.id = lastId["U"] + 1
      <4>1. lastId["U"] \in Nat /\ \A c \in Blocks("U") : c.id \in Nat
        BY <1>T, LinkFacts, EndFacts
      <4> QED  BY <3>2, <4>1
    <3> QED  BY <2>6, <3>1, <3>2
  <2> SUFFICES ASSUME Both PROVE KeptOK' /\ SentOK' /\ DoneOK'
    BY <1>2, <2>2 DEF RemOK
  <2>8. KeptOK /\ SentOK /\ DoneOK
    BY DEF RemOK
  <2>9. f \in Elements(line["L"])
    BY <1>T, <2>1, ElementFacts
  <2>10. PICK x \in Blocks("L") : x.id = f.id /\ x.name = f.name
    <3>1. PICK x \in Blocks("L") : x.id = f.id
      BY <1>2, <2>8, <2>9 DEF SentOK
    <3>2. x.name = f.name
      BY <1>2, <1>T, <2>9, <3>1 DEF MbInv, FramesOK, Means
    <3> QED  BY <3>1, <3>2
  <2>11. \A y \in Blocks("L") : y.name = f.name => y = x
    BY <2>10 DEF StructOK, LowerOK
  <2>12. KeptOK'
    <3>1. Named("L", b.name)
      BY <1>1, <2>10 DEF Named
    <3> QED  BY <2>4, <2>5, <2>6, <2>8, <3>1 DEF KeptOK
  <2>13. SentOK'
    BY <2>2, <2>4, <2>8 DEF SentOK
  <2>14. Announced(f.id)'
    <3>1. current = 0 \/ f.id < current
      BY <1>2, <2>9 DEF RemOK, InfosOK
    <3>2. \A g \in Elements(line'["L"]) : g.t = "info" => f.id < g.id
      BY <1>2, <1>T, <2>1, InfosRiseTail DEF RemOK, InfosOK
    <3>3. \A g \in Elements(line'["L"]) : g.t = "info" => g.id # f.id
      <4>1. f.id \in Nat /\ \A g \in Elements(line["L"]) : g \in Frame
        BY <1>1, <1>T, ElementFacts DEF InfoFrame
      <4> QED  BY <2>2, <3>2, <4>1, FrameIds
    <3> QED  BY <1>1, <3>1, <3>3 DEF Announced
  <2>15. \A id : Announced(id) => Announced(id)'
    BY <1>1, <2>2 DEF Announced
  <2>16. ASSUME NEW c \in Blocks("U")', c.id \in Bufs("U")', NEW y \in Blocks("L"), y.name = c.name
         PROVE  Announced(y.id)'
    <3>1. CASE c.id = b.id
      <4>1. c = b
        BY <2>6, <2>7, <3>1
      <4>2. y = x
        BY <1>1, <2>11, <2>16, <4>1
      <4> QED  BY <2>10, <2>14, <4>2
    <3>2. CASE c.id # b.id
      <4>1. c \in Blocks("U") /\ c.id \in Bufs("U")
        BY <2>6, <2>16, <3>2
      <4> QED  BY <2>8, <2>15, <2>16, <4>1 DEF DoneOK
    <3> QED  BY <3>1, <3>2
  <2>17. DoneOK'
    BY <2>1, <2>4, <2>8, <2>15, <2>16 DEF DoneOK
  <2> QED  BY <2>12, <2>13, <2>17
<1> QED  BY <1>3, <1>4 DEF End

\* A block that is answered about has a buffer.
LEMMA AnsweredHasLink ==
    ASSUME MbInv, open["L"], NEW x \in Blocks("L"), Answered(x.id)
    PROVE  \E l \in Links("L") : l.id = x.id
<1>T. Types /\ "L" \in End
  BY EndFacts DEF MbInv
<1>1. NameOf("L", x.id) = x.name
  BY <1>T, NameFacts
<1>2. CanSend("L", x.name) \/ CanReceive("L", x.name)
  <2>1. x.name \in Names
    BY <1>T, LinkFacts
  <2> QED  BY <2>1 DEF CanSend, CanReceive, Names
<1>3. x.id \in Bufs("L")
  BY <1>1, <1>2 DEF Answered, Bufs
<1> QED  BY <1>3, <1>T, LinkFacts

LEMMA DropRem ==
    ASSUME MbInv, Types', StructOK, UpOK, RemOK, NEW id \in Ids(mblk["L"]), BlockDropped(id),
           Answered(id)
    PROVE  RemOK'
<1>T. /\ "L" \in End /\ "U" \in End /\ "L" # "U" /\ Other("L") = "U" /\ Other("U") = "L"
      /\ Types /\ mblk["L"] \in Seq(BlockType) /\ current \in Nat /\ current' \in Nat
  BY EndFacts DEF MbInv, Types
<1>1. /\ Blocks("L")' = {b \in Blocks("L") : b.id # id} /\ Blocks("U")' = Blocks("U")
      /\ Elements(sbuf'["L"]) = {l \in Elements(sbuf["L"]) : l.id # id}
      /\ Elements(tbuf'["L"]) = {l \in Elements(tbuf["L"]) : l.id # id}
      /\ sbuf'["U"] = sbuf["U"] /\ tbuf'["U"] = tbuf["U"]
      /\ current' = Advance(mblk["L"], current, {id})
      /\ UNCHANGED <<lastId, line, open>>
  BY DEF BlockDropped
<1>r. PICK R : R = {l.rid : l \in {k \in Links("L") : k.id = id}}
  OBVIOUS
<1>2. Pending' = Pending \union R
  BY <1>1, <1>r DEF BlockDropped, Pending
<1>3. /\ Both' = Both /\ Bufs("U")' = Bufs("U")
      /\ Links("L")' = {l \in Links("L") : l.id # id}
  BY <1>1 DEF Both, Bufs, Links
<1>4. current' = 0 \/ (current # 0 /\ current <= current')
  BY <1>1, CursorRises
<1>5. InfosOK'
  BY <1>1, <1>4, <1>T, InfosStay DEF MbInv, RemOK
<1>6. PICK x \in Blocks("L") : x.id = id
  BY <1>T, IdsFacts DEF Blocks
<1>7. \A y \in Blocks("L") : y.id # id \/ y = x
  BY <1>T, <1>6, NameFacts
<1> SUFFICES ASSUME Both PROVE KeptOK' /\ SentOK' /\ DoneOK'
  BY <1>3, <1>5 DEF RemOK
<1>8. KeptOK /\ SentOK /\ DoneOK
  BY DEF RemOK
<1>9. PICK l \in Links("L") : l.id = id
  BY <1>6, AnsweredHasLink DEF Both
<1>10. PICK y \in Blocks("U") : y.id = l.rid /\ y.name = x.name
  <2>1. l.rid \in Bufs("U")
    BY DEF UpOK, TiesOK
  <2>2. PICK y \in Blocks("U") : y.id = l.rid
    BY <1>T, <2>1, BufOwner
  <2>3. PICK z \in Blocks("L") : z.id = l.id /\ z.name = y.name
    BY <2>2, LostNamesake
  <2>4. z = x
    BY <1>7, <1>9, <2>3
  <2> QED  BY <2>2, <2>3, <2>4
<1>11. l.rid \in R
  BY <1>9, <1>r
<1>12. KeptOK'
  <2>1. ASSUME NEW b \in Blocks("U"), b.dyn
        PROVE  b.id \in Pending' \/ Named("L", b.name)'
    <3>1. CASE b.id \in Pending
      BY <1>2, <3>1
    <3>2. CASE Named("L", b.name)
      <4>1. PICK z \in Blocks("L") : z.name = b.name
        BY <3>2 DEF Named
      <4>2. CASE z.id # id
        BY <1>1, <4>1, <4>2 DEF Named
      <4>3. CASE z = x
        <5>1. y = b
          BY <1>10, <2>1, <4>1, <4>3 DEF StructOK, UpperOK
        <5> QED  BY <1>2, <1>10, <1>11, <5>1
      <4> QED  BY <1>7, <4>2, <4>3
    <3> QED  BY <1>8, <2>1, <3>1, <3>2 DEF KeptOK
  <2> QED  BY <1>1, <2>1 DEF KeptOK
<1>13. SentOK'
  <2>1. ASSUME NEW f \in Elements(line["L"]), f.t = "info"
        PROVE  \E z \in Blocks("L")' : z.id = f.id
    <3>1. PICK z \in Blocks("L") : z.id = f.id
      BY <1>8, <2>1 DEF SentOK
    <3>2. f.id # id
      BY <1>8, <1>9, <2>1 DEF DoneOK, Announced
    <3> QED  BY <1>1, <3>1, <3>2
  <2> QED  BY <1>1, <2>1 DEF SentOK
<1>14. \A i \in Nat : Announced(i) => Announced(i)'
  BY <1>1, <1>4, <1>T, AnnouncedStays
<1>15. (\A z \in Blocks("L") : z.id \in Nat) /\ \A k \in Links("L") : k.id \in Nat
  BY <1>T, LinkFacts
<1>16. DoneOK'
  <2>1. \A k \in Links("L")' : Announced(k.id)'
    BY <1>3, <1>8, <1>14, <1>15 DEF DoneOK
  <2>2. \A f \in Elements(line["U"]) : f.t = "info" =>
          \A z \in Blocks("L")' : z.name = f.name => Announced(z.id)'
    BY <1>1, <1>8, <1>14, <1>15 DEF DoneOK
  <2>3. \A b \in Blocks("U") : b.id \in Bufs("U") =>
          \A z \in Blocks("L")' : z.name = b.name => Announced(z.id)'
    BY <1>1, <1>8, <1>14, <1>15 DEF DoneOK
  <2> QED  BY <1>1, <1>3, <2>1, <2>2, <2>3 DEF DoneOK
<1> QED  BY <1>12, <1>13, <1>16

LEMMA AddRem ==
    ASSUME MbInv, Types', RemOK, NEW n, NEW b \in BlockType, BlockAdded(n, b), ForgottenFacts(n)
    PROVE  RemOK'
<1>T. /\ "L" \in End /\ "U" \in End /\ Types /\ lastId["L"] \in Nat
      /\ current \in Nat /\ current' \in Nat
  BY EndFacts DEF MbInv, Types
<1>1. /\ b.name = n /\ b.id = lastId["L"] + 1
      /\ Blocks("L")' = Blocks("L") \union {b} /\ Blocks("U")' = Blocks("U")
      /\ UNCHANGED <<sbuf, tbuf, reqs, line, open>>
      /\ current' = IF current = 0 THEN b.id ELSE current
  BY DEF BlockAdded
<1>2. /\ Pending' = Pending /\ Both' = Both /\ Links("L")' = Links("L") /\ Bufs("U")' = Bufs("U")
  BY <1>1 DEF Pending, Both, Links, Bufs
<1>3. \/ current # 0 /\ current <= current'
      \/ current = 0 /\ lastId["L"] < current'
  BY <1>1, <1>T
<1>4. InfosOK'
  BY <1>1, <1>3, <1>T, InfosStay DEF MbInv, RemOK
<1>5. \A m : Named("L", m) => Named("L", m)'
  BY <1>1 DEF Named
<1>6. ASSUME NEW id \in Nat, id <= lastId["L"], Announced(id)
      PROVE  Announced(id)'
  <2>1. (current # 0 /\ current <= current') \/ id < current'
    BY <1>3, <1>6, <1>T
  <2> QED  BY <1>1, <1>6, <1>T, <2>1, AnnouncedStays
<1>7. \A x \in Blocks("L") : x.id \in Nat /\ x.id <= lastId["L"]
  BY <1>T, LinkFacts DEF MbInv, BlocksOK
<1>8. \A l \in Links("L") : l.id \in Nat /\ l.id <= lastId["L"]
  <2>1. \A l \in Links("L") : \E x \in Blocks("L") : x.id = l.id
    BY <1>T, Owners
  <2> QED  BY <1>7, <2>1
<1> SUFFICES ASSUME Both PROVE KeptOK' /\ SentOK' /\ DoneOK'
  BY <1>2, <1>4 DEF RemOK
<1>9. KeptOK /\ SentOK /\ DoneOK
  BY DEF RemOK
<1>10. KeptOK'
  BY <1>1, <1>2, <1>5, <1>9 DEF KeptOK
<1>11. SentOK'
  BY <1>1, <1>9 DEF SentOK
<1>12. \A l \in Links("L")' : Announced(l.id)'
  BY <1>2, <1>6, <1>8, <1>9 DEF DoneOK
<1>13. ASSUME NEW f \in Elements(line["U"]), f.t = "info", NEW x \in Blocks("L")', x.name = f.name
       PROVE  Announced(x.id)'
  <2>1. x \in Blocks("L")
    BY <1>1, <1>13 DEF ForgottenFacts
  <2> QED  BY <1>6, <1>7, <1>9, <1>13, <2>1 DEF DoneOK
<1>14. ASSUME NEW c \in Blocks("U"), c.id \in Bufs("U"), NEW x \in Blocks("L")', x.name = c.name
       PROVE  Announced(x.id)'
  <2>1. x \in Blocks("L")
    BY <1>1, <1>14 DEF ForgottenFacts
  <2> QED  BY <1>6, <1>7, <1>9, <1>14, <2>1 DEF DoneOK
<1>15. DoneOK'
  BY <1>1, <1>2, <1>12, <1>13, <1>14 DEF DoneOK
<1> QED  BY <1>10, <1>11, <1>15

LEMMA RemoveRem ==
    ASSUME MbInv, Types', UpOK, RemOK, NEW f, NEW gone, RemoveRead(f, gone)
    PROVE  RemOK'
<1>s. PICK s \in Seq(Frame) : s = line["L"]
  BY EndFacts DEF MbInv
<1>T. "L" \in End /\ "U" \in End /\ Types /\ current \in Nat /\ current' \in Nat
  BY EndFacts DEF MbInv, Types
<1>1. /\ s # <<>> /\ f = Head(s) /\ f.t = "remove"
      /\ gone = Elements(f.ids) \intersect Bufs("U")
      /\ line'["L"] = Tail(s) /\ line'["U"] = line["U"]
      /\ mblk'["L"] = mblk["L"] /\ Blocks("U")' = {b \in Blocks("U") : b.id \notin gone}
      /\ Ids(sbuf'["U"]) = Ids(sbuf["U"]) \ gone /\ Ids(tbuf'["U"]) = Ids(tbuf["U"]) \ gone
      /\ sbuf'["L"] = sbuf["L"] /\ tbuf'["L"] = tbuf["L"]
      /\ UNCHANGED <<lastId, current, reqs, open>>
  BY <1>s DEF RemoveRead, RemoveFrame
<1>2. Pending \subseteq Pending' \union Elements(f.ids)
  BY <1>1, <1>s, AskedOnTail DEF Pending
<1>3. Both' = Both /\ Links("L")' = Links("L") /\ Bufs("U")' \subseteq Bufs("U")
  BY <1>1 DEF Both, Links, Bufs
<1>4. Blocks("L")' = Blocks("L") /\ \A n : Named("L", n)' <=> Named("L", n)
  BY <1>1 DEF Named, Blocks
<1>5. InfosOK' /\ \A g \in Elements(line'["L"]) : g \in Elements(line["L"])
  <2>1. current' = 0 \/ (current # 0 /\ current <= current')
    BY <1>1, <1>T
  <2> QED  BY <1>1, <1>s, <1>T, <2>1, InfosStay DEF MbInv, RemOK
<1> SUFFICES ASSUME Both PROVE KeptOK' /\ SentOK' /\ DoneOK'
  BY <1>3, <1>5 DEF RemOK
<1>6. KeptOK /\ SentOK /\ DoneOK
  BY DEF RemOK
<1>7. KeptOK'
  <2>1. ASSUME NEW b \in Blocks("U"), b.id \notin gone, b.dyn
        PROVE  b.id \in Pending' \/ Named("L", b.name)
    <3>1. CASE b.id \in Pending
      <4>1. b.id \in Bufs("U")
        BY <3>1 DEF UpOK, GoingOK
      <4> QED  BY <1>1, <1>2, <2>1, <3>1, <4>1
    <3> QED  BY <1>6, <2>1, <3>1 DEF KeptOK
  <2> QED  BY <1>1, <1>4, <2>1 DEF KeptOK
<1>8. SentOK'
  BY <1>4, <1>5, <1>6 DEF SentOK
<1>9. \A id : Announced(id) => Announced(id)'
  BY <1>1, <1>5 DEF Announced
<1>10. DoneOK'
  BY <1>1, <1>3, <1>4, <1>6, <1>9 DEF DoneOK
<1> QED  BY <1>7, <1>8, <1>10

LEMMA CloseRem ==
    ASSUME MbInv, Types', RemOK, NEW e \in End, NEW o, Closed(e, o)
    PROVE  RemOK'
<1>T. /\ "L" \in End /\ "U" \in End /\ "L" # "U" /\ Other("L") = "U" /\ Other("U") = "L" /\ Types
      /\ current \in Nat /\ current' \in Nat
  BY EndFacts DEF MbInv, Types
<1>1. /\ o = Other(e) /\ ~open'[e] /\ line'[o] = <<>> /\ line'[e] = line[e]
      /\ e = "L" => current' = 0
      /\ e = "U" => current' = current
  BY DEF Closed
<1>2. ~Both'
  BY <1>1 DEF Both, End
<1>3. line'["L"] = line["L"] \/ line'["L"] = <<>>
  BY <1>1, <1>T DEF End
<1>4. current' = 0 \/ (current # 0 /\ current <= current')
  BY <1>1, <1>T DEF End
<1>5. InfosOK'
  BY <1>3, <1>4, <1>T, InfosStay DEF MbInv, RemOK
<1> QED  BY <1>2, <1>5 DEF RemOK

LEMMA FreshRem ==
    ASSUME StructOK, MbInv, Connected
    PROVE  RemOK'
<1>T. Types /\ "U" \in End
  BY EndFacts DEF MbInv
<1>1. /\ ~open["L"] /\ ~open["U"]
      /\ line'["L"] = <<>> /\ line'["U"] = <<>>
      /\ UNCHANGED <<mblk, lastId, sbuf, tbuf, scur, reqs>>
  BY DEF Connected
<1>2. Links("L")' = {} /\ Links("U") = {} /\ Bufs("U")' = Bufs("U") /\ Blocks("U")' = Blocks("U")
  BY <1>1 DEF StructOK, LowerOK, UpperOK, Links, Bufs, Blocks
<1>3. Bufs("U") = {}
  BY <1>2, <1>T, LinkFacts
<1>4. \A b \in Blocks("U") : ~b.dyn
  BY <1>3 DEF StructOK, UpperOK
<1>5. Elements(<<>>) = {} /\ InfosRise(<<>>)
  BY DEF Elements, InfosRise
<1>6. InfosOK' /\ KeptOK' /\ SentOK' /\ DoneOK'
  BY <1>1, <1>2, <1>3, <1>4, <1>5 DEF InfosOK, KeptOK, SentOK, DoneOK
<1> QED  BY <1>6 DEF RemOK

LEMMA InitRem == Init => RemOK
<1> SUFFICES ASSUME Init PROVE RemOK
  OBVIOUS
<1>1. ~Both /\ line["L"] = <<>>
  BY DEF Init, End, Both
<1>2. Elements(<<>>) = {} /\ InfosRise(<<>>)
  BY DEF Elements, InfosRise
<1> QED  BY <1>1, <1>2 DEF RemOK, InfosOK

LEMMA RemNext ==
    ASSUME MbInv, MbInv', StructOK, UpOK, RemOK, PatientNext
    PROVE  RemOK'
<1>T. Types /\ Types' /\ "L" \in End /\ "U" \in End /\ "L" # "U" /\ current \in Nat
  BY EndFacts DEF MbInv, End
<1>0. current = 0 \/ (current # 0 /\ current <= current)
  BY <1>T
<1>S. ASSUME SameLinks, mblk' = mblk, open' = open, reqs' = reqs, line' = line, current' = current
      PROVE  RemOK'
  <2>1. Pending' = Pending /\ InfosOK'
    BY <1>S DEF Pending, RemOK, InfosOK
  <2> QED  BY <1>0, <1>S, <1>T, <2>1, RemStays
<1>1. ASSUME SendRemove PROVE RemOK'
  BY <1>1, <1>T, SendRemoveDoes, SendRemoveRem
<1>2. ASSUME NEW e \in End, SendInfo(e) PROVE RemOK'
  BY <1>2, <1>T, SendInfoDoes, SendInfoRem
<1>3. ASSUME NEW e \in End, NEW i \in DOMAIN sbuf[e], SendData(e, i) PROVE RemOK'
  BY <1>3, <1>T, SendDataDoes, SendDataRem
<1>4. ASSUME NEW e \in End, ReceiveInfo(e) PROVE RemOK'
  BY <1>4, <1>T, ReadInfoDoes, ReadInfoRem
<1>5. ASSUME NEW e \in End, ReceiveData(e) \/ (e = "L" /\ IgnoreInfo) PROVE RemOK'
  BY <1>5, <1>T, SkipDoes, SkipRem
<1>6. ASSUME ReceiveRemove PROVE RemOK'
  BY <1>6, <1>T, RemoveDoes, RemoveRem
<1>7. ASSUME NEW n \in Names, Forgotten(n), AddMblk(n) PROVE RemOK'
  BY <1>7, <1>T, AddDoes, AddRem, ForgottenMeans
<1>8. ASSUME NEW id \in Ids(mblk["L"]), Answered(id), DeviceDropped(id) PROVE RemOK'
  BY <1>8, <1>T, DropDoes, DropRem
<1>9. ASSUME NEW e \in End, NEW i \in DOMAIN sbuf[e], Send(e, i) PROVE RemOK'
  <2>1. SameLinks
    BY <1>T, <1>9, FlagDoes DEF Send
  <2> QED  BY <1>9, <1>S, <2>1 DEF Send, cursors
<1>10. ASSUME Connect PROVE RemOK'
  BY <1>10, ConnectDoes, FreshRem
<1>11. ASSUME NEW e \in End, Close(e) PROVE RemOK'
  BY <1>11, <1>T, CloseDoes, CloseRem
<1>12. ASSUME UNCHANGED vars PROVE RemOK'
  <2>1. SameLinks
    BY <1>12, SameLinksSame DEF vars
  <2> QED  BY <1>12, <1>S, <2>1 DEF vars
<1> QED  BY <1>1, <1>2, <1>3, <1>4, <1>5, <1>6, <1>7, <1>8, <1>9, <1>10, <1>11, <1>12, <1>T
         DEF PatientNext, Work

LEMMA RemovalsArrive ==
    ASSUME UpOK, RemOK, MbInv
    PROVE  RemovalsReachTop
<1> SUFFICES ASSUME Quiet PROVE \A b \in Range(mblk["U"]) :
                 b.dyn => \E a \in Range(mblk["L"]) : a.name = b.name
  BY DEF RemovalsReachTop
<1>T. Range(mblk["L"]) = Blocks("L") /\ Range(mblk["U"]) = Blocks("U")
  BY EndFacts, ElementFacts DEF MbInv, Blocks
<1>1. Both /\ reqs = <<>> /\ line["L"] = <<>>
  BY DEF Quiet, Both, End
<1>2. Pending = {}
  <2>1. Asked(<<>>) = {} /\ AskedOn(<<>>) = {}
    BY DEF Asked, AskedOn
  <2> QED  BY <1>1, <2>1 DEF Pending
<1> QED  BY <1>1, <1>2, <1>T DEF RemOK, KeptOK, Named

----------------------------------------------------------------------------
\* Everything above, of the model's own steps: the second half is about
\* patient devices.
PatientInv == MbInv /\ StructOK /\ DownOK /\ (patient => UpOK /\ RemOK)

LEMMA PatientSteps ==
    ASSUME [MCNext]_mcVars
    PROVE  patient' = patient /\ [Next]_vars /\ (patient => PatientNext)
<1>1. ASSUME MCAdd PROVE patient' = patient /\ Next /\ (patient => PatientNext)
  BY <1>1 DEF MCAdd, Next, PatientNext
<1>2. ASSUME MCDrop PROVE patient' = patient /\ Next /\ (patient => PatientNext)
  BY <1>2 DEF MCDrop, Next, PatientNext
<1>3. ASSUME MCSend PROVE patient' = patient /\ Next /\ PatientNext
  BY <1>3 DEF MCSend, Next, PatientNext
<1>4. ASSUME MCClose PROVE patient' = patient /\ Next /\ PatientNext
  BY <1>4 DEF MCClose, Next, PatientNext
<1>5. ASSUME MCFollow PROVE patient' = patient /\ Next /\ PatientNext
  BY <1>5 DEF MCFollow, Next, PatientNext
<1>6. ASSUME MCWork PROVE patient' = patient /\ Next /\ PatientNext
  BY <1>6 DEF MCWork, Next, PatientNext
<1>7. ASSUME UNCHANGED mcVars PROVE patient' = patient /\ UNCHANGED vars /\ PatientNext
  BY <1>7 DEF mcVars, PatientNext
<1> QED  BY <1>1, <1>2, <1>3, <1>4, <1>5, <1>6, <1>7 DEF MCNext

\* Blocks, buffers, frames and requests stay together as PatientInv says,
\* for devices that come and go, connections that are lost and made again.
THEOREM PatientInvariance == MCSpec => []PatientInv
<1>1. MCInit => PatientInv
  BY InitInv, InitStruct, InitDown, InitUp, InitRem DEF MCInit, PatientInv
<1>2. PatientInv /\ [MCNext]_mcVars => PatientInv'
  <2> SUFFICES ASSUME PatientInv, [MCNext]_mcVars PROVE PatientInv'
    OBVIOUS
  <2>1. patient' = patient /\ [Next]_vars /\ (patient => PatientNext)
    BY PatientSteps
  <2>2. MbInv /\ StructOK /\ DownOK /\ (patient => UpOK /\ RemOK)
    BY DEF PatientInv
  <2>3. MbInv'
    BY <2>1, <2>2, NextInv
  <2>4. StructOK' /\ DownOK'
    BY <2>1, <2>2, <2>3, StructNext, DownNext
  <2>5. patient => UpOK' /\ RemOK'
    BY <2>1, <2>2, <2>3, UpNext, RemNext
  <2> QED  BY <2>1, <2>3, <2>4, <2>5 DEF PatientInv
<1> QED  BY <1>1, <1>2, PTL DEF MCSpec

\* Whether devices are patient or not: data from the upper end finds its
\* target buffer at the lower end, or its block was deleted meanwhile.
THEOREM DownDataArrives == Spec => []LowerFindsTarget
<1>1. Init => MbInv /\ StructOK /\ DownOK
  BY InitInv, InitStruct, InitDown
<1>2. MbInv /\ StructOK /\ DownOK /\ [Next]_vars => (MbInv /\ StructOK /\ DownOK)'
  BY NextInv, StructNext, DownNext
<1>3. MbInv /\ StructOK /\ DownOK => LowerFindsTarget
  BY LowerData
<1> QED  BY <1>1, <1>2, <1>3, PTL DEF Spec

\* Of patient devices: no data frame is dropped by
\* ioc_process_received_data_frame as "data for unlinked memory block".
THEOREM PatientDataArrives == MCSpec => []PatientData
<1>1. PatientInv => PatientData
  BY DataArrives DEF PatientInv, PatientData
<1> QED  BY <1>1, PatientInvariance, PTL

\* Of patient devices: when nothing is left to do, a block whose device is
\* gone is gone at the upper end too (ioc_generate_del_mblk_request).
THEOREM PatientBlocksRemoved == MCSpec => []PatientRemovals
<1>1. PatientInv => PatientRemovals
  BY RemovalsArrive DEF PatientInv, PatientRemovals
<1> QED  BY <1>1, PatientInvariance, PTL
=============================================================================
