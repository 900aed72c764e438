--------------------------- MODULE Switchbox_proofs ---------------------------
(***************************************************************************)
(* Proof that the streams of the clients that share a connection stay      *)
(* apart and that the messages on it stay framed, for every set of         *)
(* clients, every number of ids and every size of the rings, as long as no *)
(* id is given again while it is in use.                                   *)
(*                                                                         *)
(* The invariant is stated for values H, K, U of hub, con and user, so     *)
(* that it can be said of the states inside one pass of the loop too.      *)
(* id[c] is the client id that c has at one end or on the way; 0 before it *)
(* connects, and when another connection has been given it.                *)
(***************************************************************************)
EXTENDS Switchbox, TLAPS, SequenceTheorems, WellFoundedInduction, FiniteSetTheorems

States == {"none", "run", "stop", "gone"}
There == {"run", "stop"}

Item == {x \in [t : {"hdr", "byte"}, id : Int, c : Client \union {"nobody"}, len : Int] :
           x.t = "byte" => x.id = 0}
Hub == [up : BOOLEAN, in : Seq(Item), out : Seq(Item), id : Int, n : Nat, list : Seq(Client),
        ix : Nat, hung : BOOLEAN]
Con == [st : States, id : Int, newSent : BOOLEAN, dropDone : BOOLEAN,
        in : Seq(Item), out : Seq(Item)]
User == [sent : Nat, got : Seq(Item), left : BOOLEAN]

Typed(H, K, U) ==
    /\ H \in [Side -> Hub]
    /\ K \in [Side -> [Client -> Con]]
    /\ U \in [Side -> [Client -> User]]

----------------------------------------------------------------------------
(* The items on their way.                                                 *)

IsByte(x, c) == x.t = "byte" /\ x.c = c
IsNew(x, c) == x.t = "hdr" /\ x.len = NewConnection /\ x.c = c

\* The bytes that follow a header.
Span(x) == IF x.len > 0 THEN x.len ELSE 0

\* After n more bytes comes a header, and after a header the bytes it
\* announces, of the connection it names, and the next header.  whole: the
\* last message is complete.
Framed(l, n, whole) ==
    /\ \A i \in 1 .. Len(l) : (i <= n => l[i].t = "byte") /\ (i = n + 1 => l[i].t = "hdr")
    /\ \A i, j \in 1 .. Len(l) : l[i].t = "hdr" /\ i < j =>
          /\ j <= i + Span(l[i]) => l[j].t = "byte" /\ l[j].c = l[i].c
          /\ j = i + Span(l[i]) + 1 => l[j].t = "hdr"
    /\ whole => /\ n <= Len(l)
                /\ \A i \in 1 .. Len(l) : l[i].t = "hdr" => i + Span(l[i]) <= Len(l)

\* An item has the id of the connection it is for.  cur: the id that the n
\* bytes are for.
Owned(l, n, cur, id, K) ==
    \A i \in 1 .. Len(l) :
        /\ l[i].t = "byte" \/ l[i].len > 0 \/ l[i].len = NewConnection =>
              l[i].c \in Client /\ K["box"][l[i].c].st # "none" /\ id[l[i].c] # 0
        /\ l[i].t = "hdr" /\ (l[i].len > 0 \/ l[i].len = NewConnection) => l[i].id = id[l[i].c]
        /\ i <= n => id[l[i].c] = cur

\* A connection is announced once, before its bytes.
News(l) ==
    \A i, j \in 1 .. Len(l) : l[i].t = "hdr" /\ l[i].len = NewConnection =>
        /\ IsNew(l[j], l[i].c) => j = i
        /\ IsByte(l[j], l[i].c) => i < j

\* The bytes of c on the way are among those it has sent off.
Bound(l, c, m) == \A i \in 1 .. Len(l) : IsByte(l[i], c) => 1 <= l[i].len /\ l[i].len <= m

\* They are the next ones after the k that have arrived, in order.  live: all
\* that were sent off are on the way.
Flow(l, c, k, m, live) ==
    /\ \A i \in 1 .. Len(l) : IsByte(l[i], c) =>
          /\ k < l[i].len
          /\ \A p \in k + 1 .. l[i].len : \E j \in 1 .. Len(l) : IsByte(l[j], c) /\ l[j].len = p
    /\ \A i, j \in 1 .. Len(l) : IsByte(l[i], c) /\ IsByte(l[j], c) /\ i < j => l[i].len < l[j].len
    /\ live => \A p \in k + 1 .. m : \E j \in 1 .. Len(l) : IsByte(l[j], c) /\ l[j].len = p

----------------------------------------------------------------------------
(* The connections.                                                        *)

Line(H, s) == H[Other(s)].in \o H[s].out
Listed(H, s, c) == c \in Range(H[s].list)
SentOff(K, U, s, c) == U[s][c].sent - Len(K[s][c].in)
Arrived(K, U, s, c) == Len(U[s][c].got) + Len(K[s][c].out)
NewOnWay(H, c) == \E i \in 1 .. Len(Line(H, "box")) : IsNew(Line(H, "box")[i], c)
Live(H, K, s, c) == H[s].up /\ Listed(H, s, c) /\ K[s][c].newSent
Expects(H, K, s, c) == (Listed(H, s, c) /\ K[s][c].newSent) \/ (s = "srv" /\ NewOnWay(H, c))

\* Nothing has happened at side s of c.
Pristine(K, U, s, c) == K[s][c] = NoCon /\ U[s][c].sent = 0 /\ U[s][c].got = <<>>

\* What waits at side s of c are the last bytes written, what has come there
\* are the first ones of the other side.
Ends(K, U, s, c) ==
    LET k == K[s][c]
        u == U[s][c]
    IN  /\ Len(k.in) <= u.sent
        /\ \A i \in 1 .. Len(k.in) : k.in[i] = Byte(c, u.sent - Len(k.in) + i)
        /\ \A i \in 1 .. Len(u.got) : u.got[i] = Byte(c, i)
        /\ \A i \in 1 .. Len(k.out) : k.out[i] = Byte(c, Len(u.got) + i)
        /\ Arrived(K, U, s, c) <= SentOff(K, U, Other(s), c)

\* From side s to the other side.
Way(H, K, U, id, s) ==
    LET l == Line(H, s)
        o == Other(s)
    IN  /\ Framed(l, H[o].n, H[s].up)
        /\ Owned(l, H[o].n, H[o].id, id, K)
        /\ News(l)
        /\ \A c \in Client :
              /\ Bound(l, c, SentOff(K, U, s, c))
              /\ Expects(H, K, o, c) =>
                    Flow(l, c, Arrived(K, U, o, c), SentOff(K, U, s, c), Live(H, K, s, c))

\* How far c is.
Stage(H, K, U, id, c) ==
    /\ K["box"][c].st = "none" => Pristine(K, U, "box", c) /\ ~Listed(H, "box", c)
    /\ K["box"][c].st = "none" \/ (K["box"][c].st \in There /\ ~K["box"][c].newSent) =>
          /\ Pristine(K, U, "srv", c) /\ SentOff(K, U, "box", c) = 0
          /\ H["srv"].up => ~NewOnWay(H, c)
    /\ H["srv"].up /\ NewOnWay(H, c) => Pristine(K, U, "srv", c)
    /\ K["srv"][c].st \in There => K["srv"][c].newSent
    /\ K["srv"][c].st = "none" => Pristine(K, U, "srv", c)
    /\ \A s \in Side :
          /\ Listed(H, s, c) => K[s][c].st \in There
          /\ K[s][c].st \in There => K[s][c].id = id[c] /\ id[c] # 0

Good(H, K, U, id) ==
    /\ Typed(H, K, U)
    /\ \A s \in Side : ~H[s].up => H[s] = Closed
    /\ \A s \in Side : H[Other(s)].up => Way(H, K, U, id, s)
    /\ \A c \in Client : Stage(H, K, U, id, c) /\ \A s \in Side : Ends(K, U, s, c)

\* Connections that have an id have different ones.
Apart(id) == \A c, d \in Client : id[c] = id[d] /\ id[c] # 0 => c = d

Numbered(id, last) == id \in [Client -> Int] /\ Apart(id) /\ last \in Nat

\* What has come for a user fits into its ring.
Fits(k) == \A c \in Client : Len(k[c].out) <= ConCap

SwitchInv ==
    /\ env \in Environments
    /\ \A s \in Side : Fits(con[s])
    /\ \E id \in [Client -> Int] : Numbered(id, lastId) /\ Good(hub, con, user, id)

----------------------------------------------------------------------------
(* Induction and recursion up to a number.                                 *)

\* A non-empty set of naturals has a least element.
LEMMA LeastNat ==
    ASSUME NEW S, S \subseteq Nat, S # {}
    PROVE  \E x \in S : \A y \in S : x <= y
<1> DEFINE R == OpToRel(<, Nat)
<1>1. PICK x \in S : \A y \in S : ~(<<y, x>> \in R)
  <2>1. IsWellFoundedOn(R, Nat)
    BY NatLessThanWellFounded
  <2> HIDE DEF R
  <2> QED  BY <2>1, WFMin, Zenon
<1>2. \A y \in S : ~(y < x)
  BY <1>1 DEF OpToRel
<1> HIDE DEF R
<1> QED  BY <1>2

\* What holds of 0 and goes on from each number to the next holds of all.
LEMMA Upwards ==
    ASSUME NEW n \in Nat, NEW S, 0 \in S, \A k \in 1 .. n : k - 1 \in S => k \in S
    PROVE  \A k \in 0 .. n : k \in S
<1> DEFINE B == {k \in 0 .. n : k \notin S}
<1>1. SUFFICES ASSUME B # {} PROVE FALSE
  OBVIOUS
<1>2. B \subseteq Nat
  OBVIOUS
<1>3. PICK k \in B : \A y \in B : k <= y
  <2> HIDE DEF B
  <2> QED  BY <1>1, <1>2, LeastNat
<1>4. k \in 1 .. n /\ k - 1 \in 0 .. n /\ k - 1 \notin B
  BY <1>3
<1> QED  BY <1>3, <1>4

\* A function defined by recursion up to n.
Defined(V, v, n, G) ==
    \E f \in [0 .. n -> V] : f[0] = v /\ \A i \in 1 .. n : f[i] = G[i][f[i - 1]]

LEMMA RecursionUpTo ==
    ASSUME NEW V, NEW v \in V, NEW n \in Nat, NEW G \in [1 .. n -> [V -> V]]
    PROVE  Defined(V, v, n, G)
<1> DEFINE Unfolds(k, f) == f \in [0 .. k -> V] /\ f[0] = v /\ \A i \in 1 .. k : f[i] = G[i][f[i - 1]]
           S == {k \in 0 .. n : \E f : Unfolds(k, f)}
<1>1. 0 \in S
  <2>1. Unfolds(0, [i \in 0 .. 0 |-> v])
    OBVIOUS
  <2> HIDE DEF Unfolds
  <2> QED  BY <2>1
<1>2. ASSUME NEW k \in 1 .. n, k - 1 \in S
      PROVE  k \in S
  <2>1. PICK f : Unfolds(k - 1, f)
    BY <1>2
  <2>2. f[k - 1] \in V /\ G[k][f[k - 1]] \in V
    <3>1. k - 1 \in 0 .. k - 1
      BY <1>2
    <3>2. f[k - 1] \in V
      BY <2>1, <3>1
    <3> QED  BY <3>2
  <2>x. PICK x \in V : x = G[k][f[k - 1]]
    BY <2>2
  <2>g. PICK g : g = [i \in 0 .. k |-> IF i = k THEN x ELSE f[i]]
    OBVIOUS
  <2>3. ASSUME NEW i \in 0 .. k, i # k
        PROVE  i \in 0 .. k - 1 /\ g[i] = f[i]
    BY <1>2, <2>3, <2>g
  <2>4. g \in [0 .. k -> V]
    BY <2>1, <2>3, <2>g
  <2>5. g[0] = v /\ g[k] = x
    BY <1>2, <2>1, <2>3, <2>g
  <2>6. ASSUME NEW i \in 1 .. k
        PROVE  g[i] = G[i][g[i - 1]]
    <3>1. g[i - 1] = f[i - 1]
      BY <2>3
    <3>2. CASE i = k
      BY <2>5, <2>x, <3>1, <3>2
    <3>3. CASE i # k
      <4>1. i \in 1 .. k - 1
        BY <3>3
      <4> QED  BY <2>1, <2>3, <3>1, <3>3, <4>1
    <3> QED  BY <3>2, <3>3
  <2>7. Unfolds(k, g)
    BY <2>4, <2>5, <2>6
  <2> HIDE DEF Unfolds
  <2> QED  BY <2>7
<1>3. \A k \in 0 .. n : k \in S
  <2> HIDE DEF S
  <2> QED  BY <1>1, <1>2, Upwards
<1>4. n \in S
  <2> HIDE DEF S
  <2> QED  BY <1>3
<1> QED  BY <1>4 DEF Defined

----------------------------------------------------------------------------
(* Lines that grow at their end and shrink at their beginning.             *)

Grown(l, m, l2) ==
    /\ l2 \in Seq(Item) /\ Len(l2) = Len(l) + Len(m)
    /\ \A i \in 1 .. Len(l) : l2[i] = l[i]
    /\ \A i \in 1 .. Len(m) : l2[Len(l) + i] = m[i]

Shrunk(l, d, l2) ==
    /\ l2 \in Seq(Item) /\ Len(l2) = Len(l) - d
    /\ \A i \in 1 .. Len(l2) : l2[i] = l[i + d]

LEMMA ConcatFacts ==
    ASSUME NEW S, NEW l \in Seq(S), NEW m \in Seq(S)
    PROVE  /\ l \o m \in Seq(S) /\ Len(l \o m) = Len(l) + Len(m)
           /\ \A i \in 1 .. Len(l) : (l \o m)[i] = l[i]
           /\ \A i \in 1 .. Len(m) : (l \o m)[Len(l) + i] = m[i]
OBVIOUS

LEMMA ConcatGrown ==
    ASSUME NEW l \in Seq(Item), NEW m \in Seq(Item)
    PROVE  Grown(l, m, l \o m)
BY ConcatFacts DEF Grown

LEMMA ItemsAssociative ==
    \A a, b, c \in Seq(Item) : (a \o b) \o c = a \o (b \o c)
BY ConcatAssociative

LEMMA SubSeqShrunk ==
    ASSUME NEW l \in Seq(Item), NEW d \in 0 .. Len(l)
    PROVE  Shrunk(l, d, SubSeq(l, d + 1, Len(l)))
<1>1. Len(l) \in Nat /\ \A i \in 1 .. Len(l) : l[i] \in Item
  OBVIOUS
<1>n. PICK n \in Nat : n = Len(l)
  BY <1>1
<1>r. PICK r : r = SubSeq(l, d + 1, n)
  OBVIOUS
<1>2. d + 1 \in Int /\ n \in Int /\ \A i \in d + 1 .. n : l[i] \in Item
  BY <1>1, <1>n
<1>3. /\ r \in Seq(Item) /\ Len(r) = (IF d + 1 <= n THEN n - (d + 1) + 1 ELSE 0)
      /\ \A i \in 1 .. n - (d + 1) + 1 : r[i] = l[d + 1 + i - 1]
  BY <1>2, <1>r, SubSeqProperties
<1>4. Len(r) = n - d
  BY <1>3, <1>n
<1>5. ASSUME NEW i \in 1 .. Len(r)
      PROVE  r[i] = l[i + d]
  <2>1. i \in 1 .. n - (d + 1) + 1 /\ d + 1 + i - 1 = i + d
    BY <1>4, <1>n
  <2> QED  BY <1>3, <2>1
<1> QED  BY <1>3, <1>4, <1>5, <1>n, <1>r DEF Shrunk

LEMMA SpanNat ==
    ASSUME NEW l \in Seq(Item), NEW i \in 1 .. Len(l)
    PROVE  l[i] \in Item /\ Span(l[i]) \in Nat
<1>1. l[i] \in Item
  OBVIOUS
<1>2. l[i].len \in Int
  BY <1>1 DEF Item
<1> QED  BY <1>1, <1>2 DEF Span

\* Every position of a longer line is one of the old line or of what was added.
LEMMA GrownIndex ==
    ASSUME NEW l \in Seq(Item), NEW m \in Seq(Item), NEW l2, Grown(l, m, l2),
           NEW i \in 1 .. Len(l2)
    PROVE  \/ i \in 1 .. Len(l) /\ l2[i] = l[i]
           \/ \E j \in 1 .. Len(m) : i = Len(l) + j /\ l2[i] = m[j]
<1>1. Len(l) \in Nat /\ Len(m) \in Nat /\ Len(l2) = Len(l) + Len(m)
  BY DEF Grown
<1>2. CASE i <= Len(l)
  BY <1>1, <1>2 DEF Grown
<1>3. CASE ~(i <= Len(l))
  <2>1. i - Len(l) \in 1 .. Len(m) /\ i = Len(l) + (i - Len(l))
    BY <1>1, <1>3
  <2> QED  BY <2>1 DEF Grown
<1> QED  BY <1>2, <1>3

LEMMA FramedGrown ==
    ASSUME NEW l \in Seq(Item), NEW m \in Seq(Item), NEW l2, Grown(l, m, l2), NEW n \in Nat,
           Framed(l, n, TRUE), Framed(m, 0, TRUE), Len(m) > 0
    PROVE  Framed(l2, n, TRUE)
<1>0. /\ Len(l) \in Nat /\ Len(m) \in Nat /\ Len(l2) = Len(l) + Len(m) /\ n <= Len(l)
      /\ \A i \in 1 .. Len(l) : l[i] \in Item /\ Span(l[i]) \in Nat
      /\ \A i \in 1 .. Len(m) : m[i] \in Item /\ Span(m[i]) \in Nat
  BY SpanNat DEF Grown, Framed
<1>1. m[1].t = "hdr" /\ 1 \in 1 .. Len(m)
  BY <1>0 DEF Framed
<1>2. ASSUME NEW i \in 1 .. Len(l2)
      PROVE  (i <= n => l2[i].t = "byte") /\ (i = n + 1 => l2[i].t = "hdr")
  <2>1. CASE i \in 1 .. Len(l) /\ l2[i] = l[i]
    BY <2>1 DEF Framed
  <2>2. ASSUME NEW j \in 1 .. Len(m), i = Len(l) + j, l2[i] = m[j]
        PROVE  (i <= n => l2[i].t = "byte") /\ (i = n + 1 => l2[i].t = "hdr")
    <3>1. ~(i <= n) /\ (i = n + 1 => j = 1)
      BY <1>0, <2>2
    <3> QED  BY <1>1, <2>2, <3>1
  <2> QED  BY <2>1, <2>2, GrownIndex
<1>3. ASSUME NEW i \in 1 .. Len(l2), NEW j \in 1 .. Len(l2), l2[i].t = "hdr", i < j
      PROVE  /\ j <= i + Span(l2[i]) => l2[j].t = "byte" /\ l2[j].c = l2[i].c
             /\ j = i + Span(l2[i]) + 1 => l2[j].t = "hdr"
  <2>1. CASE i \in 1 .. Len(l) /\ l2[i] = l[i]
    <3>1. i + Span(l[i]) <= Len(l) /\ Span(l[i]) \in Nat
      BY <1>0, <1>3, <2>1 DEF Framed
    <3>2. CASE j \in 1 .. Len(l) /\ l2[j] = l[j]
      BY <1>3, <2>1, <3>2 DEF Framed
    <3>3. ASSUME NEW q \in 1 .. Len(m), j = Len(l) + q, l2[j] = m[q]
          PROVE  ~(j <= i + Span(l[i])) /\ (j = i + Span(l[i]) + 1 => q = 1)
      BY <1>0, <3>1, <3>3
    <3> QED  BY <1>1, <2>1, <3>2, <3>3, GrownIndex
  <2>2. ASSUME NEW p \in 1 .. Len(m), i = Len(l) + p, l2[i] = m[p]
        PROVE  /\ j <= i + Span(l2[i]) => l2[j].t = "byte" /\ l2[j].c = l2[i].c
               /\ j = i + Span(l2[i]) + 1 => l2[j].t = "hdr"
    <3>1. PICK q \in 1 .. Len(m) : j = Len(l) + q /\ l2[j] = m[q]
      <4>1. ~(j \in 1 .. Len(l))
        BY <1>0, <1>3, <2>2
      <4>2. j \in 1 .. Len(l2)
        OBVIOUS
      <4>3. \/ j \in 1 .. Len(l) /\ l2[j] = l[j]
            \/ \E q \in 1 .. Len(m) : j = Len(l) + q /\ l2[j] = m[q]
        BY <4>2, GrownIndex
      <4> QED  BY <4>1, <4>3
    <3>2. p < q /\ m[p].t = "hdr" /\ Span(m[p]) \in Nat
      BY <1>0, <1>3, <2>2, <3>1
    <3>3. /\ q <= p + Span(m[p]) => m[q].t = "byte" /\ m[q].c = m[p].c
          /\ q = p + Span(m[p]) + 1 => m[q].t = "hdr"
      BY <3>2 DEF Framed
    <3>w. PICK w \in Nat : w = Span(m[p])
      BY <3>2
    <3>4. /\ j <= i + w => q <= p + w
          /\ j = i + w + 1 => q = p + w + 1
      BY <1>0, <2>2, <3>1
    <3> QED  BY <2>2, <3>1, <3>3, <3>4, <3>w
  <2> QED  BY <2>1, <2>2, GrownIndex
<1>4. n <= Len(l2)
  BY <1>0
<1>5. ASSUME NEW i \in 1 .. Len(l2), l2[i].t = "hdr"
      PROVE  i + Span(l2[i]) <= Len(l2)
  <2>1. CASE i \in 1 .. Len(l) /\ l2[i] = l[i]
    BY <1>0, <1>5, <2>1 DEF Framed
  <2>2. ASSUME NEW p \in 1 .. Len(m), i = Len(l) + p, l2[i] = m[p]
        PROVE  i + Span(l2[i]) <= Len(l2)
    <3>1. p + Span(m[p]) <= Len(m) /\ Span(m[p]) \in Nat
      BY <1>0, <1>5, <2>2 DEF Framed
    <3> QED  BY <1>0, <2>2, <3>1
  <2> QED  BY <2>1, <2>2, GrownIndex
<1> QED  BY <1>2, <1>3, <1>4, <1>5 DEF Framed

LEMMA OwnedGrown ==
    ASSUME NEW l \in Seq(Item), NEW m \in Seq(Item), NEW l2, Grown(l, m, l2), NEW n \in Nat,
           n <= Len(l), NEW cur, NEW id, NEW K, Owned(l, n, cur, id, K), Owned(m, 0, cur, id, K)
    PROVE  Owned(l2, n, cur, id, K)
<1>0. Len(l) \in Nat /\ Len(m) \in Nat
  OBVIOUS
<1> SUFFICES ASSUME NEW i \in 1 .. Len(l2)
             PROVE  /\ l2[i].t = "byte" \/ l2[i].len > 0 \/ l2[i].len = NewConnection =>
                          l2[i].c \in Client /\ K["box"][l2[i].c].st # "none" /\ id[l2[i].c] # 0
                    /\ l2[i].t = "hdr" /\ (l2[i].len > 0 \/ l2[i].len = NewConnection) =>
                          l2[i].id = id[l2[i].c]
                    /\ i <= n => id[l2[i].c] = cur
  BY DEF Owned
<1>1. CASE i \in 1 .. Len(l) /\ l2[i] = l[i]
  BY <1>1 DEF Owned
<1>2. ASSUME NEW j \in 1 .. Len(m), i = Len(l) + j, l2[i] = m[j]
      PROVE  /\ l2[i].t = "byte" \/ l2[i].len > 0 \/ l2[i].len = NewConnection =>
                   l2[i].c \in Client /\ K["box"][l2[i].c].st # "none" /\ id[l2[i].c] # 0
             /\ l2[i].t = "hdr" /\ (l2[i].len > 0 \/ l2[i].len = NewConnection) =>
                   l2[i].id = id[l2[i].c]
             /\ ~(i <= n)
  <2>1. ~(i <= n)
    BY <1>0, <1>2
  <2> QED  BY <1>2, <2>1 DEF Owned
<1> QED  BY <1>1, <1>2, GrownIndex

LEMMA NewsGrown ==
    ASSUME NEW l \in Seq(Item), NEW m \in Seq(Item), NEW l2, Grown(l, m, l2), News(l), News(m),
           \A i \in 1 .. Len(m), j \in 1 .. Len(l) : m[i].t = "hdr" /\ m[i].len = NewConnection =>
               ~IsNew(l[j], m[i].c) /\ ~IsByte(l[j], m[i].c)
    PROVE  News(l2)
<1>0. Len(l) \in Nat /\ Len(m) \in Nat
  OBVIOUS
<1> SUFFICES ASSUME NEW i \in 1 .. Len(l2), NEW j \in 1 .. Len(l2),
                    l2[i].t = "hdr", l2[i].len = NewConnection
             PROVE  /\ IsNew(l2[j], l2[i].c) => j = i
                    /\ IsByte(l2[j], l2[i].c) => i < j
  BY DEF News
<1>1. CASE i \in 1 .. Len(l) /\ l2[i] = l[i]
  <2>1. CASE j \in 1 .. Len(l) /\ l2[j] = l[j]
    BY <1>1, <2>1 DEF News
  <2>2. ASSUME NEW q \in 1 .. Len(m), j = Len(l) + q, l2[j] = m[q]
        PROVE  ~IsNew(l2[j], l2[i].c) /\ i < j
    <3>1. i < j
      BY <1>0, <1>1, <2>2
    <3>2. ~IsNew(m[q], l[i].c)
      BY <1>1 DEF IsNew
    <3> QED  BY <1>1, <2>2, <3>1, <3>2
  <2> QED  BY <2>1, <2>2, GrownIndex
<1>2. ASSUME NEW p \in 1 .. Len(m), i = Len(l) + p, l2[i] = m[p]
      PROVE  /\ IsNew(l2[j], l2[i].c) => j = i
             /\ IsByte(l2[j], l2[i].c) => i < j
  <2>1. CASE j \in 1 .. Len(l) /\ l2[j] = l[j]
    BY <1>2, <2>1
  <2>2. ASSUME NEW q \in 1 .. Len(m), j = Len(l) + q, l2[j] = m[q]
        PROVE  /\ IsNew(l2[j], l2[i].c) => j = i
               /\ IsByte(l2[j], l2[i].c) => i < j
    <3>1. /\ IsNew(m[q], m[p].c) => q = p
          /\ IsByte(m[q], m[p].c) => p < q
      BY <1>2 DEF News
    <3> QED  BY <1>0, <1>2, <2>2, <3>1
  <2> QED  BY <2>1, <2>2, GrownIndex
<1>3. \/ i \in 1 .. Len(l) /\ l2[i] = l[i]
      \/ \E p \in 1 .. Len(m) : i = Len(l) + p /\ l2[i] = m[p]
  BY GrownIndex
<1> QED  BY <1>1, <1>2, <1>3

LEMMA NoneBound ==
    ASSUME NEW l \in Seq(Item), NEW c, Bound(l, c, 0)
    PROVE  \A i \in 1 .. Len(l) : ~IsByte(l[i], c)
<1> SUFFICES ASSUME NEW i \in 1 .. Len(l), IsByte(l[i], c)
             PROVE  FALSE
  OBVIOUS
<1>1. l[i] \in Item
  OBVIOUS
<1>2. PICK v \in Int : v = l[i].len
  BY <1>1 DEF Item
<1>3. 1 <= v /\ v <= 0
  BY <1>2 DEF Bound
<1> QED  BY <1>3

LEMMA BoundGrown ==
    ASSUME NEW l \in Seq(Item), NEW m \in Seq(Item), NEW l2, Grown(l, m, l2), NEW c,
           NEW n \in Int, NEW n2 \in Int, n <= n2, Bound(l, c, n), Bound(m, c, n2)
    PROVE  Bound(l2, c, n2)
<1> SUFFICES ASSUME NEW i \in 1 .. Len(l2), IsByte(l2[i], c)
             PROVE  1 <= l2[i].len /\ l2[i].len <= n2
  BY DEF Bound
<1>1. CASE i \in 1 .. Len(l) /\ l2[i] = l[i]
  <2>1. 1 <= l[i].len /\ l[i].len <= n /\ l[i] \in Item
    BY <1>1 DEF Bound
  <2>2. l[i].len \in Int
    BY <2>1 DEF Item
  <2> QED  BY <1>1, <2>1, <2>2
<1>2. ASSUME NEW j \in 1 .. Len(m), l2[i] = m[j]
      PROVE  1 <= l2[i].len /\ l2[i].len <= n2
  BY <1>2 DEF Bound
<1> QED  BY <1>1, <1>2, GrownIndex

\* Nothing of c is added.
LEMMA FlowGrownByOthers ==
    ASSUME NEW l \in Seq(Item), NEW m \in Seq(Item), NEW l2, Grown(l, m, l2), NEW c, NEW k, NEW n,
           NEW live, Flow(l, c, k, n, live), \A j \in 1 .. Len(m) : ~IsByte(m[j], c)
    PROVE  Flow(l2, c, k, n, live)
<1>1. ASSUME NEW i \in 1 .. Len(l2), IsByte(l2[i], c)
      PROVE  i \in 1 .. Len(l) /\ l2[i] = l[i]
  <2>1. ASSUME NEW j \in 1 .. Len(m), l2[i] = m[j]
        PROVE  FALSE
    BY <1>1, <2>1
  <2> QED  BY <2>1, GrownIndex
<1>2. \A i \in 1 .. Len(l) : i \in 1 .. Len(l2) /\ l2[i] = l[i]
  <2>1. Len(l) \in Nat /\ Len(m) \in Nat
    OBVIOUS
  <2> QED  BY <2>1 DEF Grown
<1> QED  BY <1>1, <1>2 DEF Flow

\* The next bytes of c are added.
LEMMA FlowGrownInTurn ==
    ASSUME NEW l \in Seq(Item), NEW m \in Seq(Item), NEW l2, Grown(l, m, l2), NEW c,
           NEW k \in Nat, NEW n \in Nat, NEW n2 \in Nat, n <= n2, k <= n,
           Flow(l, c, k, n, TRUE), Bound(l, c, n),
           \A j \in 1 .. Len(m) : IsByte(m[j], c) => m[j].len > n /\ m[j].len <= n2,
           \A p \in n + 1 .. n2 : \E j \in 1 .. Len(m) : IsByte(m[j], c) /\ m[j].len = p,
           \A i, j \in 1 .. Len(m) : IsByte(m[i], c) /\ IsByte(m[j], c) /\ i < j => m[i].len < m[j].len
    PROVE  Flow(l2, c, k, n2, TRUE)
<1>0. /\ Len(l) \in Nat /\ Len(m) \in Nat
      /\ \A j \in 1 .. Len(m) : m[j].len \in Int
      /\ \A j \in 1 .. Len(l) : l[j].len \in Int
  <2>1. \A j \in 1 .. Len(m) : m[j] \in Item
    OBVIOUS
  <2>2. \A j \in 1 .. Len(l) : l[j] \in Item
    OBVIOUS
  <2> QED  BY <2>1, <2>2 DEF Item
<1>g. \A i \in 1 .. Len(l2) : \/ i \in 1 .. Len(l) /\ l2[i] = l[i]
                             \/ \E p \in 1 .. Len(m) : i = Len(l) + p /\ l2[i] = m[p]
  BY GrownIndex
<1>1. \A i \in 1 .. Len(l) : i \in 1 .. Len(l2) /\ l2[i] = l[i]
  BY DEF Grown
<1>2. \A j \in 1 .. Len(m) : Len(l) + j \in 1 .. Len(l2) /\ l2[Len(l) + j] = m[j]
  BY <1>0 DEF Grown
<1>3. ASSUME NEW p \in k + 1 .. n2
      PROVE  \E j \in 1 .. Len(l2) : IsByte(l2[j], c) /\ l2[j].len = p
  <2>1. CASE p <= n
    <3>1. p \in k + 1 .. n
      BY <2>1
    <3>2. PICK j \in 1 .. Len(l) : IsByte(l[j], c) /\ l[j].len = p
      BY <3>1 DEF Flow
    <3> QED  BY <1>1, <3>2
  <2>2. CASE ~(p <= n)
    <3>1. p \in n + 1 .. n2
      BY <2>2
    <3>2. PICK j \in 1 .. Len(m) : IsByte(m[j], c) /\ m[j].len = p
      BY <3>1
    <3> QED  BY <1>2, <3>2
  <2> QED  BY <2>1, <2>2
<1>4. ASSUME NEW i \in 1 .. Len(l2), IsByte(l2[i], c)
      PROVE  k < l2[i].len /\ l2[i].len <= n2 /\ l2[i].len \in Int
  <2>1. CASE i \in 1 .. Len(l) /\ l2[i] = l[i]
    <3>1. k < l[i].len /\ l[i].len <= n /\ l[i].len \in Int
      BY <1>0, <1>4, <2>1 DEF Flow, Bound
    <3> QED  BY <2>1, <3>1
  <2>2. ASSUME NEW j \in 1 .. Len(m), l2[i] = m[j]
        PROVE  k < l2[i].len /\ l2[i].len <= n2 /\ l2[i].len \in Int
    <3>1. m[j].len > n /\ m[j].len <= n2 /\ m[j].len \in Int
      BY <1>0, <1>4, <2>2
    <3> QED  BY <2>2, <3>1
  <2> QED  BY <2>1, <2>2, GrownIndex
<1>5. ASSUME NEW i \in 1 .. Len(l2), IsByte(l2[i], c), NEW p \in k + 1 .. l2[i].len
      PROVE  \E j \in 1 .. Len(l2) : IsByte(l2[j], c) /\ l2[j].len = p
  <2>1. p \in k + 1 .. n2
    BY <1>4, <1>5
  <2> QED  BY <1>3, <2>1
<1>6. ASSUME NEW i \in 1 .. Len(l2), NEW j \in 1 .. Len(l2), IsByte(l2[i], c), IsByte(l2[j], c), i < j
      PROVE  l2[i].len < l2[j].len
  <2>1. CASE i \in 1 .. Len(l) /\ l2[i] = l[i]
    <3>1. CASE j \in 1 .. Len(l) /\ l2[j] = l[j]
      BY <1>6, <2>1, <3>1 DEF Flow
    <3>2. ASSUME NEW q \in 1 .. Len(m), l2[j] = m[q]
          PROVE  l2[i].len < l2[j].len
      <4>1. l[i].len <= n /\ m[q].len > n /\ l[i].len \in Int /\ m[q].len \in Int
        BY <1>0, <1>6, <2>1, <3>2 DEF Bound
      <4> QED  BY <2>1, <3>2, <4>1
    <3> QED  BY <1>g, <3>1, <3>2
  <2>2. ASSUME NEW p \in 1 .. Len(m), i = Len(l) + p, l2[i] = m[p]
        PROVE  l2[i].len < l2[j].len
    <3>1. PICK q \in 1 .. Len(m) : j = Len(l) + q /\ l2[j] = m[q]
      <4>1. ~(j \in 1 .. Len(l))
        BY <1>0, <1>6, <2>2
      <4> QED  BY <1>g, <4>1
    <3>2. p < q
      BY <1>0, <1>6, <2>2, <3>1
    <3> QED  BY <1>6, <2>2, <3>1, <3>2
  <2>3. \/ i \in 1 .. Len(l) /\ l2[i] = l[i]
        \/ \E p \in 1 .. Len(m) : i = Len(l) + p /\ l2[i] = m[p]
    BY <1>g
  <2> QED  BY <2>1, <2>2, <2>3
<1> QED  BY <1>3, <1>4, <1>5, <1>6 DEF Flow

\* Positions of a shorter line.
LEMMA ShrunkIndex ==
    ASSUME NEW l \in Seq(Item), NEW d \in 0 .. Len(l), NEW l2, Shrunk(l, d, l2)
    PROVE  /\ Len(l) \in Nat /\ Len(l2) \in Nat /\ Len(l) = Len(l2) + d
           /\ \A i \in 1 .. Len(l2) : i + d \in 1 .. Len(l) /\ l2[i] = l[i + d]
           /\ \A j \in d + 1 .. Len(l) : j - d \in 1 .. Len(l2) /\ l2[j - d] = l[j]
<1>1. Len(l) \in Nat /\ Len(l2) = Len(l) - d /\ Len(l2) \in Nat /\ Len(l) = Len(l2) + d
  BY DEF Shrunk
<1>2. \A i \in 1 .. Len(l2) : i + d \in 1 .. Len(l) /\ l2[i] = l[i + d]
  BY <1>1 DEF Shrunk
<1>3. ASSUME NEW j \in d + 1 .. Len(l)
      PROVE  j - d \in 1 .. Len(l2) /\ l2[j - d] = l[j]
  <2>1. j - d \in 1 .. Len(l2) /\ (j - d) + d = j
    BY <1>1
  <2> QED  BY <1>2, <2>1
<1> QED  BY <1>1, <1>2, <1>3

\* A header is taken, or bytes that are due.
LEMMA FramedShrunk ==
    ASSUME NEW l \in Seq(Item), NEW d \in 0 .. Len(l), NEW l2, Shrunk(l, d, l2), NEW n \in Nat,
           NEW n2 \in Nat, NEW whole, Framed(l, n, whole),
           \/ d <= n /\ n2 = n - d
           \/ d = 1 /\ n = 0 /\ n2 = Span(l[1])
    PROVE  Framed(l2, n2, whole)
<1>0. /\ Len(l) \in Nat /\ Len(l2) \in Nat /\ Len(l) = Len(l2) + d
      /\ \A i \in 1 .. Len(l2) : i + d \in 1 .. Len(l) /\ l2[i] = l[i + d]
      /\ \A i \in 1 .. Len(l) : Span(l[i]) \in Nat
  BY ShrunkIndex, SpanNat
<1>1. ASSUME NEW i \in 1 .. Len(l2)
      PROVE  (i <= n2 => l2[i].t = "byte") /\ (i = n2 + 1 => l2[i].t = "hdr")
  <2>1. i + d \in 1 .. Len(l) /\ l2[i] = l[i + d]
    BY <1>0
  <2>2. CASE d <= n /\ n2 = n - d
    <3>1. (i <= n2 => i + d <= n) /\ (i = n2 + 1 => i + d = n + 1)
      BY <2>2
    <3> QED  BY <2>1, <3>1 DEF Framed
  <2>3. CASE d = 1 /\ n = 0 /\ n2 = Span(l[1])
    <3>1. 1 \in 1 .. Len(l) /\ l[1].t = "hdr"
      BY <1>0, <2>3 DEF Framed
    <3>2. 1 < i + d /\ (i <= n2 => i + d <= 1 + Span(l[1])) /\ (i = n2 + 1 => i + d = 1 + Span(l[1]) + 1)
      BY <2>3
    <3> QED  BY <2>1, <3>1, <3>2 DEF Framed
  <2> QED  BY <2>2, <2>3
<1>2. ASSUME NEW i \in 1 .. Len(l2), NEW j \in 1 .. Len(l2), l2[i].t = "hdr", i < j
      PROVE  /\ j <= i + Span(l2[i]) => l2[j].t = "byte" /\ l2[j].c = l2[i].c
             /\ j = i + Span(l2[i]) + 1 => l2[j].t = "hdr"
  <2>1. /\ i + d \in 1 .. Len(l) /\ l2[i] = l[i + d] /\ j + d \in 1 .. Len(l) /\ l2[j] = l[j + d]
        /\ i + d < j + d
    <3>1. i + d \in 1 .. Len(l) /\ l2[i] = l[i + d]
      BY <1>0
    <3>2. j + d \in 1 .. Len(l) /\ l2[j] = l[j + d]
      BY <1>0
    <3>3. i + d < j + d
      BY <1>2
    <3> QED  BY <3>1, <3>2, <3>3
  <2>w. PICK w \in Nat : w = Span(l[i + d])
    BY <1>0, <2>1
  <2>2. /\ j + d <= (i + d) + w => l[j + d].t = "byte" /\ l[j + d].c = l[i + d].c
        /\ j + d = (i + d) + w + 1 => l[j + d].t = "hdr"
    BY <1>2, <2>1, <2>w DEF Framed
  <2>3. (j <= i + w => j + d <= (i + d) + w) /\ (j = i + w + 1 => j + d = (i + d) + w + 1)
    OBVIOUS
  <2> QED  BY <2>1, <2>2, <2>3, <2>w
<1>3. ASSUME whole
      PROVE  n2 <= Len(l2)
  <2>1. CASE d <= n /\ n2 = n - d
    BY <1>0, <1>3, <2>1 DEF Framed
  <2>2. CASE d = 1 /\ n = 0 /\ n2 = Span(l[1])
    <3>1. 1 \in 1 .. Len(l) /\ l[1].t = "hdr"
      BY <1>0, <2>2 DEF Framed
    <3>2. 1 + Span(l[1]) <= Len(l)
      BY <1>3, <3>1 DEF Framed
    <3> QED  BY <1>0, <2>2, <3>2
  <2> QED  BY <2>1, <2>2
<1>4. ASSUME whole, NEW i \in 1 .. Len(l2), l2[i].t = "hdr"
      PROVE  i + Span(l2[i]) <= Len(l2)
  <2>w. PICK w \in Nat : w = Span(l[i + d])
    BY <1>0
  <2>1. (i + d) + w <= Len(l)
    BY <1>0, <1>4, <2>w DEF Framed
  <2>2. i + w <= Len(l2)
    BY <1>0, <2>1
  <2> QED  BY <1>0, <2>2, <2>w
<1> QED  BY <1>1, <1>2, <1>3, <1>4 DEF Framed

\* cur2, n2: what the next bytes are for after that.
LEMMA OwnedShrunk ==
    ASSUME NEW l \in Seq(Item), NEW d \in 0 .. Len(l), NEW l2, Shrunk(l, d, l2), NEW n \in Nat,
           NEW n2 \in Nat, NEW cur, NEW cur2, NEW id, NEW K, NEW whole,
           Framed(l, n, whole), Owned(l, n, cur, id, K),
           \/ d <= n /\ n2 = n - d /\ cur2 = cur
           \/ d = 1 /\ n = 0 /\ n2 = Span(l[1]) /\ (n2 > 0 => cur2 = l[1].id)
    PROVE  Owned(l2, n2, cur2, id, K)
<1>0. /\ Len(l) \in Nat /\ Len(l2) \in Nat /\ Len(l) = Len(l2) + d
      /\ \A i \in 1 .. Len(l2) : i + d \in 1 .. Len(l) /\ l2[i] = l[i + d]
      /\ \A i \in 1 .. Len(l) : Span(l[i]) \in Nat
  BY ShrunkIndex, SpanNat
<1> SUFFICES ASSUME NEW i \in 1 .. Len(l2)
             PROVE  /\ l2[i].t = "byte" \/ l2[i].len > 0 \/ l2[i].len = NewConnection =>
                          l2[i].c \in Client /\ K["box"][l2[i].c].st # "none" /\ id[l2[i].c] # 0
                    /\ l2[i].t = "hdr" /\ (l2[i].len > 0 \/ l2[i].len = NewConnection) =>
                          l2[i].id = id[l2[i].c]
                    /\ i <= n2 => id[l2[i].c] = cur2
  BY DEF Owned
<1>1. i + d \in 1 .. Len(l) /\ l2[i] = l[i + d]
  BY <1>0
<1>2. /\ l2[i].t = "byte" \/ l2[i].len > 0 \/ l2[i].len = NewConnection =>
            l2[i].c \in Client /\ K["box"][l2[i].c].st # "none" /\ id[l2[i].c] # 0
      /\ l2[i].t = "hdr" /\ (l2[i].len > 0 \/ l2[i].len = NewConnection) =>
            l2[i].id = id[l2[i].c]
  BY <1>1 DEF Owned
<1>3. ASSUME i <= n2
      PROVE  id[l2[i].c] = cur2
  <2>1. CASE d <= n /\ n2 = n - d /\ cur2 = cur
    <3>1. i + d <= n
      BY <1>3, <2>1
    <3> QED  BY <1>1, <2>1, <3>1 DEF Owned
  <2>2. CASE d = 1 /\ n = 0 /\ n2 = Span(l[1]) /\ (n2 > 0 => cur2 = l[1].id)
    <3>1. 1 \in 1 .. Len(l) /\ l[1].t = "hdr" /\ Span(l[1]) \in Nat
      BY <1>0, <2>2 DEF Framed
    <3>2. 1 < i + d /\ i + d <= 1 + Span(l[1]) /\ n2 > 0
      BY <1>3, <2>2, <3>1
    <3>3. l[i + d].c = l[1].c
      BY <1>1, <3>1, <3>2 DEF Framed
    <3>4. l[1].len > 0
      BY <2>2, <3>2 DEF Span
    <3>5. l[1].id = id[l[1].c]
      BY <3>1, <3>4 DEF Owned
    <3> QED  BY <1>1, <2>2, <3>2, <3>3, <3>5
  <2> QED  BY <2>1, <2>2
<1> QED  BY <1>2, <1>3

LEMMA NewsShrunk ==
    ASSUME NEW l \in Seq(Item), NEW d \in 0 .. Len(l), NEW l2, Shrunk(l, d, l2), News(l)
    PROVE  News(l2)
<1>0. \A i \in 1 .. Len(l2) : i + d \in 1 .. Len(l) /\ l2[i] = l[i + d]
  BY ShrunkIndex
<1> SUFFICES ASSUME NEW i \in 1 .. Len(l2), NEW j \in 1 .. Len(l2),
                    l2[i].t = "hdr", l2[i].len = NewConnection
             PROVE  /\ IsNew(l2[j], l2[i].c) => j = i
                    /\ IsByte(l2[j], l2[i].c) => i < j
  BY DEF News
<1>1. i + d \in 1 .. Len(l) /\ l2[i] = l[i + d] /\ j + d \in 1 .. Len(l) /\ l2[j] = l[j + d]
  BY <1>0
<1>2. /\ IsNew(l2[j], l2[i].c) => j + d = i + d
      /\ IsByte(l2[j], l2[i].c) => i + d < j + d
  BY <1>1 DEF News
<1>3. (j + d = i + d => j = i) /\ (i + d < j + d => i < j)
  OBVIOUS
<1> QED  BY <1>2, <1>3

LEMMA BoundShrunk ==
    ASSUME NEW l \in Seq(Item), NEW d \in 0 .. Len(l), NEW l2, Shrunk(l, d, l2), NEW c, NEW n,
           Bound(l, c, n)
    PROVE  Bound(l2, c, n)
<1>0. \A i \in 1 .. Len(l2) : i + d \in 1 .. Len(l) /\ l2[i] = l[i + d]
  BY ShrunkIndex
<1> QED  BY <1>0 DEF Bound

\* Nothing of c is taken.
LEMMA FlowShrunkByOthers ==
    ASSUME NEW l \in Seq(Item), NEW d \in 0 .. Len(l), NEW l2, Shrunk(l, d, l2), NEW c, NEW k, NEW n,
           NEW live, Flow(l, c, k, n, live), \A i \in 1 .. d : ~IsByte(l[i], c)
    PROVE  Flow(l2, c, k, n, live)
<1>0. /\ \A i \in 1 .. Len(l2) : i + d \in 1 .. Len(l) /\ l2[i] = l[i + d]
      /\ \A j \in d + 1 .. Len(l) : j - d \in 1 .. Len(l2) /\ l2[j - d] = l[j]
  BY ShrunkIndex
<1>1. ASSUME NEW p, \E j \in 1 .. Len(l) : IsByte(l[j], c) /\ l[j].len = p
      PROVE  \E j \in 1 .. Len(l2) : IsByte(l2[j], c) /\ l2[j].len = p
  <2>1. PICK j \in 1 .. Len(l) : IsByte(l[j], c) /\ l[j].len = p
    BY <1>1
  <2>2. j \in d + 1 .. Len(l)
    <3>1. ~(j \in 1 .. d)
      BY <2>1
    <3> QED  BY <3>1
  <2> QED  BY <1>0, <2>1, <2>2
<1>2. ASSUME NEW i \in 1 .. Len(l2), IsByte(l2[i], c)
      PROVE  /\ k < l2[i].len
             /\ \A p \in k + 1 .. l2[i].len : \E j \in 1 .. Len(l2) : IsByte(l2[j], c) /\ l2[j].len = p
  <2>1. i + d \in 1 .. Len(l) /\ l2[i] = l[i + d]
    BY <1>0
  <2>2. /\ k < l2[i].len
        /\ \A p \in k + 1 .. l2[i].len : \E j \in 1 .. Len(l) : IsByte(l[j], c) /\ l[j].len = p
    BY <1>2, <2>1 DEF Flow
  <2> QED  BY <1>1, <2>2
<1>3. ASSUME NEW i \in 1 .. Len(l2), NEW j \in 1 .. Len(l2), IsByte(l2[i], c), IsByte(l2[j], c), i < j
      PROVE  l2[i].len < l2[j].len
  <2>1. i + d \in 1 .. Len(l) /\ l2[i] = l[i + d] /\ j + d \in 1 .. Len(l) /\ l2[j] = l[j + d] /\ i + d < j + d
    BY <1>0, <1>3
  <2> QED  BY <1>3, <2>1 DEF Flow
<1>4. ASSUME live, NEW p \in k + 1 .. n
      PROVE  \E j \in 1 .. Len(l2) : IsByte(l2[j], c) /\ l2[j].len = p
  <2>1. \E j \in 1 .. Len(l) : IsByte(l[j], c) /\ l[j].len = p
    BY <1>4 DEF Flow
  <2> QED  BY <1>1, <2>1
<1> QED  BY <1>2, <1>3, <1>4 DEF Flow

\* The first bytes of c on the way are the next ones.
LEMMA NextBytes ==
    ASSUME NEW l \in Seq(Item), NEW d \in 0 .. Len(l), NEW c, NEW k \in Nat, NEW n, NEW live,
           Flow(l, c, k, n, live), \A i \in 1 .. d : IsByte(l[i], c)
    PROVE  \A i \in 1 .. d : l[i].len = k + i
<1>0. /\ Len(l) \in Nat /\ d \in Nat /\ d <= Len(l)
      /\ \A i \in 1 .. Len(l) : l[i].len \in Int
  <2>1. \A i \in 1 .. Len(l) : l[i] \in Item
    OBVIOUS
  <2> QED  BY <2>1 DEF Item
<1> DEFINE S == {i \in 0 .. d : \A j \in 1 .. i : l[j].len = k + j}
<1>1. 0 \in S
  BY <1>0
<1>2. ASSUME NEW i \in 1 .. d, i - 1 \in S
      PROVE  i \in S
  <2>0. i \in 1 .. Len(l) /\ IsByte(l[i], c) /\ \A j \in 1 .. i - 1 : l[j].len = k + j
    BY <1>0, <1>2
  <2>v. PICK v \in Int : v = l[i].len
    BY <1>0, <2>0
  <2>1. k + (i - 1) < v
    <3>1. CASE i = 1
      BY <2>0, <2>v, <3>1 DEF Flow
    <3>2. CASE i # 1
      <4>1. i - 1 \in 1 .. i - 1 /\ i - 1 \in 1 .. d /\ i - 1 \in 1 .. Len(l) /\ i - 1 < i
        BY <1>0, <3>2
      <4>2. l[i - 1].len < l[i].len
        BY <2>0, <4>1 DEF Flow
      <4>3. l[i - 1].len = k + (i - 1)
        BY <2>0, <4>1
      <4> QED  BY <2>v, <4>2, <4>3
    <3> QED  BY <3>1, <3>2
  <2>2. k + i \in k + 1 .. v
    BY <2>1
  <2>3. PICK j \in 1 .. Len(l) : IsByte(l[j], c) /\ l[j].len = k + i
    BY <2>0, <2>2, <2>v DEF Flow
  <2>4. ~(j < i)
    <3>1. ASSUME j < i
          PROVE  FALSE
      <4>1. j \in 1 .. i - 1
        BY <3>1
      <4>2. k + j = k + i
        BY <2>0, <2>3, <4>1
      <4> QED  BY <3>1, <4>2
    <3> QED  BY <3>1
  <2>5. ~(i < j)
    <3>1. ASSUME i < j
          PROVE  FALSE
      <4>1. v < k + i
        BY <2>0, <2>3, <2>v, <3>1 DEF Flow
      <4> QED  BY <2>1, <4>1
    <3> QED  BY <3>1
  <2>6. l[i].len = k + i
    BY <2>3, <2>4, <2>5
  <2>7. ASSUME NEW e \in 1 .. i
        PROVE  l[e].len = k + e
    <3>1. e \in 1 .. i - 1 \/ e = i
      OBVIOUS
    <3> QED  BY <2>0, <2>6, <3>1
  <2>8. i \in 0 .. d
    BY <1>0
  <2> QED  BY <2>7, <2>8
<1>3. \A i \in 0 .. d : i \in S
  <2> HIDE DEF S
  <2> QED  BY <1>0, <1>1, <1>2, Upwards
<1>4. d \in S
  <2> HIDE DEF S
  <2> QED  BY <1>0, <1>3
<1> QED  BY <1>4

\* They are taken.
LEMMA FlowTaken ==
    ASSUME NEW l \in Seq(Item), NEW d \in 0 .. Len(l), NEW l2, Shrunk(l, d, l2), NEW c, NEW k \in Nat,
           NEW n \in Int, NEW live, Flow(l, c, k, n, live), \A i \in 1 .. d : IsByte(l[i], c)
    PROVE  Flow(l2, c, k + d, n, live)
<1>0. /\ \A i \in 1 .. Len(l2) : i + d \in 1 .. Len(l) /\ l2[i] = l[i + d]
      /\ \A j \in d + 1 .. Len(l) : j - d \in 1 .. Len(l2) /\ l2[j - d] = l[j]
      /\ d \in Nat /\ Len(l) \in Nat
      /\ \A i \in 1 .. Len(l) : l[i].len \in Int
  <2>1. \A i \in 1 .. Len(l) : l[i] \in Item
    OBVIOUS
  <2>2. \A i \in 1 .. Len(l) : l[i].len \in Int
    BY <2>1 DEF Item
  <2>3. Len(l) \in Nat
    OBVIOUS
  <2> QED  BY <2>2, <2>3, ShrunkIndex
<1>n. \A i \in 1 .. d : l[i].len = k + i
  BY NextBytes
<1>1. ASSUME NEW p \in Int, k + d < p, \E j \in 1 .. Len(l) : IsByte(l[j], c) /\ l[j].len = p
      PROVE  \E j \in 1 .. Len(l2) : IsByte(l2[j], c) /\ l2[j].len = p
  <2>1. PICK j \in 1 .. Len(l) : IsByte(l[j], c) /\ l[j].len = p
    BY <1>1
  <2>2. j \in d + 1 .. Len(l)
    <3>1. ASSUME j \in 1 .. d
          PROVE  FALSE
      <4>1. p = k + j
        BY <1>n, <2>1, <3>1
      <4> QED  BY <1>0, <1>1, <3>1, <4>1
    <3> QED  BY <1>0, <3>1
  <2> QED  BY <1>0, <2>1, <2>2
<1>2. ASSUME NEW i \in 1 .. Len(l2), IsByte(l2[i], c)
      PROVE  /\ k + d < l2[i].len
             /\ \A p \in k + d + 1 .. l2[i].len : \E j \in 1 .. Len(l2) : IsByte(l2[j], c) /\ l2[j].len = p
  <2>1. i + d \in 1 .. Len(l) /\ l2[i] = l[i + d]
    BY <1>0
  <2>v. PICK v \in Int : v = l[i + d].len
    BY <1>0, <2>1
  <2>2. /\ k < v
        /\ \A p \in k + 1 .. v : \E j \in 1 .. Len(l) : IsByte(l[j], c) /\ l[j].len = p
    BY <1>2, <2>1, <2>v DEF Flow
  <2>3. k + d < v
    <3>1. CASE d = 0
      BY <2>2, <3>1
    <3>2. CASE d # 0
      <4>1. d \in 1 .. d /\ d \in 1 .. Len(l) /\ d < i + d
        BY <1>0, <3>2
      <4>2. IsByte(l[d], c) /\ IsByte(l[i + d], c)
        BY <1>2, <2>1, <4>1
      <4>3. l[d].len < v
        BY <2>1, <2>v, <4>1, <4>2 DEF Flow
      <4>4. l[d].len = k + d
        BY <1>n, <4>1
      <4> QED  BY <4>3, <4>4
    <3> QED  BY <3>1, <3>2
  <2>4. ASSUME NEW p \in k + d + 1 .. v
        PROVE  \E j \in 1 .. Len(l2) : IsByte(l2[j], c) /\ l2[j].len = p
    <3>1. p \in Int /\ p \in k + 1 .. v /\ k + d < p
      BY <1>0
    <3>2. \E j \in 1 .. Len(l) : IsByte(l[j], c) /\ l[j].len = p
      BY <2>2, <3>1
    <3> QED  BY <1>1, <3>1, <3>2
  <2> QED  BY <2>1, <2>3, <2>4, <2>v
<1>3. ASSUME NEW i \in 1 .. Len(l2), NEW j \in 1 .. Len(l2), IsByte(l2[i], c), IsByte(l2[j], c), i < j
      PROVE  l2[i].len < l2[j].len
  <2>1. i + d \in 1 .. Len(l) /\ l2[i] = l[i + d] /\ j + d \in 1 .. Len(l) /\ l2[j] = l[j + d] /\ i + d < j + d
    BY <1>0, <1>3
  <2> QED  BY <1>3, <2>1 DEF Flow
<1>4. ASSUME live, NEW p \in k + d + 1 .. n
      PROVE  \E j \in 1 .. Len(l2) : IsByte(l2[j], c) /\ l2[j].len = p
  <2>0. p \in k + 1 .. n /\ k + d < p
    BY <1>0
  <2>1. \E j \in 1 .. Len(l) : IsByte(l[j], c) /\ l[j].len = p
    BY <1>4, <2>0 DEF Flow
  <2> QED  BY <1>1, <2>0, <2>1
<1> QED  BY <1>2, <1>3, <1>4 DEF Flow

\* A line that is cut off.
LEMMA LineCut ==
    ASSUME NEW l \in Seq(Item), NEW m \in Seq(Item), NEW l2, Grown(l, m, l2), NEW n \in Nat, NEW cur,
           NEW id, NEW K, NEW whole
    PROVE  /\ Framed(l2, n, whole) => Framed(l, n, FALSE)
           /\ Owned(l2, n, cur, id, K) => Owned(l, n, cur, id, K)
           /\ News(l2) => News(l)
           /\ \A c, q : Bound(l2, c, q) => Bound(l, c, q)
           /\ \A c, k, q, live : Flow(l2, c, k, q, live) => Flow(l, c, k, q, FALSE)
<1>1. \A i \in 1 .. Len(l) : i \in 1 .. Len(l2) /\ l2[i] = l[i]
  <2>1. Len(l) \in Nat /\ Len(m) \in Nat
    OBVIOUS
  <2> QED  BY <2>1 DEF Grown
<1>2. Framed(l2, n, whole) => Framed(l, n, FALSE)
  BY <1>1 DEF Framed
<1>3. Owned(l2, n, cur, id, K) => Owned(l, n, cur, id, K)
  BY <1>1 DEF Owned
<1>4. News(l2) => News(l)
  BY <1>1 DEF News
<1>5. \A c, q : Bound(l2, c, q) => Bound(l, c, q)
  BY <1>1 DEF Bound
<1>6. ASSUME NEW c, NEW k, NEW q, NEW live, Flow(l2, c, k, q, live)
      PROVE  Flow(l, c, k, q, FALSE)
  <2>0. /\ Len(l) \in Nat
        /\ \A i \in 1 .. Len(l) : l[i].len \in Int
        /\ \A i \in 1 .. Len(l2) : l2[i].len \in Int
    <3>1. \A i \in 1 .. Len(l) : l[i] \in Item
      OBVIOUS
    <3>2. \A i \in 1 .. Len(l2) : l2[i] \in Item
      BY DEF Grown
    <3> QED  BY <3>1, <3>2 DEF Item
  <2>1. ASSUME NEW i \in 1 .. Len(l), IsByte(l[i], c)
        PROVE  /\ k < l[i].len
               /\ \A p \in k + 1 .. l[i].len : \E j \in 1 .. Len(l) : IsByte(l[j], c) /\ l[j].len = p
    <3>1. /\ k < l[i].len
          /\ \A p \in k + 1 .. l[i].len : \E j \in 1 .. Len(l2) : IsByte(l2[j], c) /\ l2[j].len = p
      BY <1>1, <1>6, <2>1 DEF Flow
    <3>2. ASSUME NEW p \in k + 1 .. l[i].len
          PROVE  \E j \in 1 .. Len(l) : IsByte(l[j], c) /\ l[j].len = p
      <4>1. PICK j \in 1 .. Len(l2) : IsByte(l2[j], c) /\ l2[j].len = p
        BY <3>1
      <4>2. ~(i < j)
        <5>1. ASSUME i < j
              PROVE  FALSE
          <6>1. l2[i].len < l2[j].len /\ l2[i].len = l[i].len
            BY <1>1, <1>6, <2>1, <4>1, <5>1 DEF Flow
          <6> QED  BY <2>0, <4>1, <6>1
        <5> QED  BY <5>1
      <4>3. j \in 1 .. Len(l)
        BY <2>0, <4>2
      <4> QED  BY <1>1, <4>1, <4>3
    <3> QED  BY <3>1, <3>2
  <2>2. \A i, j \in 1 .. Len(l) : IsByte(l[i], c) /\ IsByte(l[j], c) /\ i < j => l[i].len < l[j].len
    BY <1>1, <1>6 DEF Flow
  <2> QED  BY <2>1, <2>2 DEF Flow
<1> QED  BY <1>2, <1>3, <1>4, <1>5, <1>6

----------------------------------------------------------------------------
(* Walks through the list of connections.                                  *)

LEMMA RangeFacts ==
    ASSUME NEW T, NEW list \in Seq(T)
    PROVE  /\ Range(list) = {list[i] : i \in 1 .. Len(list)}
           /\ Range(list) \subseteq T /\ Len(list) \in Nat
           /\ \A i \in 1 .. Len(list) : list[i] \in Range(list) /\ list[i] \in T
<1>1. DOMAIN list = 1 .. Len(list) /\ Len(list) \in Nat /\ \A i \in 1 .. Len(list) : list[i] \in T
  OBVIOUS
<1>2. Range(list) = {list[i] : i \in 1 .. Len(list)}
  BY <1>1 DEF Range
<1>3. \A i \in 1 .. Len(list) : list[i] \in Range(list)
  BY <1>2
<1>4. Range(list) \subseteq T
  BY <1>1, <1>2
<1> QED  BY <1>1, <1>2, <1>3, <1>4

FoundBy(list, S, f) ==
    f = [k \in 0 .. Len(list) |->
            IF k = 0 THEN <<>>
            ELSE IF list[k] \in S THEN Append(f[k - 1], list[k])
            ELSE f[k - 1]]

LEMMA FoundFacts ==
    ASSUME NEW T, NEW list \in Seq(T), NEW S
    PROVE  /\ Found(list, S) \in Seq(T)
           /\ Range(Found(list, S)) \subseteq Range(list) \intersect S
           /\ Found(list, S) = <<>> => \A c \in Range(list) : c \notin S
<1>W. PICK W : W = {c \in T : c \in Range(list) /\ c \in S}
  OBVIOUS
<1>V. PICK V : V = Seq(W)
  OBVIOUS
<1>n. PICK n \in Nat : n = Len(list)
  OBVIOUS
<1>0. /\ \A i \in 1 .. n : list[i] \in Range(list) /\ list[i] \in T
      /\ <<>> \in V
      /\ \A c \in Range(list) : \E i \in 1 .. n : c = list[i]
  BY <1>V, <1>n, RangeFacts
<1>G. PICK G : G = [i \in 1 .. n |-> [x \in V |-> IF list[i] \in S THEN Append(x, list[i]) ELSE x]]
  OBVIOUS
<1>1. G \in [1 .. n -> [V -> V]]
  <2>1. ASSUME NEW i \in 1 .. n, NEW x \in V
        PROVE  (IF list[i] \in S THEN Append(x, list[i]) ELSE x) \in V
    <3>1. list[i] \in S => list[i] \in W
      BY <1>0, <1>W
    <3>2. list[i] \in S => Append(x, list[i]) \in Seq(W)
      BY <1>V, <3>1
    <3> QED  BY <1>V, <3>2
  <2> QED  BY <1>G, <2>1
<1>2. PICK f \in [0 .. n -> V] : f[0] = <<>> /\ \A i \in 1 .. n : f[i] = G[i][f[i - 1]]
  <2>v. PICK v \in V : v = <<>>
    BY <1>0
  <2>1. Defined(V, v, n, G)
    BY <1>1, RecursionUpTo
  <2> QED  BY <2>1, <2>v DEF Defined
<1>3. \A i \in 1 .. n : f[i - 1] \in V /\ f[i] = IF list[i] \in S THEN Append(f[i - 1], list[i]) ELSE f[i - 1]
  <2>1. ASSUME NEW i \in 1 .. n
        PROVE  f[i - 1] \in V /\ f[i] = IF list[i] \in S THEN Append(f[i - 1], list[i]) ELSE f[i - 1]
    <3>1. i - 1 \in 0 .. n
      OBVIOUS
    <3>2. f[i - 1] \in V
      BY <1>2, <3>1
    <3>3. f[i] = G[i][f[i - 1]]
      BY <1>2
    <3>4. G[i] = [x \in V |-> IF list[i] \in S THEN Append(x, list[i]) ELSE x]
      BY <1>G
    <3> QED  BY <3>2, <3>3, <3>4
  <2> QED  BY <2>1
<1>4. FoundBy(list, S, f)
  <2>g. PICK g : g = [k \in 0 .. n |->
            IF k = 0 THEN <<>>
            ELSE IF list[k] \in S THEN Append(f[k - 1], list[k])
            ELSE f[k - 1]]
    OBVIOUS
  <2>1. f = [k \in 0 .. n |-> f[k]]
    BY <1>2
  <2>2. g = [k \in 0 .. n |-> g[k]]
    BY <2>g
  <2>3. ASSUME NEW k \in 0 .. n
        PROVE  g[k] = f[k]
    <3>1. CASE k = 0
      BY <1>2, <2>g, <3>1
    <3>2. CASE k # 0
      <4>1. k \in 1 .. n
        BY <3>2
      <4> QED  BY <1>3, <2>g, <3>2, <4>1
    <3> QED  BY <3>1, <3>2
  <2>4. f = g
    BY <2>1, <2>2, <2>3
  <2> QED  BY <1>n, <2>4, <2>g DEF FoundBy
<1>h. PICK h : h = FoundUpTo(list, S)
  OBVIOUS
<1>5. FoundBy(list, S, h)
  <2>1. h = CHOOSE q : FoundBy(list, S, q)
    BY <1>h DEF FoundUpTo, FoundBy
  <2> QED  BY <1>4, <2>1
<1>6. \A k \in 0 .. n : h[k] = f[k]
  <2>0. /\ h[0] = <<>>
        /\ \A k \in 1 .. n : h[k] = IF list[k] \in S THEN Append(h[k - 1], list[k]) ELSE h[k - 1]
    <3>1. 0 \in 0 .. n /\ \A k \in 1 .. n : k \in 0 .. n /\ k # 0
      OBVIOUS
    <3> QED  BY <1>5, <1>n, <3>1 DEF FoundBy
  <2> DEFINE Q == {k \in 0 .. n : h[k] = f[k]}
  <2>1. 0 \in Q
    BY <1>2, <2>0
  <2>2. ASSUME NEW k \in 1 .. n, k - 1 \in Q
        PROVE  k \in Q
    <3>1. k \in 0 .. n /\ h[k - 1] = f[k - 1]
      BY <2>2
    <3>2. f[k] = IF list[k] \in S THEN Append(f[k - 1], list[k]) ELSE f[k - 1]
      BY <1>3
    <3>3. h[k] = IF list[k] \in S THEN Append(h[k - 1], list[k]) ELSE h[k - 1]
      BY <2>0
    <3> QED  BY <3>1, <3>2, <3>3
  <2>3. \A k \in 0 .. n : k \in Q
    <3> HIDE DEF Q
    <3> QED  BY <2>1, <2>2, Upwards
  <2> QED  BY <2>3
<1>w. PICK w : w = Found(list, S)
  OBVIOUS
<1>7. w = f[n] /\ w \in V
  <2>1. n \in 0 .. n
    OBVIOUS
  <2>2. w = h[n]
    BY <1>h, <1>n, <1>w DEF Found
  <2> QED  BY <1>2, <1>6, <2>1, <2>2
<1>8. w \in Seq(T) /\ Range(w) \subseteq Range(list) \intersect S
  <2>1. w \in Seq(W)
    BY <1>7, <1>V
  <2>2. Range(w) \subseteq W
    BY <2>1, RangeFacts
  <2>3. Len(w) \in Nat /\ w \in [1 .. Len(w) -> W]
    BY <2>1
  <2>4. W \subseteq T
    BY <1>W
  <2>5. w \in Seq(T)
    BY <2>1, <2>4
  <2> QED  BY <1>W, <2>2, <2>5
<1>9. ASSUME w = <<>>, NEW c \in Range(list)
      PROVE  c \notin S
  <2>1. \A i \in 1 .. n : f[i] = <<>> => f[i - 1] = <<>> /\ list[i] \notin S
    <3>1. ASSUME NEW i \in 1 .. n, f[i] = <<>>
          PROVE  f[i - 1] = <<>> /\ list[i] \notin S
      <4>1. ASSUME list[i] \in S
            PROVE  FALSE
        <5>1. f[i] = Append(f[i - 1], list[i]) /\ f[i - 1] \in Seq(W) /\ list[i] \in W
          BY <1>0, <1>3, <1>V, <1>W, <4>1
        <5>2. Len(f[i]) = Len(f[i - 1]) + 1 /\ Len(f[i - 1]) \in Nat
          BY <5>1
        <5> QED  BY <3>1, <5>2
      <4> QED  BY <1>3, <3>1, <4>1
    <3> QED  BY <3>1
  <2> DEFINE Q == {k \in 0 .. n : f[k] = <<>> => \A i \in 1 .. k : list[i] \notin S}
  <2>2. 0 \in Q
    OBVIOUS
  <2>3. ASSUME NEW k \in 1 .. n, k - 1 \in Q
        PROVE  k \in Q
    <3>1. ASSUME f[k] = <<>>, NEW i \in 1 .. k
          PROVE  list[i] \notin S
      <4>1. f[k - 1] = <<>> /\ list[k] \notin S
        BY <2>1, <3>1
      <4>2. \A j \in 1 .. k - 1 : list[j] \notin S
        BY <2>3, <4>1
      <4>3. i \in 1 .. k - 1 \/ i = k
        OBVIOUS
      <4> QED  BY <4>1, <4>2, <4>3
    <3> QED  BY <3>1
  <2>4. \A k \in 0 .. n : k \in Q
    <3> HIDE DEF Q
    <3> QED  BY <2>2, <2>3, Upwards
  <2>5. n \in Q
    <3> HIDE DEF Q
    <3>1. n \in 0 .. n
      OBVIOUS
    <3> QED  BY <2>4, <3>1
  <2>6. \A i \in 1 .. n : list[i] \notin S
    BY <1>7, <1>9, <2>5
  <2> QED  BY <1>0, <2>6
<1> QED  BY <1>8, <1>9, <1>w

----------------------------------------------------------------------------
(* What a step leaves alone.                                               *)

LEMMA OtherFacts ==
    ASSUME NEW s \in Side
    PROVE  /\ Other(s) \in Side /\ Other(Other(s)) = s /\ Other(s) # s
           /\ \A t \in Side : t = s \/ t = Other(s)
           /\ "box" \in Side /\ "srv" \in Side /\ Other("box") = "srv" /\ Other("srv") = "box"
BY DEF Side, Other

LEMMA ItemFacts ==
    ASSUME NEW x \in Item
    PROVE  /\ x.t \in {"hdr", "byte"} /\ x.id \in Int /\ x.len \in Int
           /\ x.c \in Client \union {"nobody"}
           /\ \A c : IsByte(x, c) => x = Byte(c, x.len)
           /\ x = [t |-> x.t, id |-> x.id, c |-> x.c, len |-> x.len]
<1>1. /\ x.t \in {"hdr", "byte"} /\ x.id \in Int /\ x.len \in Int
      /\ x.c \in Client \union {"nobody"} /\ (x.t = "byte" => x.id = 0)
      /\ x = [t |-> x.t, id |-> x.id, c |-> x.c, len |-> x.len]
  BY DEF Item
<1>2. \A c : IsByte(x, c) => x = Byte(c, x.len)
  BY <1>1 DEF IsByte, Byte
<1> QED  BY <1>1, <1>2

LEMMA TypedFacts ==
    ASSUME NEW H, NEW K, NEW U, Typed(H, K, U), NEW s \in Side
    PROVE  /\ H[s] \in Hub /\ H[s].up \in BOOLEAN /\ H[s].in \in Seq(Item) /\ H[s].out \in Seq(Item)
           /\ H[s].id \in Int /\ H[s].n \in Nat /\ H[s].list \in Seq(Client)
           /\ Line(H, s) \in Seq(Item)
           /\ \A c \in Client :
                 /\ K[s][c] \in Con /\ U[s][c] \in User
                 /\ K[s][c].in \in Seq(Item) /\ K[s][c].out \in Seq(Item)
                 /\ U[s][c].sent \in Nat /\ U[s][c].got \in Seq(Item)
                 /\ SentOff(K, U, s, c) \in Int /\ Arrived(K, U, s, c) \in Nat
<1>1. ASSUME NEW t \in Side
      PROVE  /\ H[t] \in Hub /\ H[t].up \in BOOLEAN /\ H[t].in \in Seq(Item) /\ H[t].out \in Seq(Item)
             /\ H[t].id \in Int /\ H[t].n \in Nat /\ H[t].list \in Seq(Client)
  <2>1. H[t] \in Hub
    BY DEF Typed
  <2> QED  BY <2>1 DEF Hub
<1>2. Line(H, s) \in Seq(Item)
  <2>1. H[Other(s)].in \in Seq(Item) /\ H[s].out \in Seq(Item)
    BY <1>1, OtherFacts
  <2> QED  BY <2>1, ConcatFacts DEF Line
<1>3. ASSUME NEW c \in Client
      PROVE  /\ K[s][c] \in Con /\ U[s][c] \in User
             /\ K[s][c].in \in Seq(Item) /\ K[s][c].out \in Seq(Item)
             /\ U[s][c].sent \in Nat /\ U[s][c].got \in Seq(Item)
             /\ SentOff(K, U, s, c) \in Int /\ Arrived(K, U, s, c) \in Nat
  <2>1. K[s][c] \in Con /\ U[s][c] \in User
    BY DEF Typed
  <2>2. /\ K[s][c].in \in Seq(Item) /\ K[s][c].out \in Seq(Item)
        /\ U[s][c].sent \in Nat /\ U[s][c].got \in Seq(Item)
    BY <2>1 DEF Con, User
  <2>3. Len(K[s][c].in) \in Nat /\ Len(K[s][c].out) \in Nat /\ Len(U[s][c].got) \in Nat
    <3>1. \A q \in Seq(Item) : Len(q) \in Nat
      OBVIOUS
    <3> QED  BY <2>2, <3>1
  <2>4. SentOff(K, U, s, c) \in Int
    BY <2>2, <2>3 DEF SentOff
  <2>5. Arrived(K, U, s, c) \in Nat
    <3>1. \A a, b \in Nat : a + b \in Nat
      OBVIOUS
    <3> QED  BY <2>3, <3>1 DEF Arrived
  <2> QED  BY <2>1, <2>2, <2>4, <2>5
<1>4. /\ H[s] \in Hub /\ H[s].up \in BOOLEAN /\ H[s].in \in Seq(Item) /\ H[s].out \in Seq(Item)
      /\ H[s].id \in Int /\ H[s].n \in Nat /\ H[s].list \in Seq(Client)
  BY <1>1
<1> QED  BY <1>2, <1>3, <1>4

LEMMA PristineFacts ==
    ASSUME NEW K, NEW U, NEW s, NEW c, Pristine(K, U, s, c)
    PROVE  SentOff(K, U, s, c) = 0 /\ Arrived(K, U, s, c) = 0 /\ K[s][c].st = "none"
<1>1. K[s][c] = NoCon /\ U[s][c].sent = 0 /\ U[s][c].got = <<>>
  BY DEF Pristine
<1>2. K[s][c].in = <<>> /\ K[s][c].out = <<>> /\ K[s][c].st = "none"
  BY <1>1 DEF NoCon
<1>3. Len(K[s][c].in) = 0 /\ Len(K[s][c].out) = 0 /\ Len(U[s][c].got) = 0
  BY <1>1, <1>2
<1>4. 0 - 0 = 0 /\ 0 + 0 = 0
  OBVIOUS
<1> QED  BY <1>1, <1>2, <1>3, <1>4 DEF SentOff, Arrived

\* Nothing was put on the way from t or taken from it.
LEMMA WaySame ==
    ASSUME NEW H, NEW K, NEW U, NEW H2, NEW K2, NEW U2, NEW id, NEW t \in Side,
           Typed(H, K, U), Typed(H2, K2, U2), Way(H, K, U, id, t), Line(H2, t) = Line(H, t),
           H2[Other(t)].n = H[Other(t)].n, H2[Other(t)].id = H[Other(t)].id, H2[t].up = H[t].up,
           \A c \in Client :
              /\ K["box"][c].st # "none" => K2["box"][c].st # "none"
              /\ SentOff(K, U, t, c) <= SentOff(K2, U2, t, c)
              /\ Expects(H2, K2, Other(t), c) =>
                    /\ Expects(H, K, Other(t), c)
                    /\ Arrived(K2, U2, Other(t), c) = Arrived(K, U, Other(t), c)
              /\ Live(H2, K2, t, c) =>
                    /\ Live(H, K, t, c)
                    /\ SentOff(K2, U2, t, c) = SentOff(K, U, t, c)
    PROVE  Way(H2, K2, U2, id, t)
<1>l. PICK l : l = Line(H, t)
  OBVIOUS
<1>n. PICK n, cur : n = H[Other(t)].n /\ cur = H[Other(t)].id
  OBVIOUS
<1>0. /\ l \in Seq(Item) /\ \A i \in 1 .. Len(l) : l[i] \in Item
      /\ \A c \in Client : SentOff(K, U, t, c) \in Int /\ SentOff(K2, U2, t, c) \in Int
  <2>1. l \in Seq(Item)
    BY <1>l, TypedFacts
  <2> QED  BY <2>1, TypedFacts
<1>1. Framed(l, n, H2[t].up) /\ News(l)
  BY <1>l, <1>n DEF Way
<1>2. Owned(l, n, cur, id, K2)
  BY <1>l, <1>n DEF Way, Owned
<1>3. ASSUME NEW c \in Client
      PROVE  Bound(l, c, SentOff(K2, U2, t, c))
  <2>1. Bound(l, c, SentOff(K, U, t, c))
    BY <1>l DEF Way
  <2>2. \A i \in 1 .. Len(l) : l[i].len \in Int
    BY <1>0, ItemFacts
  <2>3. SentOff(K, U, t, c) <= SentOff(K2, U2, t, c)
    OBVIOUS
  <2> QED  BY <1>0, <2>1, <2>2, <2>3 DEF Bound
<1>4. ASSUME NEW c \in Client, Expects(H2, K2, Other(t), c)
      PROVE  Flow(l, c, Arrived(K2, U2, Other(t), c), SentOff(K2, U2, t, c), Live(H2, K2, t, c))
  <2>1. /\ Expects(H, K, Other(t), c)
        /\ Arrived(K2, U2, Other(t), c) = Arrived(K, U, Other(t), c)
    BY <1>4
  <2>2. Flow(l, c, Arrived(K2, U2, Other(t), c), SentOff(K, U, t, c), Live(H, K, t, c))
    BY <1>l, <2>1 DEF Way
  <2>3. Live(H2, K2, t, c) => Live(H, K, t, c) /\ SentOff(K2, U2, t, c) = SentOff(K, U, t, c)
    OBVIOUS
  <2> QED  BY <2>2, <2>3 DEF Flow
<1> QED  BY <1>1, <1>2, <1>3, <1>4, <1>l, <1>n DEF Way

LEMMA EndsSame ==
    ASSUME NEW H, NEW K, NEW U, NEW H2, NEW K2, NEW U2, NEW s \in Side, NEW c \in Client,
           Typed(H, K, U), Typed(H2, K2, U2), Ends(K, U, s, c),
           K2[s][c].in = K[s][c].in, K2[s][c].out = K[s][c].out,
           U2[s][c].sent = U[s][c].sent, U2[s][c].got = U[s][c].got,
           SentOff(K, U, Other(s), c) <= SentOff(K2, U2, Other(s), c)
    PROVE  Ends(K2, U2, s, c)
<1>1. /\ Arrived(K, U, s, c) \in Int /\ SentOff(K, U, Other(s), c) \in Int
      /\ SentOff(K2, U2, Other(s), c) \in Int
  BY TypedFacts, OtherFacts
<1>2. Arrived(K2, U2, s, c) = Arrived(K, U, s, c)
  BY DEF Arrived
<1>3. Arrived(K, U, s, c) <= SentOff(K, U, Other(s), c)
  BY DEF Ends
<1>4. Arrived(K2, U2, s, c) <= SentOff(K2, U2, Other(s), c)
  BY <1>1, <1>2, <1>3
<1> QED  BY <1>4 DEF Ends

LEMMA StageSame ==
    ASSUME NEW H, NEW K, NEW U, NEW H2, NEW K2, NEW U2, NEW id, NEW c \in Client, Stage(H, K, U, id, c),
           \A s \in Side :
              /\ K2[s][c] = K[s][c]
              /\ U2[s][c].sent = U[s][c].sent /\ U2[s][c].got = U[s][c].got
              /\ H2[s].up = H[s].up /\ (Listed(H2, s, c) => Listed(H, s, c)),
           NewOnWay(H2, c) => NewOnWay(H, c)
    PROVE  Stage(H2, K2, U2, id, c)
<1>1. "box" \in Side /\ "srv" \in Side
  BY DEF Side
<1> QED  BY <1>1 DEF Stage, Pristine, SentOff

----------------------------------------------------------------------------
(* The steps of the loop at side s.                                        *)

\* A step at side s while the shared connection works there.
AtSide(H, K, U, H2, K2, s) ==
    /\ Typed(H2, K2, U)
    /\ H[s].up /\ H2[s].up /\ H2[Other(s)] = H[Other(s)] /\ K2[Other(s)] = K[Other(s)]

LEMMA GoodFrom ==
    ASSUME NEW H, NEW K, NEW U, NEW id, NEW H2, NEW K2, NEW s \in Side, Good(H, K, U, id),
           AtSide(H, K, U, H2, K2, s),
           H[Other(s)].up => Way(H2, K2, U, id, s),
           Way(H2, K2, U, id, Other(s)),
           \A c \in Client : Stage(H2, K2, U, id, c) /\ \A t \in Side : Ends(K2, U, t, c)
    PROVE  Good(H2, K2, U, id)
<1>1. \A t \in Side : t = s \/ t = Other(s)
  BY OtherFacts
<1>2. Other(Other(s)) = s /\ Other(s) \in Side
  BY OtherFacts
<1>3. \A t \in Side : ~H2[t].up => H2[t] = Closed
  BY <1>1 DEF AtSide, Good
<1>4. \A t \in Side : H2[Other(t)].up => Way(H2, K2, U, id, t)
  BY <1>1, <1>2 DEF AtSide
<1> QED  BY <1>3, <1>4 DEF AtSide, Good

LEMMA SideTyped ==
    ASSUME NEW H, NEW K, NEW U, NEW id, NEW H2, NEW K2, NEW s \in Side, Good(H, K, U, id),
           AtSide(H, K, U, H2, K2, s)
    PROVE  /\ Typed(H, K, U) /\ Typed(H2, K2, U)
           /\ H2[Other(s)] = H[Other(s)] /\ K2[Other(s)] = K[Other(s)]
BY DEF AtSide, Good

LEMMA SideUp ==
    ASSUME NEW H, NEW K, NEW U, NEW id, NEW H2, NEW K2, NEW s \in Side, Good(H, K, U, id),
           AtSide(H, K, U, H2, K2, s)
    PROVE  \A t \in Side : H2[t].up = H[t].up
<1>1. H[s].up \in BOOLEAN /\ H2[s].up \in BOOLEAN
  BY SideTyped, TypedFacts
<1>2. H2[s].up = H[s].up
  BY <1>1 DEF AtSide
<1>3. H2[Other(s)].up = H[Other(s)].up
  BY SideTyped
<1> QED  BY <1>2, <1>3, OtherFacts

LEMMA SideWays ==
    ASSUME NEW H, NEW K, NEW U, NEW id, NEW H2, NEW K2, NEW s \in Side, Good(H, K, U, id),
           AtSide(H, K, U, H2, K2, s)
    PROVE  /\ Way(H, K, U, id, Other(s))
           /\ H[Other(s)].up => Way(H, K, U, id, s)
<1>1. Other(s) \in Side /\ Other(Other(s)) = s
  BY OtherFacts
<1> QED  BY <1>1 DEF AtSide, Good

\* Items m are stored at side s.
LEMMA LineGrown ==
    ASSUME NEW H, NEW H2, NEW s \in Side, H2[Other(s)] = H[Other(s)], NEW m \in Seq(Item),
           H[Other(s)].in \in Seq(Item), H[s].out \in Seq(Item),
           H2[s].in = H[s].in, H2[s].out = H[s].out \o m
    PROVE  Grown(Line(H, s), m, Line(H2, s)) /\ Line(H2, Other(s)) = Line(H, Other(s))
<1>1. (H[Other(s)].in \o H[s].out) \o m = H[Other(s)].in \o (H[s].out \o m)
  BY ItemsAssociative
<1>2. Other(Other(s)) = s
  BY OtherFacts
<1>3. Line(H2, s) = Line(H, s) \o m
  BY <1>1 DEF Line
<1>4. Line(H2, Other(s)) = Line(H, Other(s))
  BY <1>2 DEF Line
<1>5. Line(H, s) \in Seq(Item)
  BY ConcatFacts DEF Line
<1> QED  BY <1>3, <1>4, <1>5, ConcatGrown

\* What is announced on a longer line was announced before or is in m.
LEMMA NewOnWayGrown ==
    ASSUME NEW H, NEW H2, NEW s \in Side, NEW l \in Seq(Item), NEW m \in Seq(Item), NEW l2 \in Seq(Item),
           l = Line(H, s), l2 = Line(H2, s), Grown(l, m, l2), Line(H2, Other(s)) = Line(H, Other(s)),
           NEW c, NewOnWay(H2, c)
    PROVE  NewOnWay(H, c) \/ (s = "box" /\ \E j \in 1 .. Len(m) : IsNew(m[j], c))
<1>1. CASE s = "box"
  <2>1. PICK i \in 1 .. Len(l2) : IsNew(l2[i], c)
    BY <1>1 DEF NewOnWay
  <2>2. CASE i \in 1 .. Len(l) /\ l2[i] = l[i]
    BY <1>1, <2>1, <2>2 DEF NewOnWay
  <2>3. CASE \E j \in 1 .. Len(m) : l2[i] = m[j]
    BY <1>1, <2>1, <2>3
  <2> QED  BY <2>2, <2>3, GrownIndex
<1>2. CASE s # "box"
  <2>1. Line(H2, "box") = Line(H, "box")
    BY <1>2 DEF Side, Other
  <2> QED  BY <2>1 DEF NewOnWay
<1> QED  BY <1>1, <1>2

LEMMA WayGrown ==
    ASSUME NEW H, NEW K, NEW U, NEW id, NEW H2, NEW K2, NEW s \in Side, Good(H, K, U, id),
           AtSide(H, K, U, H2, K2, s), H[Other(s)].up, NEW m \in Seq(Item), NEW l2 \in Seq(Item),
           Grown(Line(H, s), m, l2), l2 = Line(H2, s),
           \A c \in Client : K["box"][c].st # "none" => K2["box"][c].st # "none",
           Framed(m, 0, TRUE), Len(m) > 0, \A cur : Owned(m, 0, cur, id, K2), News(m),
           \A i \in 1 .. Len(m), j \in 1 .. Len(Line(H, s)) :
              m[i].t = "hdr" /\ m[i].len = NewConnection =>
                 ~IsNew(Line(H, s)[j], m[i].c) /\ ~IsByte(Line(H, s)[j], m[i].c),
           \A c \in Client :
              /\ SentOff(K, U, s, c) <= SentOff(K2, U, s, c)
              /\ Bound(m, c, SentOff(K2, U, s, c))
              /\ Expects(H2, K2, Other(s), c) =>
                    Flow(l2, c, Arrived(K2, U, Other(s), c), SentOff(K2, U, s, c), Live(H2, K2, s, c))
    PROVE  Way(H2, K2, U, id, s)
<1>0. /\ Other(s) \in Side /\ H2[Other(s)] = H[Other(s)] /\ Typed(H, K, U) /\ Typed(H2, K2, U)
  BY OtherFacts, SideTyped
<1>w. Way(H, K, U, id, s)
  BY SideWays
<1>1. H[s].up /\ H2[s].up
  BY DEF AtSide
<1>n. PICK n \in Nat : n = H[Other(s)].n
  BY <1>0, TypedFacts
<1>k. PICK cur : cur = H[Other(s)].id
  OBVIOUS
<1>l. PICK l \in Seq(Item) : l = Line(H, s)
  BY <1>0, TypedFacts
<1>2. Grown(l, m, l2)
  BY <1>l
<1>3. /\ Framed(l, n, TRUE) /\ Owned(l, n, cur, id, K) /\ News(l) /\ n <= Len(l)
      /\ \A c \in Client : Bound(l, c, SentOff(K, U, s, c))
  BY <1>0, <1>1, <1>n, <1>k, <1>l, <1>w DEF Way, Framed
<1>4. Framed(l2, n, TRUE)
  BY <1>2, <1>3, FramedGrown
<1>5. Owned(l2, n, cur, id, K2)
  <2>1. Owned(l, n, cur, id, K2)
    BY <1>3 DEF Owned
  <2> QED  BY <1>2, <1>3, <2>1, OwnedGrown
<1>6. News(l2)
  BY <1>2, <1>3, <1>l, NewsGrown
<1>7. ASSUME NEW c \in Client
      PROVE  Bound(l2, c, SentOff(K2, U, s, c))
  <2>1. SentOff(K, U, s, c) \in Int /\ SentOff(K2, U, s, c) \in Int
    BY <1>0, TypedFacts
  <2>2. Bound(l, c, SentOff(K, U, s, c)) /\ Bound(m, c, SentOff(K2, U, s, c))
    BY <1>3
  <2> QED  BY <1>2, <2>1, <2>2, BoundGrown
<1>8. n = H2[Other(s)].n /\ cur = H2[Other(s)].id
  BY <1>0, <1>n, <1>k
<1> QED  BY <1>1, <1>4, <1>5, <1>6, <1>7, <1>8 DEF Way

\* What does not matter for the items on their way.
LEMMA GoodIdle ==
    ASSUME NEW H, NEW K, NEW U, NEW id, NEW H2, NEW s \in Side, Good(H, K, U, id),
           AtSide(H, K, U, H2, K, s),
           H2[s].in = H[s].in, H2[s].out = H[s].out, H2[s].n = H[s].n, H2[s].id = H[s].id,
           H2[s].list = H[s].list
    PROVE  Good(H2, K, U, id)
<1>0. /\ Other(s) \in Side /\ Other(Other(s)) = s
      /\ \A t \in Side : t = s \/ t = Other(s)
      /\ \A t \in Side : H2[t].up = H[t].up
      /\ H2[Other(s)] = H[Other(s)]
  BY OtherFacts, SideTyped, SideUp, SideWays
<1>1. \A t \in Side : /\ H2[t].in = H[t].in /\ H2[t].out = H[t].out /\ H2[t].n = H[t].n
                      /\ H2[t].id = H[t].id /\ H2[t].list = H[t].list /\ H2[t].up = H[t].up
  BY <1>0
<1>2. \A t \in Side : Line(H2, t) = Line(H, t)
  BY <1>1, OtherFacts DEF Line
<1>3. \A t \in Side, c \in Client : /\ Listed(H2, t, c) = Listed(H, t, c)
                                    /\ NewOnWay(H2, c) = NewOnWay(H, c)
                                    /\ Live(H2, K, t, c) = Live(H, K, t, c)
                                    /\ Expects(H2, K, t, c) = Expects(H, K, t, c)
  BY <1>1, <1>2, OtherFacts DEF Listed, NewOnWay, Live, Expects
<1>4. ASSUME NEW t \in Side, Way(H, K, U, id, t)
      PROVE  Way(H2, K, U, id, t)
  BY <1>1, <1>2, <1>3, <1>4, OtherFacts DEF Way
<1>5. ASSUME NEW c \in Client
      PROVE  Stage(H2, K, U, id, c) /\ \A t \in Side : Ends(K, U, t, c)
  <2>1. Stage(H, K, U, id, c) /\ \A t \in Side : Ends(K, U, t, c)
    BY DEF Good
  <2> QED  BY <1>1, <1>3, <2>1, StageSame
<1>6. (H[Other(s)].up => Way(H, K, U, id, s)) /\ Way(H, K, U, id, Other(s))
  BY <1>0 DEF Good, AtSide
<1> QED  BY <1>0, <1>4, <1>5, <1>6, GoodFrom

\* A header of a message without bytes is stored, not one that announces.
LEMMA GoodStored ==
    ASSUME NEW H, NEW K, NEW U, NEW id, NEW H2, NEW s \in Side, Good(H, K, U, id),
           AtSide(H, K, U, H2, K, s), NEW x \in Item, x.t = "hdr", x.len <= 0, x.len # NewConnection,
           H2[s].in = H[s].in, H2[s].out = Append(H[s].out, x), H2[s].n = H[s].n, H2[s].id = H[s].id,
           H2[s].list = H[s].list
    PROVE  Good(H2, K, U, id)
<1>0. /\ Other(s) \in Side /\ Other(Other(s)) = s
      /\ \A t \in Side : t = s \/ t = Other(s)
      /\ Typed(H, K, U) /\ Typed(H2, K, U) /\ H2[Other(s)] = H[Other(s)]
  BY OtherFacts, SideTyped
<1>u. \A t \in Side : H2[t].up = H[t].up
  BY SideUp
<1>w. Way(H, K, U, id, Other(s)) /\ (H[Other(s)].up => Way(H, K, U, id, s))
  BY SideWays
<1>1. \A t \in Side : /\ H2[t].in = H[t].in /\ H2[t].n = H[t].n
                      /\ H2[t].id = H[t].id /\ H2[t].list = H[t].list /\ H2[t].up = H[t].up
  BY <1>0, <1>u
<1>m. PICK m \in Seq(Item) : m = <<x>>
  <2>1. <<x>> \in Seq(Item)
    OBVIOUS
  <2> QED  BY <2>1
<1>l. PICK l \in Seq(Item), l2 \in Seq(Item) : l = Line(H, s) /\ l2 = Line(H2, s)
  BY <1>0, TypedFacts
<1>2. Line(H2, Other(s)) = Line(H, Other(s)) /\ Grown(l, m, l2)
  <2>1. H[s].out \in Seq(Item) /\ H[Other(s)].in \in Seq(Item)
    BY <1>0, TypedFacts
  <2>2. H2[s].out = H[s].out \o m
    BY <1>m, <2>1, AppendIsConcat
  <2> QED  BY <1>0, <1>l, <2>1, <2>2, LineGrown
<1>4. /\ Len(m) = 1 /\ m[1] = x /\ \A i \in 1 .. Len(m) : m[i] = x
  BY <1>m
<1>5. /\ Framed(m, 0, TRUE) /\ News(m)
      /\ \A cur : Owned(m, 0, cur, id, K)
      /\ \A c, q : Bound(m, c, q)
      /\ \A c : \A j \in 1 .. Len(m) : ~IsByte(m[j], c) /\ ~IsNew(m[j], c)
  <2>1. Span(x) = 0
    BY ItemFacts DEF Span
  <2>2. Framed(m, 0, TRUE)
    BY <1>4, <2>1 DEF Framed
  <2>3. \A cur : Owned(m, 0, cur, id, K)
    <3>1. ~(x.len > 0)
      BY ItemFacts
    <3> QED  BY <1>4, <3>1 DEF Owned
  <2> QED  BY <1>4, <2>2, <2>3 DEF News, Bound, IsByte, IsNew
<1>6. ASSUME NEW c \in Client
      PROVE  NewOnWay(H2, c) => NewOnWay(H, c)
  <2>1. ~ \E j \in 1 .. Len(m) : IsNew(m[j], c)
    BY <1>5
  <2> QED  BY <1>2, <1>l, <2>1, NewOnWayGrown
<1>7. \A t \in Side, c \in Client : /\ Listed(H2, t, c) = Listed(H, t, c)
                                    /\ Live(H2, K, t, c) = Live(H, K, t, c)
                                    /\ Expects(H2, K, t, c) => Expects(H, K, t, c)
  BY <1>1, <1>6 DEF Listed, Live, Expects
<1>s. \A c \in Client : SentOff(K, U, s, c) <= SentOff(K, U, s, c) /\
                        SentOff(K, U, Other(s), c) <= SentOff(K, U, Other(s), c)
  <2>1. \A c \in Client : SentOff(K, U, s, c) \in Int
    BY <1>0, TypedFacts
  <2>2. \A c \in Client : SentOff(K, U, Other(s), c) \in Int
    BY <1>0, TypedFacts
  <2> QED  BY <2>1, <2>2
<1>8. Way(H2, K, U, id, Other(s))
  BY <1>0, <1>1, <1>2, <1>7, <1>s, <1>w, WaySame
<1>9. ASSUME H[Other(s)].up
      PROVE  Way(H2, K, U, id, s)
  <2>1. ASSUME NEW c \in Client, Expects(H2, K, Other(s), c)
        PROVE  Flow(l2, c, Arrived(K, U, Other(s), c), SentOff(K, U, s, c), Live(H2, K, s, c))
    <3>1. Flow(l, c, Arrived(K, U, Other(s), c), SentOff(K, U, s, c), Live(H2, K, s, c))
      BY <1>0, <1>7, <1>9, <1>l, <1>w, <2>1 DEF Way
    <3> QED  BY <1>2, <1>5, <3>1, FlowGrownByOthers
  <2>2. \A i \in 1 .. Len(m) : m[i].len # NewConnection
    BY <1>4
  <2>3. Len(m) > 0
    BY <1>4
  <2> QED  BY <1>2, <1>5, <1>9, <1>l, <1>s, <2>1, <2>2, <2>3, WayGrown
<1>10. ASSUME NEW c \in Client
       PROVE  Stage(H2, K, U, id, c) /\ \A t \in Side : Ends(K, U, t, c)
  <2>1. Stage(H, K, U, id, c) /\ \A t \in Side : Ends(K, U, t, c)
    BY DEF Good
  <2> QED  BY <1>1, <1>6, <1>7, <2>1, StageSame
<1> QED  BY <1>8, <1>9, <1>10, GoodFrom

\* The box announces c.
LEMMA GoodAnnounced ==
    ASSUME NEW H, NEW K, NEW U, NEW id, NEW H2, NEW K2, Good(H, K, U, id),
           AtSide(H, K, U, H2, K2, "box"), NEW c \in Client, Listed(H, "box", c), ~K["box"][c].newSent,
           NEW x \in Item, x = Hdr(K["box"][c].id, c, NewConnection),
           H2["box"].in = H["box"].in, H2["box"].out = Append(H["box"].out, x),
           H2["box"].n = H["box"].n, H2["box"].id = H["box"].id, H2["box"].list = H["box"].list,
           K2["box"][c] = [K["box"][c] EXCEPT !.newSent = TRUE],
           \A d \in Client : d # c => K2["box"][d] = K["box"][d]
    PROVE  Good(H2, K2, U, id)
<1>0. /\ "box" \in Side /\ "srv" \in Side /\ Other("box") = "srv" /\ Other("srv") = "box"
      /\ \A t \in Side : t = "box" \/ t = "srv"
  BY DEF Side, Other
<1>t. Typed(H, K, U) /\ Typed(H2, K2, U) /\ H2["srv"] = H["srv"] /\ K2["srv"] = K["srv"]
  BY <1>0, SideTyped
<1>u. \A t \in Side : H2[t].up = H[t].up
  BY <1>0, SideUp
<1>w. Way(H, K, U, id, "srv") /\ (H["srv"].up => Way(H, K, U, id, "box"))
  BY <1>0, SideWays
<1>1. \A t \in Side : /\ H2[t].in = H[t].in /\ H2[t].n = H[t].n
                      /\ H2[t].id = H[t].id /\ H2[t].list = H[t].list /\ H2[t].up = H[t].up
  BY <1>0, <1>t, <1>u
<1>m. PICK m \in Seq(Item) : m = <<x>>
  <2>1. <<x>> \in Seq(Item)
    OBVIOUS
  <2> QED  BY <2>1
<1>l. PICK l \in Seq(Item), l2 \in Seq(Item) : l = Line(H, "box") /\ l2 = Line(H2, "box")
  BY <1>0, <1>t, TypedFacts
<1>2. Line(H2, "srv") = Line(H, "srv") /\ Grown(l, m, l2)
  <2>o. H2[Other("box")] = H[Other("box")] /\ H2["box"].in = H["box"].in
    BY <1>0, <1>1, <1>t
  <2>1. H["box"].out \in Seq(Item) /\ H[Other("box")].in \in Seq(Item)
    <3>1. H["box"].out \in Seq(Item)
      BY <1>0, <1>t, TypedFacts
    <3>2. H["srv"].in \in Seq(Item)
      BY <1>0, <1>t, TypedFacts
    <3> QED  BY <1>0, <3>1, <3>2
  <2>2. H2["box"].out = H["box"].out \o m
    <3>1. H["box"].out \in Seq(Item)
      BY <2>1
    <3>2. H2["box"].out = Append(H["box"].out, x)
      OBVIOUS
    <3>3. Append(H["box"].out, x) = H["box"].out \o <<x>>
      <4>1. PICK q \in Seq(Item) : q = H["box"].out
        BY <3>1
      <4>2. Append(q, x) = q \o <<x>>
        BY AppendIsConcat
      <4> QED  BY <4>1, <4>2
    <3> QED  BY <1>m, <3>2, <3>3
  <2>3. /\ Grown(Line(H, "box"), m, Line(H2, "box"))
        /\ Line(H2, Other("box")) = Line(H, Other("box"))
    <3>1. "box" \in Side
      BY <1>0
    <3> QED  BY <2>1, <2>2, <2>o, <3>1, LineGrown
  <2> QED  BY <1>0, <1>l, <2>3
<1>4. /\ Len(m) = 1 /\ m[1] = x /\ \A i \in 1 .. Len(m) : m[i] = x
  BY <1>m
<1>x. /\ x.t = "hdr" /\ x.len = -1 /\ x.c = c /\ x.id = K["box"][c].id /\ Span(x) = 0
  BY DEF Hdr, NewConnection, Span
<1>c. Stage(H, K, U, id, c) /\ Ends(K, U, "box", c) /\ Ends(K, U, "srv", c)
  BY <1>0 DEF Good
<1>d. /\ K["box"][c].st \in There /\ K["box"][c].id = id[c] /\ K["box"][c].st # "none" /\ id[c] # 0
      /\ Pristine(K, U, "srv", c) /\ SentOff(K, U, "box", c) = 0 /\ (H["srv"].up => ~NewOnWay(H, c))
  <2>1. K["box"][c].st \in There
    BY <1>0, <1>c DEF Stage
  <2> QED  BY <1>0, <1>c, <2>1 DEF Stage, There
<1>k. \A t \in Side, d \in Client : /\ K2[t][d].in = K[t][d].in /\ K2[t][d].out = K[t][d].out
                                    /\ K2[t][d].st = K[t][d].st /\ K2[t][d].id = K[t][d].id
  <2>1. K["box"][c] \in Con
    BY <1>0, <1>t, TypedFacts
  <2>2. /\ K2["box"][c].in = K["box"][c].in /\ K2["box"][c].out = K["box"][c].out
        /\ K2["box"][c].st = K["box"][c].st /\ K2["box"][c].id = K["box"][c].id
    BY <2>1 DEF Con
  <2> QED  BY <1>0, <1>t, <2>2
<1>n. K2["box"][c].newSent
  <2>1. K["box"][c] \in Con
    BY <1>0, <1>t, TypedFacts
  <2> QED  BY <2>1 DEF Con
<1>o. \A t \in Side, d \in Client : SentOff(K2, U, t, d) = SentOff(K, U, t, d) /\ Arrived(K2, U, t, d) = Arrived(K, U, t, d)
  BY <1>k DEF SentOff, Arrived
<1>p. SentOff(K, U, "srv", c) = 0 /\ Arrived(K, U, "srv", c) = 0 /\ Arrived(K, U, "box", c) = 0
  <2>1. SentOff(K, U, "srv", c) = 0 /\ Arrived(K, U, "srv", c) = 0
    BY <1>d, PristineFacts
  <2>2. Arrived(K, U, "box", c) <= 0 /\ Arrived(K, U, "box", c) \in Nat
    BY <1>0, <1>c, <1>t, <2>1, TypedFacts DEF Ends
  <2> QED  BY <2>1, <2>2
<1>s. \A t \in Side, d \in Client : SentOff(K, U, t, d) <= SentOff(K2, U, t, d)
  BY <1>o, <1>t, TypedFacts
<1>6. ASSUME NEW d \in Client, d # c
      PROVE  NewOnWay(H2, d) => NewOnWay(H, d)
  <2>1. ~ \E j \in 1 .. Len(m) : IsNew(m[j], d)
    BY <1>4, <1>6, <1>x DEF IsNew
  <2> QED  BY <1>0, <1>2, <1>l, <2>1, NewOnWayGrown
<1>7. \A t \in Side, d \in Client : d # c =>
                                    /\ Listed(H2, t, d) = Listed(H, t, d)
                                    /\ Live(H2, K2, t, d) = Live(H, K, t, d)
                                    /\ Expects(H2, K2, t, d) => Expects(H, K, t, d)
  BY <1>0, <1>1, <1>6, <1>t DEF Listed, Live, Expects
<1>8. Way(H2, K2, U, id, "srv")
  <2>l. PICK q \in Seq(Item) : q = Line(H, "srv")
    BY <1>0, <1>t, TypedFacts
  <2>1. ASSUME NEW d \in Client, Expects(H2, K2, "box", d)
        PROVE  Flow(q, d, Arrived(K2, U, "box", d), SentOff(K2, U, "srv", d), Live(H2, K2, "srv", d))
    <3>1. CASE d = c
      <4>1. Bound(q, c, 0)
        BY <1>p, <1>w, <2>l DEF Way
      <4>2. \A i \in 1 .. Len(q) : ~IsByte(q[i], c)
        BY <4>1, NoneBound
      <4> QED  BY <1>0, <1>o, <1>p, <3>1, <4>2 DEF Flow
    <3>2. CASE d # c
      BY <1>0, <1>7, <1>o, <1>w, <2>1, <2>l, <3>2 DEF Way
    <3> QED  BY <3>1, <3>2
  <2>2. Owned(q, H["box"].n, H["box"].id, id, K2)
    <3>1. Owned(q, H["box"].n, H["box"].id, id, K)
      BY <1>0, <1>w, <2>l DEF Way
    <3>2. \A d \in Client : K2["box"][d].st = K["box"][d].st
      BY <1>0, <1>k
    <3> QED  BY <3>1, <3>2 DEF Owned
  <2>3. /\ Framed(q, H["box"].n, H["srv"].up) /\ News(q)
        /\ \A d \in Client : Bound(q, d, SentOff(K, U, "srv", d))
    BY <1>0, <1>w, <2>l DEF Way
  <2> QED  BY <1>0, <1>1, <1>2, <1>o, <2>1, <2>2, <2>3, <2>l DEF Way
<1>9. ASSUME H["srv"].up
      PROVE  Way(H2, K2, U, id, "box")
  <2>b. \A i \in 1 .. Len(l) : ~IsByte(l[i], c) /\ ~IsNew(l[i], c)
    <3>1. Bound(l, c, 0)
      BY <1>0, <1>9, <1>d, <1>l, <1>w DEF Way
    <3>3. \A i \in 1 .. Len(l) : ~IsByte(l[i], c)
      BY <3>1, NoneBound
    <3> QED  BY <1>9, <1>d, <1>l, <3>3 DEF NewOnWay
  <2>f. \A d \in Client : \A j \in 1 .. Len(m) : ~IsByte(m[j], d)
    BY <1>4, <1>x DEF IsByte
  <2>1. ASSUME NEW d \in Client, Expects(H2, K2, "srv", d)
        PROVE  Flow(l2, d, Arrived(K2, U, "srv", d), SentOff(K2, U, "box", d), Live(H2, K2, "box", d))
    <3>1. Flow(l, d, Arrived(K2, U, "srv", d), SentOff(K2, U, "box", d), Live(H2, K2, "box", d))
      <4>1. CASE d = c
        BY <1>0, <1>d, <1>o, <1>p, <2>b, <4>1 DEF Flow
      <4>2. CASE d # c
        BY <1>0, <1>7, <1>9, <1>l, <1>o, <1>w, <2>1, <4>2 DEF Way
      <4> QED  BY <4>1, <4>2
    <3> QED  BY <1>2, <2>f, <3>1, FlowGrownByOthers
  <2>2. Len(m) > 0
    BY <1>4
  <2>3. Framed(m, 0, TRUE)
    BY <1>4, <1>x DEF Framed
  <2>4. \A cur : Owned(m, 0, cur, id, K2)
    BY <1>0, <1>4, <1>d, <1>k, <1>x DEF Owned
  <2>5. News(m)
    BY <1>4, <1>x DEF News, IsByte
  <2>6. \A d \in Client : Bound(m, d, SentOff(K2, U, "box", d))
    BY <2>f DEF Bound
  <2>7. \A i \in 1 .. Len(m), j \in 1 .. Len(l) : ~IsNew(l[j], m[i].c) /\ ~IsByte(l[j], m[i].c)
    BY <1>4, <1>x, <2>b
  <2>8. \A d \in Client : K["box"][d].st # "none" => K2["box"][d].st # "none"
    BY <1>0, <1>k
  <2>9. \A i \in 1 .. Len(m), j \in 1 .. Len(Line(H, "box")) :
           m[i].t = "hdr" /\ m[i].len = NewConnection =>
              ~IsNew(Line(H, "box")[j], m[i].c) /\ ~IsByte(Line(H, "box")[j], m[i].c)
    BY <1>l, <2>7
  <2>10. "box" \in Side /\ Grown(Line(H, "box"), m, l2) /\ l2 = Line(H2, "box")
    BY <1>0, <1>2, <1>l
  <2>11. \A d \in Client :
           /\ SentOff(K, U, "box", d) <= SentOff(K2, U, "box", d)
           /\ Bound(m, d, SentOff(K2, U, "box", d))
           /\ Expects(H2, K2, Other("box"), d) =>
                 Flow(l2, d, Arrived(K2, U, Other("box"), d), SentOff(K2, U, "box", d), Live(H2, K2, "box", d))
    BY <1>0, <1>s, <2>1, <2>6
  <2>12. AtSide(H, K, U, H2, K2, "box") /\ H[Other("box")].up
    BY <1>0, <1>9
  <2> QED  BY <2>2, <2>3, <2>4, <2>5, <2>8, <2>9, <2>10, <2>11, <2>12, WayGrown
<1>10. ASSUME NEW d \in Client
       PROVE  Stage(H2, K2, U, id, d) /\ \A t \in Side : Ends(K2, U, t, d)
  <2>1. Stage(H, K, U, id, d) /\ \A t \in Side : Ends(K, U, t, d)
    BY DEF Good
  <2>2. \A t \in Side : Ends(K2, U, t, d)
    BY <1>0, <1>k, <1>s, <1>t, <2>1, OtherFacts, EndsSame
  <2>3. CASE d = c
    <3>1. Listed(H2, "box", c) = Listed(H, "box", c) /\ Listed(H2, "srv", c) = Listed(H, "srv", c)
      BY <1>0, <1>1 DEF Listed
    <3>2. Pristine(K2, U, "srv", c)
      BY <1>d, <1>t DEF Pristine
    <3>3. K2["box"][c].st = K["box"][c].st /\ K2["box"][c].id = K["box"][c].id
      BY <1>0, <1>k
    <3>4. /\ K2["box"][c].st # "none" /\ K2["box"][c].id = id[c] /\ id[c] # 0
          /\ K2["srv"][c] = K["srv"][c] /\ K["srv"][c].st = "none"
      BY <1>d, <1>t, <3>3 DEF Pristine, NoCon
    <3>5. K2["srv"][c].st \notin There /\ ~Listed(H2, "srv", c)
      <4>1. K2["srv"][c].st \notin There
        BY <3>4 DEF There
      <4>2. Listed(H, "srv", c) => K["srv"][c].st \in There
        BY <1>0, <1>c DEF Stage
      <4> QED  BY <3>1, <3>4, <4>1, <4>2
    <3>6. \A t \in Side : /\ Listed(H2, t, c) => K2[t][c].st \in There
                          /\ K2[t][c].st \in There => K2[t][c].id = id[c] /\ id[c] # 0
      BY <1>0, <1>d, <3>3, <3>4, <3>5
    <3>7. Stage(H2, K2, U, id, c)
      BY <1>n, <3>2, <3>4, <3>5, <3>6 DEF Stage
    <3> QED  BY <2>2, <2>3, <3>7
  <2>4. CASE d # c
    <3>1. \A t \in Side : K2[t][d] = K[t][d]
      BY <1>0, <1>t, <2>4
    <3> QED  BY <1>1, <1>6, <1>7, <2>1, <2>2, <2>4, <3>1, StageSame
  <2> QED  BY <2>3, <2>4
<1> QED  BY <1>0, <1>8, <1>9, <1>10, GoodFrom

\* A header and the first b bytes of q.
LEMMA MessageFacts ==
    ASSUME NEW q \in Seq(Item), NEW b \in 1 .. Len(q), NEW x \in Item, NEW out \in Seq(Item),
           NEW m, m = <<x>> \o SubSeq(q, 1, b)
    PROVE  /\ m \in Seq(Item) /\ Len(m) = b + 1 /\ m[1] = x
           /\ \A j \in 1 .. Len(m) : j # 1 => j - 1 \in 1 .. b /\ m[j] = q[j - 1]
           /\ out \o <<x>> \o SubSeq(q, 1, b) = out \o m
<1>1. PICK a \in Seq(Item) : a = <<x>> /\ Len(a) = 1 /\ a[1] = x
  <2>1. <<x>> \in Seq(Item) /\ Len(<<x>>) = 1 /\ <<x>>[1] = x
    OBVIOUS
  <2> QED  BY <2>1
<1>2. PICK r \in Seq(Item) : r = SubSeq(q, 1, b) /\ Len(r) = b /\ \A i \in 1 .. b : r[i] = q[i]
  <2>1. Len(q) \in Nat /\ \A i \in 1 .. Len(q) : q[i] \in Item
    OBVIOUS
  <2>2. \A i \in 1 .. b : q[i] \in Item
    BY <2>1
  <2>3. /\ SubSeq(q, 1, b) \in Seq(Item)
        /\ Len(SubSeq(q, 1, b)) = (IF 1 <= b THEN b - 1 + 1 ELSE 0)
        /\ \A i \in 1 .. b - 1 + 1 : SubSeq(q, 1, b)[i] = q[1 + i - 1]
    BY <2>2, SubSeqProperties
  <2>4. b - 1 + 1 = b /\ 1 <= b /\ \A i \in 1 .. b : 1 + i - 1 = i
    OBVIOUS
  <2> QED  BY <2>3, <2>4
<1>3. m = a \o r
  BY <1>1, <1>2
<1>4. /\ m \in Seq(Item) /\ Len(m) = Len(a) + Len(r)
      /\ \A i \in 1 .. Len(a) : m[i] = a[i]
      /\ \A i \in 1 .. Len(r) : m[Len(a) + i] = r[i]
  <2>1. /\ a \o r \in Seq(Item) /\ Len(a \o r) = Len(a) + Len(r)
        /\ \A i \in 1 .. Len(a) : (a \o r)[i] = a[i]
        /\ \A i \in 1 .. Len(r) : (a \o r)[Len(a) + i] = r[i]
    BY ConcatFacts
  <2> QED  BY <1>3, <2>1
<1>5. ASSUME NEW j \in 1 .. Len(m), j # 1
      PROVE  j - 1 \in 1 .. b /\ m[j] = q[j - 1]
  <2>1. j - 1 \in 1 .. b /\ 1 + (j - 1) = j
    BY <1>1, <1>2, <1>4, <1>5
  <2> QED  BY <1>1, <1>2, <1>4, <2>1
<1>6. (out \o a) \o r = out \o (a \o r)
  BY ItemsAssociative
<1>7. Len(m) = b + 1 /\ m[1] = x
  BY <1>1, <1>2, <1>4
<1> QED  BY <1>1, <1>2, <1>3, <1>4, <1>5, <1>6, <1>7

\* m: a message for id of the first b of the bytes q of c.
Message(m, i, q, c, b) ==
    /\ Len(m) = b + 1 /\ m[1] = Hdr(i, c, b)
    /\ \A j \in 1 .. Len(m) : j # 1 => j - 1 \in 1 .. b /\ m[j] = q[j - 1]

\* Such a message is stored, q2 stays.
Collects(H, K, H2, K2, s, c, b, q, q2, m) ==
    /\ H2[s].in = H[s].in /\ H2[s].out = H[s].out \o m
    /\ H2[s].n = H[s].n /\ H2[s].id = H[s].id /\ H2[s].list = H[s].list
    /\ Listed(H, s, c) /\ K[s][c].newSent
    /\ 1 <= b /\ b <= Len(q) /\ q = K[s][c].in
    /\ Message(m, K[s][c].id, q, c, b) /\ Shrunk(q, b, q2)
    /\ K2[s][c].in = q2 /\ K2[s][c].out = K[s][c].out /\ K2[s][c].newSent = K[s][c].newSent
    /\ K2[s][c].st = K[s][c].st /\ K2[s][c].id = K[s][c].id
    /\ \A d \in Client : d # c => K2[s][d] = K[s][d]

LEMMA GoodCollected ==
    ASSUME NEW H, NEW K, NEW U, NEW id, NEW H2, NEW K2, NEW s \in Side, Good(H, K, U, id),
           AtSide(H, K, U, H2, K2, s), NEW c \in Client, NEW b \in Nat,
           NEW q \in Seq(Item), NEW q2 \in Seq(Item), NEW m \in Seq(Item),
           Collects(H, K, H2, K2, s, c, b, q, q2, m)
    PROVE  Good(H2, K2, U, id)
<1>0. /\ Other(s) \in Side /\ Other(Other(s)) = s /\ Other(s) # s
      /\ \A t \in Side : t = s \/ t = Other(s)
  BY OtherFacts
<1>t. Typed(H, K, U) /\ Typed(H2, K2, U) /\ H2[Other(s)] = H[Other(s)] /\ K2[Other(s)] = K[Other(s)]
  BY SideTyped
<1>u. \A t \in Side : H2[t].up = H[t].up
  BY SideUp
<1>w. Way(H, K, U, id, Other(s)) /\ (H[Other(s)].up => Way(H, K, U, id, s))
  BY SideWays
<1>1. \A t \in Side : /\ H2[t].in = H[t].in /\ H2[t].n = H[t].n
                      /\ H2[t].id = H[t].id /\ H2[t].list = H[t].list /\ H2[t].up = H[t].up
  BY <1>0, <1>t, <1>u DEF Collects
<1>q. q = K[s][c].in /\ Listed(H, s, c) /\ K[s][c].newSent
  BY DEF Collects
<1>x0. PICK x : x = Hdr(K[s][c].id, c, b)
  OBVIOUS
<1>M. /\ Len(m) = b + 1 /\ m[1] = x
      /\ \A j \in 1 .. Len(m) : j # 1 => j - 1 \in 1 .. b /\ m[j] = q[j - 1]
      /\ H2[s].out = H[s].out \o m
  BY <1>x0 DEF Collects, Message
<1>m1. Len(m) = b + 1 /\ m[1] = x
  BY <1>M
<1>l. PICK l \in Seq(Item), l2 \in Seq(Item) : l = Line(H, s) /\ l2 = Line(H2, s)
  BY <1>t, TypedFacts
<1>2. Line(H2, Other(s)) = Line(H, Other(s)) /\ Grown(l, m, l2)
  <2>1. H2[s].out = H[s].out \o m /\ H2[s].in = H[s].in
    BY <1>M, <1>1
  <2>2. H[s].out \in Seq(Item) /\ H[Other(s)].in \in Seq(Item)
    BY <1>0, <1>t, TypedFacts
  <2>3. Grown(Line(H, s), m, Line(H2, s)) /\ Line(H2, Other(s)) = Line(H, Other(s))
    BY <1>t, <2>1, <2>2, LineGrown
  <2> QED  BY <1>l, <2>3
<1>c. Stage(H, K, U, id, c) /\ Ends(K, U, s, c) /\ Ends(K, U, Other(s), c)
  BY <1>0 DEF Good
<1>d. K[s][c].st \in There /\ K[s][c].id = id[c] /\ K["box"][c].st # "none" /\ id[c] # 0
  <2>1. K[s][c].st \in There /\ K[s][c].id = id[c] /\ id[c] # 0
    BY <1>c, <1>q DEF Stage
  <2>2. CASE s = "box"
    BY <2>1, <2>2 DEF There
  <2>3. CASE s = "srv"
    <3>1. K["srv"][c].st # "none"
      BY <2>1, <2>3 DEF There
    <3>2. ~Pristine(K, U, "srv", c)
      BY <3>1, PristineFacts
    <3> QED  BY <1>c, <2>1, <3>2 DEF Stage
  <2> QED  BY <2>1, <2>2, <2>3 DEF Side
<1>b. b \in Nat /\ b >= 1 /\ Len(q) \in Nat /\ b <= Len(q)
  <2>1. Len(q) \in Nat
    OBVIOUS
  <2> QED  BY <2>1 DEF Collects
<1>r. PICK r \in Nat : r = SentOff(K, U, s, c)
  <2>1. U[s][c].sent \in Nat /\ Len(q) <= U[s][c].sent
    BY <1>c, <1>q, <1>t, TypedFacts DEF Ends
  <2>2. U[s][c].sent - Len(q) \in Nat
    BY <1>b, <2>1
  <2> QED  BY <1>q, <2>2 DEF SentOff
<1>a. \A v \in 1 .. b : r + v > r /\ r + v <= r + b /\ 1 <= r + v
  BY <1>b
<1>B. \A i \in 1 .. Len(q) : q[i] = Byte(c, r + i)
  BY <1>c, <1>q, <1>r DEF Ends, SentOff
<1>x. /\ x.t = "hdr" /\ x.len = b /\ x.c = c /\ x.id = K[s][c].id /\ Span(x) = b
      /\ x.len # NewConnection
  BY <1>b, <1>x0 DEF Hdr, Span, NewConnection
<1>j. \A j \in 1 .. Len(m) : j # 1 => /\ m[j].t = "byte" /\ m[j].c = c /\ m[j].len = r + (j - 1)
                                      /\ j - 1 \in 1 .. b
  <2>1. ASSUME NEW j \in 1 .. Len(m), j # 1
        PROVE  /\ m[j].t = "byte" /\ m[j].c = c /\ m[j].len = r + (j - 1)
               /\ j - 1 \in 1 .. b
    <3>1. j - 1 \in 1 .. b /\ m[j] = q[j - 1]
      BY <1>M, <2>1
    <3>2. j - 1 \in 1 .. Len(q)
      BY <1>b, <1>q, <3>1
    <3>3. m[j] = Byte(c, r + (j - 1))
      BY <1>B, <3>1, <3>2
    <3> QED  BY <3>1, <3>3 DEF Byte
  <2> QED  BY <2>1
<1>k. /\ K2[s][c].in = q2 /\ K2[s][c].out = K[s][c].out /\ K2[s][c].newSent = K[s][c].newSent
      /\ K2[s][c].st = K[s][c].st /\ K2[s][c].id = K[s][c].id
      /\ \A d \in Client : d # c => K2[s][d] = K[s][d]
  BY DEF Collects
<1>K. \A t \in Side, d \in Client : /\ K2[t][d].out = K[t][d].out /\ K2[t][d].newSent = K[t][d].newSent
                                    /\ K2[t][d].st = K[t][d].st /\ K2[t][d].id = K[t][d].id
  BY <1>0, <1>k, <1>t
<1>L. Len(q2) = Len(q) - b /\ \A i \in 1 .. Len(q2) : q2[i] = q[i + b] /\ i + b \in 1 .. Len(q)
  <2>1. b \in 0 .. Len(q) /\ Shrunk(q, b, q2)
    BY <1>b DEF Collects
  <2> QED  BY <2>1, ShrunkIndex DEF Shrunk
<1>o. /\ SentOff(K2, U, s, c) = r + b
      /\ \A t \in Side, d \in Client : Arrived(K2, U, t, d) = Arrived(K, U, t, d)
      /\ \A t \in Side, d \in Client : t # s \/ d # c => SentOff(K2, U, t, d) = SentOff(K, U, t, d)
  <2>1. U[s][c].sent \in Nat
    BY <1>t, TypedFacts
  <2>2. U[s][c].sent - (Len(q) - b) = (U[s][c].sent - Len(q)) + b
    BY <1>b, <2>1
  <2>3. SentOff(K2, U, s, c) = r + b
    BY <1>L, <1>k, <1>q, <1>r, <2>2 DEF SentOff
  <2>4. \A t \in Side, d \in Client : t # s \/ d # c => K2[t][d] = K[t][d]
    BY <1>0, <1>k, <1>t
  <2> QED  BY <1>K, <2>3, <2>4 DEF SentOff, Arrived
<1>s. \A t \in Side, d \in Client : SentOff(K, U, t, d) <= SentOff(K2, U, t, d)
  <2>1. ASSUME NEW t \in Side, NEW d \in Client
        PROVE  SentOff(K, U, t, d) <= SentOff(K2, U, t, d)
    <3>1. CASE t = s /\ d = c
      BY <1>b, <1>o, <1>r, <3>1
    <3>2. CASE ~(t = s /\ d = c)
      <4>1. SentOff(K2, U, t, d) = SentOff(K, U, t, d) /\ SentOff(K, U, t, d) \in Int
        BY <1>o, <1>t, <3>2, TypedFacts
      <4> QED  BY <4>1
    <3> QED  BY <3>1, <3>2
  <2> QED  BY <2>1
<1>6. ASSUME NEW d \in Client
      PROVE  NewOnWay(H2, d) => NewOnWay(H, d)
  <2>1. ASSUME NEW j \in 1 .. Len(m)
        PROVE  ~IsNew(m[j], d)
    BY <1>m1, <1>j, <1>x DEF IsNew
  <2>2. ~ \E j \in 1 .. Len(m) : IsNew(m[j], d)
    BY <2>1
  <2> QED  BY <1>2, <1>m1, <1>l, <2>2, NewOnWayGrown
<1>7. \A t \in Side, d \in Client : /\ Listed(H2, t, d) = Listed(H, t, d)
                                    /\ Live(H2, K2, t, d) = Live(H, K, t, d)
                                    /\ Expects(H2, K2, t, d) => Expects(H, K, t, d)
  BY <1>1, <1>6, <1>K DEF Listed, Live, Expects
<1>y. \A d \in Client : K["box"][d].st # "none" => K2["box"][d].st # "none"
  BY <1>K DEF Side
<1>8. Way(H2, K2, U, id, Other(s))
  <2>1. \A d \in Client :
           /\ K["box"][d].st # "none" => K2["box"][d].st # "none"
           /\ SentOff(K, U, Other(s), d) <= SentOff(K2, U, Other(s), d)
           /\ Expects(H2, K2, s, d) =>
                 /\ Expects(H, K, s, d)
                 /\ Arrived(K2, U, s, d) = Arrived(K, U, s, d)
           /\ Live(H2, K2, Other(s), d) =>
                 /\ Live(H, K, Other(s), d)
                 /\ SentOff(K2, U, Other(s), d) = SentOff(K, U, Other(s), d)
    BY <1>0, <1>7, <1>o, <1>s, <1>y
  <2> QED  BY <1>0, <1>1, <1>2, <1>t, <1>w, <2>1, WaySame
<1>9. ASSUME H[Other(s)].up
      PROVE  Way(H2, K2, U, id, s)
  <2>w. Way(H, K, U, id, s)
    BY <1>9, <1>w
  <2>1. ASSUME NEW d \in Client, Expects(H2, K2, Other(s), d)
        PROVE  Flow(l2, d, Arrived(K2, U, Other(s), d), SentOff(K2, U, s, d), Live(H2, K2, s, d))
    <3>1. /\ Flow(l, d, Arrived(K, U, Other(s), d), SentOff(K, U, s, d), Live(H, K, s, d))
          /\ Bound(l, d, SentOff(K, U, s, d))
      BY <1>0, <1>7, <1>l, <2>1, <2>w DEF Way
    <3>2. CASE d = c
      <4>a. PICK k \in Nat : k = Arrived(K, U, Other(s), c)
        BY <1>0, <1>t, TypedFacts
      <4>1. k <= r
        BY <1>0, <1>c, <1>r, <4>a DEF Ends
      <4>2. Live(H, K, s, c) /\ Live(H2, K2, s, c)
        BY <1>7, <1>q DEF Live, AtSide
      <4>3. Flow(l, c, k, r, TRUE) /\ Bound(l, c, r)
        BY <1>r, <3>1, <3>2, <4>2, <4>a DEF Flow
      <4>4. PICK r2 \in Nat : r2 = r + b
        BY <1>b
      <4>5. \A j \in 1 .. Len(m) : IsByte(m[j], c) => m[j].len > r /\ m[j].len <= r2
        <5>1. ASSUME NEW j \in 1 .. Len(m), IsByte(m[j], c)
              PROVE  m[j].len > r /\ m[j].len <= r2
          <6>1. j # 1
            BY <1>m1, <1>x, <5>1 DEF IsByte
          <6>2. PICK v \in 1 .. b : v = j - 1 /\ m[j].len = r + v
            BY <1>j, <6>1
          <6> QED  BY <1>a, <4>4, <6>2
        <5> QED  BY <5>1
      <4>6. \A p \in r + 1 .. r2 : \E j \in 1 .. Len(m) : IsByte(m[j], c) /\ m[j].len = p
        <5>1. ASSUME NEW p \in r + 1 .. r2
              PROVE  \E j \in 1 .. Len(m) : IsByte(m[j], c) /\ m[j].len = p
          <6>1. p - r + 1 \in 1 .. Len(m) /\ p - r + 1 # 1 /\ r + ((p - r + 1) - 1) = p
            BY <1>m1, <1>b, <4>4
          <6> QED  BY <1>j, <6>1 DEF IsByte
        <5> QED  BY <5>1
      <4>7. \A i, j \in 1 .. Len(m) : IsByte(m[i], c) /\ IsByte(m[j], c) /\ i < j => m[i].len < m[j].len
        <5>1. ASSUME NEW i \in 1 .. Len(m), NEW j \in 1 .. Len(m), IsByte(m[i], c), IsByte(m[j], c), i < j
              PROVE  m[i].len < m[j].len
          <6>1. i # 1 /\ j # 1
            BY <1>m1, <1>x, <5>1 DEF IsByte
          <6>2. m[i].len = r + (i - 1) /\ m[j].len = r + (j - 1)
            BY <1>j, <6>1
          <6> QED  BY <5>1, <6>2
        <5> QED  BY <5>1
      <4>8. r <= r2
        BY <1>b, <4>4
      <4>9. Flow(l2, c, k, r2, TRUE)
        BY <1>2, <1>m1, <4>1, <4>3, <4>5, <4>6, <4>7, <4>8, FlowGrownInTurn
      <4> QED  BY <1>0, <1>o, <3>2, <4>4, <4>9, <4>a DEF Flow
    <3>3. CASE d # c
      <4>1. \A j \in 1 .. Len(m) : ~IsByte(m[j], d)
        <5>1. ASSUME NEW j \in 1 .. Len(m)
              PROVE  ~IsByte(m[j], d)
          BY <1>m1, <1>j, <1>x, <3>3 DEF IsByte
        <5> QED  BY <5>1
      <4>2. Flow(l, d, Arrived(K2, U, Other(s), d), SentOff(K2, U, s, d), Live(H2, K2, s, d))
        BY <1>0, <1>7, <1>o, <3>1, <3>3
      <4> QED  BY <1>2, <1>m1, <4>1, <4>2, FlowGrownByOthers
    <3> QED  BY <3>2, <3>3
  <2>2. Len(m) > 0
    BY <1>m1, <1>b
  <2>h. \A i \in 1 .. Len(m) : m[i].t = "hdr" => i = 1
    BY <1>j
  <2>3. Framed(m, 0, TRUE)
    <3>1. \A i \in 1 .. Len(m) : (i <= 0 => m[i].t = "byte") /\ (i = 0 + 1 => m[i].t = "hdr")
      BY <1>m1, <1>x
    <3>2. \A i, j \in 1 .. Len(m) : m[i].t = "hdr" /\ i < j =>
             /\ j <= i + Span(m[i]) => m[j].t = "byte" /\ m[j].c = m[i].c
             /\ j = i + Span(m[i]) + 1 => m[j].t = "hdr"
      <4>1. ASSUME NEW i \in 1 .. Len(m), NEW j \in 1 .. Len(m), m[i].t = "hdr", i < j
            PROVE  m[j].t = "byte" /\ m[j].c = m[i].c /\ ~(j = i + Span(m[i]) + 1)
        <5>1. i = 1 /\ m[i] = x /\ j # 1
          <6>1. i = 1
            BY <2>h, <4>1
          <6> QED  BY <1>m1, <4>1, <6>1
        <5>2. ~(j = 1 + b + 1)
          BY <1>m1, <1>b
        <5> QED  BY <1>j, <1>x, <5>1, <5>2
      <4> QED  BY <4>1
    <3>3. \A i \in 1 .. Len(m) : m[i].t = "hdr" => i + Span(m[i]) <= Len(m)
      <4>1. 1 + b <= Len(m)
        BY <1>m1, <1>b
      <4> QED  BY <1>m1, <1>x, <2>h, <4>1
    <3>4. 0 <= Len(m)
      BY <1>m1, <1>b
    <3> QED  BY <3>1, <3>2, <3>3, <3>4 DEF Framed
  <2>4. \A cur : Owned(m, 0, cur, id, K2)
    <3>1. \A i \in 1 .. Len(m) : m[i].c = c /\ (m[i].t = "hdr" => m[i].id = id[c]) /\ ~(i <= 0)
      BY <1>m1, <1>d, <1>j, <1>x, <2>h
    <3>2. K2["box"][c].st # "none" /\ id[c] # 0
      BY <1>d, <1>y
    <3> QED  BY <3>1, <3>2 DEF Owned
  <2>n. \A i \in 1 .. Len(m) : m[i].t = "hdr" => m[i].len # NewConnection
    BY <1>m1, <1>x, <2>h
  <2>5. News(m)
    BY <2>n DEF News
  <2>6. ASSUME NEW d \in Client
        PROVE  Bound(m, d, SentOff(K2, U, s, d))
    <3>1. ASSUME NEW j \in 1 .. Len(m), IsByte(m[j], d)
          PROVE  1 <= m[j].len /\ m[j].len <= SentOff(K2, U, s, d)
      <4>1. j # 1
        BY <1>m1, <1>x, <3>1 DEF IsByte
      <4>2. d = c
        BY <1>j, <3>1, <4>1 DEF IsByte
      <4>3. PICK v \in 1 .. b : v = j - 1 /\ m[j].len = r + v
        BY <1>j, <4>1
      <4> QED  BY <1>a, <1>o, <4>2, <4>3
    <3> QED  BY <3>1 DEF Bound
  <2> QED  BY <1>2, <1>9, <1>m1, <1>l, <1>s, <1>y, <2>1, <2>2, <2>3, <2>4, <2>5, <2>6, <2>n, WayGrown
<1>10. ASSUME NEW d \in Client
       PROVE  Stage(H2, K2, U, id, d) /\ \A t \in Side : Ends(K2, U, t, d)
  <2>1. Stage(H, K, U, id, d) /\ \A t \in Side : Ends(K, U, t, d)
    BY DEF Good
  <2>2. CASE d = c
    <3>1. Ends(K2, U, s, c)
      <4>1. Len(q2) <= U[s][c].sent
        <5>1. U[s][c].sent \in Nat /\ Len(q) <= U[s][c].sent
          BY <1>c, <1>q, <1>t, TypedFacts DEF Ends
        <5> QED  BY <1>L, <1>b, <5>1
      <4>2. ASSUME NEW i \in 1 .. Len(q2)
            PROVE  q2[i] = Byte(c, U[s][c].sent - Len(q2) + i)
        <5>1. q2[i] = Byte(c, r + (i + b))
          BY <1>B, <1>L
        <5>2. U[s][c].sent \in Nat /\ r = U[s][c].sent - Len(q)
          BY <1>q, <1>r, <1>t, TypedFacts DEF SentOff
        <5>3. U[s][c].sent - Len(q2) + i = r + (i + b)
          <6>1. Len(q2) = Len(q) - b /\ i \in Int /\ Len(q) \in Int /\ U[s][c].sent \in Int
            BY <1>L, <1>b, <5>2
          <6>2. \A v, n, j \in Int : v - (n - b) + j = (v - n) + (j + b)
            BY <1>b
          <6>3. U[s][c].sent - (Len(q) - b) + i = (U[s][c].sent - Len(q)) + (i + b)
            BY <6>1, <6>2
          <6> QED  BY <5>2, <6>1, <6>3
        <5> QED  BY <5>1, <5>3
      <4>3. Arrived(K2, U, s, c) <= SentOff(K2, U, Other(s), c)
        <5>1. Arrived(K, U, s, c) <= SentOff(K, U, Other(s), c)
          BY <1>c DEF Ends
        <5> QED  BY <1>0, <1>o, <5>1
      <4> QED  BY <1>c, <1>k, <4>1, <4>2, <4>3 DEF Ends
    <3>2. Ends(K2, U, Other(s), c)
      BY <1>0, <1>c, <1>s, <1>t, EndsSame
    <3>3. Stage(H2, K2, U, id, c)
      <4>1. ~Pristine(K, U, s, c)
        BY <1>d, PristineFacts DEF There
      <4>2. \A t \in Side : Listed(H2, t, c) = Listed(H, t, c)
        BY <1>7
      <4>3. CASE s = "box"
        <5>1. K2["srv"] = K["srv"]
          BY <1>t, <4>3 DEF Other
        <5>2. Pristine(K2, U, "srv", c) = Pristine(K, U, "srv", c)
          BY <5>1 DEF Pristine
        <5>3. K2["box"][c].newSent /\ K2["box"][c].st \in There /\ K2["box"][c].st # "none"
          BY <1>d, <1>k, <1>q, <4>3 DEF There
        <5> QED  BY <1>6, <1>K, <1>c, <1>u, <4>2, <5>2, <5>3 DEF Stage, Side
      <4>4. CASE s = "srv"
        <5>1. /\ K["box"][c].st # "none" /\ ~(K["box"][c].st \in There /\ ~K["box"][c].newSent)
              /\ ~(H["srv"].up /\ NewOnWay(H, c)) /\ K["srv"][c].st # "none"
          BY <1>c, <1>d, <4>1, <4>4 DEF Stage, There
        <5> QED  BY <1>6, <1>K, <1>c, <1>u, <4>2, <5>1 DEF Stage, Side
      <4> QED  BY <4>3, <4>4 DEF Side
    <3> QED  BY <1>0, <2>2, <3>1, <3>2, <3>3
  <2>3. CASE d # c
    <3>1. \A t \in Side : K2[t][d] = K[t][d]
      BY <1>0, <1>k, <1>t, <2>3
    <3>2. ASSUME NEW t \in Side
          PROVE  Ends(K2, U, t, d)
      <4>1. SentOff(K, U, Other(t), d) <= SentOff(K2, U, Other(t), d)
        BY <1>s, OtherFacts
      <4> QED  BY <1>t, <2>1, <3>1, <4>1, EndsSame
    <3> QED  BY <1>1, <1>6, <1>7, <2>1, <3>1, <3>2, StageSame
  <2> QED  BY <2>2, <2>3
<1> QED  BY <1>8, <1>9, <1>10, GoodFrom

\* d items are taken from what has come to side s.
LEMMA LineShrunk ==
    ASSUME NEW H, NEW H2, NEW s \in Side, H2[Other(s)] = H[Other(s)],
           H[s].in \in Seq(Item), H[Other(s)].out \in Seq(Item), H2[s].in \in Seq(Item),
           NEW d \in 0 .. Len(H[s].in), Shrunk(H[s].in, d, H2[s].in), H2[s].out = H[s].out
    PROVE  /\ Shrunk(Line(H, Other(s)), d, Line(H2, Other(s))) /\ Line(H2, s) = Line(H, s)
           /\ d \in 0 .. Len(Line(H, Other(s)))
           /\ \A i \in 1 .. Len(H[s].in) : i \in 1 .. Len(Line(H, Other(s))) /\ Line(H, Other(s))[i] = H[s].in[i]
<1>0. Other(Other(s)) = s
  BY OtherFacts
<1>1. Line(H2, s) = Line(H, s)
  BY DEF Line
<1>a. PICK a \in Seq(Item) : a = H[s].in
  BY Zenon
<1>a2. PICK a2 \in Seq(Item) : a2 = H2[s].in
  BY Zenon
<1>e. PICK e \in Seq(Item) : e = H[Other(s)].out
  BY Zenon
<1>l. PICK l \in Seq(Item), l2 \in Seq(Item) : l = a \o e /\ l2 = a2 \o e
  <2>1. a \o e \in Seq(Item) /\ a2 \o e \in Seq(Item)
    BY ConcatFacts
  <2> QED  BY <2>1
<1>2. l = Line(H, Other(s)) /\ l2 = Line(H2, Other(s))
  BY <1>0, <1>a, <1>a2, <1>e, <1>l DEF Line
<1>3. d \in 0 .. Len(a) /\ Shrunk(a, d, a2) /\ Len(a) \in Nat /\ Len(e) \in Nat
  <2>1. Len(a) \in Nat /\ Len(e) \in Nat
    OBVIOUS
  <2> QED  BY <1>a, <1>a2, <2>1
<1>4. /\ Len(l) = Len(a) + Len(e)
      /\ \A i \in 1 .. Len(a) : l[i] = a[i]
      /\ \A i \in 1 .. Len(e) : l[Len(a) + i] = e[i]
  BY <1>l, ConcatFacts
<1>5. /\ Len(l2) = Len(a2) + Len(e)
      /\ \A i \in 1 .. Len(a2) : l2[i] = a2[i]
      /\ \A i \in 1 .. Len(e) : l2[Len(a2) + i] = e[i]
  BY <1>l, ConcatFacts
<1>6. Len(a) = Len(a2) + d /\ Len(a2) \in Nat /\ \A i \in 1 .. Len(a2) : i + d \in 1 .. Len(a) /\ a2[i] = a[i + d]
  BY <1>3, ShrunkIndex
<1>7. ASSUME NEW i \in 1 .. Len(l2)
      PROVE  l2[i] = l[i + d]
  <2>1. CASE i <= Len(a2)
    <3>1. i \in 1 .. Len(a2)
      BY <1>5, <1>6, <2>1
    <3> QED  BY <1>4, <1>5, <1>6, <3>1
  <2>2. CASE ~(i <= Len(a2))
    <3>1. PICK j \in 1 .. Len(e) : i = Len(a2) + j
      <4>1. i - Len(a2) \in 1 .. Len(e) /\ i = Len(a2) + (i - Len(a2))
        BY <1>3, <1>5, <1>6, <2>2
      <4> QED  BY <4>1
    <3>2. i + d = Len(a) + j
      BY <1>6, <3>1
    <3> QED  BY <1>4, <1>5, <3>1, <3>2
  <2> QED  BY <2>1, <2>2
<1>8. Shrunk(l, d, l2) /\ d \in 0 .. Len(l)
  <2>1. Len(l2) = Len(l) - d /\ d \in 0 .. Len(l)
    BY <1>3, <1>4, <1>5, <1>6
  <2> QED  BY <1>7, <2>1 DEF Shrunk
<1>9. \A i \in 1 .. Len(a) : i \in 1 .. Len(l) /\ l[i] = a[i]
  BY <1>3, <1>4
<1> QED  BY <1>1, <1>2, <1>8, <1>9, <1>a

LEMMA WayShrunk ==
    ASSUME NEW H, NEW K, NEW U, NEW id, NEW H2, NEW K2, NEW s \in Side, Good(H, K, U, id),
           AtSide(H, K, U, H2, K2, s), NEW l \in Seq(Item), NEW l2 \in Seq(Item),
           l = Line(H, Other(s)), l2 = Line(H2, Other(s)),
           NEW d \in 0 .. Len(l), Shrunk(l, d, l2), NEW n \in Nat, NEW n2 \in Nat, NEW cur, NEW cur2,
           n = H[s].n, n2 = H2[s].n, cur = H[s].id, cur2 = H2[s].id,
           \/ d <= n /\ n2 = n - d /\ cur2 = cur
           \/ d = 1 /\ n = 0 /\ n2 = Span(l[1]) /\ (n2 > 0 => cur2 = l[1].id),
           \A c \in Client : K["box"][c].st # "none" => K2["box"][c].st # "none",
           \A c \in Client : Expects(H2, K2, s, c) =>
              Flow(l2, c, Arrived(K2, U, s, c), SentOff(K, U, Other(s), c), Live(H2, K2, Other(s), c))
    PROVE  Way(H2, K2, U, id, Other(s))
<1>0. /\ Other(s) \in Side /\ Other(Other(s)) = s
      /\ Typed(H, K, U) /\ Typed(H2, K2, U) /\ H2[Other(s)] = H[Other(s)] /\ K2[Other(s)] = K[Other(s)]
  BY OtherFacts, SideTyped
<1>w. Way(H, K, U, id, Other(s))
  BY SideWays
<1>p. PICK whole : whole = H[Other(s)].up
  OBVIOUS
<1>1. /\ Framed(l, n, whole) /\ Owned(l, n, cur, id, K) /\ News(l)
      /\ \A c \in Client : Bound(l, c, SentOff(K, U, Other(s), c))
  BY <1>0, <1>p, <1>w DEF Way
<1>2. Framed(l2, n2, whole)
  BY <1>1, FramedShrunk
<1>3. Owned(l2, n2, cur2, id, K2)
  <2>1. Owned(l, n, cur, id, K2)
    BY <1>1 DEF Owned
  <2> QED  BY <1>1, <2>1, OwnedShrunk
<1>4. News(l2)
  BY <1>1, NewsShrunk
<1>5. \A c \in Client : SentOff(K2, U, Other(s), c) = SentOff(K, U, Other(s), c)
  BY <1>0 DEF SentOff
<1>6. \A c \in Client : Bound(l2, c, SentOff(K2, U, Other(s), c))
  BY <1>1, <1>5, BoundShrunk
<1> QED  BY <1>0, <1>2, <1>3, <1>4, <1>5, <1>6, <1>p DEF Way

LEMMA NewOnWayShrunk ==
    ASSUME NEW H, NEW H2, NEW s \in Side, NEW l \in Seq(Item), NEW l2 \in Seq(Item),
           l = Line(H, Other(s)), l2 = Line(H2, Other(s)), Line(H2, s) = Line(H, s),
           NEW d \in 0 .. Len(l), Shrunk(l, d, l2), NEW c, NewOnWay(H2, c)
    PROVE  NewOnWay(H, c)
<1>1. CASE s = "srv"
  <2>1. l = Line(H, "box") /\ l2 = Line(H2, "box")
    BY <1>1 DEF Other
  <2>2. PICK i \in 1 .. Len(l2) : IsNew(l2[i], c)
    BY <2>1 DEF NewOnWay
  <2>3. i + d \in 1 .. Len(l) /\ l2[i] = l[i + d]
    BY ShrunkIndex
  <2> QED  BY <2>1, <2>2, <2>3 DEF NewOnWay
<1>2. CASE s = "box"
  BY <1>2 DEF NewOnWay
<1> QED  BY <1>1, <1>2 DEF Side

\* d items are taken from what has come to side s.
Takes(H, H2, s, d) ==
    /\ d \in 0 .. Len(H[s].in) /\ Shrunk(H[s].in, d, H2[s].in)
    /\ H2[s].out = H[s].out

LEMMA TakesLine ==
    ASSUME NEW H, NEW K, NEW U, NEW id, NEW H2, NEW K2, NEW s \in Side, Good(H, K, U, id),
           AtSide(H, K, U, H2, K2, s), NEW d, Takes(H, H2, s, d)
    PROVE  \E l \in Seq(Item), l2 \in Seq(Item) :
              /\ l = Line(H, Other(s)) /\ l2 = Line(H2, Other(s))
              /\ Line(H2, s) = Line(H, s) /\ d \in 0 .. Len(l) /\ Shrunk(l, d, l2)
              /\ \A i \in 1 .. Len(H[s].in) : i \in 1 .. Len(l) /\ l[i] = H[s].in[i]
              /\ \A c : NewOnWay(H2, c) => NewOnWay(H, c)
<1>0. /\ Other(s) \in Side /\ Typed(H, K, U) /\ Typed(H2, K2, U) /\ H2[Other(s)] = H[Other(s)]
  BY OtherFacts, SideTyped
<1>1. /\ H[s].in \in Seq(Item) /\ H[Other(s)].out \in Seq(Item) /\ H2[s].in \in Seq(Item)
      /\ Line(H, Other(s)) \in Seq(Item) /\ Line(H2, Other(s)) \in Seq(Item)
  BY <1>0, TypedFacts
<1>2. d \in 0 .. Len(H[s].in) /\ Shrunk(H[s].in, d, H2[s].in) /\ H2[s].out = H[s].out
  BY DEF Takes
<1>l. PICK l \in Seq(Item), l2 \in Seq(Item) : l = Line(H, Other(s)) /\ l2 = Line(H2, Other(s))
  BY <1>1
<1>3. /\ Shrunk(l, d, l2) /\ Line(H2, s) = Line(H, s) /\ d \in 0 .. Len(l)
      /\ \A i \in 1 .. Len(H[s].in) : i \in 1 .. Len(l) /\ l[i] = H[s].in[i]
  <2>1. /\ Shrunk(Line(H, Other(s)), d, Line(H2, Other(s))) /\ Line(H2, s) = Line(H, s)
        /\ d \in 0 .. Len(Line(H, Other(s)))
        /\ \A i \in 1 .. Len(H[s].in) : i \in 1 .. Len(Line(H, Other(s))) /\ Line(H, Other(s))[i] = H[s].in[i]
    BY <1>0, <1>1, <1>2, LineShrunk
  <2> QED  BY <1>l, <2>1
<1>4. \A c : NewOnWay(H2, c) => NewOnWay(H, c)
  BY <1>3, <1>l, NewOnWayShrunk
<1> QED  BY <1>3, <1>4, <1>l

\* The status of a connection changes, the rest stays.
Stops(k, k2) ==
    /\ k2 = k \/ {k.st, k2.st} \subseteq There
    /\ k2.in = k.in /\ k2.out = k.out /\ k2.newSent = k.newSent /\ k2.id = k.id

\* A header is taken which does not bring a connection.
TakesHeader(H, K, H2, K2, s, x) ==
    /\ Takes(H, H2, s, 1) /\ H[s].n = 0 /\ x = H[s].in[1]
    /\ H2[s].n = Span(x) /\ (Span(x) > 0 => H2[s].id = x.id) /\ H2[s].list = H[s].list
    /\ \A c \in Client : Stops(K[s][c], K2[s][c])

LEMMA GoodHeader ==
    ASSUME NEW H, NEW K, NEW U, NEW id, NEW H2, NEW K2, NEW s \in Side, Good(H, K, U, id),
           AtSide(H, K, U, H2, K2, s), NEW x \in Item, TakesHeader(H, K, H2, K2, s, x)
    PROVE  Good(H2, K2, U, id)
<1>0. /\ Other(s) \in Side /\ Other(Other(s)) = s /\ Other(s) # s
      /\ \A t \in Side : t = s \/ t = Other(s)
  BY OtherFacts
<1>t. Typed(H, K, U) /\ Typed(H2, K2, U) /\ H2[Other(s)] = H[Other(s)] /\ K2[Other(s)] = K[Other(s)]
  BY SideTyped
<1>u. \A t \in Side : H2[t].up = H[t].up
  BY SideUp
<1>w. Way(H, K, U, id, Other(s)) /\ (H[Other(s)].up => Way(H, K, U, id, s))
  BY SideWays
<1>1. Takes(H, H2, s, 1)
  BY DEF TakesHeader
<1>l. PICK l \in Seq(Item), l2 \in Seq(Item) :
         /\ l = Line(H, Other(s)) /\ l2 = Line(H2, Other(s))
         /\ Line(H2, s) = Line(H, s) /\ 1 \in 0 .. Len(l) /\ Shrunk(l, 1, l2)
         /\ \A i \in 1 .. Len(H[s].in) : i \in 1 .. Len(l) /\ l[i] = H[s].in[i]
         /\ \A c : NewOnWay(H2, c) => NewOnWay(H, c)
  BY <1>1, TakesLine
<1>x. l[1] = x /\ 1 \in 1 .. Len(l)
  <2>1. 1 \in 1 .. Len(H[s].in)
    BY <1>1 DEF Takes
  <2> QED  BY <1>l, <2>1 DEF TakesHeader
<1>n. /\ H[s].n = 0 /\ H2[s].n = Span(x) /\ (Span(x) > 0 => H2[s].id = x.id)
      /\ H2[s].list = H[s].list /\ H2[Other(s)].list = H[Other(s)].list
  BY <1>t DEF TakesHeader
<1>k. \A c \in Client : Stops(K[s][c], K2[s][c])
  BY DEF TakesHeader
<1>K. \A t \in Side, c \in Client : /\ K2[t][c] = K[t][c] \/ {K[t][c].st, K2[t][c].st} \subseteq There
                                    /\ K2[t][c].in = K[t][c].in /\ K2[t][c].out = K[t][c].out
                                    /\ K2[t][c].newSent = K[t][c].newSent /\ K2[t][c].id = K[t][c].id
  <2>1. ASSUME NEW t \in Side, NEW c \in Client
        PROVE  /\ K2[t][c] = K[t][c] \/ {K[t][c].st, K2[t][c].st} \subseteq There
               /\ K2[t][c].in = K[t][c].in /\ K2[t][c].out = K[t][c].out
               /\ K2[t][c].newSent = K[t][c].newSent /\ K2[t][c].id = K[t][c].id
    <3>1. CASE t = s
      BY <1>k, <3>1 DEF Stops
    <3>2. CASE t = Other(s)
      BY <1>t, <3>2
    <3> QED  BY <1>0, <3>1, <3>2
  <2> QED  BY <2>1
<1>o. \A t \in Side, c \in Client : /\ SentOff(K2, U, t, c) = SentOff(K, U, t, c)
                                    /\ Arrived(K2, U, t, c) = Arrived(K, U, t, c)
                                    /\ SentOff(K, U, t, c) <= SentOff(K2, U, t, c)
  <2>1. \A t \in Side, c \in Client : SentOff(K, U, t, c) \in Int
    BY <1>t, TypedFacts
  <2>2. \A t \in Side, c \in Client : /\ SentOff(K2, U, t, c) = SentOff(K, U, t, c)
                                      /\ Arrived(K2, U, t, c) = Arrived(K, U, t, c)
    BY <1>K DEF SentOff, Arrived
  <2> QED  BY <2>1, <2>2
<1>y. \A t \in Side, c \in Client : /\ K2[t][c].st # "none" <=> K[t][c].st # "none"
                                    /\ K2[t][c].st \in There <=> K[t][c].st \in There
  BY <1>K DEF There
<1>7. \A t \in Side, c \in Client : /\ Listed(H2, t, c) = Listed(H, t, c)
                                    /\ Live(H2, K2, t, c) = Live(H, K, t, c)
                                    /\ Expects(H2, K2, t, c) => Expects(H, K, t, c)
  BY <1>0, <1>K, <1>l, <1>n, <1>u DEF Listed, Live, Expects
<1>8. ASSUME H[Other(s)].up
      PROVE  Way(H2, K2, U, id, s)
  <2>1. Way(H, K, U, id, s)
    BY <1>8, <1>w
  <2>2. \A c \in Client :
           /\ K["box"][c].st # "none" => K2["box"][c].st # "none"
           /\ SentOff(K, U, s, c) <= SentOff(K2, U, s, c)
           /\ Expects(H2, K2, Other(s), c) =>
                 /\ Expects(H, K, Other(s), c)
                 /\ Arrived(K2, U, Other(s), c) = Arrived(K, U, Other(s), c)
           /\ Live(H2, K2, s, c) =>
                 /\ Live(H, K, s, c)
                 /\ SentOff(K2, U, s, c) = SentOff(K, U, s, c)
    BY <1>0, <1>7, <1>o, <1>y DEF Side
  <2> QED  BY <1>l, <1>t, <1>u, <2>1, <2>2, WaySame
<1>9. Way(H2, K2, U, id, Other(s))
  <2>1. ASSUME NEW c \in Client, Expects(H2, K2, s, c)
        PROVE  Flow(l2, c, Arrived(K2, U, s, c), SentOff(K, U, Other(s), c), Live(H2, K2, Other(s), c))
    <3>1. Flow(l, c, Arrived(K, U, s, c), SentOff(K, U, Other(s), c), Live(H, K, Other(s), c))
      BY <1>0, <1>7, <1>l, <1>w, <2>1 DEF Way
    <3>2. Flow(l, c, Arrived(K2, U, s, c), SentOff(K, U, Other(s), c), Live(H2, K2, Other(s), c))
      BY <1>0, <1>7, <1>o, <3>1
    <3>3. x.t = "hdr"
      <4>1. Framed(l, 0, H[Other(s)].up)
        BY <1>0, <1>l, <1>n, <1>w DEF Way
      <4>2. 1 = 0 + 1
        OBVIOUS
      <4> QED  BY <1>x, <4>1, <4>2 DEF Framed
    <3>4. \A i \in 1 .. 1 : ~IsByte(l[i], c)
      BY <1>x, <3>3 DEF IsByte
    <3> QED  BY <1>l, <3>2, <3>4, FlowShrunkByOthers
  <2>2. \A c \in Client : K["box"][c].st # "none" => K2["box"][c].st # "none"
    BY <1>y DEF Side
  <2>n. PICK n, n2, cur, cur2 :
           n \in Nat /\ n2 \in Nat /\ n = H[s].n /\ n2 = H2[s].n /\ cur = H[s].id /\ cur2 = H2[s].id
    BY <1>t, TypedFacts
  <2>3. \/ 1 <= n /\ n2 = n - 1 /\ cur2 = cur
        \/ 1 = 1 /\ n = 0 /\ n2 = Span(l[1]) /\ (n2 > 0 => cur2 = l[1].id)
    BY <1>n, <1>x, <2>n
  <2>4. l = Line(H, Other(s)) /\ l2 = Line(H2, Other(s)) /\ 1 \in 0 .. Len(l) /\ Shrunk(l, 1, l2)
    BY <1>l
  <2> QED  BY <2>1, <2>2, <2>3, <2>4, <2>n, WayShrunk
<1>10. ASSUME NEW c \in Client
       PROVE  Stage(H2, K2, U, id, c) /\ \A t \in Side : Ends(K2, U, t, c)
  <2>1. Stage(H, K, U, id, c) /\ \A t \in Side : Ends(K, U, t, c)
    BY DEF Good
  <2>2. ASSUME NEW t \in Side
        PROVE  Ends(K2, U, t, c)
    <3>1. SentOff(K, U, Other(t), c) <= SentOff(K2, U, Other(t), c)
      BY <1>o, OtherFacts
    <3> QED  BY <1>K, <1>t, <2>1, <3>1, EndsSame
  <2>3. \A t \in Side : Pristine(K, U, t, c) => Pristine(K2, U, t, c)
    <3>1. \A t \in Side : Pristine(K, U, t, c) => K[t][c].st \notin There
      BY PristineFacts DEF There
    <3> QED  BY <1>K, <3>1 DEF Pristine
  <2>4. Stage(H2, K2, U, id, c)
    <3>1. "box" \in Side /\ "srv" \in Side
      BY DEF Side
    <3>2. SentOff(K2, U, "box", c) = SentOff(K, U, "box", c) /\ (NewOnWay(H2, c) => NewOnWay(H, c))
      BY <1>l, <1>o, <3>1
    <3>3. \A t \in Side : /\ (K2[t][c].st # "none" <=> K[t][c].st # "none")
                          /\ (K2[t][c].st \in There <=> K[t][c].st \in There)
                          /\ K2[t][c].newSent = K[t][c].newSent /\ K2[t][c].id = K[t][c].id
                          /\ Listed(H2, t, c) = Listed(H, t, c) /\ H2[t].up = H[t].up
      BY <1>7, <1>K, <1>u, <1>y
    <3> QED  BY <2>1, <2>3, <3>1, <3>2, <3>3 DEF Stage
  <2> QED  BY <2>2, <2>4
<1> QED  BY <1>8, <1>9, <1>10, GoodFrom

LEMMA RangeAppend ==
    ASSUME NEW T, NEW list \in Seq(T), NEW c \in T
    PROVE  Range(Append(list, c)) = Range(list) \union {c}
<1>l. PICK l \in Seq(T) : l = Append(list, c)
  BY AppendProperties
<1>1. /\ Len(l) = Len(list) + 1 /\ Len(list) \in Nat
      /\ \A i \in 1 .. Len(list) : l[i] = list[i]
      /\ l[Len(list) + 1] = c
  BY <1>l, AppendProperties
<1>2. /\ Range(l) = {l[i] : i \in 1 .. Len(l)}
      /\ Range(list) = {list[i] : i \in 1 .. Len(list)}
  BY RangeFacts
<1>3. \A i \in 1 .. Len(l) : i \in 1 .. Len(list) \/ i = Len(list) + 1
  BY <1>1
<1>4. \A i \in 1 .. Len(list) : i \in 1 .. Len(l)
  BY <1>1
<1>5. Len(list) + 1 \in 1 .. Len(l)
  BY <1>1
<1>6. Range(l) \subseteq Range(list) \union {c}
  BY <1>1, <1>2, <1>3
<1>7. Range(list) \union {c} \subseteq Range(l)
  BY <1>1, <1>2, <1>4, <1>5
<1> QED  BY <1>6, <1>7, <1>l

LEMMA NotEmpty ==
    \A a \in Seq(Item) : Len(a) \in Nat /\ (a # <<>> => 1 <= Len(a))
<1> SUFFICES ASSUME NEW a \in Seq(Item) PROVE Len(a) \in Nat /\ (a # <<>> => 1 <= Len(a))
  OBVIOUS
<1>1. a # <<>> => Len(a) \in Nat \ {0}
  BY EmptySeq
<1> QED  BY <1>1

\* The service takes the header x that announces a connection.
Accepts(H, K, H2, K2, x) ==
    /\ Takes(H, H2, "srv", 1) /\ H["srv"].n = 0 /\ x = H["srv"].in[1] /\ x.len = NewConnection
    /\ H2["srv"].n = 0 /\ H2["srv"].list = Append(H["srv"].list, x.c)
    /\ K2["srv"] = [K["srv"] EXCEPT ![x.c] = [NoCon EXCEPT !.st = "run", !.id = x.id, !.newSent = TRUE]]

\* What is known of x.
LEMMA Accepted ==
    ASSUME NEW H, NEW K, NEW U, NEW id, NEW x \in Item, Good(H, K, U, id), H["srv"].up,
           H["srv"].n = 0, H["srv"].in # <<>>, x = H["srv"].in[1], x.len = NewConnection
    PROVE  /\ x.t = "hdr" /\ x.c \in Client /\ K["box"][x.c].st # "none"
           /\ x.id = id[x.c] /\ id[x.c] # 0
           /\ NewOnWay(H, x.c) /\ Pristine(K, U, "srv", x.c)
<1>0. /\ "box" \in Side /\ "srv" \in Side /\ Other("box") = "srv" /\ Other("srv") = "box"
      /\ Typed(H, K, U)
  BY DEF Side, Other, Good
<1>w. Way(H, K, U, id, "box")
  BY <1>0 DEF Good
<1>a. PICK a \in Seq(Item), e \in Seq(Item), l \in Seq(Item) :
         a = H["srv"].in /\ e = H["box"].out /\ l = Line(H, "box") /\ l = a \o e
  <2>1. H["srv"].in \in Seq(Item) /\ H["box"].out \in Seq(Item) /\ Line(H, "box") \in Seq(Item)
    BY <1>0, TypedFacts
  <2>2. Line(H, "box") = H["srv"].in \o H["box"].out
    BY <1>0 DEF Line
  <2> QED  BY <2>1, <2>2
<1>1. 1 \in 1 .. Len(l) /\ l[1] = x
  <2>1. a # <<>>
    BY <1>a
  <2>p. Len(a) \in Nat /\ Len(e) \in Nat /\ 1 <= Len(a)
    BY <2>1, NotEmpty
  <2>2. 1 \in 1 .. Len(a) /\ Len(a) \in Nat /\ Len(e) \in Nat
    BY <2>p
  <2>0. l = a \o e
    BY <1>a
  <2>3. Len(l) = Len(a) + Len(e) /\ \A i \in 1 .. Len(a) : l[i] = a[i]
    BY <2>0, ConcatFacts
  <2>4. a[1] = x
    BY <1>a
  <2> QED  BY <2>2, <2>3, <2>4
<1>2. Framed(l, 0, H["box"].up) /\ Owned(l, 0, H["srv"].id, id, K)
  BY <1>0, <1>a, <1>w DEF Way
<1>3. x.t = "hdr"
  <2>1. 1 = 0 + 1
    OBVIOUS
  <2> QED  BY <1>1, <1>2, <2>1 DEF Framed
<1>4. x.c \in Client /\ K["box"][x.c].st # "none" /\ x.id = id[x.c] /\ id[x.c] # 0
  BY <1>1, <1>2, <1>3 DEF Owned
<1>5. NewOnWay(H, x.c)
  BY <1>1, <1>3, <1>a DEF NewOnWay, IsNew
<1>6. Pristine(K, U, "srv", x.c)
  BY <1>4, <1>5 DEF Good, Stage
<1> QED  BY <1>3, <1>4, <1>5, <1>6

LEMMA GoodAccepted ==
    ASSUME NEW H, NEW K, NEW U, NEW id, NEW H2, NEW K2, Good(H, K, U, id),
           AtSide(H, K, U, H2, K2, "srv"), NEW x \in Item, Accepts(H, K, H2, K2, x)
    PROVE  Good(H2, K2, U, id)
<1>0. /\ "box" \in Side /\ "srv" \in Side /\ Other("box") = "srv" /\ Other("srv") = "box"
      /\ \A t \in Side : t = "box" \/ t = "srv"
  BY DEF Side, Other
<1>t. Typed(H, K, U) /\ Typed(H2, K2, U) /\ H2["box"] = H["box"] /\ K2["box"] = K["box"]
  BY <1>0, SideTyped
<1>u. \A t \in Side : H2[t].up = H[t].up
  BY <1>0, SideUp
<1>w. Way(H, K, U, id, "box") /\ (H["box"].up => Way(H, K, U, id, "srv"))
  BY <1>0, SideWays
<1>1. Takes(H, H2, "srv", 1) /\ H["srv"].n = 0 /\ x = H["srv"].in[1] /\ x.len = NewConnection /\ H2["srv"].n = 0
  BY DEF Accepts
<1>l. PICK l \in Seq(Item), l2 \in Seq(Item) :
         /\ l = Line(H, "box") /\ l2 = Line(H2, "box")
         /\ Line(H2, "srv") = Line(H, "srv") /\ 1 \in 0 .. Len(l) /\ Shrunk(l, 1, l2)
         /\ \A i \in 1 .. Len(H["srv"].in) : i \in 1 .. Len(l) /\ l[i] = H["srv"].in[i]
         /\ \A c : NewOnWay(H2, c) => NewOnWay(H, c)
  BY <1>0, <1>1, TakesLine
<1>i. 1 \in 1 .. Len(H["srv"].in)
  BY <1>1 DEF Takes
<1>x. l[1] = x /\ 1 \in 1 .. Len(l)
  BY <1>1, <1>i, <1>l
<1>c. PICK c \in Client : /\ c = x.c /\ x.t = "hdr" /\ K["box"][c].st # "none" /\ x.id = id[c] /\ id[c] # 0
                          /\ NewOnWay(H, c) /\ Pristine(K, U, "srv", c)
  <2>1. H["srv"].in # <<>>
    BY <1>i
  <2>2. H["srv"].up
    BY DEF AtSide
  <2> QED  BY <1>1, <2>1, <2>2, Accepted
<1>k. /\ K2["srv"][c].st = "run" /\ K2["srv"][c].id = id[c] /\ id[c] # 0 /\ K2["srv"][c].newSent
      /\ K2["srv"][c].in = <<>> /\ K2["srv"][c].out = <<>>
      /\ \A d \in Client : d # c => K2["srv"][d] = K["srv"][d]
  <2>1. K["srv"] \in [Client -> Con]
    BY <1>0, <1>t DEF Typed
  <2>2. K2["srv"][c] = [NoCon EXCEPT !.st = "run", !.id = x.id, !.newSent = TRUE]
    BY <1>c, <2>1 DEF Accepts
  <2>3. \A d \in Client : d # c => K2["srv"][d] = K["srv"][d]
    BY <1>c, <2>1 DEF Accepts
  <2> QED  BY <1>c, <2>2, <2>3 DEF NoCon
<1>p. K["srv"][c].in = <<>> /\ K["srv"][c].out = <<>> /\ K["srv"][c].st = "none"
  BY <1>c DEF Pristine, NoCon
<1>K. \A t \in Side, d \in Client : K2[t][d].in = K[t][d].in /\ K2[t][d].out = K[t][d].out
  <2>1. \A d \in Client : K2["srv"][d].in = K["srv"][d].in /\ K2["srv"][d].out = K["srv"][d].out
    BY <1>k, <1>p
  <2> QED  BY <1>0, <1>t, <2>1
<1>o. \A t \in Side, d \in Client : /\ SentOff(K2, U, t, d) = SentOff(K, U, t, d)
                                    /\ Arrived(K2, U, t, d) = Arrived(K, U, t, d)
                                    /\ SentOff(K, U, t, d) <= SentOff(K2, U, t, d)
  <2>1. \A t \in Side, d \in Client : SentOff(K, U, t, d) \in Int
    BY <1>t, TypedFacts
  <2>2. \A t \in Side, d \in Client : /\ SentOff(K2, U, t, d) = SentOff(K, U, t, d)
                                      /\ Arrived(K2, U, t, d) = Arrived(K, U, t, d)
    BY <1>K DEF SentOff, Arrived
  <2> QED  BY <2>1, <2>2
<1>L. \A d \in Client : Listed(H2, "box", d) = Listed(H, "box", d)
                        /\ (Listed(H2, "srv", d) <=> Listed(H, "srv", d) \/ d = c)
  <2>1. H["srv"].list \in Seq(Client) /\ H2["srv"].list = Append(H["srv"].list, c)
    BY <1>0, <1>c, <1>t, TypedFacts DEF Accepts
  <2>2. Range(H2["srv"].list) = Range(H["srv"].list) \union {c}
    BY <2>1, RangeAppend
  <2> QED  BY <1>t, <2>2 DEF Listed
<1>9. Way(H2, K2, U, id, "box")
  <2>1. ASSUME NEW d \in Client, Expects(H2, K2, "srv", d)
        PROVE  Flow(l2, d, Arrived(K2, U, "srv", d), SentOff(K, U, "box", d), Live(H2, K2, "box", d))
    <3>1. Expects(H, K, "srv", d)
      <4>1. CASE d = c
        BY <1>c, <4>1 DEF Expects
      <4>2. CASE d # c
        BY <1>L, <1>k, <1>l, <2>1, <4>2 DEF Expects
      <4> QED  BY <4>1, <4>2
    <3>2. Live(H2, K2, "box", d) = Live(H, K, "box", d)
      BY <1>0, <1>L, <1>t, <1>u DEF Live
    <3>3. Flow(l, d, Arrived(K2, U, "srv", d), SentOff(K, U, "box", d), Live(H2, K2, "box", d))
      BY <1>0, <1>l, <1>o, <1>w, <3>1, <3>2 DEF Way
    <3>4. \A i \in 1 .. 1 : ~IsByte(l[i], d)
      BY <1>c, <1>x DEF IsByte
    <3> QED  BY <1>l, <3>3, <3>4, FlowShrunkByOthers
  <2>2. \A d \in Client : K["box"][d].st # "none" => K2["box"][d].st # "none"
    BY <1>t
  <2>n. PICK n, n2, cur, cur2 :
           n \in Nat /\ n2 \in Nat /\ n = H["srv"].n /\ n2 = H2["srv"].n /\ cur = H["srv"].id /\ cur2 = H2["srv"].id
    BY <1>0, <1>t, TypedFacts
  <2>3. \/ 1 <= n /\ n2 = n - 1 /\ cur2 = cur
        \/ 1 = 1 /\ n = 0 /\ n2 = Span(l[1]) /\ (n2 > 0 => cur2 = l[1].id)
    BY <1>1, <1>x, <2>n DEF Span, NewConnection
  <2>4. /\ l = Line(H, Other("srv")) /\ l2 = Line(H2, Other("srv")) /\ 1 \in 0 .. Len(l)
        /\ Shrunk(l, 1, l2)
    BY <1>0, <1>l
  <2>5. \A d \in Client : Expects(H2, K2, "srv", d) =>
           Flow(l2, d, Arrived(K2, U, "srv", d), SentOff(K, U, Other("srv"), d), Live(H2, K2, Other("srv"), d))
    BY <1>0, <2>1
  <2>6. Way(H2, K2, U, id, Other("srv"))
    BY <1>0, <2>2, <2>3, <2>4, <2>5, <2>n, WayShrunk
  <2> QED  BY <1>0, <2>6
<1>8. ASSUME H["box"].up
      PROVE  Way(H2, K2, U, id, "srv")
  <2>q. PICK q, n, cur :
           q \in Seq(Item) /\ q = Line(H, "srv") /\ n = H["box"].n /\ cur = H["box"].id
    BY <1>0, <1>t, TypedFacts
  <2>1. /\ Framed(q, n, H["srv"].up) /\ Owned(q, n, cur, id, K) /\ News(q)
        /\ \A d \in Client :
              /\ Bound(q, d, SentOff(K, U, "srv", d))
              /\ Expects(H, K, "box", d) =>
                    Flow(q, d, Arrived(K, U, "box", d), SentOff(K, U, "srv", d), Live(H, K, "srv", d))
    BY <1>0, <1>8, <1>w, <2>q DEF Way
  <2>2. Owned(q, n, cur, id, K2)
    BY <1>t, <2>1 DEF Owned
  <2>3. ASSUME NEW d \in Client, Expects(H2, K2, "box", d)
        PROVE  Flow(q, d, Arrived(K2, U, "box", d), SentOff(K2, U, "srv", d), Live(H2, K2, "srv", d))
    <3>1. Expects(H, K, "box", d)
      BY <1>L, <1>t, <2>3 DEF Expects
    <3>2. Flow(q, d, Arrived(K2, U, "box", d), SentOff(K2, U, "srv", d), Live(H, K, "srv", d))
      BY <1>0, <1>o, <2>1, <3>1
    <3>3. CASE d = c
      <4>1. SentOff(K2, U, "srv", d) = 0
        BY <1>0, <1>c, <1>o, <3>3, PristineFacts
      <4>2. PICK k \in Nat : k = Arrived(K2, U, "box", d)
        BY <1>0, <1>t, TypedFacts
      <4>3. \A p \in k + 1 .. 0 : FALSE
        BY <4>2
      <4> QED  BY <3>2, <4>1, <4>2, <4>3 DEF Flow
    <3>4. CASE d # c
      <4>1. Live(H2, K2, "srv", d) = Live(H, K, "srv", d)
        BY <1>0, <1>L, <1>k, <1>u, <3>4 DEF Live
      <4> QED  BY <3>2, <4>1
    <3> QED  BY <3>3, <3>4
  <2> QED  BY <1>0, <1>l, <1>o, <1>t, <1>u, <2>1, <2>2, <2>3, <2>q DEF Way
<1>n. ~NewOnWay(H2, c)
  <2>1. ASSUME NEW i \in 1 .. Len(l2), IsNew(l2[i], c)
        PROVE  FALSE
    <3>1. i + 1 \in 1 .. Len(l) /\ l2[i] = l[i + 1]
      BY <1>l, ShrunkIndex
    <3>2. News(l)
      BY <1>l, <1>w DEF Way
    <3>3. i + 1 = 1
      BY <1>1, <1>c, <1>x, <2>1, <3>1, <3>2 DEF News
    <3> QED  BY <3>3
  <2> QED  BY <1>l, <2>1 DEF NewOnWay
<1>10. ASSUME NEW d \in Client
       PROVE  Stage(H2, K2, U, id, d) /\ \A t \in Side : Ends(K2, U, t, d)
  <2>1. Stage(H, K, U, id, d) /\ \A t \in Side : Ends(K, U, t, d)
    BY DEF Good
  <2>2. ASSUME NEW t \in Side
        PROVE  Ends(K2, U, t, d)
    <3>1. SentOff(K, U, Other(t), d) <= SentOff(K2, U, Other(t), d)
      BY <1>o, OtherFacts
    <3> QED  BY <1>K, <1>t, <2>1, <3>1, EndsSame
  <2>3. CASE d = c
    <3>1. K["box"][c].st # "none" /\ ~(K["box"][c].st \in There /\ ~K["box"][c].newSent)
      BY <1>c, <2>1, <2>3 DEF Stage, AtSide
    <3>2. K2["srv"][c].st \in There /\ K2["srv"][c].st # "none"
      BY <1>k DEF There
    <3>3. \A t \in Side : /\ Listed(H2, t, c) => K2[t][c].st \in There
                          /\ K2[t][c].st \in There => K2[t][c].id = id[c] /\ id[c] # 0
      <4>1. /\ Listed(H2, "box", c) => K2["box"][c].st \in There
            /\ K2["box"][c].st \in There => K2["box"][c].id = id[c] /\ id[c] # 0
        BY <1>0, <1>L, <1>t, <2>1, <2>3 DEF Stage
      <4> QED  BY <1>0, <1>k, <3>2, <4>1
    <3>4. K2["box"][c] = K["box"][c]
      BY <1>t
    <3> QED  BY <1>k, <1>n, <2>2, <2>3, <3>1, <3>2, <3>3, <3>4 DEF Stage
  <2>4. CASE d # c
    <3>1. \A t \in Side : K2[t][d] = K[t][d]
      BY <1>0, <1>k, <1>t, <2>4
    <3>2. \A t \in Side : Listed(H2, t, d) => Listed(H, t, d)
      BY <1>0, <1>L, <2>4
    <3> QED  BY <1>l, <1>u, <2>1, <2>2, <3>1, <3>2, StageSame
  <2> QED  BY <2>3, <2>4
<1> QED  BY <1>0, <1>8, <1>9, <1>10, GoodFrom

Serves(H, K, s, c) == Listed(H, s, c) /\ K[s][c].newSent
Target(H, K, s, c) == Serves(H, K, s, c) /\ K[s][c].id = H[s].id

\* The user of a connection gets m.
Gets(k, k2, m) ==
    /\ k2.st = k.st /\ k2.id = k.id /\ k2.newSent = k.newSent /\ k2.in = k.in
    /\ Grown(k.out, m, k2.out)

\* The bytes m are taken, for the connection they are for if there is one.
TakesBytes(H, K, H2, K2, s, d, m) ==
    /\ Takes(H, H2, s, d) /\ d <= H[s].n
    /\ H2[s].n = H[s].n - d /\ H2[s].id = H[s].id /\ H2[s].list = H[s].list
    /\ Len(m) = d /\ \A i \in 1 .. d : m[i] = H[s].in[i]
    /\ \A c \in Client : IF Target(H, K, s, c) THEN Gets(K[s][c], K2[s][c], m) ELSE K2[s][c] = K[s][c]

LEMMA ServedFacts ==
    ASSUME NEW H, NEW K, NEW U, NEW id, Good(H, K, U, id), NEW s \in Side, NEW c \in Client,
           Serves(H, K, s, c)
    PROVE  K[s][c].st \in There /\ K[s][c].id = id[c] /\ id[c] # 0
<1>1. Stage(H, K, U, id, c)
  BY DEF Good
<1> QED  BY <1>1 DEF Stage, Serves

\* All of them are bytes of the connection they are for.
LEMMA BytesTaken ==
    ASSUME NEW H, NEW K, NEW U, NEW id, Good(H, K, U, id), NEW s \in Side, H[s].up, Apart(id),
           NEW l \in Seq(Item), l = Line(H, Other(s)), NEW d \in 0 .. Len(l), d <= H[s].n,
           NEW c \in Client
    PROVE  /\ Target(H, K, s, c) => \A i \in 1 .. d : IsByte(l[i], c)
           /\ Expects(H, K, s, c) /\ ~Target(H, K, s, c) => \A i \in 1 .. d : ~IsByte(l[i], c)
<1>0. Other(s) \in Side /\ Other(Other(s)) = s /\ Typed(H, K, U)
  BY OtherFacts DEF Good
<1>w. Way(H, K, U, id, Other(s))
  BY <1>0 DEF Good
<1>n. PICK n, cur : n \in Nat /\ n = H[s].n /\ cur = H[s].id
  BY <1>0, TypedFacts
<1>1. Framed(l, n, H[Other(s)].up) /\ Owned(l, n, cur, id, K) /\ News(l)
  BY <1>0, <1>n, <1>w DEF Way
<1>2. \A i \in 1 .. d : i \in 1 .. Len(l) /\ i <= n
  <2>1. Len(l) \in Nat
    OBVIOUS
  <2> QED  BY <1>n, <2>1
<1>3. \A i \in 1 .. d : /\ l[i].t = "byte" /\ l[i].c \in Client
                        /\ id[l[i].c] = cur /\ cur # 0
  <2>1. \A i \in 1 .. d : l[i].t = "byte"
    BY <1>1, <1>2 DEF Framed
  <2> QED  BY <1>1, <1>2, <2>1 DEF Owned
<1>4. ASSUME Target(H, K, s, c), NEW i \in 1 .. d
      PROVE  IsByte(l[i], c)
  <2>1. id[c] = cur
    BY <1>4, <1>n, ServedFacts DEF Target
  <2>2. l[i].c = c
    BY <1>3, <2>1 DEF Apart
  <2> QED  BY <1>3, <2>2 DEF IsByte
<1>5. ASSUME Expects(H, K, s, c), ~Target(H, K, s, c), NEW i \in 1 .. d, IsByte(l[i], c)
      PROVE  FALSE
  <2>1. CASE Serves(H, K, s, c)
    <3>1. K[s][c].id # cur
      BY <1>5, <1>n, <2>1 DEF Target
    <3>2. K[s][c].id = id[c]
      BY <2>1, ServedFacts
    <3> QED  BY <1>3, <1>5, <3>1, <3>2 DEF IsByte
  <2>2. CASE s = "srv" /\ NewOnWay(H, c)
    <3>1. PICK j \in 1 .. Len(l) : IsNew(l[j], c)
      BY <2>2 DEF NewOnWay, Other
    <3>2. j < i
      BY <1>1, <1>2, <1>5, <3>1 DEF News, IsNew
    <3>3. l[j].t = "byte"
      <4>1. j \in 1 .. d
        BY <3>2
      <4> QED  BY <1>3, <4>1
    <3> QED  BY <3>1, <3>3 DEF IsNew
  <2> QED  BY <1>5, <2>1, <2>2 DEF Expects, Serves
<1> QED  BY <1>4, <1>5

LEMMA GoodTaken ==
    ASSUME NEW H, NEW K, NEW U, NEW id, NEW H2, NEW K2, NEW s \in Side, Good(H, K, U, id),
           AtSide(H, K, U, H2, K2, s), Apart(id), NEW d \in Nat, NEW m \in Seq(Item),
           TakesBytes(H, K, H2, K2, s, d, m)
    PROVE  Good(H2, K2, U, id)
<1>0. /\ Other(s) \in Side /\ Other(Other(s)) = s /\ Other(s) # s
      /\ \A t \in Side : t = s \/ t = Other(s)
  BY OtherFacts
<1>t. Typed(H, K, U) /\ Typed(H2, K2, U) /\ H2[Other(s)] = H[Other(s)] /\ K2[Other(s)] = K[Other(s)]
  BY SideTyped
<1>u. (\A t \in Side : H2[t].up = H[t].up) /\ H[s].up
  <2>1. H[s].up
    BY DEF AtSide
  <2> QED  BY <2>1, SideUp
<1>w. Way(H, K, U, id, Other(s)) /\ (H[Other(s)].up => Way(H, K, U, id, s))
  BY SideWays
<1>1. Takes(H, H2, s, d)
  BY DEF TakesBytes
<1>l. PICK l \in Seq(Item), l2 \in Seq(Item) :
         /\ l = Line(H, Other(s)) /\ l2 = Line(H2, Other(s))
         /\ Line(H2, s) = Line(H, s) /\ d \in 0 .. Len(l) /\ Shrunk(l, d, l2)
         /\ \A i \in 1 .. Len(H[s].in) : i \in 1 .. Len(l) /\ l[i] = H[s].in[i]
         /\ \A c : NewOnWay(H2, c) => NewOnWay(H, c)
  BY <1>1, TakesLine
<1>m. Len(m) = d /\ \A i \in 1 .. d : m[i] = l[i] /\ i \in 1 .. Len(l)
  <2>1. Len(m) = d /\ d \in 0 .. Len(H[s].in) /\ \A i \in 1 .. d : m[i] = H[s].in[i]
    BY DEF TakesBytes, Takes
  <2>2. PICK e \in Nat : e = Len(H[s].in)
    <3>1. H[s].in \in Seq(Item)
      BY <1>t, TypedFacts
    <3> QED  BY <3>1, NotEmpty
  <2>3. \A i \in 1 .. d : i \in 1 .. Len(H[s].in)
    BY <2>1, <2>2
  <2> QED  BY <1>l, <2>1, <2>3
<1>n. /\ d <= H[s].n /\ H2[s].n = H[s].n - d /\ H2[s].id = H[s].id
      /\ H2[s].list = H[s].list /\ H2[Other(s)].list = H[Other(s)].list
  BY <1>t DEF TakesBytes
<1>g. \A c \in Client : /\ Target(H, K, s, c) => Gets(K[s][c], K2[s][c], m)
                        /\ ~Target(H, K, s, c) => K2[s][c] = K[s][c]
  BY DEF TakesBytes
<1>b. \A c \in Client :
         /\ Target(H, K, s, c) => \A i \in 1 .. d : IsByte(l[i], c)
         /\ Expects(H, K, s, c) /\ ~Target(H, K, s, c) => \A i \in 1 .. d : ~IsByte(l[i], c)
  BY <1>l, <1>n, <1>u, BytesTaken
<1>K. \A t \in Side, c \in Client : /\ K2[t][c].st = K[t][c].st /\ K2[t][c].id = K[t][c].id
                                    /\ K2[t][c].newSent = K[t][c].newSent /\ K2[t][c].in = K[t][c].in
  <2>1. \A c \in Client : /\ K2[s][c].st = K[s][c].st /\ K2[s][c].id = K[s][c].id
                          /\ K2[s][c].newSent = K[s][c].newSent /\ K2[s][c].in = K[s][c].in
    BY <1>g DEF Gets
  <2> QED  BY <1>0, <1>t, <2>1
<1>o. \A t \in Side, c \in Client : /\ SentOff(K2, U, t, c) = SentOff(K, U, t, c)
                                    /\ SentOff(K, U, t, c) <= SentOff(K2, U, t, c)
  <2>1. \A t \in Side, c \in Client : SentOff(K, U, t, c) \in Int
    BY <1>t, TypedFacts
  <2>2. \A t \in Side, c \in Client : SentOff(K2, U, t, c) = SentOff(K, U, t, c)
    BY <1>K DEF SentOff
  <2> QED  BY <2>1, <2>2
<1>a. ASSUME NEW c \in Client, Target(H, K, s, c)
      PROVE  Arrived(K2, U, s, c) = Arrived(K, U, s, c) + d
  <2>1. Len(K2[s][c].out) = Len(K[s][c].out) + d
    BY <1>a, <1>g, <1>m DEF Gets, Grown
  <2>2. PICK k \in Nat, g \in Nat : k = Len(K[s][c].out) /\ g = Len(U[s][c].got)
    <3>1. K[s][c].out \in Seq(Item) /\ U[s][c].got \in Seq(Item)
      BY <1>t, TypedFacts
    <3> QED  BY <3>1, NotEmpty
  <2>3. Arrived(K2, U, s, c) = g + (k + d) /\ Arrived(K, U, s, c) = g + k
    BY <2>1, <2>2 DEF Arrived
  <2> QED  BY <2>3
<1>7. \A t \in Side, c \in Client : /\ Listed(H2, t, c) = Listed(H, t, c)
                                    /\ Live(H2, K2, t, c) = Live(H, K, t, c)
                                    /\ Expects(H2, K2, t, c) => Expects(H, K, t, c)
  BY <1>0, <1>K, <1>l, <1>n, <1>u DEF Listed, Live, Expects
<1>8. ASSUME H[Other(s)].up
      PROVE  Way(H2, K2, U, id, s)
  <2>1. Way(H, K, U, id, s)
    BY <1>8, <1>w
  <2>b. "box" \in Side
    BY DEF Side
  <2>2. \A c \in Client :
           /\ K["box"][c].st # "none" => K2["box"][c].st # "none"
           /\ SentOff(K, U, s, c) <= SentOff(K2, U, s, c)
           /\ Expects(H2, K2, Other(s), c) =>
                 /\ Expects(H, K, Other(s), c)
                 /\ Arrived(K2, U, Other(s), c) = Arrived(K, U, Other(s), c)
           /\ Live(H2, K2, s, c) =>
                 /\ Live(H, K, s, c)
                 /\ SentOff(K2, U, s, c) = SentOff(K, U, s, c)
    BY <1>0, <1>7, <1>K, <1>o, <1>t, <2>b DEF Arrived
  <2> QED  BY <1>l, <1>t, <1>u, <2>1, <2>2, WaySame
<1>9. Way(H2, K2, U, id, Other(s))
  <2>1. ASSUME NEW c \in Client, Expects(H2, K2, s, c)
        PROVE  Flow(l2, c, Arrived(K2, U, s, c), SentOff(K, U, Other(s), c), Live(H2, K2, Other(s), c))
    <3>1. Flow(l, c, Arrived(K, U, s, c), SentOff(K, U, Other(s), c), Live(H2, K2, Other(s), c))
      BY <1>0, <1>7, <1>l, <1>w, <2>1 DEF Way
    <3>2. CASE Target(H, K, s, c)
      <4>1. \A i \in 1 .. d : IsByte(l[i], c)
        BY <1>b, <3>2
      <4>2. PICK k \in Nat, n \in Int : k = Arrived(K, U, s, c) /\ n = SentOff(K, U, Other(s), c)
        BY <1>0, <1>t, TypedFacts
      <4>3. Flow(l2, c, k + d, n, Live(H2, K2, Other(s), c))
        BY <1>l, <3>1, <4>1, <4>2, FlowTaken
      <4> QED  BY <1>a, <3>2, <4>2, <4>3
    <3>3. CASE ~Target(H, K, s, c)
      <4>1. \A i \in 1 .. d : ~IsByte(l[i], c)
        BY <1>0, <1>7, <1>b, <2>1, <3>3
      <4>2. K2[s][c] = K[s][c]
        BY <1>g, <3>3
      <4>3. Arrived(K2, U, s, c) = Arrived(K, U, s, c)
        BY <4>2 DEF Arrived
      <4> QED  BY <1>l, <3>1, <4>1, <4>3, FlowShrunkByOthers
    <3> QED  BY <3>2, <3>3
  <2>2. \A c \in Client : K["box"][c].st # "none" => K2["box"][c].st # "none"
    BY <1>K DEF Side
  <2>n. PICK n, n2, cur, cur2 :
           n \in Nat /\ n2 \in Nat /\ n = H[s].n /\ n2 = H2[s].n /\ cur = H[s].id /\ cur2 = H2[s].id
    BY <1>t, TypedFacts
  <2>3. \/ d <= n /\ n2 = n - d /\ cur2 = cur
        \/ d = 1 /\ n = 0 /\ n2 = Span(l[1]) /\ (n2 > 0 => cur2 = l[1].id)
    BY <1>n, <2>n
  <2>4. l = Line(H, Other(s)) /\ l2 = Line(H2, Other(s)) /\ d \in 0 .. Len(l) /\ Shrunk(l, d, l2)
    BY <1>l
  <2> QED  BY <2>1, <2>2, <2>3, <2>4, <2>n, WayShrunk
<1>10. ASSUME NEW c \in Client
       PROVE  Stage(H2, K2, U, id, c) /\ \A t \in Side : Ends(K2, U, t, c)
  <2>1. Stage(H, K, U, id, c) /\ \A t \in Side : Ends(K, U, t, c)
    BY DEF Good
  <2>2. ASSUME NEW t \in Side, K2[t][c] = K[t][c]
        PROVE  Ends(K2, U, t, c)
    <3>1. SentOff(K, U, Other(t), c) <= SentOff(K2, U, Other(t), c)
      BY <1>o, OtherFacts
    <3> QED  BY <1>t, <2>1, <2>2, <3>1, EndsSame
  <2>3. ASSUME Target(H, K, s, c)
        PROVE  Ends(K2, U, s, c)
    <3>u. PICK u \in Seq(Item), k \in Nat, g \in Nat, n \in Int :
             u = K[s][c].out /\ k = Len(u) /\ g = Len(U[s][c].got) /\ n = SentOff(K, U, Other(s), c)
      <4>1. /\ K[s][c].out \in Seq(Item) /\ U[s][c].got \in Seq(Item)
            /\ SentOff(K, U, Other(s), c) \in Int
        BY <1>0, <1>t, TypedFacts
      <4> QED  BY <4>1, NotEmpty
    <3>1. Arrived(K, U, s, c) = g + k /\ Arrived(K2, U, s, c) = g + k + d
      BY <1>a, <2>3, <3>u DEF Arrived
    <3>2. \A i \in 1 .. d : IsByte(l[i], c)
      BY <1>b, <2>3
    <3>3. Flow(l, c, g + k, n, Live(H, K, Other(s), c)) /\ Bound(l, c, n)
      <4>1. Expects(H, K, s, c)
        BY <2>3 DEF Target, Serves, Expects
      <4> QED  BY <1>0, <1>l, <1>w, <3>1, <3>u, <4>1 DEF Way
    <3>4. \A i \in 1 .. d : l[i].len = g + k + i /\ l[i].len <= n
      <4>1. g + k \in Nat
        OBVIOUS
      <4>2. \A i \in 1 .. d : l[i].len = g + k + i
        BY <1>l, <3>2, <3>3, <4>1, NextBytes
      <4> QED  BY <1>m, <3>2, <3>3, <4>2 DEF Bound
    <3>5. \A i \in 1 .. d : m[i] = Byte(c, g + k + i)
      <4>1. ASSUME NEW i \in 1 .. d
            PROVE  m[i] = Byte(c, g + k + i)
        <5>1. l[i] \in Item /\ m[i] = l[i]
          <6>1. m[i] = l[i] /\ i \in 1 .. Len(l)
            BY <1>m
          <6> QED  BY <6>1
        <5>2. l[i] = Byte(c, l[i].len)
          BY <3>2, <5>1, ItemFacts
        <5> QED  BY <3>4, <5>1, <5>2
      <4> QED  BY <4>1
    <3>v. PICK v : v = K2[s][c].out /\ Grown(u, m, v)
      BY <1>g, <2>3, <3>u DEF Gets
    <3>6. \A i \in 1 .. Len(v) : v[i] = Byte(c, g + i)
      <4>1. ASSUME NEW i \in 1 .. Len(v)
            PROVE  v[i] = Byte(c, g + i)
        <5>1. CASE i \in 1 .. Len(u) /\ v[i] = u[i]
          BY <2>1, <3>u, <5>1 DEF Ends
        <5>2. CASE \E j \in 1 .. Len(m) : i = Len(u) + j /\ v[i] = m[j]
          <6>1. PICK j \in 1 .. d : i = k + j /\ v[i] = m[j]
            BY <1>m, <3>u, <5>2
          <6>2. g + k + j = g + i
            BY <6>1
          <6> QED  BY <3>5, <6>1, <6>2
        <5>3. Grown(u, m, v)
          BY <3>v
        <5> QED  BY <5>1, <5>2, <5>3, GrownIndex
      <4> QED  BY <4>1
    <3>7. g + k + d <= n
      <4>1. CASE d = 0
        <5>1. Arrived(K, U, s, c) <= SentOff(K, U, Other(s), c)
          BY <2>1 DEF Ends
        <5>2. g + k <= n
          BY <3>1, <3>u, <5>1
        <5> QED  BY <4>1, <5>2
      <4>2. CASE d # 0
        <5>1. d \in 1 .. d
          BY <4>2
        <5> QED  BY <3>4, <5>1
      <4> QED  BY <4>1, <4>2
    <3>8. Arrived(K2, U, s, c) <= SentOff(K2, U, Other(s), c)
      <4>1. SentOff(K2, U, Other(s), c) = n
        BY <1>0, <1>o, <3>u
      <4> QED  BY <3>1, <3>7, <4>1
    <3>9. K2[s][c].in = K[s][c].in
      BY <1>K
    <3>10. \A i \in 1 .. Len(K2[s][c].out) : K2[s][c].out[i] = Byte(c, Len(U[s][c].got) + i)
      BY <3>6, <3>u, <3>v
    <3>11. /\ Len(K2[s][c].in) <= U[s][c].sent
           /\ \A i \in 1 .. Len(K2[s][c].in) :
                 K2[s][c].in[i] = Byte(c, U[s][c].sent - Len(K2[s][c].in) + i)
           /\ \A i \in 1 .. Len(U[s][c].got) : U[s][c].got[i] = Byte(c, i)
      BY <2>1, <3>9 DEF Ends
    <3> QED  BY <3>8, <3>10, <3>11 DEF Ends
  <2>4. \A t \in Side : Ends(K2, U, t, c)
    BY <1>0, <1>g, <1>t, <2>2, <2>3
  <2>5. \A t \in Side : Pristine(K, U, t, c) => Pristine(K2, U, t, c)
    <3>1. ASSUME NEW t \in Side, Pristine(K, U, t, c)
          PROVE  K2[t][c] = K[t][c]
      <4>1. K[t][c].st \notin There
        BY <3>1, PristineFacts DEF There
      <4>2. t = s => ~Target(H, K, s, c)
        BY <4>1, ServedFacts DEF Target
      <4> QED  BY <1>0, <1>g, <1>t, <4>2
    <3> QED  BY <3>1 DEF Pristine
  <2>6. Stage(H2, K2, U, id, c)
    <3>1. "box" \in Side /\ "srv" \in Side
      BY DEF Side
    <3>2. SentOff(K2, U, "box", c) = SentOff(K, U, "box", c) /\ (NewOnWay(H2, c) => NewOnWay(H, c))
      BY <1>l, <1>o, <3>1
    <3>3. \A t \in Side : /\ K2[t][c].st = K[t][c].st
                          /\ K2[t][c].newSent = K[t][c].newSent /\ K2[t][c].id = K[t][c].id
                          /\ Listed(H2, t, c) = Listed(H, t, c) /\ H2[t].up = H[t].up
      BY <1>7, <1>K, <1>u
    <3> QED  BY <2>1, <2>5, <3>1, <3>2, <3>3 DEF Stage
  <2> QED  BY <2>4, <2>6
<1> QED  BY <1>8, <1>9, <1>10, GoodFrom

----------------------------------------------------------------------------
(* One pass of the loop at side s, from the state before it.               *)

Loop == [h : Hub, k : [Client -> Con]]

LoopGood(x, s, id) ==
    /\ Typed(hub, con, user) /\ Apart(id) /\ {Cap, ConCap} \subseteq Nat
    /\ x \in Loop /\ x.h.up /\ Fits(x.k)
    /\ Good([hub EXCEPT ![s] = x.h], [con EXCEPT ![s] = x.k], user, id)

\* x and y as states of both sides.
Seen(x, y, H, K, H2, K2, s, id) ==
    /\ Good(H, K, user, id) /\ AtSide(H, K, user, H2, K2, s) /\ Apart(id)
    /\ H[s] = x.h /\ K[s] = x.k /\ H2[s] = y.h /\ K2[s] = y.k
    /\ y.k = x.k => K2 = K
    /\ Good(H2, K2, user, id) => LoopGood(y, s, id)

LEMMA LoopStep ==
    ASSUME NEW s \in Side, NEW id, NEW x, LoopGood(x, s, id), NEW y \in Loop, y.h.up, Fits(y.k)
    PROVE  \E H, K, H2, K2 : Seen(x, y, H, K, H2, K2, s, id)
<1>1. /\ hub \in [Side -> Hub] /\ con \in [Side -> [Client -> Con]] /\ user \in [Side -> [Client -> User]]
      /\ Apart(id) /\ x \in Loop /\ x.h.up /\ {Cap, ConCap} \subseteq Nat
      /\ Good([hub EXCEPT ![s] = x.h], [con EXCEPT ![s] = x.k], user, id)
  BY DEF LoopGood, Typed
<1>h. PICK H, K, H2, K2 : /\ H = [hub EXCEPT ![s] = x.h] /\ K = [con EXCEPT ![s] = x.k]
                          /\ H2 = [hub EXCEPT ![s] = y.h] /\ K2 = [con EXCEPT ![s] = y.k]
  OBVIOUS
<1>2. x.h \in Hub /\ x.k \in [Client -> Con] /\ y.h \in Hub /\ y.k \in [Client -> Con]
  BY <1>1 DEF Loop
<1>3. /\ H \in [Side -> Hub] /\ K \in [Side -> [Client -> Con]]
      /\ H2 \in [Side -> Hub] /\ K2 \in [Side -> [Client -> Con]]
      /\ H[s] = x.h /\ K[s] = x.k /\ H2[s] = y.h /\ K2[s] = y.k
      /\ H2[Other(s)] = H[Other(s)] /\ K2[Other(s)] = K[Other(s)]
  BY <1>1, <1>2, <1>h, OtherFacts
<1>4. AtSide(H, K, user, H2, K2, s)
  BY <1>1, <1>3 DEF AtSide, Typed
<1>6. Apart(id)
  BY <1>1
<1>8. Good(H2, K2, user, id) => LoopGood(y, s, id)
  BY <1>1, <1>h DEF LoopGood, Typed
<1>9. y.k = x.k => K2 = K
  BY <1>h
<1>10. Good(H, K, user, id)
  BY <1>1, <1>h
<1> QED  BY <1>3, <1>4, <1>6, <1>8, <1>9, <1>10 DEF Seen

\* What a state of the loop is made of.
LEMMA LoopFacts ==
    ASSUME NEW s, NEW id, NEW x, LoopGood(x, s, id)
    PROVE  /\ x = [h |-> x.h, k |-> x.k] /\ x.h \in Hub /\ x.k \in [Client -> Con]
           /\ x.h.up /\ x.h.in \in Seq(Item) /\ x.h.out \in Seq(Item) /\ x.h.id \in Int
           /\ x.h.n \in Nat /\ x.h.list \in Seq(Client) /\ Fits(x.k) /\ x \in Loop
           /\ Cap \in Nat /\ ConCap \in Nat
           /\ \A c \in Client : /\ x.k[c] \in Con /\ x.k[c].in \in Seq(Item) /\ x.k[c].out \in Seq(Item)
                                /\ x.k[c].id \in Int
<1>1. x \in Loop /\ x.h.up /\ Fits(x.k) /\ Cap \in Nat /\ ConCap \in Nat
  BY DEF LoopGood
<1>2. x = [h |-> x.h, k |-> x.k] /\ x.h \in Hub /\ x.k \in [Client -> Con]
  BY <1>1 DEF Loop
<1>3. /\ x.h.in \in Seq(Item) /\ x.h.out \in Seq(Item) /\ x.h.id \in Int
      /\ x.h.n \in Nat /\ x.h.list \in Seq(Client)
  BY <1>2 DEF Hub
<1>4. \A c \in Client : /\ x.k[c] \in Con /\ x.k[c].in \in Seq(Item) /\ x.k[c].out \in Seq(Item)
                        /\ x.k[c].id \in Int
  BY <1>2 DEF Con
<1> QED  BY <1>1, <1>2, <1>3, <1>4

\* Headers are items.
LEMMA HdrItem ==
    ASSUME NEW i \in Int, NEW c \in Client \union {"nobody"}, NEW len \in Int
    PROVE  /\ Hdr(i, c, len) \in Item /\ Hdr(i, c, len).t = "hdr" /\ Hdr(i, c, len).len = len
           /\ Hdr(i, c, len).id = i /\ Hdr(i, c, len).c = c
BY DEF Hdr, Item

LEMMA LoopAnnounce ==
    ASSUME NEW id, NEW x, LoopGood(x, "box", id), NEW c \in Range(x.h.list)
    PROVE  LoopGood(Announce(x, c), "box", id) /\ Announce(x, c).h.list = x.h.list
<1>1. CASE x.k[c].newSent \/ Len(x.h.out) >= Cap
  BY <1>1 DEF Announce
<1>2. CASE ~(x.k[c].newSent \/ Len(x.h.out) >= Cap)
  <2>h. PICK h \in Hub, k \in [Client -> Con] : h = x.h /\ k = x.k /\ x = [h |-> h, k |-> k]
    BY LoopFacts
  <2>0. /\ h.up /\ h.in \in Seq(Item) /\ h.out \in Seq(Item) /\ h.list \in Seq(Client) /\ Fits(k)
        /\ c \in Client /\ k[c] \in Con /\ k[c].id \in Int /\ ~k[c].newSent
    <3>1. h.list \in Seq(Client)
      BY <2>h, LoopFacts
    <3>2. c \in Client
      BY <2>h, <3>1, RangeFacts
    <3> QED  BY <1>2, <2>h, <3>1, <3>2, LoopFacts
  <2>m. PICK m \in Item : m = Hdr(k[c].id, c, NewConnection)
    BY <2>0, HdrItem DEF NewConnection
  <2>g. PICK g, q : g = [h EXCEPT !.out = Append(h.out, m)] /\ q = [k EXCEPT ![c].newSent = TRUE]
    OBVIOUS
  <2>y. PICK y : y = Announce(x, c) /\ y = [h |-> g, k |-> q]
    BY <1>2, <2>g, <2>h, <2>m DEF Announce
  <2>1. /\ g \in Hub /\ g.in = h.in /\ g.out = Append(h.out, m) /\ g.n = h.n /\ g.id = h.id
        /\ g.list = h.list /\ g.up
    <3>1. Append(h.out, m) \in Seq(Item)
      BY <2>0
    <3> QED  BY <2>0, <2>g, <3>1 DEF Hub
  <2>2. /\ q \in [Client -> Con] /\ q[c] = [k[c] EXCEPT !.newSent = TRUE]
        /\ \A d \in Client : d # c => q[d] = k[d]
    <3>1. [k[c] EXCEPT !.newSent = TRUE] \in Con
      BY <2>0 DEF Con
    <3> QED  BY <2>0, <2>g, <3>1
  <2>3. \A d \in Client : q[d].st = k[d].st /\ q[d].out = k[d].out
    BY <2>0, <2>2 DEF Con
  <2>4. y \in Loop /\ y.h = g /\ y.k = q
    BY <2>1, <2>2, <2>y DEF Loop
  <2>5. Fits(y.k)
    BY <2>0, <2>3, <2>4 DEF Fits
  <2>7. "box" \in Side /\ y.h.up
    BY <2>1, <2>4 DEF Side
  <2>8. PICK H, K, H2, K2 : Seen(x, y, H, K, H2, K2, "box", id)
    BY <2>4, <2>5, <2>7, LoopStep
  <2>9. /\ Good(H, K, user, id) /\ AtSide(H, K, user, H2, K2, "box")
        /\ H["box"] = h /\ K["box"] = k /\ H2["box"] = g /\ K2["box"] = q
        /\ Good(H2, K2, user, id) => LoopGood(y, "box", id)
    BY <2>4, <2>8, <2>h DEF Seen
  <2>10. Listed(H, "box", c) /\ ~K["box"][c].newSent /\ m = Hdr(K["box"][c].id, c, NewConnection)
    BY <2>0, <2>9, <2>h, <2>m DEF Listed
  <2>11. /\ H2["box"].in = H["box"].in /\ H2["box"].out = Append(H["box"].out, m)
         /\ H2["box"].n = H["box"].n /\ H2["box"].id = H["box"].id /\ H2["box"].list = H["box"].list
         /\ K2["box"][c] = [K["box"][c] EXCEPT !.newSent = TRUE]
         /\ \A d \in Client : d # c => K2["box"][d] = K["box"][d]
    BY <2>1, <2>2, <2>9
  <2>12. Good(H2, K2, user, id)
    <3>1. Good(H, K, user, id) /\ AtSide(H, K, user, H2, K2, "box")
      BY <2>9
    <3> QED  BY <2>0, <2>10, <2>11, <3>1, GoodAnnounced
  <2> QED  BY <2>1, <2>4, <2>9, <2>12, <2>h, <2>y
<1> QED  BY <1>1, <1>2

AnnouncedBy(x, list, f) ==
    f = [i \in 0 .. Len(list) |-> IF i = 0 THEN x ELSE Announce(f[i - 1], list[i])]

LEMMA LoopAnnounced ==
    ASSUME NEW id, NEW x, LoopGood(x, "box", id)
    PROVE  LoopGood(Announced(x), "box", id)
<1>l. PICK list \in Seq(Client), n \in Nat : list = x.h.list /\ n = Len(list)
  <2>1. PICK list \in Seq(Client) : list = x.h.list
    BY LoopFacts
  <2>2. Len(list) \in Nat
    OBVIOUS
  <2> QED  BY <2>1, <2>2
<1>V. PICK V : V = {y \in Loop : LoopGood(y, "box", id) /\ y.h.list = list}
  OBVIOUS
<1>0. /\ x \in V
      /\ \A i \in 1 .. n, y \in V : Announce(y, list[i]) \in V
  <2>1. x \in V
    BY <1>V, <1>l, LoopFacts
  <2>2. ASSUME NEW i \in 1 .. n, NEW y \in V
        PROVE  Announce(y, list[i]) \in V
    <3>1. LoopGood(y, "box", id) /\ y.h.list = list
      BY <1>V
    <3>2. list[i] \in Range(y.h.list)
      BY <1>l, <3>1, RangeFacts
    <3>3. LoopGood(Announce(y, list[i]), "box", id) /\ Announce(y, list[i]).h.list = list
      BY <3>1, <3>2, LoopAnnounce
    <3>4. Announce(y, list[i]) \in Loop
      BY <3>3, LoopFacts
    <3> QED  BY <1>V, <3>3, <3>4
  <2> QED  BY <2>1, <2>2
<1>G. PICK G : G = [i \in 1 .. n |-> [y \in V |-> Announce(y, list[i])]]
  OBVIOUS
<1>1. G \in [1 .. n -> [V -> V]]
  BY <1>0, <1>G
<1>2. PICK f \in [0 .. n -> V] : f[0] = x /\ \A i \in 1 .. n : f[i] = G[i][f[i - 1]]
  <2>1. Defined(V, x, n, G)
    BY <1>0, <1>1, RecursionUpTo
  <2> QED  BY <2>1 DEF Defined
<1>3. \A i \in 1 .. n : f[i] = Announce(f[i - 1], list[i])
  <2>1. ASSUME NEW i \in 1 .. n
        PROVE  f[i] = Announce(f[i - 1], list[i])
    <3>1. i - 1 \in 0 .. n
      OBVIOUS
    <3>2. f[i - 1] \in V
      BY <1>2, <3>1
    <3> QED  BY <1>2, <1>G, <3>2
  <2> QED  BY <2>1
<1>4. AnnouncedBy(x, list, f)
  <2>1. f = [k \in 0 .. n |-> f[k]]
    BY <1>2
  <2>2. ASSUME NEW k \in 0 .. n
        PROVE  f[k] = IF k = 0 THEN x ELSE Announce(f[k - 1], list[k])
    <3>1. k # 0 => k \in 1 .. n
      OBVIOUS
    <3> QED  BY <1>2, <1>3, <3>1
  <2>g. PICK g : g = [k \in 0 .. n |-> IF k = 0 THEN x ELSE Announce(f[k - 1], list[k])]
    OBVIOUS
  <2>3. f = g
    BY <2>1, <2>2, <2>g
  <2> QED  BY <1>l, <2>3, <2>g DEF AnnouncedBy
<1>h. PICK h : h = AnnouncedUpTo(x, list)
  OBVIOUS
<1>5. AnnouncedBy(x, list, h)
  <2>1. h = CHOOSE q : AnnouncedBy(x, list, q)
    BY <1>h DEF AnnouncedUpTo, AnnouncedBy
  <2> QED  BY <1>4, <2>1
<1>6. h[0] = x /\ \A k \in 1 .. n : h[k] = Announce(h[k - 1], list[k])
  <2>1. 0 \in 0 .. n /\ \A k \in 1 .. n : k \in 0 .. n /\ k # 0
    OBVIOUS
  <2> QED  BY <1>5, <1>l, <2>1 DEF AnnouncedBy
<1>7. h[n] \in V
  <2> DEFINE Q == {k \in 0 .. n : h[k] \in V}
  <2>1. 0 \in Q
    BY <1>0, <1>6
  <2>2. ASSUME NEW k \in 1 .. n, k - 1 \in Q
        PROVE  k \in Q
    BY <1>0, <1>6, <2>2
  <2>3. \A k \in 0 .. n : k \in Q
    <3> HIDE DEF Q
    <3> QED  BY <2>1, <2>2, Upwards
  <2> QED  BY <2>3
<1>8. Announced(x) = h[n]
  BY <1>h, <1>l DEF Announced
<1> QED  BY <1>7, <1>8, <1>V

LEMMA MessageMade ==
    ASSUME NEW q \in Seq(Item), NEW b \in 1 .. Len(q), NEW i \in Int, NEW c \in Client, NEW out \in Seq(Item)
    PROVE  \E m \in Seq(Item) : /\ Message(m, i, q, c, b)
                                /\ out \o <<Hdr(i, c, b)>> \o SubSeq(q, 1, b) = out \o m
<1>a. PICK a \in Item : a = Hdr(i, c, b)
  BY HdrItem
<1>m. PICK m : m = <<a>> \o SubSeq(q, 1, b)
  OBVIOUS
<1>1. /\ m \in Seq(Item) /\ Len(m) = b + 1 /\ m[1] = a
      /\ \A j \in 1 .. Len(m) : j # 1 => j - 1 \in 1 .. b /\ m[j] = q[j - 1]
      /\ out \o <<a>> \o SubSeq(q, 1, b) = out \o m
  <2>1. /\ m \in Seq(Item) /\ Len(m) = b + 1 /\ m[1] = a
        /\ \A j \in 1 .. Len(m) : j # 1 => j - 1 \in 1 .. b /\ m[j] = q[j - 1]
    BY <1>m, MessageFacts
  <2>2. out \o <<a>> \o SubSeq(q, 1, b) = out \o m
    BY <1>m, MessageFacts
  <2> QED  BY <2>1, <2>2
<1> QED  BY <1>1, <1>a DEF Message

LEMMA LoopCollect ==
    ASSUME NEW s \in Side, NEW id, NEW x, LoopGood(x, s, id), NEW c \in Served(x), NEW first
    PROVE  LoopGood(Collect(x, c, first), s, id) /\ Served(Collect(x, c, first)) = Served(x)
<1>h. PICK h \in Hub, k \in [Client -> Con] : h = x.h /\ k = x.k /\ x = [h |-> h, k |-> k]
  BY LoopFacts
<1>0. /\ h.up /\ h.in \in Seq(Item) /\ h.out \in Seq(Item) /\ h.list \in Seq(Client) /\ Fits(k)
      /\ Cap \in Nat /\ c \in Range(h.list) /\ c \in Client /\ k[c] \in Con /\ k[c].newSent
      /\ k[c].id \in Int /\ k[c].in \in Seq(Item)
  <2>1. h.list \in Seq(Client) /\ c \in Range(h.list) /\ k[c].newSent
    BY <1>h, LoopFacts DEF Served
  <2>2. c \in Client
    BY <2>1, RangeFacts
  <2> QED  BY <1>h, <2>1, <2>2, LoopFacts
<1>p. PICK space \in Int : space = Cap - Len(h.out)
  <2>1. PICK a \in Nat : a = Len(h.out)
    BY <1>0, NotEmpty
  <2>2. PICK b \in Nat : b = Cap
    BY <1>0
  <2>3. b - a \in Int
    OBVIOUS
  <2> QED  BY <2>1, <2>2, <2>3
<1>1. CASE space < 2
  <2>y. PICK g, y : /\ g = [h EXCEPT !.hung = (c # first)] /\ y = [h |-> g, k |-> k]
                    /\ y = Collect(x, c, first)
    <3>1. Collect(x, c, first) = [x EXCEPT !.h.hung = (c # first)]
      BY <1>1, <1>h, <1>p DEF Collect
    <3>2. [x EXCEPT !.h.hung = (c # first)] = [h |-> [h EXCEPT !.hung = (c # first)], k |-> k]
      BY <1>h
    <3> QED  BY <3>1, <3>2
  <2>1. /\ g \in Hub /\ g.in = h.in /\ g.out = h.out /\ g.n = h.n /\ g.id = h.id
        /\ g.list = h.list /\ g.up
    BY <1>0, <2>y DEF Hub
  <2>b. y = [h |-> g, k |-> k] /\ g \in Hub /\ k \in [Client -> Con] /\ g.up /\ Fits(k)
    BY <1>0, <2>1, <2>y
  <2>c. y \in Loop /\ y.h = g /\ y.k = k
    BY <2>b DEF Loop
  <2>2. y \in Loop /\ y.h = g /\ y.k = k /\ y.h.up /\ Fits(y.k)
    BY <2>b, <2>c
  <2>3. PICK H, K, H2, K2 : Seen(x, y, H, K, H2, K2, s, id)
    BY <1>h, <2>2, LoopStep
  <2>4. /\ Good(H, K, user, id) /\ AtSide(H, K, user, H2, K, s)
        /\ H[s] = h /\ H2[s] = g
        /\ Good(H2, K, user, id) => LoopGood(y, s, id)
    BY <1>h, <2>2, <2>3 DEF Seen
  <2>5. /\ H2[s].in = H[s].in /\ H2[s].out = H[s].out /\ H2[s].n = H[s].n /\ H2[s].id = H[s].id
        /\ H2[s].list = H[s].list
    BY <2>1, <2>4
  <2>6. Good(H2, K, user, id)
    BY <2>4, <2>5, GoodIdle
  <2>7. Served(y) = Served(x)
    BY <1>h, <2>1, <2>2 DEF Served
  <2> QED  BY <2>4, <2>6, <2>7, <2>y
<1>2. CASE ~(space < 2) /\ k[c].in = <<>>
  <2>1. Collect(x, c, first) = x
    BY <1>2, <1>h, <1>p DEF Collect
  <2> QED  BY <2>1
<1>3. CASE ~(space < 2) /\ k[c].in # <<>>
  <2>i. PICK i \in Seq(Item), w \in Nat : i = k[c].in /\ w = Len(i) /\ 1 <= w
    BY <1>0, <1>3, NotEmpty
  <2>b. PICK b \in Nat : b = (IF w < space - 1 THEN w ELSE space - 1) /\ 1 <= b /\ b <= w
    BY <1>3, <2>i
  <2>m. PICK m \in Seq(Item) : /\ Message(m, k[c].id, i, c, b)
                               /\ h.out \o <<Hdr(k[c].id, c, b)>> \o SubSeq(i, 1, b) = h.out \o m
    <3>1. b \in 1 .. Len(i) /\ h.out \in Seq(Item) /\ k[c].id \in Int /\ c \in Client
      BY <1>0, <2>b, <2>i
    <3> QED  BY <3>1, MessageMade
  <2>q. PICK q \in Seq(Item) : q = SubSeq(i, b + 1, Len(i)) /\ Shrunk(i, b, q)
    <3>1. b \in 0 .. Len(i)
      BY <2>b, <2>i
    <3> QED  BY <3>1, SubSeqShrunk DEF Shrunk
  <2>g. PICK g, r, y : /\ g = [h EXCEPT !.out = h.out \o m] /\ r = [k EXCEPT ![c].in = q]
                       /\ y = [h |-> g, k |-> r] /\ y = Collect(x, c, first)
    <3>1. Collect(x, c, first) =
            [x EXCEPT !.h.out = h.out \o <<Hdr(k[c].id, c, b)>> \o SubSeq(i, 1, b), !.k[c].in = q]
      BY <1>3, <1>h, <1>p, <2>b, <2>i, <2>q DEF Collect, LeftOver
    <3>2. Collect(x, c, first) = [x EXCEPT !.h.out = h.out \o m, !.k[c].in = q]
      BY <2>m, <3>1
    <3> QED  BY <1>h, <3>2
  <2>1. /\ g \in Hub /\ g.in = h.in /\ g.out = h.out \o m /\ g.n = h.n /\ g.id = h.id
        /\ g.list = h.list /\ g.up
    <3>1. h.out \o m \in Seq(Item)
      BY <1>0, ConcatFacts
    <3> QED  BY <1>0, <2>g, <3>1 DEF Hub
  <2>2. /\ r \in [Client -> Con] /\ r[c] = [k[c] EXCEPT !.in = q]
        /\ \A d \in Client : d # c => r[d] = k[d]
    <3>1. [k[c] EXCEPT !.in = q] \in Con
      BY <1>0 DEF Con
    <3> QED  BY <1>0, <2>g, <3>1
  <2>3. /\ r[c].in = q /\ r[c].out = k[c].out /\ r[c].newSent = k[c].newSent
        /\ r[c].st = k[c].st /\ r[c].id = k[c].id
    BY <1>0, <2>2 DEF Con
  <2>4. \A d \in Client : r[d].st = k[d].st /\ r[d].out = k[d].out /\ r[d].newSent = k[d].newSent
    BY <2>2, <2>3
  <2>a. y = [h |-> g, k |-> r] /\ g \in Hub /\ r \in [Client -> Con] /\ g.up
    BY <2>1, <2>2, <2>g
  <2>c. y \in Loop /\ y.h = g /\ y.k = r
    BY <2>a DEF Loop
  <2>5. y \in Loop /\ y.h = g /\ y.k = r /\ y.h.up
    BY <2>a, <2>c
  <2>6. Fits(y.k)
    BY <1>0, <2>4, <2>5 DEF Fits
  <2>8. PICK H, K, H2, K2 : Seen(x, y, H, K, H2, K2, s, id)
    BY <2>5, <2>6, LoopStep
  <2>9. /\ Good(H, K, user, id) /\ AtSide(H, K, user, H2, K2, s)
        /\ H[s] = h /\ K[s] = k /\ H2[s] = g /\ K2[s] = r
        /\ Good(H2, K2, user, id) => LoopGood(y, s, id)
    BY <1>h, <2>5, <2>8 DEF Seen
  <2>10. Collects(H, K, H2, K2, s, c, b, i, q, m)
    BY <1>0, <2>1, <2>2, <2>3, <2>9, <2>b, <2>i, <2>m, <2>q DEF Collects, Listed
  <2>11. Good(H2, K2, user, id)
    BY <1>0, <2>9, <2>10, GoodCollected
  <2>12. Served(y) = Served(x)
    <3>1. h.list \in Seq(Client) /\ Range(h.list) \subseteq Client
      BY <1>0, RangeFacts
    <3>2. \A d \in Range(h.list) : r[d].newSent = k[d].newSent
      BY <2>4, <3>1
    <3> QED  BY <1>h, <2>1, <2>5, <3>2 DEF Served
  <2> QED  BY <2>9, <2>11, <2>12, <2>g
<1> QED  BY <1>1, <1>2, <1>3

\* The connections that are served are in the list and were announced.
LEMMA OrderFacts ==
    ASSUME NEW s \in Side, NEW id, NEW x, LoopGood(x, s, id)
    PROVE  Order(x, s) \in Seq(Client) /\ Range(Order(x, s)) \subseteq Served(x)
<1>1. PICK list \in Seq(Client) : list = Found(x.h.list, Served(x)) /\ Range(list) \subseteq Served(x)
  <2>1. x.h.list \in Seq(Client)
    BY LoopFacts
  <2> QED  BY <2>1, FoundFacts
<1>W. PICK W : W = Served(x) /\ W \subseteq Client
  <2>1. x.h.list \in Seq(Client)
    BY LoopFacts
  <2>2. Range(x.h.list) \subseteq Client
    BY <2>1, RangeFacts
  <2> QED  BY <2>2 DEF Served
<1>n. PICK n \in Nat : n = Len(list) /\ \A i \in 1 .. n : list[i] \in W
  <2>1. Len(list) \in Nat /\ \A i \in 1 .. Len(list) : list[i] \in Range(list)
    BY RangeFacts
  <2> QED  BY <1>1, <1>W, <2>1
<1>at. PICK at \in 0 .. n : Order(x, s) = SubSeq(list, at + 1, n) \o SubSeq(list, 1, at)
  <2>1. PICK ix \in Nat : ix = x.h.ix
    BY LoopFacts DEF Hub
  <2>2. PICK at : at = IF s = "srv" /\ ix < n THEN ix ELSE 0
    OBVIOUS
  <2>3. at \in 0 .. n
    BY <2>2
  <2> QED  BY <1>1, <1>n, <2>1, <2>2, <2>3 DEF Order
<1>2. SubSeq(list, at + 1, n) \in Seq(W)
  <2>1. \A i \in at + 1 .. n : list[i] \in W
    BY <1>n
  <2> QED  BY <2>1, SubSeqProperties
<1>3. SubSeq(list, 1, at) \in Seq(W)
  <2>1. \A i \in 1 .. at : list[i] \in W
    BY <1>n
  <2> QED  BY <2>1, SubSeqProperties
<1>o. PICK o \in Seq(W) : o = Order(x, s)
  <2>1. SubSeq(list, at + 1, n) \o SubSeq(list, 1, at) \in Seq(W)
    BY <1>2, <1>3, ConcatFacts
  <2> QED  BY <1>at, <2>1
<1>4. Range(o) \subseteq W
  BY RangeFacts
<1>5. o \in Seq(Client)
  BY <1>W
<1> QED  BY <1>4, <1>5, <1>W, <1>o

CollectedBy(x, list, first, full, f) ==
    f = [i \in 0 .. Len(list) |-> IF i = 0 THEN x ELSE CollectNext(f[i - 1], list[i], first, full)]

LEMMA LoopCollected ==
    ASSUME NEW s \in Side, NEW id, NEW x, LoopGood(x, s, id)
    PROVE  LoopGood(Collected(x, s), s, id)
<1>l. PICK list, n, first, full :
         /\ list \in Seq(Client) /\ n \in Nat
         /\ list = Order(x, s) /\ n = Len(list) /\ Range(list) \subseteq Served(x)
         /\ first = list[1] /\ full = (Cap - Len(x.h.out) < 2)
  <2>1. PICK list \in Seq(Client) : list = Order(x, s) /\ Range(list) \subseteq Served(x)
    BY OrderFacts
  <2>2. Len(list) \in Nat
    OBVIOUS
  <2> QED  BY <2>1, <2>2
<1>u. list \in Seq(Client) /\ n \in Nat
  BY <1>l
<1> USE <1>u
<1>V. PICK V : V = {y \in Loop : LoopGood(y, s, id) /\ Served(y) = Served(x)}
  OBVIOUS
<1>0. /\ x \in V
      /\ \A i \in 1 .. n, y \in V : CollectNext(y, list[i], first, full) \in V
  <2>1. x \in V
    BY <1>V, LoopFacts
  <2>2. ASSUME NEW i \in 1 .. n, NEW y \in V
        PROVE  CollectNext(y, list[i], first, full) \in V
    <3>1. LoopGood(y, s, id) /\ Served(y) = Served(x) /\ y \in Loop
      BY <1>V
    <3>2. list[i] \in Served(y)
      BY <1>l, <3>1, RangeFacts
    <3>3. LoopGood(Collect(y, list[i], first), s, id) /\ Served(Collect(y, list[i], first)) = Served(x)
      BY <3>1, <3>2, LoopCollect
    <3>4. LoopGood(CollectNext(y, list[i], first, full), s, id)
          /\ Served(CollectNext(y, list[i], first, full)) = Served(x)
      BY <3>1, <3>3 DEF CollectNext
    <3>5. CollectNext(y, list[i], first, full) \in Loop
      BY <3>4, LoopFacts
    <3> QED  BY <1>V, <3>4, <3>5
  <2> QED  BY <2>1, <2>2
<1>G. PICK G : G = [i \in 1 .. n |-> [y \in V |-> CollectNext(y, list[i], first, full)]]
  OBVIOUS
<1>1. G \in [1 .. n -> [V -> V]]
  BY <1>0, <1>G
<1>2. PICK f \in [0 .. n -> V] : f[0] = x /\ \A i \in 1 .. n : f[i] = G[i][f[i - 1]]
  <2>1. Defined(V, x, n, G)
    BY <1>0, <1>1, RecursionUpTo
  <2> QED  BY <2>1 DEF Defined
<1>3. \A i \in 1 .. n : f[i] = CollectNext(f[i - 1], list[i], first, full)
  <2>1. ASSUME NEW i \in 1 .. n
        PROVE  f[i] = CollectNext(f[i - 1], list[i], first, full)
    <3>1. i - 1 \in 0 .. n
      OBVIOUS
    <3>2. f[i - 1] \in V
      BY <1>2, <3>1
    <3> QED  BY <1>2, <1>G, <3>2
  <2> QED  BY <2>1
<1>4. CollectedBy(x, list, first, full, f)
  <2>1. f = [k \in 0 .. n |-> f[k]]
    BY <1>2
  <2>2. ASSUME NEW k \in 0 .. n
        PROVE  f[k] = IF k = 0 THEN x ELSE CollectNext(f[k - 1], list[k], first, full)
    <3>1. k # 0 => k \in 1 .. n
      OBVIOUS
    <3> QED  BY <1>2, <1>3, <3>1
  <2>g. PICK g : g = [k \in 0 .. n |-> IF k = 0 THEN x ELSE CollectNext(f[k - 1], list[k], first, full)]
    OBVIOUS
  <2>3. f = g
    BY <2>1, <2>2, <2>g
  <2> QED  BY <1>l, <2>3, <2>g DEF CollectedBy
<1>h. PICK h : h = CollectedUpTo(x, list)
  OBVIOUS
<1>5. CollectedBy(x, list, first, full, h)
  <2>1. h = CHOOSE q : CollectedBy(x, list, first, full, q)
    BY <1>h, <1>l DEF CollectedUpTo, CollectedBy
  <2> QED  BY <1>4, <2>1
<1>6. h[0] = x /\ \A k \in 1 .. n : h[k] = CollectNext(h[k - 1], list[k], first, full)
  <2>1. 0 \in 0 .. n /\ \A k \in 1 .. n : k \in 0 .. n /\ k # 0
    OBVIOUS
  <2> QED  BY <1>5, <1>l, <2>1 DEF CollectedBy
<1>7. h[n] \in V
  <2> DEFINE Q == {k \in 0 .. n : h[k] \in V}
  <2>1. 0 \in Q
    BY <1>0, <1>6
  <2>2. ASSUME NEW k \in 1 .. n, k - 1 \in Q
        PROVE  k \in Q
    BY <1>0, <1>6, <2>2
  <2>3. \A k \in 0 .. n : k \in Q
    <3> HIDE DEF Q
    <3> QED  BY <2>1, <2>2, Upwards
  <2> QED  BY <2>3
<1>8. Collected(x, s) = h[n]
  BY <1>h, <1>l DEF Collected
<1> QED  BY <1>7, <1>8, <1>V

LEMMA TailShrunk ==
    ASSUME NEW a \in Seq(Item), a # <<>>
    PROVE  /\ Tail(a) \in Seq(Item) /\ Shrunk(a, 1, Tail(a)) /\ 1 \in 0 .. Len(a)
           /\ Head(a) = a[1] /\ a[1] \in Item
<1>1. /\ Head(a) = a[1] /\ Tail(a) \in Seq(Item) /\ Len(Tail(a)) = Len(a) - 1
      /\ \A i \in 1 .. Len(Tail(a)) : Tail(a)[i] = a[i + 1]
  <2>1. Head(a) = a[1]
    OBVIOUS
  <2>2. Tail(a) \in Seq(Item) /\ Len(Tail(a)) = Len(a) - 1
    OBVIOUS
  <2>3. \A i \in 1 .. Len(Tail(a)) : Tail(a)[i] = a[i + 1]
    OBVIOUS
  <2> QED  BY <2>1, <2>2, <2>3
<1>2. Len(a) \in Nat /\ 1 <= Len(a)
  BY NotEmpty
<1>3. a[1] \in Item
  BY <1>2
<1> QED  BY <1>1, <1>2, <1>3 DEF Shrunk

\* The header m is taken.
LEMMA LoopHeaderTaken ==
    ASSUME NEW s \in Side, NEW id, NEW x, LoopGood(x, s, id), NEW a \in Seq(Item), a = x.h.in,
           x.h.n = 0, a # <<>>, NEW m, m = a[1], NEW g \in Hub, NEW q \in [Client -> Con],
           g.up, g.in = Tail(a), g.out = x.h.out, g.n = Span(m), Span(m) > 0 => g.id = m.id,
           g.list = x.h.list, \A c \in Client : Stops(x.k[c], q[c]),
           NEW y, y = [h |-> g, k |-> q]
    PROVE  LoopGood(y, s, id)
<1>1. y \in Loop /\ y.h = g /\ y.k = q
  BY DEF Loop
<1>2. \A c \in Client : q[c].out = x.k[c].out
  BY DEF Stops
<1>3. Fits(y.k)
  BY <1>1, <1>2, LoopFacts DEF Fits
<1>4. PICK H, K, H2, K2 : Seen(x, y, H, K, H2, K2, s, id)
  BY <1>1, <1>3, LoopStep
<1>5. /\ Good(H, K, user, id) /\ AtSide(H, K, user, H2, K2, s)
      /\ H[s] = x.h /\ K[s] = x.k /\ H2[s] = g /\ K2[s] = q
      /\ Good(H2, K2, user, id) => LoopGood(y, s, id)
  BY <1>1, <1>4 DEF Seen
<1>6. /\ Tail(a) \in Seq(Item) /\ Shrunk(a, 1, Tail(a)) /\ 1 \in 0 .. Len(a) /\ m \in Item
  BY TailShrunk
<1>7. Takes(H, H2, s, 1)
  BY <1>5, <1>6 DEF Takes
<1>8. TakesHeader(H, K, H2, K2, s, m)
  BY <1>5, <1>7 DEF TakesHeader
<1> QED  BY <1>5, <1>6, <1>8, GoodHeader

\* A state of the loop, and records with some fields changed.
Pair(h, k) == [h |-> h, k |-> k]
WithIn(h, a) == [h EXCEPT !.in = a]
WithHeader(h, i, n) == [h EXCEPT !.id = i, !.n = n]
WithList(h, l) == [h EXCEPT !.list = l]
WithOut(h, o) == [h EXCEPT !.out = o]
WithBoth(x, g, q) == [x EXCEPT !.k = q, !.h = g]
WithCon(k, c, e) == [k EXCEPT ![c] = e]
NewCon(m) == [NoCon EXCEPT !.st = "run", !.id = m.id, !.newSent = TRUE]
Stopped(k, S) ==
    [c \in Client |-> IF c \in S THEN [k[c] EXCEPT !.st = "stop", !.dropDone = TRUE] ELSE k[c]]

LEMMA HubWithIn ==
    ASSUME NEW h \in Hub, NEW a \in Seq(Item), NEW g, g = WithIn(h, a)
    PROVE  /\ g \in Hub /\ g.in = a /\ g.out = h.out /\ g.n = h.n /\ g.id = h.id
           /\ g.list = h.list /\ (h.up => g.up)
BY DEF Hub, WithIn

LEMMA HubWithHeader ==
    ASSUME NEW h \in Hub, NEW i \in Int, NEW n \in Nat, NEW g, g = WithHeader(h, i, n)
    PROVE  /\ g \in Hub /\ g.in = h.in /\ g.out = h.out /\ g.n = n /\ g.id = i
           /\ g.list = h.list /\ (h.up => g.up)
BY DEF Hub, WithHeader

LEMMA HubWithList ==
    ASSUME NEW h \in Hub, NEW l \in Seq(Client), NEW g, g = WithList(h, l)
    PROVE  /\ g \in Hub /\ g.in = h.in /\ g.out = h.out /\ g.n = h.n /\ g.id = h.id
           /\ g.list = l /\ (h.up => g.up)
BY DEF Hub, WithList

LEMMA HubWithOut ==
    ASSUME NEW h \in Hub, NEW o \in Seq(Item), NEW g, g = WithOut(h, o)
    PROVE  /\ g \in Hub /\ g.in = h.in /\ g.out = o /\ g.n = h.n /\ g.id = h.id
           /\ g.list = h.list /\ (h.up => g.up)
BY DEF Hub, WithOut

LEMMA PairWith ==
    \A h, k, g, q : /\ WithBoth(Pair(h, k), g, q) = Pair(g, q)
                    /\ [Pair(h, k) EXCEPT !.h = g] = Pair(g, k)
                    /\ [Pair(h, k) EXCEPT !.k = q] = Pair(h, q)
                    /\ Pair(h, k).h = h /\ Pair(h, k).k = k
                    /\ h \in Hub /\ k \in [Client -> Con] => Pair(h, k) \in Loop
<1> SUFFICES ASSUME NEW h, NEW k, NEW g, NEW q
             PROVE  /\ WithBoth(Pair(h, k), g, q) = Pair(g, q)
                    /\ [Pair(h, k) EXCEPT !.h = g] = Pair(g, k)
                    /\ [Pair(h, k) EXCEPT !.k = q] = Pair(h, q)
                    /\ Pair(h, k).h = h /\ Pair(h, k).k = k
                    /\ h \in Hub /\ k \in [Client -> Con] => Pair(h, k) \in Loop
  OBVIOUS
<1>1. [Pair(h, k) EXCEPT !.h = g] = Pair(g, k)
  BY DEF Pair
<1>2. [Pair(h, k) EXCEPT !.k = q] = Pair(h, q)
  BY DEF Pair
<1>3. WithBoth(Pair(h, k), g, q) = [[Pair(h, k) EXCEPT !.k = q] EXCEPT !.h = g]
  BY DEF WithBoth
<1>4. [Pair(h, q) EXCEPT !.h = g] = Pair(g, q)
  BY DEF Pair
<1>5. Pair(h, k).h = h /\ Pair(h, k).k = k
  BY DEF Pair
<1>6. h \in Hub /\ k \in [Client -> Con] => Pair(h, k) \in Loop
  BY DEF Pair, Loop
<1> QED  BY <1>1, <1>2, <1>3, <1>4, <1>5, <1>6

\* x without the header m, and with what m brings.
TakenFrom(x) == [x EXCEPT !.h.in = Tail(@)]
TakenData(x, m) == [TakenFrom(x) EXCEPT !.h.id = m.id, !.h.n = m.len]
TakenNew(x, m) ==
    [TakenFrom(x) EXCEPT !.k[m.c] = [NoCon EXCEPT !.st = "run", !.id = m.id, !.newSent = TRUE],
                         !.h.list = Append(@, m.c)]
TakenDropped(x, m) ==
    [TakenFrom(x) EXCEPT !.k = [c \in Client |->
        IF c \in DroppedBy(x, m) THEN [@[c] EXCEPT !.st = "stop", !.dropDone = TRUE] ELSE @[c]]]

LEMMA HeaderCases ==
    ASSUME NEW x, NEW s, NEW m, m = Head(x.h.in), m.len \in Int
    PROVE  /\ m.len > 0 => TakeHeader(x, s) = TakenData(x, m)
           /\ m.len = NewConnection /\ s = "srv" => TakeHeader(x, s) = TakenNew(x, m)
           /\ m.len = Dropped => TakeHeader(x, s) = TakenDropped(x, m)
           /\ ~(m.len > 0) /\ ~(m.len = NewConnection /\ s = "srv") /\ ~(m.len = Dropped) =>
                 TakeHeader(x, s) = TakenFrom(x)
<1>y. PICK y : y = TakenFrom(x)
  OBVIOUS
<1>1. ASSUME m.len > 0
      PROVE  TakeHeader(x, s) = TakenData(x, m)
  <2>1. ~(m.len = NewConnection) /\ ~(m.len = Dropped)
    BY <1>1 DEF NewConnection, Dropped
  <2> QED  BY <1>1, <1>y, <2>1 DEF TakeHeader, TakenFrom, TakenData
<1>2. ASSUME m.len = NewConnection, s = "srv"
      PROVE  TakeHeader(x, s) = TakenNew(x, m)
  <2>1. ~(m.len > 0) /\ ~(m.len = Dropped)
    BY <1>2 DEF NewConnection, Dropped
  <2> QED  BY <1>2, <1>y, <2>1 DEF TakeHeader, TakenFrom, TakenNew
<1>3. ASSUME m.len = Dropped
      PROVE  TakeHeader(x, s) = TakenDropped(x, m)
  <2>1. ~(m.len > 0) /\ ~(m.len = NewConnection)
    BY <1>3 DEF NewConnection, Dropped
  <2> QED  BY <1>3, <1>y, <2>1 DEF TakeHeader, TakenFrom, TakenDropped
<1>4. ASSUME ~(m.len > 0), ~(m.len = NewConnection /\ s = "srv"), ~(m.len = Dropped)
      PROVE  TakeHeader(x, s) = TakenFrom(x)
  BY <1>4, <1>y DEF TakeHeader, TakenFrom
<1> QED  BY <1>1, <1>2, <1>3, <1>4

LEMMA TakenFromPair ==
    ASSUME NEW x, NEW h, NEW k, NEW t, x = Pair(h, k), t = Tail(h.in)
    PROVE  TakenFrom(x) = Pair(WithIn(h, t), k)
<1>f. PICK f : f = WithIn(h, t)
  OBVIOUS
<1>1. TakenFrom(x) = [x EXCEPT !.h = [x.h EXCEPT !.in = Tail(x.h.in)]]
  BY DEF TakenFrom
<1>2. x.h = h
  BY PairWith
<1>3. TakenFrom(x) = [x EXCEPT !.h = f]
  BY <1>1, <1>2, <1>f DEF WithIn
<1> QED  BY <1>3, <1>f DEF Pair

LEMMA TakenDataPair ==
    ASSUME NEW x, NEW f, NEW k, NEW m, TakenFrom(x) = Pair(f, k)
    PROVE  TakenData(x, m) = Pair(WithHeader(f, m.id, m.len), k)
<1>y. PICK y : y = Pair(f, k)
  OBVIOUS
<1>0. y.h = f /\ y.k = k
  BY <1>y, PairWith
<1>g. PICK i, n, g : i = m.id /\ n = m.len /\ g = WithHeader(f, i, n)
  OBVIOUS
<1>1. TakenData(x, m) = [y EXCEPT !.h.id = i, !.h.n = n]
  BY <1>g, <1>y DEF TakenData
<1>2. [y EXCEPT !.h.id = i, !.h.n = n] = [y EXCEPT !.h = g]
  BY <1>0, <1>g, <1>y DEF Pair, WithHeader
<1>3. [y EXCEPT !.h = g] = Pair(g, k)
  BY <1>y DEF Pair
<1> QED  BY <1>1, <1>2, <1>3, <1>g

LEMMA TakenNewPair ==
    ASSUME NEW x, NEW f, NEW k, NEW m, TakenFrom(x) = Pair(f, k)
    PROVE  TakenNew(x, m) = Pair(WithList(f, Append(f.list, m.c)), WithCon(k, m.c, NewCon(m)))
<1>y. PICK y : y = Pair(f, k)
  OBVIOUS
<1>0. y.h = f /\ y.k = k
  BY <1>y, PairWith
<1>e. PICK e, g, q : /\ e = NewCon(m) /\ g = WithList(f, Append(f.list, m.c)) /\ q = WithCon(k, m.c, e)
  OBVIOUS
<1>1. TakenNew(x, m) = [y EXCEPT !.k[m.c] = e, !.h.list = Append(@, m.c)]
  BY <1>e, <1>y DEF TakenNew, NewCon
<1>2. [y EXCEPT !.k[m.c] = e, !.h.list = Append(@, m.c)] = WithBoth(y, g, q)
  BY <1>0, <1>e, <1>y DEF Pair, WithBoth, WithList, WithCon
<1>3. WithBoth(y, g, q) = Pair(g, q)
  BY <1>y, PairWith
<1> QED  BY <1>1, <1>2, <1>3, <1>e

LEMMA TakenDroppedPair ==
    ASSUME NEW x, NEW f, NEW k, NEW m, TakenFrom(x) = Pair(f, k)
    PROVE  TakenDropped(x, m) = Pair(f, Stopped(k, DroppedBy(x, m)))
<1>y. PICK y : y = Pair(f, k)
  OBVIOUS
<1>0. y.h = f /\ y.k = k
  BY <1>y, PairWith
<1>q. PICK q : q = Stopped(k, DroppedBy(x, m))
  OBVIOUS
<1>1. TakenDropped(x, m) = [y EXCEPT !.k = q]
  BY <1>0, <1>q, <1>y DEF TakenDropped, Stopped
<1>2. [y EXCEPT !.k = q] = Pair(f, q)
  BY <1>y DEF Pair
<1> QED  BY <1>1, <1>2, <1>q

LEMMA LoopHeader ==
    ASSUME NEW s \in Side, NEW id, NEW x, LoopGood(x, s, id), HeaderDue(x.h)
    PROVE  LoopGood(TakeHeader(x, s), s, id)
<1>h. PICK h \in Hub, k \in [Client -> Con] : h = x.h /\ k = x.k /\ x = [h |-> h, k |-> k]
  BY LoopFacts
<1>a. PICK a \in Seq(Item), tl \in Seq(Item) : a = h.in /\ a # <<>> /\ h.n = 0 /\ tl = Tail(a)
  <2>1. PICK a \in Seq(Item) : a = h.in /\ a # <<>> /\ h.n = 0
    BY <1>h, LoopFacts DEF HeaderDue
  <2> QED  BY <2>1, TailShrunk
<1>m. PICK m \in Item : m = Head(a) /\ m = a[1]
  BY <1>a, TailShrunk
<1>0. h.up /\ m.len \in Int /\ m.id \in Int /\ h.list \in Seq(Client)
  BY <1>a, <1>h, <1>m, LoopFacts, TailShrunk, ItemFacts
<1>f. PICK f \in Hub : /\ TakenFrom(x) = Pair(f, k)
                       /\ f.in = tl /\ f.out = h.out /\ f.n = 0 /\ f.id = h.id /\ f.list = h.list /\ f.up
  <2>1. x = Pair(h, k)
    BY <1>h DEF Pair
  <2>2. TakenFrom(x) = Pair(WithIn(h, tl), k)
    BY <1>a, <2>1, TakenFromPair
  <2>f. PICK f : f = WithIn(h, tl)
    OBVIOUS
  <2>3. /\ f \in Hub /\ f.in = tl /\ f.out = h.out /\ f.n = h.n /\ f.id = h.id
        /\ f.list = h.list /\ (h.up => f.up)
    BY <2>f, HubWithIn
  <2> QED  BY <1>0, <1>a, <2>2, <2>3, <2>f
<1>c. m = Head(x.h.in) /\ m.len \in Int
  BY <1>0, <1>a, <1>h, <1>m
<1>1. CASE m.len > 0
  <2>g. PICK g : g = WithHeader(f, m.id, m.len)
    OBVIOUS
  <2>1. TakeHeader(x, s) = [h |-> g, k |-> k]
    <3>1. TakeHeader(x, s) = TakenData(x, m)
      BY <1>1, <1>c, HeaderCases
    <3>2. TakenData(x, m) = Pair(g, k)
      BY <1>f, <2>g, TakenDataPair
    <3> QED  BY <3>1, <3>2 DEF Pair
  <2>2. /\ g \in Hub /\ g.in = tl /\ g.out = h.out /\ g.n = Span(m) /\ g.id = m.id
        /\ g.list = h.list /\ g.up
    <3>1. m.len \in Nat /\ m.id \in Int /\ Span(m) = m.len
      BY <1>0, <1>1 DEF Span
    <3> QED  BY <1>f, <2>g, <3>1, HubWithHeader
  <2>3. \A c \in Client : Stops(k[c], k[c])
    BY DEF Stops
  <2>y. PICK y : y = TakeHeader(x, s)
    OBVIOUS
  <2> QED  BY <1>a, <1>h, <1>m, <2>1, <2>2, <2>3, <2>y, LoopHeaderTaken
<1>2. CASE m.len = NewConnection /\ s = "srv"
  <2>s. "srv" \in Side
    BY DEF Side
  <2>1. m.t = "hdr" /\ m.c \in Client
    <3>1. x \in Loop /\ x.h.up /\ Fits(x.k)
      BY LoopFacts
    <3>2. PICK H, K, H2, K2 : Seen(x, x, H, K, H2, K2, s, id)
      BY <3>1, LoopStep
    <3>3. Good(H, K, user, id) /\ H["srv"] = h
      BY <1>2, <1>h, <3>2 DEF Seen
    <3>4. H["srv"].up /\ H["srv"].n = 0 /\ H["srv"].in # <<>> /\ m = H["srv"].in[1] /\ m.len = NewConnection
      BY <1>0, <1>2, <1>a, <1>m, <3>3
    <3> QED  BY <3>3, <3>4, Accepted
  <2>g. PICK e, g, q : e = NewCon(m) /\ g = WithList(f, Append(f.list, m.c)) /\ q = WithCon(k, m.c, e)
    OBVIOUS
  <2>y. PICK y : y = TakeHeader(x, s) /\ y = [h |-> g, k |-> q]
    <3>1. TakeHeader(x, s) = TakenNew(x, m)
      BY <1>2, <1>c, HeaderCases
    <3>2. TakenNew(x, m) = Pair(g, q)
      BY <1>f, <2>g, TakenNewPair
    <3> QED  BY <3>1, <3>2 DEF Pair
  <2>2. e \in Con /\ e.st = "run" /\ e.out = <<>> /\ Len(e.out) = 0
    BY <1>0, <2>g, EmptySeq DEF NoCon, Con, States, NewCon
  <2>3. /\ q \in [Client -> Con] /\ q[m.c] = e
        /\ \A d \in Client : d # m.c => q[d] = k[d]
    BY <2>1, <2>2, <2>g DEF WithCon
  <2>4. /\ g \in Hub /\ g.in = tl /\ g.out = h.out /\ g.n = 0
        /\ g.list = Append(h.list, m.c) /\ g.up
    <3>l. PICK l \in Seq(Client) : l = Append(h.list, m.c) /\ l = Append(f.list, m.c)
      <4>1. Append(h.list, m.c) \in Seq(Client)
        BY <1>0, <2>1
      <4> QED  BY <1>f, <4>1
    <3>2. g = WithList(f, l)
      BY <2>g, <3>l
    <3>3. g \in Hub /\ g.in = f.in /\ g.out = f.out /\ g.n = f.n /\ g.list = l /\ (f.up => g.up)
      BY <3>2, HubWithList
    <3> QED  BY <1>f, <3>3, <3>l
  <2>5. y \in Loop /\ y.h = g /\ y.k = q
    BY <2>3, <2>4, <2>y DEF Loop
  <2>6. Fits(y.k)
    <3>1. Fits(k) /\ ConCap \in Nat
      BY <1>h, LoopFacts
    <3> QED  BY <2>2, <2>3, <2>5, <3>1 DEF Fits
  <2>7. y.h.up
    BY <2>4, <2>5
  <2>8. PICK H, K, H2, K2 : Seen(x, y, H, K, H2, K2, s, id)
    BY <2>5, <2>6, <2>7, LoopStep
  <2>9. /\ Good(H, K, user, id) /\ AtSide(H, K, user, H2, K2, "srv")
        /\ H["srv"] = h /\ K["srv"] = k /\ H2["srv"] = g /\ K2["srv"] = q
        /\ Good(H2, K2, user, id) => LoopGood(y, s, id)
    BY <1>2, <1>h, <2>5, <2>8 DEF Seen
  <2>10. Takes(H, H2, "srv", 1)
    <3>1. Shrunk(a, 1, tl) /\ 1 \in 0 .. Len(a)
      BY <1>a, TailShrunk
    <3> QED  BY <1>a, <2>4, <2>9, <3>1 DEF Takes
  <2>11. Accepts(H, K, H2, K2, m)
    BY <1>2, <1>a, <1>m, <2>4, <2>9, <2>10, <2>g DEF Accepts, NewCon, WithCon
  <2> QED  BY <2>9, <2>11, <2>y, GoodAccepted
<1>3. CASE m.len = Dropped
  <2>g. PICK q : q = Stopped(k, DroppedBy(x, m))
    OBVIOUS
  <2>1. TakeHeader(x, s) = [h |-> f, k |-> q]
    <3>1. TakeHeader(x, s) = TakenDropped(x, m)
      BY <1>3, <1>c, HeaderCases
    <3>2. TakenDropped(x, m) = Pair(f, q)
      BY <1>f, <2>g, TakenDroppedPair
    <3> QED  BY <3>1, <3>2 DEF Pair
  <2>2. Span(m) = 0
    BY <1>3 DEF Span, Dropped
  <2>3. ASSUME NEW c \in Client
        PROVE  Stops(k[c], q[c]) /\ q[c] \in Con
    <3>1. CASE c \in DroppedBy(x, m)
      <4>1. k[c].st \in There
        <5>1. x \in Loop /\ x.h.up /\ Fits(x.k)
          BY LoopFacts
        <5>2. PICK H, K, H2, K2 : Seen(x, x, H, K, H2, K2, s, id)
          BY <5>1, LoopStep
        <5>3. Good(H, K, user, id) /\ H[s] = h /\ K[s] = k
          BY <1>h, <5>2 DEF Seen
        <5>4. Serves(H, K, s, c)
          BY <1>h, <3>1, <5>3 DEF Serves, Listed, DroppedBy, Targets, Served
        <5> QED  BY <5>3, <5>4, ServedFacts
      <4>2. q[c] = [k[c] EXCEPT !.st = "stop", !.dropDone = TRUE] /\ k[c] \in Con
        BY <2>g, <3>1 DEF Stopped
      <4> QED  BY <4>1, <4>2 DEF Con, Stops, There, States
    <3>2. CASE c \notin DroppedBy(x, m)
      <4>1. q[c] = k[c] /\ k[c] \in Con
        BY <2>g, <3>2 DEF Stopped
      <4> QED  BY <4>1 DEF Stops
    <3> QED  BY <3>1, <3>2
  <2>4. q \in [Client -> Con] /\ \A c \in Client : Stops(k[c], q[c])
    <3>1. q = [c \in Client |-> q[c]]
      BY <2>g DEF Stopped
    <3> QED  BY <2>3, <3>1
  <2>5. f.up /\ f.in = Tail(a) /\ f.out = x.h.out /\ f.n = Span(m) /\ f.list = x.h.list
    BY <1>a, <1>f, <1>h, <2>2
  <2>6. Span(m) > 0 => f.id = m.id
    BY <2>2
  <2>7. a = x.h.in /\ x.h.n = 0 /\ a # <<>> /\ m = a[1] /\ \A c \in Client : Stops(x.k[c], q[c])
    BY <1>a, <1>h, <1>m, <2>4
  <2> QED  BY <2>1, <2>4, <2>5, <2>6, <2>7, LoopHeaderTaken
<1>4. CASE ~(m.len > 0) /\ ~(m.len = NewConnection /\ s = "srv") /\ ~(m.len = Dropped)
  <2>1. TakeHeader(x, s) = [h |-> f, k |-> k]
    <3>1. TakeHeader(x, s) = TakenFrom(x)
      BY <1>4, <1>c, HeaderCases
    <3> QED  BY <1>f, <3>1 DEF Pair
  <2>2. Span(m) = 0
    BY <1>4 DEF Span
  <2>3. \A c \in Client : Stops(k[c], k[c])
    BY DEF Stops
  <2>5. f.up /\ f.in = Tail(a) /\ f.out = x.h.out /\ f.n = Span(m) /\ f.list = x.h.list
    BY <1>a, <1>f, <1>h, <2>2
  <2>6. Span(m) > 0 => f.id = m.id
    BY <2>2
  <2>7. a = x.h.in /\ x.h.n = 0 /\ a # <<>> /\ m = a[1] /\ \A c \in Client : Stops(x.k[c], k[c])
    BY <1>a, <1>h, <1>m, <2>3
  <2> QED  BY <2>1, <2>5, <2>6, <2>7, LoopHeaderTaken
<1> QED  BY <1>1, <1>2, <1>3, <1>4

\* A header without bytes is stored for the other side.
LEMMA LoopStored ==
    ASSUME NEW s \in Side, NEW id, NEW h, NEW k, LoopGood(Pair(h, k), s, id), NEW m \in Item,
           m.t = "hdr", m.len <= 0, m.len # NewConnection
    PROVE  LoopGood(Pair(WithOut(h, StoreHeader(h.out, m)), k), s, id)
<1>x. PICK x : x = Pair(h, k)
  OBVIOUS
<1>0. /\ h \in Hub /\ k \in [Client -> Con] /\ h.up /\ Fits(k) /\ h.out \in Seq(Item)
      /\ LoopGood(x, s, id) /\ x.h = h /\ x.k = k
  <2>1. LoopGood(x, s, id) /\ x.h = h /\ x.k = k
    BY <1>x, PairWith
  <2> QED  BY <2>1, LoopFacts
<1>1. CASE Len(h.out) < Cap
  <2>o. PICK o \in Seq(Item) : o = Append(h.out, m) /\ o = StoreHeader(h.out, m)
    <3>1. Append(h.out, m) \in Seq(Item)
      BY <1>0, AppendProperties
    <3>2. StoreHeader(h.out, m) = Append(h.out, m)
      BY <1>1 DEF StoreHeader
    <3> QED  BY <3>1, <3>2
  <2>g. PICK g : g = WithOut(h, o)
    OBVIOUS
  <2>1. /\ g \in Hub /\ g.in = h.in /\ g.out = o /\ g.n = h.n /\ g.id = h.id
        /\ g.list = h.list /\ (h.up => g.up)
    BY <1>0, <2>g, HubWithOut
  <2>y. PICK y : y = Pair(g, k)
    OBVIOUS
  <2>2. y \in Loop /\ y.h = g /\ y.k = k
    BY <1>0, <2>1, <2>y, PairWith
  <2>3. y.h.up /\ Fits(y.k)
    BY <1>0, <2>1, <2>2
  <2>4. PICK H, K, H2, K2 : Seen(x, y, H, K, H2, K2, s, id)
    BY <1>0, <2>2, <2>3, LoopStep
  <2>5. /\ Good(H, K, user, id) /\ AtSide(H, K, user, H2, K, s)
        /\ H[s] = h /\ H2[s] = g
        /\ Good(H2, K, user, id) => LoopGood(y, s, id)
    BY <1>0, <2>2, <2>4 DEF Seen
  <2>6. /\ H2[s].in = H[s].in /\ H2[s].out = Append(H[s].out, m) /\ H2[s].n = H[s].n
        /\ H2[s].id = H[s].id /\ H2[s].list = H[s].list
    BY <2>1, <2>5, <2>o
  <2>7. Good(H2, K, user, id)
    BY <2>5, <2>6, GoodStored
  <2> QED  BY <2>5, <2>7, <2>g, <2>o, <2>y
<1>2. CASE ~(Len(h.out) < Cap)
  <2>1. StoreHeader(h.out, m) = h.out
    BY <1>2 DEF StoreHeader
  <2>2. WithOut(h, h.out) = h
    BY <1>0 DEF WithOut, Hub
  <2> QED  BY <2>1, <2>2
<1> QED  BY <1>1, <1>2

\* The connections in S get m.
Fills(k, q, S, m) ==
    \A c \in Client : /\ c \in S => Gets(k[c], q[c], m) /\ Len(q[c].out) <= ConCap
                      /\ c \notin S => q[c] = k[c]

\* The first d bytes m are taken.
LEMMA LoopTaken ==
    ASSUME NEW s \in Side, NEW id, NEW h, NEW k, LoopGood(Pair(h, k), s, id),
           NEW d \in 0 .. Len(h.in), d <= h.n, NEW m \in Seq(Item), Len(m) = d,
           \A i \in 1 .. d : m[i] = h.in[i],
           NEW g \in Hub, g.up, Shrunk(h.in, d, g.in), g.out = h.out, g.n = h.n - d, g.id = h.id,
           g.list = h.list, NEW q \in [Client -> Con],
           Fills(k, q, Targets(Pair(h, k), h.id), m)
    PROVE  LoopGood(Pair(g, q), s, id)
<1>x. PICK x, y : x = Pair(h, k) /\ y = Pair(g, q)
  OBVIOUS
<1>0. /\ k \in [Client -> Con] /\ h.up /\ Fits(k) /\ LoopGood(x, s, id) /\ x.h = h /\ x.k = k
      /\ y \in Loop /\ y.h = g /\ y.k = q /\ h.in \in Seq(Item)
  <2>1. LoopGood(x, s, id) /\ x.h = h /\ x.k = k /\ y \in Loop /\ y.h = g /\ y.k = q
    BY <1>x, PairWith
  <2> QED  BY <2>1, LoopFacts
<1>1. \A c \in Client : /\ c \in Targets(x, h.id) => Gets(k[c], q[c], m) /\ Len(q[c].out) <= ConCap
                        /\ c \notin Targets(x, h.id) => q[c] = k[c]
  BY <1>x DEF Fills
<1>2. \A c \in Client : q[c].st = k[c].st
  BY <1>1 DEF Gets
<1>3. Fits(y.k)
  BY <1>0, <1>1 DEF Fits
<1>4. y.h.up
  BY <1>0
<1>5. PICK H, K, H2, K2 : Seen(x, y, H, K, H2, K2, s, id)
  BY <1>0, <1>3, <1>4, LoopStep
<1>6. /\ Good(H, K, user, id) /\ AtSide(H, K, user, H2, K2, s) /\ Apart(id)
      /\ H[s] = h /\ K[s] = k /\ H2[s] = g /\ K2[s] = q
      /\ Good(H2, K2, user, id) => LoopGood(y, s, id)
  BY <1>0, <1>5 DEF Seen
<1>7. \A c \in Client : Target(H, K, s, c) <=> c \in Targets(x, h.id)
  BY <1>0, <1>6 DEF Target, Targets, Serves, Served, Listed
<1>8. Takes(H, H2, s, d)
  BY <1>6 DEF Takes
<1>9. TakesBytes(H, K, H2, K2, s, d, m)
  <2>1. \A c \in Client : IF Target(H, K, s, c) THEN Gets(K[s][c], K2[s][c], m) ELSE K2[s][c] = K[s][c]
    BY <1>1, <1>6, <1>7
  <2>2. /\ d <= H[s].n /\ H2[s].n = H[s].n - d /\ H2[s].id = H[s].id /\ H2[s].list = H[s].list
        /\ Len(m) = d /\ \A i \in 1 .. d : m[i] = H[s].in[i]
    BY <1>6
  <2> QED  BY <1>8, <2>1, <2>2 DEF TakesBytes
<1>10. d \in Nat
  BY NotEmpty, <1>0
<1> QED  BY <1>6, <1>9, <1>10, <1>x, GoodTaken

\* x without b bytes, and with a connection that got them.
WithoutBytes(h, b) == [h EXCEPT !.in = SubSeq(@, b + 1, Len(@)), !.n = @ - b]
TakenBytes(x, b) == [x EXCEPT !.h.in = SubSeq(@, b + 1, Len(@)), !.h.n = @ - b]
Filled(k, c, m) == [k EXCEPT ![c].out = @ \o m]
Skipped(g, m) == IF g.n = 0 THEN StoreHeader(g.out, m) ELSE g.out
Given(y, c, m) == [y EXCEPT !.k[c].out = @ \o m]
Answered(y, m) == [y EXCEPT !.h.out = IF y.h.n = 0 THEN StoreHeader(@, m) ELSE @]

LEMMA TakenBytesPair ==
    ASSUME NEW x, NEW h, NEW k, NEW b, x = Pair(h, k)
    PROVE  TakenBytes(x, b) = Pair(WithoutBytes(h, b), k)
<1>1. TakenBytes(x, b) = [x EXCEPT !.h = WithoutBytes(x.h, b)]
  BY DEF TakenBytes, WithoutBytes, Pair
<1>2. x.h = h
  BY PairWith
<1>g. PICK g : g = WithoutBytes(h, b)
  OBVIOUS
<1>3. [x EXCEPT !.h = g] = Pair(g, k)
  BY DEF Pair
<1> QED  BY <1>1, <1>2, <1>3, <1>g

LEMMA FilledPair ==
    ASSUME NEW g, NEW k, NEW c, NEW m, NEW y, y = Pair(g, k)
    PROVE  Given(y, c, m) = Pair(g, Filled(k, c, m))
<1>0. y.h = g /\ y.k = k
  BY PairWith
<1>q. PICK q : q = Filled(k, c, m)
  OBVIOUS
<1>1. Given(y, c, m) = [y EXCEPT !.k = q]
  BY <1>0, <1>q DEF Given, Filled
<1>2. [y EXCEPT !.k = q] = Pair(g, q)
  BY DEF Pair
<1> QED  BY <1>1, <1>2, <1>q

LEMMA SkippedPair ==
    ASSUME NEW g, NEW k, NEW m, NEW y, y = Pair(g, k)
    PROVE  Answered(y, m) = Pair(WithOut(g, Skipped(g, m)), k)
<1>0. y.h = g /\ y.k = k
  BY PairWith
<1>f. PICK f, o : o = Skipped(g, m) /\ f = WithOut(g, o)
  OBVIOUS
<1>1. (IF g.n = 0 THEN StoreHeader(g.out, m) ELSE g.out) = o
  BY <1>f DEF Skipped
<1>2. Answered(y, m) = [y EXCEPT !.h.out = o]
  BY <1>0, <1>1 DEF Answered
<1>3. [y EXCEPT !.h.out = o] = [y EXCEPT !.h = f]
  BY <1>0, <1>f DEF WithOut
<1>4. [y EXCEPT !.h = f] = Pair(f, k)
  BY DEF Pair
<1> QED  BY <1>2, <1>3, <1>4, <1>f

\* How many bytes are taken.
Avail(h) == IF Len(h.in) < h.n THEN Len(h.in) ELSE h.n
Room(h, k, to) == IF to = <<>> THEN Avail(h) ELSE ConCap - Len(k[to[1]].out)
Taken(h, k, to) == IF Room(h, k, to) < Avail(h) THEN Room(h, k, to) ELSE Avail(h)

TakeDataTo(x, to, b) ==
    LET y == TakenBytes(x, b)
    IN  CASE b = 0 -> x
          [] b # 0 /\ to # <<>> -> [y EXCEPT !.k[to[1]].out = @ \o SubSeq(x.h.in, 1, b)]
          [] OTHER -> [y EXCEPT !.h.out = IF y.h.n = 0 THEN StoreHeader(@, Hdr(x.h.id, x.h.in[1].c, Dropped))
                                          ELSE @]

LEMMA DataCases ==
    ASSUME NEW x, NEW h, NEW k, x = Pair(h, k), NEW to, to = Found(h.list, Targets(x, h.id)),
           NEW b, b = Taken(h, k, to), NEW g, g = WithoutBytes(h, b)
    PROVE  /\ b = 0 => TakeData(x) = x
           /\ b # 0 /\ to # <<>> => TakeData(x) = Pair(g, Filled(k, to[1], SubSeq(h.in, 1, b)))
           /\ b # 0 /\ to = <<>> =>
                 TakeData(x) = Pair(WithOut(g, Skipped(g, Hdr(h.id, h.in[1].c, Dropped))), k)
<1>0. x.h = h /\ x.k = k
  BY PairWith
<1>y. PICK y : y = TakenBytes(x, b) /\ y = Pair(g, k)
  BY TakenBytesPair
<1>m. PICK m, e : m = SubSeq(h.in, 1, b) /\ e = Hdr(h.id, h.in[1].c, Dropped)
  OBVIOUS
<1>a. PICK u, v : u = Given(y, to[1], m) /\ v = Answered(y, e)
  OBVIOUS
<1>1. TakeData(x) = TakeDataTo(x, Found(x.h.list, Targets(x, x.h.id)),
                               Taken(x.h, x.k, Found(x.h.list, Targets(x, x.h.id))))
  BY Zenon DEF TakeData, TakeDataTo, Taken, Room, Avail, TakenBytes
<1>2. TakeData(x) = TakeDataTo(x, to, b)
  BY <1>0, <1>1
<1>3. TakeDataTo(x, to, b) = (CASE b = 0 -> x [] b # 0 /\ to # <<>> -> u [] OTHER -> v)
  BY <1>0, <1>a, <1>m, <1>y, Zenon DEF TakeDataTo, Given, Answered
<1>4. u = Pair(g, Filled(k, to[1], m)) /\ v = Pair(WithOut(g, Skipped(g, e)), k)
  <2>1. u = Pair(g, Filled(k, to[1], m))
    BY <1>a, <1>y, FilledPair
  <2>2. v = Pair(WithOut(g, Skipped(g, e)), k)
    BY <1>a, <1>y, SkippedPair
  <2> QED  BY <2>1, <2>2
<1>c. PICK w : w = (CASE b = 0 -> x [] b # 0 /\ to # <<>> -> u [] OTHER -> v)
  OBVIOUS
<1>5. /\ b = 0 => w = x
      /\ b # 0 /\ to # <<>> => w = u
      /\ b # 0 /\ to = <<>> => w = v
  <2>1. b = 0 => w = x
    BY <1>c
  <2>2. b # 0 /\ to # <<>> => w = u
    BY <1>c
  <2>3. b # 0 /\ to = <<>> => w = v
    BY <1>c
  <2> QED  BY <2>1, <2>2, <2>3
<1> QED  BY <1>2, <1>3, <1>4, <1>5, <1>c, <1>m

\* The record of a ring without its first b items.
LEMMA HubWithoutBytes ==
    ASSUME NEW h \in Hub, NEW b \in 0 .. Len(h.in), b <= h.n, NEW g, g = WithoutBytes(h, b)
    PROVE  /\ g \in Hub /\ Shrunk(h.in, b, g.in) /\ g.out = h.out /\ g.n = h.n - b /\ g.id = h.id
           /\ g.list = h.list /\ (h.up => g.up)
<1>1. h.in \in Seq(Item) /\ h.n \in Nat /\ b \in Nat
  <2>1. h.in \in Seq(Item) /\ h.n \in Nat
    BY DEF Hub
  <2> QED  BY <2>1, NotEmpty
<1>a. PICK a : a = SubSeq(h.in, b + 1, Len(h.in))
  OBVIOUS
<1>2. Shrunk(h.in, b, a) /\ a \in Seq(Item)
  <2>1. Shrunk(h.in, b, a)
    BY <1>1, <1>a, SubSeqShrunk
  <2> QED  BY <2>1 DEF Shrunk
<1>n. PICK n \in Nat : n = h.n - b
  BY <1>1
<1>3. g = [h EXCEPT !.in = a, !.n = n]
  BY <1>a, <1>n DEF WithoutBytes
<1>4. /\ g \in Hub /\ g.in = a /\ g.out = h.out /\ g.n = n /\ g.id = h.id
      /\ g.list = h.list /\ (h.up => g.up)
  BY <1>2, <1>3 DEF Hub
<1> QED  BY <1>2, <1>4, <1>n

LEMMA ConFilled ==
    ASSUME NEW k \in [Client -> Con], NEW c \in Client, NEW m \in Seq(Item), NEW q, q = Filled(k, c, m)
    PROVE  /\ q \in [Client -> Con] /\ Gets(k[c], q[c], m) /\ Len(q[c].out) = Len(k[c].out) + Len(m)
           /\ \A d \in Client : d # c => q[d] = k[d]
<1>0. k[c] \in Con /\ k[c].out \in Seq(Item)
  BY DEF Con
<1>o. PICK o \in Seq(Item) : o = k[c].out \o m
  BY <1>0, ConcatFacts
<1>1. Grown(k[c].out, m, o)
  BY <1>0, <1>o, ConcatGrown
<1>e. PICK e : e = [k[c] EXCEPT !.out = o]
  OBVIOUS
<1>2. /\ e \in Con /\ e.out = o /\ e.st = k[c].st /\ e.id = k[c].id /\ e.newSent = k[c].newSent
      /\ e.in = k[c].in
  BY <1>0, <1>e DEF Con
<1>3. q = [k EXCEPT ![c] = e]
  BY <1>e, <1>o DEF Filled
<1>4. q \in [Client -> Con] /\ q[c] = e /\ \A d \in Client : d # c => q[d] = k[d]
  BY <1>2, <1>3
<1>5. Len(o) = Len(k[c].out) + Len(m)
  BY <1>1 DEF Grown
<1> QED  BY <1>1, <1>2, <1>4, <1>5 DEF Gets

\* What is served is connected, with an id of its own.
LEMMA LoopTargets ==
    ASSUME NEW s \in Side, NEW id, NEW x, LoopGood(x, s, id), NEW i, NEW c \in Targets(x, i),
           NEW d \in Targets(x, i)
    PROVE  c = d /\ c \in Client
<1>1. x \in Loop /\ x.h.up /\ Fits(x.k) /\ x.h.list \in Seq(Client)
  BY LoopFacts
<1>2. PICK H, K, H2, K2 : Seen(x, x, H, K, H2, K2, s, id)
  BY <1>1, LoopStep
<1>3. Good(H, K, user, id) /\ H[s] = x.h /\ K[s] = x.k /\ Apart(id)
  BY <1>2 DEF Seen
<1>4. \A e \in Targets(x, i) : e \in Range(x.h.list) /\ x.k[e].newSent /\ x.k[e].id = i
  BY DEF Targets, Served
<1>5. \A e \in Targets(x, i) : e \in Client /\ Serves(H, K, s, e)
  <2>1. Range(x.h.list) \subseteq Client
    BY <1>1, RangeFacts
  <2> QED  BY <1>3, <1>4, <2>1 DEF Serves, Listed
<1>6. \A e \in Targets(x, i) : id[e] = i /\ id[e] # 0
  BY <1>3, <1>4, <1>5, ServedFacts
<1> QED  BY <1>3, <1>5, <1>6 DEF Apart

LEMMA FirstItems ==
    ASSUME NEW a \in Seq(Item), NEW b \in 0 .. Len(a)
    PROVE  \E m \in Seq(Item) : m = SubSeq(a, 1, b) /\ Len(m) = b /\ \A i \in 1 .. b : m[i] = a[i]
<1>1. Len(a) \in Nat /\ \A i \in 1 .. Len(a) : a[i] \in Item
  OBVIOUS
<1>2. 1 \in Int /\ b \in Int /\ \A i \in 1 .. b : a[i] \in Item
  BY <1>1
<1>m. PICK m : m = SubSeq(a, 1, b)
  OBVIOUS
<1>3. /\ m \in Seq(Item) /\ Len(m) = (IF 1 <= b THEN b - 1 + 1 ELSE 0)
      /\ \A i \in 1 .. b - 1 + 1 : m[i] = a[1 + i - 1]
  BY <1>2, <1>m, SubSeqProperties
<1>4. Len(m) = b
  BY <1>1, <1>3
<1>5. \A i \in 1 .. b : i \in 1 .. b - 1 + 1 /\ 1 + i - 1 = i
  BY <1>1
<1>6. \A i \in 1 .. b : m[i] = a[i]
  BY <1>3, <1>5
<1> QED  BY <1>3, <1>4, <1>6, <1>m

LEMMA LoopData ==
    ASSUME NEW s \in Side, NEW id, NEW x, LoopGood(x, s, id), x.h.n > 0
    PROVE  LoopGood(TakeData(x), s, id)
<1>h. PICK h \in Hub, k \in [Client -> Con] : h = x.h /\ k = x.k /\ x = Pair(h, k)
  BY LoopFacts DEF Pair
<1>0. /\ h.up /\ h.in \in Seq(Item) /\ h.out \in Seq(Item) /\ h.n \in Nat /\ h.id \in Int
      /\ h.list \in Seq(Client) /\ Fits(k) /\ ConCap \in Nat /\ Len(h.in) \in Nat
      /\ \A c \in Client : k[c].out \in Seq(Item) /\ Len(k[c].out) \in Nat
  BY <1>h, LoopFacts, NotEmpty
<1>T. PICK T : T = Targets(x, h.id)
  OBVIOUS
<1>to. PICK to \in Seq(Client) : to = Found(h.list, T)
  BY <1>0, FoundFacts
<1>1. to # <<>> => to[1] \in Client /\ to[1] \in T
  <2>1. ASSUME to # <<>> PROVE 1 \in 1 .. Len(to)
    <3>1. Len(to) \in Nat /\ Len(to) # 0
      BY <2>1, EmptySeq
    <3> QED  BY <3>1
  <2>2. Range(to) \subseteq Range(h.list) \intersect T
    BY <1>0, <1>to, FoundFacts
  <2> QED  BY <2>1, <2>2, RangeFacts
<1>2. to = <<>> => \A c \in Client : c \notin T
  <2>1. to = <<>> => \A c \in Range(h.list) : c \notin T
    <3>1. h.list \in Seq(Client)
      BY <1>0
    <3>2. Found(h.list, T) = <<>> => \A c \in Range(h.list) : c \notin T
      BY <3>1, FoundFacts
    <3> QED  BY <1>to, <3>2
  <2>2. \A c \in T : c \in Range(h.list)
    BY <1>T, <1>h DEF Targets, Served
  <2> QED  BY <2>1, <2>2
<1>3. Avail(h) \in Nat /\ Avail(h) <= Len(h.in) /\ Avail(h) <= h.n
  BY <1>0 DEF Avail
<1>4. Room(h, k, to) \in Nat /\ (to # <<>> => Room(h, k, to) = ConCap - Len(k[to[1]].out))
  <2>1. CASE to = <<>>
    BY <1>3, <2>1 DEF Room
  <2>2. CASE to # <<>>
    <3>1. Len(k[to[1]].out) <= ConCap /\ Len(k[to[1]].out) \in Nat
      BY <1>0, <1>1, <2>2 DEF Fits
    <3> QED  BY <1>0, <2>2, <3>1 DEF Room
  <2> QED  BY <2>1, <2>2
<1>b. PICK b \in Nat : b = Taken(h, k, to) /\ b <= Len(h.in) /\ b <= h.n /\ b <= Room(h, k, to)
  BY <1>0, <1>3, <1>4 DEF Taken
<1>g. PICK g : g = WithoutBytes(h, b)
  OBVIOUS
<1>5. b \in 0 .. Len(h.in)
  BY <1>0, <1>b
<1>6. /\ g \in Hub /\ Shrunk(h.in, b, g.in) /\ g.out = h.out /\ g.n = h.n - b /\ g.id = h.id
      /\ g.list = h.list /\ g.up
  BY <1>0, <1>5, <1>b, <1>g, HubWithoutBytes
<1>e. PICK e : e = Hdr(h.id, h.in[1].c, Dropped)
  OBVIOUS
<1>m. PICK m \in Seq(Item) : m = SubSeq(h.in, 1, b) /\ Len(m) = b /\ \A i \in 1 .. b : m[i] = h.in[i]
  BY <1>0, <1>5, FirstItems
<1>7. /\ b = 0 => TakeData(x) = x
      /\ b # 0 /\ to # <<>> => TakeData(x) = Pair(g, Filled(k, to[1], m))
      /\ b # 0 /\ to = <<>> => TakeData(x) = Pair(WithOut(g, Skipped(g, e)), k)
  <2>1. to = Found(h.list, Targets(x, h.id)) /\ b = Taken(h, k, to) /\ x = Pair(h, k)
    BY <1>T, <1>b, <1>h, <1>to
  <2>2. /\ b = 0 => TakeData(x) = x
        /\ b # 0 /\ to # <<>> => TakeData(x) = Pair(g, Filled(k, to[1], SubSeq(h.in, 1, b)))
        /\ b # 0 /\ to = <<>> =>
              TakeData(x) = Pair(WithOut(g, Skipped(g, Hdr(h.id, h.in[1].c, Dropped))), k)
    BY <1>g, <2>1, DataCases
  <2> QED  BY <1>e, <1>m, <2>2
<1>8. LoopGood(Pair(h, k), s, id) /\ Targets(Pair(h, k), h.id) = T
  BY <1>T, <1>h
<1>9. CASE b = 0
  BY <1>7, <1>9
<1>10. CASE b # 0 /\ to # <<>>
  <2>t. PICK t \in Client : t = to[1] /\ t \in T
    BY <1>1, <1>10
  <2>q. PICK q : q = Filled(k, t, m)
    OBVIOUS
  <2>1. /\ q \in [Client -> Con] /\ Gets(k[t], q[t], m) /\ Len(q[t].out) = Len(k[t].out) + Len(m)
        /\ \A d \in Client : d # t => q[d] = k[d]
    BY <2>q, ConFilled
  <2>2. \A c \in T : c = t
    BY <1>T, <2>t, LoopTargets
  <2>3. Len(q[t].out) <= ConCap
    BY <1>0, <1>4, <1>10, <1>b, <1>m, <2>1, <2>t
  <2>4. \A c \in Client : /\ c \in T => Gets(k[c], q[c], m) /\ Len(q[c].out) <= ConCap
                          /\ c \notin T => q[c] = k[c]
    BY <2>1, <2>2, <2>3, <2>t
  <2>5. q \in [Client -> Con] /\ Fills(k, q, Targets(Pair(h, k), h.id), m)
    BY <1>8, <2>1, <2>4 DEF Fills
  <2>6. LoopGood(Pair(g, q), s, id)
    BY <1>5, <1>6, <1>8, <1>b, <1>m, <2>5, LoopTaken
  <2> QED  BY <1>7, <1>10, <2>6, <2>q, <2>t
<1>11. CASE b # 0 /\ to = <<>>
  <2>1. Fills(k, k, Targets(Pair(h, k), h.id), m)
    BY <1>2, <1>8, <1>11 DEF Fills
  <2>2. LoopGood(Pair(g, k), s, id)
    BY <1>5, <1>6, <1>8, <1>b, <1>m, <2>1, LoopTaken
  <2>3. CASE g.n = 0
    <3>1. h.in[1].c \in Client \union {"nobody"}
      <4>1. h.in[1] \in Item
        <5>1. 1 \in 1 .. Len(h.in)
          BY <1>0, <1>11, <1>b
        <5> QED  BY <1>0, <5>1
      <4> QED  BY <4>1, ItemFacts
    <3>2. e \in Item /\ e.t = "hdr" /\ e.len = Dropped
      BY <1>0, <1>e, <3>1, HdrItem DEF Dropped
    <3>3. e.len <= 0 /\ e.len # NewConnection
      BY <3>2 DEF Dropped, NewConnection
    <3>4. Skipped(g, e) = StoreHeader(g.out, e)
      BY <2>3 DEF Skipped
    <3> QED  BY <1>7, <1>11, <2>2, <3>2, <3>3, <3>4, LoopStored
  <2>4. CASE g.n # 0
    <3>1. Skipped(g, e) = g.out
      BY <2>4 DEF Skipped
    <3>2. WithOut(g, g.out) = g
      BY <1>6 DEF WithOut, Hub
    <3> QED  BY <1>7, <1>11, <2>2, <3>1, <3>2
  <2> QED  BY <2>3, <2>4
<1> QED  BY <1>9, <1>10, <1>11

LEMMA LoopDistributed ==
    ASSUME NEW s \in Side, NEW id, NEW x, LoopGood(x, s, id)
    PROVE  LoopGood(Distributed(x, s), s, id)
<1>y. PICK y : y = IF HeaderDue(x.h) THEN TakeHeader(x, s) ELSE x
  OBVIOUS
<1>1. LoopGood(y, s, id)
  BY <1>y, LoopHeader
<1>2. Distributed(x, s) = IF y.h.n > 0 THEN TakeData(y) ELSE y
  BY <1>y DEF Distributed
<1> QED  BY <1>1, <1>2, LoopData

\* What holds between the steps, for the ids id.
Sound(id) ==
    /\ env \in Environments /\ \A s \in Side : Fits(con[s])
    /\ Numbered(id, lastId) /\ Good(hub, con, user, id)

LEMMA SoundFacts ==
    ASSUME NEW id, Sound(id)
    PROVE  /\ Typed(hub, con, user) /\ Apart(id) /\ {Cap, ConCap, MaxSend} \subseteq Nat \ {0}
           /\ hub \in [Side -> Hub] /\ con \in [Side -> [Client -> Con]]
           /\ user \in [Side -> [Client -> User]] /\ id \in [Client -> Int]
<1>1. Typed(hub, con, user)
  BY DEF Sound, Good
<1>2. Apart(id)
  BY DEF Sound, Numbered
<1>3. {Cap, ConCap, MaxSend} \subseteq Nat \ {0}
  BY SwitchboxAssumption DEF Sound, Cap, ConCap, MaxSend
<1>4. id \in [Client -> Int]
  BY DEF Sound, Numbered
<1> QED  BY <1>1, <1>2, <1>3, <1>4 DEF Typed

Start(s) == [h |-> [hub[s] EXCEPT !.ix = IF @ < MaxIx THEN @ + 1 ELSE @], k |-> con[s]]

LEMMA LoopStart ==
    ASSUME NEW s \in Side, NEW id, Sound(id), hub[s].up
    PROVE  LoopGood(Start(s), s, id)
<1>0. /\ Typed(hub, con, user) /\ Apart(id) /\ {Cap, ConCap} \subseteq Nat
      /\ hub \in [Side -> Hub] /\ con \in [Side -> [Client -> Con]] /\ Good(hub, con, user, id)
      /\ Fits(con[s])
  BY SoundFacts DEF Sound
<1>h. PICK h, k : h = hub[s] /\ k = con[s]
  OBVIOUS
<1>i. PICK i \in Nat : i = IF h.ix < MaxIx THEN h.ix + 1 ELSE h.ix
  <2>1. h.ix \in Nat /\ MaxIx \in Nat
    BY <1>0, <1>h, SwitchboxAssumption DEF Hub
  <2> QED  BY <2>1
<1>g. PICK g : g = [h EXCEPT !.ix = i]
  OBVIOUS
<1>1. /\ g \in Hub /\ g.in = h.in /\ g.out = h.out /\ g.n = h.n /\ g.id = h.id /\ g.list = h.list
      /\ g.up
  BY <1>0, <1>g, <1>h DEF Hub
<1>x. PICK x : x = Pair(g, k) /\ x = Start(s)
  <2>1. Start(s).h = g
    <3>1. Start(s).h = [hub[s] EXCEPT !.ix = IF hub[s].ix < MaxIx THEN hub[s].ix + 1 ELSE hub[s].ix]
      BY DEF Start
    <3> QED  BY <1>g, <1>h, <1>i, <3>1
  <2>2. Start(s) = Pair(Start(s).h, k)
    BY <1>h DEF Start, Pair
  <2> QED  BY <2>1, <2>2
<1>2. x \in Loop /\ x.h = g /\ x.k = k
  <2>1. g \in Hub /\ k \in [Client -> Con] /\ x = Pair(g, k)
    BY <1>0, <1>1, <1>h, <1>x
  <2> QED  BY <2>1, PairWith
<1>H. PICK H2 : H2 = [hub EXCEPT ![s] = g]
  OBVIOUS
<1>3. H2 \in [Side -> Hub] /\ H2[s] = g /\ H2[Other(s)] = hub[Other(s)]
  BY <1>0, <1>1, <1>H, OtherFacts
<1>4. AtSide(hub, con, user, H2, con, s)
  BY <1>0, <1>1, <1>3 DEF AtSide, Typed
<1>5. Good(H2, con, user, id)
  BY <1>0, <1>1, <1>3, <1>4, <1>h, GoodIdle
<1>6. [con EXCEPT ![s] = x.k] = con
  BY <1>0, <1>2, <1>h
<1>7. Good([hub EXCEPT ![s] = x.h], [con EXCEPT ![s] = x.k], user, id)
  BY <1>2, <1>5, <1>6, <1>H
<1>9. x.h.up /\ Fits(x.k)
  BY <1>0, <1>1, <1>2, <1>h
<1> QED  BY <1>0, <1>2, <1>7, <1>9, <1>x DEF LoopGood

LEMMA LoopPass ==
    ASSUME NEW s \in Side, NEW id, Sound(id), hub[s].up
    PROVE  LoopGood(Pass(s), s, id)
<1>x. PICK x : x = Start(s)
  OBVIOUS
<1>1. LoopGood(x, s, id)
  BY <1>x, LoopStart
<1>y. PICK y : y = IF s = "box" THEN Announced(x) ELSE x
  OBVIOUS
<1>2. LoopGood(y, s, id)
  BY <1>1, <1>y, LoopAnnounced
<1>z. PICK z : z = Collected(y, s)
  OBVIOUS
<1>3. LoopGood(z, s, id)
  BY <1>2, <1>z, LoopCollected
<1>4. Pass(s) = IF z.h.hung THEN z ELSE Distributed(z, s)
  BY <1>x, <1>y, <1>z DEF Pass, Start
<1> QED  BY <1>3, <1>4, LoopDistributed

----------------------------------------------------------------------------
(* The actions.                                                            *)

\* What is left to show of an action.
LEMMA SoundNext ==
    ASSUME NEW id, env \in Environments, env' = env,
           \A s \in Side, c \in Client : Len(con'[s][c].out) <= ConCap,
           Numbered(id, lastId'), Good(hub', con', user', id)
    PROVE  Sound(id)'
<1>1. env' \in Environments /\ ConCap' = ConCap
  BY DEF ConCap
<1>2. \A s \in Side : Fits(con[s])'
  BY <1>1 DEF Fits
<1> QED  BY <1>1, <1>2 DEF Sound

LEMMA RunKeeps ==
    ASSUME NEW s \in Side, NEW id, Sound(id), Run(s)
    PROVE  Sound(id)'
<1>x. PICK x : x = Pass(s)
  OBVIOUS
<1>0. /\ hub[s].up /\ hub' = [hub EXCEPT ![s] = x.h] /\ con' = [con EXCEPT ![s] = x.k]
      /\ user' = user /\ lastId' = lastId /\ env' = env
  BY <1>x DEF Run
<1>1. LoopGood(x, s, id)
  BY <1>0, <1>x, LoopPass
<1>2. Good(hub', con', user', id) /\ Fits(x.k)
  BY <1>0, <1>1 DEF LoopGood
<1>3. /\ con \in [Side -> [Client -> Con]] /\ \A t \in Side : Fits(con[t])
      /\ Numbered(id, lastId) /\ env \in Environments
  BY SoundFacts DEF Sound
<1>4. con'[s] = x.k /\ \A t \in Side : t # s => con'[t] = con[t]
  BY <1>0, <1>3
<1>5. \A t \in Side, c \in Client : Len(con'[t][c].out) <= ConCap
  BY <1>2, <1>3, <1>4 DEF Fits
<1>7. Numbered(id, lastId')
  BY <1>0, <1>3
<1> QED  BY <1>0, <1>2, <1>3, <1>5, <1>7, SoundNext

LEMMA SendKeepAliveKeeps ==
    ASSUME NEW s \in Side, NEW id, Sound(id), SendKeepAlive(s)
    PROVE  Sound(id)'
<1>m. PICK m \in Item : m = Hdr(0, "nobody", KeepAlive) /\ m.t = "hdr" /\ m.len = KeepAlive
  BY HdrItem DEF KeepAlive
<1>0. /\ hub[s].up /\ hub[s].out = <<>> /\ hub' = [hub EXCEPT ![s].out = <<m>>]
      /\ con' = con /\ user' = user /\ lastId' = lastId /\ env' = env
  BY <1>m DEF SendKeepAlive
<1>1. /\ Typed(hub, con, user) /\ hub \in [Side -> Hub] /\ \A t \in Side : Fits(con[t])
      /\ Numbered(id, lastId) /\ Good(hub, con, user, id) /\ env \in Environments
  BY SoundFacts DEF Sound
<1>o. PICK o \in Seq(Item) : o = <<m>> /\ o = Append(hub[s].out, m)
  <2>1. <<m>> \in Seq(Item) /\ Append(<<>>, m) = <<m>>
    OBVIOUS
  <2> QED  BY <1>0, <2>1
<1>g. PICK g : g = WithOut(hub[s], o)
  OBVIOUS
<1>2. /\ g \in Hub /\ g.in = hub[s].in /\ g.out = o /\ g.n = hub[s].n /\ g.id = hub[s].id
      /\ g.list = hub[s].list /\ g.up
  BY <1>0, <1>1, <1>g, HubWithOut
<1>3. hub' = [hub EXCEPT ![s] = g]
  BY <1>0, <1>g, <1>o DEF WithOut
<1>4. hub' \in [Side -> Hub] /\ hub'[s] = g /\ hub'[Other(s)] = hub[Other(s)]
  BY <1>1, <1>2, <1>3, OtherFacts
<1>5. AtSide(hub, con, user, hub', con, s)
  BY <1>0, <1>1, <1>2, <1>4 DEF AtSide, Typed
<1>6. m.len <= 0 /\ m.len # NewConnection
  BY <1>m DEF KeepAlive, NewConnection
<1>7. /\ hub'[s].in = hub[s].in /\ hub'[s].out = Append(hub[s].out, m) /\ hub'[s].n = hub[s].n
      /\ hub'[s].id = hub[s].id /\ hub'[s].list = hub[s].list
  BY <1>2, <1>4, <1>o
<1>8. Good(hub', con, user, id)
  BY <1>1, <1>5, <1>6, <1>7, <1>m, GoodStored
<1>9. Good(hub', con', user', id) /\ Numbered(id, lastId')
  BY <1>0, <1>1, <1>8
<1>10. \A t \in Side, c \in Client : Len(con'[t][c].out) <= ConCap
  BY <1>0, <1>1 DEF Fits
<1> QED  BY <1>0, <1>1, <1>9, <1>10, SoundNext

\* The lines and the states of the connections stay as they are.
SameRoute(H, K, U, H2, K2, U2) ==
    /\ Typed(H2, K2, U2)
    /\ \A s \in Side :
          /\ Line(H2, s) = Line(H, s) /\ H2[s].n = H[s].n /\ H2[s].id = H[s].id
          /\ H2[s].up = H[s].up /\ H2[s].list = H[s].list /\ (~H2[s].up => H2[s] = H[s])
    /\ \A s \in Side, c \in Client :
          /\ K2[s][c].st = K[s][c].st /\ K2[s][c].id = K[s][c].id
          /\ K2[s][c].newSent = K[s][c].newSent
          /\ SentOff(K2, U2, s, c) = SentOff(K, U, s, c)
          /\ Arrived(K2, U2, s, c) = Arrived(K, U, s, c)
          /\ Pristine(K, U, s, c) => Pristine(K2, U2, s, c)
          /\ Ends(K2, U2, s, c)

LEMMA GoodSame ==
    ASSUME NEW H, NEW K, NEW U, NEW H2, NEW K2, NEW U2, NEW id, Good(H, K, U, id),
           SameRoute(H, K, U, H2, K2, U2)
    PROVE  Good(H2, K2, U2, id)
<1>0. /\ Typed(H, K, U) /\ Typed(H2, K2, U2)
      /\ "box" \in Side /\ "srv" \in Side
  BY OtherFacts DEF Good, SameRoute, Side
<1>1. \A s \in Side : /\ Line(H2, s) = Line(H, s) /\ H2[s].n = H[s].n /\ H2[s].id = H[s].id
                      /\ H2[s].up = H[s].up /\ H2[s].list = H[s].list
  BY DEF SameRoute
<1>2. \A s \in Side, c \in Client :
          /\ K2[s][c].st = K[s][c].st /\ K2[s][c].id = K[s][c].id
          /\ K2[s][c].newSent = K[s][c].newSent
          /\ SentOff(K2, U2, s, c) = SentOff(K, U, s, c)
          /\ Arrived(K2, U2, s, c) = Arrived(K, U, s, c)
          /\ Pristine(K, U, s, c) => Pristine(K2, U2, s, c)
          /\ Ends(K2, U2, s, c)
  BY DEF SameRoute
<1>3. \A s \in Side, c \in Client : Listed(H2, s, c) = Listed(H, s, c)
  BY <1>1 DEF Listed
<1>4. \A c \in Client : NewOnWay(H2, c) = NewOnWay(H, c)
  BY <1>0, <1>1 DEF NewOnWay
<1>5. \A s \in Side, c \in Client :
          /\ Expects(H2, K2, s, c) => Expects(H, K, s, c)
          /\ Live(H2, K2, s, c) => Live(H, K, s, c)
  BY <1>1, <1>2, <1>3, <1>4 DEF Expects, Live
<1>6. ASSUME NEW s \in Side, H2[Other(s)].up
      PROVE  Way(H2, K2, U2, id, s)
  <2>1. Other(s) \in Side /\ Way(H, K, U, id, s)
    BY <1>1, <1>6, OtherFacts DEF Good
  <2>2. \A c \in Client : SentOff(K, U, s, c) \in Int
    BY <1>0, TypedFacts
  <2>3. \A c \in Client :
              /\ K["box"][c].st # "none" => K2["box"][c].st # "none"
              /\ SentOff(K, U, s, c) <= SentOff(K2, U2, s, c)
              /\ Expects(H2, K2, Other(s), c) =>
                    /\ Expects(H, K, Other(s), c)
                    /\ Arrived(K2, U2, Other(s), c) = Arrived(K, U, Other(s), c)
              /\ Live(H2, K2, s, c) =>
                    /\ Live(H, K, s, c)
                    /\ SentOff(K2, U2, s, c) = SentOff(K, U, s, c)
    BY <1>0, <1>2, <1>5, <2>1, <2>2
  <2> QED  BY <1>0, <1>1, <2>1, <2>3, WaySame
<1>7. ASSUME NEW c \in Client
      PROVE  Stage(H2, K2, U2, id, c)
  <2>1. Stage(H, K, U, id, c)
    BY DEF Good
  <2> QED  BY <1>0, <1>1, <1>2, <1>3, <1>4, <2>1 DEF Stage
<1>8. \A s \in Side : ~H2[s].up => H2[s] = Closed
  <2>1. \A s \in Side : ~H[s].up => H[s] = Closed
    BY DEF Good
  <2> QED  BY <1>1, <2>1 DEF SameRoute
<1> QED  BY <1>0, <1>2, <1>6, <1>7, <1>8 DEF Good

\* The first n items of one sequence are moved behind another.
LEMMA ItemsMoved ==
    ASSUME NEW a \in Seq(Item), NEW b \in Seq(Item), NEW n \in 1 .. Len(b)
    PROVE  /\ a \o SubSeq(b, 1, n) \in Seq(Item) /\ SubSeq(b, n + 1, Len(b)) \in Seq(Item)
           /\ (a \o SubSeq(b, 1, n)) \o SubSeq(b, n + 1, Len(b)) = a \o b
<1>0. Len(b) \in Nat /\ n \in 0 .. Len(b) /\ \A i \in 1 .. Len(b) : b[i] \in Item
  OBVIOUS
<1>p. PICK p \in Seq(Item) : p = SubSeq(b, 1, n) /\ Len(p) = n /\ \A i \in 1 .. n : p[i] = b[i]
  BY <1>0, FirstItems
<1>q. PICK q \in Seq(Item) : /\ q = SubSeq(b, n + 1, Len(b)) /\ Len(q) = Len(b) - n
                             /\ \A i \in 1 .. Len(q) : q[i] = b[i + n]
  BY <1>0, SubSeqShrunk DEF Shrunk
<1>1. p \o q = b
  <2>1. p \o q \in Seq(Item) /\ Len(p \o q) = Len(b)
    BY <1>0, <1>p, <1>q, ConcatFacts
  <2>2. ASSUME NEW i \in 1 .. Len(b)
        PROVE  (p \o q)[i] = b[i]
    <3>1. CASE i <= n
      BY <1>0, <1>p, <3>1, ConcatFacts
    <3>2. CASE ~(i <= n)
      <4>1. i - n \in 1 .. Len(q) /\ i = Len(p) + (i - n) /\ (i - n) + n = i
        BY <1>0, <1>p, <1>q, <3>2
      <4>2. (p \o q)[Len(p) + (i - n)] = q[i - n]
        BY <4>1, ConcatFacts
      <4> QED  BY <1>q, <4>1, <4>2
    <3> QED  BY <3>1, <3>2
  <2> QED  BY <2>1, <2>2, SeqEqual
<1>2. a \o p \in Seq(Item)
  BY ConcatFacts
<1>3. (a \o p) \o q = a \o (p \o q)
  BY ItemsAssociative
<1> QED  BY <1>1, <1>2, <1>3, <1>p, <1>q

LEMMA TransferKeeps ==
    ASSUME NEW s \in Side, NEW id, Sound(id), Transfer(s)
    PROVE  Sound(id)'
<1>o. PICK o \in Side : o = Other(s) /\ Other(o) = s /\ o # s /\ \A t \in Side : t = s \/ t = o
  BY OtherFacts
<1>1. /\ Typed(hub, con, user) /\ hub \in [Side -> Hub] /\ \A t \in Side : Fits(con[t])
      /\ Numbered(id, lastId) /\ Good(hub, con, user, id) /\ env \in Environments
  BY SoundFacts DEF Sound
<1>n. PICK n \in 1 .. Len(hub[s].out) :
          hub' = [hub EXCEPT ![s].out = SubSeq(@, n + 1, Len(@)),
                             ![o].in = @ \o SubSeq(hub[s].out, 1, n)]
  BY <1>o DEF Transfer
<1>0. /\ hub[s].up /\ hub[o].up /\ con' = con /\ user' = user /\ lastId' = lastId /\ env' = env
  BY <1>o DEF Transfer
<1>a. PICK a, b : a = hub[o].in \o SubSeq(hub[s].out, 1, n) /\ b = SubSeq(hub[s].out, n + 1, Len(hub[s].out))
  OBVIOUS
<1>2. a \in Seq(Item) /\ b \in Seq(Item) /\ a \o b = hub[o].in \o hub[s].out
  <2>1. hub[o].in \in Seq(Item) /\ hub[s].out \in Seq(Item)
    BY <1>1, TypedFacts
  <2> QED  BY <1>a, <2>1, ItemsMoved
<1>g. PICK g, h : g = WithOut(hub[s], b) /\ h = WithIn(hub[o], a)
  OBVIOUS
<1>3. /\ g \in Hub /\ g.in = hub[s].in /\ g.out = b /\ g.n = hub[s].n /\ g.id = hub[s].id
      /\ g.list = hub[s].list /\ g.up
  BY <1>0, <1>1, <1>2, <1>g, HubWithOut
<1>4. /\ h \in Hub /\ h.in = a /\ h.out = hub[o].out /\ h.n = hub[o].n /\ h.id = hub[o].id
      /\ h.list = hub[o].list /\ h.up
  BY <1>0, <1>1, <1>2, <1>g, HubWithIn
<1>5. hub' = [hub EXCEPT ![s] = g, ![o] = h]
  BY <1>a, <1>g, <1>n, <1>o DEF WithOut, WithIn
<1>6. hub' \in [Side -> Hub] /\ hub'[s] = g /\ hub'[o] = h
  BY <1>1, <1>3, <1>4, <1>5, <1>o
<1>7. Line(hub', s) = Line(hub, s) /\ Line(hub', o) = Line(hub, o)
  BY <1>2, <1>3, <1>4, <1>6, <1>o DEF Line
<1>8. \A t \in Side, c \in Client : Ends(con, user, t, c)
  BY <1>1 DEF Good
<1>9. /\ hub'[s].up /\ hub'[o].up /\ hub'[s].n = hub[s].n /\ hub'[o].n = hub[o].n
      /\ hub'[s].id = hub[s].id /\ hub'[o].id = hub[o].id
      /\ hub'[s].list = hub[s].list /\ hub'[o].list = hub[o].list
  BY <1>3, <1>4, <1>6
<1>10. \A t \in Side : hub'[t].up = hub[t].up /\ hub'[t].up
  <2>1. hub'[s].up \in BOOLEAN /\ hub'[o].up \in BOOLEAN /\ hub[s].up \in BOOLEAN /\ hub[o].up \in BOOLEAN
    BY <1>1, <1>6 DEF Hub
  <2>2. hub'[s].up = hub[s].up /\ hub'[o].up = hub[o].up
    BY <1>0, <1>9, <2>1
  <2> QED  BY <1>9, <1>o, <2>2
<1>11. SameRoute(hub, con, user, hub', con, user)
  <2>1. Typed(hub', con, user)
    BY <1>1, <1>6 DEF Typed
  <2>2. \A t \in Side :
          /\ Line(hub', t) = Line(hub, t) /\ hub'[t].n = hub[t].n /\ hub'[t].id = hub[t].id
          /\ hub'[t].up = hub[t].up /\ hub'[t].list = hub[t].list /\ (~hub'[t].up => hub'[t] = hub[t])
    BY <1>7, <1>9, <1>10, <1>o
  <2> QED  BY <1>8, <2>1, <2>2 DEF SameRoute
<1>12. Good(hub', con, user, id)
  BY <1>1, <1>11, GoodSame
<1>13. Good(hub', con', user', id) /\ Numbered(id, lastId')
  BY <1>0, <1>1, <1>12
<1>14. \A t \in Side, c \in Client : Len(con'[t][c].out) <= ConCap
  BY <1>0, <1>1 DEF Fits
<1> QED  BY <1>0, <1>1, <1>13, <1>14, SoundNext

\* What a user does at side s of c leaves the rest of the connections alone.
AtUser(K, U, K2, U2, s, c) ==
    /\ K2 \in [Side -> [Client -> Con]] /\ U2 \in [Side -> [Client -> User]]
    /\ \A t \in Side, d \in Client : t # s \/ d # c => K2[t][d] = K[t][d] /\ U2[t][d] = U[t][d]
    /\ K2[s][c].st = K[s][c].st /\ K2[s][c].id = K[s][c].id /\ K2[s][c].newSent = K[s][c].newSent
    /\ SentOff(K2, U2, s, c) = SentOff(K, U, s, c)
    /\ Arrived(K2, U2, s, c) = Arrived(K, U, s, c)
    /\ Pristine(K, U, s, c) => Pristine(K2, U2, s, c)
    /\ Ends(K2, U2, s, c)

LEMMA GoodAtUser ==
    ASSUME NEW H, NEW K, NEW U, NEW K2, NEW U2, NEW id, Good(H, K, U, id),
           NEW s \in Side, NEW c \in Client, AtUser(K, U, K2, U2, s, c)
    PROVE  Good(H, K2, U2, id)
<1>0. /\ Typed(H, K, U) /\ Typed(H, K2, U2) /\ \A t \in Side, d \in Client : Ends(K, U, t, d)
  BY DEF Good, Typed, AtUser
<1>1. \A t \in Side, d \in Client :
          /\ K2[t][d].st = K[t][d].st /\ K2[t][d].id = K[t][d].id
          /\ K2[t][d].newSent = K[t][d].newSent
          /\ Pristine(K, U, t, d) => Pristine(K2, U2, t, d)
  BY DEF AtUser, Pristine
<1>2. \A t \in Side, d \in Client :
          /\ SentOff(K2, U2, t, d) = SentOff(K, U, t, d)
          /\ Arrived(K2, U2, t, d) = Arrived(K, U, t, d)
  <2>1. ASSUME NEW t \in Side, NEW d \in Client, t # s \/ d # c
        PROVE  SentOff(K2, U2, t, d) = SentOff(K, U, t, d) /\ Arrived(K2, U2, t, d) = Arrived(K, U, t, d)
    BY <2>1 DEF AtUser, SentOff, Arrived
  <2> QED  BY <2>1 DEF AtUser
<1>3. ASSUME NEW t \in Side, NEW d \in Client
      PROVE  Ends(K2, U2, t, d)
  <2>1. CASE t = s /\ d = c
    BY <2>1 DEF AtUser
  <2>2. CASE ~(t = s /\ d = c)
    <3>1. K2[t][d] = K[t][d] /\ U2[t][d] = U[t][d] /\ Ends(K, U, t, d)
      BY <1>0, <2>2 DEF AtUser
    <3>2. /\ SentOff(K2, U2, Other(t), d) = SentOff(K, U, Other(t), d)
          /\ Arrived(K2, U2, t, d) = Arrived(K, U, t, d)
      BY <1>2, OtherFacts
    <3> QED  BY <3>1, <3>2 DEF Ends
  <2> QED  BY <2>1, <2>2
<1>4. SameRoute(H, K, U, H, K2, U2)
  BY <1>0, <1>1, <1>2, <1>3 DEF SameRoute
<1> QED  BY <1>4, GoodSame

\* The records at side s of c get new values, the others stay.
AtOne(F, F2, s, c, v, S) ==
    F \in [Side -> [Client -> S]] /\ v \in S /\ F2 = [F EXCEPT ![s][c] = v]

OneNew(F, F2, s, c, v, S) ==
    /\ F2 \in [Side -> [Client -> S]] /\ F2[s][c] = v
    /\ \A t \in Side, d \in Client : t # s \/ d # c => F2[t][d] = F[t][d]
    /\ \A t \in Side : t # s => F2[t] = F[t]

LEMMA OneChanged ==
    ASSUME NEW F, NEW F2, NEW s \in Side, NEW c \in Client, NEW v, NEW S, AtOne(F, F2, s, c, v, S)
    PROVE  OneNew(F, F2, s, c, v, S)
<1>0. F \in [Side -> [Client -> S]] /\ v \in S /\ F2 = [F EXCEPT ![s][c] = v]
  BY DEF AtOne
<1>f. PICK f \in [Client -> S] : f = [F[s] EXCEPT ![c] = v]
  BY <1>0
<1>1. F2 = [F EXCEPT ![s] = f]
  BY <1>0, <1>f
<1>2. F2 \in [Side -> [Client -> S]] /\ F2[s] = f /\ \A t \in Side : t # s => F2[t] = F[t]
  BY <1>0, <1>1
<1>3. f[c] = v /\ \A d \in Client : d # c => f[d] = F[s][d]
  BY <1>0, <1>f
<1> QED  BY <1>2, <1>3 DEF OneNew

LEMMA ItemAppended ==
    ASSUME NEW a \in Seq(Item), NEW x \in Item
    PROVE  \E q \in Seq(Item) : /\ q = Append(a, x) /\ Len(q) = Len(a) + 1 /\ q[Len(a) + 1] = x
                                /\ \A i \in 1 .. Len(a) : q[i] = a[i]
<1>q. PICK q : q = Append(a, x)
  OBVIOUS
<1>1. q \in Seq(Item) /\ Len(q) = Len(a) + 1
  BY <1>q, AppendProperties
<1>2. q[Len(a) + 1] = x
  BY <1>q
<1>3. \A i \in 1 .. Len(a) : q[i] = a[i]
  BY <1>q
<1> QED  BY <1>1, <1>2, <1>3, <1>q

LEMMA ItemsJoined ==
    ASSUME NEW a \in Seq(Item), NEW b \in Seq(Item)
    PROVE  \E q \in Seq(Item) : q = a \o b /\ Grown(a, b, q)
BY ConcatFacts, ConcatGrown

LEMMA WriteKeeps ==
    ASSUME NEW s \in Side, NEW c \in Client, NEW id, Sound(id), Write(s, c)
    PROVE  Sound(id)'
<1>1. /\ Typed(hub, con, user) /\ con \in [Side -> [Client -> Con]] /\ user \in [Side -> [Client -> User]]
      /\ \A t \in Side : Fits(con[t])
      /\ Numbered(id, lastId) /\ Good(hub, con, user, id) /\ env \in Environments
  BY SoundFacts DEF Sound
<1>k. PICK k \in Con, u \in User : k = con[s][c] /\ u = user[s][c]
  BY <1>1
<1>x. PICK x : x = Byte(c, u.sent + 1)
  OBVIOUS
<1>e. PICK e : e = [k EXCEPT !.in = Append(k.in, x)]
  OBVIOUS
<1>v. PICK v : v = [u EXCEPT !.sent = u.sent + 1]
  OBVIOUS
<1>0. /\ con' = [con EXCEPT ![s][c] = e] /\ user' = [user EXCEPT ![s][c] = v]
      /\ hub' = hub /\ lastId' = lastId /\ env' = env /\ k.st = "run"
  BY <1>e, <1>k, <1>v, <1>x DEF Write
<1>2. x \in Item /\ k.in \in Seq(Item) /\ k.out \in Seq(Item) /\ u.sent \in Nat /\ Len(k.in) \in Nat
  <2>1. k.in \in Seq(Item) /\ k.out \in Seq(Item) /\ u.sent \in Nat
    BY DEF Con, User
  <2>2. x \in Item
    BY <1>x, <2>1 DEF Byte, Item
  <2> QED  BY <2>1, <2>2, NotEmpty
<1>q. PICK q \in Seq(Item) : /\ q = Append(k.in, x) /\ Len(q) = Len(k.in) + 1 /\ q[Len(k.in) + 1] = x
                             /\ \A i \in 1 .. Len(k.in) : q[i] = k.in[i]
  BY <1>2, ItemAppended
<1>3. /\ e \in Con /\ e.in = q /\ e.out = k.out /\ e.st = k.st /\ e.id = k.id
      /\ e.newSent = k.newSent
  BY <1>e, <1>q DEF Con
<1>4. v \in User /\ v.sent = u.sent + 1 /\ v.got = u.got
  <2>1. u.sent + 1 \in Nat
    BY <1>2
  <2> QED  BY <1>v, <2>1 DEF User
<1>5. AtOne(con, con', s, c, e, Con) /\ AtOne(user, user', s, c, v, User)
  BY <1>0, <1>1, <1>3, <1>4 DEF AtOne
<1>6. /\ con' \in [Side -> [Client -> Con]] /\ con'[s][c] = e
      /\ \A t \in Side, d \in Client : t # s \/ d # c => con'[t][d] = con[t][d]
  <2>1. OneNew(con, con', s, c, e, Con)
    BY <1>5, OneChanged
  <2> QED  BY <2>1 DEF OneNew
<1>7. /\ user' \in [Side -> [Client -> User]] /\ user'[s][c] = v
      /\ \A t \in Side, d \in Client : t # s \/ d # c => user'[t][d] = user[t][d]
  <2>1. OneNew(user, user', s, c, v, User)
    BY <1>5, OneChanged
  <2> QED  BY <2>1 DEF OneNew
<1>8. Ends(con, user, s, c)
  BY <1>1 DEF Good
<1>9. SentOff(con', user', s, c) = SentOff(con, user, s, c)
  <2>1. (u.sent + 1) - (Len(k.in) + 1) = u.sent - Len(k.in)
    BY <1>2
  <2>2. Len(con'[s][c].in) = Len(k.in) + 1 /\ user'[s][c].sent = u.sent + 1
    BY <1>3, <1>4, <1>6, <1>7, <1>q
  <2> QED  BY <1>k, <2>1, <2>2 DEF SentOff
<1>10. Arrived(con', user', s, c) = Arrived(con, user, s, c)
  BY <1>3, <1>4, <1>6, <1>7, <1>k DEF Arrived
<1>11. Ends(con', user', s, c)
  <2>1. Len(k.in) <= u.sent /\ \A i \in 1 .. Len(k.in) : k.in[i] = Byte(c, u.sent - Len(k.in) + i)
    BY <1>8, <1>k DEF Ends
  <2>2. Len(q) <= v.sent
    BY <1>2, <1>4, <1>q, <2>1
  <2>3. ASSUME NEW i \in 1 .. Len(q)
        PROVE  q[i] = Byte(c, v.sent - Len(q) + i)
    <3>1. v.sent - Len(q) + i = u.sent - Len(k.in) + i
      BY <1>2, <1>4, <1>q
    <3>2. CASE i \in 1 .. Len(k.in)
      BY <1>q, <2>1, <3>1, <3>2
    <3>3. CASE i \notin 1 .. Len(k.in)
      <4>1. i = Len(k.in) + 1 /\ u.sent - Len(k.in) + i = u.sent + 1
        BY <1>2, <1>q, <3>3
      <4> QED  BY <1>q, <1>x, <3>1, <4>1
    <3> QED  BY <3>2, <3>3
  <2>4. SentOff(con', user', Other(s), c) = SentOff(con, user, Other(s), c)
    BY <1>6, <1>7, OtherFacts DEF SentOff
  <2>5. Arrived(con', user', s, c) <= SentOff(con', user', Other(s), c)
    BY <1>8, <1>10, <2>4 DEF Ends
  <2>6. /\ \A i \in 1 .. Len(v.got) : v.got[i] = Byte(c, i)
        /\ \A i \in 1 .. Len(e.out) : e.out[i] = Byte(c, Len(v.got) + i)
    BY <1>3, <1>4, <1>8, <1>k DEF Ends
  <2> QED  BY <1>3, <1>6, <1>7, <2>2, <2>3, <2>5, <2>6 DEF Ends
<1>12. ~Pristine(con, user, s, c)
  BY <1>0, <1>k DEF Pristine, NoCon
<1>13. AtUser(con, user, con', user', s, c)
  BY <1>3, <1>6, <1>7, <1>9, <1>10, <1>11, <1>12, <1>k DEF AtUser
<1>14. Good(hub', con', user', id)
  BY <1>0, <1>1, <1>13, GoodAtUser
<1>15. \A t \in Side, d \in Client : con'[t][d].st = con[t][d].st /\ con'[t][d].out = con[t][d].out
  BY <1>3, <1>6, <1>k
<1>16. Numbered(id, lastId')
  BY <1>0, <1>1
<1>17. \A t \in Side, d \in Client : Len(con'[t][d].out) <= ConCap
  BY <1>1, <1>15 DEF Fits
<1> QED  BY <1>0, <1>1, <1>14, <1>16, <1>17, SoundNext

LEMMA ReadKeeps ==
    ASSUME NEW s \in Side, NEW c \in Client, NEW id, Sound(id), Read(s, c)
    PROVE  Sound(id)'
<1>1. /\ Typed(hub, con, user) /\ con \in [Side -> [Client -> Con]] /\ user \in [Side -> [Client -> User]]
      /\ (\A t \in Side : Fits(con[t])) /\ ConCap \in Nat
      /\ Numbered(id, lastId) /\ Good(hub, con, user, id) /\ env \in Environments
  BY SoundFacts DEF Sound
<1>k. PICK k \in Con, u \in User : k = con[s][c] /\ u = user[s][c]
  BY <1>1
<1>e. PICK e : e = [k EXCEPT !.out = <<>>]
  OBVIOUS
<1>v. PICK v : v = [u EXCEPT !.got = u.got \o k.out]
  OBVIOUS
<1>0. /\ con' = [con EXCEPT ![s][c] = e] /\ user' = [user EXCEPT ![s][c] = v]
      /\ hub' = hub /\ lastId' = lastId /\ env' = env /\ k.st = "run"
  BY <1>e, <1>k, <1>v DEF Read
<1>2. /\ k.in \in Seq(Item) /\ k.out \in Seq(Item) /\ u.sent \in Nat /\ u.got \in Seq(Item)
      /\ Len(k.out) \in Nat /\ Len(u.got) \in Nat
  <2>1. k.in \in Seq(Item) /\ k.out \in Seq(Item) /\ u.sent \in Nat /\ u.got \in Seq(Item)
    BY DEF Con, User
  <2> QED  BY <2>1, NotEmpty
<1>q. PICK q \in Seq(Item) : q = u.got \o k.out /\ Grown(u.got, k.out, q)
  BY <1>2, ItemsJoined
<1>l. Len(q) = Len(u.got) + Len(k.out)
  BY <1>q DEF Grown
<1>3. /\ e \in Con /\ e.out = <<>> /\ e.in = k.in /\ e.st = k.st /\ e.id = k.id
      /\ e.newSent = k.newSent
  <2>1. \A o \in Seq(Item) : [k EXCEPT !.out = o] \in Con
    BY DEF Con
  <2>2. <<>> \in Seq(Item)
    OBVIOUS
  <2>3. e \in Con
    BY <1>e, <2>1, <2>2
  <2> QED  BY <1>e, <2>3 DEF Con
<1>4. v \in User /\ v.got = q /\ v.sent = u.sent
  BY <1>q, <1>v DEF User
<1>5. AtOne(con, con', s, c, e, Con) /\ AtOne(user, user', s, c, v, User)
  BY <1>0, <1>1, <1>3, <1>4 DEF AtOne
<1>6. /\ con' \in [Side -> [Client -> Con]] /\ con'[s][c] = e
      /\ \A t \in Side, d \in Client : t # s \/ d # c => con'[t][d] = con[t][d]
  <2>1. OneNew(con, con', s, c, e, Con)
    BY <1>5, OneChanged
  <2> QED  BY <2>1 DEF OneNew
<1>7. /\ user' \in [Side -> [Client -> User]] /\ user'[s][c] = v
      /\ \A t \in Side, d \in Client : t # s \/ d # c => user'[t][d] = user[t][d]
  <2>1. OneNew(user, user', s, c, v, User)
    BY <1>5, OneChanged
  <2> QED  BY <2>1 DEF OneNew
<1>8. Ends(con, user, s, c)
  BY <1>1 DEF Good
<1>9. SentOff(con', user', s, c) = SentOff(con, user, s, c)
  BY <1>3, <1>4, <1>6, <1>7, <1>k DEF SentOff
<1>e0. Len(e.out) = 0
  BY <1>3
<1>10. Arrived(con', user', s, c) = Arrived(con, user, s, c)
  <2>1. Len(u.got) + Len(k.out) = Len(q) + 0
    BY <1>2, <1>l
  <2>2. Len(con'[s][c].out) = 0 /\ user'[s][c].got = q
    BY <1>4, <1>6, <1>7, <1>e0
  <2> QED  BY <1>k, <2>1, <2>2 DEF Arrived
<1>11. Ends(con', user', s, c)
  <2>1. /\ \A i \in 1 .. Len(u.got) : u.got[i] = Byte(c, i)
        /\ \A i \in 1 .. Len(k.out) : k.out[i] = Byte(c, Len(u.got) + i)
    BY <1>8, <1>k DEF Ends
  <2>2. ASSUME NEW i \in 1 .. Len(q)
        PROVE  q[i] = Byte(c, i)
    <3>1. CASE i \in 1 .. Len(u.got)
      BY <1>q, <2>1, <3>1 DEF Grown
    <3>2. CASE i \notin 1 .. Len(u.got)
      <4>1. i - Len(u.got) \in 1 .. Len(k.out) /\ i = Len(u.got) + (i - Len(u.got))
        <5>n. PICK n \in Nat, m \in Nat : n = Len(u.got) /\ m = Len(k.out)
          BY <1>2
        <5>1. i \in 1 .. n + m /\ i \notin 1 .. n
          BY <1>l, <3>2, <5>n
        <5>2. i - n \in 1 .. m /\ i = n + (i - n)
          BY <5>1
        <5> QED  BY <5>2, <5>n
      <4>j. PICK j \in 1 .. Len(k.out) : i = Len(u.got) + j
        BY <4>1
      <4> QED  BY <1>q, <2>1, <4>j DEF Grown
    <3> QED  BY <3>1, <3>2
  <2>3. SentOff(con', user', Other(s), c) = SentOff(con, user, Other(s), c)
    BY <1>6, <1>7, OtherFacts DEF SentOff
  <2>4. Arrived(con', user', s, c) <= SentOff(con', user', Other(s), c)
    BY <1>8, <1>10, <2>3 DEF Ends
  <2>5. /\ Len(e.in) <= v.sent
        /\ \A i \in 1 .. Len(e.in) : e.in[i] = Byte(c, v.sent - Len(e.in) + i)
    BY <1>3, <1>4, <1>8, <1>k DEF Ends
  <2>6. \A i \in 1 .. Len(e.out) : e.out[i] = Byte(c, Len(v.got) + i)
    BY <1>e0
  <2> QED  BY <1>4, <1>6, <1>7, <2>2, <2>4, <2>5, <2>6 DEF Ends
<1>12. ~Pristine(con, user, s, c)
  BY <1>0, <1>k DEF Pristine, NoCon
<1>13. AtUser(con, user, con', user', s, c)
  BY <1>3, <1>6, <1>7, <1>9, <1>10, <1>11, <1>12, <1>k DEF AtUser
<1>14. Good(hub', con', user', id)
  BY <1>0, <1>1, <1>13, GoodAtUser
<1>15. \A t \in Side, d \in Client : con'[t][d].st = con[t][d].st
  BY <1>3, <1>6, <1>k
<1>16. Numbered(id, lastId')
  BY <1>0, <1>1
<1>17. \A t \in Side, d \in Client : Len(con'[t][d].out) <= ConCap
  BY <1>1, <1>6, <1>e0 DEF Fits
<1> QED  BY <1>0, <1>1, <1>14, <1>16, <1>17, SoundNext

LEMMA LeaveKeeps ==
    ASSUME NEW c \in Client, NEW id, Sound(id), Leave(c)
    PROVE  Sound(id)'
<1>1. /\ Typed(hub, con, user) /\ con \in [Side -> [Client -> Con]] /\ user \in [Side -> [Client -> User]]
      /\ \A t \in Side : Fits(con[t])
      /\ Numbered(id, lastId) /\ Good(hub, con, user, id) /\ env \in Environments
      /\ "box" \in Side
  BY SoundFacts, OtherFacts DEF Sound, Side
<1>u. PICK u \in User : u = user["box"][c]
  BY <1>1
<1>v. PICK v : v = [u EXCEPT !.left = TRUE]
  OBVIOUS
<1>0. /\ user' = [user EXCEPT !["box"][c] = v]
      /\ con' = con /\ hub' = hub /\ lastId' = lastId /\ env' = env
  BY <1>u, <1>v DEF Leave
<1>2. v \in User /\ v.sent = u.sent /\ v.got = u.got
  BY <1>v DEF User
<1>3. AtOne(user, user', "box", c, v, User)
  BY <1>0, <1>1, <1>2 DEF AtOne
<1>4. /\ user' \in [Side -> [Client -> User]] /\ user'["box"][c] = v
      /\ \A t \in Side, d \in Client : t # "box" \/ d # c => user'[t][d] = user[t][d]
  <2>1. OneNew(user, user', "box", c, v, User)
    BY <1>1, <1>3, OneChanged
  <2> QED  BY <2>1 DEF OneNew
<1>5. \A t \in Side, d \in Client : user'[t][d].sent = user[t][d].sent /\ user'[t][d].got = user[t][d].got
  BY <1>2, <1>4, <1>u
<1>6. \A t \in Side, d \in Client : /\ SentOff(con, user', t, d) = SentOff(con, user, t, d)
                                    /\ Arrived(con, user', t, d) = Arrived(con, user, t, d)
  BY <1>5 DEF SentOff, Arrived
<1>7. Ends(con, user', "box", c)
  <2>1. Ends(con, user, "box", c)
    BY <1>1 DEF Good
  <2>2. /\ user'["box"][c].sent = user["box"][c].sent /\ user'["box"][c].got = user["box"][c].got
        /\ Arrived(con, user', "box", c) = Arrived(con, user, "box", c)
        /\ SentOff(con, user', Other("box"), c) = SentOff(con, user, Other("box"), c)
    BY <1>1, <1>5, <1>6, OtherFacts
  <2> QED  BY <2>1, <2>2 DEF Ends
<1>8. AtUser(con, user, con, user', "box", c)
  BY <1>1, <1>4, <1>5, <1>6, <1>7 DEF AtUser, Pristine
<1>9. Good(hub, con, user', id)
  BY <1>1, <1>8, GoodAtUser
<1>10. Good(hub', con', user', id) /\ Numbered(id, lastId')
  BY <1>0, <1>1, <1>9
<1>11. \A t \in Side, d \in Client : Len(con'[t][d].out) <= ConCap
  BY <1>0, <1>1 DEF Fits
<1> QED  BY <1>0, <1>1, <1>10, <1>11, SoundNext

----------------------------------------------------------------------------
(* A new connection.                                                       *)

\* The search ends at an id that no connection of the box has.
LEMMA NextId ==
    ASSUME NEW id, Sound(id), IdLeft
    PROVE  NewId \in Nat /\ NewId # 0 /\ FreeId(NewId)
<1>0. MaxId \in Nat \ {0} /\ lastId \in Nat
  BY SwitchboxAssumption DEF Sound, Numbered, MaxId
<1> DEFINE S == {i \in 1 .. MaxId : FreeId(IdAfter(i))}
           Fit(i) == FreeId(IdAfter(i)) /\ \A j \in 1 .. i - 1 : ~FreeId(IdAfter(j))
<1>1. PICK k \in S : \A i \in S : k <= i
  <2>1. S # {} /\ S \subseteq Nat
    BY DEF IdLeft
  <2> HIDE DEF S
  <2> QED  BY <2>1, LeastNat
<1>2. k \in 1 .. MaxId /\ Fit(k)
  <2>1. k \in 1 .. MaxId /\ FreeId(IdAfter(k))
    OBVIOUS
  <2>2. ASSUME NEW j \in 1 .. k - 1
        PROVE  ~FreeId(IdAfter(j))
    <3>1. j \in 1 .. MaxId /\ ~(k <= j)
      BY <1>0, <2>1
    <3> QED  BY <1>1, <3>1
  <2> QED  BY <2>1, <2>2
<1>c. PICK i : i = CHOOSE q \in 1 .. MaxId : Fit(q)
  OBVIOUS
<1>3. i \in 1 .. MaxId /\ Fit(i)
  <2> HIDE DEF Fit
  <2> QED  BY <1>2, <1>c
<1>4. NewId = IdAfter(i)
  BY <1>c, Zenon DEF NewId
<1>5. IdAfter(i) \in Nat /\ IdAfter(i) # 0
  <2>1. PICK m \in Nat \ {0}, q \in Nat : m = MaxId /\ q = lastId + i - 1
    BY <1>0, <1>3
  <2>2. q % m \in Nat
    OBVIOUS
  <2>3. IdAfter(i) = (q % m) + 1
    BY <2>1 DEF IdAfter
  <2> QED  BY <2>2, <2>3
<1> QED  BY <1>3, <1>4, <1>5

\* A byte is one of those due or belongs to a header before it.
LEMMA ByteAnnounced ==
    ASSUME NEW l \in Seq(Item), NEW n \in Nat, NEW whole, Framed(l, n, whole),
           NEW j \in 1 .. Len(l), n < j
    PROVE  \E k \in 1 .. j : l[k].t = "hdr" /\ j <= k + Span(l[k])
<1>0. Len(l) \in Nat /\ \A i \in 1 .. Len(l) : Span(l[i]) \in Nat
  BY SpanNat
<1> DEFINE At(i) == \E k \in 1 .. i : l[k].t = "hdr" /\ i <= k + Span(l[k])
           S == {i \in n + 1 .. j : ~At(i)}
<1>1. SUFFICES ASSUME S # {} PROVE FALSE
  <2>1. j \in n + 1 .. j
    OBVIOUS
  <2> QED  BY <2>1
<1>2. PICK i \in S : \A q \in S : i <= q
  <2>1. S \subseteq Nat
    OBVIOUS
  <2> HIDE DEF S
  <2> QED  BY <1>1, <2>1, LeastNat
<1>3. i \in n + 1 .. j /\ i \in 1 .. Len(l) /\ ~At(i)
  BY <1>0
<1>4. l[i].t # "hdr"
  <2>1. l[i].t = "hdr" => At(i)
    <3>1. i \in 1 .. i /\ i <= i + Span(l[i])
      BY <1>0, <1>3
    <3> QED  BY <3>1
  <2> QED  BY <1>3, <2>1
<1>5. i # n + 1
  BY <1>3, <1>4 DEF Framed
<1>6. At(i - 1)
  <2>1. i - 1 \in n + 1 .. j /\ ~(i <= i - 1)
    BY <1>3, <1>5
  <2> HIDE DEF At
  <2> QED  BY <1>2, <2>1
<1>7. PICK k \in 1 .. i - 1 : l[k].t = "hdr" /\ i - 1 <= k + Span(l[k])
  BY <1>6
<1>8. k \in 1 .. Len(l) /\ k < i /\ k \in 1 .. i /\ Span(l[k]) \in Nat
  BY <1>0, <1>3
<1>9. ~(i <= k + Span(l[k]))
  BY <1>3, <1>7, <1>8
<1>10. i = k + Span(l[k]) + 1
  <2>1. PICK q \in Nat : q = Span(l[k])
    BY <1>8
  <2>2. i \in Int /\ k \in Int /\ i - 1 <= k + q /\ ~(i <= k + q)
    BY <1>3, <1>7, <1>8, <1>9, <2>1
  <2>3. i = k + q + 1
    BY <2>2
  <2> QED  BY <2>1, <2>3
<1>11. l[i].t = "hdr"
  <2>1. \A q \in 1 .. Len(l) : k < q /\ q = k + Span(l[k]) + 1 => l[q].t = "hdr"
    BY <1>7, <1>8 DEF Framed
  <2>2. i \in 1 .. Len(l) /\ k < i /\ i = k + Span(l[k]) + 1
    BY <1>3, <1>8, <1>10
  <2> QED  BY <2>1, <2>2
<1> QED  BY <1>4, <1>11

\* Items that are for a connection.
Owns(x) == x.t = "byte" \/ x.len > 0 \/ x.len = NewConnection

NamedNowhere(l, i) == \A k \in 1 .. Len(l) : l[k].t = "hdr" => l[k].id # i

\* When no header names i and no byte is due for it, nothing on the way is for
\* the connection that has it.
LEMMA NothingFor ==
    ASSUME NEW l \in Seq(Item), NEW n \in Nat, NEW whole, Framed(l, n, whole), NEW cur, NEW id, NEW K,
           Owned(l, n, cur, id, K), NEW i, n > 0 => cur # i,
           NamedNowhere(l, i)
    PROVE  \A j \in 1 .. Len(l) : Owns(l[j]) => id[l[j].c] # i
<1> SUFFICES ASSUME NEW j \in 1 .. Len(l), Owns(l[j])
             PROVE  id[l[j].c] # i
  OBVIOUS
<1>n. \A k \in 1 .. Len(l) : l[k].t = "hdr" => l[k].id # i
  BY DEF NamedNowhere
<1>0. l[j] \in Item
  OBVIOUS
<1>1. CASE l[j].t = "hdr"
  BY <1>1, <1>n DEF Owned, Owns
<1>2. CASE l[j].t # "hdr" /\ j <= n
  <2>1. n > 0
    BY <1>2
  <2> QED  BY <1>2, <2>1 DEF Owned
<1>3. CASE l[j].t # "hdr" /\ ~(j <= n)
  <2>1. PICK k \in 1 .. j : l[k].t = "hdr" /\ j <= k + Span(l[k])
    <3>1. n < j
      BY <1>3
    <3> QED  BY <3>1, ByteAnnounced
  <2>2. k \in 1 .. Len(l) /\ k < j /\ Span(l[k]) \in Nat
    <3>1. k # j
      BY <1>3, <2>1
    <3>2. k \in 1 .. Len(l) /\ k < j
      BY <3>1
    <3> QED  BY <3>2, SpanNat
  <2>3. l[j].c = l[k].c /\ l[k].len > 0
    <3>1. l[j].c = l[k].c
      BY <2>1, <2>2 DEF Framed
    <3>2. Span(l[k]) # 0
      BY <2>1, <2>2
    <3> QED  BY <3>1, <3>2 DEF Span
  <2>4. l[k].id = id[l[k].c]
    BY <2>1, <2>2, <2>3 DEF Owned
  <2> QED  BY <1>n, <2>1, <2>2, <2>3, <2>4
<1> QED  BY <1>1, <1>2, <1>3

\* The ids of what has nothing on the way do not matter.
LEMMA WayRenumbered ==
    ASSUME NEW H, NEW K, NEW U, NEW id, NEW id2, NEW s \in Side, Typed(H, K, U), Way(H, K, U, id, s),
           \A j \in 1 .. Len(Line(H, s)) :
              Owns(Line(H, s)[j]) => id2[Line(H, s)[j].c] = id[Line(H, s)[j].c]
    PROVE  Way(H, K, U, id2, s)
<1>l. PICK l \in Seq(Item) : l = Line(H, s)
  BY TypedFacts
<1>n. PICK n, cur, whole : n = H[Other(s)].n /\ cur = H[Other(s)].id /\ whole = H[s].up
  OBVIOUS
<1>1. Framed(l, n, whole) /\ Owned(l, n, cur, id, K)
  BY <1>l, <1>n DEF Way
<1>2. \A j \in 1 .. Len(l) : Owns(l[j]) => id2[l[j].c] = id[l[j].c]
  BY <1>l
<1>3. \A j \in 1 .. Len(l) : j <= n => l[j].t = "byte"
  BY <1>1 DEF Framed
<1>4. Owned(l, n, cur, id2, K)
  BY <1>1, <1>2, <1>3 DEF Owned, Owns
<1> QED  BY <1>4, <1>l, <1>n DEF Way

\* c connects, with id i.
Connects(H, K, U, H2, K2, c, i) ==
    /\ Typed(H2, K2, U) /\ H["box"].up /\ H2["box"].up /\ H2["srv"] = H["srv"] /\ K2["srv"] = K["srv"]
    /\ K["box"][c].st = "none"
    /\ \A d \in Client : d # c => K2["box"][d] = K["box"][d]
    /\ K2["box"][c].st = "run" /\ K2["box"][c].id = i /\ ~K2["box"][c].newSent
    /\ K2["box"][c].in = <<>> /\ K2["box"][c].out = <<>>
    /\ H2["box"].in = H["box"].in /\ H2["box"].out = H["box"].out /\ H2["box"].n = H["box"].n
    /\ H2["box"].id = H["box"].id
    /\ \A d \in Client : Listed(H2, "box", d) => Listed(H, "box", d) \/ d = c

LEMMA GoodConnected ==
    ASSUME NEW H, NEW K, NEW U, NEW id, NEW H2, NEW K2, NEW id2, Good(H, K, U, id),
           NEW c \in Client, NEW i, Connects(H, K, U, H2, K2, c, i), i # 0,
           id2[c] = i, \A d \in Client : d # c => id2[d] = IF id[d] = i THEN 0 ELSE id[d],
           \A d \in Client, t \in Side : K[t][d].st \in There => K[t][d].id # i,
           \A t \in Side : H[Other(t)].up =>
              \A j \in 1 .. Len(Line(H, t)) : Owns(Line(H, t)[j]) => id[Line(H, t)[j].c] # i
    PROVE  Good(H2, K2, U, id2)
<1>0. /\ "box" \in Side /\ "srv" \in Side /\ \A t \in Side : t = "box" \/ t = "srv"
      /\ Other("box") = "srv" /\ Other("srv") = "box"
  BY DEF Side, Other
<1>1. /\ Typed(H, K, U) /\ Typed(H2, K2, U)
  BY DEF Good, Connects
<1>2. /\ H["box"].up /\ H2["box"].up /\ H2["srv"] = H["srv"] /\ K2["srv"] = K["srv"]
      /\ K["box"][c].st = "none" /\ \A d \in Client : d # c => K2["box"][d] = K["box"][d]
      /\ K2["box"][c].st = "run" /\ K2["box"][c].id = i /\ ~K2["box"][c].newSent
      /\ K2["box"][c].in = <<>> /\ K2["box"][c].out = <<>>
      /\ H2["box"].in = H["box"].in /\ H2["box"].out = H["box"].out /\ H2["box"].n = H["box"].n
      /\ H2["box"].id = H["box"].id
      /\ \A d \in Client : Listed(H2, "box", d) => Listed(H, "box", d) \/ d = c
  BY DEF Connects
<1>3. \A t \in Side : /\ H2[t].in = H[t].in /\ H2[t].out = H[t].out /\ H2[t].n = H[t].n
                      /\ H2[t].id = H[t].id /\ H2[t].up = H[t].up
  <2>1. H["box"].up \in BOOLEAN /\ H2["box"].up \in BOOLEAN
    BY <1>0, <1>1, TypedFacts
  <2>2. H2["box"].up = H["box"].up
    BY <1>2, <2>1
  <2> QED  BY <1>0, <1>2, <2>2
<1>4. \A t \in Side : Line(H2, t) = Line(H, t)
  BY <1>3, OtherFacts DEF Line
<1>5. \A d \in Client : NewOnWay(H2, d) = NewOnWay(H, d)
  BY <1>0, <1>4 DEF NewOnWay
<1>6. Stage(H, K, U, id, c) /\ Pristine(K, U, "box", c) /\ Pristine(K, U, "srv", c)
  BY <1>2 DEF Good, Stage
<1>7. /\ U["box"][c].sent = 0 /\ U["box"][c].got = <<>> /\ K["box"][c] = NoCon
  BY <1>6 DEF Pristine
<1>8. \A t \in Side, d \in Client : /\ K2[t][d].in = K[t][d].in /\ K2[t][d].out = K[t][d].out
                                    /\ t = "srv" \/ d # c => K2[t][d] = K[t][d]
  BY <1>0, <1>2, <1>7 DEF NoCon
<1>9. \A t \in Side, d \in Client : /\ SentOff(K2, U, t, d) = SentOff(K, U, t, d)
                                    /\ Arrived(K2, U, t, d) = Arrived(K, U, t, d)
  BY <1>8 DEF SentOff, Arrived
<1>10. \A t \in Side, d \in Client : Listed(H2, t, d) /\ K2[t][d].newSent =>
                                        Listed(H, t, d) /\ K[t][d].newSent
  <2>1. \A d \in Client : Listed(H2, "srv", d) => Listed(H, "srv", d)
    BY <1>2 DEF Listed
  <2> QED  BY <1>0, <1>2, <2>1
<1>11. \A t \in Side, d \in Client : /\ Expects(H2, K2, t, d) => Expects(H, K, t, d)
                                     /\ Live(H2, K2, t, d) => Live(H, K, t, d)
  BY <1>3, <1>5, <1>10 DEF Expects, Live
<1>12. \A d \in Client : K["box"][d].st # "none" => K2["box"][d].st # "none"
  BY <1>2
<1>13. ASSUME NEW t \in Side, H2[Other(t)].up
       PROVE  Way(H2, K2, U, id2, t)
  <2>1. Other(t) \in Side /\ Way(H, K, U, id, t)
    BY <1>3, <1>13, OtherFacts DEF Good
  <2>2. Way(H, K, U, id2, t)
    <3>1. \A j \in 1 .. Len(Line(H, t)) : Owns(Line(H, t)[j]) =>
             /\ Line(H, t)[j].c \in Client /\ K["box"][Line(H, t)[j].c].st # "none"
             /\ id[Line(H, t)[j].c] # i
      <4>1. H[Other(t)].up
        BY <1>3, <1>13, OtherFacts
      <4> QED  BY <2>1, <4>1 DEF Way, Owned, Owns
    <3>2. \A j \in 1 .. Len(Line(H, t)) : Owns(Line(H, t)[j]) =>
             id2[Line(H, t)[j].c] = id[Line(H, t)[j].c]
      BY <1>2, <3>1
    <3> QED  BY <1>1, <2>1, <3>2, WayRenumbered
  <2>3. \A d \in Client : SentOff(K, U, t, d) \in Int
    BY <1>1, TypedFacts
  <2>4. \A d \in Client :
              /\ K["box"][d].st # "none" => K2["box"][d].st # "none"
              /\ SentOff(K, U, t, d) <= SentOff(K2, U, t, d)
              /\ Expects(H2, K2, Other(t), d) =>
                    /\ Expects(H, K, Other(t), d)
                    /\ Arrived(K2, U, Other(t), d) = Arrived(K, U, Other(t), d)
              /\ Live(H2, K2, t, d) =>
                    /\ Live(H, K, t, d)
                    /\ SentOff(K2, U, t, d) = SentOff(K, U, t, d)
    BY <1>9, <1>11, <1>12, <2>1, <2>3
  <2> QED  BY <1>1, <1>3, <1>4, <2>1, <2>2, <2>4, WaySame
<1>14. ASSUME NEW d \in Client
       PROVE  Stage(H2, K2, U, id2, d)
  <2>1. Stage(H, K, U, id, d)
    BY DEF Good
  <2>2. CASE d = c
    <3>1. Pristine(K2, U, "srv", c) /\ SentOff(K2, U, "box", c) = 0
      <4>1. SentOff(K, U, "box", c) = 0
        BY <1>6, PristineFacts
      <4> QED  BY <1>0, <1>2, <1>6, <1>9, <4>1 DEF Pristine
    <3>2. H2["srv"].up => ~NewOnWay(H2, c)
      BY <1>2, <1>5, <1>6 DEF Stage
    <3>3. K2["srv"][c].st = "none" /\ ~Listed(H2, "srv", c)
      <4>1. K2["srv"][c].st = "none"
        BY <3>1, PristineFacts
      <4>2. Listed(H, "srv", c) => K["srv"][c].st \in There
        BY <1>0, <1>6 DEF Stage
      <4> QED  BY <1>2, <4>1, <4>2 DEF Listed, There
    <3> QED  BY <1>0, <1>2, <2>2, <3>1, <3>2, <3>3 DEF Stage, There
  <2>3. CASE d # c
    <3>1. \A t \in Side : Listed(H2, t, d) => Listed(H, t, d)
      BY <1>0, <1>2, <2>3 DEF Listed
    <3>2. \A t \in Side : K2[t][d] = K[t][d] /\ H2[t].up = H[t].up
      BY <1>3, <1>8, <2>3
    <3>3. Stage(H2, K2, U, id, d)
      BY <1>5, <2>1, <3>1, <3>2, StageSame
    <3>4. \A t \in Side : K2[t][d].st \in There => K2[t][d].id = id2[d] /\ id2[d] # 0
      <4>1. ASSUME NEW t \in Side, K2[t][d].st \in There
            PROVE  K2[t][d].id = id[d] /\ id[d] # 0 /\ id[d] # i
        <5>1. K[t][d].st \in There /\ K[t][d].id # i /\ K2[t][d].id = K[t][d].id
          BY <3>2, <4>1
        <5> QED  BY <2>1, <5>1 DEF Stage
      <4> QED  BY <2>3, <4>1
    <3> QED  BY <3>3, <3>4 DEF Stage
  <2> QED  BY <2>2, <2>3
<1>15. ASSUME NEW t \in Side, NEW d \in Client
       PROVE  Ends(K2, U, t, d)
  <2>1. Ends(K, U, t, d)
    BY DEF Good
  <2>2. /\ K2[t][d].in = K[t][d].in /\ K2[t][d].out = K[t][d].out
        /\ Arrived(K2, U, t, d) = Arrived(K, U, t, d)
        /\ SentOff(K2, U, Other(t), d) = SentOff(K, U, Other(t), d)
    BY <1>8, <1>9, OtherFacts
  <2> QED  BY <2>1, <2>2 DEF Ends
<1>16. \A t \in Side : ~H2[t].up => H2[t] = Closed
  <2>1. \A t \in Side : ~H[t].up => H[t] = Closed
    BY DEF Good
  <2> QED  BY <1>0, <1>2, <2>1
<1> QED  BY <1>1, <1>13, <1>14, <1>15, <1>16 DEF Good

\* A new connection takes i, which any other one loses.
Renumbered(id, c, i) == [d \in Client |-> IF d = c THEN i ELSE IF id[d] = i THEN 0 ELSE id[d]]

\* Nothing of the box or of the service, and nothing on the way, is for i.
LEMMA UnusedFacts ==
    ASSUME NEW id, Sound(id), NEW i, Unused(i), FreeId(i)
    PROVE  /\ \A d \in Client, t \in Side : con[t][d].st \in There => con[t][d].id # i
           /\ \A t \in Side : hub[Other(t)].up =>
                 \A j \in 1 .. Len(Line(hub, t)) : Owns(Line(hub, t)[j]) => id[Line(hub, t)[j].c] # i
<1>1. Typed(hub, con, user) /\ Good(hub, con, user, id)
  BY DEF Sound, Good
<1>2. \A d \in Client, t \in Side : con[t][d].st \in There => con[t][d].id # i
  BY DEF Unused, FreeId, Side, There
<1>3. ASSUME NEW t \in Side, hub[Other(t)].up, NEW j \in 1 .. Len(Line(hub, t)), Owns(Line(hub, t)[j])
      PROVE  id[Line(hub, t)[j].c] # i
  <2>o. PICK o \in Side : o = Other(t)
    BY OtherFacts
  <2>l. PICK a \in Seq(Item), b \in Seq(Item), l \in Seq(Item) :
           a = hub[o].in /\ b = hub[t].out /\ l = Line(hub, t) /\ l = a \o b
    <3>1. hub[o].in \in Seq(Item) /\ hub[t].out \in Seq(Item) /\ Line(hub, t) \in Seq(Item)
      BY <1>1, TypedFacts
    <3> QED  BY <2>o, <3>1 DEF Line
  <2>n. PICK n, cur : n \in Nat /\ n = hub[o].n /\ cur = hub[o].id
    BY <1>1, TypedFacts
  <2>1. Framed(l, n, hub[t].up) /\ Owned(l, n, cur, id, con)
    BY <1>1, <1>3, <2>l, <2>n, <2>o DEF Good, Way
  <2>2. n > 0 => cur # i
    BY <2>n DEF Unused
  <2>3. ASSUME NEW k \in 1 .. Len(l)
        PROVE  l[k] \in Range(a) \union Range(b)
    <3>1. Grown(a, b, l)
      BY <2>l, ConcatGrown
    <3>2. CASE k \in 1 .. Len(a) /\ l[k] = a[k]
      BY <3>2, RangeFacts
    <3>3. ASSUME NEW q \in 1 .. Len(b), l[k] = b[q]
          PROVE  l[k] \in Range(b)
      BY <3>3, RangeFacts
    <3> QED  BY <3>1, <3>2, <3>3, GrownIndex
  <2>4. \A x \in Range(a) \union Range(b) : x.t = "hdr" => x.id # i
    BY <2>l DEF Unused
  <2>5. NamedNowhere(l, i)
    BY <2>3, <2>4 DEF NamedNowhere
  <2>6. j \in 1 .. Len(l) /\ Owns(l[j])
    BY <1>3, <2>l
  <2>7. \A k \in 1 .. Len(l) : Owns(l[k]) => id[l[k].c] # i
    BY <2>1, <2>2, <2>5, <2>n, NothingFor
  <2> QED  BY <2>6, <2>7, <2>l
<1> QED  BY <1>2, <1>3

LEMMA ConnectKeeps ==
    ASSUME NEW c \in Client, NEW id, Sound(id), Connect(c), CleanReuse
    PROVE  \E id2 \in [Client -> Int] : Sound(id2)'
<1>1. /\ Typed(hub, con, user) /\ con \in [Side -> [Client -> Con]] /\ hub \in [Side -> Hub]
      /\ user \in [Side -> [Client -> User]] /\ (\A t \in Side : Fits(con[t])) /\ ConCap \in Nat
      /\ Good(hub, con, user, id) /\ env \in Environments /\ id \in [Client -> Int]
      /\ "box" \in Side /\ "srv" \in Side
  BY SoundFacts DEF Sound, Side
<1>2. con["box"][c].st = "none" /\ hub["box"].up /\ IdLeft
  BY DEF Connect
<1>i. PICK i \in Nat : i = NewId /\ i # 0 /\ FreeId(i)
  BY <1>2, NextId
<1>e. PICK e : e = [NoCon EXCEPT !.st = "run", !.id = i]
  OBVIOUS
<1>4. /\ e \in Con /\ e.st = "run" /\ e.id = i /\ ~e.newSent /\ e.in = <<>> /\ e.out = <<>>
  <2>1. <<>> \in Seq(Item)
    OBVIOUS
  <2>2. e = [st |-> "run", id |-> i, newSent |-> FALSE, dropDone |-> FALSE, in |-> <<>>, out |-> <<>>]
    BY <1>e DEF NoCon
  <2> QED  BY <2>1, <2>2 DEF Con, States
<1>h. PICK h \in Hub : h = hub["box"]
  BY <1>1
<1>l. PICK l \in Seq(Client) : l = Append(h.list, c) /\ Range(l) = Range(h.list) \union {c}
  <2>1. h.list \in Seq(Client)
    BY DEF Hub
  <2>2. Append(h.list, c) \in Seq(Client)
    BY <2>1, AppendProperties
  <2>3. Range(Append(h.list, c)) = Range(h.list) \union {c}
    BY <2>1, RangeAppend
  <2> QED  BY <2>2, <2>3
<1>g. PICK g : g = WithList(h, l)
  OBVIOUS
<1>5. /\ g \in Hub /\ g.in = h.in /\ g.out = h.out /\ g.n = h.n /\ g.id = h.id
      /\ g.list = l /\ g.up
  BY <1>2, <1>g, <1>h, HubWithList
<1>0. /\ con' = [con EXCEPT !["box"][c] = e] /\ hub' = [hub EXCEPT !["box"] = g]
      /\ lastId' = i /\ user' = user /\ env' = env
  BY <1>e, <1>g, <1>h, <1>i, <1>l DEF Connect, WithList
<1>6. AtOne(con, con', "box", c, e, Con)
  BY <1>0, <1>1, <1>4 DEF AtOne
<1>7. OneNew(con, con', "box", c, e, Con)
  BY <1>1, <1>6, OneChanged
<1>8. /\ con' \in [Side -> [Client -> Con]] /\ con'["box"][c] = e /\ con'["srv"] = con["srv"]
      /\ \A t \in Side, d \in Client : t # "box" \/ d # c => con'[t][d] = con[t][d]
  BY <1>1, <1>7 DEF OneNew
<1>9. hub' \in [Side -> Hub] /\ hub'["box"] = g /\ hub'["srv"] = hub["srv"]
  BY <1>0, <1>1, <1>5
<1>10. Connects(hub, con, user, hub', con', c, i)
  <2>1. Typed(hub', con', user)
    BY <1>1, <1>8, <1>9 DEF Typed
  <2>2. \A d \in Client : Listed(hub', "box", d) => Listed(hub, "box", d) \/ d = c
    BY <1>5, <1>9, <1>h, <1>l DEF Listed
  <2>3. \A d \in Client : d # c => con'["box"][d] = con["box"][d]
    BY <1>1, <1>8
  <2> QED  BY <1>2, <1>4, <1>5, <1>8, <1>9, <1>h, <2>1, <2>2, <2>3 DEF Connects
<1>d. PICK id2 : id2 = Renumbered(id, c, i)
  OBVIOUS
<1>11. /\ id2 \in [Client -> Int] /\ id2[c] = i
       /\ \A d \in Client : d # c => id2[d] = IF id[d] = i THEN 0 ELSE id[d]
  BY <1>1, <1>d DEF Renumbered
<1>f. Unused(i)
  <2>1. con'["box"][c].st # "none" /\ con'["box"][c].id = i
    BY <1>4, <1>8
  <2> QED  BY <1>2, <2>1 DEF CleanReuse
<1>12. Good(hub', con', user', id2)
  <2>1. Good(hub', con', user, id2)
    <3>1. /\ \A d \in Client, t \in Side : con[t][d].st \in There => con[t][d].id # i
          /\ \A t \in Side : hub[Other(t)].up =>
                \A j \in 1 .. Len(Line(hub, t)) : Owns(Line(hub, t)[j]) => id[Line(hub, t)[j].c] # i
      BY <1>f, <1>i, UnusedFacts
    <3>2. i # 0 /\ Good(hub, con, user, id) /\ Connects(hub, con, user, hub', con', c, i)
      BY <1>1, <1>10, <1>i
    <3> QED  BY <1>11, <3>1, <3>2, GoodConnected
  <2> QED  BY <1>0, <2>1
<1>13. Numbered(id2, lastId')
  <2>1. Apart(id)
    BY SoundFacts
  <2>2. ASSUME NEW d \in Client, NEW e2 \in Client, id2[d] = id2[e2], id2[d] # 0
        PROVE  d = e2
    <3>1. \A q \in Client : q # c => id2[q] # i
      BY <1>11, <1>i
    <3>2. CASE d = c \/ e2 = c
      BY <1>11, <2>2, <3>1, <3>2
    <3>3. CASE d # c /\ e2 # c
      <4>1. id2[d] = id[d] /\ id2[e2] = id[e2]
        BY <1>11, <2>2, <3>3
      <4> QED  BY <2>1, <2>2, <4>1 DEF Apart
    <3> QED  BY <3>2, <3>3
  <2> QED  BY <1>0, <1>11, <2>2 DEF Numbered, Apart
<1>14. \A t \in Side, d \in Client : Len(con'[t][d].out) <= ConCap
  <2>1. Len(e.out) <= ConCap
    <3>1. Len(e.out) = 0
      BY <1>4
    <3> QED  BY <1>1, <3>1
  <2>2. ASSUME NEW t \in Side, NEW d \in Client
        PROVE  Len(con'[t][d].out) <= ConCap
    <3>1. CASE t = "box" /\ d = c
      BY <1>8, <2>1, <3>1
    <3>2. CASE ~(t = "box" /\ d = c)
      <4>1. con'[t][d] = con[t][d]
        BY <1>8, <3>2
      <4> QED  BY <1>1, <4>1 DEF Fits
    <3> QED  BY <3>1, <3>2
  <2> QED  BY <2>2
<1>15. Sound(id2)'
  BY <1>0, <1>1, <1>12, <1>13, <1>14, SoundNext
<1> QED  BY <1>11, <1>15

----------------------------------------------------------------------------
(* The end of a connection and of the shared connection.                   *)

\* Side s of c ends.
EndsAt(H, K, U, H2, K2, s, c) ==
    /\ Typed(H2, K2, U)
    /\ H2[Other(s)] = H[Other(s)] /\ K2[Other(s)] = K[Other(s)]
    /\ K[s][c].st \in There
    /\ \A d \in Client : d # c => K2[s][d] = K[s][d]
    /\ K2[s][c].st = "gone" /\ K2[s][c].in = <<>> /\ K2[s][c].out = <<>>
    /\ H2[s].in = H[s].in /\ H2[s].out = H[s].out /\ H2[s].n = H[s].n /\ H2[s].id = H[s].id
    /\ H2[s].up = H[s].up /\ (~H2[s].up => H2[s] = H[s])
    /\ \A d \in Client : Listed(H2, s, d) => Listed(H, s, d) /\ d # c

LEMMA GoodEnded ==
    ASSUME NEW H, NEW K, NEW U, NEW id, NEW H2, NEW K2, NEW s \in Side, NEW c \in Client,
           Good(H, K, U, id), EndsAt(H, K, U, H2, K2, s, c)
    PROVE  Good(H2, K2, U, id)
<1>o. PICK o \in Side : o = Other(s) /\ Other(o) = s /\ o # s /\ \A t \in Side : t = s \/ t = o
  BY OtherFacts
<1>0. /\ Typed(H, K, U) /\ Typed(H2, K2, U) /\ "box" \in Side /\ "srv" \in Side
  BY DEF Good, EndsAt, Side
<1>1. /\ H2[o] = H[o] /\ K2[o] = K[o] /\ K[s][c].st \in There
      /\ \A d \in Client : d # c => K2[s][d] = K[s][d]
      /\ K2[s][c].st = "gone" /\ K2[s][c].in = <<>> /\ K2[s][c].out = <<>>
      /\ H2[s].in = H[s].in /\ H2[s].out = H[s].out /\ H2[s].n = H[s].n /\ H2[s].id = H[s].id
      /\ H2[s].up = H[s].up /\ (~H2[s].up => H2[s] = H[s])
      /\ \A d \in Client : Listed(H2, s, d) => Listed(H, s, d) /\ d # c
  BY <1>o DEF EndsAt
<1>2. \A t \in Side : /\ H2[t].in = H[t].in /\ H2[t].out = H[t].out /\ H2[t].n = H[t].n
                      /\ H2[t].id = H[t].id /\ H2[t].up = H[t].up
  BY <1>1, <1>o
<1>3. \A t \in Side : Line(H2, t) = Line(H, t)
  BY <1>2, OtherFacts DEF Line
<1>4. \A d \in Client : NewOnWay(H2, d) = NewOnWay(H, d)
  BY <1>0, <1>3 DEF NewOnWay
<1>5. \A t \in Side, d \in Client : t # s \/ d # c => K2[t][d] = K[t][d]
  BY <1>1, <1>o
<1>6. \A t \in Side, d \in Client : Listed(H2, t, d) => Listed(H, t, d) /\ (t # s \/ d # c)
  BY <1>1, <1>o DEF Listed
<1>7. \A t \in Side, d \in Client : t # s \/ d # c =>
          /\ SentOff(K2, U, t, d) = SentOff(K, U, t, d)
          /\ Arrived(K2, U, t, d) = Arrived(K, U, t, d)
  BY <1>5 DEF SentOff, Arrived
<1>8. /\ SentOff(K, U, s, c) <= SentOff(K2, U, s, c)
      /\ Arrived(K2, U, s, c) <= Arrived(K, U, s, c)
      /\ SentOff(K2, U, s, c) = U[s][c].sent /\ Arrived(K2, U, s, c) = Len(U[s][c].got)
  <2>n. PICK a \in Nat, b \in Nat, d \in Nat, e \in Nat :
           a = Len(K[s][c].in) /\ b = Len(K[s][c].out) /\ d = U[s][c].sent /\ e = Len(U[s][c].got)
    <3>1. K[s][c].in \in Seq(Item) /\ K[s][c].out \in Seq(Item) /\ U[s][c].got \in Seq(Item)
      BY <1>0, TypedFacts
    <3>2. U[s][c].sent \in Nat
      BY <1>0, TypedFacts
    <3> QED  BY <3>1, <3>2, NotEmpty
  <2>1. Len(K2[s][c].in) = 0 /\ Len(K2[s][c].out) = 0
    BY <1>1
  <2>2. SentOff(K, U, s, c) = d - a /\ SentOff(K2, U, s, c) = d
    <3>1. SentOff(K2, U, s, c) = d - 0
      BY <2>1, <2>n DEF SentOff
    <3> QED  BY <2>n, <3>1 DEF SentOff
  <2>3. Arrived(K, U, s, c) = e + b /\ Arrived(K2, U, s, c) = e
    <3>1. Arrived(K2, U, s, c) = e + 0
      BY <2>1, <2>n DEF Arrived
    <3>2. Arrived(K, U, s, c) = e + b
      BY <2>n DEF Arrived
    <3> QED  BY <3>1, <3>2
  <2>4. d - a <= d /\ e <= e + b
    OBVIOUS
  <2> QED  BY <2>2, <2>3, <2>4, <2>n
<1>9. \A t \in Side, d \in Client : Live(H2, K2, t, d) => Live(H, K, t, d) /\ (t # s \/ d # c)
  BY <1>2, <1>5, <1>6 DEF Live
<1>10. \A t \in Side, d \in Client : H2[t].up /\ Expects(H2, K2, t, d) =>
           Expects(H, K, t, d) /\ (t # s \/ d # c)
  <2>1. ASSUME s = "srv", H["srv"].up, NewOnWay(H, c)
        PROVE  FALSE
    <3>1. Stage(H, K, U, id, c)
      BY DEF Good
    <3>2. Pristine(K, U, "srv", c)
      BY <2>1, <3>1 DEF Stage
    <3>3. K[s][c].st = "none"
      BY <2>1, <3>2, PristineFacts
    <3> QED  BY <1>1, <3>3 DEF There
  <2>2. ASSUME NEW t \in Side, NEW d \in Client, H2[t].up, Expects(H2, K2, t, d)
        PROVE  Expects(H, K, t, d) /\ (t # s \/ d # c)
    <3>1. CASE Listed(H2, t, d) /\ K2[t][d].newSent
      BY <1>5, <1>6, <3>1 DEF Expects
    <3>2. CASE t = "srv" /\ NewOnWay(H2, d)
      <4>1. NewOnWay(H, d) /\ H["srv"].up
        BY <1>2, <1>4, <2>2, <3>2
      <4>2. ~(t = s /\ d = c)
        BY <2>1, <3>2, <4>1
      <4> QED  BY <3>2, <4>1, <4>2 DEF Expects
    <3> QED  BY <2>2, <3>1, <3>2 DEF Expects
  <2> QED  BY <2>2
<1>11. \A t \in Side, d \in Client : SentOff(K, U, t, d) <= SentOff(K2, U, t, d)
  <2>1. ASSUME NEW t \in Side, NEW d \in Client, t # s \/ d # c
        PROVE  SentOff(K, U, t, d) <= SentOff(K2, U, t, d)
    <3>1. SentOff(K, U, t, d) \in Int /\ SentOff(K2, U, t, d) = SentOff(K, U, t, d)
      BY <1>0, <1>7, <2>1, TypedFacts
    <3> QED  BY <3>1
  <2> QED  BY <1>8, <2>1
<1>12. \A d \in Client : K["box"][d].st # "none" => K2["box"][d].st # "none"
  BY <1>0, <1>1, <1>5
<1>13. ASSUME NEW t \in Side, H2[Other(t)].up
       PROVE  Way(H2, K2, U, id, t)
  <2>1. Other(t) \in Side /\ Way(H, K, U, id, t)
    BY <1>2, <1>13, OtherFacts DEF Good
  <2>2. \A d \in Client :
              /\ K["box"][d].st # "none" => K2["box"][d].st # "none"
              /\ SentOff(K, U, t, d) <= SentOff(K2, U, t, d)
              /\ Expects(H2, K2, Other(t), d) =>
                    /\ Expects(H, K, Other(t), d)
                    /\ Arrived(K2, U, Other(t), d) = Arrived(K, U, Other(t), d)
              /\ Live(H2, K2, t, d) =>
                    /\ Live(H, K, t, d)
                    /\ SentOff(K2, U, t, d) = SentOff(K, U, t, d)
    BY <1>7, <1>9, <1>10, <1>11, <1>12, <1>13, <2>1
  <2> QED  BY <1>0, <1>2, <1>3, <2>1, <2>2, WaySame
<1>14. ASSUME NEW d \in Client
       PROVE  Stage(H2, K2, U, id, d)
  <2>1. Stage(H, K, U, id, d)
    BY DEF Good
  <2>2. CASE d # c
    <3>1. \A t \in Side : /\ K2[t][d] = K[t][d] /\ H2[t].up = H[t].up
                          /\ (Listed(H2, t, d) => Listed(H, t, d))
      BY <1>2, <1>5, <1>6, <2>2
    <3> QED  BY <1>4, <2>1, <3>1, StageSame
  <2>3. CASE d = c
    <3>1. CASE s = "box"
      <4>1. K2["srv"][c] = K["srv"][c] /\ K2["box"][c].st = "gone"
        BY <1>0, <1>1, <1>5, <3>1
      <4>2. Pristine(K, U, "srv", c) => Pristine(K2, U, "srv", c)
        BY <4>1 DEF Pristine
      <4>3. ~Listed(H2, "box", c) /\ (Listed(H2, "srv", c) => Listed(H, "srv", c))
        BY <1>0, <1>6, <3>1
      <4>4. H2["srv"].up = H["srv"].up /\ NewOnWay(H2, c) = NewOnWay(H, c)
        BY <1>0, <1>2, <1>4
      <4>5. K2["box"][c].st # "none" /\ K2["box"][c].st \notin There
        BY <4>1 DEF There
      <4>6. H2["srv"].up /\ NewOnWay(H2, c) => Pristine(K2, U, "srv", c)
        BY <2>1, <2>3, <4>2, <4>4 DEF Stage
      <4>7. /\ K2["srv"][c].st \in There => K2["srv"][c].newSent
            /\ K2["srv"][c].st = "none" => Pristine(K2, U, "srv", c)
        BY <2>1, <2>3, <4>1, <4>2 DEF Stage
      <4>8. \A t \in Side : /\ Listed(H2, t, c) => K2[t][c].st \in There
                            /\ K2[t][c].st \in There => K2[t][c].id = id[c] /\ id[c] # 0
        BY <1>0, <1>o, <2>1, <2>3, <4>1, <4>3, <4>5 DEF Stage, Side
      <4> QED  BY <2>3, <4>5, <4>6, <4>7, <4>8 DEF Stage
    <3>2. CASE s = "srv"
      <4>1. K2["box"][c] = K["box"][c] /\ K2["srv"][c].st = "gone" /\ K["srv"][c].st \in There
        BY <1>0, <1>1, <1>5, <3>2
      <4>2. ~Pristine(K, U, "srv", c)
        BY <4>1, PristineFacts DEF There
      <4>3. Pristine(K, U, "box", c) => Pristine(K2, U, "box", c)
        BY <4>1 DEF Pristine
      <4>4. ~Listed(H2, "srv", c) /\ (Listed(H2, "box", c) => Listed(H, "box", c))
        BY <1>0, <1>6, <3>2
      <4>5. H2["srv"].up = H["srv"].up /\ NewOnWay(H2, c) = NewOnWay(H, c)
        BY <1>0, <1>2, <1>4
      <4>6. K2["srv"][c].st # "none" /\ K2["srv"][c].st \notin There
        BY <4>1 DEF There
      <4>7. K2["box"][c].st = "none" => Pristine(K2, U, "box", c) /\ ~Listed(H2, "box", c)
        BY <2>1, <2>3, <4>1, <4>3, <4>4 DEF Stage
      <4>8. ~(K2["box"][c].st = "none" \/ (K2["box"][c].st \in There /\ ~K2["box"][c].newSent))
        BY <2>1, <2>3, <4>1, <4>2 DEF Stage
      <4>9. ~(H2["srv"].up /\ NewOnWay(H2, c))
        BY <2>1, <2>3, <4>2, <4>5 DEF Stage
      <4>10. \A t \in Side : /\ Listed(H2, t, c) => K2[t][c].st \in There
                             /\ K2[t][c].st \in There => K2[t][c].id = id[c] /\ id[c] # 0
        BY <1>0, <1>o, <2>1, <2>3, <4>1, <4>4, <4>6 DEF Stage, Side
      <4> QED  BY <2>3, <4>6, <4>7, <4>8, <4>9, <4>10 DEF Stage
    <3> QED  BY <3>1, <3>2 DEF Side
  <2> QED  BY <2>2, <2>3
<1>15. ASSUME NEW t \in Side, NEW d \in Client
       PROVE  Ends(K2, U, t, d)
  <2>1. Ends(K, U, t, d)
    BY DEF Good
  <2>2. Other(t) \in Side /\ SentOff(K, U, Other(t), d) <= SentOff(K2, U, Other(t), d)
    BY <1>11, OtherFacts
  <2>3. CASE t # s \/ d # c
    <3>1. K2[t][d] = K[t][d]
      BY <1>5, <2>3
    <3> QED  BY <1>0, <2>1, <2>2, <3>1, EndsSame
  <2>4. CASE ~(t # s \/ d # c)
    <3>1. Len(K2[t][d].in) = 0 /\ Len(K2[t][d].out) = 0 /\ U[t][d].sent \in Nat
      <4>1. Len(K2[t][d].in) = 0 /\ Len(K2[t][d].out) = 0
        BY <1>1, <2>4
      <4>2. U[t][d].sent \in Nat
        BY <1>0, TypedFacts
      <4> QED  BY <4>1, <4>2
    <3>2. Arrived(K2, U, t, d) <= SentOff(K2, U, Other(t), d)
      <4>1. /\ Arrived(K2, U, t, d) \in Int /\ Arrived(K, U, t, d) \in Int
            /\ SentOff(K, U, Other(t), d) \in Int /\ SentOff(K2, U, Other(t), d) \in Int
        BY <1>0, <2>2, TypedFacts
      <4>2. Arrived(K2, U, t, d) <= Arrived(K, U, t, d)
        BY <1>8, <2>4
      <4>3. Arrived(K, U, t, d) <= SentOff(K, U, Other(t), d)
        BY <2>1 DEF Ends
      <4> QED  BY <2>2, <4>1, <4>2, <4>3
    <3>3. \A i \in 1 .. Len(U[t][d].got) : U[t][d].got[i] = Byte(d, i)
      BY <2>1 DEF Ends
    <3> QED  BY <3>1, <3>2, <3>3 DEF Ends
  <2> QED  BY <2>3, <2>4
<1>16. \A t \in Side : ~H2[t].up => H2[t] = Closed
  <2>1. \A t \in Side : ~H[t].up => H[t] = Closed
    BY DEF Good
  <2> QED  BY <1>1, <1>o, <2>1
<1> QED  BY <1>0, <1>13, <1>14, <1>15, <1>16 DEF Good

\* A list without c.
LEMMA ListWithout ==
    ASSUME NEW list \in Seq(Client), NEW c \in Client
    PROVE  /\ Found(list, Client \ {c}) \in Seq(Client)
           /\ \A d \in Range(Found(list, Client \ {c})) : d \in Range(list) /\ d # c
           /\ list = <<>> => Found(list, Client \ {c}) = <<>>
<1>f. PICK f : f = Found(list, Client \ {c})
  OBVIOUS
<1>1. f \in Seq(Client) /\ Range(f) \subseteq Range(list) \intersect (Client \ {c})
  BY <1>f, FoundFacts
<1>2. ASSUME list = <<>>
      PROVE  f = <<>>
  <2>1. Range(list) = {}
    <3>1. Range(list) = {list[i] : i \in 1 .. Len(list)}
      BY RangeFacts
    <3>2. Len(list) = 0
      BY <1>2
    <3> QED  BY <3>1, <3>2
  <2>2. Len(f) \in Nat /\ \A i \in 1 .. Len(f) : f[i] \in Range(f)
    BY <1>1, RangeFacts
  <2>3. Len(f) = 0
    BY <1>1, <2>1, <2>2
  <2> QED  BY <1>1, <2>3, EmptySeq
<1> QED  BY <1>1, <1>2, <1>f

Gone == [NoCon EXCEPT !.st = "gone"]

LEMMA GoneFacts ==
    Gone \in Con /\ Gone.st = "gone" /\ Gone.in = <<>> /\ Gone.out = <<>> /\ Len(Gone.out) = 0
<1>e. PICK e : e = [NoCon EXCEPT !.st = "gone"]
  OBVIOUS
<1>1. e = [st |-> "gone", id |-> 0, newSent |-> FALSE, dropDone |-> FALSE, in |-> <<>>, out |-> <<>>]
  BY <1>e DEF NoCon
<1>2. <<>> \in Seq(Item) /\ Len(<<>>) = 0
  OBVIOUS
<1>3. e \in Con /\ e.st = "gone" /\ e.in = <<>> /\ e.out = <<>>
  BY <1>1, <1>2 DEF Con, States
<1> QED  BY <1>2, <1>3, <1>e DEF Gone

\* The ring of side s when c is no longer in its list.
Dropping(s, c) == WithList(hub[s], Unlinked(s, c))

LEMMA GoodUnlinked ==
    ASSUME NEW s \in Side, NEW c \in Client, NEW id, Sound(id), con[s][c].st \in There,
           NEW H2, H2 = [hub EXCEPT ![s] = Dropping(s, c)],
           NEW K2, OneNew(con, K2, s, c, Gone, Con)
    PROVE  Good(H2, K2, user, id) /\ Typed(H2, K2, user)
<1>1. /\ Typed(hub, con, user) /\ hub \in [Side -> Hub] /\ user \in [Side -> [Client -> User]]
      /\ Good(hub, con, user, id)
  BY SoundFacts DEF Sound
<1>h. PICK h \in Hub : h = hub[s]
  BY <1>1
<1>2. h.list \in Seq(Client)
  BY DEF Hub
<1>l. PICK l \in Seq(Client) : /\ l = Unlinked(s, c) /\ (h.list = <<>> => l = <<>>)
                               /\ \A d \in Range(l) : d \in Range(h.list) /\ d # c
  BY <1>2, <1>h, ListWithout DEF Unlinked
<1>g. PICK g : g = WithList(h, l)
  OBVIOUS
<1>3. /\ g \in Hub /\ g.in = h.in /\ g.out = h.out /\ g.n = h.n /\ g.id = h.id
      /\ g.list = l /\ (h.up => g.up)
  BY <1>g, HubWithList
<1>4. g.up = h.up
  BY <1>g DEF WithList, Hub
<1>5. ~g.up => g = h
  <2>1. ASSUME ~g.up
        PROVE  g = h
    <3>1. h = Closed
      BY <1>1, <1>4, <1>h, <2>1 DEF Good
    <3>2. l = <<>> /\ h.list = <<>>
      BY <1>l, <3>1 DEF Closed
    <3> QED  BY <1>g, <3>2 DEF WithList, Hub
  <2> QED  BY <2>1
<1>6. /\ K2 \in [Side -> [Client -> Con]] /\ K2[s][c] = Gone
      /\ \A t \in Side, d \in Client : t # s \/ d # c => K2[t][d] = con[t][d]
      /\ \A t \in Side : t # s => K2[t] = con[t]
  BY DEF OneNew
<1>7. H2 = [hub EXCEPT ![s] = g]
  BY <1>g, <1>h, <1>l DEF Dropping
<1>8. H2 \in [Side -> Hub] /\ H2[s] = g /\ H2[Other(s)] = hub[Other(s)]
  BY <1>1, <1>3, <1>7, OtherFacts
<1>9. Typed(H2, K2, user)
  BY <1>1, <1>6, <1>8 DEF Typed
<1>10. \A d \in Client : Listed(H2, s, d) => Listed(hub, s, d) /\ d # c
  BY <1>3, <1>8, <1>h, <1>l DEF Listed
<1>11. K2[Other(s)] = con[Other(s)]
  BY <1>6, OtherFacts
<1>12. H2[s].up = hub[s].up /\ (~H2[s].up => H2[s] = hub[s])
  BY <1>4, <1>5, <1>8, <1>h
<1>13. EndsAt(hub, con, user, H2, K2, s, c)
  BY <1>3, <1>6, <1>8, <1>9, <1>10, <1>11, <1>12, <1>h, GoneFacts DEF EndsAt
<1> QED  BY <1>1, <1>9, <1>13, GoodEnded

\* The records of the connections when side s of c has ended.
LEMMA GoneKeeps ==
    ASSUME NEW s \in Side, NEW c \in Client, NEW id, Sound(id), con[s][c].st \in There,
           con' = [con EXCEPT ![s][c] = Gone], lastId' = lastId
    PROVE  /\ OneNew(con, con', s, c, Gone, Con)
           /\ Numbered(id, lastId')
           /\ \A t \in Side, d \in Client : Len(con'[t][d].out) <= ConCap
<1>1. /\ con \in [Side -> [Client -> Con]] /\ (\A t \in Side : Fits(con[t])) /\ ConCap \in Nat
      /\ Numbered(id, lastId)
  BY SoundFacts DEF Sound
<1>2. AtOne(con, con', s, c, Gone, Con)
  BY <1>1, GoneFacts DEF AtOne
<1>3. OneNew(con, con', s, c, Gone, Con)
  BY <1>2, OneChanged
<1>4. /\ con'[s][c] = Gone
      /\ \A t \in Side, d \in Client : t # s \/ d # c => con'[t][d] = con[t][d]
  BY <1>3 DEF OneNew
<1>6. Numbered(id, lastId')
  BY <1>1
<1>7. ASSUME NEW t \in Side, NEW d \in Client
      PROVE  Len(con'[t][d].out) <= ConCap
  <2>1. CASE t = s /\ d = c
    <3>1. Len(con'[t][d].out) = 0
      BY <1>4, <2>1, GoneFacts
    <3> QED  BY <1>1, <3>1
  <2>2. CASE ~(t = s /\ d = c)
    <3>1. con'[t][d] = con[t][d]
      BY <1>4, <2>2
    <3> QED  BY <1>1, <3>1 DEF Fits
  <2> QED  BY <2>1, <2>2
<1> QED  BY <1>3, <1>6, <1>7

LEMMA CloseSocketKeeps ==
    ASSUME NEW c \in Client, NEW id, Sound(id), CloseSocket(c)
    PROVE  Sound(id)'
<1>0. /\ con["srv"][c].st \in There /\ con' = [con EXCEPT !["srv"][c] = Gone]
      /\ hub' = [hub EXCEPT !["srv"] = Dropping("srv", c)]
      /\ user' = [user EXCEPT !["srv"][c].left = TRUE] /\ lastId' = lastId /\ env' = env
      /\ "srv" \in Side
  BY DEF CloseSocket, There, Gone, Dropping, WithList, Side
<1>1. /\ OneNew(con, con', "srv", c, Gone, Con) /\ Numbered(id, lastId')
      /\ \A t \in Side, d \in Client : Len(con'[t][d].out) <= ConCap
  BY <1>0, GoneKeeps
<1>2. Good(hub', con', user, id) /\ Typed(hub', con', user)
  BY <1>0, <1>1, GoodUnlinked
<1>3. con' \in [Side -> [Client -> Con]] /\ user \in [Side -> [Client -> User]] /\ env \in Environments
  BY <1>2, SoundFacts DEF Typed, Sound
<1>u. PICK u \in User : u = user["srv"][c]
  BY <1>0, <1>3
<1>v. PICK v : v = [u EXCEPT !.left = TRUE]
  OBVIOUS
<1>4. v \in User /\ v.sent = u.sent /\ v.got = u.got /\ user' = [user EXCEPT !["srv"][c] = v]
  BY <1>0, <1>u, <1>v DEF User
<1>5. OneNew(user, user', "srv", c, v, User)
  <2>1. AtOne(user, user', "srv", c, v, User)
    BY <1>3, <1>4 DEF AtOne
  <2> QED  BY <1>0, <2>1, OneChanged
<1>6. /\ user' \in [Side -> [Client -> User]] /\ user'["srv"][c] = v
      /\ \A t \in Side, d \in Client : t # "srv" \/ d # c => user'[t][d] = user[t][d]
  BY <1>5 DEF OneNew
<1>7. \A t \in Side, d \in Client : user'[t][d].sent = user[t][d].sent /\ user'[t][d].got = user[t][d].got
  BY <1>4, <1>6, <1>u
<1>8. \A t \in Side, d \in Client : /\ SentOff(con', user', t, d) = SentOff(con', user, t, d)
                                    /\ Arrived(con', user', t, d) = Arrived(con', user, t, d)
  BY <1>7 DEF SentOff, Arrived
<1>9. Ends(con', user', "srv", c)
  <2>1. Ends(con', user, "srv", c)
    BY <1>0, <1>2 DEF Good
  <2>2. /\ user'["srv"][c].sent = user["srv"][c].sent /\ user'["srv"][c].got = user["srv"][c].got
        /\ Arrived(con', user', "srv", c) = Arrived(con', user, "srv", c)
        /\ SentOff(con', user', Other("srv"), c) = SentOff(con', user, Other("srv"), c)
    <3>1. Other("srv") \in Side /\ "srv" \in Side
      BY <1>0, OtherFacts
    <3>2. user'["srv"][c].sent = user["srv"][c].sent /\ user'["srv"][c].got = user["srv"][c].got
      BY <1>7, <3>1
    <3> QED  BY <1>8, <3>1, <3>2
  <2> QED  BY <2>1, <2>2 DEF Ends
<1>10. AtUser(con', user, con', user', "srv", c)
  BY <1>0, <1>3, <1>6, <1>7, <1>8, <1>9 DEF AtUser, Pristine
<1>11. Good(hub', con', user', id)
  BY <1>0, <1>2, <1>10, GoodAtUser
<1> QED  BY <1>0, <1>1, <1>3, <1>11, SoundNext

LEMMA EndClientKeeps ==
    ASSUME NEW c \in Client, NEW id, Sound(id), EndClient(c)
    PROVE  Sound(id)'
<1>k. PICK k : k = con["box"][c]
  OBVIOUS
<1>t. PICK tell : tell = (k.newSent /\ ~k.dropDone /\ c \in Range(hub["box"].list))
  OBVIOUS
<1>m. PICK m : m = Hdr(k.id, c, Dropped)
  OBVIOUS
<1>H. PICK H1 : H1 = [hub EXCEPT !["box"] = Dropping("box", c)]
  OBVIOUS
<1>1. /\ Typed(hub, con, user) /\ hub \in [Side -> Hub] /\ con \in [Side -> [Client -> Con]]
      /\ Good(hub, con, user, id) /\ env \in Environments /\ "box" \in Side
  BY SoundFacts DEF Sound, Side
<1>0. /\ con["box"][c].st \in There /\ con' = [con EXCEPT !["box"][c] = Gone]
      /\ user' = user /\ lastId' = lastId /\ env' = env
  BY DEF EndClient, There, Gone
<1>g. PICK g : g = Dropping("box", c)
  OBVIOUS
<1>2. hub' = [hub EXCEPT !["box"] = WithOut(g, IF tell THEN StoreHeader(hub["box"].out, m) ELSE hub["box"].out)]
  BY <1>g, <1>k, <1>m, <1>t DEF EndClient, Dropping, WithList, WithOut
<1>3. /\ OneNew(con, con', "box", c, Gone, Con) /\ Numbered(id, lastId')
      /\ \A t \in Side, d \in Client : Len(con'[t][d].out) <= ConCap
  BY <1>0, <1>1, GoneKeeps
<1>4. Good(H1, con', user, id) /\ Typed(H1, con', user)
  BY <1>0, <1>1, <1>3, <1>H, GoodUnlinked
<1>5. H1["box"] = g /\ H1["srv"] = hub["srv"] /\ H1 \in [Side -> Hub]
  BY <1>1, <1>4, <1>H, <1>g DEF Typed
<1>6. g \in Hub /\ g.out = hub["box"].out /\ g.up = hub["box"].up
  <2>1. g \in Hub
    BY <1>1, <1>5
  <2>h. PICK h \in Hub : h = hub["box"]
    BY <1>1
  <2> QED  BY <1>g, <2>1, <2>h DEF Dropping, WithList, Hub
<1>7. CASE tell /\ Len(g.out) < Cap
  <2>1. m \in Item /\ m.t = "hdr" /\ m.len = Dropped
    <3>1. k \in Con
      BY <1>1, <1>k
    <3>2. k.id \in Int
      BY <3>1 DEF Con
    <3> QED  BY <1>m, <3>2, HdrItem DEF Dropped
  <2>2. m.len <= 0 /\ m.len # NewConnection
    BY <2>1 DEF Dropped, NewConnection
  <2>3. g.out \in Seq(Item)
    BY <1>6 DEF Hub
  <2>o. PICK o \in Seq(Item) : o = Append(g.out, m) /\ o = StoreHeader(g.out, m)
    <3>1. Append(g.out, m) \in Seq(Item)
      BY <2>1, <2>3, AppendProperties
    <3>2. StoreHeader(g.out, m) = Append(g.out, m)
      BY <1>7 DEF StoreHeader
    <3> QED  BY <3>1, <3>2
  <2>f. PICK f : f = WithOut(g, o)
    OBVIOUS
  <2>4. /\ f \in Hub /\ f.in = g.in /\ f.out = o /\ f.n = g.n /\ f.id = g.id
        /\ f.list = g.list /\ (g.up => f.up)
    BY <1>6, <2>f, HubWithOut
  <2>5. hub' = [hub EXCEPT !["box"] = f]
    BY <1>2, <1>6, <1>7, <2>f, <2>o
  <2>6. hub' \in [Side -> Hub] /\ hub'["box"] = f /\ hub'["srv"] = hub["srv"]
    BY <1>1, <2>4, <2>5
  <2>7. g.up
    <3>1. ASSUME ~hub["box"].up
          PROVE  FALSE
      <4>1. hub["box"].list = <<>>
        BY <1>1, <3>1 DEF Good, Closed
      <4>2. Range(<<>>) = {}
        BY DEF Range
      <4> QED  BY <1>7, <1>t, <4>1, <4>2
    <3> QED  BY <1>6, <3>1
  <2>8. AtSide(H1, con', user, hub', con', "box")
    <3>1. Typed(hub', con', user)
      BY <1>4, <2>6 DEF Typed
    <3> QED  BY <1>5, <2>4, <2>6, <2>7, <3>1 DEF AtSide, Other
  <2>9. /\ hub'["box"].in = H1["box"].in /\ hub'["box"].out = Append(H1["box"].out, m)
        /\ hub'["box"].n = H1["box"].n /\ hub'["box"].id = H1["box"].id
        /\ hub'["box"].list = H1["box"].list
    BY <1>5, <2>4, <2>6, <2>o
  <2>10. Good(hub', con', user, id)
    BY <1>1, <1>4, <2>1, <2>2, <2>8, <2>9, GoodStored
  <2>11. Good(hub', con', user', id)
    BY <1>0, <2>10
  <2> QED  BY <1>0, <1>1, <1>3, <2>11, SoundNext
<1>8. CASE ~(tell /\ Len(g.out) < Cap)
  <2>1. (IF tell THEN StoreHeader(hub["box"].out, m) ELSE hub["box"].out) = g.out
    BY <1>6, <1>8 DEF StoreHeader
  <2>2. WithOut(g, g.out) = g
    BY <1>6 DEF WithOut, Hub
  <2>3. hub' = H1
    BY <1>2, <1>H, <1>g, <2>1, <2>2
  <2>4. Good(hub', con', user', id)
    BY <1>0, <1>4, <2>3
  <2> QED  BY <1>0, <1>1, <1>3, <2>4, SoundNext
<1> QED  BY <1>7, <1>8

\* The shared connection fails at side s.
BreaksAt(H, K, U, H2, K2, s) ==
    /\ Typed(H2, K2, U)
    /\ H2[Other(s)] = H[Other(s)] /\ K2[Other(s)] = K[Other(s)]
    /\ H[s].up /\ H2[s] = Closed
    /\ \A c \in Client :
          /\ K2[s][c].in = K[s][c].in /\ K2[s][c].out = K[s][c].out
          /\ K2[s][c].id = K[s][c].id /\ K2[s][c].newSent = K[s][c].newSent
          /\ Listed(H, s, c) => K2[s][c].st = "stop"
          /\ ~Listed(H, s, c) => K2[s][c] = K[s][c]

LEMMA GoodBroken ==
    ASSUME NEW H, NEW K, NEW U, NEW id, NEW H2, NEW K2, NEW s \in Side,
           Good(H, K, U, id), BreaksAt(H, K, U, H2, K2, s)
    PROVE  Good(H2, K2, U, id)
<1>o. PICK o \in Side : o = Other(s) /\ Other(o) = s /\ o # s /\ \A t \in Side : t = s \/ t = o
  BY OtherFacts
<1>0. /\ Typed(H, K, U) /\ Typed(H2, K2, U) /\ "box" \in Side /\ "srv" \in Side
  BY DEF Good, BreaksAt, Side
<1>1. /\ H2[o] = H[o] /\ K2[o] = K[o] /\ H[s].up /\ H2[s] = Closed
      /\ \A c \in Client :
            /\ K2[s][c].in = K[s][c].in /\ K2[s][c].out = K[s][c].out
            /\ K2[s][c].id = K[s][c].id /\ K2[s][c].newSent = K[s][c].newSent
            /\ Listed(H, s, c) => K2[s][c].st = "stop"
            /\ ~Listed(H, s, c) => K2[s][c] = K[s][c]
  BY <1>o DEF BreaksAt
<1>2. /\ ~H2[s].up /\ H2[s].list = <<>> /\ H2[s].in = <<>> /\ H2[s].out = <<>>
  BY <1>1 DEF Closed
<1>3. \A c \in Client : ~Listed(H2, s, c) /\ (Listed(H2, o, c) => Listed(H, o, c))
  <2>1. Range(<<>>) = {}
    BY DEF Range
  <2> QED  BY <1>1, <1>2, <2>1 DEF Listed
<1>a. PICK a \in Seq(Item), b \in Seq(Item) : a = H[o].in /\ b = H[s].out
  BY <1>0, TypedFacts
<1>4. Line(H2, s) = a /\ Line(H, s) = a \o b
  <2>1. Line(H2, s) = a \o <<>>
    BY <1>1, <1>2, <1>a, <1>o DEF Line
  <2>2. a \o <<>> = a
    OBVIOUS
  <2> QED  BY <1>a, <1>o, <2>1, <2>2 DEF Line
<1>l. PICK l \in Seq(Item) : l = Line(H, s) /\ Grown(a, b, l)
  BY <1>4, ItemsJoined
<1>5. \A t \in Side, c \in Client : /\ K2[t][c].in = K[t][c].in /\ K2[t][c].out = K[t][c].out
                                    /\ K2[t][c].id = K[t][c].id /\ K2[t][c].newSent = K[t][c].newSent
  BY <1>1, <1>o
<1>6. \A t \in Side, c \in Client : /\ SentOff(K2, U, t, c) = SentOff(K, U, t, c)
                                    /\ Arrived(K2, U, t, c) = Arrived(K, U, t, c)
  BY <1>5 DEF SentOff, Arrived
<1>7. \A t \in Side, c \in Client :
          /\ Listed(H, t, c) => K[t][c].st \in There
          /\ K2[t][c].st \in There => K[t][c].st \in There
          /\ K[t][c].st \in There => K2[t][c].st \in There
          /\ K[t][c].st \notin There => K2[t][c] = K[t][c]
  <2>1. ASSUME NEW t \in Side, NEW c \in Client
        PROVE  Listed(H, t, c) => K[t][c].st \in There
    <3>1. Stage(H, K, U, id, c)
      BY DEF Good
    <3> QED  BY <3>1 DEF Stage
  <2>2. "stop" \in There
    BY DEF There
  <2>3. ASSUME NEW t \in Side, NEW c \in Client
        PROVE  /\ K2[t][c].st \in There => K[t][c].st \in There
               /\ K[t][c].st \in There => K2[t][c].st \in There
               /\ K[t][c].st \notin There => K2[t][c] = K[t][c]
    <3>1. CASE t = s /\ Listed(H, s, c)
      BY <1>1, <2>1, <2>2, <3>1
    <3>2. CASE ~(t = s /\ Listed(H, s, c))
      <4>1. K2[t][c] = K[t][c]
        BY <1>1, <1>o, <3>2
      <4> QED  BY <4>1
    <3> QED  BY <3>1, <3>2
  <2> QED  BY <2>1, <2>3
<1>8. \A c \in Client : (K2["box"][c].st = "none" <=> K["box"][c].st = "none")
  BY <1>0, <1>7 DEF There
<1>9. \A t \in Side, c \in Client : Pristine(K, U, t, c) => Pristine(K2, U, t, c)
  <2>1. ASSUME NEW t \in Side, NEW c \in Client, Pristine(K, U, t, c)
        PROVE  K2[t][c] = K[t][c]
    <3>1. K[t][c].st \notin There
      BY <2>1, PristineFacts DEF There
    <3> QED  BY <1>7, <3>1
  <2> QED  BY <2>1 DEF Pristine
<1>10. \A c \in Client : H2["srv"].up /\ NewOnWay(H2, c) => H["srv"].up /\ NewOnWay(H, c)
  <2>1. ASSUME NEW c \in Client, H2["srv"].up, NewOnWay(H2, c)
        PROVE  H["srv"].up /\ NewOnWay(H, c)
    <3>1. s = "box" /\ o = "srv"
      BY <1>2, <1>o, <2>1 DEF Side
    <3>2. PICK i \in 1 .. Len(a) : IsNew(a[i], c)
      BY <1>4, <2>1, <3>1 DEF NewOnWay
    <3>3. i \in 1 .. Len(l) /\ l[i] = a[i]
      <4>1. Len(a) \in Nat /\ Len(b) \in Nat
        BY NotEmpty
      <4> QED  BY <1>l, <4>1 DEF Grown
    <3> QED  BY <1>1, <1>l, <2>1, <3>1, <3>2, <3>3 DEF NewOnWay
  <2> QED  BY <2>1
<1>11. \A c \in Client : H2[o].up /\ Expects(H2, K2, o, c) => Expects(H, K, o, c)
  BY <1>3, <1>5, <1>10 DEF Expects
<1>12. ASSUME H2[o].up
       PROVE  Way(H2, K2, U, id, s)
  <2>1. Way(H, K, U, id, s)
    BY <1>1, <1>12, <1>o DEF Good
  <2>n. PICK n, cur, whole :
           n \in Nat /\ n = H[o].n /\ cur = H[o].id /\ whole = H[s].up
    <3>1. H[o].n \in Nat
      BY <1>0, TypedFacts
    <3> QED  BY <3>1
  <2>2. Framed(l, n, whole) /\ Owned(l, n, cur, id, K) /\ News(l)
    BY <1>l, <1>o, <2>1, <2>n DEF Way
  <2>3. Framed(a, n, FALSE) /\ Owned(a, n, cur, id, K) /\ News(a)
    BY <1>l, <2>2, <2>n, LineCut
  <2>4. Owned(a, n, cur, id, K2)
    BY <1>8, <2>3 DEF Owned
  <2>5. Framed(a, n, H2[s].up)
    BY <1>2, <2>3 DEF Framed
  <2>6. ASSUME NEW c \in Client
        PROVE  /\ Bound(a, c, SentOff(K2, U, s, c))
               /\ Expects(H2, K2, o, c) =>
                    Flow(a, c, Arrived(K2, U, o, c), SentOff(K2, U, s, c), Live(H2, K2, s, c))
    <3>1. Bound(l, c, SentOff(K, U, s, c))
      BY <1>l, <2>1 DEF Way
    <3>2. Bound(a, c, SentOff(K2, U, s, c))
      BY <1>6, <1>l, <3>1, LineCut, <2>n
    <3>3. ASSUME Expects(H2, K2, o, c)
          PROVE  Flow(a, c, Arrived(K2, U, o, c), SentOff(K2, U, s, c), Live(H2, K2, s, c))
      <4>1. Expects(H, K, o, c)
        BY <1>11, <1>12, <3>3
      <4>2. Flow(l, c, Arrived(K, U, o, c), SentOff(K, U, s, c), Live(H, K, s, c))
        BY <1>l, <1>o, <2>1, <4>1 DEF Way
      <4>3. Flow(a, c, Arrived(K, U, o, c), SentOff(K, U, s, c), FALSE)
        BY <1>l, <2>n, <4>2, LineCut
      <4>4. ~Live(H2, K2, s, c)
        BY <1>2 DEF Live
      <4> QED  BY <1>6, <4>3, <4>4 DEF Flow
    <3> QED  BY <3>2, <3>3
  <2> QED  BY <1>1, <1>4, <1>o, <2>3, <2>4, <2>5, <2>6, <2>n DEF Way
<1>13. ASSUME NEW t \in Side, H2[Other(t)].up
       PROVE  Way(H2, K2, U, id, t)
  BY <1>2, <1>12, <1>13, <1>o
<1>14. ASSUME NEW c \in Client
       PROVE  Stage(H2, K2, U, id, c)
  <2>1. Stage(H, K, U, id, c)
    BY DEF Good
  <2>2. \A t \in Side : Listed(H2, t, c) => Listed(H, t, c)
    BY <1>3, <1>o
  <2>3. K2["box"][c].st = "none" => Pristine(K2, U, "box", c) /\ ~Listed(H2, "box", c)
    BY <1>0, <1>8, <1>9, <2>1, <2>2 DEF Stage
  <2>4. K2["box"][c].st = "none" \/ (K2["box"][c].st \in There /\ ~K2["box"][c].newSent) =>
          /\ Pristine(K2, U, "srv", c) /\ SentOff(K2, U, "box", c) = 0
          /\ H2["srv"].up => ~NewOnWay(H2, c)
    BY <1>0, <1>5, <1>6, <1>7, <1>8, <1>9, <1>10, <2>1 DEF Stage
  <2>5. H2["srv"].up /\ NewOnWay(H2, c) => Pristine(K2, U, "srv", c)
    BY <1>0, <1>9, <1>10, <2>1 DEF Stage
  <2>6. K2["srv"][c].st \in There => K2["srv"][c].newSent
    BY <1>0, <1>5, <1>7, <2>1 DEF Stage
  <2>7. K2["srv"][c].st = "none" => Pristine(K2, U, "srv", c)
    BY <1>0, <1>7, <1>9, <2>1 DEF Stage, There
  <2>8. \A t \in Side : /\ Listed(H2, t, c) => K2[t][c].st \in There
                        /\ K2[t][c].st \in There => K2[t][c].id = id[c] /\ id[c] # 0
    BY <1>5, <1>7, <2>1, <2>2 DEF Stage
  <2> QED  BY <2>3, <2>4, <2>5, <2>6, <2>7, <2>8 DEF Stage
<1>15. ASSUME NEW t \in Side, NEW c \in Client
       PROVE  Ends(K2, U, t, c)
  <2>1. Ends(K, U, t, c)
    BY DEF Good
  <2>2. /\ K2[t][c].in = K[t][c].in /\ K2[t][c].out = K[t][c].out
        /\ Arrived(K2, U, t, c) = Arrived(K, U, t, c)
        /\ SentOff(K2, U, Other(t), c) = SentOff(K, U, Other(t), c)
    BY <1>5, <1>6, OtherFacts
  <2> QED  BY <2>1, <2>2 DEF Ends
<1>16. \A t \in Side : ~H2[t].up => H2[t] = Closed
  <2>1. \A t \in Side : ~H[t].up => H[t] = Closed
    BY DEF Good
  <2> QED  BY <1>1, <1>o, <2>1
<1> QED  BY <1>0, <1>13, <1>14, <1>15, <1>16 DEF Good

LEMMA ClosedHub ==
    ASSUME NEW b \in BOOLEAN
    PROVE  /\ [Closed EXCEPT !.up = b] \in Hub /\ [Closed EXCEPT !.up = b].up = b
           /\ [Closed EXCEPT !.up = b].in = <<>> /\ [Closed EXCEPT !.up = b].out = <<>>
           /\ [Closed EXCEPT !.up = b].list = <<>> /\ [Closed EXCEPT !.up = b].n = 0
           /\ Closed \in Hub
<1>1. <<>> \in Seq(Item) /\ <<>> \in Seq(Client)
  OBVIOUS
<1>2. Closed \in Hub /\ Closed.in = <<>> /\ Closed.out = <<>> /\ Closed.list = <<>> /\ Closed.n = 0
  BY <1>1 DEF Closed, Hub
<1>c. PICK h \in Hub : h = Closed
  BY <1>2
<1>3. [h EXCEPT !.up = b] \in Hub /\ [h EXCEPT !.up = b].up = b
  BY DEF Hub
<1>4. /\ [h EXCEPT !.up = b].in = h.in /\ [h EXCEPT !.up = b].out = h.out
      /\ [h EXCEPT !.up = b].list = h.list /\ [h EXCEPT !.up = b].n = h.n
  BY DEF Hub
<1> QED  BY <1>2, <1>3, <1>4, <1>c

LEMMA BreakKeeps ==
    ASSUME NEW s \in Side, NEW id, Sound(id), Break(s)
    PROVE  Sound(id)'
<1>k. PICK k2 : k2 = [c \in Client |->
                        IF c \in Range(hub[s].list) THEN [con[s][c] EXCEPT !.st = "stop"] ELSE con[s][c]]
  OBVIOUS
<1>0. /\ hub[s].up /\ hub' = [hub EXCEPT ![s] = Closed] /\ con' = [con EXCEPT ![s] = k2]
      /\ user' = user /\ lastId' = lastId /\ env' = env
  BY <1>k DEF Break
<1>1. /\ Typed(hub, con, user) /\ hub \in [Side -> Hub] /\ con \in [Side -> [Client -> Con]]
      /\ user \in [Side -> [Client -> User]]
      /\ Good(hub, con, user, id) /\ env \in Environments
      /\ Numbered(id, lastId) /\ \A t \in Side : Fits(con[t])
  BY SoundFacts DEF Sound
<1>2. ASSUME NEW c \in Client
      PROVE  /\ k2[c] \in Con /\ k2[c].in = con[s][c].in /\ k2[c].out = con[s][c].out
             /\ k2[c].id = con[s][c].id /\ k2[c].newSent = con[s][c].newSent
             /\ Listed(hub, s, c) => k2[c].st = "stop"
             /\ ~Listed(hub, s, c) => k2[c] = con[s][c]
  <2>1. PICK k \in Con : k = con[s][c]
    BY <1>1
  <2>2. Listed(hub, s, c) <=> c \in Range(hub[s].list)
    BY DEF Listed
  <2>3. CASE c \in Range(hub[s].list)
    <3>1. k2[c] = [k EXCEPT !.st = "stop"]
      BY <1>k, <2>1, <2>3
    <3> QED  BY <2>1, <2>2, <2>3, <3>1 DEF Con, States
  <2>4. CASE c \notin Range(hub[s].list)
    <3>1. k2[c] = k
      BY <1>k, <2>1, <2>4
    <3> QED  BY <2>1, <2>2, <2>4, <3>1
  <2> QED  BY <2>3, <2>4
<1>3. k2 \in [Client -> Con]
  BY <1>2, <1>k
<1>4. con' \in [Side -> [Client -> Con]] /\ con'[s] = k2 /\ \A t \in Side : t # s => con'[t] = con[t]
  BY <1>0, <1>1, <1>3
<1>5. Closed \in Hub
  BY ClosedHub
<1>6. hub' \in [Side -> Hub] /\ hub'[s] = Closed /\ \A t \in Side : t # s => hub'[t] = hub[t]
  BY <1>0, <1>1, <1>5
<1>7. Typed(hub', con', user)
  BY <1>1, <1>4, <1>6 DEF Typed
<1>8. BreaksAt(hub, con, user, hub', con', s)
  <2>1. Other(s) \in Side /\ Other(s) # s
    BY OtherFacts
  <2> QED  BY <1>0, <1>2, <1>4, <1>6, <1>7, <2>1 DEF BreaksAt
<1>9. Good(hub', con', user', id)
  BY <1>0, <1>1, <1>8, GoodBroken
<1>11. Numbered(id, lastId')
  BY <1>0, <1>1
<1>12. ASSUME NEW t \in Side, NEW c \in Client
       PROVE  Len(con'[t][c].out) <= ConCap
  <2>1. con'[t][c].out = con[t][c].out
    BY <1>2, <1>4
  <2> QED  BY <1>1, <2>1 DEF Fits
<1> QED  BY <1>0, <1>1, <1>9, <1>11, <1>12, SoundNext

\* A new shared connection, nothing on its way and no client of it.
LEMMA GoodRelinked ==
    ASSUME NEW H, NEW K, NEW U, NEW id, NEW H2, Good(H, K, U, id), H2 \in [Side -> Hub],
           \A s \in Side : /\ ~H[s].up /\ H2[s].up /\ H2[s].in = <<>> /\ H2[s].out = <<>>
                           /\ H2[s].list = <<>> /\ H2[s].n = 0
    PROVE  Good(H2, K, U, id)
<1>0. Typed(H, K, U) /\ Typed(H2, K, U) /\ "box" \in Side /\ "srv" \in Side
  BY DEF Good, Typed, Side
<1>1. \A s \in Side, c \in Client : ~Listed(H2, s, c)
  <2>1. Range(<<>>) = {}
    BY DEF Range
  <2> QED  BY <2>1 DEF Listed
<1>2. ASSUME NEW s \in Side
      PROVE  Line(H2, s) = <<>> /\ Len(Line(H2, s)) = 0
  <2>1. <<>> \o <<>> = <<>> /\ Len(<<>>) = 0
    OBVIOUS
  <2>2. H2[Other(s)].in = <<>> /\ H2[s].out = <<>>
    BY OtherFacts
  <2>3. Line(H2, s) = <<>>
    BY <2>1, <2>2 DEF Line
  <2> QED  BY <2>1, <2>3
<1>3. \A c \in Client : ~NewOnWay(H2, c)
  BY <1>0, <1>2 DEF NewOnWay
<1>4. ASSUME NEW s \in Side
      PROVE  Way(H2, K, U, id, s)
  <2>1. PICK l : l = Line(H2, s) /\ Len(l) = 0
    BY <1>2
  <2>o. PICK o \in Side : o = Other(s)
    BY OtherFacts
  <2>2. H2[o].n = 0
    OBVIOUS
  <2>3. Framed(l, H2[o].n, H2[s].up)
    BY <2>1, <2>2 DEF Framed
  <2>4. Owned(l, H2[o].n, H2[o].id, id, K)
    BY <2>1 DEF Owned
  <2>5. News(l)
    BY <2>1 DEF News
  <2>6. \A c \in Client : /\ Bound(l, c, SentOff(K, U, s, c))
                          /\ ~Expects(H2, K, o, c)
    BY <1>1, <1>3, <2>1 DEF Bound, Expects
  <2> QED  BY <2>1, <2>3, <2>4, <2>5, <2>6, <2>o DEF Way
<1>5. ASSUME NEW c \in Client
      PROVE  Stage(H2, K, U, id, c)
  <2>1. Stage(H, K, U, id, c)
    BY DEF Good
  <2>2. K["box"][c].st = "none" => Pristine(K, U, "box", c)
    BY <2>1 DEF Stage
  <2>3. K["box"][c].st = "none" \/ (K["box"][c].st \in There /\ ~K["box"][c].newSent) =>
          Pristine(K, U, "srv", c) /\ SentOff(K, U, "box", c) = 0
    BY <2>1 DEF Stage
  <2>4. /\ K["srv"][c].st \in There => K["srv"][c].newSent
        /\ K["srv"][c].st = "none" => Pristine(K, U, "srv", c)
        /\ \A s \in Side : K[s][c].st \in There => K[s][c].id = id[c] /\ id[c] # 0
    BY <2>1 DEF Stage
  <2> QED  BY <1>0, <1>1, <1>3, <2>2, <2>3, <2>4 DEF Stage
<1>6. \A c \in Client, s \in Side : Ends(K, U, s, c)
  BY DEF Good
<1> QED  BY <1>0, <1>4, <1>5, <1>6 DEF Good

LEMMA RelinkKeeps ==
    ASSUME NEW id, Sound(id), Relink
    PROVE  Sound(id)'
<1>h. PICK h : h = [Closed EXCEPT !.up = TRUE]
  OBVIOUS
<1>0. /\ \A s \in Side : ~hub[s].up
      /\ hub' = [s \in Side |-> h] /\ con' = con /\ user' = user /\ lastId' = lastId /\ env' = env
  BY <1>h DEF Relink
<1>1. /\ Good(hub, con, user, id) /\ env \in Environments
      /\ Numbered(id, lastId) /\ \A t \in Side : Fits(con[t])
  BY DEF Sound
<1>2. h \in Hub /\ h.up /\ h.in = <<>> /\ h.out = <<>> /\ h.list = <<>> /\ h.n = 0
  BY <1>h, ClosedHub
<1>3. hub' \in [Side -> Hub] /\ \A s \in Side : hub'[s] = h
  BY <1>0, <1>2
<1>4. Good(hub', con, user, id)
  BY <1>0, <1>1, <1>2, <1>3, GoodRelinked
<1>5. Good(hub', con', user', id) /\ Numbered(id, lastId')
  BY <1>0, <1>1, <1>4
<1>6. \A t \in Side, c \in Client : Len(con'[t][c].out) <= ConCap
  BY <1>0, <1>1 DEF Fits
<1> QED  BY <1>0, <1>1, <1>5, <1>6, SoundNext

\* At the start both sides have the shared connection and no client.
LEMMA InitSound ==
    ASSUME Init
    PROVE  \E id : Sound(id)
<1>i. PICK id : id = [c \in Client |-> 0]
  OBVIOUS
<1>h. PICK h : h = [Closed EXCEPT !.up = TRUE]
  OBVIOUS
<1>u. PICK u : u = [sent |-> 0, got |-> <<>>, left |-> FALSE]
  OBVIOUS
<1>0. /\ hub = [s \in Side |-> h] /\ con = [s \in Side |-> [c \in Client |-> NoCon]]
      /\ user = [s \in Side |-> [c \in Client |-> u]] /\ lastId = 0 /\ env \in Environments
  BY <1>h, <1>u DEF Init
<1>1. h \in Hub /\ h.up /\ h.in = <<>> /\ h.out = <<>> /\ h.list = <<>> /\ h.n = 0
  BY <1>h, ClosedHub
<1>e. <<>> \in Seq(Item) /\ Len(<<>>) = 0
  OBVIOUS
<1>2. /\ NoCon \in Con /\ NoCon.st = "none" /\ NoCon.in = <<>> /\ NoCon.out = <<>>
  BY <1>e DEF NoCon, Con, States
<1>3. u \in User /\ u.sent = 0 /\ u.got = <<>>
  BY <1>e, <1>u DEF User
<1>4. /\ hub \in [Side -> Hub] /\ \A s \in Side : hub[s] = h
      /\ con \in [Side -> [Client -> Con]] /\ \A s \in Side, c \in Client : con[s][c] = NoCon
      /\ user \in [Side -> [Client -> User]] /\ \A s \in Side, c \in Client : user[s][c] = u
  BY <1>0, <1>1, <1>2, <1>3
<1>t. Typed(hub, con, user) /\ "box" \in Side /\ "srv" \in Side
  BY <1>4 DEF Typed, Side
<1>5. \A s \in Side, c \in Client : Pristine(con, user, s, c)
  BY <1>3, <1>4 DEF Pristine
<1>6. \A s \in Side, c \in Client : ~Listed(hub, s, c)
  <2>1. Range(<<>>) = {}
    BY DEF Range
  <2> QED  BY <1>1, <1>4, <2>1 DEF Listed
<1>7. \A s \in Side : Other(s) \in Side
  BY OtherFacts
<1>8. ASSUME NEW s \in Side
      PROVE  Line(hub, s) = <<>>
  <2>1. <<>> \o <<>> = <<>>
    OBVIOUS
  <2> QED  BY <1>1, <1>4, <1>7, <2>1 DEF Line
<1>9. \A c \in Client : ~NewOnWay(hub, c)
  BY <1>8, <1>e, <1>t DEF NewOnWay
<1>10. ASSUME NEW s \in Side
       PROVE  Way(hub, con, user, id, s)
  <2>1. PICK l : l = Line(hub, s) /\ Len(l) = 0
    BY <1>8, <1>e
  <2>o. PICK o \in Side : o = Other(s)
    BY <1>7
  <2>2. hub[o].n = 0
    BY <1>1, <1>4
  <2>3. Framed(l, hub[o].n, hub[s].up)
    BY <2>1, <2>2 DEF Framed
  <2>4. Owned(l, hub[o].n, hub[o].id, id, con)
    BY <2>1 DEF Owned
  <2>5. News(l)
    BY <2>1 DEF News
  <2>6. \A c \in Client : Bound(l, c, SentOff(con, user, s, c)) /\ ~Expects(hub, con, o, c)
    BY <1>6, <1>9, <2>1 DEF Bound, Expects
  <2> QED  BY <2>1, <2>3, <2>4, <2>5, <2>6, <2>o DEF Way
<1>11. ASSUME NEW c \in Client
       PROVE  Stage(hub, con, user, id, c) /\ \A s \in Side : Ends(con, user, s, c)
  <2>1. \A s \in Side : /\ con[s][c].st = "none" /\ con[s][c].st \notin There
                        /\ SentOff(con, user, s, c) = 0 /\ Arrived(con, user, s, c) = 0
    BY <1>5, PristineFacts DEF There
  <2>2. Stage(hub, con, user, id, c)
    BY <1>5, <1>6, <1>9, <1>t, <2>1 DEF Stage
  <2>3. ASSUME NEW s \in Side
        PROVE  Ends(con, user, s, c)
    <3>1. /\ con[s][c].in = <<>> /\ con[s][c].out = <<>> /\ user[s][c].sent = 0 /\ user[s][c].got = <<>>
      BY <1>2, <1>3, <1>4
    <3>2. Arrived(con, user, s, c) <= SentOff(con, user, Other(s), c)
      BY <1>7, <2>1
    <3> QED  BY <1>e, <3>1, <3>2 DEF Ends
  <2> QED  BY <2>2, <2>3
<1>12. Good(hub, con, user, id)
  BY <1>1, <1>4, <1>10, <1>11, <1>t DEF Good
<1>13. Numbered(id, lastId)
  <2>1. id \in [Client -> Int] /\ \A c \in Client : id[c] = 0
    BY <1>i
  <2> QED  BY <1>0, <2>1 DEF Numbered, Apart
<1>14. \A s \in Side : Fits(con[s])
  <2>1. ConCap \in Nat
    BY <1>0, SwitchboxAssumption DEF ConCap
  <2> QED  BY <1>2, <1>4, <1>e, <2>1 DEF Fits
<1> QED  BY <1>0, <1>12, <1>13, <1>14 DEF Sound

LEMMA UnchangedKeeps ==
    ASSUME NEW id, Sound(id), UNCHANGED vars
    PROVE  Sound(id)'
<1>0. hub' = hub /\ con' = con /\ user' = user /\ lastId' = lastId /\ env' = env
  BY DEF vars
<1>1. /\ env \in Environments /\ Good(hub, con, user, id) /\ Numbered(id, lastId)
      /\ \A s \in Side : Fits(con[s])
  BY DEF Sound
<1>2. Good(hub', con', user', id) /\ Numbered(id, lastId')
  BY <1>0, <1>1
<1>3. \A s \in Side, c \in Client : Len(con'[s][c].out) <= ConCap
  BY <1>0, <1>1 DEF Fits
<1> QED  BY <1>0, <1>1, <1>2, <1>3, SoundNext

----------------------------------------------------------------------------
(* The theorems.                                                           *)

LEMMA InvIsSound ==
    SwitchInv <=> \E id \in [Client -> Int] : Sound(id)
BY DEF SwitchInv, Sound, Numbered

LEMMA InitInv ==
    Init => SwitchInv
<1> SUFFICES ASSUME Init PROVE SwitchInv
  OBVIOUS
<1>1. PICK id : Sound(id)
  BY InitSound
<1>2. id \in [Client -> Int]
  BY <1>1 DEF Sound, Numbered
<1> QED  BY <1>1, <1>2, InvIsSound

LEMMA NextInv ==
    SwitchInv /\ [Next]_vars /\ [CleanReuse]_vars => SwitchInv'
<1> SUFFICES ASSUME SwitchInv, [Next]_vars, [CleanReuse]_vars PROVE SwitchInv'
  OBVIOUS
<1>1. PICK id \in [Client -> Int] : Sound(id)
  BY InvIsSound
<1>2. (\E id2 \in [Client -> Int] : Sound(id2)') => SwitchInv'
  BY DEF SwitchInv, Sound, Numbered
<1>3. Sound(id)' => SwitchInv'
  BY <1>2
<1>4. CASE Work
  <2>1. ASSUME NEW s \in Side, Run(s)
        PROVE  SwitchInv'
    BY <1>1, <1>3, <2>1, RunKeeps
  <2>2. ASSUME NEW s \in Side, SendKeepAlive(s)
        PROVE  SwitchInv'
    BY <1>1, <1>3, <2>2, SendKeepAliveKeeps
  <2>3. ASSUME NEW s \in Side, Transfer(s)
        PROVE  SwitchInv'
    BY <1>1, <1>3, <2>3, TransferKeeps
  <2> QED  BY <1>4, <2>1, <2>2, <2>3 DEF Work
<1>5. CASE Relink
  BY <1>1, <1>3, <1>5, RelinkKeeps
<1>6. ASSUME NEW s \in Side, Break(s)
      PROVE  SwitchInv'
  BY <1>1, <1>3, <1>6, BreakKeeps
<1>7. ASSUME NEW c \in Client, UserStep(c)
      PROVE  SwitchInv'
  <2>1. CASE Connect(c)
    <3>1. CleanReuse
      <4>1. lastId' # lastId \/ con' # con
        <5>1. con["box"][c].st = "none" /\ con'["box"][c].st = "run"
          BY <1>1, <2>1, SoundFacts DEF Connect, Side, NoCon
        <5> QED  BY <5>1
      <4> QED  BY <4>1 DEF vars
    <3> QED  BY <1>1, <1>2, <2>1, <3>1, ConnectKeeps
  <2>2. CASE EndClient(c)
    BY <1>1, <1>3, <2>2, EndClientKeeps
  <2>3. ASSUME NEW s \in Side, Write(s, c)
        PROVE  SwitchInv'
    BY <1>1, <1>3, <2>3, WriteKeeps
  <2>4. ASSUME NEW s \in Side, Read(s, c)
        PROVE  SwitchInv'
    BY <1>1, <1>3, <2>4, ReadKeeps
  <2> QED  BY <1>7, <2>1, <2>2, <2>3, <2>4 DEF UserStep
<1>8. ASSUME NEW c \in Client, Leave(c)
      PROVE  SwitchInv'
  BY <1>1, <1>3, <1>8, LeaveKeeps
<1>9. ASSUME NEW c \in Client, CloseSocket(c)
      PROVE  SwitchInv'
  BY <1>1, <1>3, <1>9, CloseSocketKeeps
<1>10. CASE UNCHANGED vars
  BY <1>1, <1>3, <1>10, UnchangedKeeps
<1> QED  BY <1>4, <1>5, <1>6, <1>7, <1>8, <1>9, <1>10 DEF Next

\* What is on its way from a side is framed, belongs to the ids in its headers
\* and goes on where what has arrived ends; no two connections have an id that
\* one of them still uses, as the ids come round.
THEOREM SwitchInvariance == CleanSpec => []SwitchInv
<1>1. Init => SwitchInv
  BY InitInv
<1>2. SwitchInv /\ [Next]_vars /\ [CleanReuse]_vars => SwitchInv'
  BY NextInv
<1> QED  BY <1>1, <1>2, PTL DEF CleanSpec, Spec

LEMMA EndsApart ==
    ASSUME NEW K, NEW U, NEW H, Typed(H, K, U), NEW s \in Side, NEW c \in Client,
           Ends(K, U, s, c), Ends(K, U, Other(s), c)
    PROVE  /\ U[s][c].got = [i \in 1 .. Len(U[s][c].got) |-> Byte(c, i)]
           /\ Len(U[s][c].got) <= U[Other(s)][c].sent
<1>o. PICK o \in Side : o = Other(s)
  BY OtherFacts
<1>1. PICK got \in Seq(Item) : got = U[s][c].got /\ \A i \in 1 .. Len(got) : got[i] = Byte(c, i)
  <2>1. U[s][c].got \in Seq(Item)
    BY TypedFacts
  <2> QED  BY <2>1 DEF Ends
<1>2. got = [i \in 1 .. Len(got) |-> Byte(c, i)]
  <2>1. got = [i \in 1 .. Len(got) |-> got[i]]
    OBVIOUS
  <2> QED  BY <1>1, <2>1
<1>3. /\ Arrived(K, U, s, c) <= SentOff(K, U, o, c)
      /\ Len(U[s][c].got) + Len(K[s][c].out) <= U[o][c].sent - Len(K[o][c].in)
  BY <1>o DEF Ends, Arrived, SentOff
<1>4. Len(U[s][c].got) \in Nat /\ Len(K[s][c].out) \in Nat /\ U[o][c].sent \in Nat /\ Len(K[o][c].in) \in Nat
  <2>1. /\ U[s][c].got \in Seq(Item) /\ K[s][c].out \in Seq(Item) /\ U[o][c].sent \in Nat
        /\ K[o][c].in \in Seq(Item)
    BY TypedFacts
  <2>2. \A q \in Seq(Item) : Len(q) \in Nat
    BY NotEmpty
  <2>3. Len(U[s][c].got) \in Nat
    BY <2>1, <2>2
  <2>4. Len(K[s][c].out) \in Nat
    BY <2>1, <2>2
  <2>5. Len(K[o][c].in) \in Nat
    BY <2>1, <2>2
  <2> QED  BY <2>1, <2>3, <2>4, <2>5
<1>5. Len(U[s][c].got) <= U[o][c].sent
  <2>1. PICK g \in Nat, w \in Nat, m \in Nat, q \in Nat :
            g = Len(U[s][c].got) /\ w = Len(K[s][c].out) /\ m = U[o][c].sent /\ q = Len(K[o][c].in)
    BY <1>4
  <2>2. g + w <= m - q
    BY <1>3, <2>1
  <2>3. g <= m
    BY <2>2
  <2> QED  BY <2>1, <2>3
<1> QED  BY <1>1, <1>2, <1>5, <1>o

\* What is read at one end of a connection is what was written first at its
\* other end, whoever shares the connection, had its id before, leaves it or
\* breaks it: for every number of clients and of ids and every size of the
\* rings, as long as an id that is given again is not in use any more.
THEOREM StreamsStayApart == CleanSpec => []StreamsApart
<1>1. SwitchInv => StreamsApart
  <2> SUFFICES ASSUME SwitchInv PROVE StreamsApart
    OBVIOUS
  <2>1. PICK id : Good(hub, con, user, id)
    BY DEF SwitchInv
  <2>2. Typed(hub, con, user) /\ \A s \in Side, c \in Client : Ends(con, user, s, c)
    BY <2>1 DEF Good
  <2>3. ASSUME NEW s \in Side, NEW c \in Client
        PROVE  /\ user[s][c].got = [i \in 1 .. Len(user[s][c].got) |-> Byte(c, i)]
               /\ Len(user[s][c].got) <= user[Other(s)][c].sent
    <3>1. Ends(con, user, s, c) /\ Ends(con, user, Other(s), c)
      BY <2>2, OtherFacts
    <3> QED  BY <2>2, <3>1, EndsApart
  <2> QED  BY <2>3 DEF StreamsApart
<1> QED  BY <1>1, SwitchInvariance, PTL

LEMMA FramedHead ==
    ASSUME NEW a \in Seq(Item), NEW b \in Seq(Item), NEW n \in Nat, NEW whole,
           Framed(a \o b, n, whole), a # <<>>
    PROVE  Head(a).t = "hdr" <=> n = 0
<1>1. 1 \in 1 .. Len(a) /\ Len(a) \in Nat /\ Len(b) \in Nat
  BY NotEmpty
<1>2. Len(a \o b) = Len(a) + Len(b) /\ (a \o b)[1] = a[1]
  BY <1>1, ConcatFacts
<1>3. 1 \in 1 .. Len(a \o b) /\ Head(a) = a[1]
  BY <1>1, <1>2
<1>4. (1 <= n => a[1].t = "byte") /\ (1 = n + 1 => a[1].t = "hdr")
  BY <1>2, <1>3 DEF Framed
<1> QED  BY <1>3, <1>4

\* The loop never takes a byte for a header or a header for a byte.
THEOREM RingsStayFramed == CleanSpec => []RingsFramed
<1>1. SwitchInv => RingsFramed
  <2> SUFFICES ASSUME SwitchInv, NEW s \in Side, hub[s].in # <<>>
               PROVE  Head(hub[s].in).t = "hdr" <=> hub[s].n = 0
    BY DEF RingsFramed
  <2>1. PICK id : Good(hub, con, user, id)
    BY DEF SwitchInv
  <2>o. PICK o \in Side : o = Other(s) /\ Other(o) = s
    BY OtherFacts
  <2>2. Typed(hub, con, user)
    BY <2>1 DEF Good
  <2>3. PICK a, b, n, whole :
            /\ a \in Seq(Item) /\ b \in Seq(Item) /\ n \in Nat
            /\ a = hub[s].in /\ b = hub[o].out /\ n = hub[s].n /\ whole = hub[o].up
    BY <2>2, TypedFacts
  <2>4. hub[s].up
    <3>1. ASSUME ~hub[s].up
          PROVE  FALSE
      <4>1. hub[s] = Closed
        BY <2>1, <3>1 DEF Good
      <4> QED  BY <4>1 DEF Closed
    <3> QED  BY <3>1
  <2>5. Way(hub, con, user, id, o)
    BY <2>1, <2>4, <2>o DEF Good
  <2>6. Framed(a \o b, n, whole)
    BY <2>3, <2>5, <2>o DEF Way, Line
  <2> QED  BY <2>3, <2>6, FramedHead
<1> QED  BY <1>1, SwitchInvariance, PTL

=============================================================================
