---------------------------- MODULE ListApiProofs ----------------------------
(***************************************************************************)
(* Proofs about ListApi, for any number of lists and entries: every call   *)
(* of list.h's API keeps the pointers a faithful image of the sequences.   *)
(*                                                                         *)
(* A call cuts the rings of one or two lists into pieces and joins the     *)
(* pieces anew, so the argument is about paths: Path(p, x, s, y) says that *)
(* in heap p the pointers lead from x through s to y and back.             *)
(***************************************************************************)
EXTENDS ListApi, ClientListProofs

First(s, d) == IF s = <<>> THEN d ELSE s[1]
Last(s, d)  == IF s = <<>> THEN d ELSE s[Len(s)]

Arrow(p, a, b) == p.next[a] = b /\ p.prev[b] = a

Inner(p, s) == \A i \in 1 .. Len(s) - 1 : Arrow(p, s[i], s[i + 1])

Path(p, x, s, y) ==
  Arrow(p, x, First(s, y)) /\ Inner(p, s) /\ Arrow(p, Last(s, x), y)

-----------------------------------------------------------------------------
(* Sequences. *)
LEMMA SeqSame ==
  ASSUME NEW S, NEW s \in Seq(S), NEW t \in Seq(S), Len(s) = Len(t),
         \A i \in 1 .. Len(s) : s[i] = t[i]
  PROVE  s = t
OBVIOUS

LEMMA JoinIndex ==
  ASSUME NEW S, NEW s \in Seq(S), NEW t \in Seq(S)
  PROVE  /\ s \o t \in Seq(S) /\ Len(s) \in Nat /\ Len(t) \in Nat
         /\ Len(s \o t) = Len(s) + Len(t)
         /\ \A i \in 1 .. Len(s) : (s \o t)[i] = s[i]
         /\ \A i \in 1 .. Len(t) : (s \o t)[Len(s) + i] = t[i]
OBVIOUS

LEMMA EmptyLen ==
  ASSUME NEW S, NEW s \in Seq(S)
  PROVE  /\ Len(s) \in Nat
         /\ s = <<>> <=> Len(s) = 0
         /\ s # <<>> => 1 \in 1 .. Len(s) /\ Len(s) \in 1 .. Len(s)
OBVIOUS

LEMMA JoinElems ==
  ASSUME NEW S, NEW s \in Seq(S), NEW t \in Seq(S)
  PROVE  Elems(s \o t) = Elems(s) \cup Elems(t)
<1>1. ASSUME NEW i \in 1 .. Len(s \o t) PROVE (s \o t)[i] \in Elems(s) \cup Elems(t)
  <2>1. CASE i <= Len(s)
    BY <2>1, JoinIndex DEF Elems
  <2>2. CASE i > Len(s)
    <3>1. i - Len(s) \in 1 .. Len(t) /\ Len(s) + (i - Len(s)) = i
      BY <2>2, JoinIndex
    <3> QED BY <3>1, JoinIndex DEF Elems
  <2> QED BY <2>1, <2>2, JoinIndex
<1>2. ASSUME NEW i \in 1 .. Len(s) PROVE s[i] \in Elems(s \o t)
  BY JoinIndex DEF Elems
<1>3. ASSUME NEW i \in 1 .. Len(t) PROVE t[i] \in Elems(s \o t)
  <2>1. Len(s) + i \in 1 .. Len(s \o t)
    BY JoinIndex
  <2>2. (s \o t)[Len(s) + i] = t[i]
    BY JoinIndex
  <2> QED BY <2>1, <2>2 DEF Elems
<1> QED BY <1>1, <1>2, <1>3, Zenon DEF Elems

LEMMA JoinUnique ==
  ASSUME NEW S, NEW s \in Seq(S), NEW t \in Seq(S)
  PROVE  Unique(s \o t) <=> Unique(s) /\ Unique(t) /\ Elems(s) \cap Elems(t) = {}
<1> DEFINE u == s \o t
<1>0. /\ Len(s) \in Nat /\ Len(t) \in Nat /\ Len(u) = Len(s) + Len(t)
      /\ \A i \in 1 .. Len(s) : u[i] = s[i]
      /\ \A i \in 1 .. Len(t) : u[Len(s) + i] = t[i]
  BY JoinIndex
<1> HIDE DEF u
<1>1. ASSUME Unique(u) PROVE Unique(s) /\ Unique(t) /\ Elems(s) \cap Elems(t) = {}
  <2>1. ASSUME NEW i \in 1 .. Len(s), NEW j \in 1 .. Len(s), s[i] = s[j] PROVE i = j
    <3>1. i \in 1 .. Len(u) /\ j \in 1 .. Len(u) /\ u[i] = u[j]
      BY <1>0, <2>1
    <3> QED BY <1>1, <3>1 DEF Unique
  <2>2. ASSUME NEW i \in 1 .. Len(t), NEW j \in 1 .. Len(t), t[i] = t[j] PROVE i = j
    <3>1. /\ Len(s) + i \in 1 .. Len(u) /\ Len(s) + j \in 1 .. Len(u)
          /\ u[Len(s) + i] = u[Len(s) + j]
      BY <1>0, <2>2
    <3>2. Len(s) + i = Len(s) + j
      BY <1>1, <3>1 DEF Unique
    <3> QED BY <1>0, <3>2
  <2>3. ASSUME NEW i \in 1 .. Len(s), NEW j \in 1 .. Len(t) PROVE s[i] # t[j]
    <3>1. /\ i \in 1 .. Len(u) /\ Len(s) + j \in 1 .. Len(u) /\ i # Len(s) + j
          /\ u[i] = s[i] /\ u[Len(s) + j] = t[j]
      BY <1>0
    <3> QED BY <1>1, <3>1 DEF Unique
  <2> QED BY <2>1, <2>2, <2>3 DEF Unique, Elems
<1>2. ASSUME Unique(s), Unique(t), Elems(s) \cap Elems(t) = {}
      PROVE  Unique(u)
  <2> SUFFICES ASSUME NEW i \in 1 .. Len(u), NEW j \in 1 .. Len(u), u[i] = u[j]
               PROVE  i = j
    BY DEF Unique
  <2>1. \A k \in 1 .. Len(u) : \/ k \in 1 .. Len(s) /\ u[k] = s[k]
                               \/ \E m \in 1 .. Len(t) : k = Len(s) + m /\ u[k] = t[m]
    <3> TAKE k \in 1 .. Len(u)
    <3>1. CASE k <= Len(s)
      BY <1>0, <3>1
    <3>2. CASE k > Len(s)
      <4>1. k - Len(s) \in 1 .. Len(t) /\ k = Len(s) + (k - Len(s))
        BY <1>0, <3>2
      <4> QED BY <1>0, <4>1
    <3> QED BY <1>0, <3>1, <3>2
  <2>2. \A k \in 1 .. Len(s), m \in 1 .. Len(t) : s[k] # t[m]
    BY <1>2, Zenon DEF Elems
  <2>3. CASE i \in 1 .. Len(s) /\ u[i] = s[i]
    BY <1>2, <2>1, <2>2, <2>3, Zenon DEF Unique
  <2>4. CASE \E m \in 1 .. Len(t) : i = Len(s) + m /\ u[i] = t[m]
    BY <1>2, <2>1, <2>2, <2>4, Zenon DEF Unique
  <2> QED BY <2>1, <2>3, <2>4
<1> QED BY <1>1, <1>2 DEF u

LEMMA JoinEnds ==
  ASSUME NEW S, NEW s \in Seq(S), NEW t \in Seq(S), NEW d
  PROVE  /\ First(s \o t, d) = First(s, First(t, d))
         /\ Last(s \o t, d) = Last(t, Last(s, d))
         /\ First(s, d) \in {d} \cup Elems(s) /\ Last(s, d) \in {d} \cup Elems(s)
         /\ s # <<>> => First(s, d) \in Elems(s) /\ Last(s, d) \in Elems(s)
<1>1. First(s \o t, d) = First(s, First(t, d))
  BY JoinIndex, EmptyLen DEF First
<1>2. Last(s \o t, d) = Last(t, Last(s, d))
  <2>1. CASE t = <<>>
    <3>1. s \o t = s
      BY <2>1
    <3> QED BY <2>1, <3>1 DEF Last
  <2>2. CASE t # <<>>
    <3>1. /\ Len(t) \in 1 .. Len(t) /\ Len(s \o t) = Len(s) + Len(t) /\ s \o t # <<>>
          /\ (s \o t)[Len(s) + Len(t)] = t[Len(t)]
      BY <2>2, JoinIndex, EmptyLen
    <3> QED BY <2>2, <3>1 DEF Last
  <2> QED BY <2>1, <2>2
<1>3. s # <<>> => First(s, d) \in Elems(s) /\ Last(s, d) \in Elems(s)
  BY EmptyLen DEF First, Last, Elems
<1>4. s = <<>> => First(s, d) = d /\ Last(s, d) = d
  BY DEF First, Last
<1> QED BY <1>1, <1>2, <1>3, <1>4

-----------------------------------------------------------------------------
(* Paths. *)
LEMMA InnerJoin ==
  ASSUME NEW S, NEW s \in Seq(S), NEW t \in Seq(S), NEW p
  PROVE  Inner(p, s \o t) <=>
           /\ Inner(p, s) /\ Inner(p, t)
           /\ s # <<>> /\ t # <<>> => Arrow(p, s[Len(s)], t[1])
<1> DEFINE u == s \o t
<1>0. /\ Len(s) \in Nat /\ Len(t) \in Nat /\ Len(u) = Len(s) + Len(t)
      /\ \A i \in 1 .. Len(s) : u[i] = s[i]
      /\ \A i \in 1 .. Len(t) : u[Len(s) + i] = t[i]
  BY JoinIndex
<1>e. (s = <<>> <=> Len(s) = 0) /\ (t = <<>> <=> Len(t) = 0)
  BY EmptyLen
<1> HIDE DEF u
<1>1. ASSUME Inner(p, u)
      PROVE  /\ Inner(p, s) /\ Inner(p, t)
             /\ s # <<>> /\ t # <<>> => Arrow(p, s[Len(s)], t[1])
  <2>1. ASSUME NEW i \in 1 .. Len(s) - 1 PROVE Arrow(p, s[i], s[i + 1])
    <3>1. i \in 1 .. Len(u) - 1 /\ i \in 1 .. Len(s) /\ i + 1 \in 1 .. Len(s)
      BY <1>0
    <3> QED BY <1>0, <1>1, <3>1 DEF Inner
  <2>2. ASSUME NEW i \in 1 .. Len(t) - 1 PROVE Arrow(p, t[i], t[i + 1])
    <3>1. /\ Len(s) + i \in 1 .. Len(u) - 1 /\ i \in 1 .. Len(t) /\ i + 1 \in 1 .. Len(t)
          /\ (Len(s) + i) + 1 = Len(s) + (i + 1)
      BY <1>0
    <3>2. Arrow(p, u[Len(s) + i], u[(Len(s) + i) + 1])
      BY <1>1, <3>1 DEF Inner
    <3> QED BY <1>0, <3>1, <3>2
  <2>3. ASSUME s # <<>>, t # <<>> PROVE Arrow(p, s[Len(s)], t[1])
    <3>1. Len(s) \in 1 .. Len(u) - 1 /\ Len(s) \in 1 .. Len(s) /\ 1 \in 1 .. Len(t)
      BY <1>0, <1>e, <2>3
    <3> QED BY <1>0, <1>1, <3>1 DEF Inner
  <2> QED BY <2>1, <2>2, <2>3 DEF Inner
<1>2. ASSUME Inner(p, s), Inner(p, t), s # <<>> /\ t # <<>> => Arrow(p, s[Len(s)], t[1])
      PROVE  Inner(p, u)
  <2> SUFFICES ASSUME NEW i \in 1 .. Len(u) - 1 PROVE Arrow(p, u[i], u[i + 1])
    BY DEF Inner
  <2>1. CASE i < Len(s)
    <3>1. i \in 1 .. Len(s) - 1 /\ i \in 1 .. Len(s) /\ i + 1 \in 1 .. Len(s)
      BY <1>0, <2>1
    <3> QED BY <1>0, <1>2, <3>1 DEF Inner
  <2>2. CASE i = Len(s)
    <3>1. Len(s) \in 1 .. Len(s) /\ 1 \in 1 .. Len(t) /\ i + 1 = Len(s) + 1
      BY <1>0, <2>2
    <3> QED BY <1>0, <1>e, <1>2, <2>2, <3>1
  <2>3. CASE i > Len(s)
    <3> DEFINE j == i - Len(s)
    <3>1. /\ j \in 1 .. Len(t) - 1 /\ j \in 1 .. Len(t) /\ j + 1 \in 1 .. Len(t)
          /\ i = Len(s) + j /\ i + 1 = Len(s) + (j + 1)
      BY <1>0, <2>3
    <3> HIDE DEF j
    <3>2. u[i] = t[j] /\ u[i + 1] = t[j + 1]
      BY <1>0, <3>1
    <3> QED BY <1>2, <3>1, <3>2 DEF Inner
  <2> QED BY <1>0, <2>1, <2>2, <2>3
<1> QED BY <1>1, <1>2 DEF u

(* A path through two sequences is two paths that meet. *)
LEMMA PathJoin ==
  ASSUME NEW S, NEW s \in Seq(S), NEW t \in Seq(S), NEW p, NEW x, NEW y
  PROVE  Path(p, x, s \o t, y) <=>
           Path(p, x, s, First(t, y)) /\ Path(p, Last(s, x), t, y)
<1>1. /\ First(s \o t, y) = First(s, First(t, y))
      /\ Last(s \o t, x) = Last(t, Last(s, x))
  BY JoinEnds
<1>2. Inner(p, s \o t) <=>
        /\ Inner(p, s) /\ Inner(p, t)
        /\ s # <<>> /\ t # <<>> => Arrow(p, s[Len(s)], t[1])
  BY InnerJoin
<1>3. CASE s = <<>>
  BY <1>1, <1>2, <1>3 DEF Path, First, Last
<1>4. CASE t = <<>>
  BY <1>1, <1>2, <1>4 DEF Path, First, Last
<1>5. CASE s # <<>> /\ t # <<>>
  BY <1>1, <1>2, <1>5 DEF Path, First, Last
<1> QED BY <1>3, <1>4, <1>5

(* A ring is a path from its head to its head. *)
LEMMA LinksPath ==
  ASSUME NEW h \in ListHead, NEW s \in Seq(Entry), NEW p
  PROVE  Links(h, s, p.next, p.prev) <=> Path(p, h, s, h)
<1>0. Len(s) \in Nat /\ (s = <<>> <=> Len(s) = 0)
  BY EmptyLen
<1>1. /\ \A i \in 1 .. Len(s) : Ring(h, s, i) = s[i]
      /\ Ring(h, s, 0) = h /\ Ring(h, s, Len(s) + 1) = h
      /\ Ring(h, s, 1) = First(s, h) /\ Ring(h, s, Len(s)) = Last(s, h)
  BY <1>0 DEF Ring, First, Last
<1>2. ASSUME Links(h, s, p.next, p.prev) PROVE Path(p, h, s, h)
  <2>1. \A i \in 0 .. Len(s) : Arrow(p, Ring(h, s, i), Ring(h, s, i + 1))
    BY <1>2 DEF Links, Arrow
  <2>2. Arrow(p, h, First(s, h)) /\ Arrow(p, Last(s, h), h)
    <3>1. 0 \in 0 .. Len(s) /\ Len(s) \in 0 .. Len(s) /\ 0 + 1 = 1
      BY <1>0
    <3> QED BY <1>1, <2>1, <3>1
  <2>3. ASSUME NEW i \in 1 .. Len(s) - 1 PROVE Arrow(p, s[i], s[i + 1])
    <3>1. i \in 0 .. Len(s) /\ i \in 1 .. Len(s) /\ i + 1 \in 1 .. Len(s)
      BY <1>0
    <3> QED BY <1>1, <2>1, <3>1
  <2> QED BY <2>2, <2>3 DEF Path, Inner
<1>3. ASSUME Path(p, h, s, h) PROVE Links(h, s, p.next, p.prev)
  <2> SUFFICES ASSUME NEW i \in 0 .. Len(s)
               PROVE  Arrow(p, Ring(h, s, i), Ring(h, s, i + 1))
    BY DEF Links, Arrow
  <2>1. CASE i = 0
    BY <1>1, <1>3, <2>1 DEF Path
  <2>2. CASE i = Len(s)
    BY <1>1, <1>3, <2>2 DEF Path
  <2>3. CASE i # 0 /\ i # Len(s)
    <3>1. i \in 1 .. Len(s) - 1 /\ i \in 1 .. Len(s) /\ i + 1 \in 1 .. Len(s)
      BY <1>0, <2>3
    <3> QED BY <1>1, <1>3, <3>1 DEF Path, Inner
  <2> QED BY <2>1, <2>2, <2>3
<1> QED BY <1>2, <1>3

\* q is p but for the next pointers of A and the prev pointers of B
Rewired(p, q, A, B) ==
  /\ \A n \in Node \ A : q.next[n] = p.next[n]
  /\ \A n \in Node \ B : q.prev[n] = p.prev[n]

(* A piece of a ring survives when only its ends are rewired. *)
LEMMA InnerKept ==
  ASSUME NEW s \in Seq(Node), Unique(s), NEW p, NEW q, NEW A, NEW B, NEW d,
         Rewired(p, q, A, B), Inner(p, s),
         A \cap Elems(s) \subseteq {Last(s, d)}, B \cap Elems(s) \subseteq {First(s, d)}
  PROVE  Inner(q, s)
<1> SUFFICES ASSUME NEW i \in 1 .. Len(s) - 1 PROVE Arrow(q, s[i], s[i + 1])
  BY DEF Inner
<1>1. /\ Len(s) \in Nat /\ i \in 1 .. Len(s) /\ i + 1 \in 1 .. Len(s) /\ i # Len(s)
      /\ Len(s) \in 1 .. Len(s) /\ 1 \in 1 .. Len(s) /\ i + 1 # 1 /\ s # <<>>
  BY EmptyLen
<1>2. s[i] \in Elems(s) /\ s[i + 1] \in Elems(s) /\ s[i] \in Node /\ s[i + 1] \in Node
  BY <1>1 DEF Elems
<1>3. s[i] # s[Len(s)] /\ s[i + 1] # s[1]
  BY <1>1 DEF Unique
<1>4. s[i] \notin A /\ s[i + 1] \notin B
  BY <1>1, <1>2, <1>3 DEF First, Last
<1>5. Arrow(p, s[i], s[i + 1])
  BY DEF Inner
<1> QED BY <1>2, <1>4, <1>5 DEF Rewired, Arrow

LEMMA ArrowKept ==
  ASSUME NEW p, NEW q, NEW A, NEW B, Rewired(p, q, A, B),
         NEW a \in Node \ A, NEW b \in Node \ B, Arrow(p, a, b)
  PROVE  Arrow(q, a, b)
BY DEF Rewired, Arrow

(* A ring away from the rewired nodes is kept. *)
LEMMA LinksKept ==
  ASSUME NEW h \in ListHead, NEW s \in Seq(Entry), NEW p, NEW q, NEW A,
         Rewired(p, q, A, A), ({h} \cup Elems(s)) \cap A = {}, Links(h, s, p.next, p.prev)
  PROVE  Links(h, s, q.next, q.prev)
<1>1. {h} \cup Elems(s) \subseteq Node
  BY DEF Elems, Node
<1>2. \A n \in {h} \cup Elems(s) : q.next[n] = p.next[n] /\ q.prev[n] = p.prev[n]
  BY <1>1 DEF Rewired
<1> QED BY <1>2, LinksElsewhere

(* The piece m of the ring of h is exchanged for the piece n. *)
LEMMA Exchange ==
  ASSUME NEW h \in ListHead, NEW a \in Seq(Entry), NEW m \in Seq(Entry),
         NEW b \in Seq(Entry), NEW n \in Seq(Entry), NEW p, NEW q, NEW A, NEW B,
         Path(p, h, a \o (m \o b), h), Unique(a \o (m \o b)),
         Rewired(p, q, A, B), Inner(q, n),
         A \subseteq {Last(a, h)} \cup (Node \ ({h} \cup Elems(a) \cup Elems(b))),
         B \subseteq {First(b, h)} \cup (Node \ ({h} \cup Elems(a) \cup Elems(b))),
         Arrow(q, Last(a, h), First(n, First(b, h))),
         Arrow(q, Last(n, Last(a, h)), First(b, h))
  PROVE  Path(q, h, a \o (n \o b), h)
<1>0. /\ Elems(a) \subseteq Entry /\ Elems(b) \subseteq Entry /\ h \notin Entry
      /\ m \o b \in Seq(Entry) /\ n \o b \in Seq(Entry)
      /\ a \in Seq(Node) /\ b \in Seq(Node) /\ Entry \subseteq Node /\ h \in Node
  BY NodesAssumption DEF Elems, Node
<1>1. Unique(a) /\ Unique(b) /\ Elems(a) \cap Elems(b) = {}
  <2>1. Unique(a) /\ Unique(m \o b) /\ Elems(a) \cap Elems(m \o b) = {}
    BY <1>0, JoinUnique, Zenon
  <2>2. Elems(m \o b) = Elems(m) \cup Elems(b)
    BY JoinElems
  <2>3. Unique(b)
    BY <2>1, JoinUnique
  <2> QED BY <2>1, <2>2, <2>3
<1>2. Path(p, h, a, First(m \o b, h)) /\ Path(p, Last(a, h), m \o b, h)
  BY <1>0, PathJoin, Zenon
<1>3. Path(p, Last(m, Last(a, h)), b, h)
  BY <1>2, PathJoin
<1>4. /\ (a = <<>> => Last(a, h) = h) /\ (b = <<>> => First(b, h) = h)
      /\ (a # <<>> => Last(a, h) \in Elems(a) /\ First(a, h) \in Elems(a))
      /\ (b # <<>> => First(b, h) \in Elems(b) /\ Last(b, h) \in Elems(b))
  BY JoinEnds DEF First, Last
<1>5. Inner(q, a)
  <2>1. A \cap Elems(a) \subseteq {Last(a, h)}
    BY <1>0
  <2>2. B \cap Elems(a) = {}
    BY <1>0, <1>1, <1>4
  <2> QED BY <1>0, <1>1, <1>2, <2>1, <2>2, InnerKept, Zenon DEF Path
<1>6. Inner(q, b)
  <2>1. B \cap Elems(b) \subseteq {First(b, h)}
    BY <1>0
  <2>2. A \cap Elems(b) = {}
    BY <1>0, <1>1, <1>4
  <2> QED BY <1>0, <1>1, <1>3, <2>1, <2>2, InnerKept DEF Path
<1>7. Path(q, h, a, First(n \o b, h))
  <2>1. First(n \o b, h) = First(n, First(b, h))
    BY JoinEnds
  <2>2. CASE a = <<>>
    BY <1>5, <2>1, <2>2 DEF Path, First, Last
  <2>3. CASE a # <<>>
    <3>1. Arrow(p, h, First(a, h))
      BY <1>2, <2>3 DEF Path, First
    <3>2. h \notin A /\ First(a, h) \notin B
      BY <1>0, <1>1, <1>4, <2>3
    <3>3. Arrow(q, h, First(a, h))
      BY <1>0, <1>4, <2>3, <3>1, <3>2, ArrowKept
    <3> QED BY <1>5, <2>1, <2>3, <3>3 DEF Path, First
  <2> QED BY <2>2, <2>3
<1>8. Path(q, Last(n, Last(a, h)), b, h)
  <2>2. CASE b = <<>>
    BY <1>6, <2>2 DEF Path, First, Last
  <2>3. CASE b # <<>>
    <3>1. Arrow(p, Last(b, h), h)
      BY <1>3, <2>3 DEF Path, Last
    <3>2. h \notin B /\ Last(b, h) \notin A
      BY <1>0, <1>1, <1>4, <2>3
    <3>3. Arrow(q, Last(b, h), h)
      BY <1>0, <1>4, <2>3, <3>1, <3>2, ArrowKept
    <3> QED BY <1>6, <2>3, <3>3 DEF Path, First, Last
  <2> QED BY <2>2, <2>3
<1>9. Path(q, Last(a, h), n, First(b, h))
  BY DEF Path
<1> QED BY <1>0, <1>7, <1>8, <1>9, PathJoin, Zenon

-----------------------------------------------------------------------------
Heap == [next : [Node -> Pointer], prev : [Node -> Pointer]]

-----------------------------------------------------------------------------
(* What the operations of list.h write: the arrows they make, and the       *)
(* pointers they leave alone.                                              *)
LEMMA HeapParts ==
  ASSUME NEW nx \in [Node -> Pointer], NEW pv \in [Node -> Pointer],
         NEW q, q = [next |-> nx, prev |-> pv]
  PROVE  q \in Heap /\ q.next = nx /\ q.prev = pv
BY DEF Heap

LEMMA HeapFields ==
  ASSUME NEW p \in Heap
  PROVE  /\ p.next \in [Node -> Pointer] /\ p.prev \in [Node -> Pointer]
         /\ Node \subseteq Pointer
BY DEF Heap, Pointer

LEMMA InitHeap ==
  ASSUME NEW p \in Heap, NEW n \in Node, NEW q, q = INIT_LIST_HEAD(p, n)
  PROVE  q \in Heap /\ Arrow(q, n, n) /\ Rewired(p, q, {n}, {n})
<1> DEFINE nx == [p.next EXCEPT ![n] = n]
           pv == [p.prev EXCEPT ![n] = n]
<1>1. nx \in [Node -> Pointer] /\ pv \in [Node -> Pointer]
  BY HeapFields
<1>2. q = [next |-> nx, prev |-> pv]
  BY DEF INIT_LIST_HEAD
<1>3. /\ nx[n] = n /\ pv[n] = n
      /\ \A m \in Node \ {n} : nx[m] = p.next[m] /\ pv[m] = p.prev[m]
  BY HeapFields
<1> HIDE DEF nx, pv
<1> QED BY <1>1, <1>2, <1>3, HeapParts DEF Arrow, Rewired

LEMMA DelHeap ==
  ASSUME NEW p \in Heap, NEW a \in Node, NEW b \in Node, NEW q, q = __list_del(p, a, b)
  PROVE  q \in Heap /\ Arrow(q, a, b) /\ Rewired(p, q, {a}, {b})
<1> DEFINE nx == [p.next EXCEPT ![a] = b]
           pv == [p.prev EXCEPT ![b] = a]
<1>1. nx \in [Node -> Pointer] /\ pv \in [Node -> Pointer]
  BY HeapFields
<1>2. q = [next |-> nx, prev |-> pv]
  BY DEF __list_del
<1>3. /\ nx[a] = b /\ pv[b] = a
      /\ \A m \in Node \ {a} : nx[m] = p.next[m]
      /\ \A m \in Node \ {b} : pv[m] = p.prev[m]
  BY HeapFields
<1> HIDE DEF nx, pv
<1> QED BY <1>1, <1>2, <1>3, HeapParts DEF Arrow, Rewired

LEMMA AddHeap ==
  ASSUME NEW p \in Heap, NEW e \in Node, NEW a \in Node, NEW b \in Node, e # a, e # b,
         NEW q, q = __list_add(p, e, a, b)
  PROVE  q \in Heap /\ Arrow(q, a, e) /\ Arrow(q, e, b) /\ Rewired(p, q, {e, a}, {e, b})
<1> DEFINE nx == [p.next EXCEPT ![e] = b, ![a] = e]
           pv == [p.prev EXCEPT ![b] = e, ![e] = a]
<1>1. nx \in [Node -> Pointer] /\ pv \in [Node -> Pointer]
  BY HeapFields
<1>2. q = [next |-> nx, prev |-> pv]
  BY DEF __list_add
<1>3. /\ nx[a] = e /\ nx[e] = b /\ pv[b] = e /\ pv[e] = a
      /\ \A m \in Node \ {e, a} : nx[m] = p.next[m]
      /\ \A m \in Node \ {e, b} : pv[m] = p.prev[m]
  BY HeapFields
<1> HIDE DEF nx, pv
<1> QED BY <1>1, <1>2, <1>3, HeapParts DEF Arrow, Rewired

(* new may replace an entry that is linked to itself: it is then, too. *)
LEMMA ReplaceHeap ==
  ASSUME NEW p \in Heap, NEW old \in Node, NEW new \in Node, old # new,
         NEW a \in Node, a = p.prev[old], NEW b \in Node, b = p.next[old],
         a # new, b # new, a = old <=> b = old,
         NEW q, q = list_replace(p, old, new)
  PROVE  /\ q \in Heap
         /\ a # old => Arrow(q, a, new) /\ Arrow(q, new, b) /\ Rewired(p, q, {new, a}, {new, b})
         /\ a = old => Arrow(q, new, new) /\ Rewired(p, q, {new}, {new, old})
<1> DEFINE p1 == [p.prev EXCEPT ![b] = new]
           p2 == [p1 EXCEPT ![new] = p1[old]]
           nx == [p.next EXCEPT ![new] = b, ![p2[new]] = new]
<1>0. p1 \in [Node -> Pointer] /\ p1[old] = IF a = old THEN new ELSE a
  BY HeapFields
<1>1. p2 \in [Node -> Pointer] /\ p2[new] = IF a = old THEN new ELSE a
  BY <1>0, HeapFields
<1>2. nx \in [Node -> Pointer]
  BY <1>1, HeapFields
<1>3. q = [next |-> nx, prev |-> p2]
  BY DEF list_replace
<1>4. CASE a # old
  <2>1. /\ nx[a] = new /\ nx[new] = b /\ p2[b] = new /\ p2[new] = a
        /\ \A m \in Node \ {new, a} : nx[m] = p.next[m]
        /\ \A m \in Node \ {new, b} : p2[m] = p.prev[m]
    BY <1>0, <1>1, <1>4, HeapFields
  <2> HIDE DEF nx, p2
  <2> QED BY <1>1, <1>2, <1>3, <1>4, <2>1, HeapParts DEF Arrow, Rewired
<1>5. CASE a = old
  <2>1. /\ nx[new] = new /\ p2[new] = new
        /\ \A m \in Node \ {new} : nx[m] = p.next[m]
        /\ \A m \in Node \ {new, old} : p2[m] = p.prev[m]
    BY <1>0, <1>1, <1>5, HeapFields
  <2> HIDE DEF nx, p2
  <2> QED BY <1>1, <1>2, <1>3, <1>5, <2>1, HeapParts DEF Arrow, Rewired
<1> QED BY <1>4, <1>5

\* the heaps p, d and q before, within and after a bulk move behind a
BulkStep(p, d, q, head, first, last, a) ==
  /\ d = __list_del(p, p.prev[first], p.next[last]) /\ a = d.prev[head]
  /\ q = list_bulk_move_tail(p, head, first, last)

(* A bulk move takes first..last out, then puts them in before head. *)
LEMMA BulkHeap ==
  ASSUME NEW p \in Heap, NEW head \in Node, NEW first \in Node, NEW last \in Node,
         NEW d \in Heap, NEW a \in Node, NEW q, BulkStep(p, d, q, head, first, last, a),
         a # last, first # head
  PROVE  /\ q \in Heap /\ Arrow(q, a, first) /\ Arrow(q, last, head)
         /\ Rewired(d, q, {a, last}, {first, head})
<1> DEFINE nx == [[d.next EXCEPT ![a] = first] EXCEPT ![last] = head]
           pv == [d.prev EXCEPT ![first] = a, ![head] = last]
<1>1. nx \in [Node -> Pointer] /\ pv \in [Node -> Pointer]
  BY HeapFields
<1>2. q = [next |-> nx, prev |-> pv]
  BY DEF BulkStep, list_bulk_move_tail, __list_del
<1>3. /\ nx[a] = first /\ nx[last] = head /\ pv[first] = a /\ pv[head] = last
      /\ \A m \in Node \ {a, last} : nx[m] = d.next[m]
      /\ \A m \in Node \ {first, head} : pv[m] = d.prev[m]
  BY HeapFields
<1> HIDE DEF nx, pv
<1> QED BY <1>1, <1>2, <1>3, HeapParts DEF Arrow, Rewired

\* the arrows both cuts make: list takes x .. z, head keeps y and what follows
CutMade(p, q, list, head, x, z, y) ==
  /\ q \in Heap /\ Arrow(q, list, x) /\ Arrow(q, z, list) /\ Arrow(q, head, y)
  /\ Rewired(p, q, {list, z, head}, {list, x, y})

LEMMA CutPositionHeap ==
  ASSUME NEW p \in Heap, NEW list \in Node, NEW head \in Node, NEW z \in Node,
         list # head, list # z, z # head, NEW x \in Node, x = p.next[head],
         NEW y \in Node, y = p.next[z], x # y, x # list, y # list,
         NEW q, q = __list_cut_position(p, list, head, z)
  PROVE  CutMade(p, q, list, head, x, z, y)
<1> DEFINE nx == [p.next EXCEPT ![list] = x, ![z] = list, ![head] = y]
           pv == [p.prev EXCEPT ![x] = list, ![list] = z, ![y] = head]
<1>1. nx \in [Node -> Pointer] /\ pv \in [Node -> Pointer]
  BY HeapFields
<1>2. q = [next |-> nx, prev |-> pv]
  BY DEF __list_cut_position
<1>3. /\ nx[list] = x /\ nx[z] = list /\ nx[head] = y
      /\ pv[x] = list /\ pv[list] = z /\ pv[y] = head
      /\ \A m \in Node \ {list, z, head} : nx[m] = p.next[m]
      /\ \A m \in Node \ {list, x, y} : pv[m] = p.prev[m]
  BY HeapFields
<1> HIDE DEF nx, pv
<1> QED BY <1>1, <1>2, <1>3, HeapParts DEF CutMade, Arrow, Rewired

LEMMA CutBeforeHeap ==
  ASSUME NEW p \in Heap, NEW list \in Node, NEW head \in Node, NEW y \in Node,
         list # head, list # y, NEW x \in Node, x = p.next[head], x # y, x # list,
         NEW z \in Node, z = p.prev[y], z # head, z # list,
         NEW q, q = list_cut_before(p, list, head, y)
  PROVE  CutMade(p, q, list, head, x, z, y)
<1> DEFINE p1 == [p.prev EXCEPT ![x] = list]
           p2 == [p1 EXCEPT ![list] = p1[y]]
           nx == [[p.next EXCEPT ![list] = x] EXCEPT ![p2[list]] = list, ![head] = y]
           pv == [p2 EXCEPT ![y] = head]
<1>0. p1 \in [Node -> Pointer] /\ p1[y] = z
  BY HeapFields
<1>1. p2 \in [Node -> Pointer] /\ p2[list] = z
  BY <1>0, HeapFields
<1>2. nx \in [Node -> Pointer] /\ pv \in [Node -> Pointer]
  BY <1>1, HeapFields
<1>3. q = [next |-> nx, prev |-> pv]
  BY DEF list_cut_before
<1>4. /\ nx[list] = x /\ nx[z] = list /\ nx[head] = y
      /\ \A m \in Node \ {list, z, head} : nx[m] = p.next[m]
  BY <1>1, HeapFields
<1>5. /\ pv[x] = list /\ pv[list] = z /\ pv[y] = head
      /\ \A m \in Node \ {list, x, y} : pv[m] = p.prev[m]
  BY <1>0, <1>1, HeapFields
<1> HIDE DEF nx, pv
<1> QED BY <1>2, <1>3, <1>4, <1>5, HeapParts DEF CutMade, Arrow, Rewired

LEMMA SpliceHeap ==
  ASSUME NEW p \in Heap, NEW list \in Node, NEW a \in Node, NEW b \in Node,
         NEW x \in Node, x = p.next[list], NEW z \in Node, z = p.prev[list],
         a # z, b # x, NEW q, q = __list_splice(p, list, a, b)
  PROVE  q \in Heap /\ Arrow(q, a, x) /\ Arrow(q, z, b) /\ Rewired(p, q, {a, z}, {x, b})
<1> DEFINE nx == [p.next EXCEPT ![a] = x, ![z] = b]
           pv == [p.prev EXCEPT ![x] = a, ![b] = z]
<1>1. nx \in [Node -> Pointer] /\ pv \in [Node -> Pointer]
  BY HeapFields
<1>2. q = [next |-> nx, prev |-> pv]
  BY DEF __list_splice
<1>3. /\ nx[a] = x /\ nx[z] = b /\ pv[x] = a /\ pv[b] = z
      /\ \A m \in Node \ {a, z} : nx[m] = p.next[m]
      /\ \A m \in Node \ {x, b} : pv[m] = p.prev[m]
  BY HeapFields
<1> HIDE DEF nx, pv
<1> QED BY <1>1, <1>2, <1>3, HeapParts DEF Arrow, Rewired

-----------------------------------------------------------------------------
(* Where a listed entry is. *)
LEMMA Place ==
  ASSUME IInv, NEW e \in Entry, Listed(e)
  PROVE  /\ ListOf(e) \in ListHead \cap valid /\ e \in Elems(lists[ListOf(e)])
         /\ Index(e) \in 1 .. Len(lists[ListOf(e)]) /\ lists[ListOf(e)][Index(e)] = e
         /\ e \in valid
<1>1. ListOf(e) \in ListHead /\ e \in Elems(lists[ListOf(e)])
  BY DEF Listed, ListOf
<1>2. Index(e) \in 1 .. Len(lists[ListOf(e)]) /\ lists[ListOf(e)][Index(e)] = e
  BY <1>1 DEF Elems, Index
<1>3. lists[ListOf(e)] # <<>>
  BY <1>1 DEF Elems
<1>4. ListOf(e) \in valid
  BY <1>1, <1>3 DEF IInv, HeadsValid
<1> QED BY <1>1, <1>2, <1>4, OneList

(* A sequence cut in two, and at one of its elements. *)
LEMMA CutSeq ==
  ASSUME NEW S, NEW s \in Seq(S), NEW i \in 0 .. Len(s)
  PROVE  /\ SubSeq(s, 1, i) \in Seq(S) /\ SubSeq(s, i + 1, Len(s)) \in Seq(S)
         /\ Len(SubSeq(s, 1, i)) = i /\ Len(SubSeq(s, i + 1, Len(s))) = Len(s) - i
         /\ s = SubSeq(s, 1, i) \o SubSeq(s, i + 1, Len(s))
<1> DEFINE a == SubSeq(s, 1, i)
           b == SubSeq(s, i + 1, Len(s))
<1>1. /\ a \in Seq(S) /\ Len(a) = i /\ \A k \in 1 .. i : a[k] = s[k]
  OBVIOUS
<1>2. /\ b \in Seq(S) /\ Len(b) = Len(s) - i /\ \A k \in 1 .. Len(s) - i : b[k] = s[i + k]
  OBVIOUS
<1> HIDE DEF a, b
<1>3. s = a \o b
  <2>0. Len(s) \in Nat /\ i \in Nat /\ i <= Len(s)
    OBVIOUS
  <2>1. /\ a \o b \in Seq(S) /\ Len(a \o b) = i + (Len(s) - i)
        /\ \A k \in 1 .. i : (a \o b)[k] = a[k]
        /\ \A k \in 1 .. Len(s) - i : (a \o b)[i + k] = b[k]
    BY <1>1, <1>2, JoinIndex
  <2>2. ASSUME NEW k \in 1 .. Len(s) PROVE s[k] = (a \o b)[k]
    <3>1. CASE k <= i
      BY <1>1, <2>0, <2>1, <3>1
    <3>2. CASE k > i
      <4>1. PICK m \in 1 .. Len(s) - i : k = i + m
        <5>1. k - i \in 1 .. Len(s) - i /\ k = i + (k - i)
          BY <2>0, <3>2
        <5> QED BY <5>1
      <4>2. (a \o b)[i + m] = b[m] /\ b[m] = s[i + m]
        BY <1>2, <2>1, <4>1
      <4> QED BY <4>1, <4>2
    <3>3. k <= i \/ k > i
      BY <2>0
    <3> QED BY <3>1, <3>2, <3>3, Zenon
  <2>3. Len(a \o b) = Len(s)
    BY <2>0, <2>1
  <2> QED BY <2>1, <2>2, <2>3, SeqSame, Zenon
<1> QED BY <1>1, <1>2, <1>3, Zenon DEF a, b

LEMMA Three ==
  ASSUME NEW S, NEW a \in Seq(S), NEW b \in Seq(S), NEW n \in S, NEW u, u = a \o (<<n>> \o b)
  PROVE  /\ u \in Seq(S) /\ Len(a) \in Nat /\ Len(b) \in Nat
         /\ Len(u) = (Len(a) + 1) + Len(b)
         /\ \A j \in 1 .. Len(a) : u[j] = a[j]
         /\ u[Len(a) + 1] = n
         /\ \A j \in 1 .. Len(b) : u[(Len(a) + 1) + j] = b[j]
<1>1. PICK t : t = <<n>> \o b
  BY Zenon
<1>2. /\ t \in Seq(S) /\ Len(t) = 1 + Len(b) /\ t[1] = n /\ Len(b) \in Nat
      /\ \A j \in 1 .. Len(b) : t[1 + j] = b[j]
  BY <1>1
<1>3. /\ u \in Seq(S) /\ Len(a) \in Nat /\ Len(u) = Len(a) + Len(t)
      /\ \A j \in 1 .. Len(a) : u[j] = a[j]
      /\ \A j \in 1 .. Len(t) : u[Len(a) + j] = t[j]
  BY <1>1, <1>2, JoinIndex
<1>4. u[Len(a) + 1] = n
  <2>1. 1 \in 1 .. Len(t)
    BY <1>2
  <2> QED BY <1>2, <1>3, <2>1
<1>5. ASSUME NEW j \in 1 .. Len(b) PROVE u[(Len(a) + 1) + j] = b[j]
  <2>1. 1 + j \in 1 .. Len(t) /\ Len(a) + (1 + j) = (Len(a) + 1) + j
    BY <1>2, <1>3
  <2>2. u[Len(a) + (1 + j)] = t[1 + j]
    BY <1>3, <2>1
  <2> QED BY <1>2, <2>1, <2>2
<1>6. Len(u) = (Len(a) + 1) + Len(b)
  BY <1>2, <1>3
<1> QED BY <1>2, <1>3, <1>4, <1>5, <1>6

\* the sequences a and b before and after the k-th element of s in Seq(S)
Splits(S, s, k, a, b) ==
  /\ s = a \o (<<s[k]>> \o b)
  /\ Without(s, k) = a \o b
  /\ \A n \in S : [s EXCEPT ![k] = n] = a \o (<<n>> \o b)

LEMMA Around ==
  ASSUME NEW S, NEW s \in Seq(S), NEW k \in 1 .. Len(s)
  PROVE  \E a, b \in Seq(S) : Splits(S, s, k, a, b)
<1>l. PICK l \in Nat : l = Len(s)
  OBVIOUS
<1>0. k \in Nat /\ k <= l /\ k > 0 /\ s[k] \in S /\ k - 1 \in Nat /\ l - k \in Nat
  BY <1>l
<1>x. PICK x \in Nat : x + 1 = k
  BY <1>0
<1>y. PICK y \in Nat : k + y = l
  BY <1>0
<1>1. PICK a \in Seq(S) : Len(a) = x /\ \A j \in 1 .. x : a[j] = s[j]
  <2>1. /\ SubSeq(s, 1, x) \in Seq(S) /\ Len(SubSeq(s, 1, x)) = x
        /\ \A j \in 1 .. x : SubSeq(s, 1, x)[j] = s[j]
    BY <1>0, <1>l, <1>x
  <2> QED BY <2>1, Zenon
<1>2. PICK b \in Seq(S) : Len(b) = y /\ \A j \in 1 .. y : b[j] = s[k + j]
  <2> DEFINE b == [j \in 1 .. y |-> s[k + j]]
  <2>1. ASSUME NEW j \in 1 .. y PROVE s[k + j] \in S
    <3>1. k + j \in 1 .. Len(s)
      BY <1>0, <1>l, <1>y
    <3> QED BY <3>1
  <2>2. b \in Seq(S) /\ Len(b) = y
    BY <2>1
  <2> QED BY <2>2, Zenon
<1>j. ASSUME NEW j \in 1 .. l, j > k PROVE \E m \in 1 .. y : j = k + m
  <2>1. j - k \in 1 .. y /\ j = k + (j - k)
    BY <1>0, <1>y, <1>j
  <2> QED BY <2>1
<1>3. ASSUME NEW n \in S, NEW t \in Seq(S), Len(t) = l, t[k] = n,
             \A j \in 1 .. l : j # k => t[j] = s[j]
      PROVE  t = a \o (<<n>> \o b)
  <2>1. PICK u : u = a \o (<<n>> \o b)
    BY Zenon
  <2>2. /\ u \in Seq(S) /\ Len(u) = (Len(a) + 1) + Len(b)
        /\ \A j \in 1 .. Len(a) : u[j] = a[j]
        /\ u[Len(a) + 1] = n
        /\ \A j \in 1 .. Len(b) : u[(Len(a) + 1) + j] = b[j]
    BY <2>1, Three
  <2>3. /\ u \in Seq(S) /\ Len(u) = l /\ u[k] = n
        /\ \A j \in 1 .. x : u[j] = a[j]
        /\ \A j \in 1 .. y : u[k + j] = b[j]
    BY <1>x, <1>y, <1>1, <1>2, <2>2, Zenon
  <2>4. ASSUME NEW j \in 1 .. l PROVE t[j] = u[j]
    <3>1. CASE j < k
      <4>1. j \in 1 .. x
        BY <1>0, <1>x, <3>1
      <4> QED BY <1>1, <1>3, <2>3, <3>1, <4>1
    <3>2. CASE j = k
      BY <1>3, <2>3, <3>2
    <3>3. CASE j > k
      <4>1. PICK m \in 1 .. y : j = k + m
        BY <1>j, <3>3, Zenon
      <4>2. u[j] = b[m] /\ b[m] = s[j]
        BY <1>2, <2>3, <4>1
      <4> QED BY <1>3, <3>3, <4>2
    <3> QED BY <1>0, <3>1, <3>2, <3>3
  <2> QED BY <1>3, <2>1, <2>3, <2>4, SeqSame, Zenon
<1>4. ASSUME NEW n \in S PROVE [s EXCEPT ![k] = n] = a \o (<<n>> \o b)
  <2>1. PICK t : t = [s EXCEPT ![k] = n]
    BY Zenon
  <2>2. /\ t \in Seq(S) /\ Len(t) = l /\ t[k] = n
        /\ \A j \in 1 .. l : j # k => t[j] = s[j]
    BY <1>l, <2>1
  <2> QED BY <1>3, <2>1, <2>2, Zenon
<1>5. s = a \o (<<s[k]>> \o b)
  BY <1>0, <1>l, <1>3, Zenon
<1>6. Without(s, k) = a \o b
  <2>1. PICK u : u = a \o b
    BY Zenon
  <2>2. /\ u \in Seq(S) /\ Len(u) = x + y
        /\ \A j \in 1 .. x : u[j] = a[j]
        /\ \A j \in 1 .. y : u[x + j] = b[j]
    <3>1. /\ u \in Seq(S) /\ Len(u) = Len(a) + Len(b)
          /\ \A j \in 1 .. Len(a) : u[j] = a[j]
          /\ \A j \in 1 .. Len(b) : u[Len(a) + j] = b[j]
      BY <2>1, JoinIndex
    <3> QED BY <1>1, <1>2, <3>1
  <2>3. PICK w : w = Without(s, k)
    OBVIOUS
  <2>4. l - 1 = x + y
    BY <1>0, <1>x, <1>y
  <2>5. /\ w \in [1 .. x + y -> S]
        /\ \A j \in 1 .. x + y : w[j] = IF j < k THEN s[j] ELSE s[j + 1]
    <3>1. w = [j \in 1 .. x + y |-> IF j < k THEN s[j] ELSE s[j + 1]]
      BY <1>l, <2>3, <2>4 DEF Without
    <3>2. \A j \in 1 .. x + y : j \in 1 .. l /\ j + 1 \in 1 .. l
      BY <2>4
    <3> QED BY <1>l, <3>1, <3>2
  <2>6. w \in Seq(S) /\ Len(w) = x + y
    <3>1. x + y \in Nat
      OBVIOUS
    <3> QED BY <2>5, <3>1
  <2>7. ASSUME NEW j \in 1 .. x + y PROVE w[j] = u[j]
    <3>1. CASE j < k
      <4>1. j \in 1 .. x
        BY <1>0, <1>x, <3>1
      <4> QED BY <1>1, <2>2, <2>5, <3>1, <4>1, Zenon
    <3>2. CASE j >= k
      <4>1. PICK m \in 1 .. y : j + 1 = k + m
        <5>1. j + 1 \in 1 .. l /\ j + 1 > k
          BY <1>0, <2>4, <3>2
        <5> QED BY <1>j, <5>1
      <4>2. j = x + m
        BY <1>0, <1>x, <4>1
      <4>3. w[j] = s[j + 1]
        BY <1>0, <2>5, <3>2
      <4> QED BY <1>2, <2>2, <4>1, <4>2, <4>3, Zenon
    <3> QED BY <1>0, <3>1, <3>2
  <2> QED BY <2>1, <2>2, <2>3, <2>6, <2>7, SeqSame
<1>7. Splits(S, s, k, a, b)
  BY <1>4, <1>5, <1>6 DEF Splits
<1> QED BY <1>7

-----------------------------------------------------------------------------
(* In heap p the heads C hold rings for the lists ls, and the entries U,   *)
(* on none of them, point to themselves.                                   *)
Sound(p, ls, C, U) ==
  /\ p \in Heap /\ ls \in [ListHead -> Seq(Entry)]
  /\ C \subseteq ListHead /\ U \subseteq Entry
  /\ \A c \in C : /\ Unique(ls[c]) /\ Path(p, c, ls[c], c)
                  /\ Elems(ls[c]) \cap U = {}
  /\ \A c, d \in C : c # d => Elems(ls[c]) \cap Elems(ls[d]) = {}
  /\ \A e \in U : Arrow(p, e, e)

AloneSet == {e \in Entry : Alone(e)}

(* This is what the invariant says between walks. *)
LEMMA SoundNow ==
  ASSUME IInv
  PROVE  Sound(heap, lists, Heads, AloneSet)
<1>1. heap \in Heap /\ lists \in [ListHead -> Seq(Entry)] /\ Heads \subseteq ListHead
  BY DEF IInv, TypeOK, Heap, Heads
<1>2. ASSUME NEW c \in Heads
      PROVE  /\ Unique(lists[c]) /\ Path(heap, c, lists[c], c)
             /\ Elems(lists[c]) \cap AloneSet = {}
  <2>1. c \in ListHead /\ c \in valid
    BY DEF Heads
  <2>2. /\ lists[c] \in Seq(Entry) /\ Unique(lists[c])
        /\ Links(c, lists[c], heap.next, heap.prev)
    BY <2>1, OneList
  <2>3. Path(heap, c, lists[c], c)
    BY <2>1, <2>2, LinksPath
  <2> QED BY <2>1, <2>2, <2>3 DEF AloneSet, Alone, Listed
<1>3. \A c, d \in Heads : c # d => Elems(lists[c]) \cap Elems(lists[d]) = {}
  BY OneList DEF Heads
<1>4. \A e \in AloneSet : Arrow(heap, e, e)
  BY DEF AloneSet, IInv, Represents, Arrow
<1> QED BY <1>1, <1>2, <1>3, <1>4, Zenon DEF Sound, AloneSet

(* And what a call has to establish. *)
LEMMA SoundNext ==
  ASSUME IInv, ~Walking, walk' = walk, valid' \subseteq Node,
         Sound(heap', lists', Heads', AloneSet'),
         \A h \in ListHead : h \in valid' \/ lists'[h] = <<>>,
         \A h \in ListHead : Elems(lists'[h]) \subseteq valid'
  PROVE  IInv'
<1>1. TypeOK'
  BY Zenon DEF TypeOK, IInv, Heap, Sound
<1>2. HeadsValid'
  BY DEF HeadsValid
<1>3. ASSUME NEW g \in ListHead \cap valid'
      PROVE  Elems(lists'[g]) \subseteq valid' /\ Links(g, lists'[g], heap'.next, heap'.prev)
  <2>1. g \in ListHead /\ lists'[g] \in Seq(Entry) /\ Path(heap', g, lists'[g], g)
    BY DEF Sound, Heads
  <2> QED BY <2>1, LinksPath
<1>4. ASSUME NEW g \in ListHead
      PROVE  /\ Unique(lists'[g])
             /\ \A h \in ListHead : g # h => Elems(lists'[g]) \cap Elems(lists'[h]) = {}
  <2>1. \A h \in ListHead : h \notin valid' => lists'[h] = <<>> /\ Elems(lists'[h]) = {}
    BY DEF Elems
  <2>2. CASE g \notin valid'
    BY <2>1, <2>2 DEF Unique
  <2>3. CASE g \in valid'
    <3>1. Unique(lists'[g])
      BY <2>3 DEF Sound, Heads
    <3>2. \A h \in ListHead \cap valid' : g # h => Elems(lists'[g]) \cap Elems(lists'[h]) = {}
      BY <2>3 DEF Sound, Heads
    <3> QED BY <2>1, <3>1, <3>2
  <2> QED BY <2>2, <2>3
<1>5. Disjoint'
  <2> SUFFICES ASSUME NEW g \in ListHead, NEW h \in ListHead,
                      NEW i \in 1 .. Len(lists'[g]), NEW j \in 1 .. Len(lists'[h]),
                      lists'[g][i] = lists'[h][j]
               PROVE  g = h /\ i = j
    BY DEF Disjoint
  <2>1. lists'[g][i] \in Elems(lists'[g]) /\ lists'[h][j] \in Elems(lists'[h])
    BY DEF Elems
  <2>2. g = h
    BY <1>4, <2>1, Zenon
  <2> QED BY <1>4, <2>2 DEF Unique
<1>6. ASSUME NEW e \in Entry, Alone(e)' PROVE heap'.next[e] = e /\ heap'.prev[e] = e
  BY <1>6 DEF Sound, AloneSet, Arrow
<1>7. ~Walking'
  BY DEF Walking
<1> QED BY <1>1, <1>2, <1>3, <1>5, <1>6, <1>7
        DEF IInv, Represents, WalkIsExact, WalkInList

LEMMA SoundDrop ==
  ASSUME NEW p, NEW ls, NEW C, NEW U, Sound(p, ls, C, U),
         NEW D \in SUBSET C, NEW V \in SUBSET U,
         NEW ms \in [ListHead -> Seq(Entry)], \A c \in D : ms[c] = ls[c]
  PROVE  Sound(p, ms, D, V)
BY Zenon DEF Sound

(* Pointers on no ring may be rewired. *)
LEMMA SoundFrame ==
  ASSUME NEW p, NEW ls, NEW C, NEW U, Sound(p, ls, C, U),
         NEW q \in Heap, NEW A, NEW B, Rewired(p, q, A, B),
         (A \cup B) \cap (C \cup U) = {},
         \A c \in C : (A \cup B) \cap Elems(ls[c]) = {}
  PROVE  Sound(q, ls, C, U)
<1>0. C \subseteq Node /\ U \subseteq Node /\ Rewired(p, q, A \cup B, A \cup B)
  BY DEF Sound, Node, Rewired
<1>1. ASSUME NEW c \in C PROVE Path(q, c, ls[c], c)
  <2>1. c \in ListHead /\ ls[c] \in Seq(Entry) /\ Path(p, c, ls[c], c)
    BY DEF Sound
  <2>2. Links(c, ls[c], p.next, p.prev)
    BY <2>1, LinksPath
  <2>3. ({c} \cup Elems(ls[c])) \cap (A \cup B) = {}
    OBVIOUS
  <2>4. Links(c, ls[c], q.next, q.prev)
    BY <1>0, <2>1, <2>2, <2>3, LinksKept
  <2> QED BY <2>1, <2>4, LinksPath
<1>2. ASSUME NEW e \in U PROVE Arrow(q, e, e)
  BY <1>0 DEF Sound, Arrow, Rewired
<1> QED BY <1>1, <1>2, Zenon DEF Sound

LEMMA SoundRing ==
  ASSUME NEW p, NEW ls, NEW C, NEW U, Sound(p, ls, C, U),
         NEW g \in ListHead \ C, NEW m \in Seq(Entry), Unique(m), Path(p, g, m, g),
         Elems(m) \cap U = {}, \A c \in C : Elems(m) \cap Elems(ls[c]) = {},
         NEW ms, ms = [ls EXCEPT ![g] = m]
  PROVE  Sound(p, ms, C \cup {g}, U)
<1>1. ms \in [ListHead -> Seq(Entry)] /\ ms[g] = m /\ \A c \in C : ms[c] = ls[c]
  BY DEF Sound
<1>2. \A c, d \in C \cup {g} : c # d => Elems(ms[c]) \cap Elems(ms[d]) = {}
  BY <1>1, Zenon DEF Sound
<1> QED BY <1>1, <1>2, Zenon DEF Sound

LEMMA SoundAlone ==
  ASSUME NEW p, NEW ls, NEW C, NEW U, Sound(p, ls, C, U), NEW e \in Entry,
         Arrow(p, e, e), \A c \in C : e \notin Elems(ls[c])
  PROVE  Sound(p, ls, C, U \cup {e})
BY Zenon DEF Sound

-----------------------------------------------------------------------------
(* Pieces of a ring. *)
LEMMA EmptyJoin ==
  ASSUME NEW S, NEW s \in Seq(S)
  PROVE  <<>> \o s = s /\ s \o <<>> = s /\ Elems(<<>>) = {} /\ Unique(<<>>) /\ <<>> \in Seq(S)
<1>1. <<>> \in Seq(S) /\ <<>> \o s = s /\ s \o <<>> = s
  OBVIOUS
<1>2. Elems(<<>>) = {} /\ Unique(<<>>)
  BY DEF Elems, Unique
<1> QED BY <1>1, <1>2

LEMMA Single ==
  ASSUME NEW S, NEW e \in S
  PROVE  /\ <<e>> \in Seq(S) /\ <<e>> # <<>> /\ Elems(<<e>>) = {e} /\ Unique(<<e>>)
         /\ \A d : First(<<e>>, d) = e /\ Last(<<e>>, d) = e
         /\ \A p : Inner(p, <<e>>)
<1>1. <<e>> \in Seq(S) /\ <<e>> # <<>> /\ Len(<<e>>) = 1 /\ <<e>>[1] = e
  OBVIOUS
<1>2. Elems(<<e>>) = {e} /\ Unique(<<e>>)
  BY <1>1 DEF Elems, Unique
<1>3. \A d : First(<<e>>, d) = e /\ Last(<<e>>, d) = e
  BY <1>1 DEF First, Last
<1>4. \A p : Inner(p, <<e>>)
  BY <1>1 DEF Inner
<1> QED BY <1>1, <1>2, <1>3, <1>4

LEMMA Pieces ==
  ASSUME NEW S, NEW a \in Seq(S), NEW m \in Seq(S), NEW b \in Seq(S)
  PROVE  /\ a \o (m \o b) \in Seq(S) /\ a \o b \in Seq(S) /\ m \o b \in Seq(S)
         /\ Elems(a \o (m \o b)) = Elems(a) \cup Elems(m) \cup Elems(b)
         /\ Elems(a \o b) = Elems(a) \cup Elems(b)
         /\ Unique(a \o (m \o b)) <=>
              /\ Unique(a \o b) /\ Unique(m)
              /\ Elems(m) \cap Elems(a) = {} /\ Elems(m) \cap Elems(b) = {}
<1>1. a \o (m \o b) \in Seq(S) /\ a \o b \in Seq(S) /\ m \o b \in Seq(S)
  OBVIOUS
<1>2. /\ Elems(m \o b) = Elems(m) \cup Elems(b) /\ Elems(a \o b) = Elems(a) \cup Elems(b)
      /\ Elems(a \o (m \o b)) = Elems(a) \cup Elems(m \o b)
  <2>1. Elems(m \o b) = Elems(m) \cup Elems(b)
    BY JoinElems
  <2>2. Elems(a \o b) = Elems(a) \cup Elems(b)
    BY JoinElems
  <2>3. Elems(a \o (m \o b)) = Elems(a) \cup Elems(m \o b)
    <3>1. \A t \in Seq(S) : Elems(a \o t) = Elems(a) \cup Elems(t)
      BY JoinElems
    <3> QED BY <1>1, <3>1, Zenon
  <2> QED BY <2>1, <2>2, <2>3
<1>3. /\ Unique(m \o b) <=> Unique(m) /\ Unique(b) /\ Elems(m) \cap Elems(b) = {}
      /\ Unique(a \o b) <=> Unique(a) /\ Unique(b) /\ Elems(a) \cap Elems(b) = {}
      /\ Unique(a \o (m \o b)) <=>
           Unique(a) /\ Unique(m \o b) /\ Elems(a) \cap Elems(m \o b) = {}
  BY <1>1, JoinUnique, Zenon
<1> QED BY <1>1, <1>2, <1>3

LEMMA PieceElems ==
  ASSUME NEW S, NEW a \in Seq(S), NEW m \in Seq(S), NEW b \in Seq(S)
  PROVE  Elems(a \o (m \o b)) = Elems(a) \cup Elems(m) \cup Elems(b)
BY Pieces

(* The ends of a sequence of entries, in the ring of h. *)
LEMMA Ends ==
  ASSUME NEW h \in ListHead, NEW s \in Seq(Entry)
  PROVE  /\ Elems(s) \subseteq Entry /\ Entry \subseteq Node /\ h \in Node /\ h \notin Entry
         /\ First(s, h) \in Node /\ Last(s, h) \in Node
         /\ s = <<>> => First(s, h) = h /\ Last(s, h) = h
         /\ s # <<>> => First(s, h) \in Elems(s) /\ Last(s, h) \in Elems(s)
         /\ s # <<>> => \A d : First(s, d) = First(s, h) /\ Last(s, d) = Last(s, h)
<1>1. Elems(s) \subseteq Entry /\ Entry \subseteq Node /\ h \in Node /\ h \notin Entry
  BY NodesAssumption DEF Elems, Node
<1>2. s = <<>> => First(s, h) = h /\ Last(s, h) = h
  BY DEF First, Last
<1>3. s # <<>> => First(s, h) \in Elems(s) /\ Last(s, h) \in Elems(s)
  BY JoinEnds
<1>4. s # <<>> => \A d : First(s, d) = First(s, h) /\ Last(s, d) = Last(s, h)
  BY DEF First, Last
<1> QED BY <1>1, <1>2, <1>3, <1>4

LEMMA Segment ==
  ASSUME NEW h \in ListHead, NEW a \in Seq(Entry), NEW m \in Seq(Entry),
         NEW b \in Seq(Entry), m # <<>>, NEW p, Path(p, h, a \o (m \o b), h)
  PROVE  /\ Inner(p, m)
         /\ Arrow(p, Last(a, h), First(m, h)) /\ Arrow(p, Last(m, h), First(b, h))
<1>1. m \o b \in Seq(Entry)
  BY Pieces
<1>2. Path(p, Last(a, h), m \o b, h)
  BY <1>1, PathJoin, Zenon
<1>3. Path(p, Last(a, h), m, First(b, h))
  BY <1>2, PathJoin
<1>4. \A d : First(m, d) = First(m, h) /\ Last(m, d) = Last(m, h)
  BY Ends
<1> QED BY <1>3, <1>4 DEF Path

\* the nodes W are on no ring, and not among the entries that are alone
Unused(W, ls, C, U) == W \cap (C \cup U) = {} /\ \A c \in C : W \cap Elems(ls[c]) = {}

(* The ring of g is rewired to hold s, with the help of nodes W of no ring. *)
LEMMA SoundRewire ==
  ASSUME NEW p, NEW ls, NEW C, NEW U, Sound(p, ls, C, U), NEW g \in C,
         NEW q \in Heap, NEW A, NEW B, NEW W, Rewired(p, q, A, B),
         A \cup B \subseteq {g} \cup Elems(ls[g]) \cup W,
         Unused(W, ls, C, U),
         NEW s \in Seq(Entry), Unique(s), Path(q, g, s, g), Elems(s) \subseteq Elems(ls[g]) \cup W,
         NEW ms, ms = [ls EXCEPT ![g] = s]
  PROVE  Sound(q, ms, C, U)
<1>0. /\ C \subseteq ListHead /\ U \subseteq Entry /\ ls \in [ListHead -> Seq(Entry)]
      /\ Elems(ls[g]) \cap U = {}
      /\ \A c \in C \ {g} : Elems(ls[g]) \cap Elems(ls[c]) = {}
  BY Zenon DEF Sound
<1>1. \A c \in C : c \notin Entry /\ Elems(ls[c]) \subseteq Entry
  BY <1>0, Ends
<1>2. (A \cup B) \cap ((C \ {g}) \cup U) = {}
  BY <1>0, <1>1 DEF Unused
<1>3. \A c \in C \ {g} : (A \cup B) \cap Elems(ls[c]) = {}
  BY <1>0, <1>1, Zenon DEF Unused
<1>4. Sound(p, ls, C \ {g}, U)
  BY <1>0, SoundDrop
<1>5. Sound(q, ls, C \ {g}, U)
  BY <1>2, <1>3, <1>4, SoundFrame
<1>6. /\ Elems(s) \cap U = {} /\ g \in ListHead \ (C \ {g})
      /\ \A c \in C \ {g} : Elems(s) \cap Elems(ls[c]) = {}
  BY <1>0 DEF Unused
<1>7. Sound(q, ms, (C \ {g}) \cup {g}, U)
  BY <1>5, <1>6, SoundRing, Zenon
<1>8. (C \ {g}) \cup {g} = C
  OBVIOUS
<1> QED BY <1>7, <1>8, Zenon

\* from heap p and lists ls to q and ms: m is taken from between a and b of g
Taken(p, ls, q, ms, g, a, m, b) ==
  /\ q \in Heap /\ Arrow(q, Last(a, g), First(b, g))
  /\ Rewired(p, q, {Last(a, g)}, {First(b, g)})
  /\ m # <<>> /\ ls[g] = a \o (m \o b) /\ ms = [ls EXCEPT ![g] = a \o b]

(* A piece is taken out of a ring. *)
LEMMA SoundTake ==
  ASSUME NEW p, NEW ls, NEW C, NEW U, Sound(p, ls, C, U), NEW g \in C,
         NEW a \in Seq(Entry), NEW m \in Seq(Entry), NEW b \in Seq(Entry),
         NEW q, NEW ms, Taken(p, ls, q, ms, g, a, m, b)
  PROVE  /\ Sound(q, ms, C, U) /\ Inner(q, m) /\ Unique(m)
         /\ Elems(m) \cap U = {} /\ \A c \in C : Elems(m) \cap Elems(ms[c]) = {}
<1>0. g \in ListHead /\ p \in Heap /\ Unique(ls[g]) /\ Path(p, g, ls[g], g)
      /\ ls[g] \in Seq(Entry) /\ ls \in [ListHead -> Seq(Entry)] /\ C \subseteq ListHead
      /\ m # <<>> /\ ls[g] = a \o (m \o b) /\ ms = [ls EXCEPT ![g] = a \o b]
  BY Zenon DEF Sound, Taken
<1>1. /\ Unique(a \o b) /\ Unique(m) /\ a \o b \in Seq(Entry) /\ m \o b \in Seq(Entry)
      /\ Elems(m) \cap Elems(a) = {} /\ Elems(m) \cap Elems(b) = {}
      /\ Elems(a \o b) = Elems(a) \cup Elems(b)
      /\ Elems(ls[g]) = Elems(a) \cup Elems(m) \cup Elems(b)
  BY <1>0, Pieces
<1>2. Inner(p, m)
  BY <1>0, Segment
<1>3. /\ Last(a, g) \in Node /\ First(b, g) \in Node /\ g \notin Entry /\ Elems(m) \subseteq Entry
      /\ Last(a, g) \in {g} \cup Elems(a) /\ First(b, g) \in {g} \cup Elems(b)
      /\ Elems(a) \subseteq Entry /\ Elems(b) \subseteq Entry /\ Entry \subseteq Node
  BY <1>0, Ends
<1>4. q \in Heap /\ Arrow(q, Last(a, g), First(b, g)) /\ Rewired(p, q, {Last(a, g)}, {First(b, g)})
  BY DEF Taken
<1>5. <<>> \in Seq(Entry) /\ <<>> \o b = b /\ Inner(q, <<>>)
  BY DEF Inner
<1>6. Path(q, g, a \o b, g)
  <2>1. /\ First(<<>>, First(b, g)) = First(b, g)
        /\ Last(<<>>, Last(a, g)) = Last(a, g)
    BY DEF First, Last
  <2>2. /\ Path(p, g, a \o (m \o b), g) /\ Unique(a \o (m \o b))
        /\ Arrow(q, Last(a, g), First(<<>>, First(b, g)))
        /\ Arrow(q, Last(<<>>, Last(a, g)), First(b, g))
    BY <1>0, <1>4, <2>1
  <2>3. Path(q, g, a \o (<<>> \o b), g)
    <3> DEFINE A == {Last(a, g)}
               B == {First(b, g)}
    <3>1. /\ A \subseteq {Last(a, g)} \cup (Node \ ({g} \cup Elems(a) \cup Elems(b)))
          /\ B \subseteq {First(b, g)} \cup (Node \ ({g} \cup Elems(a) \cup Elems(b)))
      OBVIOUS
    <3>2. Rewired(p, q, A, B)
      BY <1>4
    <3> HIDE DEF A, B
    <3> QED BY <1>0, <1>5, <2>2, <3>1, <3>2, Exchange, Zenon
  <2> QED BY <1>5, <2>3
<1>7. Inner(q, m)
  <2>1. {Last(a, g)} \cap Elems(m) = {} /\ {First(b, g)} \cap Elems(m) = {}
    BY <1>1, <1>3
  <2>2. m \in Seq(Node)
    BY <1>3
  <2> QED BY <1>1, <1>2, <1>4, <2>1, <2>2, InnerKept, Zenon
<1>8. Elems(ls[g]) \cap U = {} /\ \A c \in C \ {g} : Elems(ls[g]) \cap Elems(ls[c]) = {}
  BY Zenon DEF Sound
<1>9. Sound(q, ms, C, U)
  <2>1. PICK A, B, W : A = {Last(a, g)} /\ B = {First(b, g)} /\ W = {}
    BY Zenon
  <2>2. A \cup B \subseteq {g} \cup Elems(ls[g]) \cup W /\ Rewired(p, q, A, B)
    BY <1>1, <1>3, <1>4, <2>1
  <2>3. Unused(W, ls, C, U)
    BY <2>1 DEF Unused
  <2>4. Elems(a \o b) \subseteq Elems(ls[g]) \cup W
    BY <1>1
  <2>5. \A r \in Heap : Rewired(p, r, A, B) /\ Path(r, g, a \o b, g) => Sound(r, ms, C, U)
    BY <1>0, <1>1, <2>2, <2>3, <2>4, SoundRewire, Zenon
  <2> QED BY <1>4, <1>6, <2>2, <2>5
<1>10. \A c \in C : Elems(m) \cap Elems(ms[c]) = {}
  <2>1. ms[g] = a \o b /\ \A c \in C \ {g} : ms[c] = ls[c]
    BY <1>0
  <2> QED BY <1>1, <1>8, <2>1, Zenon
<1> QED BY <1>1, <1>4, <1>7, <1>8, <1>9, <1>10

\* from heap p and lists ls to q and ms: m is put between a and b of h
Put(p, ls, q, ms, h, a, m, b) ==
  /\ q \in Heap
  /\ Arrow(q, Last(a, h), First(m, h)) /\ Arrow(q, Last(m, h), First(b, h))
  /\ Rewired(p, q, {Last(a, h), Last(m, h)}, {First(m, h), First(b, h)})
  /\ m # <<>> /\ ls[h] = a \o b /\ ms = [ls EXCEPT ![h] = a \o (m \o b)]

(* A piece is put into a ring. *)
LEMMA SoundPut ==
  ASSUME NEW p, NEW ls, NEW C, NEW U, Sound(p, ls, C, U), NEW h \in C,
         NEW a \in Seq(Entry), NEW m \in Seq(Entry), NEW b \in Seq(Entry),
         Unique(m), Inner(p, m),
         Elems(m) \cap U = {}, \A c \in C : Elems(m) \cap Elems(ls[c]) = {},
         NEW q, NEW ms, Put(p, ls, q, ms, h, a, m, b)
  PROVE  Sound(q, ms, C, U)
<1> DEFINE A == {Last(a, h), Last(m, h)}
           B == {First(m, h), First(b, h)}
<1>0. /\ h \in ListHead /\ Unique(ls[h]) /\ Path(p, h, ls[h], h)
      /\ ls \in [ListHead -> Seq(Entry)] /\ C \subseteq ListHead /\ U \subseteq Entry
      /\ m # <<>> /\ ls[h] = a \o b /\ ms = [ls EXCEPT ![h] = a \o (m \o b)]
  BY Zenon DEF Sound, Put
<1>1. /\ a \o b \in Seq(Entry) /\ a \o (m \o b) \in Seq(Entry) /\ m \o b \in Seq(Entry)
      /\ Elems(a \o b) = Elems(a) \cup Elems(b)
      /\ Elems(a \o (m \o b)) = Elems(a) \cup Elems(m) \cup Elems(b)
  BY Pieces
<1>2. Elems(m) \cap Elems(a) = {} /\ Elems(m) \cap Elems(b) = {}
  BY <1>0, <1>1, Zenon
<1>3. Unique(a \o (m \o b))
  <2>1. Unique(a \o b)
    BY <1>0
  <2> QED BY <1>2, <2>1, Pieces
<1>4. /\ h \notin Entry /\ Elems(m) \subseteq Entry /\ Entry \subseteq Node /\ h \in Node
      /\ Last(a, h) \in {h} \cup Elems(a) /\ First(b, h) \in {h} \cup Elems(b)
      /\ First(m, h) \in Elems(m) /\ Last(m, h) \in Elems(m)
      /\ \A d : First(m, d) = First(m, h) /\ Last(m, d) = Last(m, h)
      /\ Elems(a) \subseteq Entry /\ Elems(b) \subseteq Entry
  BY <1>0, Ends
<1>5. /\ Rewired(p, q, A, B) /\ q \in Heap
      /\ Arrow(q, Last(a, h), First(m, h)) /\ Arrow(q, Last(m, h), First(b, h))
  BY DEF Put
<1>6. Inner(q, m)
  <2>1. A \cap Elems(m) \subseteq {Last(m, h)} /\ B \cap Elems(m) \subseteq {First(m, h)}
    BY <1>2, <1>4
  <2>2. m \in Seq(Node)
    BY <1>4
  <2> HIDE DEF A, B
  <2> QED BY <1>5, <2>1, <2>2, InnerKept
<1>7. Path(q, h, a \o (m \o b), h)
  <2>1. /\ A \subseteq {Last(a, h)} \cup (Node \ ({h} \cup Elems(a) \cup Elems(b)))
        /\ B \subseteq {First(b, h)} \cup (Node \ ({h} \cup Elems(a) \cup Elems(b)))
    BY <1>2, <1>4
  <2>2. <<>> \in Seq(Entry) /\ <<>> \o b = b
    OBVIOUS
  <2>3. Path(p, h, a \o (<<>> \o b), h) /\ Unique(a \o (<<>> \o b))
    BY <1>0, <2>2
  <2>4. /\ Arrow(q, Last(a, h), First(m, First(b, h)))
        /\ Arrow(q, Last(m, Last(a, h)), First(b, h))
    BY <1>4, <1>5
  <2> HIDE DEF A, B
  <2> QED BY <1>0, <1>5, <1>6, <2>1, <2>2, <2>3, <2>4, Exchange, Zenon
<1>8. /\ A \cup B \subseteq {h} \cup Elems(ls[h]) \cup Elems(m)
      /\ Unused(Elems(m), ls, C, U)
      /\ Elems(a \o (m \o b)) \subseteq Elems(ls[h]) \cup Elems(m)
  BY <1>0, <1>1, <1>4, NodesAssumption DEF Unused
<1> HIDE DEF A, B
<1> QED BY <1>0, <1>1, <1>3, <1>5, <1>7, <1>8, SoundRewire, Zenon

\* e is on no list of C and not among U
Free(e, ls, C, U) == e \in Entry /\ e \notin U /\ \A c \in C : e \notin Elems(ls[c])

\* from heap p and lists ls to q and ms: new takes the place of old on list h
Swapped(p, ls, q, ms, h, a, old, new, b) ==
  /\ ls[h] = a \o (<<old>> \o b) /\ ms = [ls EXCEPT ![h] = a \o (<<new>> \o b)]
  /\ q = list_replace(p, old, new)

\* list h has new instead of old, and the other lists are as before
Exchanged(ls, ms, h, old, new) ==
  /\ old \in Elems(ls[h]) /\ Elems(ms[h]) = (Elems(ls[h]) \ {old}) \cup {new}
  /\ \A c \in ListHead \ {h} : ms[c] = ls[c]

(* The entry old of a ring gives its place to new. *)
LEMMA SoundSwap ==
  ASSUME NEW p, NEW ls, NEW C, NEW U, Sound(p, ls, C, U), NEW h \in C,
         NEW a \in Seq(Entry), NEW b \in Seq(Entry), NEW old \in Entry, NEW new \in Entry,
         Free(new, ls, C, U), NEW q, NEW ms, Swapped(p, ls, q, ms, h, a, old, new, b)
  PROVE  Sound(q, ms, C, U) /\ Free(old, ms, C, U) /\ Exchanged(ls, ms, h, old, new)
<1>a. /\ new \notin U /\ \A c \in C : new \notin Elems(ls[c])
      /\ ls[h] = a \o (<<old>> \o b) /\ ms = [ls EXCEPT ![h] = a \o (<<new>> \o b)]
      /\ q = list_replace(p, old, new)
  BY DEF Free, Swapped
<1> USE <1>a
<1>0. /\ h \in ListHead /\ Unique(ls[h]) /\ Path(p, h, ls[h], h) /\ p \in Heap
      /\ ls \in [ListHead -> Seq(Entry)] /\ C \subseteq ListHead /\ U \subseteq Entry
  BY Zenon DEF Sound
<1>m. PICK m \in Seq(Entry) : m = <<old>>
  BY Single, Zenon
<1>n. PICK n \in Seq(Entry) : n = <<new>>
  BY Single, Zenon
<1>1. /\ m # <<>> /\ Elems(m) = {old} /\ \A d : First(m, d) = old /\ Last(m, d) = old
      /\ n # <<>> /\ Elems(n) = {new} /\ \A d : First(n, d) = new /\ Last(n, d) = new
      /\ Unique(n) /\ \A r : Inner(r, n)
  BY <1>m, <1>n, Single, Zenon
<1>p. Unique(a \o (m \o b)) /\ Path(p, h, a \o (m \o b), h) /\ ls[h] = a \o (m \o b)
  BY <1>0, <1>m, Zenon
<1>2. /\ Elems(ls[h]) = Elems(a) \cup {old} \cup Elems(b)
      /\ Unique(a \o b) /\ old \notin Elems(a) /\ old \notin Elems(b)
  <2>1. /\ Elems(a \o (m \o b)) = Elems(a) \cup Elems(m) \cup Elems(b)
        /\ Unique(a \o b) /\ Elems(m) \cap Elems(a) = {} /\ Elems(m) \cap Elems(b) = {}
    BY <1>p, Pieces
  <2> QED BY <1>1, <1>p, <2>1, Zenon
<1>3. /\ a \o (n \o b) \in Seq(Entry)
      /\ Elems(a \o (n \o b)) = Elems(a) \cup {new} \cup Elems(b)
      /\ Unique(a \o (n \o b)) /\ old # new
  <2>1. new \notin Elems(a) /\ new \notin Elems(b) /\ old # new
    BY <1>2, Zenon
  <2> QED BY <1>1, <1>2, <2>1, Pieces
<1>4. /\ h \notin Entry /\ Entry \subseteq Node /\ h \in Node
      /\ Last(a, h) \in {h} \cup Elems(a) /\ First(b, h) \in {h} \cup Elems(b)
      /\ Elems(a) \subseteq Entry /\ Elems(b) \subseteq Entry
  BY <1>0, Ends
<1>5. p.prev[old] = Last(a, h) /\ p.next[old] = First(b, h)
  <2>1. Arrow(p, Last(a, h), First(m, h)) /\ Arrow(p, Last(m, h), First(b, h))
    BY <1>0, <1>1, <1>p, Segment, Zenon
  <2> QED BY <1>1, <2>1, Zenon DEF Arrow
<1>6. /\ Last(a, h) # old /\ First(b, h) # old /\ Last(a, h) # new /\ First(b, h) # new
      /\ Last(a, h) \in Node /\ First(b, h) \in Node
  BY <1>2, <1>4, Zenon
<1> DEFINE A == {new, Last(a, h)}
           B == {new, First(b, h)}
<1>7. /\ q \in Heap /\ Arrow(q, Last(a, h), new) /\ Arrow(q, new, First(b, h))
      /\ Rewired(p, q, A, B)
  BY <1>0, <1>3, <1>4, <1>5, <1>6, ReplaceHeap, Zenon
<1>8. Path(q, h, a \o (n \o b), h)
  <2>1. /\ A \subseteq {Last(a, h)} \cup (Node \ ({h} \cup Elems(a) \cup Elems(b)))
        /\ B \subseteq {First(b, h)} \cup (Node \ ({h} \cup Elems(a) \cup Elems(b)))
    BY <1>2, <1>4, Zenon
  <2>2. /\ Arrow(q, Last(a, h), First(n, First(b, h)))
        /\ Arrow(q, Last(n, Last(a, h)), First(b, h))
    BY <1>1, <1>7
  <2> HIDE DEF A, B
  <2> QED BY <1>0, <1>1, <1>7, <1>p, <2>1, <2>2, Exchange, Zenon
<1>9. /\ A \cup B \subseteq {h} \cup Elems(ls[h]) \cup {new}
      /\ Unused({new}, ls, C, U)
      /\ Elems(a \o (n \o b)) \subseteq Elems(ls[h]) \cup {new}
  <2>1. A \cup B \subseteq {h} \cup Elems(ls[h]) \cup {new}
    BY <1>2, <1>4, Zenon
  <2>2. Unused({new}, ls, C, U)
    BY <1>0, NodesAssumption DEF Unused
  <2> QED BY <1>2, <1>3, <2>1, <2>2, Zenon
<1>10. Sound(q, ms, C, U)
  <2>1. ms = [ls EXCEPT ![h] = a \o (n \o b)]
    BY <1>n
  <2> HIDE DEF A, B
  <2>2. PICK W : W = {new}
    BY Zenon
  <2>3. ASSUME NEW r \in Heap, NEW ks, NEW s \in Seq(Entry), s = a \o (n \o b),
               Rewired(p, r, A, B), Path(r, h, s, h), ks = [ls EXCEPT ![h] = s]
        PROVE  Sound(r, ks, C, U)
    <3>1. /\ A \cup B \subseteq {h} \cup Elems(ls[h]) \cup W /\ Unused(W, ls, C, U)
          /\ Elems(s) \subseteq Elems(ls[h]) \cup W /\ Unique(s)
      BY <1>3, <1>9, <2>2, <2>3, Zenon
    <3> QED BY <2>3, <3>1, SoundRewire, Zenon
  <2> QED BY <1>3, <1>7, <1>8, <2>1, <2>3, Zenon
<1>11. old \notin U /\ \A c \in C \ {h} : old \notin Elems(ls[c])
  BY <1>2, Zenon DEF Sound
<1>12. ms[h] = a \o (n \o b) /\ \A c \in ListHead \ {h} : ms[c] = ls[c]
  BY <1>0, <1>n
<1>13. Free(old, ms, C, U)
  BY <1>0, <1>2, <1>3, <1>11, <1>12, Zenon DEF Free
<1>14. Exchanged(ls, ms, h, old, new)
  BY <1>2, <1>3, <1>12, Zenon DEF Exchanged
<1> QED BY <1>10, <1>13, <1>14

(* A piece on no ring gets a head of its own. *)
LEMMA SoundHead ==
  ASSUME NEW p, NEW ls, NEW C, NEW U, Sound(p, ls, C, U), NEW g \in ListHead \ C,
         NEW m \in Seq(Entry), m # <<>>, Unique(m), Inner(p, m),
         Elems(m) \cap U = {}, \A c \in C : Elems(m) \cap Elems(ls[c]) = {},
         NEW q \in Heap, Arrow(q, g, First(m, g)), Arrow(q, Last(m, g), g),
         Rewired(p, q, {g, Last(m, g)}, {g, First(m, g)}),
         NEW ms, ms = [ls EXCEPT ![g] = m]
  PROVE  Sound(q, ms, C \cup {g}, U)
<1>0. /\ First(m, g) \in Elems(m) /\ Last(m, g) \in Elems(m) /\ Elems(m) \subseteq Entry
      /\ g \notin Entry /\ Entry \subseteq Node
  BY Ends
<1>1. PICK A, B : A = {g, Last(m, g)} /\ B = {g, First(m, g)}
  BY Zenon
<1>2. Inner(q, m)
  <2>1. A \cap Elems(m) \subseteq {Last(m, g)} /\ B \cap Elems(m) \subseteq {First(m, g)}
    BY <1>0, <1>1
  <2>2. m \in Seq(Node) /\ Rewired(p, q, A, B)
    BY <1>0, <1>1
  <2> QED BY <2>1, <2>2, InnerKept
<1>3. Sound(q, ls, C, U)
  <2>1. /\ C \subseteq ListHead /\ U \subseteq Entry
        /\ \A c \in C : Elems(ls[c]) \subseteq Entry
    BY Ends DEF Sound
  <2>2. (A \cup B) \cap (C \cup U) = {}
    BY <1>0, <1>1, <2>1, NodesAssumption
  <2>3. \A c \in C : (A \cup B) \cap Elems(ls[c]) = {}
    BY <1>0, <1>1, <2>1
  <2>4. Rewired(p, q, A, B)
    BY <1>1
  <2> QED BY <2>2, <2>3, <2>4, SoundFrame
<1>4. Path(q, g, m, g)
  BY <1>2 DEF Path
<1> QED BY <1>3, <1>4, SoundRing, Zenon

(* INIT_LIST_HEAD of a head that holds nothing, and of an entry on no ring. *)
LEMMA SoundInit ==
  ASSUME NEW p, NEW ls, NEW C, NEW U, Sound(p, ls, C, U), NEW n \in Node,
         n \notin C \cup U, \A c \in C : n \notin Elems(ls[c]),
         NEW q, q = INIT_LIST_HEAD(p, n)
  PROVE  /\ n \in Entry => Sound(q, ls, C, U \cup {n})
         /\ n \in ListHead /\ ls[n] = <<>> => Sound(q, ls, C \cup {n}, U)
<1>0. p \in Heap /\ ls \in [ListHead -> Seq(Entry)]
  BY DEF Sound
<1>1. q \in Heap /\ Arrow(q, n, n) /\ Rewired(p, q, {n}, {n})
  BY <1>0, InitHeap
<1>2. Sound(q, ls, C, U)
  <2>1. \A r \in Heap : Rewired(p, r, {n}, {n}) => Sound(r, ls, C, U)
    <3>1. PICK A : A = {n}
      BY Zenon
    <3>2. (A \cup A) \cap (C \cup U) = {} /\ \A c \in C : (A \cup A) \cap Elems(ls[c]) = {}
      BY <3>1
    <3> QED BY <3>1, <3>2, SoundFrame
  <2> QED BY <1>1, <2>1
<1>3. n \in Entry => Sound(q, ls, C, U \cup {n})
  BY <1>1, <1>2, SoundAlone
<1>4. ASSUME n \in ListHead, ls[n] = <<>> PROVE Sound(q, ls, C \cup {n}, U)
  <2>1. <<>> \in Seq(Entry) /\ Unique(<<>>) /\ Elems(<<>>) = {}
    BY EmptyJoin DEF Unique, Elems
  <2>2. Path(q, n, <<>>, n)
    BY <1>1 DEF Path, First, Last, Inner
  <2>3. ls = [ls EXCEPT ![n] = <<>>]
    BY <1>0, <1>4
  <2>4. \A r : Sound(r, ls, C, U) /\ Path(r, n, <<>>, n) => Sound(r, ls, C \cup {n}, U)
    BY <1>4, <2>1, <2>3, SoundRing, Zenon
  <2> QED BY <1>2, <2>2, <2>4, Zenon
<1> QED BY <1>3, <1>4

\* from lists ls to ms: list g gets the first entries a of list h, b stay
Cut(ls, ms, g, h, a, b) ==
  /\ g # h /\ ls[g] = <<>> /\ a # <<>> /\ ls[h] = a \o b
  /\ ms = [ls EXCEPT ![g] = a, ![h] = b]

(* Both cuts move the entries a of list h to list g. *)
LEMMA SoundCut ==
  ASSUME NEW p, NEW ls, NEW C, NEW U, Sound(p, ls, C, U), NEW h \in C,
         NEW g \in ListHead \ C, NEW a \in Seq(Entry), NEW b \in Seq(Entry),
         NEW q, CutMade(p, q, g, h, First(a, h), Last(a, h), First(b, h)),
         NEW ms, Cut(ls, ms, g, h, a, b)
  PROVE  Sound(q, ms, C \cup {g}, U)
<1>a. a # <<>> /\ ls[h] = a \o b /\ ms = [ls EXCEPT ![g] = a, ![h] = b]
  BY DEF Cut
<1> USE <1>a
<1>0. /\ h \in ListHead /\ p \in Heap /\ ls \in [ListHead -> Seq(Entry)] /\ C \subseteq ListHead
      /\ Path(p, h, a \o b, h) /\ Unique(a \o b)
  BY Zenon DEF Sound
<1>1. PICK o \in Seq(Entry) : o \o (a \o b) = a \o b /\ o \o b = b /\ Last(o, h) = h
  <2>1. <<>> \in Seq(Entry) /\ <<>> \o (a \o b) = a \o b /\ <<>> \o b = b
    OBVIOUS
  <2>2. Last(<<>>, h) = h
    BY DEF Last
  <2> QED BY <2>1, <2>2, Zenon
<1>2. /\ First(a, h) \in Elems(a) /\ Last(a, h) \in Elems(a) /\ Elems(a) \subseteq Entry
      /\ h \notin Entry /\ g \notin Entry /\ Entry \subseteq Node /\ h \in Node /\ g \in Node
      /\ First(b, h) \in {h} \cup Elems(b) /\ First(b, h) \in Node
      /\ First(a, g) = First(a, h) /\ Last(a, g) = Last(a, h)
  BY <1>0, Ends
<1>3. PICK d \in Heap : Arrow(d, h, First(b, h)) /\ Rewired(p, d, {h}, {First(b, h)})
  BY <1>0, <1>2, DelHeap, Zenon
<1>4. PICK ks : ks = [ls EXCEPT ![h] = b]
  BY Zenon
<1>5. /\ Sound(d, ks, C, U) /\ Inner(d, a) /\ Unique(a)
      /\ Elems(a) \cap U = {} /\ \A c \in C : Elems(a) \cap Elems(ks[c]) = {}
  <2>1. Taken(p, ls, d, ks, h, o, a, b)
    BY <1>1, <1>3, <1>4 DEF Taken
  <2> QED BY <2>1, SoundTake
<1>6. /\ q \in Heap /\ Arrow(q, g, First(a, g)) /\ Arrow(q, Last(a, g), g)
      /\ Rewired(d, q, {g, Last(a, g)}, {g, First(a, g)})
  <2>1. /\ q \in Heap /\ Arrow(q, g, First(a, h)) /\ Arrow(q, Last(a, h), g)
        /\ Arrow(q, h, First(b, h))
        /\ Rewired(p, q, {g, Last(a, h), h}, {g, First(a, h), First(b, h)})
    BY DEF CutMade
  <2>2. Rewired(d, q, {g, Last(a, h)}, {g, First(a, h)})
    BY <1>3, <2>1, Zenon DEF Rewired, Arrow
  <2> QED BY <1>2, <2>1, <2>2
<1>7. ms = [ks EXCEPT ![g] = a]
  BY <1>0, <1>4, Zenon
<1> QED BY <1>5, <1>6, <1>7, SoundHead, Zenon

-----------------------------------------------------------------------------
(* The calls on one entry. *)
LEMMA HeadEnds ==
  ASSUME NEW p, NEW ls, NEW C, NEW U, Sound(p, ls, C, U), NEW h \in C
  PROVE  /\ p.next[h] = First(ls[h], h) /\ p.prev[h] = Last(ls[h], h)
         /\ h \in ListHead /\ ls[h] \in Seq(Entry) /\ p \in Heap
         /\ ls \in [ListHead -> Seq(Entry)] /\ C \subseteq ListHead
BY DEF Sound, Path, Arrow

\* the pointers of head h are to the ends of its list
Linked(p, ls, h) == p.next[h] = First(ls[h], h) /\ p.prev[h] = Last(ls[h], h)

LEMMA HeadLinks ==
  ASSUME NEW p, NEW ls, NEW C, NEW U, Sound(p, ls, C, U), NEW h \in C
  PROVE  Linked(p, ls, h)
BY HeadEnds DEF Linked

LEMMA NoSeq == ASSUME NEW S PROVE <<>> \in Seq(S)
OBVIOUS

\* from heap p and lists ls to q and ms: e joins list h between a and b
Added(p, ls, q, ms, h, a, e, b) ==
  /\ ls[h] = a \o b /\ ms = [ls EXCEPT ![h] = a \o (<<e>> \o b)]
  /\ q = __list_add(p, e, Last(a, h), First(b, h))

LEMMA PutOne ==
  ASSUME NEW p, NEW ls, NEW C, NEW U, Sound(p, ls, C, U), NEW h \in C,
         NEW e, Free(e, ls, C, U), NEW a \in Seq(Entry), NEW b \in Seq(Entry),
         NEW q, NEW ms, Added(p, ls, q, ms, h, a, e, b)
  PROVE  Sound(q, ms, C, U)
<1>0. h \in ListHead /\ p \in Heap /\ e \in Entry /\ e \notin Elems(ls[h])
  BY HeadEnds DEF Free
<1>1. PICK m \in Seq(Entry) :
        /\ m = <<e>> /\ m # <<>> /\ Elems(m) = {e} /\ Unique(m) /\ Inner(p, m)
        /\ First(m, h) = e /\ Last(m, h) = e
  BY <1>0, Single, Zenon
<1>2. Elems(ls[h]) = Elems(a) \cup Elems(b)
  BY Pieces DEF Added
<1>3. /\ Last(a, h) \in {h} \cup Elems(a) /\ First(b, h) \in {h} \cup Elems(b)
      /\ Last(a, h) \in Node /\ First(b, h) \in Node /\ h \notin Entry /\ Entry \subseteq Node
  BY <1>0, Ends
<1>4. Last(a, h) # e /\ First(b, h) # e /\ e \in Node
  BY <1>0, <1>2, <1>3
<1>5. /\ q \in Heap /\ Arrow(q, Last(a, h), e) /\ Arrow(q, e, First(b, h))
      /\ Rewired(p, q, {e, Last(a, h)}, {e, First(b, h)})
  BY <1>0, <1>3, <1>4, AddHeap, Zenon DEF Added
<1>6. {e, Last(a, h)} = {Last(a, h), e}
  OBVIOUS
<1>7. Put(p, ls, q, ms, h, a, m, b)
  BY <1>1, <1>5, <1>6, Zenon DEF Put, Added
<1>8. Elems(m) \cap U = {} /\ \A c \in C : Elems(m) \cap Elems(ls[c]) = {}
  BY <1>1 DEF Free
<1> QED BY <1>1, <1>7, <1>8, SoundPut, Zenon

\* list_add and list_add_tail of e on list h, and what they mean
AddedFront(p, ls, q, ms, e, h) ==
  q = list_add(p, e, h) /\ ms = [ls EXCEPT ![h] = <<e>> \o @]
AddedTail(p, ls, q, ms, e, h) ==
  q = list_add_tail(p, e, h) /\ ms = [ls EXCEPT ![h] = Append(@, e)]

LEMMA PutFront ==
  ASSUME NEW p, NEW ls, NEW C, NEW U, Sound(p, ls, C, U), NEW h \in C,
         NEW e, Free(e, ls, C, U), NEW q, NEW ms, AddedFront(p, ls, q, ms, e, h)
  PROVE  Sound(q, ms, C, U)
<1>0. /\ p.next[h] = First(ls[h], h) /\ h \in ListHead /\ ls[h] \in Seq(Entry)
      /\ e \in Entry
  BY HeadEnds DEF Free
<1>1. PICK b \in Seq(Entry) : b = ls[h]
  BY <1>0
<1>2. PICK a \in Seq(Entry) : a = <<>>
  BY NoSeq, Zenon
<1>3. Last(a, h) = h /\ ls[h] = a \o b /\ a \o (<<e>> \o b) = <<e>> \o b
  BY <1>0, <1>1, <1>2 DEF Last
<1>4. Added(p, ls, q, ms, h, a, e, b)
  <2>1. q = __list_add(p, e, Last(a, h), First(b, h))
    BY <1>0, <1>1, <1>3 DEF AddedFront, list_add
  <2>2. ms = [ls EXCEPT ![h] = a \o (<<e>> \o b)]
    BY <1>1, <1>3, Zenon DEF AddedFront
  <2> QED BY <1>3, <2>1, <2>2 DEF Added
<1> QED BY <1>4, PutOne

LEMMA PutTail ==
  ASSUME NEW p, NEW ls, NEW C, NEW U, Sound(p, ls, C, U), NEW h \in C,
         NEW e, Free(e, ls, C, U), NEW q, NEW ms, AddedTail(p, ls, q, ms, e, h)
  PROVE  Sound(q, ms, C, U)
<1>0. /\ p.prev[h] = Last(ls[h], h) /\ h \in ListHead /\ ls[h] \in Seq(Entry)
      /\ e \in Entry
  BY HeadEnds DEF Free
<1>1. PICK a \in Seq(Entry) : a = ls[h]
  BY <1>0
<1>2. PICK b \in Seq(Entry) : b = <<>>
  BY NoSeq, Zenon
<1>3. First(b, h) = h /\ ls[h] = a \o b /\ a \o (<<e>> \o b) = Append(a, e)
  BY <1>0, <1>1, <1>2 DEF First
<1>4. Added(p, ls, q, ms, h, a, e, b)
  <2>1. q = __list_add(p, e, Last(a, h), First(b, h))
    BY <1>0, <1>1, <1>3 DEF AddedTail, list_add_tail
  <2>2. ms = [ls EXCEPT ![h] = a \o (<<e>> \o b)]
    BY <1>1, <1>3, Zenon DEF AddedTail
  <2> QED BY <1>3, <2>1, <2>2 DEF Added
<1> QED BY <1>4, PutOne

\* the k-th entry e of list g is unlinked
Unlinked(p, ls, q, ms, e, g, k) ==
  /\ k \in 1 .. Len(ls[g]) /\ e = ls[g][k]
  /\ q = __list_del_entry(p, e) /\ ms = [ls EXCEPT ![g] = Without(@, k)]

LEMMA TakeOne ==
  ASSUME NEW p, NEW ls, NEW C, NEW U, Sound(p, ls, C, U), NEW g \in C,
         NEW k, NEW e, NEW q, NEW ms, Unlinked(p, ls, q, ms, e, g, k)
  PROVE  Sound(q, ms, C, U) /\ Free(e, ms, C, U)
<1>0. /\ g \in ListHead /\ ls[g] \in Seq(Entry) /\ p \in Heap /\ Path(p, g, ls[g], g)
      /\ ls \in [ListHead -> Seq(Entry)] /\ e \in Entry /\ k \in 1 .. Len(ls[g])
      /\ e = ls[g][k]
  BY DEF Sound, Unlinked
<1>1. PICK s \in Seq(Entry) : s = ls[g]
  BY <1>0
<1>2. PICK a, b \in Seq(Entry) : Splits(Entry, s, k, a, b)
  <2>1. k \in 1 .. Len(s)
    BY <1>0, <1>1
  <2> QED BY <2>1, Around
<1>3. PICK m \in Seq(Entry) :
        m = <<e>> /\ m # <<>> /\ Elems(m) = {e} /\ First(m, g) = e /\ Last(m, g) = e
  BY <1>0, Single, Zenon
<1>4. ls[g] = a \o (m \o b) /\ Without(ls[g], k) = a \o b
  BY <1>0, <1>1, <1>2, <1>3 DEF Splits
<1>5. p.prev[e] = Last(a, g) /\ p.next[e] = First(b, g)
  <2>1. Path(p, g, a \o (m \o b), g)
    BY <1>0, <1>4
  <2>2. Arrow(p, Last(a, g), First(m, g)) /\ Arrow(p, Last(m, g), First(b, g))
    BY <1>0, <1>3, <2>1, Segment, Zenon
  <2> QED BY <1>3, <2>2 DEF Arrow
<1>6. Last(a, g) \in Node /\ First(b, g) \in Node
  BY <1>0, Ends
<1>7. /\ q \in Heap /\ Arrow(q, Last(a, g), First(b, g))
      /\ Rewired(p, q, {Last(a, g)}, {First(b, g)})
  BY <1>0, <1>5, <1>6, DelHeap, Zenon DEF Unlinked, __list_del_entry
<1>8. Taken(p, ls, q, ms, g, a, m, b)
  BY <1>3, <1>4, <1>7, Zenon DEF Taken, Unlinked
<1>9. /\ Sound(q, ms, C, U) /\ Elems(m) \cap U = {}
      /\ \A c \in C : Elems(m) \cap Elems(ms[c]) = {}
  BY <1>8, SoundTake
<1> QED BY <1>0, <1>3, <1>9 DEF Free

-----------------------------------------------------------------------------
(* What a call leaves: rings for the heads in v, and every entry in v on   *)
(* one of them or alone.                                                   *)
LEMMA CallIInv ==
  ASSUME IInv, NEW hp, NEW ls, NEW v, Call(hp, ls, v), NEW U,
         v \subseteq Node, Sound(hp, ls, ListHead \cap v, U),
         \A h \in ListHead : (h \in v \/ ls[h] = <<>>) /\ Elems(ls[h]) \subseteq v,
         \A e \in Entry \cap v : e \in U \/ \E h \in ListHead : e \in Elems(ls[h])
  PROVE  IInv'
<1>1. ~Walking /\ walk' = walk /\ heap' = hp /\ lists' = ls /\ valid' = v
  BY DEF Call
<1>2. Heads' = ListHead \cap v
  BY <1>1 DEF Heads
<1>3. AloneSet' \subseteq U
  BY <1>1 DEF AloneSet, Alone, Listed
<1>4. Sound(heap', lists', Heads', AloneSet')
  <2>1. ls \in [ListHead -> Seq(Entry)]
    BY DEF Sound
  <2>2. \A V \in SUBSET U : Sound(hp, ls, ListHead \cap v, V)
    BY <2>1, SoundDrop
  <2> QED BY <1>1, <1>2, <1>3, <2>2, Zenon
<1> QED BY <1>1, <1>4, SoundNext

(* The state before a call, as constants. *)
Before(p, ls, v, C, U) ==
  /\ p = heap /\ ls = lists /\ v = valid /\ C = ListHead \cap v
  /\ U = {e \in Entry \cap v : \A h \in ListHead : e \notin Elems(ls[h])}
  /\ v \subseteq Node
  /\ \A h \in ListHead : (h \in v \/ ls[h] = <<>>) /\ Elems(ls[h]) \subseteq v \cap Entry

LEMMA SoundBefore ==
  ASSUME IInv
  PROVE  \E p, ls, v, C, U : Before(p, ls, v, C, U) /\ Sound(p, ls, C, U)
<1>1. PICK p, ls, v, C, U :
        /\ p = heap /\ ls = lists /\ v = valid /\ C = ListHead \cap v
        /\ U = {e \in Entry \cap v : \A h \in ListHead : e \notin Elems(ls[h])}
  BY Zenon
<1>2. Sound(p, ls, C, U)
  <2>1. C = Heads /\ U = AloneSet
    BY <1>1 DEF Heads, AloneSet, Alone, Listed
  <2> QED BY <1>1, <2>1, SoundNow, Zenon
<1>3. Before(p, ls, v, C, U)
  BY <1>1, OneList, Zenon DEF Before, IInv, TypeOK, HeadsValid
<1> QED BY <1>2, <1>3

(* list_add: the entry joins the list in front. *)
LEMMA AddFrontIInv ==
  ASSUME IInv, NEW e \in Entry, NEW h \in ListHead, Add(e, h)
  PROVE  IInv'
<1>1. PICK p, ls, v, C, U : Before(p, ls, v, C, U) /\ Sound(p, ls, C, U)
  BY SoundBefore
<1>2. PICK q, ms, w : AddedFront(p, ls, q, ms, e, h) /\ w = v \cup {e}
  BY Zenon DEF AddedFront
<1>3. /\ h \in C /\ \A c \in ListHead : e \notin Elems(ls[c])
      /\ Call(q, ms, w)
  BY <1>1, <1>2 DEF Add, Before, AddedFront, Heads, Listed
<1>4. PICK V : V = U \ {e}
  BY Zenon
<1>5. Sound(p, ls, C, V) /\ Free(e, ls, C, V)
  <2>1. ls \in [ListHead -> Seq(Entry)] /\ C \subseteq ListHead
    BY <1>1 DEF Sound
  <2>2. Sound(p, ls, C, V)
    BY <1>1, <1>4, <2>1, SoundDrop
  <2> QED BY <1>3, <1>4, <2>1, <2>2 DEF Free
<1>6. Sound(q, ms, C, V)
  BY <1>2, <1>3, <1>5, PutFront
<1>7. /\ ms[h] = <<e>> \o ls[h] /\ Elems(ms[h]) = {e} \cup Elems(ls[h])
      /\ \A g \in ListHead \ {h} : ms[g] = ls[g]
  <2>1. ls \in [ListHead -> Seq(Entry)]
    BY <1>1 DEF Sound
  <2>2. ms[h] = <<e>> \o ls[h] /\ \A g \in ListHead \ {h} : ms[g] = ls[g]
    BY <1>2, <2>1 DEF AddedFront
  <2>3. PICK m \in Seq(Entry) : m = <<e>> /\ Elems(m) = {e}
    BY Single, Zenon
  <2>4. Elems(m \o ls[h]) = Elems(m) \cup Elems(ls[h])
    BY <2>1, JoinElems
  <2> QED BY <2>2, <2>3, <2>4
<1>8. C = ListHead \cap w /\ w \subseteq Node
  BY <1>1, <1>2, NodesAssumption DEF Before, Node
<1>9. \A g \in ListHead : (g \in w \/ ms[g] = <<>>) /\ Elems(ms[g]) \subseteq w
  <2>1. h \in w
    BY <1>1, <1>2, <1>3 DEF Before
  <2> QED BY <1>1, <1>2, <1>7, <2>1, Zenon DEF Before
<1>10. \A f \in Entry \cap w : f \in V \/ \E g \in ListHead : f \in Elems(ms[g])
  BY <1>1, <1>2, <1>4, <1>7, Zenon DEF Before
<1> QED BY <1>3, <1>6, <1>8, <1>9, <1>10, CallIInv, Zenon

\* list g has entry e less, and the other lists are as before
Shrunk(ls, ms, g, e) ==
  /\ Elems(ms[g]) = Elems(ls[g]) \ {e} /\ e \in Elems(ls[g])
  /\ \A c \in ListHead \ {g} : ms[c] = ls[c]

(* The entries listed after e was unlinked from, or joined, a list. *)
LEMMA UnlinkedElems ==
  ASSUME NEW p, NEW ls, NEW C, NEW U, Sound(p, ls, C, U), NEW g \in C,
         NEW k, NEW e, NEW q, NEW ms, Unlinked(p, ls, q, ms, e, g, k)
  PROVE  Shrunk(ls, ms, g, e)
<1>0. /\ g \in ListHead /\ ls[g] \in Seq(Entry) /\ Unique(ls[g]) /\ k \in 1 .. Len(ls[g])
      /\ e = ls[g][k] /\ ls \in [ListHead -> Seq(Entry)]
  BY DEF Sound, Unlinked
<1>1. ms[g] = Without(ls[g], k) /\ \A c \in ListHead \ {g} : ms[c] = ls[c]
  BY <1>0 DEF Unlinked
<1>2. Elems(Without(ls[g], k)) = Elems(ls[g]) \ {ls[g][k]}
  BY <1>0, WithoutElems
<1>3. e \in Elems(ls[g])
  BY <1>0 DEF Elems
<1> QED BY <1>0, <1>1, <1>2, <1>3 DEF Shrunk

\* e joins list h, at one end or the other
Joined(p, ls, q, ms, e, h) ==
  AddedFront(p, ls, q, ms, e, h) \/ AddedTail(p, ls, q, ms, e, h)

\* list h has entry e more, and the other lists are as before
Grown(ls, ms, h, e) ==
  Elems(ms[h]) = Elems(ls[h]) \cup {e} /\ \A c \in ListHead \ {h} : ms[c] = ls[c]

LEMMA AddedElems ==
  ASSUME NEW p, NEW ls \in [ListHead -> Seq(Entry)], NEW h \in ListHead, NEW e \in Entry,
         NEW q, NEW ms, Joined(p, ls, q, ms, e, h)
  PROVE  Grown(ls, ms, h, e)
<1>1. \A c \in ListHead \ {h} : ms[c] = ls[c]
  BY DEF Joined, AddedFront, AddedTail
<1>2. ASSUME AddedFront(p, ls, q, ms, e, h) PROVE Elems(ms[h]) = Elems(ls[h]) \cup {e}
  <2>1. ms[h] = <<e>> \o ls[h]
    BY <1>2 DEF AddedFront
  <2>2. PICK m \in Seq(Entry) : m = <<e>> /\ Elems(m) = {e}
    BY Single, Zenon
  <2>3. Elems(m \o ls[h]) = Elems(m) \cup Elems(ls[h])
    BY JoinElems
  <2> QED BY <2>1, <2>2, <2>3
<1>3. ASSUME AddedTail(p, ls, q, ms, e, h) PROVE Elems(ms[h]) = Elems(ls[h]) \cup {e}
  <2>1. ms[h] = Append(ls[h], e)
    BY <1>3 DEF AddedTail
  <2> QED BY <2>1, AppendElems
<1> QED BY <1>1, <1>2, <1>3 DEF Joined, Grown

(* Unlinking a listed entry is what Removed says. *)
LEMMA RemovedUnlinks ==
  ASSUME IInv, NEW e \in Entry, Listed(e), NEW p, NEW ls, NEW v, NEW C, NEW U,
         Before(p, ls, v, C, U)
  PROVE  \E q, ms, g, k : /\ Unlinked(p, ls, q, ms, e, g, k) /\ g \in C
                          /\ ms = Removed(e) /\ q = __list_del_entry(heap, e)
<1>1. PICK g, k : g = ListOf(e) /\ k = Index(e)
  OBVIOUS
<1>2. /\ g \in ListHead \cap valid /\ k \in 1 .. Len(lists[g]) /\ lists[g][k] = e
  BY <1>1, Place
<1>3. PICK q, ms : q = __list_del_entry(p, e) /\ ms = [ls EXCEPT ![g] = Without(@, k)]
  BY Zenon
<1>4. p = heap /\ ls = lists /\ C = ListHead \cap valid
  BY DEF Before
<1>5. Unlinked(p, ls, q, ms, e, g, k) /\ g \in C
  BY <1>2, <1>3, <1>4 DEF Unlinked
<1>6. ms = Removed(e) /\ q = __list_del_entry(heap, e)
  BY <1>1, <1>3, <1>4 DEF Removed
<1> QED BY <1>5, <1>6

(* list_del_init: the entry leaves its list, if it is on one, and points to *)
(* itself.                                                                 *)
LEMMA DelInitIInv ==
  ASSUME IInv, NEW e \in Entry, DelInit(e)
  PROVE  IInv'
<1>1. PICK p, ls, v, C, U : Before(p, ls, v, C, U) /\ Sound(p, ls, C, U)
  BY SoundBefore
<1>b. /\ p = heap /\ ls = lists /\ v = valid /\ C = ListHead \cap v /\ v \subseteq Node
      /\ \A h \in ListHead : (h \in v \/ ls[h] = <<>>) /\ Elems(ls[h]) \subseteq v
      /\ \A f \in Entry \cap v : f \in U \/ \E h \in ListHead : f \in Elems(ls[h])
      /\ U \subseteq v /\ e \in v /\ C \subseteq ListHead
  BY <1>1 DEF Before, DelInit
<1>n. e \in Node /\ e \notin C
  BY <1>b, NodesAssumption DEF Node
<1>2. CASE Listed(e)
  <2>1. PICK d, ms, g, k : /\ Unlinked(p, ls, d, ms, e, g, k) /\ g \in C
                           /\ ms = Removed(e) /\ d = __list_del_entry(heap, e)
    BY <1>1, <1>2, RemovedUnlinks
  <2>2. Sound(d, ms, C, U) /\ Free(e, ms, C, U)
    BY <1>1, <2>1, TakeOne
  <2>3. PICK q : q = INIT_LIST_HEAD(d, e)
    OBVIOUS
  <2>4. Sound(q, ms, C, U \cup {e})
    <3>1. e \notin C \cup U /\ \A c \in C : e \notin Elems(ms[c])
      BY <1>n, <2>2 DEF Free
    <3> QED BY <1>n, <2>2, <2>3, <3>1, SoundInit, Zenon
  <2>5. Call(q, ms, v)
    BY <1>b, <2>1, <2>3 DEF DelInit, list_del_init
  <2>6. Elems(ms[g]) = Elems(ls[g]) \ {e} /\ \A c \in ListHead \ {g} : ms[c] = ls[c]
    <3>1. g \in C /\ Unlinked(p, ls, d, ms, e, g, k)
      BY <2>1
    <3>2. Shrunk(ls, ms, g, e)
      BY <1>1, <3>1, UnlinkedElems, Zenon
    <3> QED BY <3>2, Zenon DEF Shrunk
  <2>7. \A h \in ListHead : (h \in v \/ ms[h] = <<>>) /\ Elems(ms[h]) \subseteq v
    BY <1>b, <2>1, <2>6
  <2>8. \A f \in Entry \cap v : f \in U \cup {e} \/ \E h \in ListHead : f \in Elems(ms[h])
    BY <1>b, <2>6
  <2> QED BY <1>b, <2>4, <2>5, <2>7, <2>8, CallIInv, Zenon
<1>3. CASE ~Listed(e)
  <2>1. e \in U /\ \A c \in C : e \notin Elems(ls[c])
    BY <1>b, <1>3 DEF Listed
  <2>2. p \in Heap /\ Arrow(p, e, e)
    BY <1>1, <2>1 DEF Sound
  <2>3. PICK d, q : d = INIT_LIST_HEAD(p, e) /\ q = INIT_LIST_HEAD(d, e)
    OBVIOUS
  <2>4. Call(q, ls, v)
    <3>1. list_del_init(p, e) = q
      BY <2>2, <2>3 DEF list_del_init, __list_del_entry, __list_del, INIT_LIST_HEAD, Arrow
    <3> QED BY <1>b, <1>3, <3>1 DEF DelInit, Removed
  <2>5. PICK V : V = U \ {e}
    BY Zenon
  <2>6. Sound(p, ls, C, V)
    <3>1. ls \in [ListHead -> Seq(Entry)]
      BY <1>1 DEF Sound
    <3> QED BY <1>1, <2>5, <3>1, SoundDrop
  <2>7. Sound(d, ls, C, V \cup {e})
    BY <1>n, <2>1, <2>3, <2>5, <2>6, SoundInit, Zenon
  <2>8. Sound(q, ls, C, V \cup {e})
    <3>1. Sound(d, ls, C, V)
      <4>1. ls \in [ListHead -> Seq(Entry)]
        BY <1>1 DEF Sound
      <4> QED BY <2>7, <4>1, SoundDrop
    <3> QED BY <1>n, <2>1, <2>3, <2>5, <3>1, SoundInit, Zenon
  <2>9. V \cup {e} = U
    BY <2>1, <2>5
  <2> QED BY <1>b, <2>4, <2>8, <2>9, CallIInv, Zenon
<1> QED BY <1>2, <1>3

(* list_move and list_move_tail: the entry leaves its list and joins, in    *)
(* front or at the tail, the same list or another.                         *)
LEMMA MovedIInv ==
  ASSUME IInv, NEW p, NEW ls, NEW v, NEW C, NEW U,
         Before(p, ls, v, C, U), Sound(p, ls, C, U), NEW e \in Entry,
         NEW d, NEW ks, NEW g \in C, NEW k, Unlinked(p, ls, d, ks, e, g, k),
         NEW q, NEW ms, NEW h \in C, Joined(d, ks, q, ms, e, h),
         Call(q, ms, v)
  PROVE  IInv'
<1>1. Sound(d, ks, C, U) /\ Free(e, ks, C, U)
  BY TakeOne
<1>2. Sound(q, ms, C, U)
  BY <1>1, PutFront, PutTail DEF Joined
<1>3. ks \in [ListHead -> Seq(Entry)] /\ C \subseteq ListHead
  BY <1>1 DEF Sound
<1>4. /\ Elems(ks[g]) = Elems(ls[g]) \ {e} /\ e \in Elems(ls[g])
      /\ \A c \in ListHead \ {g} : ks[c] = ls[c]
  <2>1. Shrunk(ls, ks, g, e)
    BY UnlinkedElems, Zenon
  <2> QED BY <2>1, Zenon DEF Shrunk
<1>5. /\ Elems(ms[h]) = Elems(ks[h]) \cup {e}
      /\ \A c \in ListHead \ {h} : ms[c] = ks[c]
  <2>1. h \in ListHead
    BY <1>3
  <2>2. Grown(ks, ms, h, e)
    BY <1>3, <2>1, AddedElems
  <2> QED BY <2>2, Zenon DEF Grown
<1>6. C = ListHead \cap v /\ v \subseteq Node /\ g \in ListHead /\ h \in ListHead
  BY <1>3 DEF Before
<1>7. \A c \in ListHead : (c \in v \/ ms[c] = <<>>) /\ Elems(ms[c]) \subseteq v
  <2> SUFFICES ASSUME NEW c \in ListHead
               PROVE  (c \in v \/ ms[c] = <<>>) /\ Elems(ms[c]) \subseteq v
    BY Zenon
  <2>1. (c \in v \/ ls[c] = <<>>) /\ Elems(ls[c]) \subseteq v /\ Elems(ls[g]) \subseteq v
    BY <1>6, Zenon DEF Before
  <2>2. c \in v \/ ms[c] = <<>>
    BY <1>4, <1>5, <1>6, <2>1, Zenon
  <2>3. Elems(ks[c]) \subseteq v
    BY <1>4, <2>1, Zenon
  <2> QED BY <1>4, <1>5, <2>1, <2>2, <2>3, Zenon
<1>8. \A f \in Entry \cap v : f \in U \/ \E c \in ListHead : f \in Elems(ms[c])
  <2> SUFFICES ASSUME NEW f \in Entry \cap v, f \notin U
               PROVE  \E c \in ListHead : f \in Elems(ms[c])
    OBVIOUS
  <2>1. PICK c \in ListHead : f \in Elems(ls[c])
    BY Zenon DEF Before
  <2>2. f = e \/ f \in Elems(ks[c])
    BY <1>4, <2>1, Zenon
  <2> QED BY <1>5, <1>6, <2>2, Zenon
<1> QED BY <1>2, <1>6, <1>7, <1>8, CallIInv, Zenon

LEMMA MoveIInv ==
  ASSUME IInv, NEW e \in Entry, NEW h \in ListHead, Move(e, h) \/ MoveTail(e, h)
  PROVE  IInv'
<1>1. PICK p, ls, v, C, U : Before(p, ls, v, C, U) /\ Sound(p, ls, C, U)
  BY SoundBefore
<1>2. h \in C /\ Listed(e)
  BY <1>1 DEF Before, Move, MoveTail, Heads
<1>3. PICK d, ks, g, k : /\ Unlinked(p, ls, d, ks, e, g, k) /\ g \in C
                         /\ ks = Removed(e) /\ d = __list_del_entry(heap, e)
  BY <1>1, <1>2, RemovedUnlinks
<1>4. CASE Move(e, h)
  <2>1. PICK q, ms : AddedFront(d, ks, q, ms, e, h)
    BY Zenon DEF AddedFront
  <2>2. Call(q, ms, v)
    BY <1>1, <1>3, <1>4, <2>1, Zenon DEF Move, list_move, AddedFront, Before
  <2> QED BY <1>1, <1>2, <1>3, <2>1, <2>2, MovedIInv DEF Joined
<1>5. CASE MoveTail(e, h)
  <2>1. PICK q, ms : AddedTail(d, ks, q, ms, e, h)
    BY Zenon DEF AddedTail
  <2>2. Call(q, ms, v)
    BY <1>1, <1>3, <1>5, <2>1, Zenon DEF MoveTail, list_move_tail, AddedTail, Before
  <2> QED BY <1>1, <1>2, <1>3, <2>1, <2>2, MovedIInv DEF Joined
<1> QED BY <1>4, <1>5

(* INIT_LIST_HEAD of a head that is stale, or holds an empty list. *)
LEMMA InitEmptyIInv ==
  ASSUME IInv, NEW h \in ListHead, lists[h] = <<>>,
         Call(INIT_LIST_HEAD(heap, h), lists, valid \cup {h})
  PROVE  IInv'
<1>1. PICK p, ls, v, C, U : Before(p, ls, v, C, U) /\ Sound(p, ls, C, U)
  BY SoundBefore
<1>2. PICK q, w, D : q = INIT_LIST_HEAD(p, h) /\ w = v \cup {h} /\ D = C \ {h}
  BY Zenon
<1>3. /\ Call(q, ls, w) /\ ls[h] = <<>> /\ h \in Node
      /\ w \subseteq Node /\ D \cup {h} = ListHead \cap w /\ h \notin Entry
      /\ ls \in [ListHead -> Seq(Entry)] /\ U \subseteq Entry /\ D \subseteq C
  BY <1>1, <1>2, NodesAssumption DEF Before, Node, Sound
<1>4. Sound(q, ls, ListHead \cap w, U)
  <2>1. h \notin D \cup U /\ \A c \in D : h \notin Elems(ls[c])
    <3>1. h \notin U /\ h \notin D
      BY <1>2, <1>3
    <3>2. \A c \in D : c \in ListHead /\ ls[c] \in Seq(Entry)
      BY <1>1, <1>3 DEF Sound
    <3>3. \A c \in D : Elems(ls[c]) \subseteq Entry
      BY <3>2, Ends
    <3> QED BY <1>3, <3>1, <3>3
  <2>2. Sound(p, ls, D, U)
    BY <1>1, <1>3, SoundDrop
  <2>3. Sound(q, ls, D \cup {h}, U)
    BY <1>2, <1>3, <2>1, <2>2, SoundInit, Zenon
  <2> QED BY <1>3, <2>3, Zenon
<1>5. \A c \in ListHead : (c \in w \/ ls[c] = <<>>) /\ Elems(ls[c]) \subseteq w
  BY <1>1, <1>2 DEF Before
<1>6. \A f \in Entry \cap w : f \in U \/ \E c \in ListHead : f \in Elems(ls[c])
  BY <1>1, <1>2, <1>3 DEF Before
<1> QED BY <1>3, <1>4, <1>5, <1>6, CallIInv

LEMMA ReinitIInv ==
  ASSUME IInv, NEW h \in ListHead, Reinit(h)
  PROVE  IInv'
<1>1. lists[h] = <<>> /\ Call(INIT_LIST_HEAD(heap, h), lists, valid \cup {h})
  BY DEF Reinit, IInv, HeadsValid
<1> QED BY <1>1, InitEmptyIInv

LEMMA FirstOut ==
  ASSUME NEW S, NEW s \in Seq(S), s # <<>>
  PROVE  Without(s, 1) = Tail(s) /\ Head(s) = s[1]
<1>1. PICK n \in Nat : n = Len(s) /\ n > 0
  OBVIOUS
<1>2. /\ Tail(s) \in Seq(S) /\ Len(Tail(s)) = n - 1
      /\ \A j \in 1 .. n - 1 : Tail(s)[j] = s[j + 1]
  BY <1>1
<1>3. PICK t : t = [j \in 1 .. n - 1 |-> s[j + 1]]
  BY Zenon
<1>4. t \in Seq(S) /\ Len(t) = n - 1 /\ \A j \in 1 .. n - 1 : t[j] = s[j + 1]
  BY <1>1, <1>3
<1>5. Tail(s) = t
  BY <1>2, <1>4, SeqSame
<1>6. Without(s, 1) = t
  BY <1>1, <1>3 DEF Without
<1> QED BY <1>5, <1>6

(* list_rotate_left: the first entry becomes the last. *)
LEMMA RotateIInv ==
  ASSUME IInv, NEW h \in ListHead, RotateLeft(h)
  PROVE  IInv'
<1>1. PICK p, ls, v, C, U : Before(p, ls, v, C, U) /\ Sound(p, ls, C, U)
  BY SoundBefore
<1>b. /\ p = heap /\ ls = lists /\ v = valid /\ h \in C /\ C = ListHead \cap v /\ v \subseteq Node
      /\ ls \in [ListHead -> Seq(Entry)] /\ ls[h] \in Seq(Entry)
      /\ \A c \in ListHead : (c \in v \/ ls[c] = <<>>) /\ Elems(ls[c]) \subseteq v
      /\ \A f \in Entry \cap v : f \in U \/ \E c \in ListHead : f \in Elems(ls[c])
  BY <1>1 DEF Before, RotateLeft, Heads, Sound
<1>2. /\ p.next[h] = h <=> ls[h] = <<>>
      /\ ls[h] # <<>> => p.next[h] = ls[h][1]
  <2>1. p.next[h] = First(ls[h], h)
    BY <1>1, <1>b, HeadEnds
  <2>2. ls[h] # <<>> => First(ls[h], h) # h
    BY <1>b, Ends
  <2> QED BY <2>1, <2>2 DEF First
<1>3. CASE ls[h] = <<>>
  <2>1. Call(p, ls, v)
    BY <1>b, <1>2, <1>3, Zenon DEF RotateLeft, list_rotate_left, list_empty
  <2> QED BY <1>1, <1>b, <2>1, CallIInv
<1>4. CASE ls[h] # <<>>
  <2>0. PICK e \in Entry : e = ls[h][1] /\ 1 \in 1 .. Len(ls[h])
    BY <1>b, <1>4
  <2>1. PICK d, ks : d = __list_del_entry(p, e) /\ ks = [ls EXCEPT ![h] = Without(@, 1)]
    BY Zenon
  <2>2. Unlinked(p, ls, d, ks, e, h, 1)
    BY <2>0, <2>1 DEF Unlinked
  <2>3. PICK q, ms : AddedTail(d, ks, q, ms, e, h)
    BY Zenon DEF AddedTail
  <2>4. Call(q, ms, v)
    <3>1. Without(ls[h], 1) = Tail(ls[h]) /\ Head(ls[h]) = e
      BY <1>b, <1>4, <2>0, FirstOut
    <3>2. ms = [ls EXCEPT ![h] = Append(Tail(ls[h]), Head(ls[h]))]
      BY <1>b, <2>1, <2>3, <3>1 DEF AddedTail
    <3>3. q = list_rotate_left(p, h)
      BY <1>2, <1>4, <1>b, <2>0, <2>1, <2>3
         DEF AddedTail, list_rotate_left, list_empty, list_move_tail
    <3> QED BY <1>b, <1>4, <3>2, <3>3 DEF RotateLeft
  <2> QED BY <1>1, <1>b, <2>2, <2>3, <2>4, MovedIInv, Zenon DEF Joined
<1> QED BY <1>3, <1>4

(* list_replace and list_replace_init of a listed entry: the new entry has *)
(* its place, and the old one is stale or, initialised, alone.             *)
LEMMA ReplaceIInv ==
  ASSUME IInv, NEW old \in Entry, NEW new \in Entry,
         Replace(old, new) \/ ReplaceInit(old, new)
  PROVE  IInv'
<1>1. PICK p, ls, v, C, U : Before(p, ls, v, C, U) /\ Sound(p, ls, C, U)
  BY SoundBefore
<1>b. /\ p = heap /\ ls = lists /\ v = valid /\ C = ListHead \cap v /\ v \subseteq Node
      /\ \A c \in ListHead : (c \in v \/ ls[c] = <<>>) /\ Elems(ls[c]) \subseteq v
      /\ \A f \in Entry \cap v : f \in U \/ \E c \in ListHead : f \in Elems(ls[c])
      /\ U \subseteq v /\ C \subseteq ListHead /\ ls \in [ListHead -> Seq(Entry)]
      /\ Listed(old) /\ \A c \in ListHead : new \notin Elems(ls[c])
  BY <1>1 DEF Before, Replace, ReplaceInit, Sound, Listed
<1>n. old \in Node /\ new \in Node /\ old \notin ListHead /\ new \notin ListHead
  BY NodesAssumption DEF Node
<1>2. PICK h, k : h = ListOf(old) /\ k = Index(old)
  OBVIOUS
<1>3. /\ h \in ListHead \cap valid /\ k \in 1 .. Len(lists[h]) /\ lists[h][k] = old
      /\ old \in valid
  BY <1>b, <1>2, Place
<1>4. PICK s \in Seq(Entry) : s = ls[h]
  BY <1>b, <1>3
<1>5. PICK a, b \in Seq(Entry) : Splits(Entry, s, k, a, b)
  <2>1. k \in 1 .. Len(s)
    BY <1>b, <1>3, <1>4
  <2> QED BY <2>1, Around
<1>6. PICK q, ms : q = list_replace(p, old, new) /\ ms = [ls EXCEPT ![h] = a \o (<<new>> \o b)]
  BY Zenon
<1>7. Swapped(p, ls, q, ms, h, a, old, new, b)
  BY <1>b, <1>3, <1>4, <1>5, <1>6, Zenon DEF Splits, Swapped
<1>8. ms = Replaced(old, new)
  <2>1. [s EXCEPT ![k] = new] = a \o (<<new>> \o b)
    BY <1>5 DEF Splits
  <2>2. Replaced(old, new) = [ls EXCEPT ![h] = [s EXCEPT ![k] = new]]
    BY <1>b, <1>2, <1>4 DEF Replaced
  <2> QED BY <1>6, <2>1, <2>2, Zenon
<1>9. PICK V : V = U \ {new}
  BY Zenon
<1>10. Sound(p, ls, C, V) /\ Free(new, ls, C, V) /\ h \in C
  BY <1>1, <1>b, <1>3, <1>9, SoundDrop DEF Free
<1>11. Sound(q, ms, C, V) /\ Free(old, ms, C, V) /\ Exchanged(ls, ms, h, old, new)
  BY <1>7, <1>10, SoundSwap
<1>12. /\ old \in Elems(ls[h]) /\ Elems(ms[h]) = (Elems(ls[h]) \ {old}) \cup {new}
       /\ \A c \in ListHead \ {h} : ms[c] = ls[c]
       /\ \A c \in C : old \notin Elems(ms[c])
       /\ old # new /\ h \in v
  BY <1>b, <1>3, <1>11, Zenon DEF Exchanged, Free
<1>13. \A c \in ListHead : ms[c] = <<>> \/ c \in C
  BY <1>b, <1>3, <1>12
<1>14. \A c \in ListHead : old \notin Elems(ms[c])
  BY <1>12, <1>13 DEF Elems
<1>15. \A f \in Entry \cap v : f \in V \cup {old, new} \/ \E c \in ListHead : f \in Elems(ms[c])
  BY <1>b, <1>3, <1>9, <1>12, Zenon
<1>16. CASE Replace(old, new)
  <2>1. PICK w : w = (v \ {old}) \cup {new}
    BY Zenon
  <2>2. Call(q, ms, w) /\ w \subseteq Node /\ C = ListHead \cap w
    <3>1. Call(q, ms, w)
      BY <1>b, <1>6, <1>8, <1>16, <2>1, Zenon DEF Replace
    <3>2. w \subseteq Node
      BY <1>b, <1>n, <2>1, Zenon
    <3>3. C = ListHead \cap w
      BY <1>b, <1>n, <2>1
    <3> QED BY <3>1, <3>2, <3>3, Zenon
  <2>3. \A c \in ListHead : (c \in w \/ ms[c] = <<>>) /\ Elems(ms[c]) \subseteq w
    <3> SUFFICES ASSUME NEW c \in ListHead
                 PROVE  (c \in w \/ ms[c] = <<>>) /\ Elems(ms[c]) \subseteq w
      OBVIOUS
    <3>1. c \in w \/ ms[c] = <<>>
      BY <1>13, <2>2
    <3>2. Elems(ms[c]) \subseteq Elems(ls[c]) \cup {new}
      BY <1>12, Zenon
    <3>3. Elems(ls[c]) \subseteq v /\ old \notin Elems(ms[c])
      BY <1>b, <1>14, Zenon
    <3> QED BY <2>1, <3>1, <3>2, <3>3, Zenon
  <2>4. \A f \in Entry \cap w : f \in V \/ \E c \in ListHead : f \in Elems(ms[c])
    BY <1>3, <1>12, <1>15, <2>1, Zenon
  <2> QED BY <1>11, <2>2, <2>3, <2>4, CallIInv, Zenon
<1>17. CASE ReplaceInit(old, new)
  <2>1. PICK w, r : w = v \cup {new} /\ r = INIT_LIST_HEAD(q, old)
    BY Zenon
  <2>2. Call(r, ms, w) /\ w \subseteq Node /\ C = ListHead \cap w
    <3>1. list_replace_init(p, old, new) = r
      BY <1>6, <2>1 DEF list_replace_init
    <3>2. Call(r, ms, w)
      BY <1>b, <1>8, <1>17, <2>1, <3>1 DEF ReplaceInit
    <3> QED BY <1>b, <1>n, <2>1, <3>2
  <2>3. \A c \in ListHead : (c \in w \/ ms[c] = <<>>) /\ Elems(ms[c]) \subseteq w
    BY <1>b, <1>12, <1>13, <2>1, <2>2, Zenon
  <2>4. PICK W : W = V \cup {old}
    BY Zenon
  <2>5. \A f \in Entry \cap w : f \in W \/ \E c \in ListHead : f \in Elems(ms[c])
    BY <1>3, <1>12, <1>15, <2>1, <2>4, Zenon
  <2>6. Sound(r, ms, C, W)
    <3>1. old \notin C \cup V /\ \A c \in C : old \notin Elems(ms[c])
      BY <1>b, <1>n, <1>11, Zenon DEF Free
    <3>2. Sound(r, ms, C, V \cup {old})
      BY <1>n, <1>11, <2>1, <3>1, SoundInit, Zenon
    <3> QED BY <2>4, <3>2
  <2> QED BY <2>2, <2>3, <2>5, <2>6, CallIInv, Zenon
<1> QED BY <1>16, <1>17

\* list g loses its entries m
Beheaded(ls, ks, g, m) == m = ls[g] /\ ks = [ls EXCEPT ![g] = <<>>]

(* A ring leaves its head: what remains is sound without it. *)
\* m, the entries of the ring of head g, is apart from the entries U and the lists of D
Loose(p, ks, D, U, g, m) ==
  /\ Inner(p, m) /\ Unique(m) /\ m \in Seq(Entry)
  /\ Elems(m) \cap U = {} /\ \A c \in D : Elems(m) \cap Elems(ks[c]) = {}
  /\ p.next[g] = First(m, g) /\ p.prev[g] = Last(m, g)

LEMMA SoundBehead ==
  ASSUME NEW p, NEW ls, NEW C, NEW U, Sound(p, ls, C, U), NEW g \in C, NEW D \in SUBSET C,
         g \notin D, NEW ks, NEW m, Beheaded(ls, ks, g, m)
  PROVE  Sound(p, ks, D, U) /\ Loose(p, ks, D, U, g, m)
<1>2. ls \in [ListHead -> Seq(Entry)] /\ C \subseteq ListHead
  BY DEF Sound
<1>3. ks \in [ListHead -> Seq(Entry)] /\ \A c \in D : ks[c] = ls[c]
  BY <1>2, NoSeq DEF Beheaded
<1>4. Sound(p, ks, D, U)
  BY <1>3, SoundDrop
<1>5. /\ Inner(p, m) /\ Unique(m) /\ m \in Seq(Entry)
      /\ Elems(m) \cap U = {} /\ \A c \in D : Elems(m) \cap Elems(ks[c]) = {}
  BY <1>2, <1>3, Zenon DEF Sound, Path, Beheaded
<1>6. p.next[g] = First(ls[g], g) /\ p.prev[g] = Last(ls[g], g)
  BY HeadEnds
<1>7. p.next[g] = First(m, g) /\ p.prev[g] = Last(m, g)
  BY <1>6 DEF Beheaded
<1> QED BY <1>4, <1>5, <1>7, Zenon DEF Loose

\* list_replace of the head old by new, whose list is empty or stale
Reheaded(p, ls, q, ms, old, new) ==
  /\ q = list_replace(p, old, new)
  /\ ms = [ls EXCEPT ![new] = ls[old], ![old] = <<>>]
  /\ ls[new] = <<>> /\ old # new

LEMMA SoundReplaceHead ==
  ASSUME NEW p, NEW ls, NEW C, NEW U, Sound(p, ls, C, U), NEW old \in C, NEW new \in ListHead,
         NEW q, NEW ms, Reheaded(p, ls, q, ms, old, new)
  PROVE  Sound(q, ms, (C \ {old}) \cup {new}, U) /\ ms[old] = <<>>
<1>0. /\ p \in Heap /\ ls \in [ListHead -> Seq(Entry)] /\ C \subseteq ListHead /\ U \subseteq Entry
      /\ old \in ListHead /\ old \in Node /\ new \in Node /\ old # new
      /\ old \notin Entry /\ new \notin Entry /\ Entry \subseteq Node
  BY NodesAssumption DEF Sound, Reheaded, Node
<1>1. PICK D, m, ks : D = C \ {old, new} /\ m = ls[old] /\ ks = [ls EXCEPT ![old] = <<>>]
  BY Zenon
<1>2. /\ Sound(p, ks, D, U) /\ Inner(p, m) /\ Unique(m) /\ m \in Seq(Entry)
      /\ Elems(m) \cap U = {} /\ \A c \in D : Elems(m) \cap Elems(ks[c]) = {}
      /\ p.next[old] = First(m, old) /\ p.prev[old] = Last(m, old)
  <2>1. Beheaded(ls, ks, old, m) /\ D \in SUBSET C /\ old \notin D
    BY <1>1 DEF Beheaded
  <2>2. Sound(p, ks, D, U) /\ Loose(p, ks, D, U, old, m)
    BY <2>1, SoundBehead, Zenon
  <2> QED BY <2>2, Zenon DEF Loose
<1>3. ms = [ks EXCEPT ![new] = m] /\ ms[old] = <<>> /\ ks[new] = <<>>
  BY <1>0, <1>1, Zenon DEF Reheaded
<1>4. D \cup {new} = (C \ {old}) \cup {new} /\ new \in ListHead \ D
  BY <1>1
<1>5. CASE m # <<>>
  <2>1. /\ First(m, old) \in Elems(m) /\ Last(m, old) \in Elems(m) /\ Elems(m) \subseteq Entry
        /\ First(m, new) = First(m, old) /\ Last(m, new) = Last(m, old)
    BY <1>0, <1>2, <1>5, Ends, Zenon
  <2>2. PICK x \in Node, z \in Node : x = First(m, old) /\ z = Last(m, old)
    BY <1>0, <2>1
  <2>3. x # old /\ z # old /\ x # new /\ z # new
    BY <1>0, <2>1, <2>2
  <2>4. /\ q \in Heap /\ Arrow(q, z, new) /\ Arrow(q, new, x)
        /\ Rewired(p, q, {new, z}, {new, x})
    BY <1>0, <1>2, <2>2, <2>3, ReplaceHeap, Zenon DEF Reheaded
  <2>5. Sound(q, ms, D \cup {new}, U)
    BY <1>2, <1>3, <1>4, <1>5, <2>1, <2>2, <2>4, SoundHead, Zenon
  <2> QED BY <1>3, <1>4, <2>5
<1>6. CASE m = <<>>
  <2>1. p.next[old] = old /\ p.prev[old] = old
    BY <1>2, <1>6 DEF First, Last
  <2>2. q \in Heap /\ Arrow(q, new, new) /\ Rewired(p, q, {new}, {new, old})
    BY <1>0, <2>1, ReplaceHeap, Zenon DEF Reheaded
  <2>3. PICK A, B : A = {new} /\ B = {new, old}
    BY Zenon
  <2>4. (A \cup B) \cap (D \cup U) = {} /\ \A c \in D : (A \cup B) \cap Elems(ks[c]) = {}
    <3>1. \A c \in D : c \in ListHead /\ ks[c] \in Seq(Entry)
      BY <1>2, Zenon DEF Sound
    <3>2. \A c \in D : Elems(ks[c]) \subseteq Entry
      BY <3>1, Ends, Zenon
    <3> QED BY <1>0, <1>1, <2>3, <3>2
  <2>5. Sound(q, ks, D, U)
    <3>1. Rewired(p, q, A, B)
      BY <2>2, <2>3
    <3> QED BY <1>2, <2>2, <2>4, <3>1, SoundFrame, Zenon
  <2>6. Path(q, new, m, new)
    BY <1>6, <2>2 DEF Path, First, Last, Inner
  <2>7. Sound(q, ms, D \cup {new}, U)
    BY <1>2, <1>3, <1>4, <2>5, <2>6, SoundRing, Zenon
  <2> QED BY <1>3, <1>4, <2>7
<1> QED BY <1>5, <1>6

(* list_replace_init of a head: its entries get the new head. *)
LEMMA ReplaceHeadIInv ==
  ASSUME IInv, NEW old \in ListHead, NEW new \in ListHead, ReplaceHead(old, new)
  PROVE  IInv'
<1>1. PICK p, ls, v, C, U : Before(p, ls, v, C, U) /\ Sound(p, ls, C, U)
  BY SoundBefore
<1>b. /\ p = heap /\ ls = lists /\ v = valid /\ C = ListHead \cap v /\ v \subseteq Node
      /\ \A c \in ListHead : (c \in v \/ ls[c] = <<>>) /\ Elems(ls[c]) \subseteq v
      /\ \A f \in Entry \cap v : f \in U \/ \E c \in ListHead : f \in Elems(ls[c])
      /\ ls \in [ListHead -> Seq(Entry)] /\ U \subseteq Entry
      /\ old \in C /\ ls[new] = <<>> /\ old # new
  BY <1>1 DEF Before, ReplaceHead, Sound, Heads
<1>n. old \in Node /\ new \in Node /\ old \notin Entry /\ new \notin Entry
  BY NodesAssumption DEF Node
<1>2. PICK q, ms, r, w, D : /\ Reheaded(p, ls, q, ms, old, new) /\ r = INIT_LIST_HEAD(q, old)
                            /\ w = v \cup {new} /\ D = (C \ {old}) \cup {new}
  BY <1>b, Zenon DEF Reheaded
<1>3. Call(r, ms, w)
  <2>1. r = list_replace_init(p, old, new)
    BY <1>2 DEF Reheaded, list_replace_init
  <2> QED BY <1>b, <1>2, <2>1 DEF ReplaceHead, Reheaded
<1>4. Sound(q, ms, D, U) /\ ms[old] = <<>>
  <2>1. old \in C /\ Reheaded(p, ls, q, ms, old, new)
    BY <1>b, <1>2
  <2>2. Sound(q, ms, (C \ {old}) \cup {new}, U) /\ ms[old] = <<>>
    BY <1>1, <2>1, SoundReplaceHead, Zenon
  <2> QED BY <1>2, <2>2, Zenon
<1>5. Sound(r, ms, D \cup {old}, U)
  <2>1. \A c \in D : c \in ListHead /\ ms[c] \in Seq(Entry)
    BY <1>4 DEF Sound
  <2>2. \A c \in D : Elems(ms[c]) \subseteq Entry
    BY <2>1, Ends
  <2>3. old \notin D \cup U /\ \A c \in D : old \notin Elems(ms[c])
    BY <1>b, <1>n, <1>2, <2>2, Zenon
  <2> QED BY <1>2, <1>4, <1>n, <2>3, SoundInit, Zenon
<1>6. w \subseteq Node /\ D \cup {old} = ListHead \cap w
  BY <1>b, <1>n, <1>2
<1>7. /\ ms[new] = ls[old] /\ ms[old] = ls[new]
      /\ \A c \in ListHead \ {old, new} : ms[c] = ls[c]
  BY <1>b, <1>2 DEF Reheaded
<1>8. \A c \in ListHead : (c \in w \/ ms[c] = <<>>) /\ Elems(ms[c]) \subseteq w
  BY <1>b, <1>2, <1>7, Zenon
<1>9. \A f \in Entry \cap w : f \in U \/ \E c \in ListHead : f \in Elems(ms[c])
  BY <1>b, <1>n, <1>2, <1>7, Zenon
<1>10. Sound(r, ms, ListHead \cap w, U)
  BY <1>5, <1>6, Zenon
<1> QED BY <1>3, <1>6, <1>8, <1>9, <1>10, CallIInv

\* the entries of list g join list h between a and b
Spliced(p, ls, q, ms, g, h, a, b) ==
  /\ ls[g] # <<>> /\ g # h /\ ls[h] = a \o b
  /\ ms = [ls EXCEPT ![h] = a \o (ls[g] \o b), ![g] = <<>>]
  /\ q = __list_splice(p, g, Last(a, h), First(b, h))

\* list h has the entries of list g, and the other lists are as before
Merged(ls, ms, g, h) ==
  /\ ms[g] = <<>> /\ Elems(ms[h]) = Elems(ls[h]) \cup Elems(ls[g])
  /\ \A c \in ListHead \ {g, h} : ms[c] = ls[c]

LEMMA SoundSplice ==
  ASSUME NEW p, NEW ls, NEW C, NEW U, Sound(p, ls, C, U), NEW g \in C, NEW h \in C,
         NEW a \in Seq(Entry), NEW b \in Seq(Entry), NEW q, NEW ms,
         Spliced(p, ls, q, ms, g, h, a, b)
  PROVE  Sound(q, ms, C \ {g}, U) /\ Merged(ls, ms, g, h)
<1>0. /\ p \in Heap /\ ls \in [ListHead -> Seq(Entry)] /\ C \subseteq ListHead
      /\ g \in ListHead /\ h \in ListHead /\ g # h
      /\ g \in Node /\ g \notin Entry /\ Entry \subseteq Node
  BY NodesAssumption DEF Sound, Spliced, Node
<1>1. PICK D, m, ks : D = C \ {g} /\ Beheaded(ls, ks, g, m)
  BY Zenon DEF Beheaded
<1>2. /\ Sound(p, ks, D, U) /\ Inner(p, m) /\ Unique(m) /\ m \in Seq(Entry)
      /\ Elems(m) \cap U = {} /\ \A c \in D : Elems(m) \cap Elems(ks[c]) = {}
      /\ p.next[g] = First(m, g) /\ p.prev[g] = Last(m, g)
  <2>1. D \in SUBSET C /\ g \notin D
    BY <1>1
  <2>2. Beheaded(ls, ks, g, m)
    BY <1>1
  <2>3. Sound(p, ks, D, U) /\ Loose(p, ks, D, U, g, m)
    BY <2>1, <2>2, SoundBehead, Zenon
  <2> QED BY <2>3, Zenon DEF Loose
<1>3. /\ m = ls[g] /\ m # <<>> /\ ks[h] = a \o b /\ ms = [ks EXCEPT ![h] = a \o (m \o b)]
      /\ h \in D
  BY <1>0, <1>1, Zenon DEF Beheaded, Spliced
<1>4. /\ First(m, g) \in Elems(m) /\ Last(m, g) \in Elems(m) /\ Elems(m) \subseteq Entry
      /\ First(m, h) = First(m, g) /\ Last(m, h) = Last(m, g)
  <2>1. m \in Seq(Entry) /\ m # <<>> /\ g \in ListHead
    BY <1>0, <1>2, <1>3, Zenon
  <2> QED BY <2>1, Ends, Zenon
<1>5. /\ Last(a, h) \in {h} \cup Elems(a) /\ First(b, h) \in {h} \cup Elems(b)
      /\ Last(a, h) \in Node /\ First(b, h) \in Node /\ h \notin Entry
  BY <1>0, Ends, Zenon
<1>6. Elems(ks[h]) = Elems(a) \cup Elems(b)
  <2>1. Elems(a \o b) = Elems(a) \cup Elems(b)
    BY JoinElems
  <2> QED BY <1>3, <2>1, Zenon
<1>7. Last(a, h) # Last(m, g) /\ First(b, h) # First(m, g)
  BY <1>2, <1>3, <1>4, <1>5, <1>6, Zenon
<1>8. /\ q \in Heap /\ Arrow(q, Last(a, h), First(m, h)) /\ Arrow(q, Last(m, h), First(b, h))
      /\ Rewired(p, q, {Last(a, h), Last(m, h)}, {First(m, h), First(b, h)})
  <2>1. PICK x \in Node, z \in Node, y \in Node, u \in Node :
          x = First(m, g) /\ z = Last(m, g) /\ y = Last(a, h) /\ u = First(b, h)
    BY <1>0, <1>4, <1>5
  <2>2. q = __list_splice(p, g, y, u) /\ x = p.next[g] /\ z = p.prev[g] /\ y # z /\ u # x
    BY <1>2, <1>7, <2>1 DEF Spliced
  <2>3. q \in Heap /\ Arrow(q, y, x) /\ Arrow(q, z, u) /\ Rewired(p, q, {y, z}, {x, u})
    BY <1>0, <2>1, <2>2, SpliceHeap, Zenon
  <2> QED BY <1>4, <2>1, <2>3
<1>9. Put(p, ks, q, ms, h, a, m, b)
  BY <1>3, <1>8, Zenon DEF Put
<1>10. Sound(q, ms, D, U)
  BY <1>2, <1>3, <1>9, SoundPut, Zenon
<1>11. Elems(a \o (m \o b)) = Elems(ls[h]) \cup Elems(ls[g])
  <2>1. Elems(a \o (m \o b)) = Elems(a) \cup Elems(m) \cup Elems(b)
    <3>1. m \in Seq(Entry)
      BY <1>2, Zenon
    <3> QED BY <3>1, PieceElems
  <2>2. ks[h] = ls[h]
    BY <1>0, <1>1 DEF Beheaded
  <2> QED BY <1>3, <1>6, <2>1, <2>2, Zenon
<1>12. ms[h] = a \o (m \o b) /\ ms[g] = <<>> /\ \A c \in ListHead \ {g, h} : ms[c] = ls[c]
  BY <1>0, <1>1, <1>3 DEF Beheaded
<1> QED BY <1>1, <1>10, <1>11, <1>12, Zenon DEF Merged

(* list_splice and its three variants: the entries of one list join another, *)
(* in front or at the tail; the emptied head is stale or, initialised, valid. *)
LEMMA SplicedIInv ==
  ASSUME IInv, NEW p, NEW ls, NEW v, NEW C, NEW U,
         Before(p, ls, v, C, U), Sound(p, ls, C, U), NEW g \in C, NEW h \in C,
         NEW a \in Seq(Entry), NEW b \in Seq(Entry), NEW q, NEW ms,
         Spliced(p, ls, q, ms, g, h, a, b)
  PROVE  /\ Call(q, ms, v \ {g}) => IInv'
         /\ Call(INIT_LIST_HEAD(q, g), ms, v) => IInv'
<1>b. /\ C = ListHead \cap v /\ v \subseteq Node
      /\ \A c \in ListHead : (c \in v \/ ls[c] = <<>>) /\ Elems(ls[c]) \subseteq v \cap Entry
      /\ \A f \in Entry \cap v : f \in U \/ \E c \in ListHead : f \in Elems(ls[c])
      /\ U \subseteq Entry /\ g \in v /\ h \in v /\ g \in ListHead /\ h \in ListHead
  BY DEF Before, Sound
<1>n. g \in Node /\ g \notin Entry
  BY <1>b, NodesAssumption, Zenon DEF Node
<1>1. Sound(q, ms, C \ {g}, U) /\ Merged(ls, ms, g, h)
  BY SoundSplice
<1>2. /\ ms[g] = <<>> /\ Elems(ms[h]) = Elems(ls[h]) \cup Elems(ls[g])
      /\ \A c \in ListHead \ {g, h} : ms[c] = ls[c] /\ g # h
  BY <1>1, Zenon DEF Merged, Spliced
<1>3. \A c \in ListHead : Elems(ms[c]) \subseteq v \cap Entry /\ (c \in v \/ ms[c] = <<>>)
  <2>1. Elems(ms[g]) = {}
    BY <1>2 DEF Elems
  <2> QED BY <1>b, <1>2, <2>1, Zenon
<1>4. \A f \in Entry \cap v : f \in U \/ \E c \in ListHead : f \in Elems(ms[c])
  <2>1. \A c \in ListHead : \A f \in Elems(ls[c]) : \E d \in ListHead : f \in Elems(ms[d])
    BY <1>b, <1>2, Zenon
  <2> QED BY <1>b, <2>1, Zenon
<1>5. ASSUME Call(q, ms, v \ {g}) PROVE IInv'
  <2>1. PICK w, D : w = v \ {g} /\ D = C \ {g}
    BY Zenon
  <2>2. Call(q, ms, w) /\ Sound(q, ms, D, U) /\ w \subseteq Node /\ D = ListHead \cap w
    BY <1>b, <1>1, <1>5, <2>1, Zenon
  <2>3. \A c \in ListHead : (c \in w \/ ms[c] = <<>>) /\ Elems(ms[c]) \subseteq w
    BY <1>n, <1>2, <1>3, <2>1, Zenon
  <2>4. \A f \in Entry \cap w : f \in U \/ \E c \in ListHead : f \in Elems(ms[c])
    BY <1>4, <2>1
  <2> QED BY <2>2, <2>3, <2>4, CallIInv, Zenon
<1>6. ASSUME Call(INIT_LIST_HEAD(q, g), ms, v) PROVE IInv'
  <2>1. PICK r, D : r = INIT_LIST_HEAD(q, g) /\ D = C \ {g}
    BY Zenon
  <2>2. Call(r, ms, v) /\ Sound(q, ms, D, U)
    BY <1>1, <1>6, <2>1
  <2>3. g \notin D \cup U /\ \A c \in D : g \notin Elems(ms[c])
    BY <1>b, <1>n, <1>3, <2>1, Zenon
  <2>4. Sound(r, ms, D \cup {g}, U)
    BY <1>b, <1>n, <1>2, <2>1, <2>2, <2>3, SoundInit, Zenon
  <2>5. D \cup {g} = ListHead \cap v
    BY <1>b, <2>1, Zenon
  <2>6. \A c \in ListHead : (c \in v \/ ms[c] = <<>>) /\ Elems(ms[c]) \subseteq v
    BY <1>3
  <2>7. Sound(r, ms, ListHead \cap v, U)
    BY <2>4, <2>5, Zenon
  <2>8. v \subseteq Node
    BY <1>b
  <2> QED BY <1>4, <2>2, <2>6, <2>7, <2>8, CallIInv, Zenon
<1> QED BY <1>5, <1>6

LEMMA SpliceIInv ==
  ASSUME IInv, NEW g \in ListHead, NEW h \in ListHead, Splice(g, h)
  PROVE  IInv'
<1>1. PICK p, ls, v, C, U : Before(p, ls, v, C, U) /\ Sound(p, ls, C, U)
  BY SoundBefore
<1>b. /\ p = heap /\ ls = lists /\ v = valid /\ C = ListHead \cap v /\ v \subseteq Node
      /\ \A c \in ListHead : (c \in v \/ ls[c] = <<>>) /\ Elems(ls[c]) \subseteq v
      /\ \A f \in Entry \cap v : f \in U \/ \E c \in ListHead : f \in Elems(ls[c])
      /\ ls \in [ListHead -> Seq(Entry)] /\ g \in C /\ h \in C /\ g # h
  BY <1>1 DEF Before, Splice, Sound, Heads
<1>2. PICK front, back, left :
        /\ front = [ls EXCEPT ![h] = ls[g] \o @, ![g] = <<>>]
        /\ back  = [ls EXCEPT ![h] = @ \o ls[g], ![g] = <<>>]
        /\ left  = IF ls[g] = <<>> THEN v ELSE v \ {g}
  BY Zenon
<1>3. \/ Call(list_splice(p, g, h), front, left)
      \/ Call(list_splice_tail(p, g, h), back, left)
      \/ Call(list_splice_init(p, g, h), front, v)
      \/ Call(list_splice_tail_init(p, g, h), back, v)
  BY <1>b, <1>2 DEF Splice
<1>4. /\ p.next[g] = First(ls[g], g) /\ p.next[h] = First(ls[h], h) /\ p.prev[h] = Last(ls[h], h)
      /\ ls[g] # <<>> => First(ls[g], g) # g
  <2>1. ls[g] # <<>> => First(ls[g], g) # g
    BY <1>b, Ends
  <2>2. g \in C /\ h \in C
    BY <1>b
  <2>3. Linked(p, ls, g) /\ Linked(p, ls, h)
    BY <1>1, <2>2, HeadLinks, Zenon
  <2> QED BY <2>1, <2>3, Zenon DEF Linked
<1>5. CASE ls[g] = <<>>
  <2>1. p.next[g] = g
    BY <1>4, <1>5 DEF First
  <2>2. front = ls /\ back = ls /\ left = v
    <3>1. ls[h] \in Seq(Entry)
      BY <1>b
    <3>2. <<>> \o ls[h] = ls[h] /\ ls[h] \o <<>> = ls[h]
      BY <3>1
    <3> QED BY <1>b, <1>2, <1>5, <3>2
  <2>3. Call(p, ls, v)
    BY <1>3, <2>1, <2>2
       DEF list_splice, list_splice_tail, list_splice_init, list_splice_tail_init, list_empty
  <2> QED BY <1>1, <1>b, <2>3, CallIInv
<1>6. CASE ls[g] # <<>>
  <2>0. p.next[g] # g /\ left = v \ {g}
    BY <1>2, <1>4, <1>6
  <2>1. PICK o \in Seq(Entry), s \in Seq(Entry) : o = <<>> /\ s = ls[h]
    BY <1>b, NoSeq, Zenon
  <2>2. First(o, h) = h /\ Last(o, h) = h /\ o \o s = s /\ s \o o = s
    BY <2>1 DEF First, Last
  <2>3. PICK f, k : /\ f = __list_splice(p, g, h, p.next[h])
                    /\ k = __list_splice(p, g, p.prev[h], h)
    OBVIOUS
  <2>4. Spliced(p, ls, f, front, g, h, o, s)
    <3>1. o \o (ls[g] \o s) = ls[g] \o s
      BY <1>b, <2>1
    <3> QED BY <1>b, <1>2, <1>4, <1>6, <2>1, <2>2, <2>3, <3>1, Zenon DEF Spliced
  <2>5. Spliced(p, ls, k, back, g, h, s, o)
    <3>1. s \o (ls[g] \o o) = s \o ls[g]
      BY <1>b, <2>1
    <3> QED BY <1>b, <1>2, <1>4, <1>6, <2>1, <2>2, <2>3, <3>1, Zenon DEF Spliced
  <2>6. \/ Call(f, front, v \ {g}) \/ Call(INIT_LIST_HEAD(f, g), front, v)
        \/ Call(k, back, v \ {g}) \/ Call(INIT_LIST_HEAD(k, g), back, v)
    BY <1>3, <2>0, <2>3
      , Zenon DEF list_splice, list_splice_tail, list_splice_init, list_splice_tail_init, list_empty
  <2>7. /\ Call(f, front, v \ {g}) => IInv'
        /\ Call(INIT_LIST_HEAD(f, g), front, v) => IInv'
    BY <1>1, <1>b, <2>4, SplicedIInv, Zenon
  <2>8. /\ Call(k, back, v \ {g}) => IInv'
        /\ Call(INIT_LIST_HEAD(k, g), back, v) => IInv'
    BY <1>1, <1>b, <2>5, SplicedIInv, Zenon
  <2> QED BY <2>6, <2>7, <2>8
<1> QED BY <1>5, <1>6

\* s in two, after its i-th element
Halves(s, i, a, b) == a = SubSeq(s, 1, i) /\ b = SubSeq(s, i + 1, Len(s))

\* a and b in the ring of h: up to the i-th node of it, and the rest
CutAt(s, i, h, a, b) ==
  /\ a \in Seq(Entry) /\ b \in Seq(Entry) /\ a # <<>> /\ s = a \o b
  /\ Last(a, h) = Ring(h, s, i) /\ First(b, h) = Ring(h, s, i + 1)

LEMMA HalvesEnds ==
  ASSUME NEW s \in Seq(Entry), NEW i \in 1 .. Len(s), NEW a, NEW b, Halves(s, i, a, b), NEW h
  PROVE  CutAt(s, i, h, a, b)
<1>1. PICK n \in Nat : n = Len(s) /\ i \in Nat /\ 1 <= i /\ i <= n
  OBVIOUS
<1>2. /\ a \in Seq(Entry) /\ b \in Seq(Entry) /\ Len(a) = i /\ Len(b) = n - i /\ s = a \o b
  BY <1>1, CutSeq DEF Halves
<1>3. \A k \in 1 .. i : a[k] = s[k]
  BY <1>1 DEF Halves
<1>4. \A k \in 1 .. n - i : b[k] = s[i + k]
  BY <1>1 DEF Halves
<1>5. a # <<>> /\ Last(a, h) = s[i]
  BY <1>1, <1>2, <1>3, EmptyLen DEF Last
<1>6. Ring(h, s, i) = s[i]
  BY <1>1 DEF Ring
<1>7. CASE i = n
  <2>1. b = <<>> /\ Ring(h, s, i + 1) = h
    BY <1>1, <1>2, <1>7, EmptyLen DEF Ring
  <2> QED BY <1>2, <1>5, <1>6, <2>1 DEF First, CutAt
<1>8. CASE i < n
  <2>1. b # <<>> /\ b[1] = s[i + 1] /\ Ring(h, s, i + 1) = s[i + 1]
    BY <1>1, <1>2, <1>4, <1>8, EmptyLen DEF Ring
  <2> QED BY <1>2, <1>5, <1>6, <2>1 DEF First, CutAt
<1> QED BY <1>1, <1>7, <1>8

(* list_cut_position and list_cut_before: the entries up to the place of    *)
(* the cut get the head g, whose own list was empty or stale.              *)
LEMMA CutIInv ==
  ASSUME IInv, NEW p, NEW ls, NEW v, NEW C, NEW U,
         Before(p, ls, v, C, U), Sound(p, ls, C, U), NEW g \in ListHead, NEW h \in C,
         NEW a \in Seq(Entry), NEW b \in Seq(Entry), NEW q, NEW ms,
         CutMade(p, q, g, h, First(a, h), Last(a, h), First(b, h)),
         Cut(ls, ms, g, h, a, b), Call(q, ms, v \cup {g})
  PROVE  IInv'
<1>b. /\ C = ListHead \cap v /\ v \subseteq Node
      /\ \A c \in ListHead : (c \in v \/ ls[c] = <<>>) /\ Elems(ls[c]) \subseteq v
      /\ \A f \in Entry \cap v : f \in U \/ \E c \in ListHead : f \in Elems(ls[c])
      /\ ls \in [ListHead -> Seq(Entry)] /\ h \in v /\ h \in ListHead
  BY DEF Before, Sound
<1>n. g \in Node /\ g \notin Entry
  BY NodesAssumption DEF Node
<1>1. PICK w, D : w = v \cup {g} /\ D = C \ {g}
  BY Zenon
<1>2. D \subseteq C /\ h \in D /\ g \in ListHead \ D /\ D \cup {g} = ListHead \cap w
  BY <1>b, <1>1 DEF Cut
<1>3. Sound(p, ls, D, U)
  BY <1>b, <1>2, SoundDrop
<1>4. Sound(q, ms, ListHead \cap w, U)
  <2>1. Sound(q, ms, D \cup {g}, U)
    BY <1>2, <1>3, SoundCut
  <2> QED BY <1>2, <2>1, Zenon
<1>5. /\ ms[g] = a /\ ms[h] = b /\ \A c \in ListHead \ {g, h} : ms[c] = ls[c]
      /\ Elems(ls[h]) = Elems(a) \cup Elems(b) /\ Elems(ls[g]) = {}
  <2>1. Elems(a \o b) = Elems(a) \cup Elems(b)
    BY JoinElems
  <2>2. /\ ms[g] = a /\ ms[h] = b /\ \A c \in ListHead \ {g, h} : ms[c] = ls[c]
        /\ ls[h] = a \o b /\ ls[g] = <<>>
    BY <1>b DEF Cut
  <2>3. Elems(<<>>) = {}
    BY DEF Elems
  <2> QED BY <2>1, <2>2, <2>3, Zenon
<1>6. \A c \in ListHead : (c \in w \/ ms[c] = <<>>) /\ Elems(ms[c]) \subseteq w
  BY <1>b, <1>1, <1>5, Zenon
<1>7. \A f \in Entry \cap w : f \in U \/ \E c \in ListHead : f \in Elems(ms[c])
  <2>1. \A c \in ListHead : \A f \in Elems(ls[c]) : \E d \in ListHead : f \in Elems(ms[d])
    BY <1>b, <1>5, Zenon
  <2> QED BY <1>b, <1>n, <1>1, <2>1, Zenon
<1>8. Call(q, ms, w) /\ w \subseteq Node
  BY <1>b, <1>n, <1>1
<1> QED BY <1>4, <1>6, <1>7, <1>8, CallIInv, Zenon

\* what the cuts make of it when list h holds s
CutReady(p, g, h, s, i, a, b) ==
  /\ a \in Seq(Entry) /\ b \in Seq(Entry) /\ a # <<>> /\ s = a \o b
  /\ CutMade(p, __list_cut_position(p, g, h, Ring(h, s, i)), g, h,
             First(a, h), Last(a, h), First(b, h))
  /\ CutMade(p, list_cut_before(p, g, h, Ring(h, s, i + 1)), g, h,
             First(a, h), Last(a, h), First(b, h))
  /\ Ring(h, s, i) # h

LEMMA CutPlace ==
  ASSUME NEW p, NEW ls, NEW C, NEW U, Sound(p, ls, C, U), NEW h \in C,
         NEW i \in 1 .. Len(ls[h]), NEW a, NEW b, Halves(ls[h], i, a, b),
         NEW g \in ListHead, g # h
  PROVE  CutReady(p, g, h, ls[h], i, a, b)
<1>s. PICK s : s = ls[h]
  OBVIOUS
<1>0. /\ p \in Heap /\ h \in ListHead /\ s \in Seq(Entry) /\ Unique(s) /\ Path(p, h, s, h)
  BY <1>s DEF Sound
<1>1. /\ a \in Seq(Entry) /\ b \in Seq(Entry) /\ a # <<>> /\ s = a \o b
      /\ Last(a, h) = Ring(h, s, i) /\ First(b, h) = Ring(h, s, i + 1)
  <2>1. i \in 1 .. Len(s) /\ Halves(s, i, a, b)
    BY <1>s
  <2>2. CutAt(s, i, h, a, b)
    BY <1>0, <2>1, HalvesEnds
  <2> QED BY <2>2 DEF CutAt
<1>2. PICK x, z, y : x = First(a, h) /\ z = Last(a, h) /\ y = First(b, h)
  OBVIOUS
<1>3. /\ x \in Elems(a) /\ z \in Elems(a) /\ y \in {h} \cup Elems(b)
      /\ Elems(a) \subseteq Entry /\ Elems(b) \subseteq Entry
      /\ Entry \subseteq Node /\ h \in Node /\ h \notin Entry /\ g \in Node /\ g \notin Entry
  <2>1. /\ First(a, h) \in Elems(a) /\ Last(a, h) \in Elems(a) /\ Elems(a) \subseteq Entry
        /\ Entry \subseteq Node /\ h \in Node /\ h \notin Entry
    BY <1>0, <1>1, Ends
  <2>2. First(b, h) \in {h} \cup Elems(b) /\ Elems(b) \subseteq Entry
    BY <1>0, <1>1, Ends
  <2>3. g \in Node /\ g \notin Entry
    BY NodesAssumption DEF Node
  <2> QED BY <1>2, <2>1, <2>2, <2>3
<1>4. Elems(a) \cap Elems(b) = {}
  <2>1. Unique(a \o b)
    BY <1>0, <1>1
  <2> QED BY <1>1, <2>1, JoinUnique
<1>5. /\ x \in Node /\ z \in Node /\ y \in Node /\ x # y /\ x # g /\ y # g /\ z # g
      /\ z # h /\ x # h
  BY <1>3, <1>4
<1>6. p.next[h] = x /\ p.next[z] = y /\ p.prev[y] = z
  <2>1. PICK o \in Seq(Entry) : o = <<>>
    BY NoSeq, Zenon
  <2>2. o \o (a \o b) = s /\ Last(o, h) = h
    BY <1>1, <2>1 DEF Last
  <2>3. Path(p, h, o \o (a \o b), h)
    BY <1>0, <2>2
  <2>4. Arrow(p, Last(o, h), First(a, h)) /\ Arrow(p, Last(a, h), First(b, h))
    BY <1>0, <1>1, <2>3, Segment
  <2> QED BY <1>2, <2>2, <2>4, Zenon DEF Arrow
<1>7. PICK q, r : q = __list_cut_position(p, g, h, z) /\ r = list_cut_before(p, g, h, y)
  OBVIOUS
<1>8. CutMade(p, q, g, h, x, z, y)
  BY <1>0, <1>3, <1>5, <1>6, <1>7, CutPositionHeap, Zenon
<1>9. CutMade(p, r, g, h, x, z, y)
  BY <1>0, <1>3, <1>5, <1>6, <1>7, CutBeforeHeap, Zenon
<1> QED BY <1>s, <1>1, <1>2, <1>5, <1>7, <1>8, <1>9 DEF CutReady

LEMMA CutPositionIInv ==
  ASSUME IInv, NEW g \in ListHead, NEW h \in ListHead, NEW i \in 0 .. Len(lists[h]),
         CutPosition(g, h, i)
  PROVE  IInv'
<1>1. PICK p, ls, v, C, U : Before(p, ls, v, C, U) /\ Sound(p, ls, C, U)
  BY SoundBefore
<1>2. PICK s, w, q, ms :
        /\ s = ls[h] /\ w = IF s = <<>> THEN v ELSE v \cup {g}
        /\ q = list_cut_position(p, g, h, Ring(h, s, i))
        /\ ms = [ls EXCEPT ![g] = SubSeq(s, 1, i), ![h] = SubSeq(s, i + 1, Len(s))]
  BY Zenon
<1>b. /\ p = heap /\ ls = lists /\ v = valid /\ C = ListHead \cap v /\ v \subseteq Node
      /\ \A c \in ListHead : (c \in v \/ ls[c] = <<>>) /\ Elems(ls[c]) \subseteq v
      /\ \A f \in Entry \cap v : f \in U \/ \E c \in ListHead : f \in Elems(ls[c])
      /\ ls \in [ListHead -> Seq(Entry)] /\ h \in C /\ g # h /\ ls[g] = <<>>
      /\ s \in Seq(Entry)
  BY <1>1, <1>2 DEF Before, CutPosition, Sound, Heads
<1>3. Call(q, ms, w) /\ i \in 0 .. Len(s)
  BY <1>b, <1>2 DEF CutPosition
<1>4. p.next[h] = First(s, h) /\ p.prev[h] = Last(s, h)
  <2>1. h \in C
    BY <1>b
  <2>2. Linked(p, ls, h)
    BY <1>1, <2>1, HeadLinks, Zenon
  <2> QED BY <1>2, <2>2, Zenon DEF Linked
<1>e. s # <<>> => First(s, h) # h
  BY <1>b, Ends
<1>5. i = 0 => ms = ls
  <2>1. i = 0 => SubSeq(s, 1, i) = <<>> /\ SubSeq(s, i + 1, Len(s)) = s
    BY <1>b
  <2> QED BY <1>b, <1>2, <2>1
<1>6. CASE s = <<>>
  <2>1. i = 0
    BY <1>3, <1>6
  <2>2. q = p
    BY <1>2, <1>4, <1>6 DEF list_cut_position, list_is_singular, list_empty, First
  <2>3. Call(p, ls, v)
    BY <1>2, <1>3, <1>5, <1>6, <2>1, <2>2, Zenon
  <2> QED BY <1>1, <1>b, <2>3, CallIInv
<1>7. CASE s # <<>> /\ i = 0
  <2>1. Ring(h, s, i) = h
    BY <1>7 DEF Ring
  <2>2. q = INIT_LIST_HEAD(p, g)
    BY <1>2, <1>4, <1>e, <1>7, <2>1 DEF list_cut_position, list_is_singular, list_empty
  <2>3. Call(INIT_LIST_HEAD(heap, g), lists, valid \cup {g}) /\ lists[g] = <<>>
    BY <1>b, <1>2, <1>3, <1>5, <1>7, <2>2, Zenon
  <2> QED BY <2>3, InitEmptyIInv, Zenon
<1>8. CASE i # 0
  <2>0. i \in 1 .. Len(s) /\ s # <<>>
    BY <1>b, <1>3, <1>8
  <2>1. PICK a, b : Halves(s, i, a, b)
    BY Zenon DEF Halves
  <2>2. /\ a \in Seq(Entry) /\ b \in Seq(Entry) /\ a # <<>> /\ s = a \o b
        /\ CutMade(p, __list_cut_position(p, g, h, Ring(h, s, i)), g, h,
                   First(a, h), Last(a, h), First(b, h))
        /\ Ring(h, s, i) # h
    <3>1. i \in 1 .. Len(ls[h]) /\ Halves(ls[h], i, a, b)
      BY <1>2, <2>0, <2>1
    <3>2. CutReady(p, g, h, ls[h], i, a, b)
      BY <1>1, <1>b, <3>1, CutPlace, Zenon
    <3> QED BY <1>2, <3>2 DEF CutReady
  <2>3. q = __list_cut_position(p, g, h, Ring(h, s, i))
    <3>1. First(s, h) = Last(s, h) => Ring(h, s, i) = First(s, h)
      <4>1. Unique(s)
        BY <1>1, <1>b, <1>2 DEF Sound
      <4>2. PICK n \in Nat : n = Len(s) /\ 1 <= i /\ i <= n /\ i \in Nat
        BY <1>b, <2>0
      <4>3. s[1] = s[n] => n = 1
        BY <4>1, <4>2 DEF Unique
      <4>4. First(s, h) = s[1] /\ Last(s, h) = s[n] /\ Ring(h, s, i) = s[i]
        BY <2>0, <4>2 DEF First, Last, Ring
      <4>5. n = 1 => i = 1
        BY <4>2
      <4> QED BY <4>3, <4>4, <4>5
    <3>2. ~list_empty(p, h)
      BY <1>4, <1>e, <2>0 DEF list_empty
    <3>3. ~(list_is_singular(p, h) /\ p.next[h] # Ring(h, s, i) /\ h # Ring(h, s, i))
      BY <1>4, <3>1 DEF list_is_singular
    <3> QED BY <1>2, <2>2, <3>2, <3>3 DEF list_cut_position
  <2>4. Cut(ls, ms, g, h, a, b)
    BY <1>b, <1>2, <2>1, <2>2, Zenon DEF Halves, Cut
  <2>5. Call(q, ms, v \cup {g})
    BY <1>2, <1>3, <2>0
  <2>6. CutMade(p, q, g, h, First(a, h), Last(a, h), First(b, h))
    BY <2>2, <2>3
  <2> QED BY <1>1, <1>b, <2>2, <2>4, <2>5, <2>6, CutIInv, Zenon
<1> QED BY <1>6, <1>7, <1>8

(* A one-entry list is not cut at an entry it does not hold. *)
LEMMA CutElsewhereIInv ==
  ASSUME IInv, NEW g \in ListHead, NEW h \in ListHead, NEW e \in Entry, CutElsewhere(g, h, e)
  PROVE  IInv'
<1>1. PICK p, ls, v, C, U : Before(p, ls, v, C, U) /\ Sound(p, ls, C, U)
  BY SoundBefore
<1>2. PICK s : s = ls[h]
  OBVIOUS
<1>b. /\ p = heap /\ ls = lists /\ v = valid /\ C = ListHead \cap v /\ v \subseteq Node
      /\ \A c \in ListHead : (c \in v \/ ls[c] = <<>>) /\ Elems(ls[c]) \subseteq v
      /\ \A f \in Entry \cap v : f \in U \/ \E c \in ListHead : f \in Elems(ls[c])
      /\ h \in C /\ Len(s) = 1 /\ e \notin Elems(s) /\ s \in Seq(Entry)
  BY <1>1, <1>2 DEF Before, CutElsewhere, Sound, Heads
<1>3. p.next[h] = First(s, h) /\ p.prev[h] = Last(s, h)
  <2>1. h \in C
    BY <1>b
  <2>2. Linked(p, ls, h)
    BY <1>1, <2>1, HeadLinks, Zenon
  <2> QED BY <1>2, <2>2, Zenon DEF Linked
<1>4. s # <<>> /\ First(s, h) = s[1] /\ Last(s, h) = s[1] /\ s[1] # e
  <2>1. s # <<>> /\ 1 \in 1 .. Len(s)
    BY <1>b
  <2> QED BY <1>b, <2>1 DEF First, Last, Elems
<1>5. s[1] # h /\ e # h
  <2>1. First(s, h) \in Elems(s) /\ Elems(s) \subseteq Entry /\ h \notin Entry
    BY <1>b, <1>4, Ends
  <2> QED BY <1>4, <2>1
<1>6. list_cut_position(p, g, h, e) = p
  BY <1>3, <1>4, <1>5 DEF list_cut_position, list_is_singular, list_empty
<1>7. Call(p, ls, v)
  BY <1>b, <1>6 DEF CutElsewhere
<1> QED BY <1>1, <1>b, <1>7, CallIInv, Zenon

LEMMA CutBeforeIInv ==
  ASSUME IInv, NEW g \in ListHead, NEW h \in ListHead, NEW i \in 0 .. Len(lists[h]),
         CutBefore(g, h, i)
  PROVE  IInv'
<1>1. PICK p, ls, v, C, U : Before(p, ls, v, C, U) /\ Sound(p, ls, C, U)
  BY SoundBefore
<1>2. PICK s, q, ms :
        /\ s = ls[h] /\ q = list_cut_before(p, g, h, Ring(h, s, i + 1))
        /\ ms = [ls EXCEPT ![g] = SubSeq(s, 1, i), ![h] = SubSeq(s, i + 1, Len(s))]
  BY Zenon
<1>b. /\ p = heap /\ ls = lists /\ v = valid
      /\ ls \in [ListHead -> Seq(Entry)] /\ h \in C /\ g # h /\ ls[g] = <<>>
      /\ s \in Seq(Entry)
  BY <1>1, <1>2 DEF Before, CutBefore, Sound, Heads
<1>3. Call(q, ms, v \cup {g}) /\ i \in 0 .. Len(s)
  BY <1>b, <1>2 DEF CutBefore
<1>4. p.next[h] = First(s, h)
  <2>1. h \in C
    BY <1>b
  <2>2. Linked(p, ls, h)
    BY <1>1, <2>1, HeadLinks, Zenon
  <2> QED BY <1>2, <2>2, Zenon DEF Linked
<1>5. CASE i = 0
  <2>1. SubSeq(s, 1, i) = <<>> /\ SubSeq(s, i + 1, Len(s)) = s
    BY <1>b, <1>5
  <2>2. ms = ls
    BY <1>b, <1>2, <2>1
  <2>3. Ring(h, s, i + 1) = First(s, h)
    <3>1. PICK n \in Nat : n = Len(s)
      BY <1>b
    <3>2. s = <<>> <=> n = 0
      BY <1>b, <3>1, EmptyLen
    <3> QED BY <1>5, <3>1, <3>2 DEF Ring, First
  <2>4. q = INIT_LIST_HEAD(p, g)
    BY <1>2, <1>4, <2>3, Zenon DEF list_cut_before
  <2>5. Call(INIT_LIST_HEAD(heap, g), lists, valid \cup {g}) /\ lists[g] = <<>>
    BY <1>b, <1>3, <2>2, <2>4
  <2> QED BY <2>5, InitEmptyIInv
<1>6. CASE i # 0
  <2>1. PICK a, b : Halves(s, i, a, b)
    BY Zenon DEF Halves
  <2>2. /\ a \in Seq(Entry) /\ b \in Seq(Entry) /\ a # <<>> /\ s = a \o b
        /\ CutMade(p, q, g, h, First(a, h), Last(a, h), First(b, h))
    <3>1. i \in 1 .. Len(ls[h]) /\ Halves(ls[h], i, a, b)
      BY <1>b, <1>2, <1>3, <1>6, <2>1
    <3>2. CutReady(p, g, h, ls[h], i, a, b)
      BY <1>1, <1>b, <3>1, CutPlace, Zenon
    <3> QED BY <1>2, <3>2 DEF CutReady
  <2>3. Cut(ls, ms, g, h, a, b)
    BY <1>b, <1>2, <2>1, <2>2, Zenon DEF Halves, Cut
  <2> QED BY <1>1, <1>b, <1>3, <2>2, <2>3, CutIInv, Zenon
<1> QED BY <1>5, <1>6

\* s in three, m being its elements i to j
Thirds(s, i, j, a, m, b) ==
  a = SubSeq(s, 1, i - 1) /\ m = SubSeq(s, i, j) /\ b = SubSeq(s, j + 1, Len(s))

\* a, m and b make up s, and m runs from x to z
Middle(s, a, m, b, x, z) ==
  /\ a \in Seq(Entry) /\ m \in Seq(Entry) /\ b \in Seq(Entry)
  /\ m # <<>> /\ s = a \o (m \o b) /\ \A d : First(m, d) = x /\ Last(m, d) = z

LEMMA ThirdsMiddle ==
  ASSUME NEW s \in Seq(Entry), NEW j \in 1 .. Len(s), NEW i \in 1 .. j,
         NEW a, NEW m, NEW b, Thirds(s, i, j, a, m, b)
  PROVE  Middle(s, a, m, b, s[i], s[j])
<1>1. PICK n \in Nat : n = Len(s) /\ i \in Nat /\ j \in Nat /\ 1 <= i /\ i <= j /\ j <= n
  OBVIOUS
<1>2. PICK c : c = SubSeq(s, 1, j)
  BY Zenon
<1>3. c \in Seq(Entry) /\ b \in Seq(Entry) /\ Len(c) = j /\ s = c \o b
  BY <1>1, <1>2, CutSeq DEF Thirds
<1>4. \A k \in 1 .. j : c[k] = s[k]
  BY <1>1, <1>2
<1>5. PICK l \in Nat : l = i - 1 /\ l + 1 = i /\ l \in 0 .. Len(c)
  BY <1>1, <1>3
<1>6. PICK u, t : u = SubSeq(c, 1, l) /\ t = SubSeq(c, l + 1, Len(c))
  BY Zenon
<1>7. u \in Seq(Entry) /\ t \in Seq(Entry) /\ Len(u) = l /\ Len(t) = j - l /\ c = u \o t
  BY <1>3, <1>5, <1>6, CutSeq, Zenon
<1>8. a \in Seq(Entry) /\ Len(a) = l /\ \A k \in 1 .. l : a[k] = s[k]
  BY <1>1, <1>5 DEF Thirds
<1>9. m \in Seq(Entry) /\ Len(m) = j - l /\ \A k \in 1 .. j - l : m[k] = s[l + k]
  BY <1>1, <1>5 DEF Thirds
<1>10. a = u
  <2>1. \A k \in 1 .. l : u[k] = c[k]
    BY <1>3, <1>5, <1>6
  <2>2. \A k \in 1 .. l : c[k] = s[k]
    BY <1>1, <1>4, <1>5
  <2> QED BY <1>7, <1>8, <2>1, <2>2, SeqSame
<1>11. m = t
  <2>1. \A k \in 1 .. j - l : t[k] = c[l + k]
    BY <1>3, <1>5, <1>6
  <2>2. \A k \in 1 .. j - l : c[l + k] = s[l + k]
    BY <1>1, <1>4, <1>5
  <2>3. PICK r \in Nat : r = j - l
    BY <1>1, <1>5
  <2>4. /\ Len(t) = r /\ Len(m) = r /\ t \in Seq(Entry) /\ m \in Seq(Entry)
        /\ \A k \in 1 .. r : m[k] = t[k]
    BY <1>7, <1>9, <2>1, <2>2, <2>3, Zenon
  <2> QED BY <2>4, SeqSame
<1>12. s = a \o (m \o b)
  <2>1. (a \o m) \o b = a \o (m \o b)
    <3>1. a \in Seq(Entry) /\ m \in Seq(Entry) /\ b \in Seq(Entry)
      BY <1>3, <1>8, <1>9, Zenon
    <3> QED BY <3>1
  <2> QED BY <1>3, <1>7, <1>10, <1>11, <2>1
<1>13. m # <<>>
  BY <1>1, <1>5, <1>9, EmptyLen
<1>14. m[1] = s[i] /\ m[Len(m)] = s[j]
  <2>1. 1 \in 1 .. j - l /\ j - l \in 1 .. j - l /\ l + (j - l) = j
    BY <1>1, <1>5
  <2>2. m[1] = s[l + 1] /\ m[j - l] = s[l + (j - l)]
    BY <1>9, <2>1
  <2> QED BY <1>5, <1>9, <2>1, <2>2
<1>15. \A d : First(m, d) = s[i] /\ Last(m, d) = s[j]
  BY <1>13, <1>14 DEF First, Last
<1> QED BY <1>3, <1>8, <1>9, <1>12, <1>13, <1>15 DEF Middle

\* from heap p and lists ls to q and ms: the entries m of list g, from x to z,
\* move to the tail of list h; ks are the lists in between
BulkMoved(p, ls, q, ks, ms, g, h, a, m, b, x, z) ==
  /\ Middle(ls[g], a, m, b, x, z)
  /\ ks = [ls EXCEPT ![g] = a \o b] /\ ms = [ks EXCEPT ![h] = @ \o m]
  /\ q = list_bulk_move_tail(p, h, x, z)

LEMMA SoundBulk ==
  ASSUME NEW p, NEW ls, NEW C, NEW U, Sound(p, ls, C, U), NEW g \in C, NEW h \in C,
         NEW q, NEW ks, NEW ms, NEW a, NEW m, NEW b, NEW x, NEW z,
         BulkMoved(p, ls, q, ks, ms, g, h, a, m, b, x, z)
  PROVE  Sound(q, ms, C, U)
<1>0. /\ a \in Seq(Entry) /\ m \in Seq(Entry) /\ b \in Seq(Entry) /\ m # <<>>
      /\ ls[g] = a \o (m \o b) /\ \A d : First(m, d) = x /\ Last(m, d) = z
      /\ p \in Heap /\ g \in ListHead /\ h \in ListHead /\ Path(p, g, ls[g], g)
      /\ ls \in [ListHead -> Seq(Entry)]
  BY Zenon DEF Sound, BulkMoved, Middle
<1>1. Arrow(p, Last(a, g), x) /\ Arrow(p, z, First(b, g))
  <2>1. Path(p, g, a \o (m \o b), g)
    BY <1>0
  <2>2. Arrow(p, Last(a, g), First(m, g)) /\ Arrow(p, Last(m, g), First(b, g))
    BY <1>0, <2>1, Segment
  <2> QED BY <1>0, <2>2
<1>2. PICK d : d = __list_del(p, p.prev[x], p.next[z])
  OBVIOUS
<1>3. /\ d \in Heap /\ Arrow(d, Last(a, g), First(b, g))
      /\ Rewired(p, d, {Last(a, g)}, {First(b, g)})
  <2>1. Last(a, g) \in Node /\ First(b, g) \in Node
    BY <1>0, Ends
  <2>2. d = __list_del(p, Last(a, g), First(b, g))
    BY <1>1, <1>2, Zenon DEF Arrow
  <2> QED BY <1>0, <2>1, <2>2, DelHeap, Zenon
<1>4. /\ Sound(d, ks, C, U) /\ Inner(d, m) /\ Unique(m)
      /\ Elems(m) \cap U = {} /\ \A c \in C : Elems(m) \cap Elems(ks[c]) = {}
  <2>1. Taken(p, ls, d, ks, g, a, m, b)
    BY <1>0, <1>3, Zenon DEF Taken, BulkMoved
  <2> QED BY <1>0, <2>1, SoundTake
<1>5. d.prev[h] = Last(ks[h], h) /\ ks[h] \in Seq(Entry)
  BY <1>4, HeadEnds, Zenon
<1>6. PICK t \in Seq(Entry), o \in Seq(Entry) : t = ks[h] /\ o = <<>>
  BY <1>5, NoSeq, Zenon
<1>7. /\ x \in Elems(m) /\ z \in Elems(m) /\ Elems(m) \subseteq Entry /\ Entry \subseteq Node
      /\ h \in Node /\ h \notin Entry
  <2>1. /\ First(m, h) \in Elems(m) /\ Last(m, h) \in Elems(m) /\ Elems(m) \subseteq Entry
        /\ Entry \subseteq Node /\ h \in Node /\ h \notin Entry
    BY <1>0, Ends
  <2> QED BY <1>0, <2>1
<1>8. Last(t, h) \in Node /\ Last(t, h) \in {h} \cup Elems(t)
  BY <1>0, <1>6, Ends, Zenon
<1>9. Last(t, h) # z /\ x # h
  BY <1>4, <1>6, <1>7, <1>8
<1>10. /\ q \in Heap /\ Arrow(q, Last(t, h), x) /\ Arrow(q, z, h)
       /\ Rewired(d, q, {Last(t, h), z}, {x, h})
  <2>1. PICK y \in Node : y = Last(t, h)
    BY <1>8
  <2>2. y = d.prev[h] /\ y # z /\ x \in Node /\ z \in Node
    BY <1>5, <1>6, <1>7, <1>9, <2>1, Zenon
  <2>3. q = list_bulk_move_tail(p, h, x, z)
    BY DEF BulkMoved
  <2>4. q \in Heap /\ Arrow(q, y, x) /\ Arrow(q, z, h) /\ Rewired(d, q, {y, z}, {x, h})
    <3>1. BulkStep(p, d, q, h, x, z, y)
      BY <1>2, <2>2, <2>3, Zenon DEF BulkStep
    <3> QED BY <1>0, <1>3, <1>7, <1>9, <2>1, <2>2, <3>1, BulkHeap, Zenon
  <2> QED BY <2>1, <2>4
<1>11. Put(d, ks, q, ms, h, t, m, o)
  <2>1. First(o, h) = h /\ ks[h] = t \o o /\ t \o (m \o o) = t \o m
    BY <1>0, <1>6 DEF First
  <2>2. ms = [ks EXCEPT ![h] = t \o (m \o o)]
    BY <1>6, <2>1 DEF BulkMoved
  <2> QED BY <1>0, <1>10, <2>1, <2>2, Zenon DEF Put
<1> QED BY <1>0, <1>4, <1>6, <1>11, SoundPut, Zenon

(* list_bulk_move_tail: a run of entries moves to the tail of a list. *)
LEMMA BulkMoveIInv ==
  ASSUME IInv, NEW g \in ListHead, NEW h \in ListHead,
         NEW j \in 1 .. Len(lists[g]), NEW i \in 1 .. j, BulkMoveTail(g, h, i, j)
  PROVE  IInv'
<1>1. PICK p, ls, v, C, U : Before(p, ls, v, C, U) /\ Sound(p, ls, C, U)
  BY SoundBefore
<1>2. PICK s, a, m, b : s = ls[g] /\ Thirds(s, i, j, a, m, b)
  BY Zenon DEF Thirds
<1>3. PICK q, ks, ms : /\ q = list_bulk_move_tail(p, h, s[i], s[j])
                       /\ ks = [ls EXCEPT ![g] = a \o b] /\ ms = [ks EXCEPT ![h] = @ \o m]
  BY Zenon
<1>b. /\ p = heap /\ ls = lists /\ v = valid /\ C = ListHead \cap v /\ v \subseteq Node
      /\ \A c \in ListHead : (c \in v \/ ls[c] = <<>>) /\ Elems(ls[c]) \subseteq v
      /\ \A f \in Entry \cap v : f \in U \/ \E c \in ListHead : f \in Elems(ls[c])
      /\ ls \in [ListHead -> Seq(Entry)] /\ g \in C /\ h \in C /\ g \in v /\ h \in v
      /\ s \in Seq(Entry)
  BY <1>1, <1>2 DEF Before, BulkMoveTail, Sound, Heads
<1>4. Call(q, ms, v)
  BY <1>b, <1>2, <1>3, Zenon DEF BulkMoveTail, Thirds
<1>5. Middle(s, a, m, b, s[i], s[j])
  <2>1. j \in 1 .. Len(s)
    BY <1>b, <1>2
  <2> QED BY <1>b, <1>2, <2>1, ThirdsMiddle
<1>6. Sound(q, ms, C, U)
  <2>1. BulkMoved(p, ls, q, ks, ms, g, h, a, m, b, s[i], s[j])
    BY <1>2, <1>3, <1>5 DEF BulkMoved
  <2> QED BY <1>1, <1>b, <2>1, SoundBulk, Zenon
<1>7. /\ a \in Seq(Entry) /\ m \in Seq(Entry) /\ b \in Seq(Entry) /\ ls[g] = a \o (m \o b)
  BY <1>2, <1>5 DEF Middle
<1>8. Elems(ls[g]) = Elems(a \o b) \cup Elems(m) /\ a \o b \in Seq(Entry)
  <2>1. /\ Elems(a \o (m \o b)) = Elems(a) \cup Elems(m) \cup Elems(b)
        /\ Elems(a \o b) = Elems(a) \cup Elems(b) /\ a \o b \in Seq(Entry)
    BY <1>7, Pieces
  <2> QED BY <1>7, <2>1
<1>9. /\ ks[g] = a \o b /\ \A c \in ListHead \ {g} : ks[c] = ls[c]
      /\ ks \in [ListHead -> Seq(Entry)]
  BY <1>b, <1>3, <1>8
<1>10. /\ ms[h] = ks[h] \o m /\ \A c \in ListHead \ {h} : ms[c] = ks[c]
  BY <1>3, <1>9
<1>11. Elems(ks[h] \o m) = Elems(ks[h]) \cup Elems(m)
  BY <1>7, <1>9, JoinElems
<1>12. \A c \in ListHead : (c \in v \/ ms[c] = <<>>) /\ Elems(ms[c]) \subseteq v
  <2>1. \A c \in ListHead : Elems(ks[c]) \subseteq v
    BY <1>b, <1>8, <1>9, Zenon
  <2>2. \A c \in ListHead : Elems(ms[c]) \subseteq v
    BY <1>b, <1>8, <1>10, <1>11, <2>1, Zenon
  <2> QED BY <1>b, <1>9, <1>10, <2>2, Zenon
<1>13. \A f \in Entry \cap v : f \in U \/ \E c \in ListHead : f \in Elems(ms[c])
  <2>1. \A c \in ListHead : \A f \in Elems(ls[c]) : f \in Elems(m) \/ f \in Elems(ks[c])
    BY <1>8, <1>9, Zenon
  <2>2. \A c \in ListHead : Elems(ks[c]) \subseteq Elems(ms[c])
    BY <1>10, <1>11, Zenon
  <2>3. Elems(m) \subseteq Elems(ms[h])
    BY <1>10, <1>11
  <2> QED BY <1>b, <2>1, <2>2, <2>3, Zenon
<1>14. v \subseteq Node /\ Sound(q, ms, ListHead \cap v, U)
  BY <1>b, <1>6
<1> QED BY <1>4, <1>12, <1>13, <1>14, CallIInv, Zenon

-----------------------------------------------------------------------------
LEMMA ApiNextIInv ==
  ASSUME IInv, [ApiNext]_vars
  PROVE  IInv'
<1>1. ASSUME Next \/ UNCHANGED vars PROVE IInv'
  BY <1>1, NextIInv
<1>2. ASSUME NEW e \in Entry, DelInit(e) PROVE IInv'
  BY <1>2, DelInitIInv
<1>3. ASSUME NEW h \in ListHead, Reinit(h) \/ RotateLeft(h) PROVE IInv'
  BY <1>3, ReinitIInv, RotateIInv
<1>4. ASSUME NEW e \in Entry, NEW h \in ListHead, Add(e, h) \/ Move(e, h) \/ MoveTail(e, h)
      PROVE  IInv'
  BY <1>4, AddFrontIInv, MoveIInv
<1>5. ASSUME NEW old \in Entry, NEW new \in Entry, Replace(old, new) \/ ReplaceInit(old, new)
      PROVE  IInv'
  BY <1>5, ReplaceIInv
<1>6. ASSUME NEW g \in ListHead, NEW h \in ListHead, ReplaceHead(g, h) \/ Splice(g, h)
      PROVE  IInv'
  BY <1>6, ReplaceHeadIInv, SpliceIInv
<1>7. ASSUME NEW g \in ListHead, NEW h \in ListHead, NEW e \in Entry, CutElsewhere(g, h, e)
      PROVE  IInv'
  BY <1>7, CutElsewhereIInv
<1>8. ASSUME NEW g \in ListHead, NEW h \in ListHead, NEW i \in 0 .. Len(lists[h]),
             CutPosition(g, h, i) \/ CutBefore(g, h, i)
      PROVE  IInv'
  BY <1>8, CutPositionIInv, CutBeforeIInv
<1>9. ASSUME NEW g \in ListHead, NEW h \in ListHead, NEW j \in 1 .. Len(lists[g]),
             NEW i \in 1 .. j, BulkMoveTail(g, h, i, j)
      PROVE  IInv'
  BY <1>9, BulkMoveIInv
<1> QED BY <1>1, <1>2, <1>3, <1>4, <1>5, <1>6, <1>7, <1>8, <1>9 DEF ApiNext

(* What the queries read is what the ring of the list says. *)
LEMMA QueriesRight ==
  ASSUME IInv
  PROVE  QueriesAgree
<1>1. PICK p, ls, v, C, U : Before(p, ls, v, C, U) /\ Sound(p, ls, C, U)
  BY SoundBefore
<1>a. p = heap /\ ls = lists /\ C = Heads
  BY <1>1 DEF Before, Heads
<1> SUFFICES ASSUME NEW h \in C
             PROVE  /\ list_empty(p, h) <=> ls[h] = <<>>
                    /\ list_empty_careful(p, h) <=> ls[h] = <<>>
                    /\ list_is_singular(p, h) <=> Len(ls[h]) = 1
                    /\ \A e \in Elems(ls[h]) :
                         list_is_last(p, e, h) <=> ls[h][Len(ls[h])] = e
  BY <1>a DEF QueriesAgree
<1>2. PICK s : s = ls[h]
  OBVIOUS
<1>3. /\ p.next[h] = First(s, h) /\ p.prev[h] = Last(s, h) /\ s \in Seq(Entry)
      /\ h \in ListHead /\ Unique(s) /\ Links(h, s, p.next, p.prev)
  <2>1. Path(p, h, s, h) /\ s \in Seq(Entry) /\ h \in ListHead /\ Unique(s) /\ p \in Heap
    BY <1>1, <1>2 DEF Sound
  <2>2. Links(h, s, p.next, p.prev)
    BY <2>1, LinksPath
  <2> QED BY <2>1, <2>2, Zenon DEF Path, Arrow
<1>4. /\ s = <<>> => First(s, h) = h /\ Last(s, h) = h
      /\ s # <<>> => First(s, h) # h
  <2>1. s \in Seq(Entry) /\ h \in ListHead
    BY <1>3, Zenon
  <2>2. s = <<>> => First(s, h) = h /\ Last(s, h) = h
    BY <2>1, Ends, Zenon
  <2>3. s # <<>> => First(s, h) \in Entry /\ h \notin Entry
    BY <2>1, Ends, Zenon
  <2> QED BY <2>2, <2>3, Zenon
<1>5. PICK n \in Nat : n = Len(s) /\ (s = <<>> <=> n = 0)
  BY <1>3, EmptyLen, Zenon
<1>6. (First(s, h) # h /\ First(s, h) = Last(s, h)) <=> n = 1
  <2>1. CASE n = 0
    BY <1>4, <1>5, <2>1
  <2>2. CASE n # 0
    <3>1. First(s, h) = s[1] /\ Last(s, h) = s[n] /\ First(s, h) # h
      BY <1>4, <1>5, <2>2 DEF First, Last
    <3>2. s[1] = s[n] <=> n = 1
      BY <1>3, <1>5, <2>2 DEF Unique
    <3> QED BY <3>1, <3>2
  <2> QED BY <2>1, <2>2
<1>7. ASSUME NEW e \in Elems(s) PROVE p.next[e] = h <=> s[n] = e
  <2>1. PICK k \in 1 .. n : s[k] = e
    BY <1>5 DEF Elems
  <2>2. p.next[s[k]] = Ring(h, s, k + 1)
    <3>1. k \in 0 .. Len(s) /\ Ring(h, s, k) = s[k]
      BY <1>5, <2>1 DEF Ring
    <3> QED BY <1>3, <3>1 DEF Links
  <2>3. CASE k = n
    <3>1. Ring(h, s, k + 1) = h
      BY <1>5, <2>3 DEF Ring
    <3> QED BY <2>1, <2>2, <2>3, <3>1
  <2>4. CASE k < n
    <3>1. Ring(h, s, k + 1) = s[k + 1] /\ s[k + 1] \in Entry
      BY <1>3, <1>5, <2>1, <2>4 DEF Ring
    <3>2. s[k + 1] # h
      BY <1>3, <3>1, NodesAssumption, Zenon
    <3>3. s[n] # s[k]
      BY <1>3, <1>5, <2>1, <2>4 DEF Unique
    <3> QED BY <2>1, <2>2, <3>1, <3>2, <3>3
  <2> QED BY <1>5, <2>1, <2>3, <2>4
<1>8. /\ list_empty(p, h) <=> s = <<>>
      /\ list_empty_careful(p, h) <=> s = <<>>
  BY <1>3, <1>4 DEF list_empty, list_empty_careful
<1>9. list_is_singular(p, h) <=> Len(s) = 1
  BY <1>3, <1>5, <1>6 DEF list_is_singular, list_empty
<1>10. \A e \in Elems(s) : list_is_last(p, e, h) <=> s[Len(s)] = e
  BY <1>5, <1>7 DEF list_is_last
<1> QED BY <1>2, <1>8, <1>9, <1>10

LEMMA ApiInvariance == ApiSpec => []IInv
<1>1. Init => IInv
  BY InitIInv
<1>2. IInv /\ [ApiNext]_vars => IInv'
  BY ApiNextIInv
<1> QED BY <1>1, <1>2, PTL DEF ApiSpec

(***************************************************************************)
(* Whatever sequence of list.h's calls is made, on any number of lists and *)
(* entries, the pointers of every valid head lead through exactly the      *)
(* entries of its list and back, no entry is on two lists, and an entry    *)
(* taken off with list_del_init points to itself; the nodes list_replace   *)
(* and list_splice leave stale never disturb them.                         *)
(***************************************************************************)
THEOREM ApiKeepsLists == ApiSpec => []Represents
<1>1. IInv => Represents
  BY DEF IInv
<1> QED BY <1>1, ApiInvariance, PTL

(***************************************************************************)
(* list_empty, list_empty_careful, list_is_singular and list_is_last,      *)
(* which read one or two pointers, tell the truth about the whole list     *)
(* after any sequence of calls.                                            *)
(***************************************************************************)
THEOREM QueriesTellTruth == ApiSpec => []QueriesAgree
<1>1. IInv => QueriesAgree
  BY QueriesRight
<1> QED BY <1>1, ApiInvariance, PTL

(***************************************************************************)
(* list_for_each_entry_safe walks a list that any calls have built,        *)
(* cut or spliced, visiting each entry once and in order.                  *)
(***************************************************************************)
THEOREM WalkOfAnyList == ApiSpec => []WalkIsExact
<1>1. IInv => WalkIsExact
  BY DEF IInv
<1> QED BY <1>1, ApiInvariance, PTL
=============================================================================
