-------------------------- MODULE ClientListProofs --------------------------
(***************************************************************************)
(* Proofs about ClientList, for any number of clients and lists.           *)
(***************************************************************************)
EXTENDS ClientList, TLAPS

\* a head whose pointers are stale holds no list
HeadsValid == \A h \in ListHead : h \in valid \/ lists[h] = <<>>

\* after its first m entries, c is what s is after its first k
Rest(c, m, s, k) ==
  /\ Len(c) = m + (Len(s) - k)
  /\ \A j \in 1 .. Len(s) - k : c[m + j] = s[k + j]

(* The walk inside the list as it is now: what is left of the list the     *)
(* walk began with is the end of the list the walk is in.                  *)
WalkInList ==
  Walking => /\ walk.head \in valid
             /\ \E m \in 0 .. Len(lists[walk.head]) :
                  Rest(lists[walk.head], m, walk.start, Len(walk.seen))

IInv == TypeOK /\ HeadsValid /\ Represents /\ WalkIsExact /\ WalkInList

-----------------------------------------------------------------------------
\* no entry occurs twice in s
Unique(s) == \A i, j \in 1 .. Len(s) : s[i] = s[j] => i = j

LEMMA TwoWrites ==
  ASSUME NEW S, NEW T, NEW f \in [S -> T], NEW a \in S, NEW b \in S,
         NEW v \in T, NEW w \in T
  PROVE  [f EXCEPT ![a] = v, ![b] = w] \in [S -> T]
OBVIOUS

LEMMA RingNodes ==
  ASSUME NEW h \in ListHead, NEW s \in Seq(Entry), NEW i \in Nat
  PROVE  /\ Ring(h, s, i) \in {h} \cup Elems(s)
         /\ i \in 1 .. Len(s) => Ring(h, s, i) = s[i] /\ s[i] \in Entry
         /\ i \notin 1 .. Len(s) => Ring(h, s, i) = h
BY DEF Ring, Elems

(* The entries of a sequence after Append and after Without. *)
LEMMA AppendElems ==
  ASSUME NEW s \in Seq(Entry), NEW e \in Entry
  PROVE  /\ Elems(Append(s, e)) = Elems(s) \cup {e}
         /\ Append(s, e) \in Seq(Entry)
         /\ \A m \in 1 .. Len(Append(s, e)) :
              \/ m \in 1 .. Len(s) /\ Append(s, e)[m] = s[m]
              \/ m = Len(s) + 1 /\ Append(s, e)[m] = e
<1> DEFINE t == Append(s, e)
<1>1. Len(t) = Len(s) + 1 /\ Len(s) \in Nat /\ t[Len(s) + 1] = e /\ t \in Seq(Entry)
  OBVIOUS
<1>2. \A m \in 1 .. Len(s) : t[m] = s[m]
  OBVIOUS
<1> HIDE DEF t
<1>3. \A m \in 1 .. Len(t) : \/ m \in 1 .. Len(s) /\ t[m] = s[m]
                             \/ m = Len(s) + 1 /\ t[m] = e
  BY <1>1, <1>2
<1>4. Elems(t) = Elems(s) \cup {e}
  <2>1. Elems(t) \subseteq Elems(s) \cup {e}
    BY <1>3 DEF Elems
  <2>2. \A m \in 1 .. Len(s) : s[m] \in Elems(t)
    BY <1>1, <1>2 DEF Elems
  <2>3. e \in Elems(t)
    BY <1>1 DEF Elems
  <2> QED BY <2>1, <2>2, <2>3 DEF Elems
<1> QED BY <1>1, <1>3, <1>4 DEF t

LEMMA WithoutElems ==
  ASSUME NEW s \in Seq(Entry), NEW k \in 1 .. Len(s), Unique(s)
  PROVE  /\ Elems(Without(s, k)) = Elems(s) \ {s[k]}
         /\ Without(s, k) \in Seq(Entry)
         /\ Len(Without(s, k)) = Len(s) - 1
         /\ \A m \in 1 .. Len(s) - 1 :
              Without(s, k)[m] = IF m < k THEN s[m] ELSE s[m + 1]
<1> DEFINE t == Without(s, k)
<1>1. t \in [1 .. Len(s) - 1 -> Entry] /\ Len(s) \in Nat
  BY DEF Without
<1>2. t \in Seq(Entry) /\ Len(t) = Len(s) - 1
  BY <1>1
<1>3. \A m \in 1 .. Len(s) - 1 : t[m] = IF m < k THEN s[m] ELSE s[m + 1]
  BY DEF Without
<1> HIDE DEF t
<1>4. Elems(t) \subseteq Elems(s) \ {s[k]}
  BY <1>1, <1>2, <1>3 DEF Elems, Unique
<1>5. ASSUME NEW m \in 1 .. Len(s), m # k PROVE s[m] \in Elems(t)
  <2>1. CASE m < k
    BY <1>1, <1>2, <1>3, <2>1 DEF Elems
  <2>2. CASE m > k
    <3>1. m - 1 \in 1 .. Len(t) /\ t[m - 1] = s[m]
      BY <1>1, <1>2, <1>3, <2>2
    <3> QED BY <3>1 DEF Elems
  <2> QED BY <1>1, <1>5, <2>1, <2>2
<1>6. Elems(s) \ {s[k]} \subseteq Elems(t)
  BY <1>5 DEF Elems
<1> QED BY <1>2, <1>3, <1>4, <1>6 DEF t

(* A ring is not disturbed by writes to nodes that are not on it. *)
LEMMA LinksElsewhere ==
  ASSUME NEW h \in ListHead, NEW s \in Seq(Entry), NEW nx, NEW pv, NEW nx1, NEW pv1,
         Links(h, s, nx, pv),
         \A n \in {h} \cup Elems(s) : nx1[n] = nx[n] /\ pv1[n] = pv[n]
  PROVE  Links(h, s, nx1, pv1)
<1> SUFFICES ASSUME NEW i \in 0 .. Len(s)
             PROVE  /\ nx1[Ring(h, s, i)] = Ring(h, s, i + 1)
                    /\ pv1[Ring(h, s, i + 1)] = Ring(h, s, i)
  BY DEF Links
<1>1. Ring(h, s, i) \in {h} \cup Elems(s) /\ Ring(h, s, i + 1) \in {h} \cup Elems(s)
  BY RingNodes
<1> QED BY <1>1 DEF Links

(* list_add_tail appends to a ring. *)
LEMMA LinksAppend ==
  ASSUME NEW h \in ListHead, NEW s \in Seq(Entry), NEW e \in Entry,
         e \notin Elems(s), Unique(s), ListHead \cap Entry = {},
         NEW nx, NEW pv, NEW S, h \in S, Elems(s) \subseteq S, e \in S,
         nx \in [S -> S \cup {LIST_POISON1, LIST_POISON2}],
         pv \in [S -> S \cup {LIST_POISON1, LIST_POISON2}],
         Links(h, s, nx, pv), NEW p, p = pv[h],
         NEW nx1, nx1 = [nx EXCEPT ![e] = h, ![p] = e],
         NEW pv1, pv1 = [pv EXCEPT ![h] = e, ![e] = p]
  PROVE  Links(h, Append(s, e), nx1, pv1)
<1> DEFINE t == Append(s, e)
<1>n. Len(s) \in Nat /\ Len(t) = Len(s) + 1
  OBVIOUS
<1>p. p = Ring(h, s, Len(s))
  BY <1>n DEF Links, Ring
<1>t. /\ \A i \in 0 .. Len(s) : Ring(h, t, i) = Ring(h, s, i)
      /\ Ring(h, t, Len(s) + 1) = e
      /\ Ring(h, t, Len(s) + 2) = h
  BY <1>n DEF Ring
<1>h. h # e
  OBVIOUS
<1>i. ASSUME NEW i \in 0 .. Len(s) PROVE Ring(h, s, i) # e /\ Ring(h, s, i) \in S
  BY <1>n, <1>i, <1>h DEF Ring, Elems
<1>j. ASSUME NEW i \in 0 .. Len(s), NEW j \in 0 .. Len(s), Ring(h, s, i) = Ring(h, s, j)
      PROVE  i = j
  BY <1>n, <1>j DEF Ring, Unique
<1> SUFFICES ASSUME NEW i \in 0 .. Len(t)
             PROVE  /\ nx1[Ring(h, t, i)] = Ring(h, t, i + 1)
                    /\ pv1[Ring(h, t, i + 1)] = Ring(h, t, i)
  BY DEF Links
<1>1. CASE i < Len(s)
  <2>1. /\ nx[Ring(h, s, i)] = Ring(h, s, i + 1)
        /\ pv[Ring(h, s, i + 1)] = Ring(h, s, i)
    BY <1>1, <1>n DEF Links
  <2>2. Ring(h, s, i) # p /\ Ring(h, s, i) # e /\ Ring(h, s, i) \in S
    BY <1>1, <1>n, <1>p, <1>i, <1>j
  <2>3. Ring(h, s, i + 1) # h /\ Ring(h, s, i + 1) # e /\ Ring(h, s, i + 1) \in S
    BY <1>1, <1>n, <1>i DEF Ring
  <2>4. Ring(h, t, i) = Ring(h, s, i) /\ Ring(h, t, i + 1) = Ring(h, s, i + 1)
    BY <1>1, <1>n, <1>t
  <2> QED BY <2>1, <2>2, <2>3, <2>4
<1>2. CASE i = Len(s)
  <2>1. Ring(h, t, i) = p /\ Ring(h, t, i + 1) = e
    BY <1>2, <1>n, <1>p, <1>t
  <2>2. p \in S /\ p # e
    BY <1>n, <1>p, <1>i
  <2> QED BY <2>1, <2>2, <1>h
<1>3. CASE i = Len(s) + 1
  <2>1. Ring(h, t, i) = e /\ Ring(h, t, i + 1) = h
    BY <1>3, <1>n, <1>t
  <2>2. p \in S /\ p # e
    BY <1>n, <1>p, <1>i
  <2> QED BY <2>1, <2>2, <1>h
<1> QED BY <1>1, <1>2, <1>3, <1>n

(* list_del takes the k-th entry out of a ring. *)
LEMMA LinksRemove ==
  ASSUME NEW h \in ListHead, NEW s \in Seq(Entry), NEW k \in 1 .. Len(s), Unique(s),
         NEW nx, NEW pv, NEW nx1, NEW pv1, Links(h, s, nx, pv),
         NEW e, e = s[k], NEW p, p = pv[e], NEW n, n = nx[e],
         \A x \in Node : x # e => nx1[x] = IF x = p THEN n ELSE nx[x],
         \A x \in Node : x # e => pv1[x] = IF x = n THEN p ELSE pv[x]
  PROVE  Links(h, Without(s, k), nx1, pv1)
<1>. ListHead \cap Entry = {}
  BY NodesAssumption
<1> DEFINE t == Without(s, k)
<1>n. Len(s) \in Nat /\ Len(t) = Len(s) - 1 /\ t \in Seq(Entry)
  BY WithoutElems
<1>p. p = Ring(h, s, k - 1) /\ n = Ring(h, s, k + 1) /\ e = Ring(h, s, k)
  <2>1. k - 1 \in 0 .. Len(s) /\ k \in 0 .. Len(s) /\ (k - 1) + 1 = k
    BY <1>n
  <2>2. e = Ring(h, s, k)
    BY DEF Ring
  <2>3. nx[Ring(h, s, k)] = Ring(h, s, k + 1)
    BY <2>1 DEF Links
  <2>4. pv[Ring(h, s, (k - 1) + 1)] = Ring(h, s, k - 1)
    BY <2>1 DEF Links
  <2>5. (k - 1) + 1 = k
    OBVIOUS
  <2>6. pv[Ring(h, s, k)] = Ring(h, s, k - 1)
    BY <2>4, <2>5, Zenon
  <2> QED BY <2>2, <2>3, <2>6
<1>t. \A i \in 0 .. Len(s) :
        Ring(h, t, i) = IF i < k THEN Ring(h, s, i) ELSE Ring(h, s, i + 1)
  BY <1>n DEF Ring, Without
<1>i. ASSUME NEW i \in 0 .. Len(s) + 1
      PROVE  /\ Ring(h, s, i) \in Node
             /\ i # k => Ring(h, s, i) # e
  BY <1>n DEF Ring, Elems, Unique, Node
<1>j. ASSUME NEW i \in 0 .. Len(s), NEW j \in 0 .. Len(s), Ring(h, s, i) = Ring(h, s, j)
      PROVE  i = j
  BY <1>n, <1>j DEF Ring, Unique
<1>l. ASSUME NEW i \in 1 .. Len(s) + 1, NEW j \in 1 .. Len(s) + 1,
             Ring(h, s, i) = Ring(h, s, j)
      PROVE  i = j
  BY <1>n, <1>l DEF Ring, Unique
<1> HIDE DEF t
<1>s. p \in Node /\ n \in Node /\ p # e /\ n # e
  BY <1>n, <1>p, <1>i
<1>x. ASSUME NEW x \in Node, x # e
      PROVE  /\ x # p => nx1[x] = nx[x]
             /\ x # n => pv1[x] = pv[x]
             /\ nx1[p] = n /\ pv1[n] = p
  BY <1>x, <1>s
<1> SUFFICES ASSUME NEW i \in 0 .. Len(s) - 1
             PROVE  /\ nx1[Ring(h, t, i)] = Ring(h, t, i + 1)
                    /\ pv1[Ring(h, t, i + 1)] = Ring(h, t, i)
  BY <1>n DEF Links, t
<1>1. CASE i < k - 1
  <2>1. /\ nx[Ring(h, s, i)] = Ring(h, s, i + 1)
        /\ pv[Ring(h, s, i + 1)] = Ring(h, s, i)
    BY <1>n DEF Links
  <2>2. Ring(h, s, i) # p /\ Ring(h, s, i) # e /\ Ring(h, s, i) \in Node
    BY <1>1, <1>n, <1>p, <1>i, <1>j
  <2>3. Ring(h, s, i + 1) # n /\ Ring(h, s, i + 1) # e /\ Ring(h, s, i + 1) \in Node
    BY <1>1, <1>n, <1>p, <1>i, <1>l
  <2>4. Ring(h, t, i) = Ring(h, s, i) /\ Ring(h, t, i + 1) = Ring(h, s, i + 1)
    BY <1>1, <1>n, <1>t
  <2> QED BY <2>1, <2>2, <2>3, <2>4, <1>x
<1>2. CASE i = k - 1
  <2>1. Ring(h, t, i) = p /\ Ring(h, t, i + 1) = n
    BY <1>2, <1>n, <1>p, <1>t
  <2> QED BY <2>1, <1>s, <1>x
<1>3. CASE i >= k
  <2>1. /\ nx[Ring(h, s, i + 1)] = Ring(h, s, i + 2)
        /\ pv[Ring(h, s, i + 2)] = Ring(h, s, i + 1)
    <3>1. i + 1 \in 0 .. Len(s) /\ (i + 1) + 1 = i + 2
      BY <1>n
    <3> QED BY <3>1 DEF Links
  <2>2. Ring(h, s, i + 1) # p /\ Ring(h, s, i + 1) # e /\ Ring(h, s, i + 1) \in Node
    BY <1>3, <1>n, <1>p, <1>i, <1>j
  <2>3. Ring(h, s, i + 2) # n /\ Ring(h, s, i + 2) # e /\ Ring(h, s, i + 2) \in Node
    BY <1>3, <1>n, <1>p, <1>i, <1>l
  <2>4. Ring(h, t, i) = Ring(h, s, i + 1) /\ Ring(h, t, i + 1) = Ring(h, s, i + 2)
    <3>1. i + 1 \in 0 .. Len(s) /\ ~(i < k) /\ ~(i + 1 < k) /\ (i + 1) + 1 = i + 2
      BY <1>3, <1>n
    <3> QED BY <3>1, <1>n, <1>t
  <2> QED BY <2>1, <2>2, <2>3, <2>4, <1>x
<1> QED BY <1>1, <1>2, <1>3, <1>n

-----------------------------------------------------------------------------
(* What the invariant says of one list. *)
LEMMA OneList ==
  ASSUME IInv, NEW h \in ListHead
  PROVE  /\ lists[h] \in Seq(Entry) /\ h \notin Entry
         /\ Elems(lists[h]) \subseteq valid \cap Entry
         /\ h \in valid => Links(h, lists[h], heap.next, heap.prev)
         /\ Unique(lists[h])
         /\ \A g \in ListHead \ {h} : Elems(lists[g]) \cap Elems(lists[h]) = {}
<1>1. lists[h] \in Seq(Entry) /\ h \notin Entry
  BY NodesAssumption DEF IInv, TypeOK
<1>2. Elems(lists[h]) \subseteq Entry
  BY <1>1 DEF Elems
<1>3. /\ Elems(lists[h]) \subseteq valid
      /\ h \in valid => Links(h, lists[h], heap.next, heap.prev)
  <2>1. CASE h \in valid
    BY <2>1 DEF IInv, Represents
  <2>2. CASE h \notin valid
    BY <2>2 DEF IInv, HeadsValid, Elems
  <2> QED BY <2>1, <2>2
<1>4. Unique(lists[h])
  BY DEF IInv, Represents, Disjoint, Unique
<1>5. ASSUME NEW g \in ListHead \ {h} PROVE Elems(lists[g]) \cap Elems(lists[h]) = {}
  BY DEF IInv, Represents, Disjoint, Elems
<1> QED BY <1>1, <1>2, <1>3, <1>4, <1>5

(* The heap's two functions. *)
LEMMA HeapType ==
  ASSUME IInv
  PROVE  /\ heap.next \in [Node -> Pointer] /\ heap.prev \in [Node -> Pointer]
         /\ heap = [next |-> heap.next, prev |-> heap.prev]
         /\ valid \subseteq Node /\ lists \in [ListHead -> Seq(Entry)]
BY DEF IInv, TypeOK

(* Initially the lists are empty and no client exists. *)
LEMMA InitIInv == Init => IInv
<1> SUFFICES ASSUME Init PROVE IInv
  OBVIOUS
<1>1. heap.next \in [Node -> Pointer] /\ heap.prev \in [Node -> Pointer]
  BY DEF Init, Node, Pointer
<1>2. TypeOK
  BY <1>1 DEF Init, TypeOK, Node
<1>3. \A h \in ListHead : lists[h] = <<>> /\ Len(lists[h]) = 0
  BY DEF Init
<1>4. \A h \in ListHead : heap.next[h] = h /\ heap.prev[h] = h
  BY DEF Init, Node
<1>5. ASSUME NEW h \in ListHead
      PROVE  Elems(lists[h]) \subseteq valid /\ Links(h, lists[h], heap.next, heap.prev)
  BY <1>3, <1>4 DEF Elems, Links, Ring
<1>6. Disjoint
  BY <1>3 DEF Disjoint
<1>7. \A e \in Entry : ~Alone(e)
  BY NodesAssumption DEF Init, Alone
<1> QED BY <1>2, <1>5, <1>6, <1>7
        DEF IInv, Init, HeadsValid, Represents, WalkIsExact, WalkInList, Walking, NoWalk

(* Allocating a client touches no list. *)
LEMMA NewIInv ==
  ASSUME IInv, NEW e \in Entry, transocks_client_new(e)
  PROVE  IInv'
<1>0. /\ ~Walking /\ e \notin valid /\ lists' = lists /\ walk' = walk
      /\ valid' = valid \cup {e}
      /\ heap'.next = [heap.next EXCEPT ![e] = e]
      /\ heap'.prev = [heap.prev EXCEPT ![e] = e]
      /\ heap' = [next |-> heap'.next, prev |-> heap'.prev]
  BY DEF transocks_client_new, INIT_LIST_HEAD
<1>1. TypeOK' /\ HeadsValid'
  <2>1. heap'.next \in [Node -> Pointer] /\ heap'.prev \in [Node -> Pointer]
    BY <1>0, HeapType DEF Node, Pointer
  <2>2. valid' \subseteq Node
    BY <1>0, HeapType DEF Node
  <2> QED BY <1>0, <2>1, <2>2 DEF IInv, TypeOK, HeadsValid
<1>2. ASSUME NEW h \in ListHead \cap valid'
      PROVE  Elems(lists'[h]) \subseteq valid' /\ Links(h, lists'[h], heap'.next, heap'.prev)
  <2>0. h \in valid
    BY <1>0, NodesAssumption
  <2>1. \A n \in {h} \cup Elems(lists[h]) :
          heap'.next[n] = heap.next[n] /\ heap'.prev[n] = heap.prev[n]
    BY <1>0, <2>0, OneList, HeapType DEF Node
  <2>2. Links(h, lists[h], heap'.next, heap'.prev)
    BY <2>0, <2>1, OneList, LinksElsewhere
  <2> QED BY <1>0, <2>2, OneList
<1>3. Disjoint'
  BY <1>0 DEF IInv, Represents, Disjoint
<1>4. ASSUME NEW f \in Entry, Alone(f)' PROVE heap'.next[f] = f /\ heap'.prev[f] = f
  <2>1. CASE f = e
    BY <1>0, <2>1, HeapType DEF Node
  <2>2. CASE f # e
    <3>1. Alone(f)
      BY <1>0, <1>4, <2>2 DEF Alone, Listed
    <3> QED BY <1>0, <2>2, <3>1, HeapType DEF IInv, Represents, Node
  <2> QED BY <2>1, <2>2
<1>5. ~Walking'
  BY <1>0 DEF Walking
<1> QED BY <1>1, <1>2, <1>3, <1>4, <1>5 DEF IInv, Represents, WalkIsExact, WalkInList

(* Accepting a client appends it to its list and touches no other. *)
LEMMA AddIInv ==
  ASSUME IInv, NEW e \in Entry, NEW h \in ListHead, listener_cb_adds(e, h)
  PROVE  IInv'
<1> DEFINE p == heap.prev[h]
           s == lists[h]
<1>0. /\ ~Walking /\ Alone(e) /\ walk' = walk /\ valid' = valid
      /\ lists' = [lists EXCEPT ![h] = Append(s, e)]
      /\ heap'.next = [heap.next EXCEPT ![e] = h, ![p] = e]
      /\ heap'.prev = [heap.prev EXCEPT ![h] = e, ![e] = p]
      /\ heap' = [next |-> heap'.next, prev |-> heap'.prev]
  BY DEF listener_cb_adds, list_add_tail, __list_add
<1>s. /\ s \in Seq(Entry) /\ h \in valid /\ h # e /\ e \in valid
      /\ e \notin Elems(s) /\ Unique(s)
      /\ Links(h, s, heap.next, heap.prev)
      /\ \A g \in ListHead : e \notin Elems(lists[g])
  BY <1>0, OneList DEF Alone, Listed, listener_cb_adds
<1>p. p \in {h} \cup Elems(s) /\ p \in Node /\ p # e
  <2>1. p = Ring(h, s, Len(s)) /\ Len(s) \in Nat
    <3>1. PICK n \in Nat : n = Len(s)
      BY <1>s
    <3>2. n \in 0 .. n /\ n + 1 \notin 1 .. n
      OBVIOUS
    <3>3. Ring(h, s, n + 1) = h
      BY <3>1, <3>2 DEF Ring
    <3>4. heap.prev[Ring(h, s, n + 1)] = Ring(h, s, n)
      BY <1>s, <3>1, <3>2 DEF Links
    <3> QED BY <3>1, <3>3, <3>4
  <2> QED BY <2>1, <1>s, RingNodes, OneList DEF Node
<1>1. TypeOK' /\ HeadsValid'
  <2>1. heap'.next \in [Node -> Pointer] /\ heap'.prev \in [Node -> Pointer]
    <3>1. /\ e \in Node /\ h \in Node /\ p \in Node
          /\ e \in Pointer /\ h \in Pointer /\ p \in Pointer
      BY <1>p DEF Node, Pointer
    <3> HIDE DEF p, s
    <3>2. [heap.next EXCEPT ![e] = h, ![p] = e] \in [Node -> Pointer]
      BY <3>1, HeapType, TwoWrites
    <3>3. [heap.prev EXCEPT ![h] = e, ![e] = p] \in [Node -> Pointer]
      BY <3>1, HeapType, TwoWrites
    <3> QED BY <1>0, <3>2, <3>3
  <2>2. lists' \in [ListHead -> Seq(Entry)]
    BY <1>0, <1>s, HeapType
  <2>3. \A g \in ListHead : g # h => lists'[g] = lists[g]
    BY <1>0, HeapType
  <2>4. HeadsValid'
    BY <1>0, <1>s, <2>3 DEF IInv, HeadsValid
  <2> QED BY <1>0, <2>1, <2>2, <2>4 DEF IInv, TypeOK
<1>a. Links(h, Append(s, e), heap'.next, heap'.prev)
  <2>1. /\ h \in Node /\ e \in Node /\ Elems(s) \subseteq Node
        /\ heap.next \in [Node -> Node \cup {LIST_POISON1, LIST_POISON2}]
        /\ heap.prev \in [Node -> Node \cup {LIST_POISON1, LIST_POISON2}]
    BY OneList, HeapType DEF Node, Pointer
  <2>2. ListHead \cap Entry = {} /\ p = heap.prev[h]
    BY NodesAssumption
  <2> HIDE DEF p, s
  <2> QED BY <1>0, <1>s, <2>1, <2>2, LinksAppend, SMTT(30)
<1>2. ASSUME NEW g \in ListHead \cap valid
      PROVE  Elems(lists'[g]) \subseteq valid' /\ Links(g, lists'[g], heap'.next, heap'.prev)
  <2>1. CASE g = h
    <3>1. lists'[g] = Append(s, e)
      BY <1>0, <2>1, HeapType
    <3>2. Elems(Append(s, e)) \subseteq Elems(s) \cup {e}
      BY <1>s, AppendElems
    <3>4. Elems(Append(s, e)) \subseteq valid'
      BY <1>0, <1>s, <3>2, OneList
    <3> QED BY <1>a, <2>1, <3>1, <3>4
  <2>2. CASE g # h
    <3>1. lists'[g] = lists[g]
      BY <1>0, <2>2, HeapType
    <3>2. \A n \in {g} \cup Elems(lists[g]) : n # e /\ n # h /\ n # p /\ n \in Node
      BY <1>s, <1>p, <2>2, OneList DEF Node
    <3>3. \A n \in {g} \cup Elems(lists[g]) :
            heap'.next[n] = heap.next[n] /\ heap'.prev[n] = heap.prev[n]
      BY <1>0, <3>2, HeapType
    <3>4. Links(g, lists[g], heap'.next, heap'.prev)
      BY <3>3, OneList, LinksElsewhere
    <3> QED BY <1>0, <3>1, <3>4, OneList
  <2> QED BY <2>1, <2>2
<1>3. Disjoint'
  <2> SUFFICES ASSUME NEW g \in ListHead, NEW k \in ListHead,
                      NEW i \in 1 .. Len(lists'[g]), NEW j \in 1 .. Len(lists'[k]),
                      lists'[g][i] = lists'[k][j]
               PROVE  g = k /\ i = j
    BY DEF Disjoint
  <2>1. \A x \in ListHead : x # h => lists'[x] = lists[x]
    BY <1>0, HeapType
  <2>2. lists'[h] = Append(s, e)
    BY <1>0, HeapType
  <2>3. \A x \in ListHead : \A m \in 1 .. Len(lists[x]) : lists[x][m] # e
    BY <1>s DEF Elems
  <2>4. ASSUME NEW x \in ListHead, NEW m \in 1 .. Len(lists'[x])
        PROVE  \/ m \in 1 .. Len(lists[x]) /\ lists'[x][m] = lists[x][m]
               \/ x = h /\ m = Len(s) + 1 /\ lists'[x][m] = e
    <3>1. CASE x = h
      <4> HIDE DEF s
      <4>1. m \in 1 .. Len(Append(s, e)) /\ lists'[x][m] = Append(s, e)[m] /\ lists[x] = s
        BY <2>2, <3>1 DEF s
      <4>2. \/ m \in 1 .. Len(s) /\ Append(s, e)[m] = s[m]
            \/ m = Len(s) + 1 /\ Append(s, e)[m] = e
        BY <1>s, <4>1, AppendElems
      <4> QED BY <3>1, <4>1, <4>2
    <3>2. CASE x # h
      BY <2>1, <3>2
    <3> QED BY <3>1, <3>2
  <2>5. \A x, y \in ListHead :
          \A m \in 1 .. Len(lists[x]), n \in 1 .. Len(lists[y]) :
            lists[x][m] = lists[y][n] => x = y /\ m = n
    BY DEF IInv, Represents, Disjoint
  <2>6. CASE i \in 1 .. Len(lists[g]) /\ lists'[g][i] = lists[g][i]
    <3>1. j \in 1 .. Len(lists[k]) /\ lists'[k][j] = lists[k][j]
      BY <2>3, <2>4, <2>6
    <3>2. lists[g][i] = lists[k][j]
      BY <2>6, <3>1
    <3> QED BY <2>5, <2>6, <3>1, <3>2
  <2>7. CASE g = h /\ i = Len(s) + 1 /\ lists'[g][i] = e
    <3>1. k = h /\ j = Len(s) + 1
      BY <2>3, <2>4, <2>7
    <3> QED BY <2>7, <3>1
  <2> QED BY <2>4, <2>6, <2>7
<1>4. ASSUME NEW f \in Entry, Alone(f)' PROVE heap'.next[f] = f /\ heap'.prev[f] = f
  <2>1. \A g \in ListHead : f \notin Elems(lists'[g])
    BY <1>4 DEF Alone, Listed
  <2>2. Elems(lists'[h]) = Elems(s) \cup {e}
    BY <1>0, <1>s, HeapType, AppendElems
  <2>3. f # e /\ f \notin Elems(s)
    BY <2>1, <2>2
  <2>4. \A g \in ListHead : f \notin Elems(lists[g])
    <3>1. \A g \in ListHead : g # h => lists'[g] = lists[g]
      BY <1>0, HeapType
    <3> QED BY <2>1, <2>3, <3>1
  <2>5. Alone(f)
    BY <1>0, <1>4, <2>4 DEF Alone, Listed
  <2>6. f # p /\ f # h /\ f \in Node
    BY <1>p, <2>4, OneList DEF Node
  <2> QED BY <1>0, <2>3, <2>5, <2>6, HeapType DEF IInv, Represents
<1>5. ~Walking'
  BY <1>0 DEF Walking
<1> QED BY <1>0, <1>1, <1>2, <1>3, <1>4, <1>5 DEF IInv, Represents, WalkIsExact, WalkInList

(* What a list_del must preserve. *)
Kept ==
  /\ heap \in [next : [Node -> Pointer], prev : [Node -> Pointer]]
  /\ HeadsValid /\ valid \subseteq Node
  /\ lists \in [ListHead -> Seq(Entry)]
  /\ Represents

(* Steps that leave the lists alone. *)
LEMMA KeptSame ==
  ASSUME IInv, heap' = heap, valid' = valid, lists' = lists
  PROVE  Kept'
<1>1. HeadsValid' /\ valid' \subseteq Node /\ lists' \in [ListHead -> Seq(Entry)]
  BY DEF IInv, TypeOK, HeadsValid
<1>2. heap' \in [next : [Node -> Pointer], prev : [Node -> Pointer]]
  BY DEF IInv, TypeOK
<1>3. Disjoint'
  <2>1. Disjoint
    BY DEF IInv, Represents
  <2> QED BY <2>1 DEF Disjoint
<1>4. \A e \in Entry : Alone(e)' => heap'.next[e] = e /\ heap'.prev[e] = e
  <2>1. \A e \in Entry : Alone(e) => heap.next[e] = e /\ heap.prev[e] = e
    BY DEF IInv, Represents
  <2> QED BY <2>1, Zenon DEF Alone, Listed
<1>5. \A h \in ListHead \cap valid' :
        Elems(lists'[h]) \subseteq valid' /\ Links(h, lists'[h], heap'.next, heap'.prev)
  BY DEF IInv, Represents
<1> QED BY <1>1, <1>2, <1>3, <1>4, <1>5 DEF Kept, Represents

LEMMA HeapAfterDel ==
  ASSUME heap.next \in [Node -> Pointer], heap.prev \in [Node -> Pointer],
         NEW e \in Node, NEW p \in Node, NEW n \in Node,
         p = heap.prev[e], n = heap.next[e], heap' = list_del(heap, e)
  PROVE  /\ heap' \in [next : [Node -> Pointer], prev : [Node -> Pointer]]
         /\ \A x \in Node : x # e => heap'.next[x] = IF x = p THEN n ELSE heap.next[x]
         /\ \A x \in Node : x # e => heap'.prev[x] = IF x = n THEN p ELSE heap.prev[x]
<1>1. heap' = [next |-> heap'.next, prev |-> heap'.prev]
  BY DEF list_del, __list_del_entry, __list_del
<1>2. heap'.next = [[heap.next EXCEPT ![p] = n] EXCEPT ![e] = LIST_POISON1]
  BY DEF list_del, __list_del_entry, __list_del
<1>3. heap'.prev = [[heap.prev EXCEPT ![n] = p] EXCEPT ![e] = LIST_POISON2]
  BY DEF list_del, __list_del_entry, __list_del
<1>4. p \in Pointer /\ n \in Pointer /\ LIST_POISON1 \in Pointer /\ LIST_POISON2 \in Pointer
  BY DEF Pointer
<1>5. /\ heap'.next \in [Node -> Pointer]
      /\ \A x \in Node : x # e => heap'.next[x] = IF x = p THEN n ELSE heap.next[x]
  <2> DEFINE d == [heap.next EXCEPT ![p] = n]
  <2>1. d \in [Node -> Pointer] /\ \A x \in Node : d[x] = IF x = p THEN n ELSE heap.next[x]
    BY <1>4
  <2>2. heap'.next = [d EXCEPT ![e] = LIST_POISON1]
    BY <1>2
  <2> HIDE DEF d
  <2>3. /\ [d EXCEPT ![e] = LIST_POISON1] \in [Node -> Pointer]
        /\ \A x \in Node : x # e => [d EXCEPT ![e] = LIST_POISON1][x] = d[x]
    BY <1>4, <2>1
  <2> QED BY <2>1, <2>2, <2>3
<1>6. /\ heap'.prev \in [Node -> Pointer]
      /\ \A x \in Node : x # e => heap'.prev[x] = IF x = n THEN p ELSE heap.prev[x]
  <2> DEFINE d == [heap.prev EXCEPT ![n] = p]
  <2>1. d \in [Node -> Pointer] /\ \A x \in Node : d[x] = IF x = n THEN p ELSE heap.prev[x]
    BY <1>4
  <2>2. heap'.prev = [d EXCEPT ![e] = LIST_POISON2]
    BY <1>3
  <2> HIDE DEF d
  <2>3. /\ [d EXCEPT ![e] = LIST_POISON2] \in [Node -> Pointer]
        /\ \A x \in Node : x # e => [d EXCEPT ![e] = LIST_POISON2][x] = d[x]
    BY <1>4, <2>1
  <2> QED BY <2>1, <2>2, <2>3
<1> QED BY <1>1, <1>5, <1>6

(* A list_del of a client that is on no list: only the client changes. *)
LEMMA DeleteAlone ==
  ASSUME IInv, NEW e \in Entry, Alone(e), heap' = list_del(heap, e),
         valid' = valid \ {e}, lists' = lists
  PROVE  Kept'
<1>1. heap.next[e] = e /\ heap.prev[e] = e /\ e \in Node
  BY DEF IInv, Represents, Node
<1>2. /\ heap' \in [next : [Node -> Pointer], prev : [Node -> Pointer]]
      /\ \A x \in Node : x # e => heap'.next[x] = heap.next[x] /\ heap'.prev[x] = heap.prev[x]
  BY <1>1, HeapAfterDel, HeapType
<1>3. HeadsValid' /\ valid' \subseteq Node /\ lists' \in [ListHead -> Seq(Entry)]
  BY HeapType, NodesAssumption DEF HeadsValid, IInv
<1>4. ASSUME NEW g \in ListHead \cap valid
      PROVE  Elems(lists'[g]) \subseteq valid' /\ Links(g, lists'[g], heap'.next, heap'.prev)
  <2>1. g # e /\ e \notin Elems(lists[g])
    BY OneList DEF Alone, Listed
  <2>2. \A x \in {g} \cup Elems(lists[g]) : x # e /\ x \in Node
    BY <2>1, OneList DEF Node
  <2>3. Links(g, lists[g], heap'.next, heap'.prev)
    BY <1>2, <2>2, OneList, LinksElsewhere
  <2> QED BY <2>1, <2>3, OneList
<1>5. Disjoint'
  BY DEF IInv, Represents, Disjoint
<1>6. ASSUME NEW f \in Entry, Alone(f)' PROVE heap'.next[f] = f /\ heap'.prev[f] = f
  <2>1. Alone(f) /\ f # e /\ f \in Node
    BY <1>6 DEF Alone, Listed, Node
  <2> QED BY <1>2, <2>1 DEF IInv, Represents
<1> QED BY <1>2, <1>3, <1>4, <1>5, <1>6 DEF Kept, Represents

(* A list_del of the i-th client of a list takes it out of that list. *)
LEMMA DeleteListed ==
  ASSUME IInv, NEW e \in Entry, NEW h \in ListHead, NEW i \in 1 .. Len(lists[h]),
         lists[h][i] = e, heap' = list_del(heap, e), valid' = valid \ {e},
         lists' = [lists EXCEPT ![h] = Without(lists[h], i)]
  PROVE  Kept'
<1> DEFINE s == lists[h]
           p == heap.prev[e]
           n == heap.next[e]
           t == Without(s, i)
<1>s. /\ s \in Seq(Entry) /\ Unique(s) /\ Links(h, s, heap.next, heap.prev)
      /\ Elems(s) \subseteq Node /\ h \in Node /\ e \in Node /\ e \in Elems(s) /\ h # e
  <2>1. h \in valid
    BY DEF IInv, HeadsValid
  <2> QED BY <2>1, OneList DEF Node, Elems
<1>p. p \in {h} \cup Elems(s) /\ n \in {h} \cup Elems(s)
  <2>1. i - 1 \in Nat /\ i + 1 \in Nat /\ i - 1 \in 0 .. Len(s) /\ i \in 0 .. Len(s)
    BY <1>s
  <2>2. (i - 1) + 1 = i
    OBVIOUS
  <2>3. e = Ring(h, s, i)
    BY DEF Ring
  <2> HIDE DEF s
  <2>4. heap.next[Ring(h, s, i)] = Ring(h, s, i + 1)
    BY <1>s, <2>1 DEF Links
  <2>5. heap.prev[Ring(h, s, (i - 1) + 1)] = Ring(h, s, i - 1)
    BY <1>s, <2>1 DEF Links
  <2>6. p = Ring(h, s, i - 1)
    BY <2>2, <2>3, <2>5, Zenon
  <2> QED BY <1>s, <2>1, <2>3, <2>4, <2>6, RingNodes
<1>t. /\ Elems(t) = Elems(s) \ {e} /\ t \in Seq(Entry) /\ Len(t) = Len(s) - 1
      /\ \A m \in 1 .. Len(s) - 1 : t[m] = IF m < i THEN s[m] ELSE s[m + 1]
  BY <1>s, WithoutElems
<1>u. lists'[h] = t /\ \A g \in ListHead : g # h => lists'[g] = lists[g]
  BY HeapType
<1>1. /\ heap' \in [next : [Node -> Pointer], prev : [Node -> Pointer]]
      /\ \A x \in Node : x # e => heap'.next[x] = IF x = p THEN n ELSE heap.next[x]
      /\ \A x \in Node : x # e => heap'.prev[x] = IF x = n THEN p ELSE heap.prev[x]
  <2>1. p \in Node /\ n \in Node /\ heap.next \in [Node -> Pointer] /\ heap.prev \in [Node -> Pointer]
    BY <1>s, <1>p, HeapType
  <2> QED BY <1>s, <2>1, HeapAfterDel
<1>2. HeadsValid' /\ valid' \subseteq Node /\ lists' \in [ListHead -> Seq(Entry)]
  <2>1. lists' \in [ListHead -> Seq(Entry)]
    BY <1>t, HeapType
  <2> QED BY <2>1, HeapType, NodesAssumption DEF HeadsValid, IInv
<1> HIDE DEF t, s, p, n
<1>3. ASSUME NEW g \in ListHead \cap valid
      PROVE  Elems(lists'[g]) \subseteq valid' /\ Links(g, lists'[g], heap'.next, heap'.prev)
  <2>1. CASE g = h
    <3>1. Links(h, t, heap'.next, heap'.prev)
      <4>1. i \in 1 .. Len(s) /\ e = s[i] /\ p = heap.prev[e] /\ n = heap.next[e]
        BY DEF s, p, n
      <4> QED BY <1>s, <1>1, <4>1, LinksRemove, SMTT(30) DEF t
    <3>2. Elems(s) \subseteq valid
      BY OneList DEF s
    <3> QED BY <1>u, <1>t, <2>1, <3>1, <3>2
  <2>2. CASE g # h
    <3>1. e \notin Elems(lists[g]) /\ Elems(lists[g]) \cap Elems(s) = {}
      BY <1>s, <2>2, OneList DEF s
    <3>2. \A x \in {g} \cup Elems(lists[g]) : x \in Node /\ x # e /\ x # p /\ x # n
      <4>1. g \notin Elems(s) /\ h \notin Elems(lists[g]) /\ g \in Node /\ Elems(lists[g]) \subseteq Node
        BY OneList DEF Node, s
      <4> QED BY <1>s, <1>p, <2>2, <3>1, <4>1
    <3>3. Links(g, lists[g], heap'.next, heap'.prev)
      BY <1>1, <3>2, OneList, LinksElsewhere
    <3> QED BY <1>u, <2>2, <3>1, <3>3, OneList
  <2> QED BY <2>1, <2>2
<1>4. Disjoint'
  <2> SUFFICES ASSUME NEW g \in ListHead, NEW k \in ListHead,
                      NEW a \in 1 .. Len(lists'[g]), NEW b \in 1 .. Len(lists'[k]),
                      lists'[g][a] = lists'[k][b]
               PROVE  g = k /\ a = b
    BY DEF Disjoint
  <2>1. ASSUME NEW x \in ListHead, NEW m \in 1 .. Len(lists'[x])
        PROVE  \E c \in 1 .. Len(lists[x]) :
                 lists'[x][m] = lists[x][c] /\ c = IF x = h /\ m >= i THEN m + 1 ELSE m
    <3>1. CASE x = h
      <4>1. m \in 1 .. Len(s) - 1 /\ lists'[x][m] = IF m < i THEN s[m] ELSE s[m + 1]
        BY <1>t, <1>u, <3>1
      <4>2. CASE m < i
        BY <1>s, <3>1, <4>1, <4>2 DEF s
      <4>3. CASE m >= i
        BY <1>s, <3>1, <4>1, <4>3 DEF s
      <4> QED BY <4>1, <4>2, <4>3
    <3>2. CASE x # h
      BY <1>u, <3>2
    <3> QED BY <3>1, <3>2
  <2>2. \A x, y \in ListHead :
          \A c \in 1 .. Len(lists[x]), d \in 1 .. Len(lists[y]) :
            lists[x][c] = lists[y][d] => x = y /\ c = d
    BY DEF IInv, Represents, Disjoint
  <2>3. PICK c \in 1 .. Len(lists[g]) :
          lists'[g][a] = lists[g][c] /\ c = IF g = h /\ a >= i THEN a + 1 ELSE a
    BY <2>1
  <2>4. PICK d \in 1 .. Len(lists[k]) :
          lists'[k][b] = lists[k][d] /\ d = IF k = h /\ b >= i THEN b + 1 ELSE b
    BY <2>1
  <2>5. lists[g][c] = lists[k][d]
    BY <2>3, <2>4
  <2>6. g = k /\ c = d
    BY <2>2, <2>5
  <2> QED BY <2>3, <2>4, <2>6
<1>5. ASSUME NEW f \in Entry, Alone(f)' PROVE heap'.next[f] = f /\ heap'.prev[f] = f
  <2>1. f \in valid /\ f # e /\ f \in Node
    BY <1>5 DEF Alone, Node
  <2>2. \A g \in ListHead : f \notin Elems(lists[g])
    <3>1. \A g \in ListHead : f \notin Elems(lists'[g])
      BY <1>5 DEF Alone, Listed
    <3>2. f \notin Elems(s)
      BY <1>t, <1>u, <2>1, <3>1
    <3> QED BY <1>u, <3>1, <3>2 DEF s
  <2>3. f # p /\ f # n
    BY <1>p, <2>2, OneList DEF s
  <2>4. Alone(f)
    BY <2>1, <2>2 DEF Alone, Listed
  <2> QED BY <1>1, <2>1, <2>3, <2>4 DEF IInv, Represents
<1> QED BY <1>1, <1>2, <1>3, <1>4, <1>5 DEF Kept, Represents

(* Freeing a client, when no walk is in progress. *)
LEMMA FreeIInv ==
  ASSUME IInv, NEW e \in Entry, transocks_client_free(e)
  PROVE  IInv'
<1>1. ~Walking /\ Delete(e) /\ walk' = walk
  BY DEF transocks_client_free
<1>2. Kept'
  BY <1>1, DeleteAlone, DeleteListed DEF Delete
<1>3. ~Walking'
  BY <1>1 DEF Walking
<1>4. TypeOK'
  BY <1>1, <1>2 DEF IInv, TypeOK, Kept
<1> QED BY <1>2, <1>3, <1>4 DEF IInv, Kept, WalkIsExact, WalkInList

-----------------------------------------------------------------------------
(* Where the saved successor of a walk leads.  s is the list as the walk   *)
(* found it, k + 1 of its entries are done with, and c, the list as it is  *)
(* now, ends with the others.                                              *)
LEMMA Successor ==
  ASSUME NEW h \in ListHead, NEW s \in Seq(Entry), NEW c \in Seq(Entry),
         NEW k \in Nat, k < Len(s), NEW m \in Nat,
         Rest(c, m, s, k + 1),
         NEW nx, NEW pv, Links(h, c, nx, pv), NEW n, n = Ring(h, s, k + 2)
  PROVE  /\ n \in {h} \cup Elems(c) /\ nx[n] \in {h} \cup Elems(c)
         /\ k + 1 < Len(s) => nx[n] = Ring(h, s, k + 3)
<1>0. Len(s) \in Nat /\ Len(c) \in Nat /\ Len(c) = m + (Len(s) - (k + 1))
  BY DEF Rest
<1>r. \A j \in 1 .. Len(s) - (k + 1) : c[m + j] = s[(k + 1) + j]
  BY DEF Rest
<1>1. CASE k + 1 < Len(s)
  <2>1. 1 \in 1 .. Len(s) - (k + 1) /\ m + 1 \in 0 .. Len(c) /\ m + 1 \in 1 .. Len(c)
    BY <1>0, <1>1
  <2>2. n = s[(k + 1) + 1] /\ c[m + 1] = s[(k + 1) + 1] /\ Ring(h, c, m + 1) = c[m + 1]
    <3>1. k + 2 \in 1 .. Len(s) /\ (k + 1) + 1 = k + 2
      BY <1>0, <1>1
    <3>2. n = s[k + 2]
      BY <3>1 DEF Ring
    <3>3. c[m + 1] = s[(k + 1) + 1]
      BY <1>r, <2>1
    <3>4. Ring(h, c, m + 1) = c[m + 1]
      BY <2>1 DEF Ring
    <3> QED BY <3>1, <3>2, <3>3, <3>4
  <2>3. nx[n] = Ring(h, c, (m + 1) + 1)
    <3>1. nx[Ring(h, c, m + 1)] = Ring(h, c, (m + 1) + 1)
      BY <2>1 DEF Links
    <3> QED BY <2>2, <3>1
  <2>4. Ring(h, c, (m + 1) + 1) = Ring(h, s, k + 3)
    <3>1. CASE k + 2 < Len(s)
      <4>1. /\ 2 \in 1 .. Len(s) - (k + 1) /\ (m + 1) + 1 \in 1 .. Len(c)
            /\ k + 3 \in 1 .. Len(s) /\ (m + 1) + 1 = m + 2 /\ (k + 1) + 2 = k + 3
        BY <1>0, <3>1
      <4>2. c[m + 2] = s[(k + 1) + 2]
        BY <1>r, <4>1
      <4> QED BY <4>1, <4>2 DEF Ring
    <3>2. CASE k + 2 >= Len(s)
      <4>1. (m + 1) + 1 \notin 1 .. Len(c) /\ k + 3 \notin 1 .. Len(s)
        BY <1>0, <1>1, <3>2
      <4> QED BY <4>1 DEF Ring
    <3> QED BY <1>0, <3>1, <3>2
  <2>5. n \in Elems(c)
    BY <2>1, <2>2 DEF Elems
  <2>6. Ring(h, c, (m + 1) + 1) \in {h} \cup Elems(c)
    BY RingNodes
  <2> QED BY <2>3, <2>4, <2>5, <2>6
<1>2. CASE k + 1 = Len(s)
  <2>1. n = h
    BY <1>0, <1>2 DEF Ring
  <2>2. Ring(h, c, 0) = h /\ 0 \in 0 .. Len(c)
    BY <1>0 DEF Ring
  <2>3. nx[Ring(h, c, 0)] = Ring(h, c, 0 + 1)
    BY <2>2 DEF Links
  <2>4. Ring(h, c, 0 + 1) \in {h} \cup Elems(c)
    BY RingNodes
  <2> QED BY <1>2, <2>1, <2>2, <2>3, <2>4
<1> QED BY <1>0, <1>1, <1>2

(* The two ways a turn of the loop uses up one entry. *)
LEMMA RestLeft ==
  ASSUME NEW c \in Seq(Entry), NEW s \in Seq(Entry), NEW m \in Nat, NEW k \in Nat,
         k < Len(s), Rest(c, m, s, k)
  PROVE  Rest(c, m + 1, s, k + 1) /\ m + 1 \in 1 .. Len(c) /\ c[m + 1] = s[k + 1]
<1>1. Len(s) \in Nat /\ Len(c) = m + (Len(s) - k)
  BY DEF Rest
<1>2. ASSUME NEW j \in 1 .. Len(s) - (k + 1) PROVE c[(m + 1) + j] = s[(k + 1) + j]
  <2>1. /\ j + 1 \in 1 .. Len(s) - k
        /\ m + (j + 1) = (m + 1) + j /\ k + (j + 1) = (k + 1) + j
    BY <1>1
  <2>2. c[m + (j + 1)] = s[k + (j + 1)]
    BY <2>1 DEF Rest
  <2> QED BY <2>1, <2>2
<1>3. Len(c) = (m + 1) + (Len(s) - (k + 1)) /\ 1 \in 1 .. Len(s) - k /\ m + 1 \in 1 .. Len(c)
  BY <1>1
<1>4. c[m + 1] = s[k + 1]
  BY <1>3 DEF Rest
<1> QED BY <1>2, <1>3, <1>4 DEF Rest

LEMMA RestFreed ==
  ASSUME NEW c \in Seq(Entry), NEW s \in Seq(Entry), NEW m \in Nat, NEW k \in Nat,
         k < Len(s), Rest(c, m, s, k), Unique(c)
  PROVE  Rest(Without(c, m + 1), m, s, k + 1)
<1>1. Len(s) \in Nat /\ Len(c) \in Nat /\ Len(c) = m + (Len(s) - k)
  BY DEF Rest
<1>2. m + 1 \in 1 .. Len(c)
  BY <1>1
<1>3. /\ Len(Without(c, m + 1)) = Len(c) - 1
      /\ \A i \in 1 .. Len(c) - 1 :
           Without(c, m + 1)[i] = IF i < m + 1 THEN c[i] ELSE c[i + 1]
  BY <1>2, WithoutElems
<1>4. ASSUME NEW j \in 1 .. Len(s) - (k + 1)
      PROVE  Without(c, m + 1)[m + j] = s[(k + 1) + j]
  <2>1. /\ m + j \in 1 .. Len(c) - 1 /\ ~(m + j < m + 1)
        /\ j + 1 \in 1 .. Len(s) - k
        /\ (m + j) + 1 = m + (j + 1) /\ (k + 1) + j = k + (j + 1)
    BY <1>1
  <2>2. Without(c, m + 1)[m + j] = c[(m + j) + 1]
    BY <1>3, <2>1
  <2>3. c[m + (j + 1)] = s[k + (j + 1)]
    BY <2>1 DEF Rest
  <2> QED BY <2>1, <2>2, <2>3
<1>5. Len(Without(c, m + 1)) = m + (Len(s) - (k + 1))
  BY <1>1, <1>3
<1> QED BY <1>4, <1>5 DEF Rest

LEMMA SeenGrows ==
  ASSUME NEW s \in Seq(Entry), NEW k \in Nat, k < Len(s)
  PROVE  /\ Append(SubSeq(s, 1, k), s[k + 1]) = SubSeq(s, 1, k + 1)
         /\ SubSeq(s, 1, k + 1) \in Seq(Entry) /\ Len(SubSeq(s, 1, k + 1)) = k + 1
OBVIOUS

(* What the invariant says of a walk whose cursor is on a client. *)
LEMMA AtClient ==
  ASSUME IInv, Walking, walk.pos # walk.head
  PROVE  /\ walk \in [on : {TRUE}, head : ListHead, pos : Node, n : Node,
                      seen : Seq(Entry), start : Seq(Entry)]
         /\ Len(walk.seen) \in Nat /\ Len(walk.seen) < Len(walk.start)
         /\ walk.seen = SubSeq(walk.start, 1, Len(walk.seen))
         /\ walk.pos = walk.start[Len(walk.seen) + 1] /\ walk.pos \in Entry
         /\ walk.pos \in valid
         /\ walk.n = Ring(walk.head, walk.start, Len(walk.seen) + 2)
<1>1. walk \in [on : {TRUE}, head : ListHead, pos : Node, n : Node,
                seen : Seq(Entry), start : Seq(Entry)]
  <2>1. walk # NoWalk
    BY DEF Walking, NoWalk
  <2> QED BY <2>1 DEF IInv, TypeOK
<1>2. Len(walk.seen) \in Nat /\ Len(walk.start) \in Nat
  BY <1>1
<1>3. /\ Len(walk.seen) <= Len(walk.start)
      /\ walk.seen = SubSeq(walk.start, 1, Len(walk.seen))
      /\ walk.pos = Ring(walk.head, walk.start, Len(walk.seen) + 1)
      /\ Len(walk.seen) < Len(walk.start) =>
           walk.n = Ring(walk.head, walk.start, Len(walk.seen) + 2)
      /\ walk.pos \in valid
  BY DEF IInv, WalkIsExact
<1>4. Len(walk.seen) + 1 \in 1 .. Len(walk.start)
  BY <1>2, <1>3 DEF Ring
<1>5. walk.pos = walk.start[Len(walk.seen) + 1] /\ walk.pos \in Entry
  BY <1>1, <1>3, <1>4 DEF Ring
<1>6. Len(walk.seen) < Len(walk.start)
  BY <1>2, <1>4
<1>7. walk.n = Ring(walk.head, walk.start, Len(walk.seen) + 2)
  BY <1>3, <1>6
<1> QED BY <1>1, <1>2, <1>3, <1>5, <1>6, <1>7, Zenon

(* One turn of the loop, whatever the body did, provided the entries still *)
(* to be visited are the end of the list it left behind.                   *)
LEMMA TurnIInv ==
  ASSUME IInv, Walking, walk.pos # walk.head, Kept',
         walk' = list_for_each_entry_safe(heap'), walk.head \in valid',
         NEW m \in Nat, Rest(lists'[walk.head], m, walk.start, Len(walk.seen) + 1)
  PROVE  IInv'
<1> DEFINE h == walk.head
           s == walk.start
           k == Len(walk.seen)
           n == walk.n
           c == lists'[h]
<1>0. /\ h \in ListHead /\ s \in Seq(Entry) /\ n \in Node /\ walk.seen = SubSeq(s, 1, k)
      /\ k \in Nat /\ k < Len(s) /\ n = Ring(h, s, k + 2)
      /\ walk.pos = s[k + 1] /\ walk.pos \in Entry /\ Len(s) \in Nat
  BY AtClient
<1>1. walk' = [on |-> TRUE, head |-> h, pos |-> n, n |-> heap'.next[n],
               seen |-> Append(walk.seen, walk.pos), start |-> s]
  BY AtClient DEF list_for_each_entry_safe
<1>2. /\ c \in Seq(Entry) /\ h \in valid' /\ Elems(c) \subseteq valid' /\ valid' \subseteq Node
      /\ Links(h, c, heap'.next, heap'.prev)
  BY <1>0 DEF Kept, Represents, HeadsValid
<1>3. Rest(c, m, s, k + 1) /\ Links(h, c, heap'.next, heap'.prev)
  BY <1>2
<1> HIDE DEF h, s, k, n, c
<1>4. /\ n \in {h} \cup Elems(c) /\ heap'.next[n] \in {h} \cup Elems(c)
      /\ k + 1 < Len(s) => heap'.next[n] = Ring(h, s, k + 3)
  BY <1>0, <1>2, <1>3, Successor, SMTT(30)
<1>5. n \in valid' /\ heap'.next[n] \in valid' /\ n \in Node /\ heap'.next[n] \in Node
  BY <1>2, <1>4
<1>6. /\ walk'.on = TRUE /\ walk'.head = h /\ walk'.pos = n /\ walk'.n = heap'.next[n]
      /\ walk'.seen = SubSeq(s, 1, k + 1) /\ walk'.start = s
      /\ Len(walk'.seen) = k + 1 /\ walk'.seen \in Seq(Entry)
  <2>1. Append(walk.seen, walk.pos) = SubSeq(s, 1, k + 1)
    BY <1>0, SeenGrows
  <2>2. SubSeq(s, 1, k + 1) \in Seq(Entry) /\ Len(SubSeq(s, 1, k + 1)) = k + 1
    BY <1>0, SeenGrows
  <2> QED BY <1>1, <2>1, <2>2
<1>7. TypeOK'
  <2>1. walk' \in [on : {TRUE}, head : ListHead, pos : Node, n : Node,
                   seen : Seq(Entry), start : Seq(Entry)]
    BY <1>0, <1>1, <1>5, <1>6
  <2> QED BY <2>1 DEF TypeOK, Kept
<1>8. WalkIsExact'
  <2>1. k + 1 <= Len(s)
    BY <1>0
  <2>2. n = Ring(h, s, (k + 1) + 1)
    <3>1. (k + 1) + 1 = k + 2
      BY <1>0
    <3> QED BY <1>0, <3>1
  <2>3. k + 1 < Len(s) => heap'.next[n] = Ring(h, s, (k + 1) + 2)
    <3>1. (k + 1) + 2 = k + 3
      BY <1>0
    <3> QED BY <1>4, <3>1
  <2> QED BY <1>5, <1>6, <2>1, <2>2, <2>3 DEF WalkIsExact
<1>9. WalkInList'
  <2>1. lists'[walk'.head] = c
    BY <1>6 DEF c, h
  <2>2. m \in 0 .. Len(c)
    BY <1>0, <1>2, <1>3 DEF Rest
  <2>3. Rest(lists'[walk'.head], m, walk'.start, Len(walk'.seen))
    BY <1>3, <1>6, <2>1
  <2> QED BY <1>2, <1>6, <2>1, <2>2, <2>3 DEF WalkInList
<1> QED BY <1>7, <1>8, <1>9 DEF IInv, Kept

(* The walk inside the list: the cursor's client is entry m + 1 of it. *)
LEMMA CursorInList ==
  ASSUME IInv, Walking, walk.pos # walk.head
  PROVE  \E m \in Nat : /\ Rest(lists[walk.head], m, walk.start, Len(walk.seen))
                       /\ Rest(lists[walk.head], m + 1, walk.start, Len(walk.seen) + 1)
                       /\ Rest(Without(lists[walk.head], m + 1), m, walk.start,
                               Len(walk.seen) + 1)
                       /\ m + 1 \in 1 .. Len(lists[walk.head])
                       /\ lists[walk.head][m + 1] = walk.pos
<1> DEFINE c == lists[walk.head]
           s == walk.start
           k == Len(walk.seen)
<1>1. /\ c \in Seq(Entry) /\ s \in Seq(Entry) /\ k \in Nat /\ k < Len(s)
      /\ walk.pos = s[k + 1] /\ Unique(c) /\ Len(c) \in Nat
  BY AtClient, OneList
<1>2. PICK m \in 0 .. Len(c) : Rest(c, m, s, k)
  BY DEF IInv, WalkInList
<1> HIDE DEF c, s, k
<1>3. m \in Nat
  BY <1>1
<1>4. Rest(c, m + 1, s, k + 1) /\ m + 1 \in 1 .. Len(c) /\ c[m + 1] = s[k + 1]
  BY <1>1, <1>2, <1>3, RestLeft
<1>5. Rest(Without(c, m + 1), m, s, k + 1)
  BY <1>1, <1>2, <1>3, RestFreed
<1> QED BY <1>1, <1>2, <1>3, <1>4, <1>5 DEF c, s, k

(* The body leaves its client alone. *)
LEMMA LeaveIInv ==
  ASSUME IInv, body_leaves
  PROVE  IInv'
<1>1. /\ Walking /\ walk.pos # walk.head /\ heap' = heap /\ valid' = valid
      /\ lists' = lists /\ walk' = list_for_each_entry_safe(heap')
  BY DEF body_leaves
<1>2. Kept'
  BY <1>1, KeptSame
<1>3. PICK m \in Nat : Rest(lists[walk.head], m + 1, walk.start, Len(walk.seen) + 1)
  BY <1>1, CursorInList
<1>4. m + 1 \in Nat /\ Rest(lists'[walk.head], m + 1, walk.start, Len(walk.seen) + 1)
  BY <1>1, <1>3
<1>5. walk.head \in valid'
  BY <1>1 DEF IInv, WalkInList
<1> QED BY <1>1, <1>2, <1>4, <1>5, TurnIInv

(* The body frees its client. *)
LEMMA FreeInWalkIInv ==
  ASSUME IInv, body_frees
  PROVE  IInv'
<1>1. /\ Walking /\ walk.pos # walk.head /\ Delete(walk.pos)
      /\ walk' = list_for_each_entry_safe(heap')
  BY DEF body_frees
<1>2. walk.pos \in Entry /\ walk.pos \in valid /\ walk.head \in ListHead
  BY <1>1, AtClient
<1>3. Kept'
  BY <1>1, <1>2, DeleteAlone, DeleteListed DEF Delete
<1>4. PICK m \in Nat : /\ Rest(Without(lists[walk.head], m + 1), m, walk.start,
                               Len(walk.seen) + 1)
                      /\ m + 1 \in 1 .. Len(lists[walk.head])
                      /\ lists[walk.head][m + 1] = walk.pos
  BY <1>1, CursorInList
<1>5. lists'[walk.head] = Without(lists[walk.head], m + 1)
  <2>1. ~Alone(walk.pos)
    BY <1>2, <1>4 DEF Alone, Listed, Elems
  <2>2. PICK h \in ListHead : \E i \in 1 .. Len(lists[h]) :
          /\ lists[h][i] = walk.pos
          /\ lists' = [lists EXCEPT ![h] = Without(@, i)]
    BY <1>1, <2>1 DEF Delete
  <2>3. PICK i \in 1 .. Len(lists[h]) :
          /\ lists[h][i] = walk.pos
          /\ lists' = [lists EXCEPT ![h] = Without(@, i)]
    BY <2>2
  <2>4. h = walk.head /\ i = m + 1
    <3>1. Disjoint
      BY DEF IInv, Represents
    <3>2. lists[h][i] = lists[walk.head][m + 1]
      BY <1>4, <2>3
    <3> QED BY <1>2, <1>4, <3>1, <3>2 DEF Disjoint
  <2> QED BY <1>2, <2>3, <2>4, HeapType
<1>6. Rest(lists'[walk.head], m, walk.start, Len(walk.seen) + 1)
  BY <1>4, <1>5
<1>7. walk.head \in valid'
  BY <1>1, <1>2, NodesAssumption DEF IInv, WalkInList, Delete
<1> QED BY <1>1, <1>3, <1>6, <1>7, TurnIInv

(* A walk begins with its cursor on the first client. *)
LEMMA StartIInv ==
  ASSUME IInv, NEW h \in ListHead, transocks_drop_all_clients(h)
  PROVE  IInv'
<1> DEFINE s == lists[h]
           pos == heap.next[h]
           n == heap.next[pos]
<1>1. /\ walk' = [on |-> TRUE, head |-> h, pos |-> pos, n |-> n,
                  seen |-> <<>>, start |-> s]
      /\ heap' = heap /\ valid' = valid /\ lists' = lists
  BY DEF transocks_drop_all_clients
<1>2. /\ s \in Seq(Entry) /\ Links(h, s, heap.next, heap.prev)
      /\ {h} \cup Elems(s) \subseteq valid /\ valid \subseteq Node /\ Len(s) \in Nat
  BY OneList, HeapType DEF transocks_drop_all_clients
<1> HIDE DEF s
<1>3. pos = Ring(h, s, 1)
  <2>1. heap.next[Ring(h, s, 0)] = Ring(h, s, 0 + 1) /\ Ring(h, s, 0) = h
    BY <1>2 DEF Links, Ring
  <2> QED BY <2>1
<1>4. /\ 0 < Len(s) => n = Ring(h, s, 2)
      /\ n \in {h} \cup Elems(s)
  <2>1. CASE 0 < Len(s)
    <3>1. heap.next[Ring(h, s, 1)] = Ring(h, s, 1 + 1)
      BY <1>2, <2>1 DEF Links
    <3>2. n = Ring(h, s, 2)
      BY <1>3, <3>1
    <3> QED BY <1>2, <3>2, RingNodes
  <2>2. CASE Len(s) = 0
    <3>1. pos = h /\ n = h
      BY <1>3, <2>2 DEF Ring
    <3> QED BY <2>2, <3>1
  <2>3. Len(s) = 0 \/ 0 < Len(s)
    BY <1>2
  <2> QED BY <2>1, <2>2, <2>3
<1>5. pos \in {h} \cup Elems(s)
  BY <1>2, <1>3, RingNodes
<1> HIDE DEF pos, n
<1>6. /\ walk'.on = TRUE /\ walk'.head = h /\ walk'.pos = pos /\ walk'.n = n
      /\ walk'.seen = <<>> /\ walk'.start = s
  BY <1>1
<1>7. TypeOK'
  <2>1. walk' \in [on : {TRUE}, head : ListHead, pos : Node, n : Node,
                   seen : Seq(Entry), start : Seq(Entry)]
    <3>1. pos \in Node /\ n \in Node /\ <<>> \in Seq(Entry)
      BY <1>2, <1>4, <1>5
    <3> QED BY <1>1, <1>2, <3>1
  <2> QED BY <1>1, <2>1 DEF IInv, TypeOK
<1>8. WalkIsExact'
  <2>1. Len(walk'.seen) = 0 /\ SubSeq(s, 1, 0) = <<>>
    BY <1>2, <1>6
  <2>2. Ring(h, s, 0 + 1) = pos /\ (0 < Len(s) => n = Ring(h, s, 0 + 2)) /\ 0 <= Len(s)
    BY <1>2, <1>3, <1>4
  <2>3. {pos, n} \subseteq valid'
    BY <1>1, <1>2, <1>4, <1>5
  <2> QED BY <1>6, <2>1, <2>2, <2>3 DEF WalkIsExact
<1>9. WalkInList'
  <2>1. Len(walk'.seen) = 0 /\ lists'[walk'.head] = s
    BY <1>1, <1>6 DEF s
  <2>2. Rest(s, 0, s, 0) /\ 0 \in 0 .. Len(s)
    BY <1>2 DEF Rest
  <2>3. Rest(lists'[walk'.head], 0, walk'.start, Len(walk'.seen))
    BY <1>6, <2>1, <2>2
  <2> QED BY <1>1, <1>2, <1>6, <2>1, <2>2, <2>3 DEF WalkInList
<1>10. HeadsValid' /\ Represents'
  BY <1>1, KeptSame DEF Kept
<1> QED BY <1>7, <1>8, <1>9, <1>10 DEF IInv

LEMMA EndIInv ==
  ASSUME IInv, walk_ends
  PROVE  IInv'
<1>1. walk' = NoWalk /\ heap' = heap /\ valid' = valid /\ lists' = lists
  BY DEF walk_ends
<1>2. ~Walking'
  BY <1>1 DEF Walking, NoWalk
<1>3. TypeOK' /\ HeadsValid' /\ Represents'
  BY <1>1, KeptSame DEF Kept, TypeOK
<1> QED BY <1>2, <1>3 DEF IInv, WalkIsExact, WalkInList

LEMMA NextIInv ==
  ASSUME IInv, [Next]_vars
  PROVE  IInv'
<1>1. CASE Next
  BY <1>1, NewIInv, FreeIInv, AddIInv, StartIInv, FreeInWalkIInv, LeaveIInv, EndIInv
     DEF Next, WalkStep
<1>2. CASE UNCHANGED vars
  <2>1. heap' = heap /\ valid' = valid /\ lists' = lists /\ walk' = walk
    BY <1>2 DEF vars
  <2>2. TypeOK' /\ HeadsValid'
    BY <2>1 DEF IInv, TypeOK, HeadsValid
  <2>3. Represents'
    BY <2>1, KeptSame DEF Kept
  <2>4. WalkIsExact'
    BY <2>1 DEF IInv, WalkIsExact, Walking
  <2>5. WalkInList'
    BY <2>1 DEF IInv, WalkInList, Walking
  <2> QED BY <2>2, <2>3, <2>4, <2>5 DEF IInv
<1> QED BY <1>1, <1>2

(***************************************************************************)
(* list_add_tail and list_del, used the way listener.c and context.c use   *)
(* them, keep the pointers a faithful image of the client list, however    *)
(* many clients come and go and whether or not the list is being walked.   *)
(***************************************************************************)
THEOREM HeapRepresentsLists == Spec => []Represents
<1>1. Init => IInv
  BY InitIInv
<1>2. IInv /\ [Next]_vars => IInv'
  BY NextIInv
<1>3. IInv => Represents
  BY DEF IInv
<1> QED BY <1>1, <1>2, <1>3, PTL DEF Spec

(***************************************************************************)
(* list_for_each_entry_safe in transocks_drop_all_clients visits each      *)
(* client of the list once, in order, and never steps on a freed one,      *)
(* whichever of the clients the body frees.                                *)
(***************************************************************************)
THEOREM WalkVisitsAll == Spec => []WalkIsExact
<1>1. Init => IInv
  BY InitIInv
<1>2. IInv /\ [Next]_vars => IInv'
  BY NextIInv
<1>3. IInv => WalkIsExact
  BY DEF IInv
<1> QED BY <1>1, <1>2, <1>3, PTL DEF Spec

(* Clients the walk has still to come to. *)
Ahead == Len(walk.start) - Len(walk.seen)

(* A step of the walk: one more client is behind it, or none was ahead and *)
(* the loop is left.                                                       *)
OneTurn ==
  \/ Walking' /\ Ahead > 0 /\ Ahead' = Ahead - 1
  \/ ~Walking' /\ Ahead = 0

(* The cursor is back at the head only after the last client. *)
LEMMA AtHead ==
  ASSUME IInv, Walking, walk.pos = walk.head
  PROVE  Ahead = 0
<1>1. walk \in [on : {TRUE}, head : ListHead, pos : Node, n : Node,
                seen : Seq(Entry), start : Seq(Entry)]
  <2>1. walk # NoWalk
    BY DEF Walking, NoWalk
  <2> QED BY <2>1 DEF IInv, TypeOK
<1>2. /\ Len(walk.seen) \in Nat /\ Len(walk.start) \in Nat
      /\ Len(walk.seen) <= Len(walk.start)
      /\ walk.pos = Ring(walk.head, walk.start, Len(walk.seen) + 1)
  BY <1>1 DEF IInv, WalkIsExact
<1>3. \A i \in 1 .. Len(walk.start) : walk.start[i] # walk.head
  BY <1>1, NodesAssumption
<1>4. ~(Len(walk.seen) < Len(walk.start))
  BY <1>2, <1>3 DEF Ring
<1> QED BY <1>2, <1>4 DEF Ahead

(***************************************************************************)
(* Once transocks_drop_all_clients has started its walk, the body of the   *)
(* loop runs exactly once for each client that was on the list then: every *)
(* step takes one off what is ahead, and the loop is left with none ahead. *)
(* This bounds the walk, whichever of the clients the body frees.          *)
(***************************************************************************)
THEOREM WalkAdvances == Spec => [][Walking => OneTurn]_vars
<1>1. ASSUME IInv, Next, Walking PROVE OneTurn
  <2>1. WalkStep
    BY <1>1 DEF Next, transocks_client_new, transocks_client_free, listener_cb_adds,
                transocks_drop_all_clients
  <2>2. CASE walk_ends
    BY <1>1, <2>2, AtHead DEF walk_ends, NoWalk, Walking, OneTurn
  <2>3. CASE body_frees \/ body_leaves
    <3>1. walk.pos # walk.head /\ \E hp : walk' = list_for_each_entry_safe(hp)
      BY <2>3 DEF body_frees, body_leaves
    <3>2. /\ walk \in [on : {TRUE}, head : ListHead, pos : Node, n : Node,
                        seen : Seq(Entry), start : Seq(Entry)]
          /\ Len(walk.seen) \in Nat /\ Len(walk.seen) < Len(walk.start)
          /\ walk.pos \in Entry
      BY <1>1, <3>1, AtClient, Zenon
    <3>3. /\ walk'.on = walk.on /\ walk'.start = walk.start
          /\ walk'.seen = Append(walk.seen, walk.pos)
      BY <3>1, <3>2 DEF list_for_each_entry_safe
    <3>4. Len(walk'.seen) = Len(walk.seen) + 1 /\ Len(walk.start) \in Nat
      BY <3>2, <3>3
    <3> QED BY <1>1, <3>2, <3>3, <3>4 DEF Ahead, Walking, OneTurn
  <2> QED BY <2>1, <2>2, <2>3 DEF WalkStep
<1>2. IInv /\ [Next]_vars => [Walking => OneTurn]_vars
  BY <1>1
<1>3. Spec => []IInv
  <2>1. Init => IInv
    BY InitIInv
  <2>2. IInv /\ [Next]_vars => IInv'
    BY NextIInv
  <2> QED BY <2>1, <2>2, PTL DEF Spec
<1> QED BY <1>2, <1>3, PTL DEF Spec
=============================================================================
