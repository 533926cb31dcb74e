----------------------------- MODULE ClientList -----------------------------
(***************************************************************************)
(* The list of current clients: how context.c and listener.c use list.h.   *)
(* A client is linked to itself when it is allocated, joins the tail of    *)
(* the list when it is accepted, and leaves it, with poisoned pointers,    *)
(* when it is freed, possibly by the walk of transocks_drop_all_clients    *)
(* over that very list.  The other modules keep the list as a sequence;    *)
(* lists is that sequence, and heap the pointers that stand for it.        *)
(***************************************************************************)
EXTENDS Naturals, Sequences, List

CONSTANTS ListHead,  \* the list heads (the proxy has one, in its environment)
          Entry      \* the list entries, one in each client

ASSUME NodesAssumption ==
  ListHead \cap Entry = {} /\ LIST_POISON1 \notin ListHead \cup Entry
                       /\ LIST_POISON2 \notin ListHead \cup Entry

VARIABLES
  heap,    \* next and prev of every node
  valid,   \* nodes whose pointers are initialised and not poisoned or stale
  lists,   \* what each list holds, in order (reference)
  walk     \* the walk in progress: its cursor, saved successor and history

vars == <<heap, valid, lists, walk>>

Node == ListHead \cup Entry

Pointer == Node \cup {LIST_POISON1, LIST_POISON2}

NoWalk == [on |-> FALSE]

Walking == walk.on

\* the elements of a sequence
Elems(s) == {s[i] : i \in 1 .. Len(s)}

Listed(e) == \E h \in ListHead : e \in Elems(lists[h])

\* initialised, and on no list
Alone(e) == e \in valid /\ ~Listed(e)

\* a sequence without its i-th element
Without(s, i) == [j \in 1 .. Len(s) - 1 |-> IF j < i THEN s[j] ELSE s[j + 1]]

Init ==
  /\ heap = [next |-> [n \in Node |-> IF n \in ListHead THEN n ELSE LIST_POISON1],
             prev |-> [n \in Node |-> IF n \in ListHead THEN n ELSE LIST_POISON2]]
  /\ valid = ListHead
  /\ lists = [h \in ListHead |-> <<>>]
  /\ walk = NoWalk

-----------------------------------------------------------------------------
transocks_client_new(e) ==
  /\ ~Walking
  /\ e \in Entry \ valid
  /\ heap' = INIT_LIST_HEAD(heap, e)
  /\ valid' = valid \cup {e}
  /\ UNCHANGED <<lists, walk>>

listener_cb_adds(e, h) ==
  /\ ~Walking
  /\ e \in Entry /\ Alone(e) /\ h \in valid
  /\ heap' = list_add_tail(heap, e, h)
  /\ lists' = [lists EXCEPT ![h] = Append(@, e)]
  /\ UNCHANGED <<valid, walk>>

\* list_del: of an entry of the list, or of one that never joined it
Delete(e) ==
  /\ heap' = list_del(heap, e)
  /\ valid' = valid \ {e}
  /\ \/ Alone(e) /\ UNCHANGED lists
     \/ \E h \in ListHead : \E i \in 1 .. Len(lists[h]) :
          /\ lists[h][i] = e
          /\ lists' = [lists EXCEPT ![h] = Without(@, i)]

transocks_client_free(e) ==
  /\ ~Walking
  /\ e \in Entry \cap valid
  /\ Delete(e)
  /\ UNCHANGED walk

-----------------------------------------------------------------------------
(***************************************************************************)
(* list_for_each_entry_safe: the successor of the cursor is saved before   *)
(* the body runs.  The body of transocks_drop_all_clients frees the client *)
(* at the cursor, or leaves it (the splice pump does, before it starts).   *)
(***************************************************************************)
transocks_drop_all_clients(h) ==
  /\ ~Walking
  /\ h \in valid
  /\ LET pos == heap.next[h] IN
     walk' = [on |-> TRUE, head |-> h, pos |-> pos, n |-> heap.next[pos],
              seen |-> <<>>, start |-> lists[h]]
  /\ UNCHANGED <<heap, valid, lists>>

\* mutant: the cursor follows its own next pointer after the body, as in
\* list_for_each_entry
StepUnsafe(hp) ==
  [walk EXCEPT !.pos = hp.next[walk.pos], !.seen = Append(@, walk.pos)]

\* mutant: the head is taken for one more entry and stepped over
StepRound(hp) ==
  LET pos == IF walk.n = walk.head THEN hp.next[walk.n] ELSE walk.n
  IN  [walk EXCEPT !.pos = pos, !.n = hp.next[pos]]

\* pos = n, n = n->next
list_for_each_entry_safe(hp) ==
  [walk EXCEPT !.pos = walk.n, !.n = hp.next[walk.n],
               !.seen = Append(@, walk.pos)]

body_frees ==
  /\ Walking /\ walk.pos # walk.head
  /\ Delete(walk.pos)
  /\ walk' = list_for_each_entry_safe(heap')

body_leaves ==
  /\ Walking /\ walk.pos # walk.head
  /\ walk' = list_for_each_entry_safe(heap)
  /\ UNCHANGED <<heap, valid, lists>>

\* the cursor is back at the head: the loop is left
walk_ends ==
  /\ Walking /\ walk.pos = walk.head
  /\ walk' = NoWalk
  /\ UNCHANGED <<heap, valid, lists>>

WalkStep == body_frees \/ body_leaves \/ walk_ends

Next ==
  \/ \E e \in Entry : transocks_client_new(e) \/ transocks_client_free(e)
  \/ \E e \in Entry, h \in ListHead : listener_cb_adds(e, h)
  \/ \E h \in ListHead : transocks_drop_all_clients(h)
  \/ WalkStep

Spec == Init /\ [][Next]_vars

FairSpec == Spec /\ WF_vars(WalkStep)

-----------------------------------------------------------------------------
TypeOK ==
  /\ heap \in [next : [Node -> Pointer], prev : [Node -> Pointer]]
  /\ valid \subseteq Node
  /\ lists \in [ListHead -> Seq(Entry)]
  /\ walk = NoWalk \/ walk \in [on : {TRUE}, head : ListHead, pos : Node, n : Node,
                                seen : Seq(Entry), start : Seq(Entry)]

\* the i-th node met from h when it holds s: h itself, then s, then h again
Ring(h, s, i) == IF i \in 1 .. Len(s) THEN s[i] ELSE h

\* next leads from h through s and back to h, prev the same way backwards
Links(h, s, next, prev) ==
  \A i \in 0 .. Len(s) : /\ next[Ring(h, s, i)] = Ring(h, s, i + 1)
                         /\ prev[Ring(h, s, i + 1)] = Ring(h, s, i)

\* no entry is on two lists, or twice on one
Disjoint ==
  \A g, h \in ListHead : \A i \in 1 .. Len(lists[g]), j \in 1 .. Len(lists[h]) :
    lists[g][i] = lists[h][j] => g = h /\ i = j

(***************************************************************************)
(* The pointers stand for the lists: from every head the next pointers     *)
(* visit its entries in order and come back, the prev pointers the same    *)
(* backwards; no entry is on two lists or twice on one; an entry on no     *)
(* list points to itself.  This is what lets the rest of the proxy treat   *)
(* the client list as a sequence, and a list_del of a client that never    *)
(* joined it as harmless (listener.c's error path frees such a client).    *)
(***************************************************************************)
Represents ==
  /\ \A h \in ListHead \cap valid :
       Elems(lists[h]) \subseteq valid /\ Links(h, lists[h], heap.next, heap.prev)
  /\ Disjoint
  /\ \A e \in Entry : Alone(e) => heap.next[e] = e /\ heap.prev[e] = e

(***************************************************************************)
(* A walk that deletes entries under its cursor still visits the list as   *)
(* it was when the walk began, each entry once and in order: the cursor    *)
(* and the saved successor are never a freed client.                       *)
(***************************************************************************)
WalkIsExact ==
  Walking =>
    LET s == walk.start
        k == Len(walk.seen)
    IN  /\ k <= Len(s)
        /\ walk.seen = SubSeq(s, 1, k)
        /\ walk.pos = Ring(walk.head, s, k + 1)
        /\ k < Len(s) => walk.n = Ring(walk.head, s, k + 2)
        /\ {walk.pos, walk.n} \subseteq valid

(***************************************************************************)
(* Every walk ends: SIGUSR1 and the shutdown path do not loop over a list  *)
(* they are taking apart.                                                  *)
(***************************************************************************)
WalkEnds == Walking ~> ~Walking
=============================================================================
