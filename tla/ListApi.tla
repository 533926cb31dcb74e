------------------------------ MODULE ListApi ------------------------------
(***************************************************************************)
(* The whole of list.h's list API, any sequence of legal calls of it: each *)
(* call is checked against what it means for the sequences the lists hold. *)
(* This extends ClientList to several lists and to nodes left stale:       *)
(* list_replace and list_splice leave pointers behind that belong to no    *)
(* list, and only INIT_LIST_HEAD makes such a node valid again.            *)
(***************************************************************************)
EXTENDS ClientList

Heads == ListHead \cap valid

\* the list and the place in it of a listed entry
ListOf(e) == CHOOSE h \in ListHead : e \in Elems(lists[h])
Index(e)  == CHOOSE i \in 1 .. Len(lists[ListOf(e)]) : lists[ListOf(e)][i] = e

\* the lists with entry e, if it is on one, taken out
Removed(e) ==
  IF Listed(e) THEN [lists EXCEPT ![ListOf(e)] = Without(@, Index(e))] ELSE lists

Replaced(old, new) == [lists EXCEPT ![ListOf(old)][Index(old)] = new]

\* one call: the heap and the lists after it, and the nodes valid then
Call(hp, ls, v) ==
  /\ ~Walking
  /\ heap' = hp /\ lists' = ls /\ valid' = v
  /\ UNCHANGED walk

Reinit(h) ==
  /\ h \notin valid
  /\ Call(INIT_LIST_HEAD(heap, h), lists, valid \cup {h})

Add(e, h) ==
  /\ h \in Heads /\ ~Listed(e)
  /\ Call(list_add(heap, e, h), [lists EXCEPT ![h] = <<e>> \o @], valid \cup {e})

DelInit(e) ==
  /\ e \in valid
  /\ Call(list_del_init(heap, e), Removed(e), valid)

\* new takes the place of old, whose own pointers stay as they were
Replace(old, new) ==
  /\ Listed(old) /\ ~Listed(new)
  /\ Call(list_replace(heap, old, new), Replaced(old, new), (valid \ {old}) \cup {new})

ReplaceInit(old, new) ==
  /\ Listed(old) /\ ~Listed(new)
  /\ Call(list_replace_init(heap, old, new), Replaced(old, new), valid \cup {new})

\* the entries of a list get another head
ReplaceHead(old, new) ==
  /\ old \in Heads /\ lists[new] = <<>> /\ old # new
  /\ Call(list_replace_init(heap, old, new),
          [lists EXCEPT ![new] = lists[old], ![old] = <<>>], valid \cup {new})

Move(e, h) ==
  /\ h \in Heads /\ Listed(e)
  /\ Call(list_move(heap, e, h), [Removed(e) EXCEPT ![h] = <<e>> \o @], valid)

MoveTail(e, h) ==
  /\ h \in Heads /\ Listed(e)
  /\ Call(list_move_tail(heap, e, h), [Removed(e) EXCEPT ![h] = Append(@, e)], valid)

\* entries i..j of list g move to the tail of list h, possibly g itself
BulkMoveTail(g, h, i, j) ==
  /\ {g, h} \subseteq Heads
  /\ LET s    == lists[g]
         rest == [lists EXCEPT ![g] = SubSeq(s, 1, i - 1) \o SubSeq(s, j + 1, Len(s))]
     IN  Call(list_bulk_move_tail(heap, h, s[i], s[j]),
              [rest EXCEPT ![h] = @ \o SubSeq(s, i, j)], valid)

RotateLeft(h) ==
  /\ h \in Heads
  /\ Call(list_rotate_left(heap, h),
          [lists EXCEPT ![h] = IF @ = <<>> THEN @ ELSE Append(Tail(@), Head(@))], valid)

\* the first i entries of list h become list g, which was empty or stale;
\* an empty list h leaves g untouched
CutPosition(g, h, i) ==
  /\ h \in Heads /\ g # h /\ lists[g] = <<>>
  /\ LET s == lists[h] IN
     Call(list_cut_position(heap, g, h, Ring(h, s, i)),
          [lists EXCEPT ![g] = SubSeq(s, 1, i), ![h] = SubSeq(s, i + 1, Len(s))],
          IF s = <<>> THEN valid ELSE valid \cup {g})

\* asked to cut a one-entry list at an entry it does not hold
CutElsewhere(g, h, e) ==
  /\ h \in Heads /\ g # h /\ lists[g] = <<>>
  /\ Len(lists[h]) = 1 /\ e \notin Elems(lists[h])
  /\ Call(list_cut_position(heap, g, h, e), lists, valid)

\* as CutPosition, the entry named being the first that stays; g is always
\* initialised
CutBefore(g, h, i) ==
  /\ h \in Heads /\ g # h /\ lists[g] = <<>>
  /\ LET s == lists[h] IN
     Call(list_cut_before(heap, g, h, Ring(h, s, i + 1)),
          [lists EXCEPT ![g] = SubSeq(s, 1, i), ![h] = SubSeq(s, i + 1, Len(s))],
          valid \cup {g})

\* the entries of list g join list h in front or at the tail; without
\* _init the head g keeps its old pointers
Splice(g, h) ==
  /\ {g, h} \subseteq Heads /\ g # h
  /\ LET front == [lists EXCEPT ![h] = lists[g] \o @, ![g] = <<>>]
         back  == [lists EXCEPT ![h] = @ \o lists[g], ![g] = <<>>]
         left  == IF lists[g] = <<>> THEN valid ELSE valid \ {g}
     IN  \/ Call(list_splice(heap, g, h), front, left)
         \/ Call(list_splice_tail(heap, g, h), back, left)
         \/ Call(list_splice_init(heap, g, h), front, valid)
         \/ Call(list_splice_tail_init(heap, g, h), back, valid)

ApiNext ==
  \/ Next
  \/ \E e \in Entry : DelInit(e)
  \/ \E h \in ListHead : Reinit(h) \/ RotateLeft(h)
  \/ \E e \in Entry, h \in ListHead : Add(e, h) \/ Move(e, h) \/ MoveTail(e, h)
  \/ \E old, new \in Entry : Replace(old, new) \/ ReplaceInit(old, new)
  \/ \E g, h \in ListHead :
       \/ ReplaceHead(g, h)
       \/ Splice(g, h)
       \/ \E e \in Entry : CutElsewhere(g, h, e)
       \/ \E i \in 0 .. Len(lists[h]) : CutPosition(g, h, i) \/ CutBefore(g, h, i)
       \/ \E j \in 1 .. Len(lists[g]) : \E i \in 1 .. j : BulkMoveTail(g, h, i, j)

ApiSpec == Init /\ [][ApiNext]_vars /\ WF_vars(WalkStep)

-----------------------------------------------------------------------------
(***************************************************************************)
(* The queries tell the truth about the sequences, stale nodes elsewhere   *)
(* notwithstanding: list_empty and list_empty_careful, list_is_singular,   *)
(* list_is_last.                                                           *)
(***************************************************************************)
QueriesAgree ==
  \A h \in Heads :
    /\ list_empty(heap, h) <=> lists[h] = <<>>
    /\ list_empty_careful(heap, h) <=> lists[h] = <<>>
    /\ list_is_singular(heap, h) <=> Len(lists[h]) = 1
    /\ \A e \in Elems(lists[h]) :
         list_is_last(heap, e, h) <=> lists[h][Len(lists[h])] = e
=============================================================================
