-------------------------------- MODULE List --------------------------------
(***************************************************************************)
(* The pointer operations of list.h, the doubly linked list the proxy      *)
(* keeps its clients on.  A heap h holds the two pointers of every         *)
(* struct list_head; an operation maps the heap before it to the heap      *)
(* after it, its assignments in the order of the code (the order matters   *)
(* when two of the nodes it names are the same).                           *)
(***************************************************************************)
LIST_POISON1 == "LIST_POISON1"
LIST_POISON2 == "LIST_POISON2"

INIT_LIST_HEAD(h, list) ==
  [next |-> [h.next EXCEPT ![list] = list],
   prev |-> [h.prev EXCEPT ![list] = list]]

\* the second pointer is linked, the back pointer forgotten
AddNoBackLink(h, new, prev, next) ==
  [next |-> [h.next EXCEPT ![new] = next, ![prev] = new],
   prev |-> [h.prev EXCEPT ![new] = prev]]

__list_add(h, new, prev, next) ==
  [next |-> [h.next EXCEPT ![new] = next, ![prev] = new],
   prev |-> [h.prev EXCEPT ![next] = new, ![new] = prev]]

list_add(h, new, head) == __list_add(h, new, head, h.next[head])

list_add_tail(h, new, head) == __list_add(h, new, h.prev[head], head)

__list_del(h, prev, next) ==
  [next |-> [h.next EXCEPT ![prev] = next],
   prev |-> [h.prev EXCEPT ![next] = prev]]

__list_del_entry(h, entry) == __list_del(h, h.prev[entry], h.next[entry])

list_del(h, entry) ==
  LET d == __list_del_entry(h, entry) IN
  [next |-> [d.next EXCEPT ![entry] = LIST_POISON1],
   prev |-> [d.prev EXCEPT ![entry] = LIST_POISON2]]

\* new->prev is read after new->next->prev was written
list_replace(h, old, new) ==
  LET p1 == [h.prev EXCEPT ![h.next[old]] = new]
      p2 == [p1 EXCEPT ![new] = p1[old]]
  IN  [next |-> [h.next EXCEPT ![new] = h.next[old], ![p2[new]] = new],
       prev |-> p2]

list_replace_init(h, old, new) ==
  INIT_LIST_HEAD(list_replace(h, old, new), old)

list_del_init(h, entry) == INIT_LIST_HEAD(__list_del_entry(h, entry), entry)

list_move(h, list, head) == list_add(__list_del_entry(h, list), list, head)

list_move_tail(h, list, head) ==
  list_add_tail(__list_del_entry(h, list), list, head)

\* head->prev is read after last->next->prev was written
list_bulk_move_tail(h, head, first, last) ==
  LET p1 == [h.prev EXCEPT ![h.next[last]] = h.prev[first]]
      n1 == [h.next EXCEPT ![h.prev[first]] = h.next[last]]
      n2 == [n1 EXCEPT ![p1[head]] = first]
  IN  [next |-> [n2 EXCEPT ![last] = head],
       prev |-> [p1 EXCEPT ![first] = p1[head], ![head] = last]]

list_is_last(h, list, head) == h.next[list] = head

list_empty(h, head) == h.next[head] = head

list_empty_careful(h, head) == h.next[head] = head /\ h.prev[head] = head

list_rotate_left(h, head) ==
  IF list_empty(h, head) THEN h ELSE list_move_tail(h, h.next[head], head)

list_is_singular(h, head) ==
  ~list_empty(h, head) /\ h.next[head] = h.prev[head]

__list_cut_position(h, list, head, entry) ==
  [next |-> [h.next EXCEPT ![list] = h.next[head], ![entry] = list,
                           ![head] = h.next[entry]],
   prev |-> [h.prev EXCEPT ![h.next[head]] = list, ![list] = entry,
                           ![h.next[entry]] = head]]

\* the check for an entry that is the head itself is missing
CutAtHeadToo(h, list, head, entry) ==
  IF list_empty(h, head) THEN h ELSE __list_cut_position(h, list, head, entry)

list_cut_position(h, list, head, entry) ==
  CASE list_empty(h, head) -> h
    [] list_is_singular(h, head) /\ h.next[head] # entry /\ head # entry -> h
    [] ~list_empty(h, head) /\ entry = head -> INIT_LIST_HEAD(h, list)
    [] OTHER -> __list_cut_position(h, list, head, entry)

\* list->prev is read after list->next->prev was written
list_cut_before(h, list, head, entry) ==
  LET n1 == [h.next EXCEPT ![list] = h.next[head]]
      p1 == [h.prev EXCEPT ![h.next[head]] = list]
      p2 == [p1 EXCEPT ![list] = p1[entry]]
  IN  IF h.next[head] = entry
      THEN INIT_LIST_HEAD(h, list)
      ELSE [next |-> [n1 EXCEPT ![p2[list]] = list, ![head] = entry],
            prev |-> [p2 EXCEPT ![entry] = head]]

__list_splice(h, list, prev, next) ==
  [next |-> [h.next EXCEPT ![prev] = h.next[list], ![h.prev[list]] = next],
   prev |-> [h.prev EXCEPT ![h.next[list]] = prev, ![next] = h.prev[list]]]

list_splice(h, list, head) ==
  IF list_empty(h, list) THEN h
  ELSE __list_splice(h, list, head, h.next[head])

list_splice_tail(h, list, head) ==
  IF list_empty(h, list) THEN h
  ELSE __list_splice(h, list, h.prev[head], head)

list_splice_init(h, list, head) ==
  IF list_empty(h, list) THEN h
  ELSE INIT_LIST_HEAD(__list_splice(h, list, head, h.next[head]), list)

list_splice_tail_init(h, list, head) ==
  IF list_empty(h, list) THEN h
  ELSE INIT_LIST_HEAD(__list_splice(h, list, h.prev[head], head), list)
=============================================================================
