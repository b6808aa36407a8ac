------------------------------ MODULE ListHead ------------------------------
(***************************************************************************)
(* The circular doubly linked list of include/list.h at pointer level.  A  *)
(* heap h maps every node to its next and prev pointers; the operations    *)
(* return the heap after their assignments, in the order of the source.    *)
(***************************************************************************)
EXTENDS Naturals, Sequences, FiniteSets

CONSTANT NULL

\* The heap with the next pointers f and the prev pointers g.
Heap(f, g) == [next |-> f, prev |-> g]

INIT_LIST_HEAD(h, l) ==
  Heap([h.next EXCEPT ![l] = l], [h.prev EXCEPT ![l] = l])

\* __list_add
list_add_between(h, new, before, after) ==
  Heap([h.next EXCEPT ![new] = after, ![before] = new],
       [h.prev EXCEPT ![after] = new, ![new] = before])

list_add(h, new, head) == list_add_between(h, new, head, h.next[head])

list_add_tail(h, new, head) == list_add_between(h, new, h.prev[head], head)

\* Mutant: the successor still points back at the deleted entry.
del_oneway(h, before, after) == Heap([h.next EXCEPT ![before] = after], h.prev)

\* __list_del
list_del_between(h, before, after) ==
  Heap([h.next EXCEPT ![before] = after], [h.prev EXCEPT ![after] = before])

\* __list_del_entry
list_del_entry(h, entry) == list_del_between(h, h.prev[entry], h.next[entry])

\* Mutant: the entry keeps its pointers.
del_only(h, entry) == list_del_entry(h, entry)

list_del_init(h, entry) == INIT_LIST_HEAD(list_del_entry(h, entry), entry)

\* What list_del leaves in the links of the deleted entry.
LIST_POISON1 == "poison1"
LIST_POISON2 == "poison2"

list_del(h, entry) ==
  LET out == list_del_entry(h, entry)
  IN  Heap([out.next EXCEPT ![entry] = LIST_POISON1],
           [out.prev EXCEPT ![entry] = LIST_POISON2])

list_move(h, entry, head) == list_add(list_del_entry(h, entry), entry, head)

list_move_tail(h, entry, head) ==
  list_add_tail(list_del_entry(h, entry), entry, head)

list_empty(h, head) == h.next[head] = head

list_is_singular(h, head) == ~list_empty(h, head) /\ h.next[head] = h.prev[head]

list_rotate_left(h, head) ==
  IF list_empty(h, head) THEN h ELSE list_move_tail(h, h.next[head], head)

\* Assignments one after the other: a later one may read what an earlier one
\* wrote, when old is empty or the list has a single entry.
SetNext(h, x, y) == Heap([h.next EXCEPT ![x] = y], h.prev)
SetPrev(h, x, y) == Heap(h.next, [h.prev EXCEPT ![x] = y])

\* Mutant: the predecessor is read before the successor's link is written.
replace_early(h, old, new) ==
  LET h1 == SetNext(h, new, h.next[old])
      h2 == SetPrev(h1, new, h1.prev[old])
      h3 == SetPrev(h2, h2.next[new], new)
  IN  SetNext(h3, h3.prev[new], new)

list_replace(h, old, new) ==
  LET h1 == SetNext(h, new, h.next[old])
      h2 == SetPrev(h1, h1.next[new], new)
      h3 == SetPrev(h2, new, h2.prev[old])
  IN  SetNext(h3, h3.prev[new], new)

list_replace_init(h, old, new) == INIT_LIST_HEAD(list_replace(h, old, new), old)

\* __list_cut_position: list gets the entries of head up to entry.
list_cut_between(h, list, head, entry) ==
  LET new_first == h.next[entry]
      h1 == SetNext(h, list, h.next[head])
      h2 == SetPrev(h1, h1.next[list], list)
      h3 == SetPrev(h2, list, entry)
      h4 == SetNext(h3, entry, list)
      h5 == SetNext(h4, head, new_first)
  IN  SetPrev(h5, new_first, head)

list_cut_position(h, list, head, entry) ==
  IF \/ list_empty(h, head)
     \/ list_is_singular(h, head) /\ h.next[head] # entry /\ head # entry
  THEN h
  ELSE IF entry = head THEN INIT_LIST_HEAD(h, list)
  ELSE list_cut_between(h, list, head, entry)

\* __list_splice: the entries of list between before and after.
list_splice_between(h, list, before, after) ==
  LET first == h.next[list]
      last  == h.prev[list]
      h1 == SetPrev(h, first, before)
      h2 == SetNext(h1, before, first)
      h3 == SetNext(h2, last, after)
  IN  SetPrev(h3, after, last)

\* Mutant: an empty list is spliced like any other.
splice_empty(h, list, head) == list_splice_between(h, list, head, h.next[head])

list_splice(h, list, head) ==
  IF list_empty(h, list) THEN h
  ELSE list_splice_between(h, list, head, h.next[head])

list_splice_tail(h, list, head) ==
  IF list_empty(h, list) THEN h
  ELSE list_splice_between(h, list, h.prev[head], head)

list_splice_init(h, list, head) ==
  IF list_empty(h, list) THEN h
  ELSE INIT_LIST_HEAD(list_splice(h, list, head), list)

list_splice_tail_init(h, list, head) ==
  IF list_empty(h, list) THEN h
  ELSE INIT_LIST_HEAD(list_splice_tail(h, list, head), list)

\* The entries list_for_each visits, cut after as many as there are nodes: a
\* ring that does not lead back to head would be walked for ever.
Entries(h, head) ==
  LET bound == Cardinality(DOMAIN h.next)
      walk[k \in 0 .. bound] ==
        IF k = 0 THEN <<>>
        ELSE LET s    == walk[k - 1]
                 at   == IF s = <<>> THEN head ELSE s[Len(s)]
                 succ == h.next[at]
             IN  IF succ \in {head, NULL} THEN s ELSE Append(s, succ)
  IN  walk[bound]

OnList(h, head) == LET s == Entries(h, head) IN {s[k] : k \in 1 .. Len(s)}

\* The ring through head is closed: both directions agree and the forward
\* walk comes back to head.
WellLinked(h, head) ==
  LET ring == OnList(h, head) \cup {head}
  IN  /\ \A x \in ring : h.next[x] \in ring /\ h.prev[h.next[x]] = x
      /\ \A x, y \in ring : h.next[x] = h.next[y] => x = y
=============================================================================
