------------------------------- MODULE Lists -------------------------------
(***************************************************************************)
(* Programs on several lists of include/list.h: entries are added, moved,  *)
(* replaced and deleted, lists are cut in two and joined, in any order a   *)
(* caller may do it.  What the links of an entry that is on no list, or of *)
(* a head whose entries were spliced away, happen to hold is kept: the     *)
(* operations must not depend on it.  A program may also walk a list, in   *)
(* any of the ways of list.h, and change lists from the body of the loop.  *)
(***************************************************************************)
EXTENDS ListHead, SequencesExt

CONSTANTS
  Heads,       \* struct list_head variables that head a list
  Nodes        \* the entries

ASSUME ListsAssumption ==
  /\ IsFiniteSet(Heads \cup Nodes)
  /\ Heads \cap Nodes = {}
  /\ {NULL, LIST_POISON1, LIST_POISON2} \cap (Heads \cup Nodes) = {}

VARIABLES
  heap,
  stale,       \* heads whose entries were spliced away without _init
  walk         \* the loop over a list that is going on, if any

listVars == <<heap, stale, walk>>

Usable == Heads \ stale

\* The lists of a heap, as sequences.
Seqs(h) == [l \in Usable |-> Entries(h, l)]

Listed(h) == UNION {OnList(h, l) : l \in Usable}
Idle      == Nodes \ Listed(heap)

\* Where x stands in a list, 0 if it is not on it, and the list without x.
Place(s, x)   == SelectInSeq(s, LAMBDA y : y = x)
Without(s, x) == IF Place(s, x) = 0 THEN s ELSE RemoveAt(s, Place(s, x))

NoWalk == [head |-> NULL]

Init ==
  /\ heap = Heap([x \in Heads \cup Nodes |-> IF x \in Heads THEN x ELSE NULL],
                 [x \in Heads \cup Nodes |-> IF x \in Heads THEN x ELSE NULL])
  /\ stale = {}
  /\ walk = NoWalk

Add ==
  \E x \in Idle, l \in Usable :
    /\ heap' \in {list_add(heap, x, l), list_add_tail(heap, x, l)}
    /\ UNCHANGED stale

Delete ==
  \E x \in Listed(heap) :
    /\ heap' \in {list_del(heap, x), list_del_init(heap, x)}
    /\ UNCHANGED stale

Move ==
  \E x \in Listed(heap), l \in Usable :
    /\ heap' \in {list_move(heap, x, l), list_move_tail(heap, x, l)}
    /\ UNCHANGED stale

Rotate ==
  \E l \in Usable : heap' = list_rotate_left(heap, l) /\ UNCHANGED stale

Replace ==
  \E old \in Listed(heap), new \in Idle :
    /\ heap' \in {list_replace(heap, old, new), list_replace_init(heap, old, new)}
    /\ UNCHANGED stale

\* A new head for a list: the new one may hold anything nobody needs.
ReplaceHead ==
  \E old \in Usable : \E new \in Heads \ {old} :
    /\ new \in Usable => list_empty(heap, new)
    /\ \/ heap' = list_replace(heap, old, new) /\ stale' = (stale \ {new}) \cup {old}
       \/ heap' = list_replace_init(heap, old, new) /\ stale' = stale \ {new}

\* The target is an empty list, or one whose contents are elsewhere.  An
\* empty source leaves it as it was.
Cut ==
  \E l \in Heads, from \in Usable : \E entry \in OnList(heap, from) \cup {from} :
    /\ l # from
    /\ l \in Usable => list_empty(heap, l)
    /\ heap' = list_cut_position(heap, l, from, entry)
    /\ stale' = IF list_empty(heap, from) THEN stale ELSE stale \ {l}

Splice ==
  \E l \in Usable : \E to \in Usable \ {l} :
    \/ /\ heap' \in {list_splice(heap, l, to), list_splice_tail(heap, l, to)}
       /\ stale' = IF list_empty(heap, l) THEN stale ELSE stale \cup {l}
    \/ /\ heap' \in {list_splice_init(heap, l, to), list_splice_tail_init(heap, l, to)}
       /\ UNCHANGED stale

\* A head that was left stale is initialised before it is used again.
Initialise ==
  \E l \in stale : heap' = INIT_LIST_HEAD(heap, l) /\ stale' = stale \ {l}

Edit ==
  \/ Add
  \/ Delete
  \/ Move
  \/ Rotate
  \/ Replace
  \/ ReplaceHead
  \/ Cut
  \/ Splice
  \/ Initialise
-----------------------------------------------------------------------------
(* Walks.  The way is "next" or, in the macros named _prev or _reverse,    *)
(* "prev"; those named _safe keep the entry to go on with in n.  due is a  *)
(* history variable: pos, and what is still to be visited after it.        *)

Ahead(l, way) ==
  IF way = "next" THEN Entries(heap, l) ELSE Reverse(Entries(heap, l))

From(s, x) == LET k == Place(s, x)
              IN  IF k = 0 THEN <<>> ELSE SubSeq(s, k, Len(s))

\* The initialisation of the loop, with pos = x.
Begin(l, way, safe, x) ==
  /\ walk' = [head |-> l, way |-> way, safe |-> safe, pos |-> x,
              n |-> IF safe THEN heap[way][x] ELSE NULL,
              due |-> From(Ahead(l, way), x)]
  /\ UNCHANGED <<heap, stale>>

\* list_for_each, _prev, _safe, _prev_safe and the same on typed entries.
list_for_each ==
  \E l \in Usable, way \in {"next", "prev"}, safe \in BOOLEAN :
    Begin(l, way, safe, heap[way][l])

list_prepare_entry(pos, head) == IF pos = NULL THEN head ELSE pos

\* _continue, _continue_reverse, _safe_continue
list_for_each_entry_continue ==
  \E l \in Usable, way \in {"next", "prev"}, safe \in BOOLEAN :
    \E pos \in OnList(heap, l) \cup {NULL} :
      /\ way = "prev" => ~safe
      /\ Begin(l, way, safe, heap[way][list_prepare_entry(pos, l)])

\* _from, _safe_from
list_for_each_entry_from ==
  \E l \in Usable, safe \in BOOLEAN :
    \E pos \in OnList(heap, l) : Begin(l, "next", safe, pos)

StartWalk ==
  \/ list_for_each
  \/ list_for_each_entry_continue
  \/ list_for_each_entry_from

InBody == walk # NoWalk /\ walk.pos # walk.head

\* The history when x is taken away, pos apart.
DueWithout(x) == <<Head(walk.due)>> \o Without(Tail(walk.due), x)

\* Entries the body may take away: all but the one the walk goes on from.
Removable == Listed(heap) \ {IF walk.safe THEN walk.n ELSE walk.pos}

\* The body deletes an entry, of this list or another.
BodyDeletes ==
  /\ InBody
  /\ \E x \in Removable :
       /\ heap' \in {list_del(heap, x), list_del_init(heap, x)}
       /\ walk' = [walk EXCEPT !.due = DueWithout(x)]
  /\ UNCHANGED stale

\* The end of the list that a walk leaves behind.
PutBehind(h, x) ==
  IF walk.way = "next" THEN list_add(h, x, walk.head)
  ELSE list_add_tail(h, x, walk.head)

\* It adds an entry, or moves one, to another list or to where the walk
\* has been.
BodyPuts ==
  /\ InBody
  /\ \E x \in Removable \cup Idle :
       LET h == IF x \in Idle THEN heap ELSE list_del_entry(heap, x)
       IN  /\ heap' \in {PutBehind(h, x)}
                        \cup {list_add(h, x, l) : l \in Usable \ {walk.head}}
           /\ walk' = [walk EXCEPT !.due = DueWithout(x)]
  /\ UNCHANGED stale

\* Mutant: the walk goes on with the entry it had saved.
reset_next_not(h, pos, n) == n

list_safe_reset_next(h, pos, n) == h.next[pos]

\* It takes the saved entry away and resets the walk: "if the cursor
\* element (pos) is pinned in the list", where it was when the turn began.
BodyDropsNext ==
  /\ InBody
  /\ walk.safe
  /\ walk.way = "next"
  /\ walk.n # walk.head
  /\ heap.next[walk.pos] = walk.n
  /\ heap' \in {list_del(heap, walk.n), list_del_init(heap, walk.n)}
  /\ walk' = [walk EXCEPT !.n = list_safe_reset_next(heap', walk.pos, @),
                          !.due = DueWithout(walk.n)]
  /\ UNCHANGED stale

\* The next turn: pos = n, n = pos->next, or pos = pos->next.
Turn ==
  /\ InBody
  /\ LET next == IF walk.safe THEN walk.n ELSE heap[walk.way][walk.pos]
     IN  walk' = [walk EXCEPT !.pos = next, !.due = Tail(@),
                              !.n = IF walk.safe THEN heap[walk.way][next] ELSE NULL]
  /\ UNCHANGED <<heap, stale>>

\* pos is the head: the loop is left.
Leave ==
  /\ walk # NoWalk
  /\ walk.pos = walk.head
  /\ walk' = NoWalk
  /\ UNCHANGED <<heap, stale>>

Walking ==
  \/ BodyDeletes
  \/ BodyPuts
  \/ BodyDropsNext
  \/ Turn
  \/ Leave

Next ==
  \/ walk = NoWalk /\ Edit /\ UNCHANGED walk
  \/ walk = NoWalk /\ StartWalk
  \/ Walking

Spec == Init /\ [][Next]_listVars
-----------------------------------------------------------------------------
(* Properties.                                                             *)

\* Every list in use is a closed ring, its links agree in both directions,
\* and no entry is on two lists.
RingsAreClosed ==
  /\ \A l \in Usable : WellLinked(heap, l)
  /\ \A l, k \in Usable : l # k => OnList(heap, l) \cap OnList(heap, k) = {}

\* A new entry goes to the end it was meant for and a replacement to the
\* place of the entry it replaces; nothing else moves.
InsertionsAreExact ==
  \A x \in Idle, l \in Usable :
    LET s == Entries(heap, l)
    IN  /\ Seqs(list_add(heap, x, l)) = [Seqs(heap) EXCEPT ![l] = <<x>> \o s]
        /\ Seqs(list_add_tail(heap, x, l)) = [Seqs(heap) EXCEPT ![l] = Append(s, x)]
        /\ \A k \in 1 .. Len(s) :
             /\ Seqs(list_replace(heap, s[k], x))
                  = [Seqs(heap) EXCEPT ![l] = [s EXCEPT ![k] = x]]
             /\ Seqs(list_replace_init(heap, s[k], x))
                  = [Seqs(heap) EXCEPT ![l] = [s EXCEPT ![k] = x]]

\* Deleting closes the gap; moving within a list or to another one keeps
\* the order of all other entries.
MovesKeepTheRest ==
  \A l \in Usable : \A x \in OnList(heap, l) :
    LET without == [Seqs(heap) EXCEPT ![l] = Without(@, x)]
    IN  /\ Seqs(list_del(heap, x)) = without
        /\ Seqs(list_del_init(heap, x)) = without
        /\ \A k \in Usable :
             /\ Seqs(list_move(heap, x, k)) = [without EXCEPT ![k] = <<x>> \o @]
             /\ Seqs(list_move_tail(heap, x, k)) = [without EXCEPT ![k] = Append(@, x)]
        /\ x = heap.next[l] => Seqs(list_rotate_left(heap, l))
                               = [without EXCEPT ![l] = Append(@, x)]

\* Every operation on one entry does to the lists what its name says.
EntryOperationsAreExact == InsertionsAreExact /\ MovesKeepTheRest

\* list.h: "This helper moves the initial part of @head, up to and including
\* @entry, from @head to @list", "could be the head itself and if so we
\* won't cut the list".
CutSplitsTheList ==
  \A l, from \in Usable :
    (l # from /\ list_empty(heap, l)) =>
      LET s == Entries(heap, from)
      IN  \A k \in 0 .. Len(s) :
            Seqs(list_cut_position(heap, l, from, IF k = 0 THEN from ELSE s[k]))
              = [Seqs(heap) EXCEPT ![l] = SubSeq(s, 1, k),
                                   ![from] = SubSeq(s, k + 1, Len(s))]

\* Joining keeps the order of both lists, at the end asked for; the _init
\* forms leave an empty list behind, and an empty list adds nothing.
SplicesJoin ==
  \A l, to \in Usable :
    l # to =>
      LET s == Entries(heap, l)
          t == Entries(heap, to)
      IN  /\ Entries(list_splice(heap, l, to), to) = s \o t
          /\ Entries(list_splice_tail(heap, l, to), to) = t \o s
          /\ Seqs(list_splice_init(heap, l, to))
               = [Seqs(heap) EXCEPT ![l] = <<>>, ![to] = s \o t]
          /\ Seqs(list_splice_tail_init(heap, l, to))
               = [Seqs(heap) EXCEPT ![l] = <<>>, ![to] = t \o s]

\* A head takes over the entries of another: "If @old was empty, it will be
\* overwritten".
HeadsTakeOver ==
  \A old \in Usable : \A new \in Heads \ {old} :
    (new \in Usable => list_empty(heap, new)) =>
      LET h == list_replace_init(heap, old, new)
      IN  /\ Entries(h, new) = Entries(heap, old)
          /\ WellLinked(h, new)
          /\ list_empty(h, old)

\* Every operation on whole lists, or parts of them, keeps all entries, once
\* and in their order.
ListOperationsAreExact == CutSplitsTheList /\ SplicesJoin /\ HeadsTakeOver

\* A walk stands, turn after turn, on the first entry it has still to visit,
\* and on its head when there is none: no entry that stays on the list is
\* left out or visited twice, whatever the body takes away, puts elsewhere
\* or adds behind it, as long as it leaves the entry the walk goes on with
\* or resets the walk.
WalksVisitAll ==
  walk # NoWalk =>
    walk.pos = IF walk.due = <<>> THEN walk.head ELSE walk.due[1]

\* Entries and heads are interchangeable.
Symmetry == Permutations(Heads) \cup Permutations(Nodes)
=============================================================================
