----------------------------- MODULE HashChains -----------------------------
(***************************************************************************)
(* The chains of a hash table: the hlist of include/list.h, doubly linked  *)
(* with a single pointer as the head, and the table of testProgs/hash.c    *)
(* on it.  An entry's pprev is the address of the pointer that points to   *)
(* it, the head's first or another entry's next.  Entries are malloc'ed    *)
(* and freed; hash_table_destory frees the entry its walk stands on.       *)
(***************************************************************************)
EXTENDS Naturals, Sequences, FiniteSets, SequencesExt, JenkinsHash

CONSTANTS
  NULL,
  Buckets,     \* the heads of hashtable
  Nodes,       \* what malloc can return, as struct tag
  Names        \* the names entries carry

\* The addresses of the pointers that lead to entries.
FirstOf(b) == [of |-> b, field |-> "first"]
NextOf(x)  == [of |-> x, field |-> "next"]

Addresses == {FirstOf(b) : b \in Buckets} \cup {NextOf(x) : x \in Nodes}

ASSUME ChainsAssumption ==
  /\ NULL \notin Buckets \cup Nodes \cup Names \cup Addresses
  /\ IsFiniteSet(Nodes)

VARIABLES
  hash,        \* any function from names to buckets; it does not change
  heap,        \* first of the buckets, next and pprev of the entries
  name,        \* NULL for an entry that is not allocated
  pos,         \* the walk of hash_table_destory: NULL between two calls
  n            \* the entry it goes on with

chainVars == <<hash, heap, name, pos, n>>

Heap(f, g, p) == [first |-> f, next |-> g, pprev |-> p]

\* *p = x
Store(h, p, x) ==
  IF p.field = "first" THEN Heap([h.first EXCEPT ![p.of] = x], h.next, h.pprev)
  ELSE Heap(h.first, [h.next EXCEPT ![p.of] = x], h.pprev)

SetNext(h, x, y)  == Store(h, NextOf(x), y)
SetPprev(h, x, p) == Heap(h.first, h.next, [h.pprev EXCEPT ![x] = p])

\* The assignment a test for NULL guards.
SetPprevOf(h, x, p) == IF x = NULL THEN h ELSE SetPprev(h, x, p)

hlist_unhashed(h, x) == h.pprev[x] = NULL

\* __hlist_del
hlist_unlink(h, x) ==
  SetPprevOf(Store(h, h.pprev[x], h.next[x]), h.next[x], h.pprev[x])

INIT_HLIST_NODE(h, x) == SetPprev(SetNext(h, x, NULL), x, NULL)

\* Mutant: the entry keeps its pointers.
del_init_stale(h, x) == IF hlist_unhashed(h, x) THEN h ELSE hlist_unlink(h, x)

hlist_del_init(h, x) ==
  IF hlist_unhashed(h, x) THEN h ELSE INIT_HLIST_NODE(hlist_unlink(h, x), x)

hlist_add_head(h, x, b) ==
  LET first == h.first[b]
      h1 == SetNext(h, x, first)
      h2 == SetPprevOf(h1, first, NextOf(x))
      h3 == Store(h2, FirstOf(b), x)
  IN  SetPprev(h3, x, FirstOf(b))

hlist_del(h, x) ==
  LET out == hlist_unlink(h, x)
  IN  SetPprev(SetNext(out, x, "poison1"), x, "poison2")

\* Mutant: the pointer to next is written before x has taken its address.
add_before_late(h, x, next) ==
  LET h1 == SetPprev(h, next, NextOf(x))
      h2 == SetPprev(h1, x, h1.pprev[next])
      h3 == SetNext(h2, x, next)
  IN  Store(h3, h3.pprev[x], x)

\* x in front of next.
hlist_add_before(h, x, next) ==
  LET h1 == SetPprev(h, x, h.pprev[next])
      h2 == SetNext(h1, x, next)
      h3 == SetPprev(h2, next, NextOf(x))
  IN  Store(h3, h3.pprev[x], x)

\* next behind x.
hlist_add_after(h, x, next) ==
  LET h1 == SetNext(h, next, h.next[x])
      h2 == SetNext(h1, x, next)
      h3 == SetPprev(h2, next, NextOf(x))
  IN  SetPprevOf(h3, h3.next[next], NextOf(next))

\* "after that we'll appear to be on some hlist and hlist_del will work":
\* the pointer that points to x is taken to be its own next.
hlist_add_fake(h, x) == SetPprev(h, x, NextOf(x))

hlist_move_list(h, old, new) ==
  LET h1 == Store(h, FirstOf(new), h.first[old])
  IN  Store(SetPprevOf(h1, h1.first[new], FirstOf(new)), FirstOf(old), NULL)

\* The entries hlist_for_each visits, cut after as many as there are.
Chain(h, b) ==
  LET walk[k \in 0 .. Cardinality(Nodes)] ==
        IF k = 0 THEN <<>>
        ELSE LET s    == walk[k - 1]
                 succ == IF s = <<>> THEN h.first[b] ELSE h.next[s[Len(s)]]
             IN  IF succ = NULL THEN s ELSE Append(s, succ)
  IN  walk[Cardinality(Nodes)]

Chains(h) == [b \in Buckets |-> Chain(h, b)]

Allocated == {x \in Nodes : name[x] # NULL}
-----------------------------------------------------------------------------
(* The table.                                                              *)

Idle == pos = NULL

Linked(h) == UNION {{Chain(h, b)[k] : k \in 1 .. Len(Chain(h, b))} : b \in Buckets}

\* Mutant: only the first entry of the bucket is compared.
lookup_first(m) ==
  LET first == heap.first[hash[m]]
  IN  IF first # NULL /\ name[first] = m THEN first ELSE NULL

\* hlist_for_each_entry in the name's bucket; NULL when none has the name.
hash_lookup_tag(m) ==
  LET c    == Chain(heap, hash[m])
      hits == {k \in 1 .. Len(c) : name[c[k]] = m}
  IN  IF hits = {} THEN NULL ELSE c[Min(hits)]

Init ==
  /\ hash \in [Names -> Buckets]
  /\ heap = Heap([b \in Buckets |-> NULL], [x \in Nodes |-> NULL],
                 [x \in Nodes |-> NULL])
  /\ name = [x \in Nodes |-> NULL]
  /\ pos = NULL
  /\ n = NULL

\* malloc, a name, and hash_add: what the links held does not matter.
hash_add ==
  \E x \in Nodes \ Allocated, m \in Names :
    /\ Idle
    /\ name' = [name EXCEPT ![x] = m]
    /\ heap' = hlist_add_head(heap, x, hash[m])
    /\ UNCHANGED <<hash, pos, n>>

\* The same next to an entry of the same bucket, to keep chains ordered.
AddNextTo ==
  \E x \in Nodes \ Allocated, y \in Linked(heap), m \in Names :
    /\ Idle
    /\ hash[m] = hash[name[y]]
    /\ name' = [name EXCEPT ![x] = m]
    /\ heap' \in {hlist_add_before(heap, x, y), hlist_add_after(heap, y, x)}
    /\ UNCHANGED <<hash, pos, n>>

\* The owner of an entry takes it off the table, more than once at will, and
\* may put it back.
TakeOff ==
  \E x \in Allocated :
    /\ Idle
    /\ heap' = hlist_del_init(heap, x)
    /\ UNCHANGED <<hash, name, pos, n>>

PutBack ==
  \E x \in Allocated :
    /\ Idle
    /\ hlist_unhashed(heap, x)
    /\ heap' = hlist_add_head(heap, x, hash[name[x]])
    /\ UNCHANGED <<hash, name, pos, n>>

\* Or lets it look as if it were on a table.
Pretend ==
  \E x \in Allocated :
    /\ Idle
    /\ hlist_unhashed(heap, x)
    /\ heap' = hlist_add_fake(heap, x)
    /\ UNCHANGED <<hash, name, pos, n>>

\* An entry is deleted and freed by its owner, which knows that it is, or
\* appears to be, on a table.
Discard ==
  \E x \in Allocated :
    /\ Idle
    /\ ~hlist_unhashed(heap, x)
    /\ heap' = hlist_del(heap, x)
    /\ name' = [name EXCEPT ![x] = NULL]
    /\ UNCHANGED <<hash, pos, n>>

hash_table_destory ==
  \E b \in Buckets :
    /\ Idle
    /\ heap.first[b] # NULL
    /\ pos' = heap.first[b]
    /\ n' = heap.next[heap.first[b]]
    /\ UNCHANGED <<hash, heap, name>>

\* Mutant: the walk goes on from the entry just freed.
NextEntry_unsafe(h) == pos' = h.next[pos] /\ n' = pos'

\* hlist_for_each_entry_safe: pos = n, then n = pos->next.
NextEntry(h) == pos' = n /\ n' = IF n = NULL THEN NULL ELSE h.next[n]

\* The body of the loop: hlist_del_init(pos), free(t).
DestroyEntry ==
  /\ pos # NULL
  /\ heap' = hlist_del_init(heap, pos)
  /\ name' = [name EXCEPT ![pos] = NULL]
  /\ NextEntry(heap')
  /\ UNCHANGED hash

Next ==
  \/ hash_add
  \/ AddNextTo
  \/ TakeOff
  \/ PutBack
  \/ Pretend
  \/ Discard
  \/ hash_table_destory
  \/ DestroyEntry

Spec == Init /\ [][Next]_chainVars
-----------------------------------------------------------------------------
(* Properties.                                                             *)

\* Every chain ends, every entry's pprev is the address of the one pointer
\* that points to it, and no freed entry is reachable.  An entry that is
\* not on the table does not know an address in it: taking it off once more
\* changes nothing, not even if it appears to be on one.
ChainsAreLinked ==
  /\ \A b \in Buckets :
       LET c == Chain(heap, b)
       IN  /\ c # <<>> => heap.next[Last(c)] = NULL
           /\ \A k \in 1 .. Len(c) :
                /\ c[k] \in Allocated
                /\ heap.pprev[c[k]] = IF k = 1 THEN FirstOf(b) ELSE NextOf(c[k - 1])
  /\ \A x \in Allocated \ Linked(heap) :
       /\ hlist_unhashed(heap, x) \/ heap.pprev[x] = NextOf(x)
       /\ Chains(hlist_del_init(heap, x)) = Chains(heap)

\* The destroying walk stands on entries of the table only, never on one it
\* has freed, and leaves the bucket empty.
DestroyIsSafe ==
  [][pos # NULL =>
       /\ pos \in Linked(heap)
       /\ n \in Linked(heap) \cup {NULL}
       /\ pos' = NULL => Chain(heap', hash[name[pos]]) = <<>>]_chainVars

\* A name is found exactly when an entry on the table has it, whatever the
\* hash function, collisions included.
LookupIsComplete ==
  \A m \in Names :
    LET x == hash_lookup_tag(m)
    IN  IF x = NULL THEN \A y \in Linked(heap) : name[y] # m
        ELSE x \in Linked(heap) /\ name[x] = m

\* An edit puts an entry exactly where it says, or closes the gap, and
\* leaves all other entries in their order.
EditsAreExact ==
  \A b \in Buckets :
    LET c == Chain(heap, b)
        Put(k, x) == SubSeq(c, 1, k) \o <<x>> \o SubSeq(c, k + 1, Len(c))
    IN  /\ \A x \in Nodes \ Linked(heap) :
             /\ Chains(hlist_add_head(heap, x, b)) = [Chains(heap) EXCEPT ![b] = Put(0, x)]
             /\ \A k \in 1 .. Len(c) :
                  /\ Chains(hlist_add_before(heap, x, c[k]))
                       = [Chains(heap) EXCEPT ![b] = Put(k - 1, x)]
                  /\ Chains(hlist_add_after(heap, c[k], x))
                       = [Chains(heap) EXCEPT ![b] = Put(k, x)]
        /\ \A k \in 1 .. Len(c) :
             LET without == [Chains(heap) EXCEPT ![b] = RemoveAt(c, k)]
             IN  /\ Chains(hlist_del(heap, c[k])) = without
                 /\ Chains(hlist_del_init(heap, c[k])) = without

\* Moving a chain to an empty head takes all entries, and they can be
\* deleted from the new head as from the old one.
MovedChainIsWhole ==
  \A old \in Buckets : \A new \in Buckets \ {old} :
    heap.first[new] = NULL =>
      LET c == Chain(heap, old)
          h == hlist_move_list(heap, old, new)
      IN  /\ Chains(h) = [Chains(heap) EXCEPT ![old] = <<>>, ![new] = c]
          /\ \A k \in 1 .. Len(c) :
               Chain(hlist_del_init(h, c[k]), new) = RemoveAt(c, k)

\* Every operation on chains is the sequence operation it stands for.
ChainOperationsAreExact == EditsAreExact /\ MovedChainIsWhole

\* The hash function of the table is the one it was taken from, gives words
\* and their bytes one hash on either side of a block's end, and reads
\* nothing behind the key.  That speaks of keys, not of the table, and so is
\* asked of the empty table alone, where the program starts and ends.
HashesAreExact == (Allocated = {} /\ Idle) => HashAgrees
=============================================================================
