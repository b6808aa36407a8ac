---------------------------- MODULE ListsProofs ----------------------------
(***************************************************************************)
(* Whatever a program does with the operations of list.h, for every finite *)
(* set of heads and of entries: every list stays a closed ring, the        *)
(* operations do to the lists what their names say, and a walk visits all. *)
(*                                                                         *)
(* Spells says which sequences the lists of a heap are.  One lemma per     *)
(* operation gives the sequences after it; the invariant and the theorems  *)
(* follow from these.                                                      *)
(***************************************************************************)
EXTENDS Lists, ListHeadProofs

N == Heads \cup Nodes

LEMMA NodeSets ==
  /\ IsFiniteSet(N) /\ NULL \notin N /\ Heads \cap Nodes = {}
  /\ LIST_POISON1 \notin N /\ LIST_POISON2 \notin N
  /\ Heads \subseteq N /\ Nodes \subseteq N
  /\ LIST_POISON1 \in Links(N) /\ LIST_POISON2 \in Links(N) /\ N \subseteq Links(N)
BY ListsAssumption DEF N, Links

\* The lists with a head in U are the sequences s, and no entry is on two.
Spells(h, U, s) ==
  /\ IsHeap(h, N)
  /\ U \subseteq Heads
  /\ s \in [U -> Seq(Nodes)]
  /\ \A l \in U : IsRing(h, N, l, s[l])
  /\ \A l, k \in U : l # k =>
       \A i \in 1 .. Len(s[l]), j \in 1 .. Len(s[k]) : s[l][i] # s[k][j]

\* x is on none of them.
OffLists(U, s, x) == \A l \in U : \A k \in 1 .. Len(s[l]) : s[l][k] # x

SameLinks(f, h, y) == f.next[y] = h.next[y] /\ f.prev[y] = h.prev[y]

\* One list of a heap.
LEMMA ListFacts ==
  ASSUME NEW h, NEW U, NEW s, Spells(h, U, s), NEW l \in U
  PROVE  /\ IsHeap(h, N) /\ l \in N /\ l \in Heads /\ l \notin Nodes
         /\ s[l] \in Seq(Nodes) /\ s[l] \in Seq(N) /\ Len(s[l]) \in Nat
         /\ IsRing(h, N, l, s[l])
         /\ \A k \in 1 .. Len(s[l]) : s[l][k] \in Nodes /\ s[l][k] \in N
         /\ \A i, j \in 1 .. Len(s[l]) : s[l][i] = s[l][j] => i = j
<1>1. /\ s[l] \in Seq(Nodes) /\ IsRing(h, N, l, s[l])
      /\ IsHeap(h, N) /\ l \in N /\ l \in Heads /\ l \notin Nodes
  BY NodeSets DEF Spells
<1>2. Len(s[l]) \in Nat /\ \A k \in 1 .. Len(s[l]) : s[l][k] \in Nodes /\ s[l][k] \in N
  BY <1>1, NodeSets
<1>3. s[l] \in Seq(N)
  BY <1>1 DEF IsRing
<1>4. ASSUME NEW i \in 1 .. Len(s[l]), NEW j \in 1 .. Len(s[l]), s[l][i] = s[l][j]
      PROVE  i = j
  <2>1. RingAt(s[l], l, i) = s[l][i] /\ RingAt(s[l], l, j) = s[l][j]
    BY DEF RingAt
  <2>2. i \in 0 .. Len(s[l]) /\ j \in 0 .. Len(s[l])
    BY <1>2
  <2>. QED
    BY <1>1, <1>4, <2>1, <2>2 DEF IsRing
<1>. QED
  BY <1>1, <1>2, <1>3, <1>4

\* The lists the program sees are the sequences.
LEMMA SpelledLists ==
  ASSUME NEW h, NEW U, NEW s, Spells(h, U, s)
  PROVE  /\ \A l \in U : Entries(h, l) = s[l] /\ OnList(h, l) = {s[l][k] : k \in 1 .. Len(s[l])}
         /\ [l \in U |-> Entries(h, l)] = s
<1>1. ASSUME NEW l \in U
      PROVE  Entries(h, l) = s[l] /\ OnList(h, l) = {s[l][k] : k \in 1 .. Len(s[l])}
  <2>1. IsHeap(h, N) /\ IsRing(h, N, l, s[l]) /\ IsFiniteSet(N) /\ NULL \notin N
    BY NodeSets, ListFacts
  <2>2. Entries(h, l) = s[l]
    BY <2>1, RingEntries
  <2>. QED
    BY <2>2 DEF OnList
<1>2. s \in [U -> Seq(Nodes)]
  BY DEF Spells
<1>. QED
  BY <1>1, <1>2

\* What a list's places are.
LEMMA ListPlaces ==
  ASSUME NEW h, NEW U, NEW s, Spells(h, U, s), NEW l \in U,
         NEW k \in 0 .. Len(s[l])
  PROVE  \/ k = 0 /\ RingAt(s[l], l, k) = l
         \/ k \in 1 .. Len(s[l]) /\ RingAt(s[l], l, k) = s[l][k]
<1>1. Len(s[l]) \in Nat /\ s[l] \in Seq(N)
  BY ListFacts
<1>2. k = 0 \/ k \in 1 .. Len(s[l])
  BY <1>1
<1>3. RingAt(s[l], l, 0) = l /\ \A i \in 1 .. Len(s[l]) : RingAt(s[l], l, i) = s[l][i]
  <2>1. ~(0 \in 1 .. Len(s[l]))
    BY <1>1
  <2>. QED
    BY <2>1 DEF RingAt
<1>. QED
  BY <1>2, <1>3

\* If the nodes that change are not on a list, the list stays.
LEMMA ListStays ==
  ASSUME NEW h, NEW U, NEW s, Spells(h, U, s), NEW l \in U,
         NEW f, SameLinks(f, h, l), \A k \in 1 .. Len(s[l]) : SameLinks(f, h, s[l][k])
  PROVE  IsRing(f, N, l, s[l])
<1>1. IsRing(h, N, l, s[l])
  BY ListFacts
<1>2. \A k \in 0 .. Len(s[l]) : SameLinks(f, h, RingAt(s[l], l, k))
  BY ListPlaces
<1>3. \A k \in 0 .. Len(s[l]) :
        /\ f.next[RingAt(s[l], l, k)] = h.next[RingAt(s[l], l, k)]
        /\ f.prev[RingAt(s[l], l, k)] = h.prev[RingAt(s[l], l, k)]
  BY <1>2 DEF SameLinks
<1>. QED
  BY <1>1, <1>3, RingStays

\* The nodes of X are not in use.
Unused(U, s, X) == X \subseteq N /\ X \cap U = {} /\ \A x \in X : OffLists(U, s, x)

\* Nothing but the ring of q through l and the nodes of X changes.
ChangesOnly(f, h, l, q, X) ==
  \A y \in N : (\A k \in 0 .. Len(q) : RingAt(q, l, k) # y) /\ y \notin X =>
    f.next[y] = h.next[y] /\ f.prev[y] = h.prev[y]

\* r has entries of q and of X.
MadeOf(r, q, X) ==
  \A i \in 1 .. Len(r) : r[i] \in X \/ \E k \in 1 .. Len(q) : r[i] = q[k]

\* One list changes.
LEMMA OneListChanges ==
  ASSUME NEW h, NEW U, NEW s, Spells(h, U, s), NEW l \in U, NEW o, o = s[l],
         NEW X, Unused(U, s, X), NEW f, IsHeap(f, N), ChangesOnly(f, h, l, o, X),
         NEW q, q \in Seq(Nodes), IsRing(f, N, l, q), MadeOf(q, o, X)
  PROVE  Spells(f, U, [s EXCEPT ![l] = q])
<1>. DEFINE t == [s EXCEPT ![l] = q]
<1>0. /\ X \in SUBSET N /\ X \cap U = {} /\ \A x \in X : OffLists(U, s, x)
      /\ \A y \in N : (\A k \in 0 .. Len(s[l]) : RingAt(s[l], l, k) # y) /\ y \notin X =>
           f.next[y] = h.next[y] /\ f.prev[y] = h.prev[y]
      /\ \A i \in 1 .. Len(q) : q[i] \in X \/ \E k \in 1 .. Len(s[l]) : q[i] = s[l][k]
  BY DEF Unused, ChangesOnly, MadeOf
<1>1. /\ U \subseteq Heads /\ s \in [U -> Seq(Nodes)]
      /\ \A k, m \in U : k # m =>
           \A i \in 1 .. Len(s[k]), j \in 1 .. Len(s[m]) : s[k][i] # s[m][j]
  BY DEF Spells
<1>2. t \in [U -> Seq(Nodes)] /\ t[l] = q /\ \A k \in U \ {l} : t[k] = s[k]
  BY <1>1
<1>. HIDE DEF t
<1>3. ASSUME NEW k \in U \ {l}
      PROVE  IsRing(f, N, k, s[k])
  <2>1. ASSUME NEW y \in N, y = k \/ \E i \in 1 .. Len(s[k]) : y = s[k][i]
        PROVE  SameLinks(f, h, y)
    <3>1. y \notin X
      BY <1>0, <2>1 DEF OffLists
    <3>2. ASSUME NEW i \in 0 .. Len(s[l]), RingAt(s[l], l, i) = y
          PROVE  FALSE
      <4>1. y = l \/ \E j \in 1 .. Len(s[l]) : y = s[l][j]
        BY <3>2, ListPlaces
      <4>2. /\ \A j \in 1 .. Len(s[l]) : s[l][j] \in Nodes
            /\ \A j \in 1 .. Len(s[k]) : s[k][j] \in Nodes
            /\ k \notin Nodes /\ l \notin Nodes
        BY ListFacts
      <4>. QED
        BY <1>1, <2>1, <4>1, <4>2
    <3>. QED
      BY <1>0, <3>1, <3>2 DEF SameLinks
  <2>2. k \in N /\ \A i \in 1 .. Len(s[k]) : s[k][i] \in N
    BY ListFacts
  <2>3. SameLinks(f, h, k) /\ \A i \in 1 .. Len(s[k]) : SameLinks(f, h, s[k][i])
    BY <2>1, <2>2
  <2>. QED
    BY <2>3, ListStays
<1>4. \A k \in U : IsRing(f, N, k, t[k])
  BY <1>2, <1>3
<1>5. ASSUME NEW k \in U \ {l}, NEW i \in 1 .. Len(q), NEW j \in 1 .. Len(s[k])
      PROVE  q[i] # s[k][j]
  <2>1. CASE q[i] \in X
    BY <1>0, <2>1 DEF OffLists
  <2>2. CASE \E m \in 1 .. Len(s[l]) : q[i] = s[l][m]
    BY <1>1, <2>2
  <2>. QED
    BY <1>0, <2>1, <2>2
<1>6. ASSUME NEW k \in U, NEW m \in U, k # m,
             NEW i \in 1 .. Len(t[k]), NEW j \in 1 .. Len(t[m])
      PROVE  t[k][i] # t[m][j]
  <2>1. CASE k = l
    BY <1>2, <1>5, <1>6, <2>1
  <2>2. CASE m = l
    BY <1>2, <1>5, <1>6, <2>2
  <2>3. CASE k # l /\ m # l
    BY <1>1, <1>2, <1>6, <2>3
  <2>. QED
    BY <2>1, <2>2, <2>3
<1>. QED
  BY <1>1, <1>2, <1>4, <1>6 DEF Spells, t

-----------------------------------------------------------------------------
(* Sequences.                                                              *)

LEMMA PlaceIs ==
  ASSUME NEW s, NEW x
  PROVE  /\ (\A k \in 1 .. Len(s) : s[k] # x) => Place(s, x) = 0
         /\ \A k \in 1 .. Len(s) :
              s[k] = x /\ (\A j \in 1 .. Len(s) : s[j] = x => j = k) => Place(s, x) = k
<1>1. ASSUME \A k \in 1 .. Len(s) : s[k] # x
      PROVE  Place(s, x) = 0
  BY <1>1 DEF Place, SelectInSeq
<1>2. ASSUME NEW k \in 1 .. Len(s), s[k] = x, \A j \in 1 .. Len(s) : s[j] = x => j = k
      PROVE  Place(s, x) = k
  <2>1. {j \in 1 .. Len(s) : s[j] = x} = {k}
    BY <1>2
  <2>2. k \in Int
    OBVIOUS
  <2>3. Min({k}) = k
    BY <2>2 DEF Min
  <2>. QED
    BY <2>1, <2>3 DEF Place, SelectInSeq
<1>. QED
  BY <1>1, <1>2

LEMMA WithoutOther ==
  ASSUME NEW s, NEW x, \A k \in 1 .. Len(s) : s[k] # x
  PROVE  Without(s, x) = s
BY PlaceIs DEF Without

\* r is s with x put in at place p; r is s without its p-th entry.
IsWithEntry(r, S, s, p, x) ==
  /\ r \in Seq(S) /\ Len(r) = Len(s) + 1
  /\ \A k \in 1 .. (Len(s) + 1) :
       r[k] = IF k < p THEN s[k] ELSE IF k = p THEN x ELSE s[k - 1]

IsWithoutEntry(r, S, s, p) ==
  /\ r \in Seq(S) /\ Len(r) = Len(s) - 1
  /\ \A k \in 1 .. (Len(s) - 1) : r[k] = IF k < p THEN s[k] ELSE s[k + 1]

LEMMA InsertedHas ==
  ASSUME NEW S, NEW s, s \in Seq(S), NEW p, p \in 1 .. (Len(s) + 1), NEW x, x \in S,
         NEW r, r = Inserted(s, p, x)
  PROVE  IsWithEntry(r, S, s, p, x)
<1>1. /\ Inserted(s, p, x) \in Seq(S)
      /\ Len(Inserted(s, p, x)) = Len(s) + 1
      /\ \A k \in 1 .. (Len(s) + 1) :
           Inserted(s, p, x)[k] =
             IF k < p THEN s[k] ELSE IF k = p THEN x ELSE s[k - 1]
  <2>1. Inserted(s, p, x) \in Seq(S) /\ Len(Inserted(s, p, x)) = Len(s) + 1
    BY InsertedIs
  <2>2. \A k \in 1 .. (Len(s) + 1) :
          Inserted(s, p, x)[k] =
            IF k < p THEN s[k] ELSE IF k = p THEN x ELSE s[k - 1]
    BY ONLY TRUE DEF Inserted
  <2>. QED
    BY ONLY <2>1, <2>2
<1>. QED
  BY ONLY <1>1, r = Inserted(s, p, x) DEF IsWithEntry

LEMMA RemovedHas ==
  ASSUME NEW S, NEW s, s \in Seq(S), NEW p, p \in 1 .. Len(s), NEW r, r = Removed(s, p)
  PROVE  IsWithoutEntry(r, S, s, p)
<1>1. /\ Removed(s, p) \in Seq(S) /\ Len(Removed(s, p)) = Len(s) - 1
      /\ \A k \in 1 .. (Len(s) - 1) :
           Removed(s, p)[k] = IF k < p THEN s[k] ELSE s[k + 1]
  <2>1. Removed(s, p) \in Seq(S) /\ Len(Removed(s, p)) = Len(s) - 1
    BY RemovedIs
  <2>2. \A k \in 1 .. (Len(s) - 1) :
          Removed(s, p)[k] = IF k < p THEN s[k] ELSE s[k + 1]
    BY ONLY TRUE DEF Removed
  <2>. QED
    BY ONLY <2>1, <2>2
<1>. QED
  BY ONLY <1>1, r = Removed(s, p) DEF IsWithoutEntry

LEMMA WithoutIs ==
  ASSUME NEW S, NEW s \in Seq(S), NEW p \in 1 .. Len(s),
         \A i, j \in 1 .. Len(s) : s[i] = s[j] => i = j
  PROVE  Without(s, s[p]) = Removed(s, p)
<1>1. Place(s, s[p]) = p /\ p # 0
  BY PlaceIs
<1>2. /\ Len(s) \in Nat /\ p \in Nat /\ p - 1 \in 0 .. Len(s) /\ p \in 0 .. Len(s)
      /\ (p - 1) + (Len(s) - p) = Len(s) - 1
  OBVIOUS
<1>. DEFINE u == SubSeq(s, 1, p - 1)
            w == SubSeq(s, p + 1, Len(s))
<1>3. /\ u \in Seq(S) /\ Len(u) = p - 1 /\ \A k \in 1 .. (p - 1) : u[k] = s[k]
  <2>1. PICK m : m = p - 1
    OBVIOUS
  <2>2. m \in 0 .. Len(s)
    BY <1>2, <2>1
  <2>3. /\ Upto(s, m) \in Seq(S) /\ Len(Upto(s, m)) = m
        /\ \A k \in 1 .. m : Upto(s, m)[k] = s[k]
    BY <2>2, PartsAre
  <2>. QED
    BY <2>1, <2>3 DEF Upto
<1>4. /\ w \in Seq(S) /\ Len(w) = Len(s) - p
      /\ \A k \in 1 .. (Len(s) - p) : w[k] = s[k + p]
  <2>1. /\ After(s, p) \in Seq(S) /\ Len(After(s, p)) = Len(s) - p
        /\ \A k \in 1 .. (Len(s) - p) : After(s, p)[k] = s[k + p]
    BY <1>2, PartsAre
  <2>. QED
    BY <2>1 DEF After
<1>5. Without(s, s[p]) = u \o w
  BY <1>1 DEF Without, RemoveAt
<1>. HIDE DEF u, w
<1>6. /\ u \o w \in Seq(S) /\ Len(u \o w) = Len(s) - 1
      /\ \A k \in 1 .. (Len(s) - 1) :
           (u \o w)[k] = IF k <= p - 1 THEN u[k] ELSE w[k - (p - 1)]
  <2>1. /\ u \o w \in Seq(S) /\ Len(u \o w) = Len(u) + Len(w)
        /\ \A k \in 1 .. Len(u) + Len(w) :
             (u \o w)[k] = IF k <= Len(u) THEN u[k] ELSE w[k - Len(u)]
    <3>1. u \in Seq(S) /\ w \in Seq(S)
      BY ONLY <1>3, <1>4
    <3>. QED
      BY ONLY <3>1, ConcatProperties
  <2>. QED
    BY <1>2, <1>3, <1>4, <2>1
<1>7. /\ Removed(s, p) \in Seq(S) /\ Len(Removed(s, p)) = Len(s) - 1
      /\ \A k \in 1 .. (Len(s) - 1) :
           Removed(s, p)[k] = IF k < p THEN s[k] ELSE s[k + 1]
  BY RemovedIs
<1>8. ASSUME NEW k \in 1 .. (Len(s) - 1)
      PROVE  (u \o w)[k] = Removed(s, p)[k]
  <2>1. CASE k < p
    <3>1. k <= p - 1 /\ k \in 1 .. (p - 1)
      BY <1>2, <2>1
    <3>2. (u \o w)[k] = u[k]
      BY ONLY <1>6, <3>1, k \in 1 .. (Len(s) - 1)
    <3>3. u[k] = s[k]
      BY ONLY <1>3, <3>1
    <3>4. Removed(s, p)[k] = s[k]
      BY ONLY <1>7, <2>1, k \in 1 .. (Len(s) - 1)
    <3>. QED
      BY ONLY <3>2, <3>3, <3>4
  <2>2. CASE ~(k < p)
    <3>1. /\ ~(k <= p - 1) /\ k - (p - 1) \in 1 .. (Len(s) - p)
          /\ (k - (p - 1)) + p = k + 1
      BY <1>2, <2>2
    <3>2. PICK m \in 1 .. (Len(s) - p) : m = k - (p - 1)
      BY ONLY <3>1
    <3>3. (u \o w)[k] = w[m]
      BY ONLY <1>6, <3>1, <3>2, k \in 1 .. (Len(s) - 1)
    <3>4. w[m] = s[k + 1]
      BY ONLY <1>4, <3>1, <3>2
    <3>5. Removed(s, p)[k] = s[k + 1]
      BY ONLY <1>7, <2>2, k \in 1 .. (Len(s) - 1)
    <3>. QED
      BY ONLY <3>3, <3>4, <3>5
  <2>. QED
    BY <2>1, <2>2
<1>9. u \o w = Removed(s, p)
  <2>. DEFINE c == u \o w
              r == Removed(s, p)
  <2>1. c \in Seq(S) /\ r \in Seq(S) /\ Len(c) = Len(r) /\ \A k \in 1 .. Len(c) : c[k] = r[k]
    BY <1>6, <1>7, <1>8
  <2>. HIDE DEF c, r
  <2>2. c = r
    BY <2>1, SeqEqual
  <2>. QED
    BY <2>2 DEF c, r
<1>. QED
  BY <1>5, <1>9

\* Two sequences of the same elements are the same.
LEMMA SameSeq ==
  ASSUME NEW S, NEW c, NEW r, c \in Seq(S), r \in Seq(S), NEW n, Len(c) = n, Len(r) = n,
         \A k \in 1 .. n : c[k] = r[k]
  PROVE  c = r
BY SeqEqual

LEMMA InsertedAtEnds ==
  ASSUME NEW S, NEW s \in Seq(S), NEW x \in S
  PROVE  /\ Inserted(s, 1, x) = <<x>> \o s
         /\ Inserted(s, Len(s) + 1, x) = Append(s, x)
<1>. DEFINE L == Len(s)
            e == <<x>>
            one == 1
<1>1. L \in Nat /\ one \in 1 .. (L + 1) /\ L + 1 \in 1 .. (L + 1) /\ one = 1
  OBVIOUS
<1>2. e \in Seq(S) /\ Len(e) = 1 /\ e[1] = x
  OBVIOUS
<1>. HIDE DEF one
<1>3. Inserted(s, one, x) = e \o s
  <2>1. /\ Inserted(s, one, x) \in Seq(S)
        /\ Len(Inserted(s, one, x)) = L + 1
        /\ \A k \in 1 .. (L + 1) :
              Inserted(s, one, x)[k] =
                IF k < one THEN s[k] ELSE IF k = one THEN x ELSE s[k - 1]
    BY <1>1, InsertedIs
  <2>. HIDE DEF e
  <2>2. /\ e \o s \in Seq(S) /\ Len(e \o s) = Len(e) + L
        /\ \A k \in 1 .. Len(e) + L : (e \o s)[k] = IF k <= Len(e) THEN e[k] ELSE s[k - Len(e)]
    BY <1>2, ConcatProperties
  <2>. HIDE DEF L
  <2>3. \A k \in 1 .. (L + 1) : (e \o s)[k] = Inserted(s, one, x)[k]
    <3>1. \A k \in 1 .. (L + 1) : k \in 1 .. 1 + L /\ ~(k < one) /\ (k <= 1 <=> k = one)
      BY <1>1
    <3>2. \A k \in 1 .. 1 + L : (e \o s)[k] = IF k <= 1 THEN e[k] ELSE s[k - 1]
      BY <1>2, <2>2
    <3>. QED
      BY <1>1, <1>2, <2>1, <3>1, <3>2
  <2>4. Len(e \o s) = L + 1
    BY <1>1, <1>2, <2>2
  <2>. QED
    BY <2>1, <2>2, <2>3, <2>4, SameSeq
<1>4. ASSUME NEW p, p = L + 1
      PROVE  Inserted(s, p, x) = Append(s, x)
  <2>. DEFINE a == Append(s, x)
              b == Inserted(s, p, x)
  <2>0. p \in 1 .. (L + 1)
    BY <1>1, <1>4
  <2>1. /\ a \in Seq(S) /\ Len(a) = L + 1 /\ a[L + 1] = x
        /\ \A k \in 1 .. L : a[k] = s[k]
    BY AppendProperties
  <2>2. /\ Inserted(s, p, x) \in Seq(S) /\ Len(Inserted(s, p, x)) = L + 1
        /\ \A k \in 1 .. (L + 1) :
              Inserted(s, p, x)[k] = IF k < p THEN s[k] ELSE IF k = p THEN x ELSE s[k - 1]
    BY ONLY <2>0, s \in Seq(S), x \in S, InsertedIs
  <2>. HIDE DEF a, b, L
  <2>3. \A k \in 1 .. (L + 1) : k = L + 1 \/ (k \in 1 .. L /\ k < L + 1)
    BY <1>1
  <2>4. \A k \in 1 .. (L + 1) : a[k] = b[k]
    BY <1>4, <2>1, <2>2, <2>3 DEF b
  <2>5. b \in Seq(S) /\ Len(b) = L + 1
    BY <2>2 DEF b
  <2>6. a = b
    BY <2>1, <2>4, <2>5, SameSeq
  <2>. QED
    BY <2>6 DEF a, b
<1>5. Inserted(s, L + 1, x) = Append(s, x)
  BY <1>4
<1>. QED
  BY <1>1, <1>3, <1>5 DEF one

LEMMA ReplacedIs ==
  ASSUME NEW S, NEW s \in Seq(S), NEW p \in 1 .. Len(s), NEW x \in S
  PROVE  Inserted(Removed(s, p), p, x) = [s EXCEPT ![p] = x]
<1>. DEFINE L == Len(s)
            r == Removed(s, p)
            a == Inserted(r, p, x)
            b == [s EXCEPT ![p] = x]
<1>1. L \in Nat /\ p \in Nat /\ p \in 1 .. L
  OBVIOUS
<1>2. r \in Seq(S) /\ Len(r) = L - 1
      /\ \A k \in 1 .. (L - 1) : r[k] = IF k < p THEN s[k] ELSE s[k + 1]
  BY RemovedIs
<1>. HIDE DEF r
<1>3. p \in 1 .. (Len(r) + 1) /\ (L - 1) + 1 = L
  BY <1>1, <1>2
<1>4. /\ a \in Seq(S) /\ Len(a) = L
      /\ \A k \in 1 .. L : a[k] = IF k < p THEN r[k] ELSE IF k = p THEN x ELSE r[k - 1]
  <2>1. /\ a \in Seq(S) /\ Len(a) = Len(r) + 1
        /\ \A k \in 1 .. (Len(r) + 1) :
             a[k] = IF k < p THEN r[k] ELSE IF k = p THEN x ELSE r[k - 1]
    BY <1>2, <1>3, InsertedIs
  <2>. QED
    BY <1>2, <1>3, <2>1
<1>5. /\ b \in Seq(S) /\ Len(b) = L
      /\ \A k \in 1 .. L : b[k] = IF k = p THEN x ELSE s[k]
  BY ExceptSeq
<1>. HIDE DEF a, b, L
<1>6. \A k \in 1 .. L : /\ k < p => k \in 1 .. (L - 1) /\ k # p
                        /\ ~(k < p) /\ k # p => /\ k - 1 \in 1 .. (L - 1) /\ ~(k - 1 < p)
                                                /\ (k - 1) + 1 = k
  BY <1>1
<1>7. \A k \in 1 .. L : a[k] = b[k]
  BY <1>2, <1>4, <1>5, <1>6
<1>8. a = b
  BY <1>4, <1>5, <1>7, SameSeq
<1>. QED
  BY <1>8 DEF a, b, r

LEMMA SplicedAtEnds ==
  ASSUME NEW S, NEW s \in Seq(S), NEW q \in Seq(S)
  PROVE  /\ Spliced(s, 1, q) = q \o s
         /\ Spliced(s, Len(s) + 1, q) = s \o q
<1>. DEFINE L == Len(s)
            M == Len(q)
<1>1. L \in Nat /\ M \in Nat
  OBVIOUS
<1>2. ASSUME NEW p, p = 1
      PROVE  Spliced(s, p, q) = q \o s
  <2>. DEFINE a == Spliced(s, p, q)
              b == q \o s
  <2>1. p \in 1 .. (Len(s) + 1)
    BY <1>1, <1>2
  <2>2. /\ a \in Seq(S) /\ Len(a) = L + M
        /\ \A k \in 1 .. (L + M) :
             a[k] = IF k < p THEN s[k] ELSE IF k < p + M THEN q[k - p + 1] ELSE s[k - M]
    BY <2>1, SplicedIs
  <2>3. /\ b \in Seq(S) /\ Len(b) = M + L
        /\ \A k \in 1 .. M + L : b[k] = IF k <= M THEN q[k] ELSE s[k - M]
    BY ConcatProperties
  <2>. HIDE DEF a, b, L, M
  <2>4. \A k \in 1 .. (L + M) : /\ k \in 1 .. M + L /\ ~(k < p)
                                /\ (k < p + M <=> k <= M) /\ k - p + 1 = k
    BY <1>1, <1>2
  <2>5. L + M = M + L
    BY <1>1
  <2>6. \A k \in 1 .. (L + M) : a[k] = b[k]
    BY <2>2, <2>3, <2>4
  <2>7. a = b
    BY <2>2, <2>3, <2>5, <2>6, SameSeq
  <2>. QED
    BY <2>7 DEF a, b
<1>3. ASSUME NEW p, p = L + 1
      PROVE  Spliced(s, p, q) = s \o q
  <2>. DEFINE a == Spliced(s, p, q)
              b == s \o q
  <2>1. p \in 1 .. (Len(s) + 1)
    BY <1>1, <1>3
  <2>2. /\ a \in Seq(S) /\ Len(a) = L + M
        /\ \A k \in 1 .. (L + M) :
             a[k] = IF k < p THEN s[k] ELSE IF k < p + M THEN q[k - p + 1] ELSE s[k - M]
    BY <2>1, SplicedIs
  <2>3. /\ b \in Seq(S) /\ Len(b) = L + M
        /\ \A k \in 1 .. L + M : b[k] = IF k <= L THEN s[k] ELSE q[k - L]
    BY ConcatProperties
  <2>. HIDE DEF a, b, L, M
  <2>4. \A k \in 1 .. (L + M) : /\ (k < p <=> k <= L)
                                /\ k < p + M /\ k - p + 1 = k - L
    BY <1>1, <1>3
  <2>6. \A k \in 1 .. (L + M) : a[k] = b[k]
    BY <2>2, <2>3, <2>4
  <2>7. a = b
    BY <2>2, <2>3, <2>6, SameSeq
  <2>. QED
    BY <2>7 DEF a, b
<1>4. L + 1 = L + 1
  OBVIOUS
<1>. QED
  BY <1>2, <1>3

-----------------------------------------------------------------------------
(* Operations on one entry.                                                *)

\* What is between the places of a list.
LEMMA Ends ==
  ASSUME NEW h, NEW U, NEW s, Spells(h, U, s), NEW l \in U
  PROVE  /\ RingAt(s[l], l, 0) = l /\ RingAt(s[l], l, Len(s[l]) + 1) = l
         /\ h.next[l] = RingAt(s[l], l, 1)
         /\ h.prev[l] = RingAt(s[l], l, Len(s[l]))
         /\ list_empty(h, l) <=> Len(s[l]) = 0
         /\ list_empty(h, l) <=> s[l] = <<>>
<1>1. PICK q : q = s[l]
  OBVIOUS
<1>2. IsHeap(h, N) /\ IsRing(h, N, l, q) /\ l \in N /\ l \notin Nodes
      /\ \A k \in 1 .. Len(q) : q[k] \in Nodes
  BY <1>1, ListFacts
<1>3. /\ q \in Seq(N) /\ Len(q) \in Nat
      /\ RingAt(q, l, 0) = l /\ RingAt(q, l, Len(q) + 1) = l
      /\ \A k \in 1 .. Len(q) : RingAt(q, l, k) = q[k]
      /\ \A k \in 0 .. Len(q) :
           /\ h.next[RingAt(q, l, k)] = RingAt(q, l, k + 1)
           /\ h.prev[RingAt(q, l, k + 1)] = RingAt(q, l, k)
  BY <1>2, RingFacts
<1>4. 0 \in 0 .. Len(q) /\ 0 + 1 = 1 /\ Len(q) \in 0 .. Len(q)
  BY <1>3
<1>5. h.next[l] = RingAt(q, l, 1) /\ h.prev[l] = RingAt(q, l, Len(q))
  BY <1>3, <1>4
<1>6. list_empty(h, l) <=> Len(q) = 0
  <2>1. CASE Len(q) = 0
    BY <1>3, <1>5, <2>1 DEF list_empty
  <2>2. CASE Len(q) # 0
    <3>1. 1 \in 1 .. Len(q)
      BY <1>3, <2>2
    <3>. QED
      BY <1>2, <1>3, <1>5, <2>2, <3>1 DEF list_empty
  <2>. QED
    BY <2>1, <2>2
<1>7. Len(q) = 0 <=> q = <<>>
  BY <1>3
<1>. QED
  BY <1>1, <1>3, <1>5, <1>6, <1>7

\* A new entry goes in at place p.
LEMMA AddAt ==
  ASSUME NEW h, NEW U, NEW s, Spells(h, U, s), NEW l \in U,
         NEW x \in Nodes, OffLists(U, s, x), NEW p \in 1 .. (Len(s[l]) + 1),
         NEW f, f = list_add_between(h, x, RingAt(s[l], l, p - 1), RingAt(s[l], l, p))
  PROVE  Spells(f, U, [s EXCEPT ![l] = Inserted(s[l], p, x)])
<1>1. PICK q : q = s[l]
  OBVIOUS
<1>2. /\ IsHeap(h, N) /\ IsRing(h, N, l, q) /\ l \in N /\ l \notin Nodes
      /\ q \in Seq(Nodes) /\ Len(q) \in Nat
  BY <1>1, ListFacts
<1>3. x \in N
  BY NodeSets
<1>4. \A k \in 0 .. Len(q) : RingAt(q, l, k) # x
  <2>1. \A k \in 1 .. Len(q) : q[k] # x
    BY <1>1 DEF OffLists
  <2>. QED
    BY <1>2, <2>1 DEF RingAt
<1>5. p \in 1 .. (Len(q) + 1) /\ f = list_add_between(h, x, RingAt(q, l, p - 1), RingAt(q, l, p))
  BY <1>1
<1>6. PICK r : r = Inserted(q, p, x)
  OBVIOUS
<1>7. /\ IsHeap(f, N)
      /\ IsRing(f, N, l, r)
      /\ \A y \in N : (\A k \in 0 .. Len(q) : RingAt(q, l, k) # y) /\ y # x =>
           f.next[y] = h.next[y] /\ f.prev[y] = h.prev[y]
  BY ONLY <1>2, <1>3, <1>4, <1>5, <1>6, AddBetween
<1>8. /\ r \in Seq(Nodes) /\ Len(r) = Len(q) + 1
      /\ \A k \in 1 .. (Len(q) + 1) :
           r[k] = IF k < p THEN q[k] ELSE IF k = p THEN x ELSE q[k - 1]
  <2>1. q \in Seq(Nodes) /\ p \in 1 .. (Len(q) + 1)
    BY ONLY <1>2, <1>5
  <2>2. IsWithEntry(r, Nodes, q, p, x)
    BY ONLY <2>1, <1>6, x \in Nodes, InsertedHas
  <2>. QED
    BY ONLY <2>2 DEF IsWithEntry
<1>9. \A i \in 1 .. Len(r) : r[i] \in {x} \/ \E k \in 1 .. Len(q) : r[i] = q[k]
  <2>1. \A i \in 1 .. Len(r) :
          /\ i \in 1 .. (Len(q) + 1)
          /\ i < p => i \in 1 .. Len(q)
          /\ ~(i < p) /\ i # p => i - 1 \in 1 .. Len(q)
    BY <1>2, <1>5, <1>8
  <2>. QED
    BY <1>8, <2>1
<1>10. {x} \in SUBSET N /\ {x} \cap U = {} /\ \A y \in {x} : OffLists(U, s, y)
  BY <1>3, NodeSets DEF Spells
<1>11. Spells(f, U, [s EXCEPT ![l] = r])
  <2>1. PICK X : X = {x}
    OBVIOUS
  <2>2. Unused(U, s, X) /\ ChangesOnly(f, h, l, q, X) /\ MadeOf(r, q, X)
    BY <1>7, <1>9, <1>10, <2>1 DEF Unused, ChangesOnly, MadeOf
  <2>. QED
    BY ONLY <1>1, <1>7, <1>8, <2>2, Spells(h, U, s), l \in U, OneListChanges
<1>. QED
  BY <1>1, <1>6, <1>11

\* An entry goes out, and is on no list then.
LEMMA TakeOut ==
  ASSUME NEW h, NEW U, NEW s, Spells(h, U, s), NEW l \in U, NEW p \in 1 .. Len(s[l]),
         NEW f, f = list_del_entry(h, s[l][p])
  PROVE  LET t == [s EXCEPT ![l] = Removed(s[l], p)]
         IN  Spells(f, U, t) /\ OffLists(U, t, s[l][p])
<1>1. PICK q : q = s[l]
  OBVIOUS
<1>2. /\ IsHeap(h, N) /\ IsRing(h, N, l, q) /\ l \in N /\ l \notin Nodes
      /\ q \in Seq(Nodes) /\ Len(q) \in Nat
      /\ \A i, j \in 1 .. Len(q) : q[i] = q[j] => i = j
  BY <1>1, ListFacts
<1>3. PICK x : x = q[p]
  OBVIOUS
<1>4. p \in 1 .. Len(q) /\ f = list_del_entry(h, x) /\ x = RingAt(q, l, p)
  BY <1>1, <1>3 DEF RingAt
<1>5. PICK r : r = Removed(q, p)
  OBVIOUS
<1>6. /\ IsHeap(f, N)
      /\ IsRing(f, N, l, r)
      /\ \A y \in N : (\A k \in 0 .. Len(q) : RingAt(q, l, k) # y) =>
           f.next[y] = h.next[y] /\ f.prev[y] = h.prev[y]
  BY ONLY <1>2, <1>4, <1>5, DelEntry
<1>7. /\ r \in Seq(Nodes) /\ Len(r) = Len(q) - 1
      /\ \A k \in 1 .. (Len(q) - 1) : r[k] = IF k < p THEN q[k] ELSE q[k + 1]
  <2>1. q \in Seq(Nodes) /\ p \in 1 .. Len(q) /\ r = Removed(q, p)
    BY ONLY <1>2, <1>4, <1>5
  <2>2. IsWithoutEntry(r, Nodes, q, p)
    BY ONLY <2>1, RemovedHas
  <2>. QED
    BY ONLY <2>2 DEF IsWithoutEntry
<1>8. /\ \A i \in 1 .. Len(r) : \E k \in 1 .. Len(q) : r[i] = q[k]
      /\ \A i \in 1 .. Len(r) : r[i] # x
  <2>1. \A i \in 1 .. Len(r) :
          /\ i \in 1 .. (Len(q) - 1) /\ i \in 1 .. Len(q) /\ i + 1 \in 1 .. Len(q)
          /\ i < p => i # p
          /\ ~(i < p) => i + 1 # p
    BY <1>2, <1>4, <1>7
  <2>2. ASSUME NEW i \in 1 .. Len(r)
        PROVE  r[i] # x /\ \E k \in 1 .. Len(q) : r[i] = q[k]
    <3>0. /\ i \in 1 .. (Len(q) - 1) /\ i \in 1 .. Len(q) /\ i + 1 \in 1 .. Len(q)
          /\ r[i] = IF i < p THEN q[i] ELSE q[i + 1]
      BY <1>7, <2>1
    <3>1. CASE i < p
      BY <1>2, <1>3, <1>4, <2>1, <3>0, <3>1
    <3>2. CASE ~(i < p)
      <4>1. i + 1 # p /\ r[i] = q[i + 1]
        BY <2>1, <3>0, <3>2
      <4>. QED
        BY <1>2, <1>3, <1>4, <3>0, <4>1
    <3>. QED
      BY <3>1, <3>2
  <2>. QED
    BY <2>2
<1>9. Spells(f, U, [s EXCEPT ![l] = r])
  <2>1. PICK X : X = {}
    OBVIOUS
  <2>2. Unused(U, s, X) /\ ChangesOnly(f, h, l, q, X) /\ MadeOf(r, q, X)
    BY <1>6, <1>8, <2>1 DEF Unused, ChangesOnly, MadeOf
  <2>. QED
    BY ONLY <1>1, <1>6, <1>7, <2>2, Spells(h, U, s), l \in U, OneListChanges
<1>10. OffLists(U, [s EXCEPT ![l] = r], x)
  <2>1. /\ s \in [U -> Seq(Nodes)]
        /\ \A k \in U : k # l => \A j \in 1 .. Len(s[k]) : s[l][p] # s[k][j]
    BY DEF Spells
  <2>2. \A k \in U : [s EXCEPT ![l] = r][k] = IF k = l THEN r ELSE s[k]
    BY <2>1
  <2>. QED
    BY <1>1, <1>3, <1>8, <2>1, <2>2 DEF OffLists
<1>. QED
  BY <1>1, <1>3, <1>5, <1>9, <1>10

\* The pointers of an entry that is on no list.
LEMMA SetIdle ==
  ASSUME NEW h, NEW U, NEW s, Spells(h, U, s), NEW x \in N, x \notin U, OffLists(U, s, x),
         NEW u \in Links(N), NEW v \in Links(N), NEW f, f = SetBoth(h, x, u, v)
  PROVE  Spells(f, U, s)
<1>1. IsHeap(h, N)
  BY DEF Spells
<1>2. IsHeap(f, N) /\ \A y \in N \ {x} : SameLinks(f, h, y)
  BY <1>1, SetBothIs DEF SameLinks
<1>3. ASSUME NEW l \in U
      PROVE  IsRing(f, N, l, s[l])
  <2>1. l \in N /\ \A k \in 1 .. Len(s[l]) : s[l][k] \in N
    BY ListFacts
  <2>2. SameLinks(f, h, l) /\ \A k \in 1 .. Len(s[l]) : SameLinks(f, h, s[l][k])
    BY <1>2, <2>1 DEF OffLists
  <2>. QED
    BY <2>2, ListStays
<1>. QED
  BY <1>2, <1>3 DEF Spells

\* list_add and list_add_tail.
LEMMA Adds ==
  ASSUME NEW h, NEW U, NEW s, Spells(h, U, s), NEW l \in U,
         NEW x \in Nodes, OffLists(U, s, x)
  PROVE  /\ Spells(list_add(h, x, l), U, [s EXCEPT ![l] = <<x>> \o s[l]])
         /\ Spells(list_add_tail(h, x, l), U, [s EXCEPT ![l] = Append(s[l], x)])
<1>1. s[l] \in Seq(Nodes) /\ Len(s[l]) \in Nat
  BY ListFacts
<1>2. Inserted(s[l], 1, x) = <<x>> \o s[l] /\ Inserted(s[l], Len(s[l]) + 1, x) = Append(s[l], x)
  BY <1>1, InsertedAtEnds
<1>3. /\ RingAt(s[l], l, 0) = l /\ RingAt(s[l], l, Len(s[l]) + 1) = l
      /\ h.next[l] = RingAt(s[l], l, 1) /\ h.prev[l] = RingAt(s[l], l, Len(s[l]))
  BY Ends
<1>4. ASSUME NEW p, p = 1, NEW f, f = list_add(h, x, l)
      PROVE  Spells(f, U, [s EXCEPT ![l] = Inserted(s[l], p, x)])
  <2>1. p \in 1 .. (Len(s[l]) + 1) /\ p - 1 = 0
    BY <1>1, <1>4
  <2>2. f = list_add_between(h, x, RingAt(s[l], l, p - 1), RingAt(s[l], l, p))
    BY <1>3, <1>4, <2>1 DEF list_add
  <2>. QED
    BY <2>1, <2>2, AddAt
<1>5. ASSUME NEW p, p = Len(s[l]) + 1, NEW f, f = list_add_tail(h, x, l)
      PROVE  Spells(f, U, [s EXCEPT ![l] = Inserted(s[l], p, x)])
  <2>1. p \in 1 .. (Len(s[l]) + 1) /\ p - 1 = Len(s[l])
    BY <1>1, <1>5
  <2>2. f = list_add_between(h, x, RingAt(s[l], l, p - 1), RingAt(s[l], l, p))
    BY <1>3, <1>5, <2>1 DEF list_add_tail
  <2>. QED
    BY <2>1, <2>2, AddAt
<1>6. Spells(list_add(h, x, l), U, [s EXCEPT ![l] = Inserted(s[l], 1, x)])
  BY <1>4
<1>7. Spells(list_add_tail(h, x, l), U, [s EXCEPT ![l] = Inserted(s[l], Len(s[l]) + 1, x)])
  BY <1>5
<1>. QED
  BY <1>2, <1>6, <1>7

\* The sequences without an entry of one of them.
LEMMA WithoutEntry ==
  ASSUME NEW h, NEW U, NEW s, Spells(h, U, s), NEW l \in U, NEW p \in 1 .. Len(s[l])
  PROVE  Without(s[l], s[l][p]) = Removed(s[l], p)
<1>1. /\ s[l] \in Seq(Nodes)
      /\ \A i, j \in 1 .. Len(s[l]) : s[l][i] = s[l][j] => i = j
  BY ListFacts
<1>. QED
  BY <1>1, WithoutIs

\* What every way to delete has in common.
Deleted(f, U, s, l, x) ==
  /\ Spells(f, U, [s EXCEPT ![l] = Without(s[l], x)])
  /\ OffLists(U, [s EXCEPT ![l] = Without(s[l], x)], x)

\* __list_del_entry, list_del and list_del_init.
LEMMA Deletes ==
  ASSUME NEW h, NEW U, NEW s, Spells(h, U, s), NEW l \in U,
         NEW p \in 1 .. Len(s[l]), NEW x, x = s[l][p]
  PROVE  /\ Deleted(list_del_entry(h, x), U, s, l, x)
         /\ Deleted(list_del(h, x), U, s, l, x)
         /\ Deleted(list_del_init(h, x), U, s, l, x)
         /\ list_del(h, x).next[x] = LIST_POISON1 /\ list_del_init(h, x).next[x] = x
<1>1. PICK g : g = list_del_entry(h, x)
  OBVIOUS
<1>2. PICK t : t = [s EXCEPT ![l] = Without(s[l], x)]
  OBVIOUS
<1>3. Spells(g, U, t) /\ OffLists(U, t, x)
  <2>1. Removed(s[l], p) = Without(s[l], x)
    BY WithoutEntry
  <2>. QED
    BY <1>1, <1>2, <2>1, TakeOut
<1>4. x \in N /\ x \notin U /\ x \in Links(N)
  <2>1. x \in Nodes
    BY ListFacts
  <2>. QED
    BY <2>1, NodeSets DEF Spells
<1>5. /\ list_del(h, x) = SetBoth(g, x, LIST_POISON1, LIST_POISON2)
      /\ list_del_init(h, x) = SetBoth(g, x, x, x)
  BY <1>1 DEF list_del, list_del_init, INIT_LIST_HEAD, SetBoth
<1>6. Spells(list_del(h, x), U, t) /\ Spells(list_del_init(h, x), U, t)
  BY <1>3, <1>4, <1>5, NodeSets, SetIdle
<1>7. list_del(h, x).next[x] = LIST_POISON1 /\ list_del_init(h, x).next[x] = x
  <2>1. IsHeap(g, N)
    BY <1>3 DEF Spells
  <2>. QED
    BY <1>4, <1>5, <2>1, NodeSets, SetBothIs
<1>. QED
  BY <1>1, <1>2, <1>3, <1>6, <1>7 DEF Deleted

\* list_move and list_move_tail, from one list to another or the same.
LEMMA Moves ==
  ASSUME NEW h, NEW U, NEW s, Spells(h, U, s), NEW l \in U,
         NEW p \in 1 .. Len(s[l]), NEW x, x = s[l][p], NEW k \in U,
         NEW t, t = [s EXCEPT ![l] = Without(s[l], x)]
  PROVE  /\ Spells(list_move(h, x, k), U, [t EXCEPT ![k] = <<x>> \o t[k]])
         /\ Spells(list_move_tail(h, x, k), U, [t EXCEPT ![k] = Append(t[k], x)])
<1>1. PICK g : g = list_del_entry(h, x)
  OBVIOUS
<1>2. Spells(g, U, t) /\ OffLists(U, t, x)
  BY <1>1, Deletes DEF Deleted
<1>3. x \in Nodes
  BY ListFacts
<1>4. list_move(h, x, k) = list_add(g, x, k) /\ list_move_tail(h, x, k) = list_add_tail(g, x, k)
  BY <1>1 DEF list_move, list_move_tail
<1>5. /\ Spells(list_add(g, x, k), U, [t EXCEPT ![k] = <<x>> \o t[k]])
      /\ Spells(list_add_tail(g, x, k), U, [t EXCEPT ![k] = Append(t[k], x)])
  BY ONLY <1>2, <1>3, k \in U, Adds
<1>. QED
  BY <1>4, <1>5

\* list_replace and list_replace_init.
LEMMA Replaces ==
  ASSUME NEW h, NEW U, NEW s, Spells(h, U, s), NEW l \in U,
         NEW p \in 1 .. Len(s[l]), NEW x \in Nodes, OffLists(U, s, x)
  PROVE  /\ Spells(list_replace(h, s[l][p], x), U, [s EXCEPT ![l] = [s[l] EXCEPT ![p] = x]])
         /\ Spells(list_replace_init(h, s[l][p], x), U, [s EXCEPT ![l] = [s[l] EXCEPT ![p] = x]])
<1>1. PICK q : q = s[l]
  OBVIOUS
<1>2. /\ IsHeap(h, N) /\ IsRing(h, N, l, q) /\ l \in N /\ l \notin Nodes
      /\ q \in Seq(Nodes) /\ Len(q) \in Nat
      /\ \A i, j \in 1 .. Len(q) : q[i] = q[j] => i = j
      /\ \A k \in 1 .. Len(q) : q[k] \in Nodes
  BY <1>1, ListFacts
<1>3. x \in N /\ p \in 1 .. Len(q)
  BY <1>1, NodeSets
<1>4. \A k \in 0 .. Len(q) : RingAt(q, l, k) # x
  <2>1. \A k \in 1 .. Len(q) : q[k] # x
    BY <1>1 DEF OffLists
  <2>. QED
    BY <1>2, <2>1 DEF RingAt
<1>5. PICK f : f = list_replace(h, q[p], x)
  OBVIOUS
<1>6. PICK r : r = [q EXCEPT ![p] = x]
  OBVIOUS
<1>7. /\ IsHeap(f, N)
      /\ IsRing(f, N, l, Inserted(Removed(q, p), p, x))
      /\ \A y \in N : (\A k \in 0 .. Len(q) : RingAt(q, l, k) # y) /\ y # x =>
           f.next[y] = h.next[y] /\ f.prev[y] = h.prev[y]
  BY ONLY <1>2, <1>3, <1>4, <1>5, ReplaceEntry
<1>8. Inserted(Removed(q, p), p, x) = r
  BY ONLY <1>2, <1>3, <1>6, x \in Nodes, ReplacedIs
<1>9. /\ r \in Seq(Nodes) /\ Len(r) = Len(q)
      /\ \A k \in 1 .. Len(q) : r[k] = IF k = p THEN x ELSE q[k]
  BY ONLY <1>2, <1>3, <1>6, x \in Nodes, ExceptSeq
<1>10. Spells(f, U, [s EXCEPT ![l] = r])
  <2>1. PICK X : X = {x}
    OBVIOUS
  <2>2. {x} \in SUBSET N /\ {x} \cap U = {} /\ \A y \in {x} : OffLists(U, s, y)
    BY <1>3, NodeSets DEF Spells
  <2>3. \A i \in 1 .. Len(r) : r[i] = x \/ \E k \in 1 .. Len(q) : r[i] = q[k]
    BY <1>9
  <2>4. Unused(U, s, X) /\ ChangesOnly(f, h, l, q, X) /\ MadeOf(r, q, X)
    BY <1>7, <2>1, <2>2, <2>3 DEF Unused, ChangesOnly, MadeOf
  <2>5. IsRing(f, N, l, r)
    BY <1>7, <1>8
  <2>. QED
    BY ONLY <1>1, <1>7, <1>9, <2>4, <2>5, Spells(h, U, s), l \in U, OneListChanges
<1>11. OffLists(U, [s EXCEPT ![l] = r], q[p])
  <2>1. /\ s \in [U -> Seq(Nodes)]
        /\ \A k \in U : k # l => \A j \in 1 .. Len(s[k]) : s[l][p] # s[k][j]
    BY DEF Spells
  <2>2. \A k \in U : [s EXCEPT ![l] = r][k] = IF k = l THEN r ELSE s[k]
    BY <2>1
  <2>3. \A i \in 1 .. Len(r) : r[i] # q[p]
    <3>1. q[p] # x
      BY <1>1, <1>3 DEF OffLists
    <3>. QED
      BY <1>2, <1>3, <1>9, <3>1
  <2>. QED
    BY <1>1, <2>1, <2>2, <2>3 DEF OffLists
<1>12. PICK o : o = q[p]
  OBVIOUS
<1>13. PICK t : t = [s EXCEPT ![l] = r]
  OBVIOUS
<1>14. PICK g : g = list_replace_init(h, o, x)
  OBVIOUS
<1>15. Spells(g, U, t)
  <2>1. g = SetBoth(f, o, o, o)
    BY <1>5, <1>12, <1>14 DEF list_replace_init, INIT_LIST_HEAD, SetBoth
  <2>2. o \in N /\ o \notin U /\ o \in Links(N)
    BY <1>2, <1>3, <1>12, NodeSets DEF Spells
  <2>. QED
    BY <1>10, <1>11, <1>12, <1>13, <2>1, <2>2, SetIdle
<1>. QED
  BY <1>1, <1>5, <1>6, <1>10, <1>12, <1>13, <1>14, <1>15

-----------------------------------------------------------------------------
(* Operations on whole lists.  They change the lists of D and make those   *)
(* of E from them, with the heads of X.                                    *)

Touches(f, h, s, D, X) ==
  \A y \in N :
    y \notin X /\ (\A m \in D : \A k \in 0 .. Len(s[m]) : RingAt(s[m], m, k) # y)
      => SameLinks(f, h, y)

\* The lists of E have the entries of those of D, and no two the same.
Remade(s, t, D, E) ==
  /\ \A m \in E : \A i \in 1 .. Len(t[m]) : \E d \in D : \E j \in 1 .. Len(s[d]) : t[m][i] = s[d][j]
  /\ \A m, k \in E : m # k =>
       \A i \in 1 .. Len(t[m]), j \in 1 .. Len(t[k]) : t[m][i] # t[k][j]

\* All other lists are what they were.
OthersSame(U, s, V, t, D, X, E) ==
  \A m \in V \ E : m \in U \ D /\ m \notin X /\ t[m] = s[m]

LEMMA RingsChange ==
  ASSUME NEW h, NEW U, NEW s, Spells(h, U, s),
         NEW D, D \subseteq U, NEW X, X \subseteq Heads,
         NEW f, IsHeap(f, N), Touches(f, h, s, D, X),
         NEW V, V \subseteq Heads, NEW t, t \in [V -> Seq(Nodes)],
         NEW E, E \subseteq V, \A m \in E : IsRing(f, N, m, t[m]),
         Remade(s, t, D, E), OthersSame(U, s, V, t, D, X, E)
  PROVE  Spells(f, V, t)
<1>1. /\ U \subseteq Heads /\ s \in [U -> Seq(Nodes)]
      /\ \A k, m \in U : k # m =>
           \A i \in 1 .. Len(s[k]), j \in 1 .. Len(s[m]) : s[k][i] # s[m][j]
  BY DEF Spells
<1>2. ASSUME NEW m \in V \ E
      PROVE  IsRing(f, N, m, t[m])
  <2>1. m \in U /\ m \notin D /\ m \notin X /\ t[m] = s[m]
    BY DEF OthersSame
  <2>2. /\ m \in N /\ m \notin Nodes
        /\ \A i \in 1 .. Len(s[m]) : s[m][i] \in N /\ s[m][i] \in Nodes
    BY <2>1, ListFacts
  <2>3. ASSUME NEW y \in N, y = m \/ \E i \in 1 .. Len(s[m]) : y = s[m][i]
        PROVE  SameLinks(f, h, y)
    <3>1. y \notin X
      BY <2>1, <2>2, <2>3, NodeSets
    <3>2. ASSUME NEW d \in D, NEW k \in 0 .. Len(s[d]), RingAt(s[d], d, k) = y
          PROVE  FALSE
      <4>0. d \in U /\ d # m
        BY <2>1
      <4>1. y = d \/ \E j \in 1 .. Len(s[d]) : y = s[d][j]
        BY <3>2, <4>0, ListPlaces
      <4>2. d \notin Nodes /\ \A j \in 1 .. Len(s[d]) : s[d][j] \in Nodes
        BY <4>0, ListFacts
      <4>3. \A i \in 1 .. Len(s[m]), j \in 1 .. Len(s[d]) : s[m][i] # s[d][j]
        BY <1>1, <2>1, <4>0
      <4>. QED
        BY <2>2, <2>3, <4>0, <4>1, <4>2, <4>3
    <3>. QED
      BY <3>1, <3>2 DEF Touches
  <2>4. SameLinks(f, h, m) /\ \A i \in 1 .. Len(s[m]) : SameLinks(f, h, s[m][i])
    BY <2>2, <2>3
  <2>5. IsRing(f, N, m, s[m])
    BY <2>1, <2>4, ListStays
  <2>. QED
    BY <2>1, <2>5
<1>3. ASSUME NEW m \in E, NEW k \in V \ E, NEW i \in 1 .. Len(t[m]), NEW j \in 1 .. Len(t[k])
      PROVE  t[m][i] # t[k][j]
  <2>1. k \in U /\ k \notin D /\ t[k] = s[k]
    BY DEF OthersSame
  <2>2. PICK d \in D : \E n \in 1 .. Len(s[d]) : t[m][i] = s[d][n]
    BY DEF Remade
  <2>3. d \in U /\ d # k
    BY <2>1
  <2>. QED
    BY <1>1, <2>1, <2>2, <2>3
<1>4. ASSUME NEW m \in V, NEW k \in V, m # k,
             NEW i \in 1 .. Len(t[m]), NEW j \in 1 .. Len(t[k])
      PROVE  t[m][i] # t[k][j]
  <2>1. CASE m \in E /\ k \in E
    BY <1>4, <2>1 DEF Remade
  <2>2. CASE m \in E /\ k \notin E
    BY <1>3, <2>2
  <2>3. CASE m \notin E /\ k \in E
    BY <1>3, <2>3
  <2>4. CASE m \notin E /\ k \notin E
    <3>1. m \in U /\ k \in U /\ t[m] = s[m] /\ t[k] = s[k]
      BY <2>4 DEF OthersSame
    <3>. QED
      BY <1>1, <1>4, <3>1
  <2>. QED
    BY <2>1, <2>2, <2>3, <2>4
<1>5. \A m \in V : IsRing(f, N, m, t[m])
  BY <1>2
<1>. QED
  BY <1>4, <1>5 DEF Spells

\* The lists with an empty one more.
Emptied(U, s, l) == [m \in U \cup {l} |-> IF m = l THEN <<>> ELSE s[m]]

\* INIT_LIST_HEAD of a head that is not in use.
LEMMA Initialises ==
  ASSUME NEW h, NEW U, NEW s, Spells(h, U, s), NEW l \in Heads, l \notin U,
         NEW f, f = INIT_LIST_HEAD(h, l)
  PROVE  Spells(f, U \cup {l}, Emptied(U, s, l))
<1>1. l \in N /\ IsHeap(h, N)
  BY NodeSets DEF Spells
<1>2. /\ IsHeap(f, N) /\ IsRing(f, N, l, <<>>)
      /\ \A y \in N \ {l} : f.next[y] = h.next[y] /\ f.prev[y] = h.prev[y]
  BY <1>1, InitHead
<1>3. PICK V : V = U \cup {l}
  OBVIOUS
<1>4. PICK t : t = [m \in V |-> IF m = l THEN <<>> ELSE s[m]]
  OBVIOUS
<1>5. PICK D : D = {}
  OBVIOUS
<1>6. PICK X : X = {l}
  OBVIOUS
<1>7. s \in [U -> Seq(Nodes)] /\ U \subseteq Heads
  BY DEF Spells
<1>8. <<>> \in Seq(Nodes) /\ Len(<<>>) = 0
  OBVIOUS
<1>9. t \in [V -> Seq(Nodes)] /\ t[l] = <<>> /\ \A m \in V \ {l} : t[m] = s[m] /\ m \in U
  BY <1>3, <1>4, <1>7, <1>8
<1>10. Touches(f, h, s, D, X)
  BY <1>2, <1>6 DEF Touches, SameLinks
<1>11. Remade(s, t, D, X) /\ OthersSame(U, s, V, t, D, X, X)
  <2>1. \A i \in 1 .. Len(t[l]) : FALSE
    BY <1>8, <1>9
  <2>. QED
    BY <1>5, <1>6, <1>9, <2>1 DEF Remade, OthersSame
<1>12. D \subseteq U /\ X \subseteq Heads /\ V \subseteq Heads /\ X \subseteq V
  BY <1>3, <1>5, <1>6, <1>7
<1>13. \A m \in X : IsRing(f, N, m, t[m])
  BY <1>2, <1>6, <1>9
<1>14. Spells(f, V, t)
  BY ONLY <1>2, <1>9, <1>10, <1>11, <1>12, <1>13, Spells(h, U, s), RingsChange
<1>. QED
  BY <1>3, <1>4, <1>14 DEF Emptied

\* Two lists have no place in common.
LEMMA PlacesApart ==
  ASSUME NEW h, NEW U, NEW s, Spells(h, U, s), NEW l \in U, NEW k \in U, l # k
  PROVE  \A i \in 0 .. Len(s[l]), j \in 0 .. Len(s[k]) : RingAt(s[l], l, i) # RingAt(s[k], k, j)
<1>1. \A i \in 1 .. Len(s[l]), j \in 1 .. Len(s[k]) : s[l][i] # s[k][j]
  BY DEF Spells
<1>2. /\ l \notin Nodes /\ k \notin Nodes
      /\ \A i \in 1 .. Len(s[l]) : s[l][i] \in Nodes
      /\ \A j \in 1 .. Len(s[k]) : s[k][j] \in Nodes
  BY ListFacts
<1>3. ASSUME NEW i \in 0 .. Len(s[l]), NEW j \in 0 .. Len(s[k])
      PROVE  RingAt(s[l], l, i) # RingAt(s[k], k, j)
  <2>1. RingAt(s[l], l, i) = l \/ (i \in 1 .. Len(s[l]) /\ RingAt(s[l], l, i) = s[l][i])
    BY ListPlaces
  <2>2. RingAt(s[k], k, j) = k \/ (j \in 1 .. Len(s[k]) /\ RingAt(s[k], k, j) = s[k][j])
    BY ListPlaces
  <2>. QED
    BY <1>1, <1>2, <2>1, <2>2
<1>. QED
  BY <1>3

\* A head outside the lists, or of an empty list, is at no place of another.
LEMMA HeadApart ==
  ASSUME NEW h, NEW U, NEW s, Spells(h, U, s), NEW l \in U, NEW k \in Heads, l # k
  PROVE  \A i \in 0 .. Len(s[l]) : RingAt(s[l], l, i) # k
<1>1. k \notin Nodes /\ \A i \in 1 .. Len(s[l]) : s[l][i] \in Nodes
  BY ListFacts, NodeSets
<1>2. ASSUME NEW i \in 0 .. Len(s[l])
      PROVE  RingAt(s[l], l, i) # k
  <2>1. RingAt(s[l], l, i) = l \/ (i \in 1 .. Len(s[l]) /\ RingAt(s[l], l, i) = s[l][i])
    BY ListPlaces
  <2>. QED
    BY <1>1, <2>1
<1>. QED
  BY <1>2

\* The lists when those of l have gone to the list of to, which is q then.
Joined(U, s, l, to, q) == [m \in U \ {l} |-> IF m = to THEN q ELSE s[m]]

\* __list_splice: the head that was spliced away is not in use any more.
LEMMA SplicesAt ==
  ASSUME NEW h, NEW U, NEW s, Spells(h, U, s), NEW l \in U, NEW to \in U, l # to,
         s[l] # <<>>, NEW p \in 1 .. (Len(s[to]) + 1),
         NEW f, f = list_splice_between(h, l, RingAt(s[to], to, p - 1), RingAt(s[to], to, p))
  PROVE  Spells(f, U \ {l}, Joined(U, s, l, to, Spliced(s[to], p, s[l])))
<1>1. PICK o : o = s[to]
  OBVIOUS
<1>2. PICK q : q = s[l]
  OBVIOUS
<1>3. /\ IsHeap(h, N) /\ IsRing(h, N, to, o) /\ to \in N
      /\ o \in Seq(Nodes) /\ Len(o) \in Nat
  BY <1>1, ListFacts
<1>4. /\ IsRing(h, N, l, q) /\ l \in N
      /\ q \in Seq(Nodes) /\ Len(q) \in Nat
  BY <1>2, ListFacts
<1>5. Len(q) # 0
  BY <1>2, <1>4
<1>6. RingsApart(o, to, q, l)
  BY <1>1, <1>2, PlacesApart DEF RingsApart
<1>7. p \in 1 .. (Len(o) + 1) /\ f = list_splice_between(h, l, RingAt(o, to, p - 1), RingAt(o, to, p))
  BY <1>1
<1>8. PICK r : r = Spliced(o, p, q)
  OBVIOUS
<1>9. /\ IsHeap(f, N)
      /\ IsRing(f, N, to, r)
      /\ \A y \in N : /\ \A k \in 0 .. Len(o) : RingAt(o, to, k) # y
                      /\ \A k \in 1 .. Len(q) : q[k] # y
                      => f.next[y] = h.next[y] /\ f.prev[y] = h.prev[y]
  <2>1. /\ IsHeap(h, N) /\ IsRing(h, N, to, o) /\ to \in N
        /\ IsRing(h, N, l, q) /\ l \in N /\ Len(q) # 0
        /\ p \in 1 .. (Len(o) + 1)
    BY <1>3, <1>4, <1>5, <1>7
  <2>. QED
    BY ONLY <1>6, <1>7, <1>8, <2>1, SpliceBetween
<1>10. /\ r \in Seq(Nodes) /\ Len(r) = Len(o) + Len(q)
       /\ \A k \in 1 .. (Len(o) + Len(q)) :
            r[k] = IF k < p THEN o[k] ELSE IF k < p + Len(q) THEN q[k - p + 1] ELSE o[k - Len(q)]
  BY ONLY <1>3, <1>4, <1>7, <1>8, SplicedIs
<1>11. PICK V : V = U \ {l}
  OBVIOUS
<1>12. PICK t : t = [m \in V |-> IF m = to THEN r ELSE s[m]]
  OBVIOUS
<1>13. PICK D : D = {to, l}
  OBVIOUS
<1>14. PICK X : X = {}
  OBVIOUS
<1>15. PICK E : E = {to}
  OBVIOUS
<1>16. s \in [U -> Seq(Nodes)] /\ U \subseteq Heads
  BY DEF Spells
<1>17. t \in [V -> Seq(Nodes)] /\ t[to] = r /\ \A m \in V \ {to} : t[m] = s[m] /\ m \in U \ {l}
  BY <1>10, <1>11, <1>12, <1>16
<1>18. Touches(f, h, s, D, X)
  <2>1. ASSUME NEW y \in N, \A m \in D : \A k \in 0 .. Len(s[m]) : RingAt(s[m], m, k) # y
        PROVE  SameLinks(f, h, y)
    <3>1. \A k \in 0 .. Len(o) : RingAt(o, to, k) # y
      BY <1>1, <1>13, <2>1
    <3>2. \A k \in 0 .. Len(q) : RingAt(q, l, k) # y
      BY <1>2, <1>13, <2>1
    <3>3. \A k \in 1 .. Len(q) : k \in 0 .. Len(q) /\ RingAt(q, l, k) = q[k]
      BY <1>4 DEF RingAt
    <3>4. \A k \in 1 .. Len(q) : q[k] # y
      BY <3>2, <3>3
    <3>. QED
      BY <1>9, <3>1, <3>4 DEF SameLinks
  <2>. QED
    BY <2>1 DEF Touches
<1>19. \A i \in 1 .. Len(r) : (\E j \in 1 .. Len(o) : r[i] = o[j]) \/ \E j \in 1 .. Len(q) : r[i] = q[j]
  <2>1. \A i \in 1 .. Len(r) :
          /\ i \in 1 .. (Len(o) + Len(q))
          /\ i < p => i \in 1 .. Len(o)
          /\ ~(i < p) /\ i < p + Len(q) => i - p + 1 \in 1 .. Len(q)
          /\ ~(i < p) /\ ~(i < p + Len(q)) => i - Len(q) \in 1 .. Len(o)
    BY <1>3, <1>4, <1>7, <1>10
  <2>. QED
    BY <1>10, <2>1
<1>20. Remade(s, t, D, E)
  BY <1>1, <1>2, <1>13, <1>15, <1>17, <1>19 DEF Remade
<1>21. OthersSame(U, s, V, t, D, X, E)
  BY <1>13, <1>14, <1>15, <1>17 DEF OthersSame
<1>22. D \subseteq U /\ X \subseteq Heads /\ V \subseteq Heads /\ E \subseteq V
  BY <1>11, <1>13, <1>14, <1>15, <1>16
<1>23. \A m \in E : IsRing(f, N, m, t[m])
  BY <1>9, <1>15, <1>17
<1>24. Spells(f, V, t)
  BY ONLY <1>9, <1>17, <1>18, <1>20, <1>21, <1>22, <1>23, Spells(h, U, s), RingsChange
<1>25. r = Spliced(s[to], p, s[l])
  BY <1>1, <1>2, <1>8
<1>. QED
  BY <1>11, <1>12, <1>24, <1>25 DEF Joined

LEMMA WholeList ==
  ASSUME NEW S, NEW q \in Seq(S)
  PROVE  /\ Upto(q, 0) = <<>> /\ After(q, 0) = q
         /\ Upto(q, Len(q)) = q
<1>. DEFINE L == Len(q)
<1>1. L \in Nat /\ 0 \in 0 .. L /\ L \in 0 .. L /\ L - 0 = L
  OBVIOUS
<1>2. /\ Upto(q, 0) \in Seq(S) /\ Len(Upto(q, 0)) = 0
      /\ After(q, 0) \in Seq(S) /\ Len(After(q, 0)) = L - 0
      /\ \A k \in 1 .. (L - 0) : After(q, 0)[k] = q[k + 0]
  BY <1>1, PartsAre
<1>3. /\ Upto(q, L) \in Seq(S) /\ Len(Upto(q, L)) = L
      /\ \A k \in 1 .. L : Upto(q, L)[k] = q[k]
  BY <1>1, PartsAre
<1>4. Upto(q, 0) = <<>>
  BY <1>2
<1>5. After(q, 0) = q
  <2>1. PICK r : r = After(q, 0)
    OBVIOUS
  <2>2. PICK n : n = L
    OBVIOUS
  <2>3. \A k \in 1 .. n : k + 0 = k
    BY <1>1, <2>2
  <2>4. r \in Seq(S) /\ Len(r) = n /\ Len(q) = n /\ \A k \in 1 .. n : r[k] = q[k]
    BY <1>1, <1>2, <2>1, <2>2, <2>3
  <2>. QED
    BY ONLY <2>1, <2>4, q \in Seq(S), SameSeq
<1>6. Upto(q, L) = q
  <2>1. PICK r : r = Upto(q, L)
    OBVIOUS
  <2>2. PICK n : n = L
    OBVIOUS
  <2>3. r \in Seq(S) /\ Len(r) = n /\ Len(q) = n /\ \A k \in 1 .. n : r[k] = q[k]
    BY <1>3, <2>1, <2>2
  <2>. QED
    BY ONLY <2>1, <2>3, q \in Seq(S), SameSeq
<1>. QED
  BY <1>4, <1>5, <1>6

\* What a cut does to one ring and the head the first part goes to.
CutRings(f, h, q, from, l, p) ==
  /\ IsHeap(f, N)
  /\ IsRing(f, N, l, Upto(q, p))
  /\ IsRing(f, N, from, After(q, p))
  /\ \A y \in N : (\A k \in 0 .. Len(q) : RingAt(q, from, k) # y) /\ y # l =>
       f.next[y] = h.next[y] /\ f.prev[y] = h.prev[y]

\* list_cut_position of a list that has entries.
LEMMA CutsRing ==
  ASSUME NEW h, NEW U, NEW s, Spells(h, U, s), NEW from \in U, NEW l \in Heads, l # from,
         NEW q, q = s[from], q # <<>>, NEW p \in 0 .. Len(q),
         NEW f, f = list_cut_position(h, l, from, RingAt(q, from, p))
  PROVE  CutRings(f, h, q, from, l, p)
<1>1. /\ IsHeap(h, N) /\ IsRing(h, N, from, q) /\ from \in N /\ from \notin Nodes /\ l \in N
      /\ q \in Seq(Nodes) /\ Len(q) \in Nat /\ \A k \in 1 .. Len(q) : q[k] \in Nodes
  BY ListFacts, NodeSets
<1>2. \A k \in 0 .. Len(q) : RingAt(q, from, k) # l
  BY HeadApart
<1>3. ~list_empty(h, from) /\ h.next[from] = RingAt(q, from, 1)
      /\ h.prev[from] = RingAt(q, from, Len(q))
  BY Ends
<1>4. /\ RingAt(q, from, 0) = from /\ \A k \in 1 .. Len(q) : RingAt(q, from, k) = q[k]
      /\ \A i, j \in 0 .. Len(q) : RingAt(q, from, i) = RingAt(q, from, j) => i = j
  BY <1>1, RingFacts
<1>5. Len(q) # 0
  BY <1>1
<1>6. ~(/\ list_is_singular(h, from) /\ h.next[from] # RingAt(q, from, p)
        /\ from # RingAt(q, from, p))
  <2>1. CASE h.next[from] = h.prev[from]
    <3>1. 1 \in 0 .. Len(q) /\ Len(q) \in 0 .. Len(q)
      BY <1>1, <1>5
    <3>2. 1 = Len(q)
      <4>1. RingAt(q, from, 1) = RingAt(q, from, Len(q))
        BY ONLY <1>3, <2>1
      <4>. QED
        BY ONLY <1>4, <3>1, <4>1
    <3>3. p = 0 \/ p = 1
      <4>1. p \in 0 .. 1
        BY <3>2
      <4>. QED
        BY ONLY <4>1
    <3>. QED
      BY <1>3, <1>4, <3>3
  <2>2. CASE h.next[from] # h.prev[from]
    BY <2>2 DEF list_is_singular
  <2>. QED
    BY <2>1, <2>2
<1>7. CASE p = 0
  <2>1. f = INIT_LIST_HEAD(h, l)
    BY <1>3, <1>4, <1>6, <1>7 DEF list_cut_position
  <2>2. /\ IsHeap(f, N) /\ IsRing(f, N, l, <<>>)
        /\ \A y \in N \ {l} : f.next[y] = h.next[y] /\ f.prev[y] = h.prev[y]
    BY ONLY <1>1, <2>1, InitHead
  <2>3. IsRing(f, N, from, q)
    <3>1. \A k \in 0 .. Len(q) : RingAt(q, from, k) \in N \ {l}
      <4>1. \A k \in 0 .. (Len(q) + 1) : RingAt(q, from, k) \in N
        BY <1>1, RingFacts
      <4>2. \A k \in 0 .. Len(q) : k \in 0 .. (Len(q) + 1)
        BY <1>1
      <4>. QED
        BY <1>2, <4>1, <4>2
    <3>2. \A k \in 0 .. Len(q) :
            /\ f.next[RingAt(q, from, k)] = h.next[RingAt(q, from, k)]
            /\ f.prev[RingAt(q, from, k)] = h.prev[RingAt(q, from, k)]
      BY <2>2, <3>1
    <3>. QED
      BY <1>1, <3>2, RingStays
  <2>4. Upto(q, p) = <<>> /\ After(q, p) = q
    BY <1>1, <1>7, WholeList
  <2>. QED
    BY <2>2, <2>3, <2>4 DEF CutRings
<1>8. CASE p # 0
  <2>1. p \in 1 .. Len(q)
    BY <1>1, <1>8
  <2>2. RingAt(q, from, p) = q[p] /\ q[p] # from
    BY <1>1, <1>4, <2>1
  <2>3. f = list_cut_between(h, l, from, q[p])
    BY <1>3, <1>6, <2>2 DEF list_cut_position
  <2>4. /\ IsHeap(f, N)
        /\ IsRing(f, N, l, Upto(q, p))
        /\ IsRing(f, N, from, After(q, p))
        /\ \A y \in N : (\A k \in 0 .. Len(q) : RingAt(q, from, k) # y) /\ y # l =>
             f.next[y] = h.next[y] /\ f.prev[y] = h.prev[y]
    BY ONLY <1>1, <1>2, <2>1, <2>3, CutBetween
  <2>. QED
    BY <2>4 DEF CutRings
<1>. QED
  BY <1>7, <1>8

\* The lists when l has got the first p entries of from.
Split(U, s, l, from, p) ==
  [m \in U \cup {l} |-> IF m = l THEN Upto(s[from], p)
                        ELSE IF m = from THEN After(s[from], p) ELSE s[m]]

LEMMA Cuts ==
  ASSUME NEW h, NEW U, NEW s, Spells(h, U, s), NEW from \in U, NEW l \in Heads, l # from,
         l \in U => s[l] = <<>>, s[from] # <<>>, NEW p \in 0 .. Len(s[from]),
         NEW f, f = list_cut_position(h, l, from, RingAt(s[from], from, p))
  PROVE  Spells(f, U \cup {l}, Split(U, s, l, from, p))
<1>1. PICK q : q = s[from]
  OBVIOUS
<1>2. PICK V : V = U \cup {l}
  OBVIOUS
<1>3. PICK u : u = Upto(q, p)
  OBVIOUS
<1>4. PICK w : w = After(q, p)
  OBVIOUS
<1>5. PICK t : t = [m \in V |-> IF m = l THEN u ELSE IF m = from THEN w ELSE s[m]]
  OBVIOUS
<1>6. PICK D : D = {from}
  OBVIOUS
<1>7. PICK X : X = {l}
  OBVIOUS
<1>8. PICK E : E = {l, from}
  OBVIOUS
<1>9. CutRings(f, h, q, from, l, p)
  BY <1>1, CutsRing
<1>10. /\ IsHeap(f, N) /\ IsRing(f, N, l, u) /\ IsRing(f, N, from, w)
       /\ \A y \in N : (\A k \in 0 .. Len(q) : RingAt(q, from, k) # y) /\ y # l =>
            f.next[y] = h.next[y] /\ f.prev[y] = h.prev[y]
  BY <1>3, <1>4, <1>9 DEF CutRings
<1>11. /\ q \in Seq(Nodes) /\ Len(q) \in Nat /\ p \in 0 .. Len(q)
       /\ \A i, j \in 1 .. Len(q) : q[i] = q[j] => i = j
  BY <1>1, ListFacts
<1>12. /\ u \in Seq(Nodes) /\ Len(u) = p /\ \A k \in 1 .. p : u[k] = q[k]
       /\ w \in Seq(Nodes) /\ Len(w) = Len(q) - p
       /\ \A k \in 1 .. (Len(q) - p) : w[k] = q[k + p]
  BY <1>3, <1>4, <1>11, PartsAre
<1>13. s \in [U -> Seq(Nodes)] /\ U \subseteq Heads
  BY DEF Spells
<1>14. /\ t \in [V -> Seq(Nodes)] /\ t[l] = u /\ t[from] = w
       /\ \A m \in V \ E : t[m] = s[m] /\ m \in U \ D /\ m \notin X
  BY <1>2, <1>5, <1>6, <1>7, <1>8, <1>12, <1>13
<1>15. Touches(f, h, s, D, X)
  BY <1>1, <1>6, <1>7, <1>10 DEF Touches, SameLinks
<1>16. /\ \A i \in 1 .. Len(u) : i \in 1 .. Len(q) /\ u[i] = q[i] /\ i <= p
       /\ \A i \in 1 .. Len(w) : i + p \in 1 .. Len(q) /\ w[i] = q[i + p] /\ ~(i + p <= p)
  <2>1. /\ \A i \in 1 .. p : i \in 1 .. Len(q) /\ i <= p
        /\ \A i \in 1 .. (Len(q) - p) : i + p \in 1 .. Len(q) /\ ~(i + p <= p)
    BY <1>11
  <2>. QED
    BY <1>12, <2>1
<1>17. Remade(s, t, D, E)
  <2>1. \A m \in E : \A i \in 1 .. Len(t[m]) : \E j \in 1 .. Len(q) : t[m][i] = q[j]
    BY <1>8, <1>14, <1>16
  <2>2. \A i \in 1 .. Len(u), j \in 1 .. Len(w) : u[i] # w[j]
    BY <1>11, <1>16
  <2>3. \A m, k \in E : m # k =>
          \A i \in 1 .. Len(t[m]), j \in 1 .. Len(t[k]) : t[m][i] # t[k][j]
    BY <1>8, <1>14, <2>2
  <2>. QED
    BY <1>1, <1>6, <2>1, <2>3 DEF Remade
<1>18. OthersSame(U, s, V, t, D, X, E)
  BY <1>14 DEF OthersSame
<1>19. D \subseteq U /\ X \subseteq Heads /\ V \subseteq Heads /\ E \subseteq V
  BY <1>2, <1>6, <1>7, <1>8, <1>13
<1>20. \A m \in E : IsRing(f, N, m, t[m])
  BY <1>8, <1>10, <1>14
<1>21. Spells(f, V, t)
  BY ONLY <1>10, <1>14, <1>15, <1>17, <1>18, <1>19, <1>20, Spells(h, U, s), RingsChange
<1>22. u = Upto(s[from], p) /\ w = After(s[from], p)
  BY <1>1, <1>3, <1>4
<1>. QED
  BY <1>2, <1>5, <1>21, <1>22 DEF Split

\* The heads, and the lists, when that of old is that of new.
Exchanged(U, old, new) == (U \ {old}) \cup {new}

Renamed(U, s, old, new) ==
  [m \in Exchanged(U, old, new) |-> IF m = new THEN s[old] ELSE s[m]]

\* list_replace of a head.
LEMMA ReplacesHead ==
  ASSUME NEW h, NEW U, NEW s, Spells(h, U, s), NEW old \in U, NEW new \in Heads, new # old,
         NEW f, f = list_replace(h, old, new)
  PROVE  Spells(f, Exchanged(U, old, new), Renamed(U, s, old, new))
<1>1. PICK q : q = s[old]
  OBVIOUS
<1>2. PICK V : V = Exchanged(U, old, new)
  OBVIOUS
<1>0. V = (U \ {old}) \cup {new}
  BY <1>2 DEF Exchanged
<1>3. PICK t : t = [m \in V |-> IF m = new THEN q ELSE s[m]]
  OBVIOUS
<1>4. PICK D : D = {old}
  OBVIOUS
<1>5. PICK X : X = {new}
  OBVIOUS
<1>6. /\ IsHeap(h, N) /\ IsRing(h, N, old, q) /\ old \in N /\ new \in N
      /\ q \in Seq(Nodes)
  BY <1>1, ListFacts, NodeSets
<1>7. \A k \in 0 .. Len(q) : RingAt(q, old, k) # new
  BY <1>1, HeadApart
<1>8. /\ IsHeap(f, N) /\ IsRing(f, N, new, q)
      /\ \A y \in N : (\A k \in 0 .. Len(q) : RingAt(q, old, k) # y) /\ y # new =>
           f.next[y] = h.next[y] /\ f.prev[y] = h.prev[y]
  BY ONLY <1>6, <1>7, f = list_replace(h, old, new), ReplaceHeadOf
<1>9. s \in [U -> Seq(Nodes)] /\ U \subseteq Heads
  BY DEF Spells
<1>10. /\ t \in [V -> Seq(Nodes)] /\ t[new] = q
       /\ \A m \in V \ X : t[m] = s[m] /\ m \in U \ D /\ m \notin X
  BY <1>0, <1>3, <1>4, <1>5, <1>6, <1>9
<1>11. Touches(f, h, s, D, X)
  BY <1>1, <1>4, <1>5, <1>8 DEF Touches, SameLinks
<1>12. Remade(s, t, D, X) /\ OthersSame(U, s, V, t, D, X, X)
  BY <1>1, <1>4, <1>5, <1>10 DEF Remade, OthersSame
<1>13. D \subseteq U /\ X \subseteq Heads /\ V \subseteq Heads /\ X \subseteq V
  BY <1>0, <1>4, <1>5, <1>9
<1>14. \A m \in X : IsRing(f, N, m, t[m])
  BY <1>5, <1>8, <1>10
<1>15. Spells(f, V, t)
  BY ONLY <1>8, <1>10, <1>11, <1>12, <1>13, <1>14, Spells(h, U, s), RingsChange
<1>. QED
  BY <1>1, <1>2, <1>3, <1>15 DEF Renamed

\* The same, with old left empty.
Handed(U, s, old, new) ==
  [m \in U \cup {new} |-> IF m = old THEN <<>> ELSE IF m = new THEN s[old] ELSE s[m]]

\* list_replace_init of a head.
LEMMA ReplacesHeadInit ==
  ASSUME NEW h, NEW U, NEW s, Spells(h, U, s), NEW old \in U, NEW new \in Heads, new # old,
         NEW f, f = list_replace_init(h, old, new)
  PROVE  Spells(f, U \cup {new}, Handed(U, s, old, new))
<1>1. PICK g : g = list_replace(h, old, new)
  OBVIOUS
<1>2. PICK V : V = Exchanged(U, old, new)
  OBVIOUS
<1>3. PICK t : t = Renamed(U, s, old, new)
  OBVIOUS
<1>4. Spells(g, V, t)
  BY <1>1, <1>2, <1>3, ReplacesHead
<1>5. old \in Heads /\ old \notin V /\ V \cup {old} = U \cup {new}
  BY <1>2 DEF Spells, Exchanged
<1>6. f = INIT_LIST_HEAD(g, old)
  BY <1>1 DEF list_replace_init
<1>7. Spells(f, V \cup {old}, Emptied(V, t, old))
  BY ONLY <1>4, <1>5, <1>6, Initialises
<1>8. Emptied(V, t, old) = Handed(U, s, old, new)
  BY <1>2, <1>3, <1>5 DEF Emptied, Renamed, Handed
<1>. QED
  BY <1>5, <1>7, <1>8

\* list_splice and list_splice_tail of a list that has entries.
LEMMA Splices ==
  ASSUME NEW h, NEW U, NEW s, Spells(h, U, s), NEW l \in U, NEW to \in U, l # to, s[l] # <<>>
  PROVE  /\ Spells(list_splice(h, l, to), U \ {l},
                   Joined(U, s, l, to, s[l] \o s[to]))
         /\ Spells(list_splice_tail(h, l, to), U \ {l},
                   Joined(U, s, l, to, s[to] \o s[l]))
<1>1. s[to] \in Seq(Nodes) /\ Len(s[to]) \in Nat /\ s[l] \in Seq(Nodes)
  BY ListFacts
<1>2. Spliced(s[to], 1, s[l]) = s[l] \o s[to] /\ Spliced(s[to], Len(s[to]) + 1, s[l]) = s[to] \o s[l]
  BY <1>1, SplicedAtEnds
<1>3. /\ RingAt(s[to], to, 0) = to /\ RingAt(s[to], to, Len(s[to]) + 1) = to
      /\ h.next[to] = RingAt(s[to], to, 1) /\ h.prev[to] = RingAt(s[to], to, Len(s[to]))
  BY Ends
<1>4. ~list_empty(h, l)
  BY Ends
<1>5. ASSUME NEW p, p = 1, NEW f, f = list_splice(h, l, to)
      PROVE  Spells(f, U \ {l}, Joined(U, s, l, to, Spliced(s[to], p, s[l])))
  <2>1. p \in 1 .. (Len(s[to]) + 1) /\ p - 1 = 0
    BY <1>1, <1>5
  <2>2. f = list_splice_between(h, l, RingAt(s[to], to, p - 1), RingAt(s[to], to, p))
    BY <1>3, <1>4, <1>5, <2>1 DEF list_splice
  <2>3. p \in 1 .. (Len(s[to]) + 1)
    BY <2>1
  <2>. QED
    BY ONLY <2>2, <2>3, Spells(h, U, s), l \in U, to \in U, l # to, s[l] # <<>>, SplicesAt
<1>6. ASSUME NEW p, p = Len(s[to]) + 1, NEW f, f = list_splice_tail(h, l, to)
      PROVE  Spells(f, U \ {l}, Joined(U, s, l, to, Spliced(s[to], p, s[l])))
  <2>1. p \in 1 .. (Len(s[to]) + 1) /\ p - 1 = Len(s[to])
    BY <1>1, <1>6
  <2>2. f = list_splice_between(h, l, RingAt(s[to], to, p - 1), RingAt(s[to], to, p))
    BY <1>3, <1>4, <1>6, <2>1 DEF list_splice_tail
  <2>3. p \in 1 .. (Len(s[to]) + 1)
    BY <2>1
  <2>. QED
    BY ONLY <2>2, <2>3, Spells(h, U, s), l \in U, to \in U, l # to, s[l] # <<>>, SplicesAt
<1>7. Spells(list_splice(h, l, to), U \ {l},
             Joined(U, s, l, to, Spliced(s[to], 1, s[l])))
  BY <1>5
<1>8. Spells(list_splice_tail(h, l, to), U \ {l},
             Joined(U, s, l, to, Spliced(s[to], Len(s[to]) + 1, s[l])))
  BY <1>6
<1>. QED
  BY <1>2, <1>7, <1>8

\* list_splice_init and list_splice_tail_init, of any list.
LEMMA SplicesInit ==
  ASSUME NEW h, NEW U, NEW s, Spells(h, U, s), NEW l \in U, NEW to \in U, l # to
  PROVE  /\ Spells(list_splice_init(h, l, to), U, [s EXCEPT ![l] = <<>>, ![to] = s[l] \o s[to]])
         /\ Spells(list_splice_tail_init(h, l, to), U, [s EXCEPT ![l] = <<>>, ![to] = s[to] \o s[l]])
<1>1. s \in [U -> Seq(Nodes)] /\ l \in Heads /\ U \subseteq Heads
  BY DEF Spells
<1>2. s[l] \in Seq(Nodes) /\ s[to] \in Seq(Nodes)
  BY <1>1
<1>3. CASE s[l] = <<>>
  <2>1. list_empty(h, l)
    BY <1>3, Ends
  <2>2. list_splice_init(h, l, to) = h /\ list_splice_tail_init(h, l, to) = h
    BY <2>1 DEF list_splice_init, list_splice_tail_init
  <2>3. s[l] \o s[to] = s[to] /\ s[to] \o s[l] = s[to]
    BY <1>2, <1>3, ConcatEmptySeq
  <2>4. [s EXCEPT ![l] = <<>>, ![to] = s[to]] = s
    BY <1>1, <1>3
  <2>. QED
    BY <2>2, <2>3, <2>4
<1>4. CASE s[l] # <<>>
  <2>1. ~list_empty(h, l)
    BY <1>4, Ends
  <2>2. ASSUME NEW q, NEW g, Spells(g, U \ {l}, Joined(U, s, l, to, q))
        PROVE  Spells(INIT_LIST_HEAD(g, l), U, [s EXCEPT ![l] = <<>>, ![to] = q])
    <3>1. PICK V : V = U \ {l}
      OBVIOUS
    <3>2. PICK t : t = Joined(U, s, l, to, q)
      OBVIOUS
    <3>3. Spells(g, V, t) /\ l \notin V /\ V \cup {l} = U
      BY <2>2, <3>1, <3>2
    <3>4. PICK f : f = INIT_LIST_HEAD(g, l)
      OBVIOUS
    <3>5. Spells(f, V \cup {l}, Emptied(V, t, l))
      <4>1. l \in Heads
        BY <1>1
      <4>. QED
        BY ONLY <3>3, <3>4, <4>1, Initialises
    <3>6. Emptied(V, t, l) = [s EXCEPT ![l] = <<>>, ![to] = q]
      <4>1. DOMAIN s = U
        BY <1>1
      <4>2. [s EXCEPT ![l] = <<>>, ![to] = q]
              = [m \in U |-> IF m = to THEN q ELSE IF m = l THEN <<>> ELSE s[m]]
        BY <4>1
      <4>3. \A m \in U : (IF m = l THEN <<>> ELSE t[m])
                          = IF m = to THEN q ELSE IF m = l THEN <<>> ELSE s[m]
        BY <3>1, <3>2 DEF Joined
      <4>. QED
        BY <3>3, <4>2, <4>3 DEF Emptied
    <3>. QED
      BY <3>3, <3>4, <3>5, <3>6
  <2>3. /\ list_splice_init(h, l, to) = INIT_LIST_HEAD(list_splice(h, l, to), l)
        /\ list_splice_tail_init(h, l, to) = INIT_LIST_HEAD(list_splice_tail(h, l, to), l)
    BY <2>1 DEF list_splice_init, list_splice_tail_init
  <2>4. /\ Spells(list_splice(h, l, to), U \ {l}, Joined(U, s, l, to, s[l] \o s[to]))
        /\ Spells(list_splice_tail(h, l, to), U \ {l}, Joined(U, s, l, to, s[to] \o s[l]))
    BY <1>4, Splices
  <2>. QED
    BY <2>2, <2>3, <2>4
<1>. QED
  BY <1>3, <1>4

\* The lists when l has been rotated.
Rotated(s, l) ==
  IF s[l] = <<>> THEN s
  ELSE [s EXCEPT ![l] = Append(Without(s[l], s[l][1]), s[l][1])]

\* list_rotate_left.
LEMMA Rotates ==
  ASSUME NEW h, NEW U, NEW s, Spells(h, U, s), NEW l \in U
  PROVE  Spells(list_rotate_left(h, l), U, Rotated(s, l))
<1>1. CASE s[l] = <<>>
  BY <1>1, Ends DEF list_rotate_left, Rotated
<1>2. CASE s[l] # <<>>
  <2>1. ~list_empty(h, l) /\ h.next[l] = RingAt(s[l], l, 1)
    BY <1>2, Ends
  <2>2. s[l] \in Seq(Nodes) /\ Len(s[l]) \in Nat
    BY ListFacts
  <2>3. ASSUME NEW p, p = 1
        PROVE  p \in 1 .. Len(s[l])
    BY <1>2, <2>2, <2>3
  <2>4. ASSUME NEW p, p = 1, NEW x, x = s[l][p], NEW t, t = [s EXCEPT ![l] = Without(s[l], x)]
        PROVE  Spells(list_move_tail(h, x, l), U, [t EXCEPT ![l] = Append(t[l], x)])
    <3>1. p \in 1 .. Len(s[l])
      BY <2>3, <2>4
    <3>. QED
      BY ONLY <2>4, <3>1, Spells(h, U, s), l \in U, Moves
  <2>5. PICK x : x = s[l][1]
    OBVIOUS
  <2>6. PICK t : t = [s EXCEPT ![l] = Without(s[l], x)]
    OBVIOUS
  <2>7. Spells(list_move_tail(h, x, l), U, [t EXCEPT ![l] = Append(t[l], x)])
    BY <2>4, <2>5, <2>6
  <2>8. h.next[l] = x
    <3>1. 1 \in 1 .. Len(s[l])
      BY <2>3
    <3>. QED
      BY <2>1, <2>5, <3>1 DEF RingAt
  <2>9. list_rotate_left(h, l) = list_move_tail(h, x, l)
    BY <2>1, <2>8 DEF list_rotate_left
  <2>10. [t EXCEPT ![l] = Append(t[l], x)] = Rotated(s, l)
    <3>1. s \in [U -> Seq(Nodes)]
      BY DEF Spells
    <3>. QED
      BY <1>2, <2>5, <2>6, <3>1 DEF Rotated
  <2>. QED
    BY <2>7, <2>9, <2>10
<1>. QED
  BY <1>1, <1>2

-----------------------------------------------------------------------------
(* Edits.                                                                  *)

\* The heads that are not stale head the lists a program sees.
Rings == stale \subseteq Heads /\ Spells(heap, Usable, Seqs(heap))

LEMMA RingsAgain ==
  ASSUME NEW t, stale' \subseteq Heads, Spells(heap', Usable', t)
  PROVE  Rings' /\ Seqs(heap)' = t
<1>1. [l \in Usable' |-> Entries(heap', l)] = t
  BY SpelledLists
<1>2. Seqs(heap)' = t
  BY <1>1 DEF Seqs
<1>. QED
  BY <1>2 DEF Rings

\* An entry is on a list, or idle and on none.
LEMMA WhereEntriesAre ==
  ASSUME Rings, NEW s, s = Seqs(heap)
  PROVE  /\ Spells(heap, Usable, s)
         /\ \A x \in Listed(heap) : \E l \in Usable : \E p \in 1 .. Len(s[l]) : x = s[l][p]
         /\ \A l \in Usable : \A p \in 1 .. Len(s[l]) : s[l][p] \in Listed(heap)
         /\ \A l \in Usable : OnList(heap, l) = {s[l][k] : k \in 1 .. Len(s[l])}
         /\ \A x \in Idle : x \in Nodes /\ OffLists(Usable, s, x)
<1>1. Spells(heap, Usable, s)
  BY DEF Rings
<1>2. \A l \in Usable : OnList(heap, l) = {s[l][k] : k \in 1 .. Len(s[l])}
  BY <1>1, SpelledLists
<1>3. /\ \A x \in Listed(heap) : \E l \in Usable : \E p \in 1 .. Len(s[l]) : x = s[l][p]
      /\ \A l \in Usable : \A p \in 1 .. Len(s[l]) : s[l][p] \in Listed(heap)
  BY <1>2 DEF Listed
<1>4. \A x \in Idle : x \in Nodes /\ OffLists(Usable, s, x)
  BY <1>3 DEF Idle, OffLists
<1>. QED
  BY <1>1, <1>2, <1>3, <1>4

LEMMA EntryEdits ==
  ASSUME Rings, UNCHANGED stale, Add \/ Delete \/ Move \/ Rotate \/ Replace
  PROVE  Rings'
<1>1. PICK s : s = Seqs(heap)
  OBVIOUS
<1>2. Spells(heap, Usable, s) /\ stale' \subseteq Heads /\ Usable' = Usable
  BY <1>1 DEF Rings, Usable
<1>3. SUFFICES \E t : Spells(heap', Usable, t)
  BY <1>2, RingsAgain
<1>4. CASE Add
  <2>1. PICK x \in Idle, l \in Usable :
          heap' = list_add(heap, x, l) \/ heap' = list_add_tail(heap, x, l)
    BY <1>4 DEF Add
  <2>2. x \in Nodes /\ OffLists(Usable, s, x)
    BY <1>1, WhereEntriesAre
  <2>3. /\ Spells(list_add(heap, x, l), Usable, [s EXCEPT ![l] = <<x>> \o s[l]])
        /\ Spells(list_add_tail(heap, x, l), Usable, [s EXCEPT ![l] = Append(s[l], x)])
    BY <1>2, <2>2, Adds
  <2>. QED
    BY <2>1, <2>3
<1>5. CASE Delete
  <2>1. PICK x \in Listed(heap) : heap' = list_del(heap, x) \/ heap' = list_del_init(heap, x)
    BY <1>5 DEF Delete
  <2>2. PICK l \in Usable : \E p \in 1 .. Len(s[l]) : x = s[l][p]
    BY <1>1, WhereEntriesAre
  <2>3. PICK p \in 1 .. Len(s[l]) : x = s[l][p]
    BY <2>2
  <2>4. Deleted(list_del(heap, x), Usable, s, l, x) /\ Deleted(list_del_init(heap, x), Usable, s, l, x)
    BY <1>2, <2>3, Deletes
  <2>. QED
    BY <2>1, <2>4 DEF Deleted
<1>6. CASE Move
  <2>1. PICK x \in Listed(heap), k \in Usable :
          heap' = list_move(heap, x, k) \/ heap' = list_move_tail(heap, x, k)
    BY <1>6 DEF Move
  <2>2. PICK l \in Usable : \E p \in 1 .. Len(s[l]) : x = s[l][p]
    BY <1>1, WhereEntriesAre
  <2>3. PICK p \in 1 .. Len(s[l]) : x = s[l][p]
    BY <2>2
  <2>4. PICK t : t = [s EXCEPT ![l] = Without(s[l], x)]
    OBVIOUS
  <2>5. /\ Spells(list_move(heap, x, k), Usable, [t EXCEPT ![k] = <<x>> \o t[k]])
        /\ Spells(list_move_tail(heap, x, k), Usable, [t EXCEPT ![k] = Append(t[k], x)])
    BY <1>2, <2>3, <2>4, Moves
  <2>. QED
    BY <2>1, <2>5
<1>7. CASE Rotate
  BY <1>2, <1>7, Rotates DEF Rotate
<1>8. CASE Replace
  <2>1. PICK old \in Listed(heap), new \in Idle :
          heap' = list_replace(heap, old, new) \/ heap' = list_replace_init(heap, old, new)
    BY <1>8 DEF Replace
  <2>2. new \in Nodes /\ OffLists(Usable, s, new)
    BY <1>1, WhereEntriesAre
  <2>3. PICK l \in Usable : \E p \in 1 .. Len(s[l]) : old = s[l][p]
    BY <1>1, WhereEntriesAre
  <2>4. PICK p \in 1 .. Len(s[l]) : old = s[l][p]
    BY <2>3
  <2>5. /\ Spells(list_replace(heap, old, new), Usable, [s EXCEPT ![l] = [s[l] EXCEPT ![p] = new]])
        /\ Spells(list_replace_init(heap, old, new), Usable, [s EXCEPT ![l] = [s[l] EXCEPT ![p] = new]])
    BY <1>2, <2>2, <2>4, Replaces
  <2>. QED
    BY <2>1, <2>5
<1>. QED
  BY <1>4, <1>5, <1>6, <1>7, <1>8

LEMMA ListEdits ==
  ASSUME Rings, ReplaceHead \/ Cut \/ Splice \/ Initialise
  PROVE  Rings'
<1>1. PICK s : s = Seqs(heap)
  OBVIOUS
<1>2. Spells(heap, Usable, s) /\ stale \subseteq Heads /\ Usable = Heads \ stale
  BY <1>1 DEF Rings, Usable
<1>3. Usable' = Heads \ stale'
  BY DEF Usable
<1>4. CASE ReplaceHead
  <2>1. PICK old \in Usable, new \in Heads :
          /\ new # old
          /\ \/ heap' = list_replace(heap, old, new) /\ stale' = (stale \ {new}) \cup {old}
             \/ heap' = list_replace_init(heap, old, new) /\ stale' = stale \ {new}
    BY <1>4 DEF ReplaceHead
  <2>2. new \in Heads /\ new # old
    BY <2>1
  <2>3. CASE heap' = list_replace(heap, old, new) /\ stale' = (stale \ {new}) \cup {old}
    <3>1. Spells(heap', Exchanged(Usable, old, new), Renamed(Usable, s, old, new))
      BY <1>2, <2>2, <2>3, ReplacesHead
    <3>2. Usable' = Exchanged(Usable, old, new) /\ stale' \subseteq Heads
      BY <1>2, <1>3, <2>2, <2>3 DEF Exchanged
    <3>. QED
      BY <3>1, <3>2, RingsAgain
  <2>4. CASE heap' = list_replace_init(heap, old, new) /\ stale' = stale \ {new}
    <3>1. Spells(heap', Usable \cup {new}, Handed(Usable, s, old, new))
      BY <1>2, <2>2, <2>4, ReplacesHeadInit
    <3>2. Usable' = Usable \cup {new} /\ stale' \subseteq Heads
      BY <1>2, <1>3, <2>4
    <3>. QED
      BY <3>1, <3>2, RingsAgain
  <2>. QED
    BY <2>1, <2>3, <2>4
<1>5. CASE Cut
  <2>1. PICK l \in Heads, from \in Usable : \E entry \in OnList(heap, from) \cup {from} :
          /\ l # from
          /\ l \in Usable => list_empty(heap, l)
          /\ heap' = list_cut_position(heap, l, from, entry)
          /\ stale' = IF list_empty(heap, from) THEN stale ELSE stale \ {l}
    BY <1>5 DEF Cut
  <2>2. PICK entry \in OnList(heap, from) \cup {from} :
          /\ l # from
          /\ l \in Usable => list_empty(heap, l)
          /\ heap' = list_cut_position(heap, l, from, entry)
          /\ stale' = IF list_empty(heap, from) THEN stale ELSE stale \ {l}
    BY <2>1
  <2>3. list_empty(heap, from) <=> s[from] = <<>>
    BY <1>2, Ends
  <2>4. l \in Usable => s[l] = <<>>
    BY <1>2, <2>2, Ends
  <2>5. CASE s[from] = <<>>
    <3>1. heap' = heap /\ stale' = stale /\ Usable' = Usable
      BY <1>2, <1>3, <2>2, <2>3, <2>5 DEF list_cut_position
    <3>. QED
      BY <1>2, <3>1, RingsAgain
  <2>6. CASE s[from] # <<>>
    <3>1. \E p \in 0 .. Len(s[from]) : entry = RingAt(s[from], from, p)
      <4>1. Len(s[from]) \in Nat /\ RingAt(s[from], from, 0) = from
        BY <1>2, ListFacts, Ends
      <4>2. OnList(heap, from) = {s[from][k] : k \in 1 .. Len(s[from])}
        BY <1>2, SpelledLists
      <4>3. \A k \in 1 .. Len(s[from]) : k \in 0 .. Len(s[from]) /\ RingAt(s[from], from, k) = s[from][k]
        BY <4>1 DEF RingAt
      <4>4. 0 \in 0 .. Len(s[from])
        BY <4>1
      <4>. QED
        BY <4>1, <4>2, <4>3, <4>4
    <3>2. PICK p \in 0 .. Len(s[from]) : entry = RingAt(s[from], from, p)
      BY <3>1
    <3>3. heap' = list_cut_position(heap, l, from, RingAt(s[from], from, p))
      BY <2>2, <3>2
    <3>4. Spells(heap', Usable \cup {l}, Split(Usable, s, l, from, p))
      BY <1>2, <2>2, <2>4, <2>6, <3>3, Cuts
    <3>5. Usable' = Usable \cup {l} /\ stale' \subseteq Heads
      BY <1>2, <1>3, <2>2, <2>3, <2>6
    <3>. QED
      BY <3>4, <3>5, RingsAgain
  <2>. QED
    BY <2>5, <2>6
<1>6. CASE Splice
  <2>1. PICK l \in Usable, to \in Usable :
          /\ l # to
          /\ \/ /\ heap' = list_splice(heap, l, to) \/ heap' = list_splice_tail(heap, l, to)
                /\ stale' = IF list_empty(heap, l) THEN stale ELSE stale \cup {l}
             \/ /\ heap' = list_splice_init(heap, l, to) \/ heap' = list_splice_tail_init(heap, l, to)
                /\ UNCHANGED stale
    BY <1>6 DEF Splice
  <2>2. list_empty(heap, l) <=> s[l] = <<>>
    BY <1>2, Ends
  <2>3. l \in Usable /\ to \in Usable /\ l # to /\ l \in Heads
    BY <1>2, <2>1
  <2>4. CASE /\ heap' = list_splice(heap, l, to) \/ heap' = list_splice_tail(heap, l, to)
             /\ stale' = IF list_empty(heap, l) THEN stale ELSE stale \cup {l}
    <3>1. CASE s[l] = <<>>
      <4>1. heap' = heap /\ stale' = stale /\ Usable' = Usable
        BY <1>2, <1>3, <2>2, <2>4, <3>1 DEF list_splice, list_splice_tail
      <4>. QED
        BY <1>2, <4>1, RingsAgain
    <3>2. CASE s[l] # <<>>
      <4>1. /\ Spells(list_splice(heap, l, to), Usable \ {l}, Joined(Usable, s, l, to, s[l] \o s[to]))
            /\ Spells(list_splice_tail(heap, l, to), Usable \ {l}, Joined(Usable, s, l, to, s[to] \o s[l]))
        BY <1>2, <2>3, <3>2, Splices
      <4>2. Usable' = Usable \ {l} /\ stale' \subseteq Heads
        BY <1>2, <1>3, <2>2, <2>3, <2>4, <3>2
      <4>. QED
        BY <2>4, <4>1, <4>2, RingsAgain
    <3>. QED
      BY <3>1, <3>2
  <2>5. CASE /\ heap' = list_splice_init(heap, l, to) \/ heap' = list_splice_tail_init(heap, l, to)
             /\ UNCHANGED stale
    <3>1. /\ Spells(list_splice_init(heap, l, to), Usable, [s EXCEPT ![l] = <<>>, ![to] = s[l] \o s[to]])
          /\ Spells(list_splice_tail_init(heap, l, to), Usable, [s EXCEPT ![l] = <<>>, ![to] = s[to] \o s[l]])
      BY <1>2, <2>3, SplicesInit
    <3>2. Usable' = Usable /\ stale' \subseteq Heads
      BY <1>2, <1>3, <2>5
    <3>. QED
      BY <2>5, <3>1, <3>2, RingsAgain
  <2>. QED
    BY <2>1, <2>4, <2>5
<1>7. CASE Initialise
  <2>1. PICK l \in stale : heap' = INIT_LIST_HEAD(heap, l) /\ stale' = stale \ {l}
    BY <1>7 DEF Initialise
  <2>2. l \in Heads /\ l \notin Usable
    BY <1>2
  <2>3. Spells(heap', Usable \cup {l}, Emptied(Usable, s, l))
    BY <1>2, <2>1, <2>2, Initialises
  <2>4. Usable' = Usable \cup {l} /\ stale' \subseteq Heads
    BY <1>2, <1>3, <2>1, <2>2
  <2>. QED
    BY <2>3, <2>4, RingsAgain
<1>. QED
  BY <1>4, <1>5, <1>6, <1>7

-----------------------------------------------------------------------------
(* What the rings say about the lists.                                     *)

LEMMA ListIsWellLinked ==
  ASSUME NEW h, NEW U, NEW s, Spells(h, U, s), NEW l \in U
  PROVE  WellLinked(h, l)
<1>1. PICK q : q = s[l]
  OBVIOUS
<1>2. PICK ring : ring = OnList(h, l) \cup {l}
  OBVIOUS
<1>3. /\ Len(q) \in Nat /\ IsHeap(h, N) /\ l \in N /\ IsRing(h, N, l, q)
      /\ OnList(h, l) = {q[k] : k \in 1 .. Len(q)}
  BY <1>1, ListFacts, SpelledLists
<1>4. /\ RingAt(q, l, 0) = l /\ RingAt(q, l, Len(q) + 1) = l
      /\ \A k \in 1 .. Len(q) : RingAt(q, l, k) = q[k]
      /\ \A k \in 0 .. Len(q) :
           /\ h.next[RingAt(q, l, k)] = RingAt(q, l, k + 1)
           /\ h.prev[RingAt(q, l, k + 1)] = RingAt(q, l, k)
  BY <1>3, RingFacts
<1>5. \A x \in ring : \E k \in 0 .. Len(q) : x = RingAt(q, l, k)
  <2>1. 0 \in 0 .. Len(q) /\ \A k \in 1 .. Len(q) : k \in 0 .. Len(q)
    BY <1>3
  <2>. QED
    BY <1>2, <1>3, <1>4, <2>1
<1>6. \A k \in 0 .. (Len(q) + 1) : RingAt(q, l, k) \in ring
  BY <1>2, <1>3 DEF RingAt
<1>7. ASSUME NEW x \in ring
      PROVE  h.next[x] \in ring /\ h.prev[h.next[x]] = x
  <2>1. PICK k \in 0 .. Len(q) : x = RingAt(q, l, k)
    BY <1>5
  <2>2. k + 1 \in 0 .. (Len(q) + 1)
    BY <1>3
  <2>. QED
    BY <1>4, <1>6, <2>1, <2>2
<1>8. \A x, y \in ring : h.next[x] = h.next[y] => x = y
  BY <1>7
<1>. QED
  BY <1>2, <1>7, <1>8 DEF WellLinked

LEMMA RingsAreClosedThen ==
  ASSUME Rings
  PROVE  RingsAreClosed
<1>1. PICK s : s = Seqs(heap)
  OBVIOUS
<1>2. Spells(heap, Usable, s)
  BY <1>1 DEF Rings
<1>3. \A l \in Usable : OnList(heap, l) = {s[l][k] : k \in 1 .. Len(s[l])}
  BY <1>2, SpelledLists
<1>4. \A l, k \in Usable : l # k => OnList(heap, l) \cap OnList(heap, k) = {}
  BY <1>2, <1>3 DEF Spells
<1>. QED
  BY <1>2, <1>4, ListIsWellLinked DEF RingsAreClosed

LEMMA EntryOperationsThen ==
  ASSUME Rings
  PROVE  EntryOperationsAreExact
<1>1. PICK s : s = Seqs(heap)
  OBVIOUS
<1>2. Spells(heap, Usable, s) /\ \A l \in Usable : Entries(heap, l) = s[l]
  BY <1>1, SpelledLists DEF Rings
<1>3. \A f, t : Spells(f, Usable, t) => Seqs(f) = t
  BY SpelledLists DEF Seqs
<1>4. ASSUME NEW x \in Idle, NEW l \in Usable
      PROVE  /\ Seqs(list_add(heap, x, l)) = [s EXCEPT ![l] = <<x>> \o s[l]]
             /\ Seqs(list_add_tail(heap, x, l)) = [s EXCEPT ![l] = Append(s[l], x)]
             /\ \A k \in 1 .. Len(s[l]) :
                  /\ Seqs(list_replace(heap, s[l][k], x)) = [s EXCEPT ![l] = [s[l] EXCEPT ![k] = x]]
                  /\ Seqs(list_replace_init(heap, s[l][k], x)) = [s EXCEPT ![l] = [s[l] EXCEPT ![k] = x]]
  <2>1. x \in Nodes /\ OffLists(Usable, s, x)
    BY <1>1, WhereEntriesAre
  <2>2. /\ Spells(list_add(heap, x, l), Usable, [s EXCEPT ![l] = <<x>> \o s[l]])
        /\ Spells(list_add_tail(heap, x, l), Usable, [s EXCEPT ![l] = Append(s[l], x)])
    BY <1>2, <2>1, Adds
  <2>3. ASSUME NEW k \in 1 .. Len(s[l])
        PROVE  /\ Spells(list_replace(heap, s[l][k], x), Usable, [s EXCEPT ![l] = [s[l] EXCEPT ![k] = x]])
               /\ Spells(list_replace_init(heap, s[l][k], x), Usable, [s EXCEPT ![l] = [s[l] EXCEPT ![k] = x]])
    BY <1>2, <2>1, Replaces
  <2>. QED
    BY <1>3, <2>2, <2>3
<1>5. InsertionsAreExact
  <2>1. ASSUME NEW x \in Idle, NEW l \in Usable
        PROVE  LET q == Entries(heap, l)
               IN  /\ Seqs(list_add(heap, x, l)) = [Seqs(heap) EXCEPT ![l] = <<x>> \o q]
                   /\ Seqs(list_add_tail(heap, x, l)) = [Seqs(heap) EXCEPT ![l] = Append(q, x)]
                   /\ \A k \in 1 .. Len(q) :
                        /\ Seqs(list_replace(heap, q[k], x))
                             = [Seqs(heap) EXCEPT ![l] = [q EXCEPT ![k] = x]]
                        /\ Seqs(list_replace_init(heap, q[k], x))
                             = [Seqs(heap) EXCEPT ![l] = [q EXCEPT ![k] = x]]
    <3>1. Entries(heap, l) = s[l]
      BY <1>2
    <3>. QED
      BY ONLY <1>1, <1>4, <3>1, x \in Idle, l \in Usable
  <2>. QED
    BY <2>1 DEF InsertionsAreExact
<1>6. MovesKeepTheRest
  <2>1. \A l \in Usable : OnList(heap, l) = {s[l][k] : k \in 1 .. Len(s[l])}
    BY <1>2, SpelledLists
  <2>2. ASSUME NEW l \in Usable, NEW x \in OnList(heap, l)
        PROVE  LET without == [Seqs(heap) EXCEPT ![l] = Without(@, x)]
               IN  /\ Seqs(list_del(heap, x)) = without
                   /\ Seqs(list_del_init(heap, x)) = without
                   /\ \A k \in Usable :
                        /\ Seqs(list_move(heap, x, k)) = [without EXCEPT ![k] = <<x>> \o @]
                        /\ Seqs(list_move_tail(heap, x, k)) = [without EXCEPT ![k] = Append(@, x)]
                   /\ x = heap.next[l] => Seqs(list_rotate_left(heap, l))
                                          = [without EXCEPT ![l] = Append(@, x)]
    <3>1. PICK p \in 1 .. Len(s[l]) : x = s[l][p]
      BY <2>1
    <3>2. PICK t : t = [s EXCEPT ![l] = Without(s[l], x)]
      OBVIOUS
    <3>3. t = [Seqs(heap) EXCEPT ![l] = Without(@, x)]
      BY <1>1, <3>2
    <3>4. /\ Seqs(list_del(heap, x)) = t
          /\ Seqs(list_del_init(heap, x)) = t
          /\ \A k \in Usable :
               /\ Seqs(list_move(heap, x, k)) = [t EXCEPT ![k] = <<x>> \o t[k]]
               /\ Seqs(list_move_tail(heap, x, k)) = [t EXCEPT ![k] = Append(t[k], x)]
          /\ x = heap.next[l] => Seqs(list_rotate_left(heap, l)) = [t EXCEPT ![l] = Append(t[l], x)]
      <4>1. Deleted(list_del(heap, x), Usable, s, l, x) /\ Deleted(list_del_init(heap, x), Usable, s, l, x)
        BY <1>2, <3>1, <3>2, Deletes
      <4>2. Seqs(list_del(heap, x)) = t /\ Seqs(list_del_init(heap, x)) = t
        BY <1>3, <3>1, <3>2, <4>1 DEF Deleted
      <4>3. ASSUME NEW k \in Usable
            PROVE  /\ Seqs(list_move(heap, x, k)) = [t EXCEPT ![k] = <<x>> \o t[k]]
                   /\ Seqs(list_move_tail(heap, x, k)) = [t EXCEPT ![k] = Append(t[k], x)]
        <5>1. /\ Spells(list_move(heap, x, k), Usable, [t EXCEPT ![k] = <<x>> \o t[k]])
              /\ Spells(list_move_tail(heap, x, k), Usable, [t EXCEPT ![k] = Append(t[k], x)])
          BY <1>2, <3>1, <3>2, Moves
        <5>. QED
          BY <1>3, <5>1
      <4>4. ASSUME x = heap.next[l]
            PROVE  list_rotate_left(heap, l) = list_move_tail(heap, x, l)
        <5>1. x \in Nodes /\ l \notin Nodes
          BY <1>2, <3>1, <3>2, ListFacts
        <5>. QED
          BY <4>4, <5>1 DEF list_rotate_left, list_empty
      <4>. QED
        BY <4>2, <4>3, <4>4
    <3>. QED
      BY ONLY <3>3, <3>4
  <2>. QED
    BY <2>2 DEF MovesKeepTheRest
<1>. QED
  BY <1>5, <1>6 DEF EntryOperationsAreExact

LEMMA CutsThen ==
  ASSUME Rings
  PROVE  CutSplitsTheList
<1>1. PICK s : s = Seqs(heap)
  OBVIOUS
<1>2. /\ Spells(heap, Usable, s) /\ \A l \in Usable : Entries(heap, l) = s[l]
      /\ s \in [Usable -> Seq(Nodes)] /\ Usable \subseteq Heads
  BY <1>1, SpelledLists DEF Rings, Spells
<1>3. \A f, t : Spells(f, Usable, t) => Seqs(f) = t
  BY SpelledLists DEF Seqs
<1>4. ASSUME NEW l \in Usable, NEW from \in Usable, l # from, list_empty(heap, l)
      PROVE  LET q == Entries(heap, from)
             IN  \A k \in 0 .. Len(q) :
                   Seqs(list_cut_position(heap, l, from, IF k = 0 THEN from ELSE q[k]))
                     = [Seqs(heap) EXCEPT ![l] = SubSeq(q, 1, k),
                                          ![from] = SubSeq(q, k + 1, Len(q))]
  <2>1. PICK q : q = s[from]
    OBVIOUS
  <2>2. Entries(heap, from) = q /\ q \in Seq(Nodes) /\ Len(q) \in Nat
    BY <1>2, <2>1
  <2>3. s[l] = <<>> /\ l \in Heads
    BY <1>2, <1>4, Ends
  <2>4. ASSUME NEW k \in 0 .. Len(q)
        PROVE  Seqs(list_cut_position(heap, l, from, IF k = 0 THEN from ELSE q[k]))
                 = [s EXCEPT ![l] = Upto(q, k), ![from] = After(q, k)]
    <3>1. PICK e : e = IF k = 0 THEN from ELSE q[k]
      OBVIOUS
    <3>2. e = RingAt(q, from, k)
      BY <2>2, <3>1 DEF RingAt
    <3>3. PICK f : f = list_cut_position(heap, l, from, e)
      OBVIOUS
    <3>4. CASE q = <<>>
      <4>1. k = 0
        BY <2>2, <3>4
      <4>2. Upto(q, k) = <<>> /\ After(q, k) = <<>>
        <5>1. Upto(q, 0) = <<>> /\ After(q, 0) = q
          BY ONLY <2>2, WholeList
        <5>. QED
          BY <3>4, <4>1, <5>1
      <4>3. list_empty(heap, from)
        <5>1. s[from] = <<>>
          BY <2>1, <3>4
        <5>2. list_empty(heap, from) <=> s[from] = <<>>
          BY ONLY <1>2, from \in Usable, Ends
        <5>. QED
          BY <5>1, <5>2
      <4>4. f = heap
        BY <3>3, <4>3 DEF list_cut_position
      <4>5. [s EXCEPT ![l] = <<>>, ![from] = <<>>] = s
        BY <1>2, <2>1, <2>3, <3>4
      <4>. QED
        BY <1>1, <3>1, <3>3, <4>2, <4>4, <4>5
    <3>5. CASE q # <<>>
      <4>1. Spells(f, Usable \cup {l}, Split(Usable, s, l, from, k))
        <5>1. s[from] # <<>> /\ k \in 0 .. Len(s[from]) /\ e = RingAt(s[from], from, k)
          BY <2>1, <3>2, <3>5
        <5>2. f = list_cut_position(heap, l, from, RingAt(s[from], from, k))
          BY <3>3, <5>1
        <5>. QED
          BY <1>2, <1>4, <2>3, <5>1, <5>2, Cuts
      <4>2. Usable \cup {l} = Usable
        OBVIOUS
      <4>3. Split(Usable, s, l, from, k) = [s EXCEPT ![l] = Upto(q, k), ![from] = After(q, k)]
        <5>1. DOMAIN s = Usable
          BY <1>2
        <5>2. [s EXCEPT ![l] = Upto(q, k), ![from] = After(q, k)]
                = [m \in Usable |-> IF m = from THEN After(q, k) ELSE IF m = l THEN Upto(q, k) ELSE s[m]]
          BY <5>1
        <5>3. \A m \in Usable : (IF m = l THEN Upto(q, k) ELSE IF m = from THEN After(q, k) ELSE s[m])
                              = IF m = from THEN After(q, k) ELSE IF m = l THEN Upto(q, k) ELSE s[m]
          BY <1>4
        <5>. QED
          BY <2>1, <4>2, <5>2, <5>3 DEF Split
      <4>4. Spells(f, Usable, [s EXCEPT ![l] = Upto(q, k), ![from] = After(q, k)])
        BY <4>1, <4>2, <4>3
      <4>. QED
        BY <1>3, <3>1, <3>3, <4>4
    <3>. QED
      BY <3>4, <3>5
  <2>5. ASSUME NEW k \in 0 .. Len(q)
        PROVE  Seqs(list_cut_position(heap, l, from, IF k = 0 THEN from ELSE q[k]))
                 = [Seqs(heap) EXCEPT ![l] = SubSeq(q, 1, k), ![from] = SubSeq(q, k + 1, Len(q))]
    BY <1>1, <2>4 DEF Upto, After
  <2>. QED
    BY ONLY <2>2, <2>5
<1>. QED
  BY <1>4 DEF CutSplitsTheList

LEMMA SplicesThen ==
  ASSUME Rings
  PROVE  SplicesJoin
<1>1. PICK s : s = Seqs(heap)
  OBVIOUS
<1>2. /\ Spells(heap, Usable, s) /\ \A l \in Usable : Entries(heap, l) = s[l]
      /\ s \in [Usable -> Seq(Nodes)] /\ Usable \subseteq Heads
  BY <1>1, SpelledLists DEF Rings, Spells
<1>3. \A f, t : Spells(f, Usable, t) => Seqs(f) = t
  BY SpelledLists DEF Seqs
<1>4. ASSUME NEW l \in Usable, NEW to \in Usable, l # to
      PROVE  LET q == Entries(heap, l)
                 o == Entries(heap, to)
             IN  /\ Entries(list_splice(heap, l, to), to) = q \o o
                 /\ Entries(list_splice_tail(heap, l, to), to) = o \o q
                 /\ Seqs(list_splice_init(heap, l, to)) = [Seqs(heap) EXCEPT ![l] = <<>>, ![to] = q \o o]
                 /\ Seqs(list_splice_tail_init(heap, l, to)) = [Seqs(heap) EXCEPT ![l] = <<>>, ![to] = o \o q]
  <2>1. Entries(heap, l) = s[l] /\ Entries(heap, to) = s[to]
    BY <1>2
  <2>2. s[l] \in Seq(Nodes) /\ s[to] \in Seq(Nodes)
    BY <1>2
  <2>3. /\ Entries(list_splice(heap, l, to), to) = s[l] \o s[to]
        /\ Entries(list_splice_tail(heap, l, to), to) = s[to] \o s[l]
    <3>1. CASE s[l] = <<>>
      <4>1. list_empty(heap, l)
        BY <1>2, <3>1, Ends
      <4>2. list_splice(heap, l, to) = heap /\ list_splice_tail(heap, l, to) = heap
        BY <4>1 DEF list_splice, list_splice_tail
      <4>3. s[l] \o s[to] = s[to] /\ s[to] \o s[l] = s[to]
        BY <2>2, <3>1, ConcatEmptySeq
      <4>. QED
        BY <2>1, <4>2, <4>3
    <3>2. CASE s[l] # <<>>
      <4>1. PICK U : U = Usable \ {l}
        OBVIOUS
      <4>2. to \in U
        BY <1>4, <4>1
      <4>3. PICK t : t = Joined(Usable, s, l, to, s[l] \o s[to])
        OBVIOUS
      <4>4. PICK r : r = Joined(Usable, s, l, to, s[to] \o s[l])
        OBVIOUS
      <4>5. Spells(list_splice(heap, l, to), U, t) /\ Spells(list_splice_tail(heap, l, to), U, r)
        BY <1>2, <1>4, <3>2, <4>1, <4>3, <4>4, Splices
      <4>6. t[to] = s[l] \o s[to] /\ r[to] = s[to] \o s[l]
        BY <4>1, <4>2, <4>3, <4>4 DEF Joined
      <4>. QED
        <5>1. Entries(list_splice(heap, l, to), to) = t[to]
          BY ONLY <4>2, <4>5, SpelledLists
        <5>2. Entries(list_splice_tail(heap, l, to), to) = r[to]
          BY ONLY <4>2, <4>5, SpelledLists
        <5>. QED
          BY <4>6, <5>1, <5>2
    <3>. QED
      BY <3>1, <3>2
  <2>4. /\ Spells(list_splice_init(heap, l, to), Usable, [s EXCEPT ![l] = <<>>, ![to] = s[l] \o s[to]])
        /\ Spells(list_splice_tail_init(heap, l, to), Usable, [s EXCEPT ![l] = <<>>, ![to] = s[to] \o s[l]])
    BY <1>2, <1>4, SplicesInit
  <2>5. /\ Seqs(list_splice_init(heap, l, to)) = [s EXCEPT ![l] = <<>>, ![to] = s[l] \o s[to]]
        /\ Seqs(list_splice_tail_init(heap, l, to)) = [s EXCEPT ![l] = <<>>, ![to] = s[to] \o s[l]]
    BY <1>3, <2>4
  <2>. QED
    BY ONLY <1>1, <2>1, <2>3, <2>5
<1>. QED
  BY <1>4 DEF SplicesJoin

LEMMA HeadsThen ==
  ASSUME Rings
  PROVE  HeadsTakeOver
<1>1. PICK s : s = Seqs(heap)
  OBVIOUS
<1>2. /\ Spells(heap, Usable, s) /\ \A l \in Usable : Entries(heap, l) = s[l]
  BY <1>1, SpelledLists DEF Rings
<1>3. ASSUME NEW old \in Usable, NEW new \in Heads \ {old}
      PROVE  LET h == list_replace_init(heap, old, new)
             IN  /\ Entries(h, new) = Entries(heap, old)
                 /\ WellLinked(h, new)
                 /\ list_empty(h, old)
  <2>1. PICK h : h = list_replace_init(heap, old, new)
    OBVIOUS
  <2>2. PICK U : U = Usable \cup {new}
    OBVIOUS
  <2>3. PICK t : t = Handed(Usable, s, old, new)
    OBVIOUS
  <2>4. Spells(h, U, t)
    BY <1>2, <2>1, <2>2, <2>3, ReplacesHeadInit
  <2>5. new \in U /\ old \in U /\ t[new] = s[old] /\ t[old] = <<>>
    BY <2>2, <2>3 DEF Handed
  <2>6. Entries(h, new) = s[old]
    BY <2>4, <2>5, SpelledLists
  <2>7. WellLinked(h, new)
    BY <2>4, <2>5, ListIsWellLinked
  <2>8. list_empty(h, old)
    BY <2>4, <2>5, Ends
  <2>. QED
    BY <1>2, <2>1, <2>6, <2>7, <2>8
<1>. QED
  BY <1>3 DEF HeadsTakeOver

LEMMA ListOperationsThen ==
  ASSUME Rings
  PROVE  ListOperationsAreExact
BY CutsThen, SplicesThen, HeadsThen DEF ListOperationsAreExact

-----------------------------------------------------------------------------
(* Walks.                                                                  *)

\* A walk of list l, whose entries lie ahead as A, stands on pos after the
\* first j of them, and has the others still to visit.
Standing(A, l, safe, pos, n, due) ==
  \E j \in 0 .. Len(A) :
    /\ due = <<pos>> \o After(A, j)
    /\ ~safe => j # 0 /\ pos = RingAt(A, l, j)
    /\ safe => n = RingAt(A, l, j + 1)

\* An entry that the walk stands on and that is on no list shows it.
PosKnown(h, U, s, pos) == OffLists(U, s, pos) => h.next[pos] \in {pos, LIST_POISON1}

Walks ==
  [head : Usable, way : {"next", "prev"}, safe : BOOLEAN,
   pos : N, n : Links(N), due : Seq(Nodes)]

WalkStands ==
  IF walk.pos = walk.head THEN walk.due = <<>>
  ELSE /\ walk.pos \in Nodes
       /\ Standing(Ahead(walk.head, walk.way), walk.head, walk.safe, walk.pos, walk.n, walk.due)
       /\ walk.safe => PosKnown(heap, Usable, Seqs(heap), walk.pos)

ListsInv ==
  /\ Rings
  /\ walk = NoWalk \/ (walk \in Walks /\ WalkStands)

LEMMA FrontOf ==
  ASSUME NEW S, NEW r, r \in Seq(S), NEW x \in S
  PROVE  /\ <<x>> \o r \in Seq(S) /\ Len(<<x>> \o r) = Len(r) + 1
         /\ (<<x>> \o r)[1] = x /\ \A k \in 1 .. Len(r) : (<<x>> \o r)[k + 1] = r[k]
         /\ <<x>> \o r # <<>>
         /\ Head(<<x>> \o r) = x /\ Tail(<<x>> \o r) = r
<1>. DEFINE e == <<x>>
            c == e \o r
<1>1. e \in Seq(S) /\ Len(e) = 1 /\ e[1] = x /\ Len(r) \in Nat
  OBVIOUS
<1>. HIDE DEF e
<1>2. /\ c \in Seq(S) /\ Len(c) = Len(e) + Len(r)
      /\ \A k \in 1 .. Len(e) + Len(r) : c[k] = IF k <= Len(e) THEN e[k] ELSE r[k - Len(e)]
  BY <1>1, ConcatProperties
<1>. HIDE DEF c
<1>3. /\ c \in Seq(S) /\ Len(c) = Len(r) + 1
      /\ c[1] = x /\ \A k \in 1 .. Len(r) : c[k + 1] = r[k]
  <2>1. 1 \in 1 .. 1 + Len(r) /\ 1 <= 1
    BY <1>1
  <2>2. \A k \in 1 .. Len(r) : k + 1 \in 1 .. 1 + Len(r) /\ ~(k + 1 <= 1) /\ (k + 1) - 1 = k
    BY <1>1
  <2>3. \A k \in 1 .. 1 + Len(r) : c[k] = IF k <= 1 THEN e[k] ELSE r[k - 1]
    BY <1>1, <1>2
  <2>4. Len(c) = Len(r) + 1
    BY <1>1, <1>2
  <2>5. c[1] = x
    BY <1>1, <2>1, <2>3
  <2>6. \A k \in 1 .. Len(r) : c[k + 1] = r[k]
    BY <2>2, <2>3
  <2>. QED
    BY <1>2, <2>4, <2>5, <2>6
<1>4. c # <<>> /\ Head(c) = x
  BY <1>1, <1>3
<1>5. Tail(c) = r
  <2>1. PICK u : u = Tail(c)
    OBVIOUS
  <2>2. /\ u \in Seq(S) /\ Len(u) = Len(c) - 1
        /\ \A k \in 1 .. Len(u) : u[k] = c[k + 1]
    BY <1>3, <1>4, <2>1
  <2>3. PICK m : m = Len(r)
    OBVIOUS
  <2>4. Len(u) = m
    BY <1>1, <1>3, <2>2, <2>3
  <2>5. \A k \in 1 .. m : u[k] = r[k]
    BY <1>3, <2>2, <2>3, <2>4
  <2>. QED
    BY ONLY <2>1, <2>2, <2>3, <2>4, <2>5, r \in Seq(S), SameSeq
<1>. QED
  BY <1>3, <1>4, <1>5 DEF c, e

\* What is still ahead, one by one.
LEMMA AfterIs ==
  ASSUME NEW S, NEW A, A \in Seq(S), NEW j \in 0 .. Len(A), j # Len(A)
  PROVE  After(A, j) = <<A[j + 1]>> \o After(A, j + 1)
<1>1. /\ Len(A) \in Nat /\ j + 1 \in 1 .. Len(A) /\ j + 1 \in 0 .. Len(A)
      /\ Len(A) - (j + 1) \in Nat /\ (Len(A) - (j + 1)) + 1 = Len(A) - j /\ j \in Int
  OBVIOUS
<1>2. A[j + 1] \in S
  <2>1. \A k \in 1 .. Len(A) : A[k] \in S
    OBVIOUS
  <2>. QED
    BY ONLY <1>1, <2>1
<1>3. PICK x : x = A[j + 1]
  OBVIOUS
<1>4. PICK i : i = j + 1
  OBVIOUS
<1>5. PICK r : r = After(A, i)
  OBVIOUS
<1>6. r \in Seq(S) /\ Len(r) = Len(A) - i /\ \A k \in 1 .. (Len(A) - i) : r[k] = A[k + i]
  BY <1>1, <1>4, <1>5, PartsAre
<1>7. /\ After(A, j) \in Seq(S) /\ Len(After(A, j)) = Len(A) - j
      /\ \A k \in 1 .. (Len(A) - j) : After(A, j)[k] = A[k + j]
  BY ONLY A \in Seq(S), j \in 0 .. Len(A), PartsAre
<1>8. PICK c : c = <<x>> \o r
  OBVIOUS
<1>9. /\ c \in Seq(S) /\ Len(c) = Len(r) + 1
      /\ c[1] = x /\ \A k \in 1 .. Len(r) : c[k + 1] = r[k]
  BY <1>2, <1>3, <1>6, <1>8, FrontOf
<1>10. PICK n : n = Len(A) - j
  OBVIOUS
<1>11. Len(c) = n
  BY <1>1, <1>4, <1>6, <1>9, <1>10
<1>12. ASSUME NEW k \in 1 .. n
       PROVE  c[k] = A[k + j]
  <2>1. CASE k = 1
    <3>1. k + j = j + 1
      BY ONLY <2>1, j \in 0 .. Len(A)
    <3>. QED
      BY <1>3, <1>9, <2>1, <3>1
  <2>2. CASE k # 1
    <3>1. PICK m : m = k - 1
      OBVIOUS
    <3>2. m \in 1 .. (Len(A) - i) /\ m + 1 = k /\ m + i = k + j
      BY ONLY <1>1, <1>4, <1>10, <2>2, <3>1, k \in 1 .. n
    <3>. QED
      BY <1>6, <1>9, <3>2
  <2>. QED
    BY <2>1, <2>2
<1>13. PICK u : u = After(A, j)
  OBVIOUS
<1>14. u \in Seq(S) /\ Len(u) = n /\ \A k \in 1 .. n : u[k] = c[k]
  BY <1>7, <1>10, <1>12, <1>13
<1>15. u = c
  BY ONLY <1>9, <1>11, <1>14, SameSeq
<1>. QED
  BY <1>3, <1>4, <1>5, <1>8, <1>13, <1>15

\* An entry before the j-th is taken away, or one behind it.
LEMMA AfterRemoved ==
  ASSUME NEW S, NEW A, A \in Seq(S), \A i, k \in 1 .. Len(A) : A[i] = A[k] => i = k,
         NEW i \in 1 .. Len(A), NEW x, x = A[i], NEW j \in 0 .. Len(A),
         NEW B, B = Removed(A, i)
  PROVE  /\ i <= j => /\ j - 1 \in 0 .. Len(B)
                      /\ Without(After(A, j), x) = After(B, j - 1)
         /\ j < i => /\ j \in 0 .. Len(B)
                     /\ Without(After(A, j), x) = After(B, j)
<1>1. Len(A) \in Nat /\ i \in Int /\ j \in Int /\ i >= 1 /\ i <= Len(A) /\ j >= 0 /\ j <= Len(A)
  OBVIOUS
<1>2. /\ B \in Seq(S) /\ Len(B) = Len(A) - 1
      /\ \A k \in 1 .. (Len(A) - 1) : B[k] = IF k < i THEN A[k] ELSE A[k + 1]
  <2>1. IsWithoutEntry(B, S, A, i)
    BY ONLY A \in Seq(S), i \in 1 .. Len(A), B = Removed(A, i), RemovedHas
  <2>2. Len(A) \in Nat
    BY ONLY A \in Seq(S)
  <2>. QED
    BY ONLY <2>1, <2>2 DEF IsWithoutEntry
<1>3. PICK r : r = After(A, j)
  OBVIOUS
<1>4. /\ r \in Seq(S) /\ Len(r) = Len(A) - j
      /\ \A k \in 1 .. (Len(A) - j) : r[k] = A[k + j]
  BY ONLY <1>3, A \in Seq(S), j \in 0 .. Len(A), PartsAre
<1>5. CASE i <= j
  <2>1. PICK m : m = j - 1
    OBVIOUS
  <2>2. m \in 0 .. Len(B) /\ m \in Int /\ Len(B) - m = Len(A) - j
    BY <1>1, <1>2, <1>5, <2>1
  <2>3. \A k \in 1 .. Len(r) : r[k] # x
    <3>1. \A k \in 1 .. Len(r) : k + j \in 1 .. Len(A) /\ k + j # i /\ k \in 1 .. (Len(A) - j)
      BY <1>1, <1>4, <1>5
    <3>. QED
      BY <1>4, <3>1
  <2>4. Without(r, x) = r
    BY <2>3, WithoutOther
  <2>5. PICK u : u = After(B, m)
    OBVIOUS
  <2>6. /\ u \in Seq(S) /\ Len(u) = Len(B) - m
        /\ \A k \in 1 .. (Len(B) - m) : u[k] = B[k + m]
    BY ONLY <1>2, <2>2, <2>5, PartsAre
  <2>7. PICK n : n = Len(A) - j
    OBVIOUS
  <2>8. \A k \in 1 .. n : u[k] = r[k]
    <3>1. \A k \in 1 .. n : /\ k + m \in 1 .. (Len(A) - 1) /\ ~(k + m < i) /\ (k + m) + 1 = k + j
                            /\ k \in 1 .. (Len(B) - m)
      BY <1>1, <1>2, <1>5, <2>1, <2>2, <2>7
    <3>. QED
      BY ONLY <1>2, <1>4, <2>6, <2>7, <3>1
  <2>9. Len(u) = n /\ Len(r) = n
    BY <1>4, <2>2, <2>6, <2>7
  <2>10. u = r
    BY ONLY <1>4, <2>6, <2>8, <2>9, SameSeq
  <2>. QED
    BY <1>1, <1>3, <1>5, <2>1, <2>2, <2>4, <2>5, <2>10
<1>6. CASE j < i
  <2>1. j \in 0 .. Len(B) /\ Len(B) - j = (Len(A) - j) - 1
    BY <1>1, <1>2, <1>6
  <2>2. PICK m : m = i - j
    OBVIOUS
  <2>3. m \in 1 .. Len(r) /\ m + j = i /\ m \in Int
    BY <1>1, <1>4, <1>6, <2>2
  <2>4. r[m] = x
    BY <1>4, <2>3
  <2>5. \A k, o \in 1 .. Len(r) : r[k] = r[o] => k = o
    <3>1. \A k \in 1 .. Len(r) : k + j \in 1 .. Len(A) /\ k \in 1 .. (Len(A) - j)
      BY <1>1, <1>4
    <3>2. ASSUME NEW k \in 1 .. Len(r), NEW o \in 1 .. Len(r), r[k] = r[o]
          PROVE  k = o
      <4>1. k + j = o + j
        BY <1>4, <3>1, <3>2
      <4>. QED
        BY <1>1, <4>1
    <3>. QED
      BY <3>2
  <2>6. Without(r, x) = Removed(r, m)
    BY ONLY <1>4, <2>3, <2>4, <2>5, WithoutIs
  <2>7. PICK w : w = Removed(r, m)
    OBVIOUS
  <2>8. /\ w \in Seq(S) /\ Len(w) = Len(r) - 1
        /\ \A k \in 1 .. (Len(r) - 1) : w[k] = IF k < m THEN r[k] ELSE r[k + 1]
    <3>1. r \in Seq(S) /\ m \in 1 .. Len(r) /\ w = Removed(r, m)
      BY ONLY <1>4, <2>3, <2>7
    <3>2. IsWithoutEntry(w, S, r, m)
      BY ONLY <3>1, RemovedHas
    <3>. QED
      BY ONLY <3>2 DEF IsWithoutEntry
  <2>9. PICK u : u = After(B, j)
    OBVIOUS
  <2>10. /\ u \in Seq(S) /\ Len(u) = Len(B) - j
         /\ \A k \in 1 .. (Len(B) - j) : u[k] = B[k + j]
    BY ONLY <1>2, <2>1, <2>9, PartsAre
  <2>11. PICK n : n = Len(B) - j
    OBVIOUS
  <2>12. Len(r) - 1 = n /\ Len(B) - j = n /\ Len(A) - j = n + 1 /\ Len(A) - 1 = n + j
    BY <1>1, <1>2, <1>4, <2>1, <2>11
  <2>13. \A k \in 1 .. n :
           /\ k + j \in 1 .. (n + j) /\ (k + j < i <=> k < m) /\ (k + j) + 1 = (k + 1) + j
           /\ k \in 1 .. (n + 1) /\ k + 1 \in 1 .. (n + 1)
    BY <1>1, <2>1, <2>2, <2>12
  <2>14. \A k \in 1 .. n : u[k] = w[k]
    <3>1. \A k \in 1 .. n :
            /\ u[k] = B[k + j] /\ B[k + j] = IF k + j < i THEN A[k + j] ELSE A[(k + j) + 1]
            /\ w[k] = IF k < m THEN r[k] ELSE r[k + 1]
            /\ r[k] = A[k + j] /\ r[k + 1] = A[(k + 1) + j]
      BY ONLY <1>2, <1>4, <2>8, <2>10, <2>12, <2>13
    <3>. QED
      BY ONLY <2>13, <3>1
  <2>15. Len(u) = n /\ Len(w) = n
    BY <2>8, <2>10, <2>12
  <2>16. u = w
    <3>1. u \in Seq(S) /\ w \in Seq(S)
      BY ONLY <2>8, <2>10
    <3>. QED
      BY ONLY <2>14, <2>15, <3>1, SameSeq
  <2>. QED
    BY <1>3, <1>6, <2>1, <2>6, <2>7, <2>9, <2>16
<1>. QED
  BY <1>1, <1>5, <1>6

\* A list in the direction of a walk.
AheadOf(q, way) == IF way = "next" THEN q ELSE Reverse(q)

LEMMA ReverseIs ==
  ASSUME NEW S, NEW q, q \in Seq(S)
  PROVE  /\ Reverse(q) \in Seq(S) /\ Len(Reverse(q)) = Len(q)
         /\ \A i \in 1 .. Len(q) : (Len(q) - i) + 1 \in 1 .. Len(q) /\ Reverse(q)[i] = q[(Len(q) - i) + 1]
<1>. DEFINE r == [i \in 1 .. Len(q) |-> q[(Len(q) - i) + 1]]
<1>1. Len(q) \in Nat /\ \A k \in 1 .. Len(q) : q[k] \in S
  OBVIOUS
<1>2. PICK L : L = Len(q)
  OBVIOUS
<1>3. \A i \in 1 .. L : (L - i) + 1 \in 1 .. L
  BY <1>1, <1>2
<1>4. \A i \in 1 .. L : r[i] = q[(L - i) + 1] /\ r[i] \in S
  BY <1>1, <1>2, <1>3
<1>5. r \in Seq(S) /\ Len(r) = L
  <2>1. \A i \in 1 .. L : q[(L - i) + 1] \in S
    BY <1>1, <1>2, <1>3
  <2>. QED
    BY <1>1, <1>2, <2>1
<1>6. Reverse(q) = r
  BY DEF Reverse
<1>. HIDE DEF r
<1>. QED
  BY <1>2, <1>3, <1>4, <1>5, <1>6

Distinct(q) == \A i, k \in 1 .. Len(q) : q[i] = q[k] => i = k
Members(q)  == {q[k] : k \in 1 .. Len(q)}

LEMMA AheadIs ==
  ASSUME NEW S, NEW q, q \in Seq(S), Distinct(q), NEW way, NEW A, A = AheadOf(q, way)
  PROVE  A \in Seq(S) /\ Len(A) = Len(q) /\ Distinct(A) /\ Members(A) = Members(q)
<1>1. CASE way = "next"
  BY <1>1 DEF AheadOf
<1>2. CASE way # "next"
  <2>1. A = Reverse(q)
    BY <1>2 DEF AheadOf
  <2>2. /\ A \in Seq(S) /\ Len(A) = Len(q)
        /\ \A i \in 1 .. Len(q) : (Len(q) - i) + 1 \in 1 .. Len(q) /\ A[i] = q[(Len(q) - i) + 1]
    BY ONLY <2>1, q \in Seq(S), ReverseIs
  <2>3. PICK L : L = Len(q)
    OBVIOUS
  <2>4. L \in Nat
    BY <2>3
  <2>5. \A i, k \in 1 .. L : (L - i) + 1 = (L - k) + 1 => i = k
    BY <2>4
  <2>6. \A k \in 1 .. L : (L - k) + 1 \in 1 .. L /\ (L - ((L - k) + 1)) + 1 = k
    BY <2>4
  <2>7. Distinct(A)
    <3>1. ASSUME NEW i \in 1 .. L, NEW k \in 1 .. L, A[i] = A[k]
          PROVE  i = k
      <4>1. q[(L - i) + 1] = q[(L - k) + 1] /\ (L - i) + 1 \in 1 .. L /\ (L - k) + 1 \in 1 .. L
        BY <2>2, <2>3, <3>1
      <4>2. (L - i) + 1 = (L - k) + 1
        BY <2>3, <4>1 DEF Distinct
      <4>. QED
        BY <2>5, <4>2
    <3>. QED
      BY <2>2, <2>3, <3>1 DEF Distinct
  <2>8. \A i \in 1 .. Len(A) : \E k \in 1 .. Len(q) : A[i] = q[k]
    BY <2>2
  <2>9. ASSUME NEW k \in 1 .. L
        PROVE  \E i \in 1 .. L : A[i] = q[k]
    <3>1. PICK i : i = (L - k) + 1
      OBVIOUS
    <3>2. i \in 1 .. L /\ (L - i) + 1 = k
      BY <2>6, <3>1
    <3>. QED
      BY <2>2, <2>3, <3>2
  <2>10. Members(A) = Members(q)
    <3>1. \A k \in 1 .. Len(q) : \E i \in 1 .. Len(A) : A[i] = q[k]
      BY <2>2, <2>3, <2>9
    <3>2. \A y \in Members(A) : y \in Members(q)
      BY <2>8 DEF Members
    <3>3. \A y \in Members(q) : y \in Members(A)
      BY <3>1 DEF Members
    <3>. QED
      BY ONLY <3>2, <3>3
  <2>. QED
    BY <2>2, <2>7, <2>10
<1>. QED
  BY <1>1, <1>2

\* The ring of a list in the direction of a walk.
LEMMA AheadRing ==
  ASSUME NEW h, NEW U, NEW s, Spells(h, U, s), NEW l \in U,
         NEW way \in {"next", "prev"}, NEW A, A = AheadOf(s[l], way)
  PROVE  \A i \in 0 .. Len(A) : h[way][RingAt(A, l, i)] = RingAt(A, l, i + 1)
<1>1. PICK q : q = s[l]
  OBVIOUS
<1>2. PICK L : L = Len(q)
  OBVIOUS
<1>3. /\ q \in Seq(Nodes) /\ L \in Nat /\ IsHeap(h, N) /\ IsRing(h, N, l, q) /\ l \in N
      /\ \A i, k \in 1 .. L : q[i] = q[k] => i = k
  BY <1>1, <1>2, ListFacts
<1>4. /\ RingAt(q, l, 0) = l /\ RingAt(q, l, L + 1) = l
      /\ \A k \in 0 .. L :
           /\ h.next[RingAt(q, l, k)] = RingAt(q, l, k + 1)
           /\ h.prev[RingAt(q, l, k + 1)] = RingAt(q, l, k)
  BY <1>2, <1>3, RingFacts
<1>5. CASE way = "next"
  BY <1>1, <1>2, <1>4, <1>5 DEF AheadOf
<1>6. CASE way = "prev"
  <2>1. A = Reverse(q) /\ h[way] = h.prev
    BY <1>1, <1>6 DEF AheadOf
  <2>2. Len(A) = L /\ \A i \in 1 .. L : (L - i) + 1 \in 1 .. L /\ A[i] = q[(L - i) + 1]
    BY ONLY <1>2, <1>3, <2>1, ReverseIs
  <2>3. ASSUME NEW i \in 0 .. (L + 1), NEW k, k = (L - i) + 1
        PROVE  RingAt(A, l, i) = RingAt(q, l, k)
    <3>1. CASE i \in 1 .. L
      BY <1>2, <2>2, <2>3, <3>1 DEF RingAt
    <3>2. CASE i \notin 1 .. L
      <4>1. k \notin 1 .. L
        BY <1>3, <2>3, <3>2
      <4>. QED
        BY <1>2, <2>2, <3>2, <4>1 DEF RingAt
    <3>. QED
      BY <3>1, <3>2
  <2>4. ASSUME NEW i \in 0 .. L
        PROVE  h.prev[RingAt(A, l, i)] = RingAt(A, l, i + 1)
    <3>1. PICK k : k = L - i
      OBVIOUS
    <3>2. k \in 0 .. L /\ k + 1 = (L - i) + 1 /\ i \in 0 .. (L + 1)
          /\ i + 1 \in 0 .. (L + 1) /\ k = (L - (i + 1)) + 1
      BY <1>3, <3>1
    <3>3. RingAt(A, l, i) = RingAt(q, l, k + 1)
      BY <2>3, <3>2
    <3>4. RingAt(A, l, i + 1) = RingAt(q, l, k)
      BY <2>3, <3>2
    <3>. QED
      BY <1>4, <3>2, <3>3, <3>4
  <2>. QED
    BY <2>1, <2>2, <2>4
<1>. QED
  BY <1>5, <1>6

\* What is ahead when an entry is taken away.
LEMMA AheadWithout ==
  ASSUME NEW S, NEW q, q \in Seq(S), \A i, k \in 1 .. Len(q) : q[i] = q[k] => i = k,
         NEW way, NEW A, A = AheadOf(q, way), NEW p \in 1 .. Len(q), NEW x, x = q[p]
  PROVE  \E i \in 1 .. Len(A) : A[i] = x /\ AheadOf(Without(q, x), way) = Removed(A, i)
<1>1. Without(q, x) = Removed(q, p)
  BY WithoutIs
<1>2. CASE way = "next"
  BY <1>1, <1>2 DEF AheadOf
<1>3. CASE way # "next"
  <2>1. PICK L : L = Len(q)
    OBVIOUS
  <2>2. L \in Nat /\ p \in 1 .. L
    BY <2>1
  <2>3. A = Reverse(q)
    BY <1>3 DEF AheadOf
  <2>4. /\ A \in Seq(S) /\ Len(A) = L
        /\ \A i \in 1 .. L : (L - i) + 1 \in 1 .. L /\ A[i] = q[(L - i) + 1]
    BY ONLY <2>1, <2>3, q \in Seq(S), ReverseIs
  <2>5. PICK i : i = (L - p) + 1
    OBVIOUS
  <2>6. i \in 1 .. L /\ i \in 1 .. Len(A) /\ (L - i) + 1 = p
    BY <2>2, <2>4, <2>5
  <2>7. A[i] = x
    BY <2>4, <2>6
  <2>8. PICK b : b = Removed(q, p)
    OBVIOUS
  <2>9. /\ b \in Seq(S) /\ Len(b) = L - 1
        /\ \A k \in 1 .. (L - 1) : b[k] = IF k < p THEN q[k] ELSE q[k + 1]
    <3>1. p \in 1 .. Len(q)
      BY ONLY <2>1, <2>2
    <3>2. IsWithoutEntry(b, S, q, p)
      BY ONLY <2>8, <3>1, q \in Seq(S), RemovedHas
    <3>. QED
      BY ONLY <2>1, <3>2 DEF IsWithoutEntry
  <2>10. PICK c : c = Reverse(b)
    OBVIOUS
  <2>11. /\ c \in Seq(S) /\ Len(c) = Len(b)
         /\ \A k \in 1 .. Len(b) : (Len(b) - k) + 1 \in 1 .. Len(b) /\ c[k] = b[(Len(b) - k) + 1]
    BY ONLY <2>9, <2>10, ReverseIs
  <2>12. PICK d : d = Removed(A, i)
    OBVIOUS
  <2>13. /\ d \in Seq(S) /\ Len(d) = L - 1
         /\ \A k \in 1 .. (L - 1) : d[k] = IF k < i THEN A[k] ELSE A[k + 1]
    <3>1. A \in Seq(S) /\ Len(A) = L /\ i \in 1 .. Len(A)
      BY ONLY <2>4, <2>6
    <3>2. IsWithoutEntry(d, S, A, i)
      BY ONLY <2>12, <3>1, RemovedHas
    <3>. QED
      BY ONLY <3>1, <3>2 DEF IsWithoutEntry
  <2>14. PICK n : n = L - 1
    OBVIOUS
  <2>15. Len(b) = n /\ Len(c) = n /\ Len(d) = n /\ n \in Int
    BY <2>2, <2>9, <2>11, <2>13, <2>14
  <2>16. ASSUME NEW k \in 1 .. n
         PROVE  c[k] = d[k]
    <3>1. PICK m : m = (n - k) + 1
      OBVIOUS
    <3>2. /\ m \in 1 .. (L - 1) /\ k \in 1 .. (L - 1) /\ k \in 1 .. L /\ k + 1 \in 1 .. L
          /\ (k < i <=> ~(m < p)) /\ (L - k) + 1 = m + 1 /\ (L - (k + 1)) + 1 = m
      BY <2>2, <2>5, <2>14, <2>15, <3>1
    <3>3. c[k] = b[m] /\ b[m] = IF m < p THEN q[m] ELSE q[m + 1]
      BY <2>9, <2>11, <2>15, <3>1, <3>2
    <3>4. d[k] = IF k < i THEN A[k] ELSE A[k + 1]
      BY <2>13, <3>2
    <3>5. A[k] = q[m + 1] /\ A[k + 1] = q[m]
      BY <2>4, <3>2
    <3>. QED
      BY <3>2, <3>3, <3>4, <3>5
  <2>17. c = d
    BY ONLY <2>11, <2>13, <2>15, <2>16, SameSeq
  <2>18. AheadOf(Without(q, x), way) = c
    BY <1>1, <1>3, <2>8, <2>10 DEF AheadOf
  <2>. QED
    BY <2>6, <2>7, <2>12, <2>17, <2>18
<1>. QED
  BY <1>2, <1>3

\* The end a walk leaves behind.
LEMMA AheadBehind ==
  ASSUME NEW S, NEW q, q \in Seq(S), NEW x \in S, NEW way
  PROVE  AheadOf(IF way = "next" THEN <<x>> \o q ELSE Append(q, x), way) = <<x>> \o AheadOf(q, way)
<1>1. CASE way = "next"
  BY <1>1 DEF AheadOf
<1>2. CASE way # "next"
  <2>1. PICK L : L = Len(q)
    OBVIOUS
  <2>2. PICK a : a = Append(q, x)
    OBVIOUS
  <2>3. /\ a \in Seq(S) /\ Len(a) = L + 1 /\ a[L + 1] = x
        /\ \A k \in 1 .. L : a[k] = q[k]
    BY <2>1, <2>2, AppendProperties
  <2>4. PICK b : b = Reverse(a)
    OBVIOUS
  <2>5. /\ b \in Seq(S) /\ Len(b) = Len(a)
        /\ \A k \in 1 .. Len(a) : (Len(a) - k) + 1 \in 1 .. Len(a) /\ b[k] = a[(Len(a) - k) + 1]
    BY ONLY <2>3, <2>4, ReverseIs
  <2>6. PICK r : r = Reverse(q)
    OBVIOUS
  <2>7. /\ r \in Seq(S) /\ Len(r) = L
        /\ \A k \in 1 .. L : (L - k) + 1 \in 1 .. L /\ r[k] = q[(L - k) + 1]
    BY ONLY <2>1, <2>6, q \in Seq(S), ReverseIs
  <2>8. PICK c : c = <<x>> \o r
    OBVIOUS
  <2>9. /\ c \in Seq(S) /\ Len(c) = Len(r) + 1
        /\ c[1] = x /\ \A k \in 1 .. Len(r) : c[k + 1] = r[k]
    BY ONLY <2>7, <2>8, x \in S, FrontOf
  <2>10. PICK n : n = L + 1
    OBVIOUS
  <2>11. L \in Nat /\ Len(b) = n /\ Len(c) = n /\ Len(a) = n
    BY <2>1, <2>3, <2>5, <2>7, <2>9, <2>10
  <2>12. ASSUME NEW k \in 1 .. n
         PROVE  b[k] = c[k]
    <3>1. CASE k = 1
      <4>1. (n - k) + 1 = L + 1
        BY <2>10, <2>11, <3>1
      <4>. QED
        BY <2>3, <2>5, <2>9, <2>11, <3>1, <4>1
    <3>2. CASE k # 1
      <4>1. PICK m : m = k - 1
        OBVIOUS
      <4>2. m \in 1 .. L /\ m + 1 = k /\ (n - k) + 1 = (L - m) + 1 /\ (L - m) + 1 \in 1 .. L
        BY <2>10, <2>11, <3>2, <4>1
      <4>3. b[k] = a[(n - k) + 1]
        BY <2>5, <2>11
      <4>4. a[(L - m) + 1] = q[(L - m) + 1] /\ r[m] = q[(L - m) + 1]
        BY <2>3, <2>7, <4>2
      <4>5. c[m + 1] = r[m]
        BY <2>7, <2>9, <4>2
      <4>. QED
        BY <4>2, <4>3, <4>4, <4>5
    <3>. QED
      BY <3>1, <3>2
  <2>13. b = c
    <3>1. b \in Seq(S) /\ c \in Seq(S) /\ Len(b) = n /\ Len(c) = n
      BY <2>5, <2>9, <2>11
    <3>. QED
      BY ONLY <2>12, <3>1, SameSeq
  <2>. QED
    BY <1>2, <2>2, <2>4, <2>6, <2>8, <2>13 DEF AheadOf
<1>. QED
  BY <1>1, <1>2

\* A walk begins on the i-th entry.
LEMMA StandsFrom ==
  ASSUME NEW S, NEW A, A \in Seq(S), \A i, k \in 1 .. Len(A) : A[i] = A[k] => i = k,
         NEW l, NEW i \in 1 .. Len(A), NEW x, x = A[i], NEW safe, NEW n,
         ~safe \/ n = RingAt(A, l, i + 1)
  PROVE  Standing(A, l, safe, x, n, From(A, x)) /\ From(A, x) \in Seq(S)
<1>1. Place(A, x) = i /\ i # 0
  BY PlaceIs
<1>2. From(A, x) = SubSeq(A, i, Len(A))
  BY <1>1 DEF From
<1>3. PICK j : j = i - 1
  OBVIOUS
<1>4. j \in 0 .. Len(A) /\ j # Len(A) /\ j + 1 = i /\ i \in 0 .. Len(A)
  BY <1>3
<1>5. After(A, j) = <<A[j + 1]>> \o After(A, j + 1)
  BY ONLY <1>4, A \in Seq(S), AfterIs
<1>6. From(A, x) = <<x>> \o After(A, i)
  BY <1>2, <1>4, <1>5 DEF After
<1>7. After(A, j) \in Seq(S)
  BY ONLY <1>4, A \in Seq(S), PartsAre
<1>8. x = RingAt(A, l, i)
  BY DEF RingAt
<1>9. From(A, x) \in Seq(S)
  BY <1>2, <1>4, <1>7 DEF After
<1>. QED
  BY <1>1, <1>4, <1>6, <1>8, <1>9 DEF Standing

\* What due looks like.
BeginsWith(due, S, pos, rest) ==
  /\ due \in Seq(S) /\ due # <<>> /\ due[1] = pos
  /\ Head(due) = pos /\ Tail(due) = rest

LEMMA DueIs ==
  ASSUME NEW S, NEW A, A \in Seq(S), NEW j \in 0 .. Len(A), NEW pos \in S,
         NEW due, due = <<pos>> \o After(A, j)
  PROVE  BeginsWith(due, S, pos, After(A, j))
<1>1. PICK r : r = After(A, j)
  OBVIOUS
<1>2. r \in Seq(S)
  BY ONLY <1>1, A \in Seq(S), j \in 0 .. Len(A), PartsAre
<1>3. due = <<pos>> \o r
  BY <1>1
<1>4. due \in Seq(S) /\ due # <<>> /\ due[1] = pos /\ Head(due) = pos /\ Tail(due) = r
  BY ONLY <1>2, <1>3, pos \in S, FrontOf
<1>. QED
  BY <1>1, <1>4 DEF BeginsWith

\* An entry is taken away that the walk does not go on from.
LEMMA StandsWithout ==
  ASSUME NEW S, NEW A, A \in Seq(S), \A i, k \in 1 .. Len(A) : A[i] = A[k] => i = k,
         NEW l, l \notin S, NEW safe, NEW pos \in S, NEW n, NEW due,
         Standing(A, l, safe, pos, n, due), NEW x, x # (IF safe THEN n ELSE pos),
         NEW i \in 1 .. Len(A), x = A[i], NEW B, B = Removed(A, i)
  PROVE  Standing(B, l, safe, pos, n, <<Head(due)>> \o Without(Tail(due), x))
<1>1. PICK j \in 0 .. Len(A) :
        /\ due = <<pos>> \o After(A, j)
        /\ ~safe => j # 0 /\ pos = RingAt(A, l, j)
        /\ safe => n = RingAt(A, l, j + 1)
  BY DEF Standing
<1>2. Head(due) = pos /\ Tail(due) = After(A, j)
  <2>1. PICK r : r = After(A, j)
    OBVIOUS
  <2>2. r \in Seq(S)
    BY ONLY <2>1, A \in Seq(S), j \in 0 .. Len(A), PartsAre
  <2>3. Head(<<pos>> \o r) = pos /\ Tail(<<pos>> \o r) = r
    BY ONLY <2>2, pos \in S, FrontOf
  <2>. QED
    BY <1>1, <2>1, <2>3
<1>3. /\ Len(A) \in Nat /\ Len(B) = Len(A) - 1
      /\ \A k \in 1 .. (Len(A) - 1) : B[k] = IF k < i THEN A[k] ELSE A[k + 1]
  <2>1. IsWithoutEntry(B, S, A, i)
    BY ONLY A \in Seq(S), i \in 1 .. Len(A), B = Removed(A, i), RemovedHas
  <2>2. Len(A) \in Nat
    BY ONLY A \in Seq(S)
  <2>. QED
    BY ONLY <2>1, <2>2 DEF IsWithoutEntry
<1>4. /\ i <= j => /\ j - 1 \in 0 .. Len(B)
                   /\ Without(After(A, j), x) = After(B, j - 1)
      /\ j < i => /\ j \in 0 .. Len(B)
                  /\ Without(After(A, j), x) = After(B, j)
  BY AfterRemoved
<1>5. CASE i <= j
  <2>1. PICK m : m = j - 1
    OBVIOUS
  <2>2. <<Head(due)>> \o Without(Tail(due), x) = <<pos>> \o After(B, m) /\ m \in 0 .. Len(B)
    BY <1>2, <1>4, <1>5, <2>1
  <2>3. ASSUME ~safe
        PROVE  m # 0 /\ pos = RingAt(B, l, m)
    <3>1. pos = A[j] /\ j \in 1 .. Len(A)
      BY <1>1, <1>3, <2>3 DEF RingAt
    <3>2. i # j
      BY <2>3, <3>1
    <3>3. m \in 1 .. (Len(A) - 1) /\ m # 0 /\ m \in 1 .. Len(B) /\ ~(m < i) /\ m + 1 = j
      BY <1>3, <1>5, <2>1, <3>1, <3>2
    <3>4. B[m] = A[j]
      BY <1>3, <3>3
    <3>. QED
      BY <3>1, <3>3, <3>4 DEF RingAt
  <2>4. ASSUME safe
        PROVE  n = RingAt(B, l, m + 1)
    <3>1. n = RingAt(A, l, j + 1) /\ m + 1 = j /\ j \in Int
      BY <1>1, <2>1, <2>4
    <3>2. CASE j + 1 \in 1 .. Len(A)
      <4>1. j \in 1 .. (Len(A) - 1) /\ j \in 1 .. Len(B) /\ ~(j < i)
        BY <1>3, <1>5, <3>2
      <4>2. B[j] = A[j + 1]
        BY <1>3, <4>1
      <4>. QED
        BY <3>1, <3>2, <4>1, <4>2 DEF RingAt
    <3>3. CASE j + 1 \notin 1 .. Len(A)
      <4>1. j \notin 1 .. Len(B)
        BY <1>3, <3>1, <3>3
      <4>. QED
        BY <3>1, <3>3, <4>1 DEF RingAt
    <3>. QED
      BY <3>2, <3>3
  <2>. QED
    BY <2>2, <2>3, <2>4 DEF Standing
<1>6. CASE j < i
  <2>1. <<Head(due)>> \o Without(Tail(due), x) = <<pos>> \o After(B, j) /\ j \in 0 .. Len(B)
    BY <1>2, <1>4, <1>6
  <2>2. ASSUME ~safe
        PROVE  j # 0 /\ pos = RingAt(B, l, j)
    <3>1. pos = A[j] /\ j # 0 /\ j \in 1 .. Len(A)
      BY <1>1, <1>3, <2>2 DEF RingAt
    <3>2. j \in 1 .. (Len(A) - 1) /\ j \in 1 .. Len(B)
      BY <1>3, <1>6, <3>1
    <3>3. B[j] = A[j]
      BY <1>3, <1>6, <3>2
    <3>. QED
      BY <3>1, <3>2, <3>3 DEF RingAt
  <2>3. ASSUME safe
        PROVE  n = RingAt(B, l, j + 1)
    <3>1. n = RingAt(A, l, j + 1) /\ j + 1 \in 1 .. Len(A)
      BY <1>1, <1>3, <1>6, <2>3
    <3>2. n = A[j + 1]
      BY <3>1 DEF RingAt
    <3>3. j + 1 # i
      BY <2>3, <3>2
    <3>4. j + 1 \in 1 .. (Len(A) - 1) /\ j + 1 \in 1 .. Len(B) /\ j + 1 < i
      BY <1>3, <1>6, <3>1, <3>3
    <3>5. B[j + 1] = A[j + 1]
      BY <1>3, <3>4
    <3>. QED
      BY <3>2, <3>4, <3>5 DEF RingAt
  <2>. QED
    BY <2>1, <2>2, <2>3 DEF Standing
<1>. QED
  BY <1>3, <1>5, <1>6

\* The history when the entry is on another list, or on none.
LEMMA StandsApart ==
  ASSUME NEW S, NEW A, A \in Seq(S), NEW l, NEW safe, NEW pos \in S, NEW n, NEW due,
         Standing(A, l, safe, pos, n, due), NEW x, \A i \in 1 .. Len(A) : A[i] # x
  PROVE  Standing(A, l, safe, pos, n, <<Head(due)>> \o Without(Tail(due), x))
<1>1. PICK j \in 0 .. Len(A) :
        /\ due = <<pos>> \o After(A, j)
        /\ ~safe => j # 0 /\ pos = RingAt(A, l, j)
        /\ safe => n = RingAt(A, l, j + 1)
  BY DEF Standing
<1>2. Head(due) = pos /\ Tail(due) = After(A, j)
  <2>1. PICK r : r = After(A, j)
    OBVIOUS
  <2>2. r \in Seq(S)
    BY ONLY <2>1, A \in Seq(S), j \in 0 .. Len(A), PartsAre
  <2>3. Head(<<pos>> \o r) = pos /\ Tail(<<pos>> \o r) = r
    BY ONLY <2>2, pos \in S, FrontOf
  <2>. QED
    BY <1>1, <2>1, <2>3
<1>3. Without(After(A, j), x) = After(A, j)
  <2>1. PICK r : r = After(A, j)
    OBVIOUS
  <2>2. Len(r) = Len(A) - j /\ \A k \in 1 .. (Len(A) - j) : r[k] = A[k + j]
    BY ONLY <2>1, A \in Seq(S), j \in 0 .. Len(A), PartsAre
  <2>3. \A k \in 1 .. (Len(A) - j) : k + j \in 1 .. Len(A)
    OBVIOUS
  <2>4. \A k \in 1 .. Len(r) : r[k] # x
    BY <2>2, <2>3
  <2>. QED
    BY <2>1, <2>4, WithoutOther
<1>. QED
  BY <1>1, <1>2, <1>3 DEF Standing

\* An entry comes in behind the walk.
LEMMA StandsBehind ==
  ASSUME NEW S, NEW A, A \in Seq(S), NEW x \in S, NEW B, B = <<x>> \o A,
         NEW l, NEW safe, NEW pos, NEW n, NEW due, Standing(A, l, safe, pos, n, due)
  PROVE  Standing(B, l, safe, pos, n, due)
<1>1. PICK j \in 0 .. Len(A) :
        /\ due = <<pos>> \o After(A, j)
        /\ ~safe => j # 0 /\ pos = RingAt(A, l, j)
        /\ safe => n = RingAt(A, l, j + 1)
  BY DEF Standing
<1>2. B \in Seq(S) /\ Len(B) = Len(A) + 1 /\ \A k \in 1 .. Len(A) : B[k + 1] = A[k]
  BY FrontOf
<1>3. PICK L : L = Len(A)
  OBVIOUS
<1>4. PICK m : m = j + 1
  OBVIOUS
<1>5. L \in Nat /\ j \in 0 .. L /\ m \in 0 .. Len(B) /\ m # 0 /\ Len(B) = L + 1
  BY <1>2, <1>3, <1>4
<1>6. \A k \in 1 .. (L + 1) : RingAt(B, l, k + 1) = RingAt(A, l, k)
  <2>1. ASSUME NEW k \in 1 .. (L + 1)
        PROVE  RingAt(B, l, k + 1) = RingAt(A, l, k)
    <3>1. CASE k \in 1 .. L
      <4>1. k + 1 \in 1 .. Len(B)
        BY <1>5, <3>1
      <4>. QED
        BY <1>2, <1>3, <3>1, <4>1 DEF RingAt
    <3>2. CASE k \notin 1 .. L
      <4>1. k + 1 \notin 1 .. Len(B)
        BY <1>5, <3>2
      <4>. QED
        BY <1>3, <3>2, <4>1 DEF RingAt
    <3>. QED
      BY <3>1, <3>2
  <2>. QED
    BY <2>1
<1>7. After(B, m) = After(A, j)
  <2>1. PICK r : r = After(A, j)
    OBVIOUS
  <2>2. r \in Seq(S) /\ Len(r) = L - j /\ \A k \in 1 .. (L - j) : r[k] = A[k + j]
    BY ONLY <1>3, <2>1, A \in Seq(S), j \in 0 .. Len(A), PartsAre
  <2>3. PICK u : u = After(B, m)
    OBVIOUS
  <2>4. /\ u \in Seq(S) /\ Len(u) = Len(B) - m
        /\ \A k \in 1 .. (Len(B) - m) : u[k] = B[k + m]
    BY ONLY <1>2, <1>5, <2>3, PartsAre
  <2>5. PICK o : o = L - j
    OBVIOUS
  <2>6. Len(B) - m = o
    BY <1>4, <1>5, <2>5
  <2>7. \A k \in 1 .. o : k + j \in 1 .. L /\ k + m = (k + j) + 1
    BY <1>4, <1>5, <2>5
  <2>8. \A k \in 1 .. o : u[k] = r[k]
    BY <1>2, <1>3, <2>2, <2>4, <2>5, <2>6, <2>7
  <2>9. Len(u) = o /\ Len(r) = o
    BY <2>2, <2>4, <2>5, <2>6
  <2>10. u = r
    BY ONLY <2>2, <2>4, <2>8, <2>9, SameSeq
  <2>. QED
    BY <2>1, <2>3, <2>10
<1>8. ~safe => m # 0 /\ pos = RingAt(B, l, m)
  <2>1. j # 0 => j \in 1 .. (L + 1)
    BY <1>5
  <2>. QED
    BY <1>1, <1>4, <1>5, <1>6, <2>1
<1>9. safe => n = RingAt(B, l, m + 1)
  <2>1. m \in 1 .. (L + 1)
    BY <1>4, <1>5
  <2>. QED
    BY <1>1, <1>4, <1>6, <2>1
<1>. QED
  BY <1>1, <1>5, <1>7, <1>8, <1>9 DEF Standing

-----------------------------------------------------------------------------
(* Entries that are on no list.                                            *)

\* An entry that is on no list of f was on none of h, and looks the same.
LeftAlone(f, t, h, s, U, y) ==
  OffLists(U, t, y) => OffLists(U, s, y) /\ f.next[y] = h.next[y]

\* The entry x, the p-th of list l, is to be taken away.
Taking(h, U, s, l, p, x, t) ==
  /\ Spells(h, U, s) /\ l \in U /\ p \in 1 .. Len(s[l]) /\ x = s[l][p]
  /\ t = [s EXCEPT ![l] = Without(s[l], x)]

\* Deleting an entry changes the links of no other one that is on no list.
LEMMA OthersWhenDeleted ==
  ASSUME NEW h, NEW U, NEW s, NEW l, NEW p, NEW x, NEW t, Taking(h, U, s, l, p, x, t),
         NEW y \in Nodes, y # x
  PROVE  /\ LeftAlone(list_del_entry(h, x), t, h, s, U, y)
         /\ LeftAlone(list_del(h, x), t, h, s, U, y)
         /\ LeftAlone(list_del_init(h, x), t, h, s, U, y)
<1>. Spells(h, U, s) /\ l \in U /\ p \in 1 .. Len(s[l]) /\ x = s[l][p]
     /\ t = [s EXCEPT ![l] = Without(s[l], x)]
  BY DEF Taking
<1>1. PICK q : q = s[l]
  OBVIOUS
<1>2. /\ IsHeap(h, N) /\ IsRing(h, N, l, q) /\ l \in N /\ l \notin Nodes
      /\ q \in Seq(Nodes) /\ Len(q) \in Nat
      /\ \A k \in 1 .. Len(q) : q[k] \in Nodes
  BY <1>1, ListFacts
<1>3. p \in 1 .. Len(q) /\ x = q[p] /\ x = RingAt(q, l, p) /\ x \in Nodes
  BY <1>1, <1>2 DEF RingAt
<1>4. PICK r : r = Removed(q, p)
  OBVIOUS
<1>5. Without(q, x) = r
  BY <1>1, <1>4, WithoutEntry
<1>6. s \in [U -> Seq(Nodes)] /\ \A k \in U : t[k] = IF k = l THEN r ELSE s[k]
  BY <1>1, <1>5 DEF Spells
<1>7. /\ Len(r) = Len(q) - 1
      /\ \A k \in 1 .. (Len(q) - 1) : r[k] = IF k < p THEN q[k] ELSE q[k + 1]
  <2>1. q \in Seq(Nodes) /\ p \in 1 .. Len(q) /\ r = Removed(q, p)
    BY ONLY <1>2, <1>3, <1>4
  <2>2. IsWithoutEntry(r, Nodes, q, p)
    BY ONLY <2>1, RemovedHas
  <2>. QED
    BY ONLY <2>2 DEF IsWithoutEntry
<1>8. ASSUME OffLists(U, t, y)
      PROVE  OffLists(U, s, y)
  <2>1. \A k \in 1 .. Len(r) : r[k] # y
    BY <1>6, <1>8 DEF OffLists
  <2>2. ASSUME NEW k \in 1 .. Len(q)
        PROVE  q[k] # y
    <3>1. CASE k < p
      <4>1. k \in 1 .. (Len(q) - 1) /\ k \in 1 .. Len(r)
        BY <1>2, <1>3, <1>7, <3>1
      <4>. QED
        BY <1>7, <2>1, <3>1, <4>1
    <3>2. CASE k = p
      BY <1>3, <3>2
    <3>3. CASE k > p
      <4>1. PICK m : m = k - 1
        OBVIOUS
      <4>2. m \in 1 .. (Len(q) - 1) /\ m \in 1 .. Len(r) /\ ~(m < p) /\ m + 1 = k
        BY <1>2, <1>3, <1>7, <3>3, <4>1
      <4>3. r[m] = q[k]
        BY <1>7, <4>2
      <4>. QED
        BY <2>1, <4>2, <4>3
    <3>. QED
      BY <1>2, <1>3, <3>1, <3>2, <3>3
  <2>3. \A k \in U : k # l => \A i \in 1 .. Len(s[k]) : s[k][i] # y
    BY <1>6, <1>8 DEF OffLists
  <2>. QED
    BY <1>1, <2>2, <2>3 DEF OffLists
<1>9. ASSUME OffLists(U, s, y)
      PROVE  /\ list_del_entry(h, x).next[y] = h.next[y]
             /\ list_del(h, x).next[y] = h.next[y]
             /\ list_del_init(h, x).next[y] = h.next[y]
  <2>1. PICK g : g = list_del_entry(h, x)
    OBVIOUS
  <2>2. /\ IsHeap(g, N)
        /\ \A z \in N : (\A k \in 0 .. Len(q) : RingAt(q, l, k) # z) =>
             g.next[z] = h.next[z] /\ g.prev[z] = h.prev[z]
    BY ONLY <1>2, <1>3, <2>1, DelEntry
  <2>3. \A k \in 0 .. Len(q) : RingAt(q, l, k) # y
    <3>1. \A k \in 1 .. Len(q) : q[k] # y
      BY <1>1, <1>9 DEF OffLists
    <3>. QED
      BY <1>2, <3>1 DEF RingAt
  <2>4. g.next[y] = h.next[y] /\ x \in N /\ y \in N
    BY <1>3, <2>2, <2>3, NodeSets
  <2>5. g.next \in [N -> Links(N)]
    BY <2>2 DEF IsHeap
  <2>6. list_del(h, x).next = [g.next EXCEPT ![x] = LIST_POISON1]
    BY <2>1 DEF list_del, Heap
  <2>7. list_del_init(h, x).next = [g.next EXCEPT ![x] = x]
    BY <2>1 DEF list_del_init, INIT_LIST_HEAD, Heap
  <2>. QED
    BY <2>1, <2>4, <2>5, <2>6, <2>7
<1>. QED
  BY <1>8, <1>9 DEF LeftAlone

\* Adding one does not either.
LEMMA OthersWhenAdded ==
  ASSUME NEW h, NEW U, NEW s, Spells(h, U, s), NEW l \in U, NEW x \in Nodes, OffLists(U, s, x),
         NEW q, q = <<x>> \o s[l] \/ q = Append(s[l], x), NEW t, t = [s EXCEPT ![l] = q]
  PROVE  /\ ~OffLists(U, t, x)
         /\ \A y \in Nodes \ {x} : /\ LeftAlone(list_add(h, x, l), t, h, s, U, y)
                                  /\ LeftAlone(list_add_tail(h, x, l), t, h, s, U, y)
<1>1. PICK o : o = s[l]
  OBVIOUS
<1>2. /\ IsHeap(h, N) /\ IsRing(h, N, l, o) /\ l \in N /\ l \notin Nodes
      /\ o \in Seq(Nodes) /\ Len(o) \in Nat
  BY <1>1, ListFacts
<1>3. s \in [U -> Seq(Nodes)] /\ \A k \in U : t[k] = IF k = l THEN q ELSE s[k]
  BY DEF Spells
<1>4. /\ \E k \in 1 .. Len(q) : q[k] = x
      /\ \A k \in 1 .. Len(o) : \E i \in 1 .. Len(q) : q[i] = o[k]
  <2>1. CASE q = <<x>> \o o
    <3>1. Len(q) = Len(o) + 1 /\ q[1] = x /\ \A k \in 1 .. Len(o) : q[k + 1] = o[k]
      BY ONLY <1>2, <2>1, x \in Nodes, FrontOf
    <3>2. 1 \in 1 .. Len(q) /\ \A k \in 1 .. Len(o) : k + 1 \in 1 .. Len(q)
      BY <1>2, <3>1
    <3>. QED
      BY <3>1, <3>2
  <2>2. CASE q = Append(o, x)
    <3>1. Len(q) = Len(o) + 1 /\ q[Len(o) + 1] = x /\ \A k \in 1 .. Len(o) : q[k] = o[k]
      BY <1>2, <2>2, AppendProperties
    <3>2. Len(o) + 1 \in 1 .. Len(q) /\ \A k \in 1 .. Len(o) : k \in 1 .. Len(q)
      BY <1>2, <3>1
    <3>. QED
      BY <3>1, <3>2
  <2>. QED
    BY <1>1, <2>1, <2>2
<1>5. ~OffLists(U, t, x)
  BY <1>3, <1>4 DEF OffLists
<1>6. ASSUME NEW y \in Nodes \ {x}, OffLists(U, t, y)
      PROVE  /\ OffLists(U, s, y)
             /\ list_add(h, x, l).next[y] = h.next[y]
             /\ list_add_tail(h, x, l).next[y] = h.next[y]
  <2>1. \A i \in 1 .. Len(q) : q[i] # y
    BY <1>3, <1>6 DEF OffLists
  <2>2. \A k \in 1 .. Len(o) : o[k] # y
    BY <1>4, <2>1
  <2>3. \A k \in U : k # l => \A i \in 1 .. Len(s[k]) : s[k][i] # y
    BY <1>3, <1>6 DEF OffLists
  <2>4. OffLists(U, s, y)
    BY <1>1, <2>2, <2>3 DEF OffLists
  <2>5. l # y /\ h.prev[l] # y /\ x # y
    <3>1. h.prev[l] = RingAt(o, l, Len(o))
      BY <1>1, Ends
    <3>. QED
      BY <1>2, <2>2, <3>1 DEF RingAt
  <2>6. h.next \in [N -> Links(N)]
    BY <1>2 DEF IsHeap
  <2>7. /\ list_add(h, x, l).next = [h.next EXCEPT ![x] = h.next[l], ![l] = x]
        /\ list_add_tail(h, x, l).next = [h.next EXCEPT ![x] = l, ![h.prev[l]] = x]
    BY DEF list_add, list_add_tail, list_add_between, Heap
  <2>. QED
    BY <2>4, <2>5, <2>6, <2>7, NodeSets
<1>. QED
  BY <1>5, <1>6 DEF LeftAlone

-----------------------------------------------------------------------------
(* Turns of a walk, and what its body does.                                *)

\* What an unfinished walk has.
LEMMA WalkHas ==
  ASSUME ListsInv, InBody, NEW s, s = Seqs(heap), NEW A, A = AheadOf(s[walk.head], walk.way)
  PROVE  /\ Spells(heap, Usable, s) /\ stale \subseteq Heads
         /\ walk \in Walks /\ walk.head \in Usable /\ walk.head \notin Nodes
         /\ walk.way \in {"next", "prev"} /\ walk.safe \in BOOLEAN
         /\ walk.pos # walk.head /\ walk.pos \in Nodes /\ walk.n \in Links(N)
         /\ s[walk.head] \in Seq(Nodes) /\ A \in Seq(Nodes)
         /\ Distinct(s[walk.head]) /\ Distinct(A)
         /\ Members(A) = Members(s[walk.head])
         /\ Standing(A, walk.head, walk.safe, walk.pos, walk.n, walk.due)
         /\ walk.safe => PosKnown(heap, Usable, s, walk.pos)
<1>1. /\ Spells(heap, Usable, s) /\ stale \subseteq Heads
      /\ walk \in Walks /\ WalkStands /\ walk # NoWalk /\ walk.pos # walk.head
  BY DEF ListsInv, Rings, InBody
<1>2. /\ walk.head \in Usable /\ walk.way \in {"next", "prev"} /\ walk.safe \in BOOLEAN
      /\ walk.n \in Links(N)
  BY <1>1 DEF Walks
<1>3. PICK q : q = s[walk.head]
  OBVIOUS
<1>4. /\ q \in Seq(Nodes) /\ walk.head \notin Nodes /\ Distinct(q)
      /\ Entries(heap, walk.head) = q
  BY <1>1, <1>2, <1>3, ListFacts, SpelledLists DEF Distinct
<1>5. PICK way : way = walk.way
  OBVIOUS
<1>6. A = AheadOf(q, way)
  BY <1>3, <1>5
<1>7. A \in Seq(Nodes) /\ Distinct(A) /\ Members(A) = Members(q)
  BY ONLY <1>4, <1>6, AheadIs
<1>8. Ahead(walk.head, walk.way) = A
  BY <1>4, <1>5, <1>6 DEF Ahead, AheadOf
<1>9. /\ walk.pos \in Nodes
      /\ Standing(A, walk.head, walk.safe, walk.pos, walk.n, walk.due)
      /\ walk.safe => PosKnown(heap, Usable, s, walk.pos)
  BY <1>1, <1>8 DEF WalkStands
<1>. QED
  BY <1>1, <1>2, <1>3, <1>4, <1>7, <1>9

LEMMA StandingDue ==
  ASSUME NEW S, NEW A, A \in Seq(S), NEW l, NEW safe, NEW pos \in S, NEW n, NEW due,
         Standing(A, l, safe, pos, n, due)
  PROVE  due \in Seq(S)
<1>1. PICK j \in 0 .. Len(A) : due = <<pos>> \o After(A, j)
  BY DEF Standing
<1>2. PICK r : r = After(A, j)
  OBVIOUS
<1>3. r \in Seq(S)
  BY ONLY <1>2, A \in Seq(S), j \in 0 .. Len(A), PartsAre
<1>4. <<pos>> \o r \in Seq(S)
  BY ONLY <1>3, pos \in S, FrontOf
<1>. QED
  BY <1>1, <1>2, <1>4

\* The body has changed the lists, and n perhaps.
LEMMA BodyDone ==
  ASSUME ListsInv, InBody, UNCHANGED stale, NEW t, Spells(heap', Usable, t),
         NEW n \in Links(N), NEW due, walk' = [walk EXCEPT !.n = n, !.due = due],
         Standing(AheadOf(t[walk.head], walk.way), walk.head, walk.safe, walk.pos, n, due),
         walk.safe => PosKnown(heap', Usable, t, walk.pos)
  PROVE  ListsInv'
<1>1. /\ stale \subseteq Heads /\ walk \in Walks /\ walk.head \in Usable
      /\ walk.pos # walk.head /\ walk.pos \in Nodes
  BY WalkHas
<1>2. Usable' = Usable /\ stale' \subseteq Heads
  BY <1>1 DEF Usable
<1>3. Rings' /\ Seqs(heap)' = t
  BY <1>2, RingsAgain
<1>4. PICK q : q = t[walk.head]
  OBVIOUS
<1>5. PICK A : A = AheadOf(q, walk.way)
  OBVIOUS
<1>6. /\ q \in Seq(Nodes)
      /\ Distinct(q) /\ Entries(heap', walk.head) = q
  BY <1>1, <1>4, ListFacts, SpelledLists DEF Distinct
<1>7. A \in Seq(Nodes)
  BY ONLY <1>5, <1>6, AheadIs
<1>8. Standing(A, walk.head, walk.safe, walk.pos, n, due)
  BY <1>4, <1>5
<1>9. due \in Seq(Nodes)
  BY <1>1, <1>7, <1>8, StandingDue
<1>10. /\ walk' \in Walks
       /\ walk'.head = walk.head /\ walk'.way = walk.way /\ walk'.safe = walk.safe
       /\ walk'.pos = walk.pos /\ walk'.n = n /\ walk'.due = due
  BY <1>1, <1>9 DEF Walks
<1>11. Walks' = Walks
  BY <1>2 DEF Walks
<1>12. Ahead(walk.head, walk.way)' = A
  <2>1. Entries(heap', walk'.head) = q
    BY <1>6, <1>10
  <2>. QED
    BY <1>5, <1>10, <2>1 DEF Ahead, AheadOf
<1>13. WalkStands'
  BY <1>1, <1>2, <1>3, <1>8, <1>10, <1>12 DEF WalkStands
<1>. QED
  BY <1>3, <1>10, <1>11, <1>13 DEF ListsInv

\* An entry that the walk does not go on from is taken off its list.
LEMMA StandsTaken ==
  ASSUME ListsInv, InBody, NEW s, s = Seqs(heap), NEW m \in Usable,
         NEW p \in 1 .. Len(s[m]), NEW x, x = s[m][p],
         x # (IF walk.safe THEN walk.n ELSE walk.pos),
         NEW t, t = [s EXCEPT ![m] = Without(s[m], x)]
  PROVE  Standing(AheadOf(t[walk.head], walk.way), walk.head, walk.safe, walk.pos, walk.n,
                  DueWithout(x))
<1>1. PICK q : q = s[walk.head]
  OBVIOUS
<1>2. PICK way : way = walk.way
  OBVIOUS
<1>3. PICK A : A = AheadOf(q, way)
  OBVIOUS
<1>4. PICK l : l = walk.head
  OBVIOUS
<1>5. /\ Spells(heap, Usable, s) /\ l \in Usable /\ l \notin Nodes /\ walk.pos \in Nodes
      /\ q \in Seq(Nodes) /\ A \in Seq(Nodes) /\ Distinct(q) /\ Distinct(A)
      /\ Members(A) = Members(q)
      /\ Standing(A, l, walk.safe, walk.pos, walk.n, walk.due)
  BY <1>1, <1>2, <1>3, <1>4, WalkHas
<1>6. s \in [Usable -> Seq(Nodes)]
  BY <1>5 DEF Spells
<1>7. PICK B : B = AheadOf(t[l], way)
  OBVIOUS
<1>8. Standing(B, l, walk.safe, walk.pos, walk.n, <<Head(walk.due)>> \o Without(Tail(walk.due), x))
  <2>1. CASE m = l
    <3>1. p \in 1 .. Len(q) /\ x = q[p] /\ B = AheadOf(Without(q, x), way)
      BY <1>1, <1>4, <1>5, <1>6, <1>7, <2>1
    <3>2. \A i, k \in 1 .. Len(q) : q[i] = q[k] => i = k
      BY <1>5 DEF Distinct
    <3>3. \E i \in 1 .. Len(A) : A[i] = x /\ AheadOf(Without(q, x), way) = Removed(A, i)
      BY ONLY <1>3, <1>5, <3>1, <3>2, AheadWithout
    <3>4. PICK i \in 1 .. Len(A) : A[i] = x /\ B = Removed(A, i)
      BY <3>1, <3>3
    <3>5. \A a, k \in 1 .. Len(A) : A[a] = A[k] => a = k
      BY <1>5 DEF Distinct
    <3>6. PICK safe : safe = walk.safe
      OBVIOUS
    <3>7. PICK n : n = walk.n
      OBVIOUS
    <3>8. x # (IF safe THEN n ELSE walk.pos)
      BY <3>6, <3>7
    <3>9. Standing(A, l, safe, walk.pos, n, walk.due)
      BY <1>5, <3>6, <3>7
    <3>10. Standing(B, l, safe, walk.pos, n, <<Head(walk.due)>> \o Without(Tail(walk.due), x))
      BY ONLY <1>5, <3>4, <3>5, <3>8, <3>9, StandsWithout
    <3>. QED
      BY <3>6, <3>7, <3>10
  <2>2. CASE m # l
    <3>1. t[l] = q
      BY <1>1, <1>4, <1>5, <1>6, <2>2
    <3>2. B = A
      BY <1>3, <1>7, <3>1
    <3>3. \A k \in 1 .. Len(q) : q[k] # x
      BY <1>1, <1>4, <1>5, <2>2 DEF Spells
    <3>4. x \notin Members(A)
      BY <1>5, <3>3 DEF Members
    <3>5. \A i \in 1 .. Len(A) : A[i] # x
      BY <3>4 DEF Members
    <3>. QED
      BY ONLY <1>5, <3>2, <3>5, StandsApart
  <2>. QED
    BY <2>1, <2>2
<1>. QED
  BY <1>2, <1>4, <1>7, <1>8 DEF DueWithout

\* What may be taken away.
LEMMA RemovableIs ==
  ASSUME ListsInv, InBody, NEW s, s = Seqs(heap), NEW x \in Removable
  PROVE  /\ x # (IF walk.safe THEN walk.n ELSE walk.pos)
         /\ \E m \in Usable : \E p \in 1 .. Len(s[m]) : x = s[m][p]
<1>1. x \in Listed(heap) /\ x # (IF walk.safe THEN walk.n ELSE walk.pos)
  BY DEF Removable
<1>. QED
  BY <1>1, WhereEntriesAre DEF ListsInv

LEMMA BodyDeletesKeeps ==
  ASSUME ListsInv, BodyDeletes
  PROVE  ListsInv'
<1>1. InBody /\ UNCHANGED stale
  BY DEF BodyDeletes
<1>2. PICK x \in Removable :
        /\ heap' = list_del(heap, x) \/ heap' = list_del_init(heap, x)
        /\ walk' = [walk EXCEPT !.due = DueWithout(x)]
  BY DEF BodyDeletes
<1>3. PICK s : s = Seqs(heap)
  OBVIOUS
<1>4. x # (IF walk.safe THEN walk.n ELSE walk.pos)
  BY <1>1, <1>3, RemovableIs
<1>5. PICK m \in Usable : \E p \in 1 .. Len(s[m]) : x = s[m][p]
  BY <1>1, <1>3, RemovableIs
<1>6. PICK p \in 1 .. Len(s[m]) : x = s[m][p]
  BY <1>5
<1>7. PICK t : t = [s EXCEPT ![m] = Without(s[m], x)]
  OBVIOUS
<1>8. /\ Spells(heap, Usable, s) /\ walk \in Walks /\ walk.pos \in Nodes /\ walk.n \in Links(N)
      /\ walk.safe => PosKnown(heap, Usable, s, walk.pos)
  BY <1>1, <1>3, WalkHas
<1>9. /\ Spells(list_del(heap, x), Usable, t) /\ Spells(list_del_init(heap, x), Usable, t)
      /\ list_del(heap, x).next[x] = LIST_POISON1 /\ list_del_init(heap, x).next[x] = x
  <2>1. Spells(heap, Usable, s)
    BY <1>8
  <2>2. Deleted(list_del(heap, x), Usable, s, m, x) /\ Deleted(list_del_init(heap, x), Usable, s, m, x)
    BY ONLY <1>6, <2>1, Deletes
  <2>3. list_del(heap, x).next[x] = LIST_POISON1 /\ list_del_init(heap, x).next[x] = x
    BY ONLY <1>6, <2>1, Deletes
  <2>. QED
    BY <1>7, <2>2, <2>3 DEF Deleted
<1>10. walk.safe => PosKnown(heap', Usable, t, walk.pos)
  <2>1. CASE walk.pos = x
    BY <1>2, <1>9, <2>1 DEF PosKnown
  <2>2. CASE walk.pos # x
    <3>1. LeftAlone(heap', t, heap, s, Usable, walk.pos)
      <4>1. PICK y \in Nodes : y = walk.pos
        BY <1>8
      <4>2. y # x /\ Taking(heap, Usable, s, m, p, x, t)
        BY <1>6, <1>7, <1>8, <2>2, <4>1 DEF Taking
      <4>3. /\ LeftAlone(list_del(heap, x), t, heap, s, Usable, y)
            /\ LeftAlone(list_del_init(heap, x), t, heap, s, Usable, y)
        BY ONLY <4>2, OthersWhenDeleted
      <4>. QED
        BY <1>2, <4>1, <4>3
    <3>. QED
      BY <1>8, <3>1 DEF PosKnown, LeftAlone
  <2>. QED
    BY <2>1, <2>2
<1>11. Standing(AheadOf(t[walk.head], walk.way), walk.head, walk.safe, walk.pos, walk.n,
                DueWithout(x))
  BY <1>1, <1>3, <1>4, <1>6, <1>7, StandsTaken
<1>12. PICK n : n = walk.n
  OBVIOUS
<1>13. walk' = [walk EXCEPT !.n = n, !.due = DueWithout(x)]
  BY <1>2, <1>8, <1>12 DEF Walks
<1>14. Spells(heap', Usable, t)
  BY <1>2, <1>9
<1>. QED
  BY <1>1, <1>8, <1>10, <1>11, <1>12, <1>13, <1>14, BodyDone

\* The body puts x, which is on no list of h, behind the walk or elsewhere.
LEMMA PutsKeep ==
  ASSUME ListsInv, InBody, UNCHANGED stale,
         NEW h, NEW t, Spells(h, Usable, t), NEW x \in Nodes, OffLists(Usable, t, x),
         NEW due, walk' = [walk EXCEPT !.due = due],
         Standing(AheadOf(t[walk.head], walk.way), walk.head, walk.safe, walk.pos, walk.n, due),
         walk.safe /\ walk.pos # x => PosKnown(h, Usable, t, walk.pos),
         heap' = PutBehind(h, x) \/ \E l \in Usable \ {walk.head} : heap' = list_add(h, x, l)
  PROVE  ListsInv'
<1>1. /\ walk \in Walks /\ walk.head \in Usable /\ walk.way \in {"next", "prev"}
      /\ walk.pos \in Nodes /\ walk.n \in Links(N)
  BY WalkHas
<1>2. PICK way : way = walk.way
  OBVIOUS
<1>3. PICK hd \in Usable : hd = walk.head
  BY <1>1
<1>4. t \in [Usable -> Seq(Nodes)]
  BY DEF Spells
<1>5. PICK n : n = walk.n
  OBVIOUS
<1>6. walk' = [walk EXCEPT !.n = n, !.due = due] /\ n \in Links(N)
  BY <1>1, <1>5 DEF Walks
<1>7. SUFFICES ASSUME NEW l \in Usable, NEW q, q = <<x>> \o t[l] \/ q = Append(t[l], x),
                      NEW u, u = [t EXCEPT ![l] = q], Spells(heap', Usable, u),
                      heap' = list_add(h, x, l) \/ heap' = list_add_tail(h, x, l),
                      AheadOf(u[hd], way) = AheadOf(t[hd], way)
                        \/ AheadOf(u[hd], way) = <<x>> \o AheadOf(t[hd], way)
               PROVE  ListsInv'
  <2>1. PICK q1 : q1 = <<x>> \o t[hd]
    OBVIOUS
  <2>2. PICK q2 : q2 = Append(t[hd], x)
    OBVIOUS
  <2>3. /\ Spells(list_add(h, x, hd), Usable, [t EXCEPT ![hd] = q1])
        /\ Spells(list_add_tail(h, x, hd), Usable, [t EXCEPT ![hd] = q2])
    BY <2>1, <2>2, Adds
  <2>4. AheadOf(IF way = "next" THEN q1 ELSE q2, way) = <<x>> \o AheadOf(t[hd], way)
    <3>1. PICK o : o = t[hd]
      OBVIOUS
    <3>2. o \in Seq(Nodes)
      BY <1>4, <3>1
    <3>3. AheadOf(IF way = "next" THEN <<x>> \o o ELSE Append(o, x), way) = <<x>> \o AheadOf(o, way)
      BY ONLY <3>2, x \in Nodes, AheadBehind
    <3>. QED
      BY <2>1, <2>2, <3>1, <3>3
  <2>5. CASE heap' = PutBehind(h, x)
    <3>1. CASE way = "next"
      <4>1. heap' = list_add(h, x, hd)
        BY <1>2, <1>3, <2>5, <3>1 DEF PutBehind
      <4>2. PICK u : u = [t EXCEPT ![hd] = q1]
        OBVIOUS
      <4>3. u[hd] = q1
        BY <1>4, <4>2
      <4>. QED
        BY <1>7, <2>1, <2>3, <2>4, <3>1, <4>1, <4>2, <4>3
    <3>2. CASE way # "next"
      <4>1. heap' = list_add_tail(h, x, hd)
        BY <1>2, <1>3, <2>5, <3>2 DEF PutBehind
      <4>2. PICK u : u = [t EXCEPT ![hd] = q2]
        OBVIOUS
      <4>3. u[hd] = q2
        BY <1>4, <4>2
      <4>. QED
        BY <1>7, <2>2, <2>3, <2>4, <3>2, <4>1, <4>2, <4>3
    <3>. QED
      BY <3>1, <3>2
  <2>6. CASE \E l \in Usable \ {hd} : heap' = list_add(h, x, l)
    <3>1. PICK l \in Usable : l # hd /\ heap' = list_add(h, x, l)
      BY <2>6
    <3>2. PICK q : q = <<x>> \o t[l]
      OBVIOUS
    <3>3. PICK u : u = [t EXCEPT ![l] = q]
      OBVIOUS
    <3>4. Spells(heap', Usable, u)
      BY <3>1, <3>2, <3>3, Adds
    <3>5. u[hd] = t[hd]
      BY <1>4, <3>1, <3>3
    <3>. QED
      BY <1>7, <3>1, <3>2, <3>3, <3>4, <3>5
  <2>. QED
    BY <1>3, <2>5, <2>6
<1>8. PICK A : A = AheadOf(t[hd], way)
  OBVIOUS
<1>9. A \in Seq(Nodes)
  <2>1. PICK o : o = t[hd]
    OBVIOUS
  <2>2. o \in Seq(Nodes) /\ Distinct(o)
    BY <2>1, ListFacts DEF Distinct
  <2>3. A = AheadOf(o, way)
    BY <1>8, <2>1
  <2>. QED
    BY ONLY <2>2, <2>3, AheadIs
<1>10. Standing(A, walk.head, walk.safe, walk.pos, walk.n, due)
  BY <1>2, <1>3, <1>8
<1>11. PICK B : B = AheadOf(u[hd], way)
  OBVIOUS
<1>12. Standing(B, walk.head, walk.safe, walk.pos, walk.n, due)
  <2>1. CASE B = A
    BY <1>10, <2>1
  <2>2. CASE B = <<x>> \o A
    BY ONLY <1>9, <1>10, <2>2, x \in Nodes, StandsBehind
  <2>. QED
    BY <1>7, <1>8, <1>11, <2>1, <2>2
<1>13. walk.safe => PosKnown(heap', Usable, u, walk.pos)
  <2>1. PICK y \in Nodes : y = walk.pos
    BY <1>1
  <2>2. /\ ~OffLists(Usable, u, x)
        /\ \A z \in Nodes \ {x} : /\ LeftAlone(list_add(h, x, l), u, h, t, Usable, z)
                                 /\ LeftAlone(list_add_tail(h, x, l), u, h, t, Usable, z)
    BY <1>7, OthersWhenAdded
  <2>3. CASE y = x
    BY <2>1, <2>2, <2>3 DEF PosKnown
  <2>4. CASE y # x
    <3>1. LeftAlone(heap', u, h, t, Usable, y)
      BY <1>7, <2>2, <2>4
    <3>. QED
      BY <2>1, <2>4, <3>1 DEF PosKnown, LeftAlone
  <2>. QED
    BY <2>3, <2>4
<1>14. Standing(AheadOf(u[walk.head], walk.way), walk.head, walk.safe, walk.pos, n, due)
  BY <1>2, <1>3, <1>5, <1>11, <1>12
<1>. QED
  BY <1>6, <1>7, <1>13, <1>14, BodyDone

LEMMA BodyPutsKeeps ==
  ASSUME ListsInv, BodyPuts
  PROVE  ListsInv'
<1>1. InBody /\ UNCHANGED stale
  BY DEF BodyPuts
<1>2. PICK x \in Removable \cup Idle :
        /\ LET h == IF x \in Idle THEN heap ELSE list_del_entry(heap, x)
           IN  heap' = PutBehind(h, x) \/ \E l \in Usable \ {walk.head} : heap' = list_add(h, x, l)
        /\ walk' = [walk EXCEPT !.due = DueWithout(x)]
  BY DEF BodyPuts
<1>3. PICK h : h = IF x \in Idle THEN heap ELSE list_del_entry(heap, x)
  OBVIOUS
<1>4. heap' = PutBehind(h, x) \/ \E l \in Usable \ {walk.head} : heap' = list_add(h, x, l)
  BY <1>2, <1>3
<1>5. PICK due : due = DueWithout(x)
  OBVIOUS
<1>6. walk' = [walk EXCEPT !.due = due]
  BY <1>2, <1>5
<1>7. PICK s : s = Seqs(heap)
  OBVIOUS
<1>8. PICK A : A = AheadOf(s[walk.head], walk.way)
  OBVIOUS
<1>9. /\ Spells(heap, Usable, s) /\ walk.head \in Usable /\ walk.head \notin Nodes
      /\ walk.pos \in Nodes
      /\ A \in Seq(Nodes) /\ Members(A) = Members(s[walk.head])
      /\ Standing(A, walk.head, walk.safe, walk.pos, walk.n, walk.due)
      /\ walk.safe => PosKnown(heap, Usable, s, walk.pos)
  BY <1>1, <1>7, <1>8, WalkHas
<1>10. CASE x \in Idle
  <2>1. h = heap /\ x \in Nodes /\ OffLists(Usable, s, x)
    <3>1. x \in Nodes /\ OffLists(Usable, s, x)
      BY <1>7, <1>10, WhereEntriesAre DEF ListsInv
    <3>. QED
      BY <1>3, <1>10, <3>1
  <2>2. \A i \in 1 .. Len(A) : A[i] # x
    <3>1. x \notin Members(s[walk.head])
      BY <1>9, <2>1 DEF OffLists, Members
    <3>2. x \notin Members(A)
      BY <1>9, <3>1
    <3>. QED
      BY <3>2 DEF Members
  <2>3. Standing(A, walk.head, walk.safe, walk.pos, walk.n,
                 <<Head(walk.due)>> \o Without(Tail(walk.due), x))
    <3>1. PICK pos \in Nodes : pos = walk.pos
      BY <1>9
    <3>2. PICK safe : safe = walk.safe
      OBVIOUS
    <3>3. PICK n : n = walk.n
      OBVIOUS
    <3>4. PICK d : d = walk.due
      OBVIOUS
    <3>5. PICK l : l = walk.head
      OBVIOUS
    <3>6. A \in Seq(Nodes) /\ Standing(A, l, safe, pos, n, d)
      BY <1>9, <3>1, <3>2, <3>3, <3>4, <3>5
    <3>7. Standing(A, l, safe, pos, n, <<Head(d)>> \o Without(Tail(d), x))
      BY ONLY <2>2, <3>6, pos \in Nodes, StandsApart
    <3>. QED
      BY <3>1, <3>2, <3>3, <3>4, <3>5, <3>7
  <2>4. Standing(AheadOf(s[walk.head], walk.way), walk.head, walk.safe, walk.pos, walk.n, due)
    BY <1>5, <1>8, <2>3 DEF DueWithout
  <2>. QED
    BY <1>1, <1>4, <1>6, <1>9, <2>1, <2>4, PutsKeep
<1>11. CASE x \notin Idle
  <2>1. x \in Removable /\ h = list_del_entry(heap, x)
    BY <1>3, <1>11
  <2>2. x # (IF walk.safe THEN walk.n ELSE walk.pos)
    BY <1>1, <1>7, <2>1, RemovableIs
  <2>3. PICK m \in Usable : \E p \in 1 .. Len(s[m]) : x = s[m][p]
    BY <1>1, <1>7, <2>1, RemovableIs
  <2>4. PICK p \in 1 .. Len(s[m]) : x = s[m][p]
    BY <2>3
  <2>5. PICK t : t = [s EXCEPT ![m] = Without(s[m], x)]
    OBVIOUS
  <2>6. Spells(heap, Usable, s)
    BY <1>9
  <2>7. Deleted(list_del_entry(heap, x), Usable, s, m, x)
    BY ONLY <2>4, <2>6, Deletes
  <2>8. Spells(h, Usable, t) /\ OffLists(Usable, t, x)
    BY <2>1, <2>5, <2>7 DEF Deleted
  <2>9. x \in Nodes
    BY <2>4, <2>6, ListFacts
  <2>10. Standing(AheadOf(t[walk.head], walk.way), walk.head, walk.safe, walk.pos, walk.n, due)
    <3>1. Standing(AheadOf(t[walk.head], walk.way), walk.head, walk.safe, walk.pos, walk.n,
                   DueWithout(x))
      BY ONLY ListsInv, <1>1, <1>7, <2>2, <2>4, <2>5, StandsTaken
    <3>. QED
      BY <1>5, <3>1
  <2>11. walk.safe /\ walk.pos # x => PosKnown(h, Usable, t, walk.pos)
    <3>1. SUFFICES ASSUME walk.safe, walk.pos # x
                   PROVE  PosKnown(h, Usable, t, walk.pos)
      OBVIOUS
    <3>2. PICK y \in Nodes : y = walk.pos
      BY <1>9
    <3>3. y # x /\ Taking(heap, Usable, s, m, p, x, t)
      BY <2>4, <2>5, <2>6, <3>1, <3>2 DEF Taking
    <3>4. LeftAlone(list_del_entry(heap, x), t, heap, s, Usable, y)
      BY ONLY <3>3, OthersWhenDeleted
    <3>. QED
      BY <1>9, <2>1, <3>1, <3>2, <3>4 DEF PosKnown, LeftAlone
  <2>. QED
    BY <1>1, <1>4, <1>6, <2>8, <2>9, <2>10, <2>11, PutsKeep
<1>. QED
  BY <1>10, <1>11

\* The walk stands on the entry before the one it had saved.
LEMMA StandsBefore ==
  ASSUME NEW h, NEW U, NEW s, Spells(h, U, s), NEW l \in U, NEW A, A = s[l],
         NEW j \in 0 .. Len(A), NEW n, n = RingAt(A, l, j + 1), n # l,
         NEW pos \in Nodes, h.next[pos] = n, PosKnown(h, U, s, pos)
  PROVE  j \in 1 .. Len(A) /\ pos = A[j] /\ j + 1 \in 1 .. Len(A) /\ n = A[j + 1]
<1>1. /\ IsHeap(h, N) /\ l \notin Nodes /\ A \in Seq(Nodes) /\ Len(A) \in Nat /\ IsRing(h, N, l, A)
      /\ \A k \in 1 .. Len(A) : A[k] \in Nodes
  BY ListFacts
<1>2. j + 1 \in 1 .. Len(A) /\ n = A[j + 1] /\ n \in Nodes /\ n \in N
  <2>1. j + 1 \in 1 .. Len(A)
    BY <1>1 DEF RingAt
  <2>. QED
    BY <1>1, <2>1, NodeSets DEF RingAt
<1>3. ~OffLists(U, s, pos)
  <2>1. SUFFICES ASSUME OffLists(U, s, pos) PROVE FALSE
    OBVIOUS
  <2>2. n = pos
    BY <1>2, <2>1, NodeSets DEF PosKnown
  <2>. QED
    BY <1>2, <2>1, <2>2 DEF OffLists
<1>4. PICK m \in U : \E i \in 1 .. Len(s[m]) : s[m][i] = pos
  BY <1>3 DEF OffLists
<1>5. PICK i \in 1 .. Len(s[m]) : s[m][i] = pos
  BY <1>4
<1>6. /\ IsRing(h, N, m, s[m]) /\ m \notin Nodes /\ Len(s[m]) \in Nat
  BY ListFacts
<1>7. h.next[pos] = RingAt(s[m], m, i + 1)
  <2>1. i \in 0 .. Len(s[m]) /\ RingAt(s[m], m, i) = pos
    BY <1>5, <1>6 DEF RingAt
  <2>. QED
    BY <1>6, <2>1 DEF IsRing
<1>8. i + 1 \in 1 .. Len(s[m]) /\ s[m][i + 1] = n
  <2>1. i + 1 \in 1 .. Len(s[m])
    BY <1>2, <1>6, <1>7 DEF RingAt
  <2>. QED
    BY <1>7, <2>1 DEF RingAt
<1>9. m = l
  BY <1>2, <1>8 DEF Spells
<1>10. i + 1 = j + 1
  <2>1. \A a, b \in 1 .. Len(A) : A[a] = A[b] => a = b
    BY ListFacts
  <2>. QED
    BY <1>2, <1>8, <1>9, <2>1
<1>11. i = j
  BY <1>5, <1>10
<1>. QED
  BY <1>2, <1>5, <1>9, <1>11

LEMMA BodyDropsNextKeeps ==
  ASSUME ListsInv, BodyDropsNext
  PROVE  ListsInv'
<1>1. /\ InBody /\ UNCHANGED stale /\ walk.safe /\ walk.way = "next" /\ walk.n # walk.head
      /\ heap.next[walk.pos] = walk.n
      /\ heap' = list_del(heap, walk.n) \/ heap' = list_del_init(heap, walk.n)
      /\ walk' = [walk EXCEPT !.n = list_safe_reset_next(heap', walk.pos, @),
                              !.due = DueWithout(walk.n)]
  BY DEF BodyDropsNext
<1>2. PICK s : s = Seqs(heap)
  OBVIOUS
<1>3. PICK A : A = s[walk.head]
  OBVIOUS
<1>4. PICK l : l = walk.head
  OBVIOUS
<1>5. A = AheadOf(s[walk.head], walk.way)
  BY <1>1, <1>3 DEF AheadOf
<1>6. /\ Spells(heap, Usable, s) /\ walk \in Walks /\ l \in Usable /\ l \notin Nodes
      /\ walk.pos \in Nodes /\ A \in Seq(Nodes) /\ Distinct(A)
      /\ Standing(A, l, walk.safe, walk.pos, walk.n, walk.due)
      /\ PosKnown(heap, Usable, s, walk.pos)
  BY <1>1, <1>2, <1>4, <1>5, WalkHas
<1>7. PICK j \in 0 .. Len(A) : /\ walk.due = <<walk.pos>> \o After(A, j)
                               /\ walk.n = RingAt(A, l, j + 1)
  BY <1>1, <1>6 DEF Standing
<1>8. PICK pos \in Nodes : pos = walk.pos
  BY <1>6
<1>9. PICK x : x = walk.n
  OBVIOUS
<1>10. /\ j \in 1 .. Len(A) /\ pos = A[j] /\ j + 1 \in 1 .. Len(A) /\ x = A[j + 1]
  <2>1. /\ x = RingAt(A, l, j + 1) /\ x # l /\ heap.next[pos] = x
        /\ PosKnown(heap, Usable, s, pos) /\ A = s[l]
    BY <1>1, <1>3, <1>4, <1>6, <1>7, <1>8, <1>9
  <2>2. Spells(heap, Usable, s) /\ l \in Usable
    BY <1>6
  <2>. QED
    BY ONLY <2>1, <2>2, j \in 0 .. Len(A), pos \in Nodes, StandsBefore
<1>11. PICK p : p = j + 1
  OBVIOUS
<1>12. PICK B : B = Removed(A, p)
  OBVIOUS
<1>13. PICK t : t = [s EXCEPT ![l] = Without(s[l], x)]
  OBVIOUS
<1>14. p \in 1 .. Len(s[l]) /\ x = s[l][p] /\ p \in 1 .. Len(A) /\ x = A[p] /\ j < p
  BY <1>3, <1>4, <1>10, <1>11
<1>15. s \in [Usable -> Seq(Nodes)]
  BY <1>6 DEF Spells
<1>16. t[l] = B
  <2>1. Spells(heap, Usable, s) /\ l \in Usable /\ p \in 1 .. Len(s[l])
    BY <1>6, <1>14
  <2>2. Without(s[l], s[l][p]) = Removed(s[l], p)
    BY ONLY <2>1, WithoutEntry
  <2>. QED
    BY <1>3, <1>4, <1>6, <1>12, <1>13, <1>14, <1>15, <2>2
<1>17. Spells(heap', Usable, t)
  <2>1. Spells(heap, Usable, s) /\ l \in Usable /\ p \in 1 .. Len(s[l]) /\ x = s[l][p]
    BY <1>6, <1>14
  <2>2. Deleted(list_del(heap, x), Usable, s, l, x) /\ Deleted(list_del_init(heap, x), Usable, s, l, x)
    BY ONLY <2>1, Deletes
  <2>. QED
    BY <1>1, <1>9, <1>13, <2>2 DEF Deleted
<1>18. /\ B \in Seq(Nodes) /\ Len(B) = Len(A) - 1 /\ j \in 1 .. Len(B) /\ B[j] = pos
  <2>1. /\ B \in Seq(Nodes) /\ Len(B) = Len(A) - 1
        /\ \A k \in 1 .. (Len(A) - 1) : B[k] = IF k < p THEN A[k] ELSE A[k + 1]
    <3>1. A \in Seq(Nodes) /\ p \in 1 .. Len(A) /\ B = Removed(A, p)
      BY ONLY <1>6, <1>12, <1>14
    <3>2. IsWithoutEntry(B, Nodes, A, p)
      BY ONLY <3>1, RemovedHas
    <3>. QED
      BY ONLY <3>2 DEF IsWithoutEntry
  <2>2. j \in 1 .. (Len(A) - 1) /\ j < p
    BY <1>6, <1>10, <1>11
  <2>. QED
    BY <1>10, <2>1, <2>2
<1>19. PICK n : n = heap'.next[pos]
  OBVIOUS
<1>20. n = RingAt(B, l, j + 1) /\ n \in Links(N)
  <2>1. IsRing(heap', N, l, B) /\ IsHeap(heap', N)
    BY <1>6, <1>16, <1>17, ListFacts
  <2>2. j \in 0 .. Len(B) /\ RingAt(B, l, j) = pos
    BY <1>18 DEF RingAt
  <2>3. pos \in N
    BY NodeSets
  <2>. QED
    BY <1>19, <2>1, <2>2, <2>3 DEF IsRing, IsHeap
<1>21. PICK due : due = DueWithout(x)
  OBVIOUS
<1>22. due = <<pos>> \o After(B, j)
  <2>1. Head(walk.due) = pos /\ Tail(walk.due) = After(A, j)
    <3>1. PICK d : d = walk.due
      OBVIOUS
    <3>2. d = <<pos>> \o After(A, j) /\ A \in Seq(Nodes)
      BY <1>6, <1>7, <1>8, <3>1
    <3>3. BeginsWith(d, Nodes, pos, After(A, j))
      BY ONLY <3>2, j \in 0 .. Len(A), pos \in Nodes, DueIs
    <3>. QED
      BY <3>1, <3>3 DEF BeginsWith
  <2>2. Without(After(A, j), x) = After(B, j)
    <3>1. A \in Seq(Nodes) /\ \A i, k \in 1 .. Len(A) : A[i] = A[k] => i = k
      BY <1>6 DEF Distinct
    <3>. QED
      BY ONLY <1>12, <1>14, <3>1, j \in 0 .. Len(A), AfterRemoved
  <2>. QED
    BY <1>21, <2>1, <2>2 DEF DueWithout
<1>23. Standing(AheadOf(t[walk.head], walk.way), walk.head, walk.safe, walk.pos, n, due)
  <2>1. AheadOf(t[walk.head], walk.way) = B
    BY <1>1, <1>4, <1>16 DEF AheadOf
  <2>2. j \in 0 .. Len(B)
    BY <1>18
  <2>. QED
    BY <1>1, <1>4, <1>8, <1>20, <1>22, <2>1, <2>2 DEF Standing
<1>24. PosKnown(heap', Usable, t, walk.pos)
  BY <1>6, <1>8, <1>16, <1>18 DEF PosKnown, OffLists
<1>25. walk' = [walk EXCEPT !.n = n, !.due = due]
  BY <1>1, <1>8, <1>9, <1>19, <1>21 DEF list_safe_reset_next
<1>. QED
  BY <1>1, <1>17, <1>20, <1>23, <1>24, <1>25, BodyDone

-----------------------------------------------------------------------------
(* Turns, and the beginning of a walk.                                     *)

LEMMA NothingAfter ==
  ASSUME NEW S, NEW A, A \in Seq(S)
  PROVE  After(A, Len(A)) = <<>>
<1>1. Len(A) \in Nat /\ Len(A) \in 0 .. Len(A)
  OBVIOUS
<1>2. After(A, Len(A)) \in Seq(S) /\ Len(After(A, Len(A))) = Len(A) - Len(A)
  BY <1>1, PartsAre
<1>. QED
  BY <1>1, <1>2

\* The walk is now on x, which comes after the first j entries.
NowAt(l, way, safe, A, j, x) ==
  /\ UNCHANGED <<heap, stale>>
  /\ l \in Usable /\ way \in {"next", "prev"} /\ safe \in BOOLEAN
  /\ A = AheadOf(Seqs(heap)[l], way) /\ j \in 0 .. Len(A) /\ x = RingAt(A, l, j + 1)
  /\ walk' = [head |-> l, way |-> way, safe |-> safe, pos |-> x,
              n |-> IF safe THEN heap[way][x] ELSE NULL, due |-> After(A, j)]

LEMMA WalkAt ==
  ASSUME Rings, NEW l, NEW way, NEW safe, NEW A, NEW j, NEW x, NowAt(l, way, safe, A, j, x)
  PROVE  ListsInv'
<1>. PICK s : s = Seqs(heap)
  OBVIOUS
<1>. PICK n : n = IF safe THEN heap[way][x] ELSE NULL
  OBVIOUS
<1>. /\ UNCHANGED <<heap, stale>>
     /\ l \in Usable /\ way \in {"next", "prev"} /\ safe \in BOOLEAN
     /\ A = AheadOf(s[l], way) /\ j \in 0 .. Len(A) /\ x = RingAt(A, l, j + 1)
     /\ walk' = [head |-> l, way |-> way, safe |-> safe, pos |-> x, n |-> n, due |-> After(A, j)]
  BY DEF NowAt
<1>1. Spells(heap, Usable, s) /\ Usable' = Usable
  BY DEF Rings, Usable
<1>2. Rings' /\ Seqs(heap)' = s
  BY <1>1 DEF Rings, Seqs
<1>3. PICK q : q = s[l]
  OBVIOUS
<1>4. /\ q \in Seq(Nodes) /\ Distinct(q) /\ IsHeap(heap, N)
      /\ l \in N /\ l \notin Nodes /\ Entries(heap, l) = q
  BY <1>1, <1>3, ListFacts, SpelledLists DEF Distinct
<1>5. A = AheadOf(q, way)
  BY <1>3
<1>6. A \in Seq(Nodes) /\ Members(A) = Members(q)
  BY ONLY <1>4, <1>5, AheadIs
<1>7. Len(A) \in Nat /\ \A k \in 1 .. Len(A) : A[k] \in Nodes
  BY <1>6
<1>8. After(A, j) \in Seq(Nodes)
  BY ONLY <1>6, j \in 0 .. Len(A), PartsAre
<1>9. x \in N
  BY <1>4, <1>7, NodeSets DEF RingAt
<1>10. n \in Links(N)
  BY <1>4, <1>9 DEF IsHeap, Links
<1>11. walk' \in Walks'
  BY <1>1, <1>8, <1>9, <1>10 DEF Walks
<1>12. Ahead(l, way)' = A
  BY <1>4, <1>5 DEF Ahead, AheadOf
<1>13. WalkStands'
  <2>1. CASE j = Len(A)
    <3>1. x = l
      BY <1>7, <2>1 DEF RingAt
    <3>2. After(A, j) = <<>>
      BY <1>6, <2>1, NothingAfter
    <3>. QED
      BY <3>1, <3>2 DEF WalkStands
  <2>2. CASE j # Len(A)
    <3>1. PICK i : i = j + 1
      OBVIOUS
    <3>2. i \in 1 .. Len(A) /\ i \in 0 .. Len(A) /\ i # 0 /\ x = A[i] /\ x = RingAt(A, l, i)
      BY <1>7, <2>2, <3>1 DEF RingAt
    <3>3. x \in Nodes /\ x # l
      BY <1>4, <1>7, <3>2
    <3>4. After(A, j) = <<x>> \o After(A, i)
      <4>1. After(A, j) = <<A[j + 1]>> \o After(A, j + 1)
        BY ONLY <1>6, <2>2, j \in 0 .. Len(A), AfterIs
      <4>. QED
        BY <3>1, <3>2, <4>1
    <3>5. safe => n = RingAt(A, l, i + 1)
      <4>1. \A k \in 0 .. Len(A) : heap[way][RingAt(A, l, k)] = RingAt(A, l, k + 1)
        BY <1>1, AheadRing
      <4>. QED
        BY <3>2, <4>1
    <3>6. Standing(A, l, safe, x, n, After(A, j))
      BY <3>2, <3>4, <3>5 DEF Standing
    <3>7. PosKnown(heap, Usable, s, x)
      <4>1. x \in Members(q)
        BY <1>6, <3>2 DEF Members
      <4>. QED
        BY <1>3, <4>1 DEF PosKnown, OffLists, Members
    <3>. QED
      BY <1>1, <1>2, <1>12, <3>3, <3>6, <3>7 DEF WalkStands
  <2>. QED
    BY <2>1, <2>2
<1>. QED
  BY <1>2, <1>11, <1>13 DEF ListsInv

LEMMA TurnKeeps ==
  ASSUME ListsInv, Turn
  PROVE  ListsInv'
<1>1. PICK next : next = IF walk.safe THEN walk.n ELSE heap[walk.way][walk.pos]
  OBVIOUS
<1>2. /\ InBody /\ UNCHANGED <<heap, stale>>
      /\ walk' = [walk EXCEPT !.pos = next, !.due = Tail(@),
                              !.n = IF walk.safe THEN heap[walk.way][next] ELSE NULL]
  BY <1>1 DEF Turn
<1>3. PICK s : s = Seqs(heap)
  OBVIOUS
<1>4. PICK l, way, safe, pos : l = walk.head /\ way = walk.way /\ safe = walk.safe /\ pos = walk.pos
  OBVIOUS
<1>5. PICK A : A = AheadOf(s[l], way)
  OBVIOUS
<1>6. /\ Spells(heap, Usable, s) /\ walk \in Walks /\ l \in Usable
      /\ way \in {"next", "prev"} /\ safe \in BOOLEAN /\ pos \in Nodes /\ A \in Seq(Nodes)
      /\ Standing(A, l, safe, pos, walk.n, walk.due)
  BY <1>2, <1>3, <1>4, <1>5, WalkHas
<1>7. PICK j \in 0 .. Len(A) : /\ walk.due = <<pos>> \o After(A, j)
                               /\ ~safe => j # 0 /\ pos = RingAt(A, l, j)
                               /\ safe => walk.n = RingAt(A, l, j + 1)
  BY <1>6 DEF Standing
<1>8. Tail(walk.due) = After(A, j)
  <2>1. PICK d : d = walk.due
    OBVIOUS
  <2>2. d = <<pos>> \o After(A, j) /\ A \in Seq(Nodes) /\ pos \in Nodes
    BY <1>6, <1>7, <2>1
  <2>3. BeginsWith(d, Nodes, pos, After(A, j))
    BY ONLY <2>2, j \in 0 .. Len(A), DueIs
  <2>. QED
    BY <2>1, <2>3 DEF BeginsWith
<1>9. next = RingAt(A, l, j + 1)
  <2>1. \A k \in 0 .. Len(A) : heap[way][RingAt(A, l, k)] = RingAt(A, l, k + 1)
    BY <1>5, <1>6, AheadRing
  <2>. QED
    BY <1>1, <1>4, <1>6, <1>7, <2>1
<1>10. walk' = [head |-> l, way |-> way, safe |-> safe, pos |-> next,
                n |-> IF safe THEN heap[way][next] ELSE NULL, due |-> After(A, j)]
  BY <1>2, <1>4, <1>6, <1>8 DEF Walks
<1>11. NowAt(l, way, safe, A, j, next)
  BY <1>2, <1>3, <1>5, <1>6, <1>9, <1>10 DEF NowAt
<1>12. Rings
  BY DEF ListsInv
<1>. QED
  BY ONLY <1>11, <1>12, WalkAt

\* What is due from the entry after the first j on.
LEMMA FromIs ==
  ASSUME NEW S, NEW A, A \in Seq(S), Distinct(A), NEW l, l \notin S, NEW j \in 0 .. Len(A)
  PROVE  From(A, RingAt(A, l, j + 1)) = After(A, j)
<1>1. Len(A) \in Nat /\ j \in Int /\ \A k \in 1 .. Len(A) : A[k] \in S
  OBVIOUS
<1>2. CASE j = Len(A)
  <2>1. RingAt(A, l, j + 1) = l
    BY <1>1, <1>2 DEF RingAt
  <2>2. Place(A, l) = 0
    BY <1>1, PlaceIs
  <2>3. After(A, j) = <<>>
    BY <1>2, NothingAfter
  <2>. QED
    BY <2>1, <2>2, <2>3 DEF From
<1>3. CASE j # Len(A)
  <2>1. PICK i : i = j + 1
    OBVIOUS
  <2>2. i \in 1 .. Len(A) /\ i # 0
    BY <1>1, <1>3, <2>1
  <2>3. PICK x : x = A[i]
    OBVIOUS
  <2>4. RingAt(A, l, i) = x
    BY <2>2, <2>3 DEF RingAt
  <2>5. \A k \in 1 .. Len(A) : A[k] = x => k = i
    BY <2>2, <2>3 DEF Distinct
  <2>6. Place(A, x) = i
    BY <2>2, <2>3, <2>5, PlaceIs
  <2>. QED
    BY <2>1, <2>2, <2>4, <2>6 DEF From, After
<1>. QED
  BY <1>2, <1>3

LEMMA BeginsAt ==
  ASSUME Rings, NEW l \in Usable, NEW way \in {"next", "prev"}, NEW safe \in BOOLEAN,
         NEW A, A = AheadOf(Seqs(heap)[l], way), NEW j \in 0 .. Len(A),
         NEW x, x = RingAt(A, l, j + 1), Begin(l, way, safe, x)
  PROVE  ListsInv'
<1>1. PICK q : q = Seqs(heap)[l]
  OBVIOUS
<1>2. q = Entries(heap, l)
  BY <1>1 DEF Seqs
<1>3. q \in Seq(Nodes) /\ Distinct(q) /\ l \notin Nodes
  BY <1>1, ListFacts DEF Rings, Distinct
<1>4. A = AheadOf(q, way)
  BY <1>1
<1>5. A \in Seq(Nodes) /\ Distinct(A)
  BY ONLY <1>3, <1>4, AheadIs
<1>6. Ahead(l, way) = A
  BY <1>2, <1>4 DEF Ahead, AheadOf
<1>7. From(A, x) = After(A, j)
  BY <1>3, <1>5, FromIs
<1>8. NowAt(l, way, safe, A, j, x)
  BY <1>6, <1>7 DEF Begin, NowAt
<1>. QED
  BY ONLY Rings, <1>8, WalkAt

LEMMA StartWalkKeeps ==
  ASSUME Rings, StartWalk
  PROVE  ListsInv'
<1>1. SUFFICES ASSUME NEW l \in Usable, NEW way \in {"next", "prev"}, NEW safe \in BOOLEAN,
                      NEW x, Begin(l, way, safe, x),
                      \/ x = heap[way][l]
                      \/ \E pos \in OnList(heap, l) : x = heap[way][pos] \/ x = pos
               PROVE  ListsInv'
  <2>1. CASE list_for_each
    BY <1>1, <2>1 DEF list_for_each
  <2>2. CASE list_for_each_entry_continue
    <3>1. PICK l \in Usable, way \in {"next", "prev"}, safe \in BOOLEAN :
            \E pos \in OnList(heap, l) \cup {NULL} :
              Begin(l, way, safe, heap[way][list_prepare_entry(pos, l)])
      BY <2>2 DEF list_for_each_entry_continue
    <3>2. PICK pos \in OnList(heap, l) \cup {NULL} :
            Begin(l, way, safe, heap[way][list_prepare_entry(pos, l)])
      BY <3>1
    <3>3. list_prepare_entry(pos, l) = l \/ (pos \in OnList(heap, l) /\ list_prepare_entry(pos, l) = pos)
      BY DEF list_prepare_entry
    <3>. QED
      BY <1>1, <3>2, <3>3
  <2>3. CASE list_for_each_entry_from
    BY <1>1, <2>3 DEF list_for_each_entry_from
  <2>. QED
    BY <2>1, <2>2, <2>3 DEF StartWalk
<1>2. PICK s : s = Seqs(heap)
  OBVIOUS
<1>3. PICK q : q = s[l]
  OBVIOUS
<1>4. PICK A : A = AheadOf(q, way)
  OBVIOUS
<1>5. Spells(heap, Usable, s)
  BY <1>2 DEF Rings
<1>6. q \in Seq(Nodes) /\ Distinct(q) /\ Len(q) \in Nat /\ OnList(heap, l) = Members(q)
  <2>1. OnList(heap, l) = {s[l][k] : k \in 1 .. Len(s[l])}
    BY <1>5, SpelledLists
  <2>. QED
    BY <1>3, <1>5, <2>1, ListFacts DEF Distinct, Members
<1>7. A \in Seq(Nodes) /\ Members(A) = Members(q)
  BY ONLY <1>4, <1>6, AheadIs
<1>8. \A k \in 0 .. Len(A) : heap[way][RingAt(A, l, k)] = RingAt(A, l, k + 1)
  BY <1>3, <1>4, <1>5, AheadRing
<1>9. Len(A) \in Nat /\ RingAt(A, l, 0) = l
  BY <1>7 DEF RingAt
<1>10. \E j \in 0 .. Len(A) : x = RingAt(A, l, j + 1)
  <2>1. CASE x = heap[way][l]
    <3>1. 0 \in 0 .. Len(A)
      BY <1>9
    <3>. QED
      BY <1>8, <1>9, <2>1, <3>1
  <2>2. CASE \E pos \in OnList(heap, l) : x = heap[way][pos] \/ x = pos
    <3>1. PICK pos \in Members(A) : x = heap[way][pos] \/ x = pos
      BY <1>6, <1>7, <2>2
    <3>2. PICK i \in 1 .. Len(A) : A[i] = pos
      BY DEF Members
    <3>3. i \in 0 .. Len(A) /\ i - 1 \in 0 .. Len(A) /\ (i - 1) + 1 = i /\ RingAt(A, l, i) = pos
      BY <1>9, <3>2 DEF RingAt
    <3>4. CASE x = heap[way][pos]
      BY <1>8, <3>3, <3>4
    <3>5. CASE x = pos
      BY <3>3, <3>5
    <3>. QED
      BY <3>1, <3>4, <3>5
  <2>. QED
    BY <1>1, <2>1, <2>2
<1>11. PICK j \in 0 .. Len(A) : x = RingAt(A, l, j + 1)
  BY <1>10
<1>12. A = AheadOf(Seqs(heap)[l], way)
  BY <1>2, <1>3, <1>4
<1>. QED
  BY ONLY Rings, <1>1, <1>11, <1>12, BeginsAt

LEMMA LeaveKeeps ==
  ASSUME ListsInv, Leave
  PROVE  ListsInv'
<1>1. walk' = NoWalk /\ UNCHANGED <<heap, stale>>
  BY DEF Leave
<1>2. Rings'
  BY <1>1 DEF ListsInv, Rings, Seqs, Usable
<1>3. NoWalk' = NoWalk
  BY DEF NoWalk
<1>. QED
  BY <1>1, <1>2, <1>3 DEF ListsInv

LEMMA InitIsEmpty ==
  ASSUME Init
  PROVE  ListsInv
<1>. DEFINE s == [l \in Heads |-> <<>>]
            f == [x \in N |-> IF x \in Heads THEN x ELSE NULL]
<1>1. Usable = Heads /\ stale \subseteq Heads
  BY DEF Init, Usable
<1>2. heap = Heap(f, f) /\ f \in [N -> Links(N)]
  BY NodeSets DEF Init, N, Links
<1>3. IsHeap(heap, N) /\ heap.next = f /\ heap.prev = f
  BY <1>2 DEF IsHeap, Heap
<1>4. \A l \in Heads : heap.next[l] = l /\ heap.prev[l] = l /\ l \in N
  BY <1>3, NodeSets
<1>5. ASSUME NEW l \in Heads
      PROVE  s[l] \in Seq(Nodes) /\ Len(s[l]) = 0 /\ IsRing(heap, N, l, s[l])
  <2>1. s[l] = <<>> /\ <<>> \in Seq(Nodes) /\ <<>> \in Seq(N) /\ Len(<<>>) = 0
    OBVIOUS
  <2>2. 0 .. 0 = {0}
    OBVIOUS
  <2>3. \A k : RingAt(<<>>, l, k) = l
    BY <2>1 DEF RingAt
  <2>. QED
    BY <1>4, <2>1, <2>2, <2>3 DEF IsRing
<1>6. Spells(heap, Heads, s)
  <2>1. s \in [Heads -> Seq(Nodes)]
    BY <1>5
  <2>2. \A l \in Heads : 1 .. Len(s[l]) = {}
    BY <1>5
  <2>. HIDE DEF s
  <2>. QED
    BY <1>3, <1>5, <2>1, <2>2 DEF Spells
<1>7. Seqs(heap) = s
  <2>. HIDE DEF s
  <2>. QED
    BY <1>1, <1>6, SpelledLists DEF Seqs
<1>. QED
  BY <1>1, <1>6, <1>7 DEF ListsInv, Rings, Init

\* In every state the lists in use are rings, each spelling a sequence, and a
\* walk that goes on stands among the entries ahead of it.
THEOREM ListsInvariant == Spec => []ListsInv
<1>1. Init => ListsInv
  BY InitIsEmpty
<1>2. ListsInv /\ [Next]_listVars => ListsInv'
  <2>. SUFFICES ASSUME ListsInv, [Next]_listVars
                PROVE  ListsInv'
    OBVIOUS
  <2>1. CASE walk = NoWalk /\ Edit /\ UNCHANGED walk
    <3>1. CASE Add \/ Delete \/ Move \/ Rotate \/ Replace
      <4>1. UNCHANGED stale
        BY <3>1 DEF Add, Delete, Move, Rotate, Replace
      <4>2. Rings'
        BY <3>1, <4>1, EntryEdits DEF ListsInv
      <4>. QED
        BY <2>1, <4>2 DEF ListsInv, NoWalk
    <3>2. CASE ReplaceHead \/ Cut \/ Splice \/ Initialise
      <4>1. Rings'
        BY <3>2, ListEdits DEF ListsInv
      <4>. QED
        BY <2>1, <4>1 DEF ListsInv, NoWalk
    <3>. QED
      BY <2>1, <3>1, <3>2 DEF Edit
  <2>2. CASE walk = NoWalk /\ StartWalk
    BY <2>2, StartWalkKeeps DEF ListsInv
  <2>3. CASE BodyDeletes
    BY <2>3, BodyDeletesKeeps
  <2>4. CASE BodyPuts
    BY <2>4, BodyPutsKeeps
  <2>5. CASE BodyDropsNext
    BY <2>5, BodyDropsNextKeeps
  <2>6. CASE Turn
    BY <2>6, TurnKeeps
  <2>7. CASE Leave
    BY <2>7, LeaveKeeps
  <2>8. CASE UNCHANGED listVars
    <3>1. Rings' = Rings /\ (walk \in Walks)' = (walk \in Walks) /\ WalkStands' = WalkStands
      BY <2>8 DEF listVars, Rings, Seqs, Usable, Walks, WalkStands, Ahead
    <3>. QED
      BY <2>8, <3>1 DEF ListsInv, listVars, NoWalk
  <2>. QED
    BY <2>1, <2>2, <2>3, <2>4, <2>5, <2>6, <2>7, <2>8 DEF Next, Walking
<1>. QED
  BY <1>1, <1>2, PTL DEF Spec

-----------------------------------------------------------------------------
(* The theorems.                                                           *)

\* Every list in use is a closed ring whose links agree in both directions,
\* and no entry is on two lists.
THEOREM ListsAreRings == Spec => []RingsAreClosed
<1>1. ListsInv => RingsAreClosed
  BY RingsAreClosedThen DEF ListsInv
<1>. QED
  BY ListsInvariant, <1>1, PTL

\* On all lists a program can have, each operation on an entry is the
\* sequence operation that its name says, and leaves all other lists alone.
THEOREM EntryOperations == Spec => []EntryOperationsAreExact
<1>1. ListsInv => EntryOperationsAreExact
  BY EntryOperationsThen DEF ListsInv
<1>. QED
  BY ListsInvariant, <1>1, PTL

\* Cutting, joining and renaming lists keeps all entries in their order.
THEOREM ListOperations == Spec => []ListOperationsAreExact
<1>1. ListsInv => ListOperationsAreExact
  BY ListOperationsThen DEF ListsInv
<1>. QED
  BY ListsInvariant, <1>1, PTL

\* A walk goes from each entry to the next it has still to visit, and then
\* to its head, whatever its body takes away or puts elsewhere.
THEOREM WalksVisit == Spec => []WalksVisitAll
<1>1. ASSUME ListsInv PROVE WalksVisitAll
  <2>1. SUFFICES ASSUME walk # NoWalk
                 PROVE  walk.pos = IF walk.due = <<>> THEN walk.head ELSE walk.due[1]
    BY DEF WalksVisitAll
  <2>2. CASE walk.pos = walk.head
    BY <1>1, <2>1, <2>2 DEF ListsInv, WalkStands
  <2>3. CASE walk.pos # walk.head
    <3>1. InBody
      BY <2>1, <2>3 DEF InBody
    <3>2. PICK A : A = AheadOf(Seqs(heap)[walk.head], walk.way)
      OBVIOUS
    <3>3. /\ A \in Seq(Nodes) /\ walk.pos \in Nodes
          /\ Standing(A, walk.head, walk.safe, walk.pos, walk.n, walk.due)
      BY <1>1, <3>1, <3>2, WalkHas
    <3>4. PICK j \in 0 .. Len(A) : walk.due = <<walk.pos>> \o After(A, j)
      BY <3>3 DEF Standing
    <3>5. PICK pos, due : pos = walk.pos /\ due = walk.due
      OBVIOUS
    <3>6. A \in Seq(Nodes) /\ pos \in Nodes /\ due = <<pos>> \o After(A, j)
      BY <3>3, <3>4, <3>5
    <3>7. BeginsWith(due, Nodes, pos, After(A, j))
      BY ONLY <3>6, j \in 0 .. Len(A), DueIs
    <3>. QED
      BY <3>5, <3>7 DEF BeginsWith
  <2>. QED
    BY <2>2, <2>3
<1>. QED
  BY ListsInvariant, <1>1, PTL
=============================================================================
