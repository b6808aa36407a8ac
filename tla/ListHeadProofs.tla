-------------------------- MODULE ListHeadProofs --------------------------
(***************************************************************************)
(* What the pointer operations of include/list.h do to a list, for every   *)
(* finite set of nodes: lemmas for the proofs about the programs that use  *)
(* them.                                                                   *)
(*                                                                         *)
(* The pointers are handled through the sequence they spell: IsRing says   *)
(* that a heap holds the ring of a sequence, and one lemma per pointer     *)
(* operation says which sequence it makes of which.                        *)
(***************************************************************************)
EXTENDS ListHead, FiniteSetTheorems, FunctionTheorems, SequenceTheorems,
        WellFoundedInduction, TLAPS

\* Every nonempty set of naturals has a least element.
LEMMA LeastNat ==
  ASSUME NEW S \in SUBSET Nat, S # {}
  PROVE  \E x \in S : \A y \in S : x <= y
<1>1. PICK x \in S : \A y \in S : ~(<<y, x>> \in OpToRel(<, Nat))
  BY WFMin, NatLessThanWellFounded
<1>2. \A y \in S : x <= y
  <2> TAKE y \in S
  <2>1. ~(<<y, x>> \in OpToRel(<, Nat))
    BY <1>1
  <2>2. ~(y < x)
    BY <2>1 DEF OpToRel
  <2> QED
    BY <2>2
<1> QED
  BY <1>2

-----------------------------------------------------------------------------
(* Rings.                                                                  *)

\* The k-th node of the ring of s through head, which is its own ends.
RingAt(s, head, k) == IF k \in 1 .. Len(s) THEN s[k] ELSE head

\* What a pointer may hold: nodes, nothing, or what list_del leaves there.
Links(N) == N \cup {NULL, LIST_POISON1, LIST_POISON2}

IsHeap(h, N) ==
  /\ h = Heap(h.next, h.prev)
  /\ h.next \in [N -> Links(N)]
  /\ h.prev \in [N -> Links(N)]

\* The links of h spell s, forward and backward, and no node twice.
IsRing(h, N, head, s) ==
  /\ s \in Seq(N)
  /\ \A i, j \in 0 .. Len(s) : RingAt(s, head, i) = RingAt(s, head, j) => i = j
  /\ \A k \in 0 .. Len(s) :
       /\ h.next[RingAt(s, head, k)] = RingAt(s, head, k + 1)
       /\ h.prev[RingAt(s, head, k + 1)] = RingAt(s, head, k)

\* One turn of list_for_each, and the walk up to turn m.
WalkStep(h, head, s) ==
  LET at   == IF s = <<>> THEN head ELSE s[Len(s)]
      succ == h.next[at]
  IN  IF succ \in {head, NULL} THEN s ELSE Append(s, succ)

IsWalk(h, head, g, m) ==
  g = [k \in 0 .. m |-> IF k = 0 THEN <<>> ELSE WalkStep(h, head, g[k - 1])]

\* There is such a function, so the recursive definition defines it.
LEMMA WalkExists ==
  ASSUME NEW h, NEW head, NEW m \in Nat
  PROVE  \E g : IsWalk(h, head, g, m)
<1>. DEFINE S == {k \in Nat : ~ \E g : IsWalk(h, head, g, k)}
<1>1. SUFFICES ASSUME S # {} PROVE FALSE
  OBVIOUS
<1>2. PICK k \in S : \A i \in S : k <= i
  <2>1. S \in SUBSET Nat
    OBVIOUS
  <2>. HIDE DEF S
  <2>. QED
    BY <1>1, <2>1, LeastNat
<1>3. k \in Nat /\ ~ \E g : IsWalk(h, head, g, k)
  OBVIOUS
<1>4. CASE k = 0
  <2>. DEFINE g == [n \in 0 .. 0 |-> <<>>]
  <2>1. IsWalk(h, head, g, 0)
    BY DEF IsWalk
  <2>. QED
    BY <1>3, <1>4, <2>1
<1>5. CASE k # 0
  <2>1. k - 1 \in Nat /\ ~(k <= k - 1)
    BY <1>3, <1>5
  <2>2. PICK g : IsWalk(h, head, g, k - 1)
    BY <1>2, <2>1
  <2>. HIDE DEF S
  <2>. DEFINE f == [n \in 0 .. k |-> IF n < k THEN g[n]
                                     ELSE WalkStep(h, head, g[k - 1])]
  <2>3. \A n \in 0 .. (k - 1) :
          g[n] = IF n = 0 THEN <<>> ELSE WalkStep(h, head, g[n - 1])
    BY <2>2 DEF IsWalk
  <2>4. ASSUME NEW n \in 0 .. k
        PROVE  f[n] = IF n = 0 THEN <<>> ELSE WalkStep(h, head, f[n - 1])
    <3>1. CASE n = 0
      <4>1. n < k /\ n \in 0 .. (k - 1)
        BY <1>3, <1>5, <3>1
      <4>. QED
        BY <2>3, <3>1, <4>1
    <3>2. CASE n # 0 /\ n < k
      <4>1. n \in 0 .. (k - 1) /\ n - 1 \in 0 .. k /\ n - 1 < k
        BY <1>3, <3>2
      <4>2. f[n] = g[n] /\ f[n - 1] = g[n - 1]
        BY <3>2, <4>1
      <4>. QED
        BY <2>3, <3>2, <4>1, <4>2
    <3>3. CASE n # 0 /\ ~(n < k)
      <4>1. n = k /\ k - 1 \in 0 .. k /\ k - 1 < k
        BY <1>3, <3>3
      <4>2. f[n] = WalkStep(h, head, g[k - 1]) /\ f[n - 1] = g[k - 1]
        BY <4>1
      <4>. QED
        BY <3>3, <4>2
    <3>. QED
      BY <3>1, <3>2, <3>3
  <2>5. f = [n \in 0 .. k |-> f[n]]
    OBVIOUS
  <2>. HIDE DEF f
  <2>6. IsWalk(h, head, f, k)
    BY <2>4, <2>5 DEF IsWalk
  <2>. QED
    BY <1>3, <2>6
<1>. QED
  BY <1>4, <1>5

LEMMA EntriesAreWalked ==
  ASSUME NEW h, NEW head, IsFiniteSet(DOMAIN h.next)
  PROVE  \E g : /\ IsWalk(h, head, g, Cardinality(DOMAIN h.next))
                /\ Entries(h, head) = g[Cardinality(DOMAIN h.next)]
<1>. DEFINE bound == Cardinality(DOMAIN h.next)
            g == CHOOSE w : w = [k \in 0 .. bound |->
                   IF k = 0 THEN <<>> ELSE WalkStep(h, head, w[k - 1])]
<1>1. bound \in Nat
  BY FS_CardinalityType
<1>2. \E w : w = [k \in 0 .. bound |->
                   IF k = 0 THEN <<>> ELSE WalkStep(h, head, w[k - 1])]
  <2>. HIDE DEF bound, g
  <2>1. \E v : IsWalk(h, head, v, bound)
    BY <1>1, WalkExists
  <2>2. PICK v : IsWalk(h, head, v, bound)
    BY <2>1
  <2>3. v = [k \in 0 .. bound |->
               IF k = 0 THEN <<>> ELSE WalkStep(h, head, v[k - 1])]
    BY <2>2 DEF IsWalk
  <2>. QED
    BY <2>3
<1>3. Entries(h, head) = g[bound]
  BY DEF Entries, WalkStep
<1>4. g = [k \in 0 .. bound |->
                   IF k = 0 THEN <<>> ELSE WalkStep(h, head, g[k - 1])]
  <2>. HIDE DEF bound
  <2>. QED
    BY <1>2
<1>. HIDE DEF g
<1>. QED
  BY <1>3, <1>4 DEF IsWalk

\* After k turns the walk has the first k entries, or all.
LEMMA WalkIsPrefix ==
  ASSUME NEW h, NEW N, NEW head, NEW s, IsRing(h, N, head, s), NULL \notin N,
         NEW m \in Nat, NEW g, IsWalk(h, head, g, m)
  PROVE  \A k \in 0 .. m :
           g[k] = SubSeq(s, 1, IF k < Len(s) THEN k ELSE Len(s))
<1>. DEFINE L == Len(s)
            Prefix(k) == SubSeq(s, 1, k)
            S == {k \in 0 .. m : g[k] # Prefix(IF k < L THEN k ELSE L)}
<1>1. L \in Nat /\ s \in Seq(N) /\ \A i \in 1 .. L : s[i] \in N
  BY DEF IsRing
<1>2. ASSUME NEW j \in 0 .. L
      PROVE  /\ Prefix(j) \in Seq(N) /\ Len(Prefix(j)) = j
             /\ \A i \in 1 .. j : Prefix(j)[i] = s[i]
             /\ Prefix(j) = <<>> <=> j = 0
  <2>1. j \in Int /\ \A i \in 1 .. j : s[i] \in N
    BY <1>1
  <2>2. /\ SubSeq(s, 1, j) \in Seq(N)
        /\ Len(SubSeq(s, 1, j)) = IF 1 <= j THEN j - 1 + 1 ELSE 0
        /\ \A i \in 1 .. (j - 1 + 1) : SubSeq(s, 1, j)[i] = s[1 + i - 1]
    BY <2>1, SubSeqProperties
  <2>. QED
    BY <1>1, <2>1, <2>2
<1>3. SUFFICES ASSUME S # {} PROVE FALSE
  OBVIOUS
<1>4. PICK k \in S : \A i \in S : k <= i
  <2>1. S \in SUBSET Nat
    OBVIOUS
  <2>. HIDE DEF S
  <2>. QED
    BY <1>3, <2>1, LeastNat
<1>5. k \in 0 .. m /\ g[k] # Prefix(IF k < L THEN k ELSE L)
  OBVIOUS
<1>6. \A i \in 0 .. m : g[i] = IF i = 0 THEN <<>> ELSE WalkStep(h, head, g[i - 1])
  BY DEF IsWalk
<1>7. k # 0
  <2>1. k = 0 => (IF k < L THEN k ELSE L) = 0
    BY <1>1
  <2>2. Prefix(0) = <<>>
    BY <1>1, <1>2
  <2>. HIDE DEF Prefix
  <2>. QED
    BY <1>5, <1>6, <2>1, <2>2
<1>. DEFINE j == IF k - 1 < L THEN k - 1 ELSE L
<1>8. g[k - 1] = Prefix(j)
  <2>1. k - 1 \in 0 .. m /\ ~(k <= k - 1)
    BY <1>5, <1>7
  <2>. QED
    BY <1>4, <2>1
<1>. HIDE DEF S
<1>9. /\ j \in 0 .. L /\ j \in Nat /\ j + 1 \in Nat
      /\ (IF k < L THEN k ELSE L) = IF j < L THEN j + 1 ELSE L
  BY <1>1, <1>5, <1>7
<1>. HIDE DEF j
<1>10. g[k] = WalkStep(h, head, Prefix(j))
  BY <1>5, <1>6, <1>7, <1>8
<1>11. (IF Prefix(j) = <<>> THEN head ELSE Prefix(j)[Len(Prefix(j))]) = RingAt(s, head, j)
  <2>1. Prefix(j) = <<>> <=> j = 0
    BY <1>2, <1>9
  <2>2. j # 0 => j \in 1 .. j /\ j \in 1 .. L
    BY <1>1, <1>9
  <2>3. j = 0 => ~(j \in 1 .. L)
    BY <1>1
  <2>4. Len(Prefix(j)) = j /\ \A i \in 1 .. j : Prefix(j)[i] = s[i]
    BY <1>2, <1>9
  <2>. HIDE DEF Prefix
  <2>. QED
    BY <2>1, <2>2, <2>3, <2>4 DEF RingAt
<1>12. h.next[RingAt(s, head, j)] = RingAt(s, head, j + 1)
  BY <1>9 DEF IsRing
<1>. HIDE DEF Prefix
<1>13. g[k] = IF RingAt(s, head, j + 1) \in {head, NULL} THEN Prefix(j)
              ELSE Append(Prefix(j), RingAt(s, head, j + 1))
  BY <1>10, <1>11, <1>12 DEF WalkStep
<1>14. CASE j = L
  <2>1. RingAt(s, head, j + 1) = head
    <3>1. ~(j + 1 \in 1 .. L)
      BY <1>1, <1>14
    <3>. QED
      BY <3>1 DEF RingAt
  <2>. QED
    BY <1>5, <1>9, <1>13, <1>14, <2>1
<1>15. CASE j < L
  <2>1. /\ j + 1 \in 1 .. L /\ j + 1 \in 0 .. L /\ 0 \in 0 .. L /\ j + 1 # 0
        /\ ~(0 \in 1 .. L)
    BY <1>1, <1>9, <1>15
  <2>2. RingAt(s, head, j + 1) = s[j + 1] /\ RingAt(s, head, 0) = head
    BY <2>1 DEF RingAt
  <2>3. s[j + 1] # head
    BY <2>1, <2>2 DEF IsRing
  <2>4. s[j + 1] \in N /\ s[j + 1] # NULL
    BY <1>1, <2>1
  <2>5. g[k] = Append(Prefix(j), s[j + 1])
    BY <1>13, <2>2, <2>3, <2>4
  <2>6. Append(Prefix(j), s[j + 1]) = Prefix(j + 1)
    <3>. DEFINE p == Prefix(j)
                q == Prefix(j + 1)
                a == Append(p, s[j + 1])
    <3>1. /\ p \in Seq(N) /\ Len(p) = j
          /\ \A i \in 1 .. j : p[i] = s[i]
      BY <1>2, <1>9
    <3>2. /\ q \in Seq(N) /\ Len(q) = j + 1
          /\ \A i \in 1 .. (j + 1) : q[i] = s[i]
      BY <1>2, <2>1
    <3>. HIDE DEF p, q
    <3>3. /\ a \in Seq(N) /\ Len(a) = j + 1
          /\ \A i \in 1 .. j : a[i] = p[i]
          /\ a[j + 1] = s[j + 1]
      BY <2>4, <3>1, AppendProperties
    <3>. HIDE DEF a
    <3>4. \A i \in 1 .. (j + 1) : a[i] = q[i]
      BY <1>9, <3>1, <3>2, <3>3
    <3>5. a = q
      BY <3>2, <3>3, <3>4, SeqEqual
    <3>. QED
      BY <3>5 DEF a, p, q
  <2>. QED
    BY <1>5, <1>9, <1>15, <2>5, <2>6
<1>. QED
  BY <1>1, <1>9, <1>14, <1>15

\* No more entries than nodes.
LEMMA RingIsShort ==
  ASSUME NEW h, NEW N, NEW head, NEW s, IsRing(h, N, head, s), IsFiniteSet(N)
  PROVE  Len(s) <= Cardinality(N)
<1>. DEFINE L == Len(s)
            I == 1 .. L
            f == [i \in I |-> s[i]]
            R == {s[i] : i \in I}
<1>1. L \in Nat /\ \A i \in I : s[i] \in N
  BY DEF IsRing
<1>2. \A i, j \in I : f[i] = f[j] => i = j
  <2>1. \A i \in I : i \in 0 .. L /\ RingAt(s, head, i) = s[i]
    BY <1>1 DEF RingAt
  <2>. QED
    BY <2>1 DEF IsRing
<1>3. f \in [I -> R] /\ \A r \in R : \E i \in I : f[i] = r
  OBVIOUS
<1>4. R \in SUBSET N
  BY <1>1
<1>5. IsFiniteSet(I) /\ Cardinality(I) = L
  <2>. HIDE DEF L
  <2>1. Cardinality(1 .. L) = IF 1 > L THEN 0 ELSE L - 1 + 1
    BY <1>1, FS_Interval
  <2>2. IsFiniteSet(1 .. L)
    BY <1>1, FS_Interval
  <2>. QED
    BY <1>1, <2>1, <2>2
<1>. HIDE DEF f, I, R, L
<1>6. f \in Bijection(I, R)
  BY <1>2, <1>3, Fun_IsBij
<1>7. ExistsBijection(I, R)
  BY <1>6, Fun_ExistsBij
<1>8. Cardinality(R) = L
  BY <1>5, <1>7, FS_Bijection
<1>9. Cardinality(R) <= Cardinality(N)
  BY <1>4, FS_Subset
<1>. QED
  BY <1>8, <1>9 DEF L

\* list_for_each visits the sequence the ring spells.
LEMMA RingEntries ==
  ASSUME NEW h, NEW N, NEW head, NEW s,
         IsRing(h, N, head, s), IsHeap(h, N), IsFiniteSet(N), NULL \notin N
  PROVE  Entries(h, head) = s
<1>. DEFINE c == Cardinality(N)
<1>1. DOMAIN h.next = N /\ c \in Nat /\ s \in Seq(N) /\ Len(s) \in Nat
  BY FS_CardinalityType DEF IsHeap, IsRing
<1>2. PICK g : IsWalk(h, head, g, c) /\ Entries(h, head) = g[c]
  BY <1>1, EntriesAreWalked
<1>3. ~(c < Len(s)) /\ c \in 0 .. c
  BY <1>1, RingIsShort
<1>. HIDE DEF c
<1>4. g[c] = SubSeq(s, 1, Len(s))
  <2>1. g[c] = SubSeq(s, 1, IF c < Len(s) THEN c ELSE Len(s))
    BY <1>1, <1>2, <1>3, WalkIsPrefix
  <2>. QED
    BY <1>3, <2>1
<1>5. SubSeq(s, 1, Len(s)) = s
  BY <1>1, SubSeqFull
<1>. QED
  BY <1>2, <1>4, <1>5

-----------------------------------------------------------------------------
(* The pointer operations.                                                 *)

\* What the places of a ring are.
LEMMA RingPlaces ==
  ASSUME NEW s, NEW N, NEW head, s \in Seq(N)
  PROVE  /\ Len(s) \in Nat
         /\ RingAt(s, head, 0) = head
         /\ RingAt(s, head, Len(s) + 1) = head
         /\ \A k \in 1 .. Len(s) : RingAt(s, head, k) = s[k] /\ s[k] \in N
<1>1. Len(s) \in Nat
  OBVIOUS
<1>2. ~(0 \in 1 .. Len(s)) /\ ~(Len(s) + 1 \in 1 .. Len(s))
  BY <1>1
<1>. QED
  BY <1>1, <1>2 DEF RingAt

\* x between the places p - 1 and p.
Inserted(s, p, x) ==
  [k \in 1 .. (Len(s) + 1) |->
     IF k < p THEN s[k] ELSE IF k = p THEN x ELSE s[k - 1]]

Removed(s, p) == [k \in 1 .. (Len(s) - 1) |-> IF k < p THEN s[k] ELSE s[k + 1]]

LEMMA InsertedIs ==
  ASSUME NEW s, NEW N, s \in Seq(N), NEW p \in 1 .. (Len(s) + 1), NEW x \in N
  PROVE  /\ Inserted(s, p, x) \in Seq(N)
         /\ Len(Inserted(s, p, x)) = Len(s) + 1
         /\ \A k \in 1 .. (Len(s) + 1) :
              Inserted(s, p, x)[k] =
                IF k < p THEN s[k] ELSE IF k = p THEN x ELSE s[k - 1]
         /\ \A head : \A k \in 0 .. (Len(s) + 2) :
              RingAt(Inserted(s, p, x), head, k) =
                IF k < p THEN RingAt(s, head, k)
                ELSE IF k = p THEN x ELSE RingAt(s, head, k - 1)
<1>. DEFINE L == Len(s)
            f == Inserted(s, p, x)
<1>1. L \in Nat /\ (\A k \in 1 .. L : s[k] \in N) /\ p \in Nat
  OBVIOUS
<1>. HIDE DEF L
<1>2. \A k \in 1 .. (L + 1) : f[k] = IF k < p THEN s[k] ELSE IF k = p THEN x ELSE s[k - 1]
  BY DEF Inserted, L
<1>3. \A k \in 1 .. (L + 1) :
        (IF k < p THEN s[k] ELSE IF k = p THEN x ELSE s[k - 1]) \in N
  <2>1. p \in 1 .. (L + 1)
    BY DEF L
  <2>2. \A k \in 1 .. (L + 1) : /\ k < p => k \in 1 .. L
                                /\ ~(k < p) /\ k # p => k - 1 \in 1 .. L
    BY <1>1, <2>1
  <2>. QED
    BY <1>1, <2>2
<1>4. f \in [1 .. (L + 1) -> N]
  BY <1>3 DEF Inserted, L
<1>5. f \in Seq(N) /\ Len(f) = L + 1
  <2>1. L + 1 \in Nat
    BY <1>1
  <2>. HIDE DEF f
  <2>. QED
    BY <1>4, <2>1
<1>. HIDE DEF f
<1>6. ASSUME NEW head, NEW k \in 0 .. (L + 2)
      PROVE  RingAt(f, head, k) = IF k < p THEN RingAt(s, head, k)
                                  ELSE IF k = p THEN x ELSE RingAt(s, head, k - 1)
  <2>1. p \in 1 .. (L + 1)
    BY DEF L
  <2>2. /\ k \in Int
        /\ k \in 1 .. (L + 1) => k \in 1 .. Len(f)
        /\ k \in 1 .. Len(f) => k \in 1 .. (L + 1)
    BY <1>1, <1>5
  <2>3. CASE k < p
    <3>1. (k \in 1 .. (L + 1) <=> k \in 1 .. L)
      BY <1>1, <2>1, <2>2, <2>3
    <3>. QED
      BY <1>2, <2>2, <2>3, <3>1 DEF RingAt, L
  <2>4. CASE k = p
    BY <1>1, <1>2, <2>1, <2>2, <2>4 DEF RingAt
  <2>5. CASE k > p
    <3>1. k \in 1 .. (L + 1) <=> k - 1 \in 1 .. L
      BY <1>1, <2>1, <2>2, <2>5
    <3>2. ~(k < p) /\ k # p
      BY <1>1, <2>2, <2>5
    <3>. QED
      BY <1>2, <2>2, <3>1, <3>2 DEF RingAt, L
  <2>. QED
    BY <1>1, <2>2, <2>3, <2>4, <2>5
<1>. QED
  BY <1>2, <1>5, <1>6 DEF f, L

LEMMA RemovedIs ==
  ASSUME NEW s, NEW N, s \in Seq(N), NEW p \in 1 .. Len(s)
  PROVE  /\ Removed(s, p) \in Seq(N)
         /\ Len(Removed(s, p)) = Len(s) - 1
         /\ \A k \in 1 .. (Len(s) - 1) :
              Removed(s, p)[k] = IF k < p THEN s[k] ELSE s[k + 1]
         /\ \A head : \A k \in 0 .. Len(s) :
              RingAt(Removed(s, p), head, k) =
                IF k < p THEN RingAt(s, head, k) ELSE RingAt(s, head, k + 1)
<1>. DEFINE L == Len(s)
            f == Removed(s, p)
<1>1. L \in Nat /\ (\A k \in 1 .. L : s[k] \in N) /\ p \in Nat
  OBVIOUS
<1>. HIDE DEF L
<1>2. \A k \in 1 .. (L - 1) : f[k] = IF k < p THEN s[k] ELSE s[k + 1]
  BY DEF Removed, L
<1>3. \A k \in 1 .. (L - 1) : (IF k < p THEN s[k] ELSE s[k + 1]) \in N
  <2>1. \A k \in 1 .. (L - 1) : k \in 1 .. L /\ k + 1 \in 1 .. L
    BY <1>1
  <2>. QED
    BY <1>1, <2>1
<1>4. f \in [1 .. (L - 1) -> N]
  BY <1>3 DEF Removed, L
<1>5. f \in Seq(N) /\ Len(f) = L - 1
  <2>1. L - 1 \in Nat
    <3>1. p \in 1 .. L
      BY DEF L
    <3>. QED
      BY <1>1, <3>1
  <2>. HIDE DEF f
  <2>. QED
    BY <1>4, <2>1
<1>. HIDE DEF f
<1>6. ASSUME NEW head, NEW k \in 0 .. L
      PROVE  RingAt(f, head, k) = IF k < p THEN RingAt(s, head, k)
                                  ELSE RingAt(s, head, k + 1)
  <2>1. p \in 1 .. L
    BY DEF L
  <2>2. /\ k \in Int
        /\ k \in 1 .. (L - 1) => k \in 1 .. Len(f)
        /\ k \in 1 .. Len(f) => k \in 1 .. (L - 1)
    BY <1>1, <1>5
  <2>3. CASE k < p
    <3>1. (k \in 1 .. (L - 1) <=> k \in 1 .. L)
      BY <1>1, <2>1, <2>2, <2>3
    <3>. QED
      BY <1>2, <2>2, <2>3, <3>1 DEF RingAt, L
  <2>4. CASE ~(k < p)
    <3>1. k \in 1 .. (L - 1) <=> k + 1 \in 1 .. L
      BY <1>1, <2>1, <2>2, <2>4
    <3>. QED
      BY <1>2, <2>2, <2>4, <3>1 DEF RingAt, L
  <2>. QED
    BY <2>3, <2>4
<1>. QED
  BY <1>2, <1>5, <1>6 DEF f, L

\* list_add_between puts its entry where it is told.
LEMMA AddBetween ==
  ASSUME NEW h, NEW N, NEW head \in N, NEW s, IsHeap(h, N), IsRing(h, N, head, s),
         NEW p \in 1 .. (Len(s) + 1), NEW x \in N,
         \A k \in 0 .. Len(s) : RingAt(s, head, k) # x,
         NEW f, f = list_add_between(h, x, RingAt(s, head, p - 1), RingAt(s, head, p))
  PROVE  /\ IsHeap(f, N)
         /\ IsRing(f, N, head, Inserted(s, p, x))
         /\ \A y \in N : (\A k \in 0 .. Len(s) : RingAt(s, head, k) # y) /\ y # x =>
              f.next[y] = h.next[y] /\ f.prev[y] = h.prev[y]
<1>. DEFINE L == Len(s)
            a(k) == RingAt(s, head, k)
            b(k) == RingAt(Inserted(s, p, x), head, k)
<1>1. /\ L \in Nat /\ p \in Nat /\ s \in Seq(N) /\ p \in 1 .. (L + 1)
      /\ p - 1 \in 0 .. L
      /\ a(0) = head /\ a(L + 1) = head
      /\ \A k \in 0 .. (L + 1) : a(k) \in N
  <2>1. s \in Seq(N)
    BY DEF IsRing
  <2>2. L \in Nat /\ a(0) = head /\ a(L + 1) = head /\ \A k \in 1 .. L : a(k) \in N
    BY <2>1, RingPlaces
  <2>3. \A k \in 0 .. (L + 1) : k = 0 \/ k = L + 1 \/ k \in 1 .. L
    BY <2>2
  <2>. HIDE DEF a
  <2>. QED
    BY <2>1, <2>2, <2>3
<1>2. /\ \A i, j \in 0 .. L : a(i) = a(j) => i = j
      /\ \A k \in 0 .. L : h.next[a(k)] = a(k + 1) /\ h.prev[a(k + 1)] = a(k)
      /\ \A k \in 0 .. L : a(k) # x
  BY DEF IsRing
<1>3. /\ Inserted(s, p, x) \in Seq(N) /\ Len(Inserted(s, p, x)) = L + 1
      /\ \A k \in 0 .. (L + 2) :
           b(k) = IF k < p THEN a(k) ELSE IF k = p THEN x ELSE a(k - 1)
  BY <1>1, InsertedIs
<1>4. /\ f = Heap(f.next, f.prev)
      /\ f.next = [h.next EXCEPT ![x] = a(p), ![a(p - 1)] = x]
      /\ f.prev = [h.prev EXCEPT ![a(p)] = x, ![x] = a(p - 1)]
  BY DEF list_add_between, Heap
<1>. HIDE DEF a, b, L
<1>5. a(p - 1) \in N /\ a(p) \in N /\ a(p - 1) # x /\ a(p) # x
  <2>1. p - 1 \in 0 .. (L + 1) /\ p \in 0 .. (L + 1) /\ p - 1 \in 0 .. L
    BY <1>1
  <2>2. p \in 0 .. L \/ p = L + 1
    BY <1>1
  <2>3. 0 \in 0 .. L
    BY <1>1
  <2>. QED
    BY <1>1, <1>2, <2>1, <2>2, <2>3
<1>6. h.next \in [N -> Links(N)] /\ h.prev \in [N -> Links(N)]
  BY DEF IsHeap
<1>7. /\ f.next \in [N -> Links(N)] /\ f.prev \in [N -> Links(N)]
      /\ \A y \in N : /\ f.next[y] = IF y = a(p - 1) THEN x
                                     ELSE IF y = x THEN a(p) ELSE h.next[y]
                      /\ f.prev[y] = IF y = x THEN a(p - 1)
                                     ELSE IF y = a(p) THEN x ELSE h.prev[y]
  BY <1>4, <1>5, <1>6 DEF Links
<1>8. IsHeap(f, N)
  BY <1>4, <1>7 DEF IsHeap
<1>9. \A i, j \in 0 .. (L + 1) : b(i) = b(j) => i = j
  <2>. SUFFICES ASSUME NEW i \in 0 .. (L + 1), NEW j \in 0 .. (L + 1), b(i) = b(j)
                PROVE  i = j
    OBVIOUS
  <2>1. \A k \in 0 .. (L + 1) :
          /\ k \in 0 .. (L + 2)
          /\ k < p => k \in 0 .. L
          /\ ~(k < p) /\ k # p => k - 1 \in 0 .. L
    BY <1>1
  <2>2. \A k \in 0 .. (L + 1) :
          b(k) = x <=> k = p
    BY <1>1, <1>2, <1>3, <2>1
  <2>3. CASE i = p \/ j = p
    BY <2>2, <2>3
  <2>4. CASE i # p /\ j # p
    <3>. DEFINE u(k) == IF k < p THEN k ELSE k - 1
    <3>1. \A k \in 0 .. (L + 1) : k # p => u(k) \in 0 .. L /\ b(k) = a(u(k))
      BY <1>3, <2>1
    <3>2. u(i) = u(j)
      BY <1>2, <2>4, <3>1
    <3>. QED
      BY <1>1, <2>4, <3>2
  <2>. QED
    BY <2>3, <2>4
<1>10. ASSUME NEW k \in 0 .. (L + 1)
       PROVE  f.next[b(k)] = b(k + 1) /\ f.prev[b(k + 1)] = b(k)
  <2>0. /\ k \in 0 .. (L + 2) /\ k + 1 \in 0 .. (L + 2) /\ k \in Int
        /\ (k + 1) - 1 = k
    BY <1>1
  <2>1. CASE k < p - 1
    <3>1. /\ k \in 0 .. L /\ k + 1 \in 0 .. L /\ k # p - 1 /\ k + 1 # p
          /\ k < p /\ k + 1 < p /\ k \in 0 .. (L + 1) /\ k + 1 \in 0 .. (L + 1)
      BY <1>1, <2>0, <2>1
    <3>2. b(k) = a(k) /\ b(k + 1) = a(k + 1)
      BY <1>3, <2>0, <3>1
    <3>3. a(k) # a(p - 1)
      BY <1>1, <1>2, <3>1
    <3>4. a(k + 1) # a(p)
      <4>1. p \in 0 .. L \/ (p = L + 1 /\ a(p) = a(0) /\ k + 1 # 0 /\ 0 \in 0 .. L)
        BY <1>1, <3>1
      <4>. QED
        BY <1>2, <3>1, <4>1
    <3>. QED
      BY <1>1, <1>2, <1>7, <3>1, <3>2, <3>3, <3>4
  <2>2. CASE k = p - 1
    <3>1. k + 1 = p /\ k < p /\ k \in 0 .. L
      BY <1>1, <2>0, <2>2
    <3>2. b(k) = a(p - 1) /\ b(k + 1) = x
      BY <1>1, <1>3, <2>0, <2>2, <3>1
    <3>. QED
      BY <1>5, <1>7, <3>2
  <2>3. CASE k = p
    <3>1. k + 1 > p /\ ~(k < p)
      BY <1>1, <2>0, <2>3
    <3>2. b(k) = x /\ b(k + 1) = a(p)
      <4>1. ~(k + 1 < p) /\ k + 1 # p
        BY <1>1, <2>0, <3>1
      <4>. QED
        BY <1>3, <2>0, <2>3, <3>1, <4>1
    <3>. QED
      BY <1>5, <1>7, <3>2
  <2>4. CASE k > p
    <3>1. /\ k - 1 \in 0 .. L /\ k - 1 # p - 1 /\ ~(k < p) /\ k # p
          /\ ~(k + 1 < p) /\ k + 1 # p /\ (k - 1) + 1 = k
          /\ k - 1 \in 0 .. (L + 1) /\ k \in 1 .. (L + 1)
      BY <1>1, <2>0, <2>4
    <3>2. b(k) = a(k - 1) /\ b(k + 1) = a(k)
      BY <1>3, <2>0, <3>1
    <3>3. a(k - 1) # a(p - 1)
      BY <1>1, <1>2, <3>1
    <3>4. a(k) # a(p)
      <4>1. /\ k \in 0 .. L \/ (k = L + 1 /\ a(k) = a(0) /\ p # 0 /\ 0 \in 0 .. L)
            /\ p \in 0 .. L
        BY <1>1, <2>0, <2>4, <3>1
      <4>. QED
        BY <1>2, <3>1, <4>1
    <3>5. a(k - 1) # x /\ a(k) # x
      <4>1. k \in 0 .. L \/ (a(k) = a(0) /\ 0 \in 0 .. L)
        BY <1>1, <3>1
      <4>. QED
        BY <1>2, <3>1, <4>1
    <3>6. /\ a(k - 1) \in N /\ a(k) \in N
          /\ h.next[a(k - 1)] = a(k) /\ h.prev[a(k)] = a(k - 1)
      <4>1. a(k - 1) \in N /\ a(k) \in N
        BY <1>1, <2>0, <3>1
      <4>2. h.next[a(k - 1)] = a((k - 1) + 1) /\ h.prev[a((k - 1) + 1)] = a(k - 1)
        BY <1>2, <3>1
      <4>. QED
        BY <3>1, <4>1, <4>2
    <3>. QED
      BY <1>7, <3>2, <3>3, <3>4, <3>5, <3>6
  <2>. QED
    BY <1>1, <2>0, <2>1, <2>2, <2>3, <2>4
<1>11. IsRing(f, N, head, Inserted(s, p, x))
  BY <1>3, <1>9, <1>10 DEF IsRing, b
<1>12. ASSUME NEW y \in N, \A k \in 0 .. L : a(k) # y, y # x
       PROVE  f.next[y] = h.next[y] /\ f.prev[y] = h.prev[y]
  <2>1. a(p - 1) # y /\ a(p) # y
    <3>1. p \in 0 .. L \/ (a(p) = a(0) /\ 0 \in 0 .. L)
      BY <1>1
    <3>. QED
      BY <1>1, <1>12, <3>1
  <2>. QED
    BY <1>7, <1>12, <2>1
<1>. QED
  BY <1>8, <1>11, <1>12 DEF a, L


\* __list_del_entry takes the entry out.
LEMMA DelEntry ==
  ASSUME NEW h, NEW N, NEW head \in N, NEW s, IsHeap(h, N), IsRing(h, N, head, s),
         NEW p \in 1 .. Len(s), NEW x, x = RingAt(s, head, p),
         NEW f, f = list_del_entry(h, x)
  PROVE  /\ IsHeap(f, N)
         /\ IsRing(f, N, head, Removed(s, p))
         /\ x \in N
         /\ \A k \in 0 .. (Len(s) - 1) : RingAt(Removed(s, p), head, k) # x
         /\ \A y \in N : (\A k \in 0 .. Len(s) : RingAt(s, head, k) # y) =>
              f.next[y] = h.next[y] /\ f.prev[y] = h.prev[y]
<1>. DEFINE L == Len(s)
            a(k) == RingAt(s, head, k)
            b(k) == RingAt(Removed(s, p), head, k)
<1>1. /\ L \in Nat /\ p \in Nat /\ s \in Seq(N) /\ p \in 1 .. L
      /\ a(0) = head /\ a(L + 1) = head /\ a(p) = x
      /\ \A k \in 0 .. (L + 1) : a(k) \in N
  <2>1. s \in Seq(N)
    BY DEF IsRing
  <2>2. L \in Nat /\ a(0) = head /\ a(L + 1) = head /\ \A k \in 1 .. L : a(k) \in N
    <3>1. L \in Nat /\ a(0) = head /\ a(L + 1) = head
      BY <2>1, RingPlaces
    <3>2. \A k \in 1 .. L : a(k) \in N
      BY <2>1 DEF RingAt
    <3>. QED
      BY <3>1, <3>2
  <2>3. \A k \in 0 .. (L + 1) : k = 0 \/ k = L + 1 \/ k \in 1 .. L
    BY <2>2
  <2>. HIDE DEF a
  <2>. QED
    BY <2>1, <2>2, <2>3 DEF a
<1>2. /\ \A i, j \in 0 .. L : a(i) = a(j) => i = j
      /\ \A k \in 0 .. L : h.next[a(k)] = a(k + 1) /\ h.prev[a(k + 1)] = a(k)
  BY DEF IsRing
<1>3. /\ Removed(s, p) \in Seq(N) /\ Len(Removed(s, p)) = L - 1
      /\ \A k \in 0 .. L : b(k) = IF k < p THEN a(k) ELSE a(k + 1)
  BY <1>1, RemovedIs
<1>. HIDE DEF a, b, L
<1>4. h.next[x] = a(p + 1) /\ h.prev[x] = a(p - 1)
  <2>1. p \in 0 .. L /\ p - 1 \in 0 .. L /\ (p - 1) + 1 = p
    BY <1>1
  <2>2. h.prev[a((p - 1) + 1)] = a(p - 1)
    BY <1>2, <2>1
  <2>. QED
    BY <1>1, <1>2, <2>1, <2>2
<1>5. h.next \in [N -> Links(N)] /\ h.prev \in [N -> Links(N)]
  BY DEF IsHeap
<1>6. /\ f = Heap(f.next, f.prev)
      /\ f.next = [h.next EXCEPT ![a(p - 1)] = a(p + 1)]
      /\ f.prev = [h.prev EXCEPT ![a(p + 1)] = a(p - 1)]
  BY <1>4 DEF list_del_entry, list_del_between, Heap
<1>7. \* the neighbours are other nodes
      /\ a(p - 1) \in N /\ a(p + 1) \in N /\ x \in N
      /\ a(p - 1) # x /\ a(p + 1) # x
  <2>1. /\ p - 1 \in 0 .. (L + 1) /\ p + 1 \in 0 .. (L + 1) /\ p \in 0 .. (L + 1)
        /\ p - 1 \in 0 .. L /\ p \in 0 .. L /\ p # 0 /\ 0 \in 0 .. L
        /\ p - 1 # p /\ p + 1 # p
    BY <1>1
  <2>2. p + 1 \in 0 .. L \/ a(p + 1) = a(0)
    <3>1. p + 1 \in 0 .. L \/ p + 1 = L + 1
      BY <1>1
    <3>. QED
      BY <1>1, <3>1
  <2>. QED
    BY <1>1, <1>2, <2>1, <2>2
<1>8. /\ f.next \in [N -> Links(N)] /\ f.prev \in [N -> Links(N)]
      /\ \A y \in N : /\ f.next[y] = IF y = a(p - 1) THEN a(p + 1) ELSE h.next[y]
                      /\ f.prev[y] = IF y = a(p + 1) THEN a(p - 1) ELSE h.prev[y]
  BY <1>5, <1>6, <1>7 DEF Links
<1>9. IsHeap(f, N)
  BY <1>6, <1>8 DEF IsHeap
<1>. DEFINE u(k) == IF k < p THEN k ELSE k + 1
<1>10. \A k \in 0 .. (L - 1) : /\ u(k) \in 0 .. L /\ u(k) # p /\ k \in 0 .. L
                               /\ b(k) = a(u(k)) /\ a(u(k)) # x
  <2>1. \A k \in 0 .. (L - 1) : u(k) \in 0 .. L /\ u(k) # p /\ k \in 0 .. L
    BY <1>1
  <2>2. p \in 0 .. L
    BY <1>1
  <2>. QED
    BY <1>1, <1>2, <1>3, <2>1, <2>2
<1>11. \A i, j \in 0 .. (L - 1) : b(i) = b(j) => i = j
  <2>. SUFFICES ASSUME NEW i \in 0 .. (L - 1), NEW j \in 0 .. (L - 1), b(i) = b(j)
                PROVE  i = j
    OBVIOUS
  <2>1. u(i) = u(j)
    BY <1>2, <1>10
  <2>. QED
    BY <1>1, <2>1
<1>12. ASSUME NEW k \in 0 .. (L - 1)
       PROVE  f.next[b(k)] = b(k + 1) /\ f.prev[b(k + 1)] = b(k)
  <2>0. k \in 0 .. L /\ k + 1 \in 0 .. L /\ k \in Int
    BY <1>1
  <2>1. CASE k < p - 1
    <3>1. /\ k < p /\ k + 1 < p /\ k # p - 1 /\ p - 1 \in 0 .. L /\ p \in 0 .. L
          /\ k \in 0 .. (L + 1) /\ k + 1 \in 0 .. (L + 1) /\ k # p /\ k + 1 # p
      BY <1>1, <2>0, <2>1
    <3>2. b(k) = a(k) /\ b(k + 1) = a(k + 1)
      BY <1>3, <2>0, <3>1
    <3>3. a(k) # a(p - 1) /\ a(k) # x /\ a(k + 1) # x
      BY <1>1, <1>2, <2>0, <3>1
    <3>4. a(k + 1) # a(p + 1)
      <4>1. \/ p + 1 \in 0 .. L /\ k + 1 # p + 1
            \/ p + 1 = L + 1 /\ k + 1 # 0 /\ 0 \in 0 .. L
        BY <1>1, <2>0, <2>1
      <4>. QED
        BY <1>1, <1>2, <2>0, <4>1
    <3>5. /\ a(k) \in N /\ a(k + 1) \in N
          /\ h.next[a(k)] = a(k + 1) /\ h.prev[a(k + 1)] = a(k)
      BY ONLY <1>1, <1>2, <2>0, <3>1
    <3>. QED
      BY ONLY <1>8, <3>2, <3>3, <3>4, <3>5
  <2>2. CASE k = p - 1
    <3>1. k < p /\ k + 1 = p /\ ~(k + 1 < p) /\ (k + 1) + 1 = p + 1
      BY <1>1, <2>0, <2>2
    <3>2. b(k) = a(p - 1) /\ b(k + 1) = a(p + 1)
      BY <1>3, <2>0, <2>2, <3>1
    <3>. QED
      BY <1>7, <1>8, <3>2
  <2>3. CASE k >= p
    <3>1. /\ ~(k < p) /\ ~(k + 1 < p)
          /\ k + 1 # p /\ k + 1 # p - 1 /\ p - 1 \in 0 .. L /\ p \in 0 .. L
          /\ k + 1 \in 0 .. (L + 1) /\ (k + 1) + 1 \in 0 .. (L + 1)
      BY <1>1, <2>0, <2>3
    <3>2. b(k) = a(k + 1) /\ b(k + 1) = a((k + 1) + 1)
      BY <1>3, <2>0, <3>1
    <3>3. a(k + 1) # a(p - 1) /\ a(k + 1) # x
      BY <1>1, <1>2, <2>0, <3>1
    <3>4. a((k + 1) + 1) # x /\ a((k + 1) + 1) # a(p + 1)
      <4>1. /\ p + 1 \in 0 .. L /\ 0 \in 0 .. L /\ p + 1 # 0 /\ p # 0
            /\ \/ (k + 1) + 1 \in 0 .. L /\ (k + 1) + 1 # p + 1 /\ (k + 1) + 1 # p
               \/ (k + 1) + 1 = L + 1
        BY <1>1, <2>0, <2>3
      <4>. DEFINE m == (k + 1) + 1
      <4>2. CASE m \in 0 .. L /\ m # p + 1 /\ m # p
        BY <1>1, <1>2, <3>1, <4>1, <4>2
      <4>3. CASE m = L + 1
        <5>1. a(m) = a(0)
          BY <1>1, <4>3
        <5>. HIDE DEF m
        <5>. QED
          BY <1>1, <1>2, <3>1, <4>1, <5>1 DEF m
      <4>. QED
        BY <4>1, <4>2, <4>3
    <3>. QED
      BY <1>1, <1>2, <1>8, <2>0, <3>1, <3>2, <3>3, <3>4
  <2>. QED
    BY <1>1, <2>0, <2>1, <2>2, <2>3
<1>13. IsRing(f, N, head, Removed(s, p))
  BY <1>3, <1>11, <1>12 DEF IsRing, b
<1>14. ASSUME NEW y \in N, \A k \in 0 .. L : a(k) # y
       PROVE  f.next[y] = h.next[y] /\ f.prev[y] = h.prev[y]
  <2>1. a(p - 1) # y /\ a(p + 1) # y /\ x # y
    <3>1. /\ p - 1 \in 0 .. L /\ p \in 0 .. L
          /\ p + 1 \in 0 .. L \/ (p + 1 = L + 1 /\ 0 \in 0 .. L)
      BY <1>1
    <3>. QED
      BY <1>1, <1>14, <3>1
  <2>. QED
    BY <1>8, <1>14, <2>1
<1>15. \A k \in 0 .. (L - 1) : b(k) # x
  BY <1>10
<1>. QED
  BY <1>7, <1>9, <1>13, <1>14, <1>15 DEF a, b, L

\* A ring whose links are untouched stays.
LEMMA RingStays ==
  ASSUME NEW h, NEW N, NEW head, NEW s, IsRing(h, N, head, s), NEW f,
         \A k \in 0 .. Len(s) : /\ f.next[RingAt(s, head, k)] = h.next[RingAt(s, head, k)]
                                /\ f.prev[RingAt(s, head, k)] = h.prev[RingAt(s, head, k)]
  PROVE  IsRing(f, N, head, s)
<1>1. s \in Seq(N)
  BY DEF IsRing
<1>2. /\ Len(s) \in Nat
      /\ RingAt(s, head, 0) = head /\ RingAt(s, head, Len(s) + 1) = head
  BY <1>1, RingPlaces
<1>3. ASSUME NEW k \in 0 .. Len(s)
      PROVE  /\ f.next[RingAt(s, head, k)] = RingAt(s, head, k + 1)
             /\ f.prev[RingAt(s, head, k + 1)] = RingAt(s, head, k)
  <2>1. /\ h.next[RingAt(s, head, k)] = RingAt(s, head, k + 1)
        /\ h.prev[RingAt(s, head, k + 1)] = RingAt(s, head, k)
    BY DEF IsRing
  <2>2. k + 1 \in 0 .. Len(s) \/ (k + 1 = Len(s) + 1 /\ 0 \in 0 .. Len(s))
    BY <1>2
  <2>. QED
    BY <1>2, <2>1, <2>2
<1>. QED
  BY <1>1, <1>3 DEF IsRing

\* The heap with both pointers of x set.
SetBoth(h, x, u, v) == Heap([h.next EXCEPT ![x] = u], [h.prev EXCEPT ![x] = v])

LEMMA SetBothIs ==
  ASSUME NEW h, NEW N, IsHeap(h, N), NEW x \in N, NEW u \in Links(N), NEW v \in Links(N),
         NEW f, f = SetBoth(h, x, u, v)
  PROVE  /\ IsHeap(f, N)
         /\ f.next[x] = u /\ f.prev[x] = v
         /\ \A y \in N \ {x} : f.next[y] = h.next[y] /\ f.prev[y] = h.prev[y]
<1>1. h.next \in [N -> Links(N)] /\ h.prev \in [N -> Links(N)]
  BY DEF IsHeap
<1>2. /\ f = Heap(f.next, f.prev)
      /\ f.next = [h.next EXCEPT ![x] = u]
      /\ f.prev = [h.prev EXCEPT ![x] = v]
  BY DEF SetBoth, Heap
<1>. QED
  BY <1>1, <1>2 DEF IsHeap

\* list_del_init takes the entry out and leaves it pointing to itself.
LEMMA DelInit ==
  ASSUME NEW h, NEW N, NEW head \in N, NEW s, IsHeap(h, N), IsRing(h, N, head, s),
         NEW p \in 1 .. Len(s), NEW x, x = RingAt(s, head, p),
         NEW f, f = list_del_init(h, x)
  PROVE  /\ IsHeap(f, N)
         /\ IsRing(f, N, head, Removed(s, p))
         /\ x \in N /\ f.next[x] = x /\ f.prev[x] = x
         /\ \A k \in 0 .. (Len(s) - 1) : RingAt(Removed(s, p), head, k) # x
         /\ \A y \in N : (\A k \in 0 .. Len(s) : RingAt(s, head, k) # y) =>
              f.next[y] = h.next[y] /\ f.prev[y] = h.prev[y]
<1>1. PICK g : g = list_del_entry(h, x)
  OBVIOUS
<1>2. /\ IsHeap(g, N)
      /\ IsRing(g, N, head, Removed(s, p))
      /\ x \in N
      /\ \A k \in 0 .. (Len(s) - 1) : RingAt(Removed(s, p), head, k) # x
      /\ \A y \in N : (\A k \in 0 .. Len(s) : RingAt(s, head, k) # y) =>
           g.next[y] = h.next[y] /\ g.prev[y] = h.prev[y]
  BY <1>1, DelEntry
<1>3. f = SetBoth(g, x, x, x) /\ x \in Links(N)
  BY <1>1, <1>2 DEF list_del_init, INIT_LIST_HEAD, SetBoth, Links
<1>4. /\ IsHeap(f, N)
      /\ f.next[x] = x /\ f.prev[x] = x
      /\ \A y \in N \ {x} : f.next[y] = g.next[y] /\ f.prev[y] = g.prev[y]
  BY <1>2, <1>3, SetBothIs
<1>5. IsRing(f, N, head, Removed(s, p))
  <2>1. s \in Seq(N)
    BY DEF IsRing
  <2>2. /\ Removed(s, p) \in Seq(N) /\ Len(Removed(s, p)) = Len(s) - 1
    BY <2>1, RemovedIs
  <2>3. \A k \in 0 .. Len(Removed(s, p)) : RingAt(Removed(s, p), head, k) \in N \ {x}
    <3>1. \A k \in 0 .. Len(Removed(s, p)) : RingAt(Removed(s, p), head, k) \in N
      BY <2>2 DEF RingAt
    <3>. QED
      BY <1>2, <2>2, <3>1
  <2>4. \A k \in 0 .. Len(Removed(s, p)) :
          /\ f.next[RingAt(Removed(s, p), head, k)] = g.next[RingAt(Removed(s, p), head, k)]
          /\ f.prev[RingAt(Removed(s, p), head, k)] = g.prev[RingAt(Removed(s, p), head, k)]
    BY <1>4, <2>3
  <2>. QED
    BY ONLY <1>2, <2>4, RingStays
<1>6. \A k \in 0 .. Len(s) : RingAt(s, head, k) \in N
  BY DEF IsRing, RingAt
<1>7. ASSUME NEW y \in N, \A k \in 0 .. Len(s) : RingAt(s, head, k) # y
      PROVE  f.next[y] = h.next[y] /\ f.prev[y] = h.prev[y]
  <2>1. p \in 0 .. Len(s)
    BY DEF IsRing
  <2>2. y # x
    BY <1>7, <2>1
  <2>. QED
    BY <1>2, <1>4, <1>7, <2>2
<1>. QED
  BY <1>2, <1>4, <1>5, <1>7

\* An entry that points to itself is deleted again to no effect.
LEMMA DelInitAgain ==
  ASSUME NEW h, NEW N, IsHeap(h, N), NEW x \in N, h.next[x] = x, h.prev[x] = x
  PROVE  list_del_init(h, x) = h
<1>1. h.next \in [N -> Links(N)] /\ h.prev \in [N -> Links(N)]
  BY DEF IsHeap
<1>2. /\ [h.next EXCEPT ![x] = x] = h.next
      /\ [h.prev EXCEPT ![x] = x] = h.prev
  BY <1>1
<1>. QED
  BY <1>2 DEF list_del_init, list_del_entry, list_del_between, INIT_LIST_HEAD,
              Heap, IsHeap

\* A head that is initialised has the ring of no entries.
LEMMA InitHead ==
  ASSUME NEW h, NEW N, NEW head \in N, IsHeap(h, N)
  PROVE  LET f == INIT_LIST_HEAD(h, head)
         IN  /\ IsHeap(f, N)
             /\ IsRing(f, N, head, <<>>)
             /\ \A y \in N \ {head} : f.next[y] = h.next[y] /\ f.prev[y] = h.prev[y]
<1>. DEFINE f == INIT_LIST_HEAD(h, head)
<1>1. h.next \in [N -> Links(N)] /\ h.prev \in [N -> Links(N)]
  BY DEF IsHeap
<1>2. /\ f = Heap(f.next, f.prev)
      /\ f.next = [h.next EXCEPT ![head] = head]
      /\ f.prev = [h.prev EXCEPT ![head] = head]
  BY DEF INIT_LIST_HEAD, Heap
<1>. HIDE DEF f
<1>3. IsHeap(f, N)
  BY <1>1, <1>2 DEF IsHeap, Links
<1>4. f.next[head] = head /\ f.prev[head] = head
  BY <1>1, <1>2
<1>5. IsRing(f, N, head, <<>>)
  <2>1. <<>> \in Seq(N) /\ Len(<<>>) = 0
    OBVIOUS
  <2>2. \A k : RingAt(<<>>, head, k) = head
    BY <2>1 DEF RingAt
  <2>3. \A k \in 0 .. 0 : k = 0
    OBVIOUS
  <2>. QED
    BY <1>4, <2>1, <2>2, <2>3 DEF IsRing
<1>. QED
  BY <1>1, <1>2, <1>3, <1>5 DEF f

\* The sequence q between the places p - 1 and p.
Spliced(s, p, q) ==
  [k \in 1 .. (Len(s) + Len(q)) |->
     IF k < p THEN s[k]
     ELSE IF k < p + Len(q) THEN q[k - p + 1] ELSE s[k - Len(q)]]

LEMMA SplicedIs ==
  ASSUME NEW s, NEW q, NEW N, s \in Seq(N), q \in Seq(N), NEW p \in 1 .. (Len(s) + 1)
  PROVE  /\ Spliced(s, p, q) \in Seq(N)
         /\ Len(Spliced(s, p, q)) = Len(s) + Len(q)
         /\ \A k \in 1 .. (Len(s) + Len(q)) :
              Spliced(s, p, q)[k] =
                IF k < p THEN s[k]
                ELSE IF k < p + Len(q) THEN q[k - p + 1] ELSE s[k - Len(q)]
         /\ \A head : \A k \in 0 .. (Len(s) + Len(q) + 1) :
              RingAt(Spliced(s, p, q), head, k) =
                IF k < p THEN RingAt(s, head, k)
                ELSE IF k < p + Len(q) THEN q[k - p + 1]
                ELSE RingAt(s, head, k - Len(q))
<1>. DEFINE L == Len(s)
            M == Len(q)
            f == Spliced(s, p, q)
            e(k) == IF k < p THEN s[k]
                    ELSE IF k < p + M THEN q[k - p + 1] ELSE s[k - M]
<1>1. /\ L \in Nat /\ M \in Nat /\ L + M \in Nat /\ p \in Nat /\ p \in 1 .. (L + 1)
      /\ \A k \in 1 .. L : s[k] \in N
      /\ \A k \in 1 .. M : q[k] \in N
  OBVIOUS
<1>2. f = [k \in 1 .. (L + M) |-> e(k)]
  BY DEF Spliced
<1>. HIDE DEF L, M, f
<1>3. \A k \in 1 .. (L + M) : e(k) \in N
  <2>1. \A k \in 1 .. (L + M) :
          /\ k < p => k \in 1 .. L
          /\ ~(k < p) /\ k < p + M => k - p + 1 \in 1 .. M
          /\ ~(k < p) /\ ~(k < p + M) => k - M \in 1 .. L
    BY <1>1
  <2>. QED
    BY <1>1, <2>1
<1>. HIDE DEF e
<1>4. f \in [1 .. (L + M) -> N] /\ \A k \in 1 .. (L + M) : f[k] = e(k)
  BY <1>2, <1>3
<1>5. f \in Seq(N) /\ Len(f) = L + M
  BY <1>1, <1>4
<1>6. ASSUME NEW head, NEW k \in 0 .. (L + M + 1)
      PROVE  RingAt(f, head, k) = IF k < p THEN RingAt(s, head, k)
                                  ELSE IF k < p + M THEN q[k - p + 1]
                                  ELSE RingAt(s, head, k - M)
  <2>1. /\ k \in Int
        /\ k \in 1 .. (L + M) <=> k \in 1 .. Len(f)
        /\ k \in 1 .. (L + M) => f[k] = e(k)
    BY <1>1, <1>4, <1>5
  <2>2. CASE k < p
    <3>1. k \in 1 .. (L + M) <=> k \in 1 .. L
      BY <1>1, <2>1, <2>2
    <3>. QED
      BY <2>1, <2>2, <3>1 DEF RingAt, L, e
  <2>3. CASE ~(k < p) /\ k < p + M
    <3>1. k \in 1 .. (L + M)
      BY <1>1, <2>1, <2>3
    <3>. QED
      BY <2>1, <2>3, <3>1 DEF RingAt, e
  <2>4. CASE ~(k < p) /\ ~(k < p + M)
    <3>1. k \in 1 .. (L + M) <=> k - M \in 1 .. L
      BY <1>1, <2>1, <2>4
    <3>. QED
      BY <2>1, <2>4, <3>1 DEF RingAt, L, e
  <2>. QED
    BY <2>2, <2>3, <2>4
<1>. QED
  BY <1>4, <1>5, <1>6 DEF f, e, L, M

\* What AddBetween, SpliceBetween and the others need to know of a ring.
LEMMA RingFacts ==
  ASSUME NEW h, NEW N, NEW head \in N, NEW s, IsHeap(h, N), IsRing(h, N, head, s)
  PROVE  /\ s \in Seq(N) /\ Len(s) \in Nat
         /\ RingAt(s, head, 0) = head /\ RingAt(s, head, Len(s) + 1) = head
         /\ \A k \in 0 .. (Len(s) + 1) : RingAt(s, head, k) \in N
         /\ \A k \in 1 .. Len(s) : RingAt(s, head, k) = s[k]
         /\ \A i, j \in 0 .. Len(s) : RingAt(s, head, i) = RingAt(s, head, j) => i = j
         /\ \A k \in 0 .. Len(s) :
              /\ h.next[RingAt(s, head, k)] = RingAt(s, head, k + 1)
              /\ h.prev[RingAt(s, head, k + 1)] = RingAt(s, head, k)
         /\ h.next \in [N -> Links(N)] /\ h.prev \in [N -> Links(N)]
<1>1. s \in Seq(N)
  BY DEF IsRing
<1>2. \A k \in 0 .. (Len(s) + 1) : RingAt(s, head, k) \in N
  BY <1>1 DEF RingAt
<1>. QED
  BY <1>1, <1>2, RingPlaces DEF IsRing, IsHeap

\* Two rings have no place in common.
RingsApart(s, head, q, l) ==
  \A i \in 0 .. Len(s), j \in 0 .. Len(q) : RingAt(s, head, i) # RingAt(q, l, j)

\* __list_splice puts the entries of one list between two places of another;
\* the head they were on keeps its pointers.
LEMMA SpliceBetween ==
  ASSUME NEW h, NEW N, IsHeap(h, N),
         NEW head \in N, NEW s, IsRing(h, N, head, s), NEW p \in 1 .. (Len(s) + 1),
         NEW l \in N, NEW q, IsRing(h, N, l, q), Len(q) # 0,
         RingsApart(s, head, q, l),
         NEW f, f = list_splice_between(h, l, RingAt(s, head, p - 1), RingAt(s, head, p))
  PROVE  /\ IsHeap(f, N)
         /\ IsRing(f, N, head, Spliced(s, p, q))
         /\ \A y \in N : /\ \A k \in 0 .. Len(s) : RingAt(s, head, k) # y
                         /\ \A k \in 1 .. Len(q) : q[k] # y
                         => f.next[y] = h.next[y] /\ f.prev[y] = h.prev[y]
<1>. DEFINE L == Len(s)
            M == Len(q)
            a(k) == RingAt(s, head, k)
            c(k) == RingAt(q, l, k)
            b(k) == RingAt(Spliced(s, p, q), head, k)
<1>1. /\ s \in Seq(N) /\ L \in Nat /\ p \in Nat /\ p \in 1 .. (L + 1)
      /\ a(0) = head /\ a(L + 1) = head
      /\ \A k \in 0 .. (L + 1) : a(k) \in N
      /\ \A i, j \in 0 .. L : a(i) = a(j) => i = j
      /\ \A k \in 0 .. L : h.next[a(k)] = a(k + 1) /\ h.prev[a(k + 1)] = a(k)
  BY RingFacts
<1>2. /\ q \in Seq(N) /\ M \in Nat /\ M >= 1
      /\ c(0) = l /\ c(M + 1) = l
      /\ \A k \in 0 .. (M + 1) : c(k) \in N
      /\ \A k \in 1 .. M : c(k) = q[k]
      /\ \A i, j \in 0 .. M : c(i) = c(j) => i = j
      /\ \A k \in 0 .. M : h.next[c(k)] = c(k + 1) /\ h.prev[c(k + 1)] = c(k)
  <2>1. /\ q \in Seq(N) /\ Len(q) \in Nat
        /\ RingAt(q, l, 0) = l /\ RingAt(q, l, Len(q) + 1) = l
        /\ \A k \in 0 .. (Len(q) + 1) : RingAt(q, l, k) \in N
        /\ \A k \in 1 .. Len(q) : RingAt(q, l, k) = q[k]
        /\ \A i, j \in 0 .. Len(q) : RingAt(q, l, i) = RingAt(q, l, j) => i = j
        /\ \A k \in 0 .. Len(q) :
             /\ h.next[RingAt(q, l, k)] = RingAt(q, l, k + 1)
             /\ h.prev[RingAt(q, l, k + 1)] = RingAt(q, l, k)
    BY RingFacts
  <2>2. Len(q) >= 1
    BY <2>1
  <2>. QED
    BY <2>1, <2>2
<1>3. \A i \in 0 .. L, j \in 0 .. M : a(i) # c(j)
  BY DEF RingsApart
<1>4. /\ Spliced(s, p, q) \in Seq(N) /\ Len(Spliced(s, p, q)) = L + M
      /\ \A k \in 0 .. (L + M + 1) :
           b(k) = IF k < p THEN a(k)
                  ELSE IF k < p + M THEN q[k - p + 1] ELSE a(k - M)
  <2>1. s \in Seq(N) /\ q \in Seq(N)
    BY <1>1, <1>2
  <2>2. /\ Spliced(s, p, q) \in Seq(N) /\ Len(Spliced(s, p, q)) = Len(s) + Len(q)
        /\ \A k \in 0 .. (Len(s) + Len(q) + 1) :
             RingAt(Spliced(s, p, q), head, k) =
               IF k < p THEN RingAt(s, head, k)
               ELSE IF k < p + Len(q) THEN q[k - p + 1]
               ELSE RingAt(s, head, k - Len(q))
    BY ONLY <2>1, p \in 1 .. (Len(s) + 1), SplicedIs
  <2>. QED
    BY <2>2
<1>5. h.next[l] = c(1) /\ h.prev[l] = c(M)
  <2>1. 0 \in 0 .. M /\ M \in 0 .. M
    BY <1>2
  <2>. HIDE DEF c, M
  <2>. QED
    BY <1>2, <2>1
<1>6. /\ f = Heap(f.next, f.prev)
      /\ f.next = [[h.next EXCEPT ![a(p - 1)] = c(1)] EXCEPT ![c(M)] = a(p)]
      /\ f.prev = [[h.prev EXCEPT ![c(1)] = a(p - 1)] EXCEPT ![a(p)] = c(M)]
  <2>. HIDE DEF c, M
  <2>. QED
    BY <1>5 DEF list_splice_between, SetNext, SetPrev, Heap
<1>. HIDE DEF a, b, c, L, M
<1>7. h.next \in [N -> Links(N)] /\ h.prev \in [N -> Links(N)]
  BY DEF IsHeap
<1>8. /\ p - 1 \in 0 .. L /\ p - 1 \in 0 .. (L + 1) /\ p \in 0 .. (L + 1)
      /\ 1 \in 0 .. M /\ M \in 0 .. M /\ 1 \in 0 .. (M + 1) /\ M \in 0 .. (M + 1)
      /\ p \in 0 .. L \/ (p = L + 1 /\ a(p) = a(0) /\ 0 \in 0 .. L)
      /\ 1 \in 1 .. M /\ M \in 1 .. M
  BY <1>1, <1>2
<1>9. /\ a(p - 1) \in N /\ a(p) \in N /\ c(1) \in N /\ c(M) \in N
      /\ a(p - 1) # c(M) /\ a(p) # c(1)
  BY <1>1, <1>2, <1>3, <1>8
<1>10. /\ f.next \in [N -> Links(N)] /\ f.prev \in [N -> Links(N)]
       /\ \A y \in N : /\ f.next[y] = IF y = c(M) THEN a(p)
                                      ELSE IF y = a(p - 1) THEN c(1) ELSE h.next[y]
                       /\ f.prev[y] = IF y = a(p) THEN c(M)
                                      ELSE IF y = c(1) THEN a(p - 1) ELSE h.prev[y]
  <2>1. \A y \in N : y \in Links(N)
    BY DEF Links
  <2>2. a(p - 1) \in Links(N) /\ a(p) \in Links(N) /\ c(1) \in Links(N) /\ c(M) \in Links(N)
    BY <1>9, <2>1
  <2>. QED
    BY <1>6, <1>7, <1>9, <2>2
<1>11. IsHeap(f, N)
  BY <1>6, <1>10 DEF IsHeap
<1>12. \A i, j \in 0 .. (L + M) : b(i) = b(j) => i = j
  <2>. SUFFICES ASSUME NEW i \in 0 .. (L + M), NEW j \in 0 .. (L + M), b(i) = b(j)
                PROVE  i = j
    OBVIOUS
  <2>. DEFINE In(k) == ~(k < p) /\ k < p + M
              u(k) == IF k < p THEN k ELSE k - M
              v(k) == k - p + 1
  <2>1. \A k \in 0 .. (L + M) :
          /\ k \in 0 .. (L + M + 1) /\ k \in Int
          /\ In(k) => v(k) \in 1 .. M /\ v(k) \in 0 .. M
          /\ ~In(k) => u(k) \in 0 .. L
    BY <1>1, <1>2
  <2>2. \A k \in 0 .. (L + M) : /\ In(k) => b(k) = c(v(k))
                                /\ ~In(k) => b(k) = a(u(k))
    BY <1>2, <1>4, <2>1
  <2>3. CASE In(i) /\ In(j)
    <3>1. v(i) = v(j)
      <4>. HIDE DEF v, In
      <4>. QED
        BY <1>2, <2>1, <2>2, <2>3
    <3>. QED
      BY <1>1, <2>1, <3>1
  <2>4. CASE ~In(i) /\ ~In(j)
    <3>1. u(i) = u(j)
      <4>. HIDE DEF u, In
      <4>. QED
        BY <1>1, <2>1, <2>2, <2>4
    <3>. QED
      BY <1>1, <1>2, <2>1, <2>4, <3>1
  <2>5. In(i) <=> In(j)
    <3>. HIDE DEF u, v, In
    <3>. QED
      BY <1>3, <2>1, <2>2
  <2>. QED
    BY <2>3, <2>4, <2>5
<1>13. ASSUME NEW k \in 0 .. (L + M)
       PROVE  f.next[b(k)] = b(k + 1) /\ f.prev[b(k + 1)] = b(k)
  <2>0. k \in 0 .. (L + M + 1) /\ k + 1 \in 0 .. (L + M + 1) /\ k \in Int
    BY <1>1, <1>2
  <2>1. CASE k < p - 1
    <3>1. /\ k \in 0 .. L /\ k + 1 \in 0 .. L /\ k # p - 1 /\ k + 1 # p
          /\ k < p /\ k + 1 < p /\ k \in 0 .. (L + 1) /\ k + 1 \in 0 .. (L + 1)
      BY <1>1, <2>0, <2>1
    <3>2. b(k) = a(k) /\ b(k + 1) = a(k + 1)
      BY <1>4, <2>0, <3>1
    <3>3. a(k) # a(p - 1) /\ a(k) # c(M) /\ a(k + 1) # c(1)
      BY <1>1, <1>3, <1>8, <3>1
    <3>4. a(k + 1) # a(p)
      <4>1. k + 1 # 0
        BY <2>0, <3>1
      <4>. QED
        BY <1>1, <1>8, <3>1, <4>1
    <3>5. /\ a(k) \in N /\ a(k + 1) \in N
          /\ h.next[a(k)] = a(k + 1) /\ h.prev[a(k + 1)] = a(k)
      BY ONLY <1>1, <3>1
    <3>. QED
      BY ONLY <1>10, <3>2, <3>3, <3>4, <3>5
  <2>2. CASE k = p - 1
    <3>1. k < p /\ ~(k + 1 < p) /\ k + 1 < p + M /\ (k + 1) - p + 1 = 1
      BY <1>1, <1>2, <2>0, <2>2
    <3>2. b(k) = a(p - 1) /\ b(k + 1) = c(1)
      BY <1>2, <1>4, <1>8, <2>0, <2>2, <3>1
    <3>. QED
      BY <1>9, <1>10, <3>2
  <2>3. CASE k >= p /\ k < p + M - 1
    <3>. DEFINE i == k - p + 1
    <3>1. /\ ~(k < p) /\ k < p + M /\ ~(k + 1 < p) /\ k + 1 < p + M
          /\ i \in 1 .. M /\ i + 1 \in 1 .. M /\ i \in 0 .. M /\ i + 1 \in 0 .. M
          /\ i # M /\ i + 1 # 1 /\ (k + 1) - p + 1 = i + 1
          /\ i \in 0 .. (M + 1) /\ i + 1 \in 0 .. (M + 1)
      BY <1>1, <1>2, <2>0, <2>3
    <3>. HIDE DEF i
    <3>2. b(k) = c(i) /\ b(k + 1) = c(i + 1)
      BY <1>2, <1>4, <2>0, <3>1 DEF i
    <3>3. c(i) # c(M) /\ c(i + 1) # c(1)
      BY <1>2, <1>8, <3>1
    <3>4. c(i) # a(p - 1) /\ c(i + 1) # a(p)
      BY <1>1, <1>3, <1>8, <3>1
    <3>5. c(i) \in N /\ c(i + 1) \in N
      BY <1>2, <3>1
    <3>6. h.next[c(i)] = c(i + 1) /\ h.prev[c(i + 1)] = c(i)
      BY <1>2, <3>1
    <3>. QED
      BY <1>10, <3>2, <3>3, <3>4, <3>5, <3>6
  <2>4. CASE k = p + M - 1
    <3>1. /\ ~(k < p) /\ k < p + M /\ ~(k + 1 < p) /\ ~(k + 1 < p + M)
          /\ k - p + 1 = M /\ (k + 1) - M = p
      <4>1. p \in Int /\ M \in Int /\ M >= 1 /\ k \in Int
        BY <1>1, <1>2, <2>0
      <4>. HIDE DEF M, L
      <4>. QED
        BY ONLY <2>4, <4>1
    <3>2. b(k) = c(M) /\ b(k + 1) = a(p)
      <4>1. b(k) = q[k - p + 1] /\ b(k + 1) = a((k + 1) - M)
        BY ONLY <1>4, <2>0, <3>1
      <4>2. q[M] = c(M)
        BY ONLY <1>2, <1>8
      <4>. QED
        BY ONLY <3>1, <4>1, <4>2
    <3>. QED
      BY <1>9, <1>10, <3>2
  <2>5. CASE k >= p + M
    <3>. DEFINE i == k - M
    <3>1. /\ ~(k < p) /\ ~(k < p + M) /\ ~(k + 1 < p) /\ ~(k + 1 < p + M)
          /\ i \in 0 .. L /\ i # p - 1 /\ i \in 0 .. (L + 1) /\ i + 1 \in 0 .. (L + 1)
          /\ (k + 1) - M = i + 1 /\ p \in 0 .. L /\ p # 0 /\ 0 \in 0 .. L
          /\ (i + 1 \in 0 .. L /\ i + 1 # p) \/ i + 1 = L + 1
      BY <1>1, <1>2, <2>0, <2>5
    <3>. HIDE DEF i
    <3>2. b(k) = a(i) /\ b(k + 1) = a(i + 1)
      BY <1>4, <2>0, <3>1 DEF i
    <3>3. a(i) # a(p - 1) /\ a(i) # c(M) /\ a(i + 1) # c(1) /\ a(i + 1) # a(p)
      <4>1. CASE i + 1 \in 0 .. L /\ i + 1 # p
        BY <1>1, <1>3, <1>8, <3>1, <4>1
      <4>2. CASE i + 1 = L + 1
        <5>1. a(i + 1) = a(0)
          BY <1>1, <4>2
        <5>. QED
          BY <1>1, <1>3, <1>8, <3>1, <5>1
      <4>. QED
        BY <3>1, <4>1, <4>2
    <3>4. /\ a(i) \in N /\ a(i + 1) \in N
          /\ h.next[a(i)] = a(i + 1) /\ h.prev[a(i + 1)] = a(i)
      BY <1>1, <3>1
    <3>. QED
      BY <1>10, <3>2, <3>3, <3>4
  <2>6. p \in Int /\ M \in Int /\ M >= 1
    BY <1>1, <1>2
  <2>. QED
    BY <2>0, <2>1, <2>2, <2>3, <2>4, <2>5, <2>6
<1>14. IsRing(f, N, head, Spliced(s, p, q))
  BY <1>4, <1>12, <1>13 DEF IsRing, b
<1>15. ASSUME NEW y \in N, \A k \in 0 .. L : a(k) # y, \A k \in 1 .. M : q[k] # y
       PROVE  f.next[y] = h.next[y] /\ f.prev[y] = h.prev[y]
  <2>1. a(p - 1) # y /\ a(p) # y
    BY <1>8, <1>15
  <2>2. c(1) # y /\ c(M) # y
    BY <1>2, <1>8, <1>15
  <2>. QED
    BY <1>10, <1>15, <2>1, <2>2
<1>. QED
  BY <1>11, <1>14, <1>15 DEF a, L, M

\* The first p entries, and the others.
Upto(s, p)  == SubSeq(s, 1, p)
After(s, p) == SubSeq(s, p + 1, Len(s))

LEMMA PartsAre ==
  ASSUME NEW s, NEW N, s \in Seq(N), NEW p \in 0 .. Len(s)
  PROVE  /\ Upto(s, p) \in Seq(N) /\ Len(Upto(s, p)) = p
         /\ \A k \in 1 .. p : Upto(s, p)[k] = s[k]
         /\ After(s, p) \in Seq(N) /\ Len(After(s, p)) = Len(s) - p
         /\ \A k \in 1 .. (Len(s) - p) : After(s, p)[k] = s[k + p]
<1>1. Len(s) \in Nat /\ p \in Int /\ \A k \in 1 .. Len(s) : s[k] \in N
  OBVIOUS
<1>2. \A i \in 1 .. p : s[i] \in N
  BY <1>1
<1>3. /\ SubSeq(s, 1, p) \in Seq(N)
      /\ Len(SubSeq(s, 1, p)) = IF 1 <= p THEN p - 1 + 1 ELSE 0
      /\ \A i \in 1 .. (p - 1 + 1) : SubSeq(s, 1, p)[i] = s[1 + i - 1]
  BY <1>1, <1>2, SubSeqProperties
<1>4. p + 1 \in Int /\ Len(s) \in Int /\ \A i \in (p + 1) .. Len(s) : s[i] \in N
  BY <1>1
<1>5. /\ SubSeq(s, p + 1, Len(s)) \in Seq(N)
      /\ Len(SubSeq(s, p + 1, Len(s))) = IF p + 1 <= Len(s) THEN Len(s) - (p + 1) + 1 ELSE 0
      /\ \A i \in 1 .. (Len(s) - (p + 1) + 1) : SubSeq(s, p + 1, Len(s))[i] = s[(p + 1) + i - 1]
  BY ONLY <1>4, SubSeqProperties
<1>6. p \in 0 .. Len(s)
  OBVIOUS
<1>7. /\ Upto(s, p) \in Seq(N) /\ Len(Upto(s, p)) = p
      /\ \A k \in 1 .. p : Upto(s, p)[k] = s[k]
  BY <1>1, <1>3, <1>6 DEF Upto
<1>8. /\ After(s, p) \in Seq(N) /\ Len(After(s, p)) = Len(s) - p
      /\ \A k \in 1 .. (Len(s) - p) : After(s, p)[k] = s[k + p]
  <2>1. \A k \in 1 .. (Len(s) - p) : k \in 1 .. (Len(s) - (p + 1) + 1) /\ (p + 1) + k - 1 = k + p
    BY <1>1
  <2>2. Len(After(s, p)) = Len(s) - p
    BY <1>1, <1>5, <1>6 DEF After
  <2>. QED
    BY <1>5, <2>1, <2>2 DEF After
<1>. QED
  BY <1>7, <1>8

\* __list_cut_position gives the entries up to one of them to another head.
LEMMA CutBetween ==
  ASSUME NEW h, NEW N, IsHeap(h, N),
         NEW head \in N, NEW s, IsRing(h, N, head, s), NEW p \in 1 .. Len(s),
         NEW l \in N, \A k \in 0 .. Len(s) : RingAt(s, head, k) # l,
         NEW f, f = list_cut_between(h, l, head, s[p])
  PROVE  /\ IsHeap(f, N)
         /\ IsRing(f, N, l, Upto(s, p))
         /\ IsRing(f, N, head, After(s, p))
         /\ \A y \in N : (\A k \in 0 .. Len(s) : RingAt(s, head, k) # y) /\ y # l =>
              f.next[y] = h.next[y] /\ f.prev[y] = h.prev[y]
<1>. DEFINE L == Len(s)
            a(k) == RingAt(s, head, k)
            b(k) == RingAt(Upto(s, p), l, k)
            c(k) == RingAt(After(s, p), head, k)
<1>1. /\ s \in Seq(N) /\ L \in Nat /\ p \in Nat /\ p \in 1 .. L
      /\ a(0) = head /\ a(L + 1) = head
      /\ \A k \in 0 .. (L + 1) : a(k) \in N
      /\ \A i, j \in 0 .. L : a(i) = a(j) => i = j
      /\ \A k \in 0 .. L : h.next[a(k)] = a(k + 1) /\ h.prev[a(k + 1)] = a(k)
      /\ a(p) = s[p]
      /\ \A k \in 1 .. L : a(k) = s[k]
  BY RingFacts
<1>2. /\ Upto(s, p) \in Seq(N) /\ Len(Upto(s, p)) = p
      /\ After(s, p) \in Seq(N) /\ Len(After(s, p)) = L - p
      /\ \A k \in 1 .. p : Upto(s, p)[k] = s[k]
      /\ \A k \in 1 .. (L - p) : After(s, p)[k] = s[k + p]
  <2>1. p \in 0 .. Len(s)
    BY <1>1
  <2>. QED
    BY <1>1, <2>1, PartsAre
<1>3. b(0) = l /\ b(p + 1) = l /\ \A k \in 1 .. p : b(k) = a(k)
  <2>1. b(0) = l /\ b(p + 1) = l /\ \A k \in 1 .. p : b(k) = s[k]
    <3>1. \A k \in 1 .. p : b(k) = Upto(s, p)[k]
      BY <1>2 DEF RingAt
    <3>2. ~(0 \in 1 .. p) /\ ~(p + 1 \in 1 .. p)
      BY <1>1
    <3>. QED
      BY <1>2, <3>1, <3>2 DEF RingAt
  <2>2. \A k \in 1 .. p : k \in 1 .. L
    BY <1>1
  <2>. HIDE DEF a, b, L
  <2>. QED
    BY <1>1, <2>1, <2>2
<1>4. c(0) = head /\ c(L - p + 1) = head /\ \A k \in 1 .. (L - p) : c(k) = a(k + p)
  <2>1. c(0) = head /\ c(L - p + 1) = head /\ \A k \in 1 .. (L - p) : c(k) = s[k + p]
    <3>1. \A k \in 1 .. (L - p) : c(k) = After(s, p)[k]
      BY <1>2 DEF RingAt
    <3>2. ~(0 \in 1 .. (L - p)) /\ ~(L - p + 1 \in 1 .. (L - p))
      BY <1>1
    <3>. QED
      BY <1>2, <3>1, <3>2 DEF RingAt
  <2>2. \A k \in 1 .. (L - p) : k + p \in 1 .. L
    BY <1>1
  <2>. HIDE DEF a, c, L
  <2>. QED
    BY <1>1, <2>1, <2>2
<1>5. \A k \in 0 .. (L + 1) : a(k) # l
  <2>1. \A k \in 0 .. L : a(k) # l
    OBVIOUS
  <2>0. L \in Nat
    BY <1>1
  <2>. HIDE DEF a, L
  <2>2. \A k \in 0 .. (L + 1) : k \in 0 .. L \/ (k = L + 1 /\ 0 \in 0 .. L)
    BY <2>0
  <2>. QED
    BY <1>1, <2>1, <2>2
<1>6. h.next[s[p]] = a(p + 1) /\ h.next[head] = a(1) /\ a(p) = s[p]
  <2>1. p \in 0 .. L /\ 0 \in 0 .. L /\ 0 + 1 = 1
    BY <1>1
  <2>2. h.next[a(p)] = a(p + 1) /\ h.next[a(0)] = a(0 + 1)
    BY <1>1, <2>1
  <2>. QED
    BY <1>1, <2>1, <2>2
<1>. HIDE DEF a, b, c, L
<1>7. h.next \in [N -> Links(N)] /\ h.prev \in [N -> Links(N)] /\ \A y \in N : y \in Links(N)
  BY DEF IsHeap, Links
<1>8. /\ 1 \in 0 .. L /\ p \in 0 .. L /\ 0 \in 0 .. L
      /\ 0 \in 0 .. (L + 1) /\ 1 \in 0 .. (L + 1)
      /\ p \in 0 .. (L + 1) /\ p + 1 \in 0 .. (L + 1)
      /\ (p + 1 \in 0 .. L) \/ (p = L /\ p + 1 = L + 1)
      /\ p # 0 /\ p + 1 # 1 /\ p + 1 # 0 /\ p + 1 # p
  BY <1>1
<1>9. /\ a(1) \in N /\ a(p) \in N /\ a(p + 1) \in N
      /\ a(1) # l /\ a(p) # l /\ a(p + 1) # l /\ head # l
      /\ a(p) # head /\ a(1) # head /\ a(p) # a(p + 1) /\ a(1) # a(p + 1)
  <2>1. a(p + 1) = a(0) \/ p + 1 \in 0 .. L
    BY <1>1, <1>8
  <2>2. a(1) \in N /\ a(p) \in N /\ a(p + 1) \in N
    BY <1>1, <1>8
  <2>3. a(1) # l /\ a(p) # l /\ a(p + 1) # l /\ a(0) # l
    BY <1>5, <1>8
  <2>4. a(p) # a(0) /\ a(1) # a(0) /\ a(p) # a(p + 1) /\ a(1) # a(p + 1)
    BY <1>1, <1>8, <2>1
  <2>. QED
    BY <1>1, <2>2, <2>3, <2>4
<1>10. /\ f = Heap(f.next, f.prev)
       /\ f.next = [[[h.next EXCEPT ![l] = a(1)] EXCEPT ![a(p)] = l] EXCEPT ![head] = a(p + 1)]
       /\ f.prev = [[[h.prev EXCEPT ![a(1)] = l] EXCEPT ![l] = a(p)] EXCEPT ![a(p + 1)] = head]
  <2>1. [h.next EXCEPT ![l] = a(1)][l] = a(1)
    BY <1>7
  <2>. QED
    BY <1>6, <2>1 DEF list_cut_between, SetNext, SetPrev, Heap
<1>11. /\ f.next \in [N -> Links(N)] /\ f.prev \in [N -> Links(N)]
       /\ \A y \in N : /\ f.next[y] = IF y = head THEN a(p + 1)
                                      ELSE IF y = a(p) THEN l
                                      ELSE IF y = l THEN a(1) ELSE h.next[y]
                       /\ f.prev[y] = IF y = a(p + 1) THEN head
                                      ELSE IF y = l THEN a(p)
                                      ELSE IF y = a(1) THEN l ELSE h.prev[y]
  <2>1. head \in Links(N) /\ l \in Links(N) /\ a(1) \in Links(N) /\ a(p) \in Links(N) /\ a(p + 1) \in Links(N)
    BY <1>7, <1>9
  <2>. QED
    BY <1>7, <1>9, <1>10, <2>1
<1>12. IsHeap(f, N)
  BY <1>10, <1>11 DEF IsHeap
<1>13. IsRing(f, N, l, Upto(s, p))
  <2>1. \A i, j \in 0 .. p : b(i) = b(j) => i = j
    <3>. SUFFICES ASSUME NEW i \in 0 .. p, NEW j \in 0 .. p, b(i) = b(j)
                  PROVE  i = j
      OBVIOUS
    <3>1. \A k \in 0 .. p : /\ k \in 0 .. L /\ k \in 0 .. (L + 1)
                            /\ (k = 0 \/ k \in 1 .. p)
      BY <1>1
    <3>2. \A k \in 0 .. p : k # 0 => b(k) = a(k) /\ b(k) # l
      BY <1>3, <1>5, <3>1
    <3>. QED
      BY <1>1, <1>3, <3>1, <3>2
  <2>2. ASSUME NEW k \in 0 .. p
        PROVE  f.next[b(k)] = b(k + 1) /\ f.prev[b(k + 1)] = b(k)
    <3>1. CASE k = 0
      <4>1. b(k) = l /\ b(k + 1) = a(1)
        <5>1. 1 \in 1 .. p /\ 0 + 1 = 1
          BY <1>1
        <5>. QED
          BY <1>3, <3>1, <5>1
      <4>. QED
        BY <1>9, <1>11, <4>1
    <3>2. CASE k \in 1 .. (p - 1)
      <4>1. /\ k \in 1 .. p /\ k + 1 \in 1 .. p /\ k \in 0 .. L /\ k + 1 \in 0 .. L
            /\ k # 0 /\ k # p /\ k + 1 # 1 /\ k \in 0 .. (L + 1) /\ k + 1 \in 0 .. (L + 1)
            /\ k + 1 # p + 1 /\ k + 1 # 0
        BY <1>1, <3>2
      <4>2. b(k) = a(k) /\ b(k + 1) = a(k + 1)
        BY <1>3, <4>1
      <4>3. a(k) # head /\ a(k) # a(p) /\ a(k) # l /\ a(k + 1) # l /\ a(k + 1) # a(1)
        BY <1>1, <1>5, <1>8, <4>1
      <4>4. a(k + 1) # a(p + 1)
        <5>1. a(p + 1) = a(0) \/ p + 1 \in 0 .. L
          BY <1>1, <1>8
        <5>. QED
          BY <1>1, <1>8, <4>1, <5>1
      <4>5. a(k) \in N /\ a(k + 1) \in N /\ h.next[a(k)] = a(k + 1) /\ h.prev[a(k + 1)] = a(k)
        BY <1>1, <4>1
      <4>. QED
        BY <1>11, <4>2, <4>3, <4>4, <4>5
    <3>3. CASE k = p
      <4>1. b(k) = a(p) /\ b(k + 1) = l
        <5>1. p \in 1 .. p
          BY <1>1
        <5>. QED
          BY <1>3, <3>3, <5>1
      <4>. QED
        BY <1>9, <1>11, <4>1
    <3>4. k = 0 \/ k \in 1 .. (p - 1) \/ k = p
      BY <1>1
    <3>. QED
      BY <3>1, <3>2, <3>3, <3>4
  <2>. QED
    BY <1>2, <2>1, <2>2 DEF IsRing, b
<1>14. IsRing(f, N, head, After(s, p))
  <2>1. \A i, j \in 0 .. (L - p) : c(i) = c(j) => i = j
    <3>. SUFFICES ASSUME NEW i \in 0 .. (L - p), NEW j \in 0 .. (L - p), c(i) = c(j)
                  PROVE  i = j
      OBVIOUS
    <3>1. ASSUME NEW k \in 0 .. (L - p)
          PROVE  /\ k \in Int /\ (k = 0 \/ k \in 1 .. (L - p))
                 /\ k # 0 => k + p \in 0 .. L /\ k + p # 0
      <4>1. p \in Int /\ L \in Int /\ p >= 1 /\ k \in Int /\ k >= 0 /\ k <= L - p
        BY <1>1
      <4>. QED
        BY ONLY <4>1
    <3>2. ASSUME NEW k \in 0 .. (L - p), k # 0
          PROVE  c(k) = a(k + p) /\ c(k) # head
      <4>1. c(k) = a(k + p)
        BY ONLY <1>4, <3>1, <3>2
      <4>2. a(k + p) # a(0)
        BY ONLY <1>1, <1>8, <3>1, <3>2
      <4>. QED
        BY <1>1, <4>1, <4>2
    <3>3. i # 0 /\ j # 0 => i + p = j + p
      BY <1>1, <3>1, <3>2
    <3>. QED
      BY <1>1, <1>4, <3>1, <3>2, <3>3
  <2>2. ASSUME NEW k \in 0 .. (L - p)
        PROVE  f.next[c(k)] = c(k + 1) /\ f.prev[c(k + 1)] = c(k)
    <3>1. CASE k = 0
      <4>1. c(k) = head /\ c(k + 1) = a(p + 1)
        <5>1. CASE p = L
          <6>1. k + 1 = L - p + 1 /\ p + 1 = L + 1
            BY <1>1, <3>1, <5>1
          <6>. QED
            BY <1>1, <1>4, <3>1, <6>1
        <5>2. CASE p # L
          <6>1. 1 \in 1 .. (L - p) /\ 1 + p = p + 1 /\ k + 1 = 1
            BY <1>1, <3>1, <5>2
          <6>. QED
            BY <1>4, <3>1, <6>1
        <5>. QED
          BY <5>1, <5>2
      <4>. QED
        BY <1>9, <1>11, <4>1
    <3>2. CASE k # 0
      <4>. DEFINE i == k + p
      <4>0. /\ k \in 1 .. (L - p) /\ k \in Int /\ k >= 1 /\ k <= L - p
            /\ L \in Int /\ p \in Int /\ p >= 1
        BY <1>1, <3>2
      <4>1. /\ k \in 1 .. (L - p) /\ i \in 0 .. L /\ i # 0 /\ i # p /\ i \in 0 .. (L + 1)
            /\ i + 1 \in 0 .. (L + 1)
            /\ \/ i + 1 \in 0 .. L /\ k + 1 \in 1 .. (L - p) /\ (k + 1) + p = i + 1
               \/ i + 1 = L + 1 /\ k + 1 = L - p + 1
            /\ i + 1 # 1 /\ i + 1 # p + 1 /\ p + 1 \in 0 .. L /\ p + 1 # 0
        BY <4>0
      <4>. HIDE DEF i
      <4>2. c(k) = a(i) /\ c(k + 1) = a(i + 1)
        BY <1>1, <1>4, <4>1 DEF i
      <4>3. a(i) # head /\ a(i) # a(p) /\ a(i) # l
        BY <1>1, <1>5, <1>8, <4>1
      <4>4. a(i + 1) # l /\ a(i + 1) # a(1) /\ a(i + 1) # a(p + 1)
        <5>1. a(i + 1) # l
          BY <1>5, <4>1
        <5>2. CASE i + 1 \in 0 .. L
          BY <1>1, <1>8, <4>1, <5>1, <5>2
        <5>3. CASE i + 1 = L + 1
          <6>1. a(i + 1) = a(0) /\ p + 1 # 0 /\ 1 # 0
            BY <1>1, <4>1, <5>3
          <6>. QED
            BY <1>1, <1>8, <4>1, <5>1, <6>1
        <5>. QED
          BY <4>1, <5>2, <5>3
      <4>5. a(i) \in N /\ a(i + 1) \in N /\ h.next[a(i)] = a(i + 1) /\ h.prev[a(i + 1)] = a(i)
        BY <1>1, <4>1
      <4>. QED
        BY <1>11, <4>2, <4>3, <4>4, <4>5
    <3>. QED
      BY <3>1, <3>2
  <2>. QED
    BY <1>2, <2>1, <2>2 DEF IsRing, c
<1>15. ASSUME NEW y \in N, \A k \in 0 .. L : a(k) # y, y # l
       PROVE  f.next[y] = h.next[y] /\ f.prev[y] = h.prev[y]
  <2>1. a(0) # y /\ a(1) # y /\ a(p) # y /\ a(p + 1) # y
    <3>1. a(p + 1) = a(0) \/ p + 1 \in 0 .. L
      BY <1>1, <1>8
    <3>. QED
      BY <1>8, <1>15, <3>1
  <2>. QED
    BY <1>1, <1>11, <1>15, <2>1
<1>. QED
  BY <1>12, <1>13, <1>14, <1>15 DEF a, L

\* list_replace puts the new entry where the old one was.
LEMMA ReplaceEntry ==
  ASSUME NEW h, NEW N, IsHeap(h, N),
         NEW head \in N, NEW s, IsRing(h, N, head, s), NEW p \in 1 .. Len(s),
         NEW x \in N, \A k \in 0 .. Len(s) : RingAt(s, head, k) # x,
         NEW f, f = list_replace(h, s[p], x)
  PROVE  /\ IsHeap(f, N)
         /\ IsRing(f, N, head, Inserted(Removed(s, p), p, x))
         /\ \A y \in N : (\A k \in 0 .. Len(s) : RingAt(s, head, k) # y) /\ y # x =>
              f.next[y] = h.next[y] /\ f.prev[y] = h.prev[y]
<1>. DEFINE L == Len(s)
            a(k) == RingAt(s, head, k)
            r == Removed(s, p)
<1>1. /\ s \in Seq(N) /\ L \in Nat /\ p \in Nat /\ p \in 1 .. L
      /\ a(0) = head /\ a(L + 1) = head
      /\ \A k \in 0 .. (L + 1) : a(k) \in N
      /\ \A i, j \in 0 .. L : a(i) = a(j) => i = j
      /\ \A k \in 0 .. L : h.next[a(k)] = a(k + 1) /\ h.prev[a(k + 1)] = a(k)
      /\ a(p) = s[p]
      /\ h.next \in [N -> Links(N)] /\ h.prev \in [N -> Links(N)]
  BY RingFacts
<1>2. \A k \in 0 .. L : a(k) # x
  OBVIOUS
<1>3. PICK o : o = s[p]
  OBVIOUS
<1>4. PICK g : g = list_del_entry(h, o)
  OBVIOUS
<1>5. /\ IsHeap(g, N) /\ IsRing(g, N, head, r)
      /\ \A y \in N : (\A k \in 0 .. L : a(k) # y) =>
           g.next[y] = h.next[y] /\ g.prev[y] = h.prev[y]
  <2>1. o = RingAt(s, head, p)
    BY <1>1, <1>3
  <2>. QED
    BY <1>4, <2>1, DelEntry
<1>6. /\ r \in Seq(N) /\ Len(r) = L - 1
      /\ \A k \in 0 .. L : RingAt(r, head, k) = IF k < p THEN a(k) ELSE a(k + 1)
  BY <1>1, RemovedIs
<1>. HIDE DEF a, L, r
<1>7. /\ p - 1 \in 0 .. L /\ p \in 0 .. L /\ (p - 1) + 1 = p
      /\ p - 1 \in 0 .. (L + 1) /\ p + 1 \in 0 .. (L + 1)
      /\ p + 1 \in 0 .. L \/ (p + 1 = L + 1 /\ 0 \in 0 .. L /\ p # 0)
      /\ p - 1 < p /\ ~(p < p) /\ p # p - 1 /\ p + 1 # p
      /\ p \in 1 .. (Len(r) + 1)
  BY <1>1, <1>6
<1>. DEFINE u == a(p - 1)
            w == a(p + 1)
<1>8. /\ u \in N /\ w \in N /\ o \in N /\ u # o /\ w # o /\ u # x /\ w # x /\ o # x
      /\ h.next[o] = w /\ h.prev[o] = u /\ a(p) = o
  <2>1. a(p) = o
    BY <1>1, <1>3
  <2>2. w = a(0) \/ p + 1 \in 0 .. L
    BY <1>1, <1>7
  <2>3. h.next[a(p)] = a(p + 1) /\ h.prev[a((p - 1) + 1)] = a(p - 1)
    BY <1>1, <1>7
  <2>4. u \in N /\ w \in N /\ a(p) \in N
    BY <1>1, <1>7
  <2>5. u # a(p) /\ w # a(p)
    BY <1>1, <1>7, <2>2
  <2>6. u # x /\ w # x /\ a(p) # x
    BY <1>1, <1>2, <1>7, <2>2
  <2>. QED
    BY <1>7, <2>1, <2>3, <2>4, <2>5, <2>6
<1>9. RingAt(r, head, p - 1) = u /\ RingAt(r, head, p) = w
  BY <1>6, <1>7
<1>. HIDE DEF u, w
<1>10. PICK k : k = list_add_between(g, x, u, w)
  OBVIOUS
<1>11. f = k
  <2>1. /\ g.next = [h.next EXCEPT ![u] = w]
        /\ g.prev = [h.prev EXCEPT ![w] = u]
    BY <1>4, <1>8 DEF list_del_entry, list_del_between, Heap
  <2>2. k = Heap([[[h.next EXCEPT ![u] = w] EXCEPT ![x] = w] EXCEPT ![u] = x],
                 [[[h.prev EXCEPT ![w] = u] EXCEPT ![w] = x] EXCEPT ![x] = u])
    BY <1>10, <2>1 DEF list_add_between
  <2>3. f = Heap([[h.next EXCEPT ![x] = w] EXCEPT ![u] = x],
                 [[h.prev EXCEPT ![w] = x] EXCEPT ![x] = u])
    <3>1. [h.next EXCEPT ![x] = w][x] = w /\ [h.prev EXCEPT ![w] = x][o] = u
      BY <1>1, <1>8
    <3>2. [[h.prev EXCEPT ![w] = x] EXCEPT ![x] = u][x] = u
      BY <1>1, <1>8
    <3>3. f = list_replace(h, o, x)
      BY <1>3
    <3>. QED
      BY <1>8, <3>1, <3>2, <3>3 DEF list_replace, SetNext, SetPrev, Heap
  <2>4. [[[h.next EXCEPT ![u] = w] EXCEPT ![x] = w] EXCEPT ![u] = x]
          = [[h.next EXCEPT ![x] = w] EXCEPT ![u] = x]
    BY <1>1, <1>8
  <2>5. [[[h.prev EXCEPT ![w] = u] EXCEPT ![w] = x] EXCEPT ![x] = u]
          = [[h.prev EXCEPT ![w] = x] EXCEPT ![x] = u]
    BY <1>1, <1>8
  <2>. QED
    BY <2>2, <2>3, <2>4, <2>5
<1>12. \A i \in 0 .. Len(r) : RingAt(r, head, i) # x
  <2>1. \A i \in 0 .. (L - 1) : i \in 0 .. L /\ i + 1 \in 0 .. L
    BY <1>1
  <2>. QED
    BY <1>2, <1>6, <2>1
<1>13. /\ IsHeap(k, N) /\ IsRing(k, N, head, Inserted(r, p, x))
       /\ \A y \in N : (\A i \in 0 .. Len(r) : RingAt(r, head, i) # y) /\ y # x =>
            k.next[y] = g.next[y] /\ k.prev[y] = g.prev[y]
  <2>1. k = list_add_between(g, x, RingAt(r, head, p - 1), RingAt(r, head, p))
    BY <1>9, <1>10
  <2>2. IsHeap(g, N) /\ IsRing(g, N, head, r) /\ p \in 1 .. (Len(r) + 1)
    BY ONLY <1>5, <1>7
  <2>. QED
    BY ONLY <1>12, <2>1, <2>2, head \in N, x \in N, AddBetween
<1>14. ASSUME NEW y \in N, \A i \in 0 .. L : a(i) # y, y # x
       PROVE  k.next[y] = h.next[y] /\ k.prev[y] = h.prev[y]
  <2>1. \A i \in 0 .. (L - 1) : i \in 0 .. L /\ i + 1 \in 0 .. L
    BY <1>1
  <2>2. \A i \in 0 .. Len(r) : RingAt(r, head, i) # y
    BY <1>6, <1>14, <2>1
  <2>. QED
    BY <1>5, <1>13, <1>14, <2>2
<1>. QED
  BY <1>11, <1>13, <1>14 DEF r, a, L

\* It does the same for a head, empty or not.
LEMMA ReplaceHeadOf ==
  ASSUME NEW h, NEW N, IsHeap(h, N),
         NEW old \in N, NEW s, IsRing(h, N, old, s),
         NEW new \in N, \A k \in 0 .. Len(s) : RingAt(s, old, k) # new,
         NEW f, f = list_replace(h, old, new)
  PROVE  /\ IsHeap(f, N)
         /\ IsRing(f, N, new, s)
         /\ \A y \in N : (\A k \in 0 .. Len(s) : RingAt(s, old, k) # y) /\ y # new =>
              f.next[y] = h.next[y] /\ f.prev[y] = h.prev[y]
<1>. DEFINE L == Len(s)
            a(k) == RingAt(s, old, k)
            b(k) == RingAt(s, new, k)
<1>1. /\ s \in Seq(N) /\ L \in Nat
      /\ a(0) = old /\ a(L + 1) = old
      /\ \A k \in 0 .. (L + 1) : a(k) \in N
      /\ \A i, j \in 0 .. L : a(i) = a(j) => i = j
      /\ \A k \in 0 .. L : h.next[a(k)] = a(k + 1) /\ h.prev[a(k + 1)] = a(k)
      /\ h.next \in [N -> Links(N)] /\ h.prev \in [N -> Links(N)]
  BY RingFacts
<1>2. b(0) = new /\ b(L + 1) = new /\ \A k \in 1 .. L : b(k) = a(k)
  <2>1. b(0) = new /\ b(L + 1) = new
    BY <1>1, RingPlaces
  <2>2. \A k \in 1 .. L : b(k) = a(k)
    BY DEF RingAt
  <2>. QED
    BY <2>1, <2>2
<1>3. \A k \in 0 .. L : a(k) # new
  OBVIOUS
<1>. HIDE DEF a, b, L
<1>4. /\ 0 \in 0 .. L /\ L \in 0 .. L /\ 0 + 1 = 1 /\ L \in 0 .. (L + 1) /\ 1 \in 0 .. (L + 1)
      /\ 1 \in 0 .. L \/ (L = 0 /\ 1 = L + 1)
  BY <1>1
<1>5. /\ h.next[old] = a(1) /\ h.prev[old] = a(L) /\ old # new
      /\ a(1) \in N /\ a(L) \in N /\ a(1) # new /\ a(L) # new
  <2>1. h.next[a(0)] = a(0 + 1) /\ h.prev[a(L + 1)] = a(L)
    BY <1>1, <1>4
  <2>2. a(1) = a(0) \/ 1 \in 0 .. L
    BY <1>1, <1>4
  <2>. QED
    BY <1>1, <1>3, <1>4, <2>1, <2>2
<1>6. \A y \in N : y \in Links(N)
  BY DEF Links
<1>7. CASE L = 0
  <2>1. a(1) = old /\ a(L) = old
    BY <1>1, <1>4, <1>7
  <2>2. f = Heap([[h.next EXCEPT ![new] = old] EXCEPT ![new] = new],
                 [[h.prev EXCEPT ![old] = new] EXCEPT ![new] = new])
    <3>1. /\ [h.next EXCEPT ![new] = old][new] = old
          /\ [h.prev EXCEPT ![old] = new][old] = new
          /\ [[h.prev EXCEPT ![old] = new] EXCEPT ![new] = new][new] = new
      BY <1>1, <1>5
    <3>. QED
      BY <1>5, <2>1, <3>1 DEF list_replace, SetNext, SetPrev, Heap
  <2>3. /\ f = Heap(f.next, f.prev)
        /\ f.next = [[h.next EXCEPT ![new] = old] EXCEPT ![new] = new]
        /\ f.prev = [[h.prev EXCEPT ![old] = new] EXCEPT ![new] = new]
    BY <2>2 DEF Heap
  <2>4. /\ f.next \in [N -> Links(N)] /\ f.prev \in [N -> Links(N)]
        /\ f.next[new] = new /\ f.prev[new] = new
        /\ \A y \in N : y # old /\ y # new => f.next[y] = h.next[y] /\ f.prev[y] = h.prev[y]
    BY <1>1, <1>5, <1>6, <2>3
  <2>5. IsHeap(f, N)
    BY <2>3, <2>4 DEF IsHeap
  <2>6. IsRing(f, N, new, s)
    <3>1. \A k \in 0 .. L : k = 0 /\ k + 1 = L + 1
      BY <1>7
    <3>2. \A k \in 0 .. L : b(k) = new /\ b(k + 1) = new
      BY <1>2, <3>1
    <3>. QED
      BY <1>1, <2>4, <3>1, <3>2 DEF IsRing, b, L
  <2>7. ASSUME NEW y \in N, \A k \in 0 .. L : a(k) # y, y # new
        PROVE  f.next[y] = h.next[y] /\ f.prev[y] = h.prev[y]
    BY <1>1, <1>4, <2>4, <2>7
  <2>. QED
    BY <2>5, <2>6, <2>7 DEF a, L
<1>8. CASE L # 0
  <2>1. /\ 1 \in 0 .. L /\ 1 # 0 /\ a(1) # old /\ a(L) # old
        /\ 1 \in 1 .. L /\ L \in 1 .. L
    BY <1>1, <1>4, <1>8
  <2>2. f = Heap([[h.next EXCEPT ![new] = a(1)] EXCEPT ![a(L)] = new],
                 [[h.prev EXCEPT ![a(1)] = new] EXCEPT ![new] = a(L)])
    <3>1. /\ [h.next EXCEPT ![new] = a(1)][new] = a(1)
          /\ [h.prev EXCEPT ![a(1)] = new][old] = a(L)
          /\ [[h.prev EXCEPT ![a(1)] = new] EXCEPT ![new] = a(L)][new] = a(L)
      BY <1>1, <1>5, <2>1
    <3>. QED
      BY <1>5, <3>1 DEF list_replace, SetNext, SetPrev, Heap
  <2>3. /\ f = Heap(f.next, f.prev)
        /\ f.next = [[h.next EXCEPT ![new] = a(1)] EXCEPT ![a(L)] = new]
        /\ f.prev = [[h.prev EXCEPT ![a(1)] = new] EXCEPT ![new] = a(L)]
    BY <2>2 DEF Heap
  <2>4. /\ f.next \in [N -> Links(N)] /\ f.prev \in [N -> Links(N)]
        /\ \A y \in N : /\ f.next[y] = IF y = a(L) THEN new
                                       ELSE IF y = new THEN a(1) ELSE h.next[y]
                        /\ f.prev[y] = IF y = new THEN a(L)
                                       ELSE IF y = a(1) THEN new ELSE h.prev[y]
    <3>1. a(1) \in Links(N) /\ a(L) \in Links(N) /\ new \in Links(N)
      BY <1>5, <1>6
    <3>2. h.next \in [N -> Links(N)] /\ h.prev \in [N -> Links(N)]
      BY <1>1
    <3>. HIDE DEF Links
    <3>. QED
      BY <1>5, <2>3, <3>1, <3>2
  <2>5. IsHeap(f, N)
    BY <2>3, <2>4 DEF IsHeap
  <2>6. \A i, j \in 0 .. L : b(i) = b(j) => i = j
    <3>. SUFFICES ASSUME NEW i \in 0 .. L, NEW j \in 0 .. L, b(i) = b(j)
                  PROVE  i = j
      OBVIOUS
    <3>1. \A k \in 0 .. L : k = 0 \/ k \in 1 .. L
      BY <1>1
    <3>2. \A k \in 0 .. L : k # 0 => b(k) = a(k) /\ b(k) # new
      BY <1>2, <1>3, <3>1
    <3>. QED
      BY <1>1, <1>2, <3>1, <3>2
  <2>7. ASSUME NEW k \in 0 .. L
        PROVE  f.next[b(k)] = b(k + 1) /\ f.prev[b(k + 1)] = b(k)
    <3>1. CASE k = 0
      <4>1. b(k) = new /\ b(k + 1) = a(1)
        BY <1>2, <2>1, <3>1
      <4>. QED
        BY <1>5, <2>4, <4>1
    <3>2. CASE k = L
      <4>1. b(k) = a(L) /\ b(k + 1) = new
        BY <1>2, <2>1, <3>2
      <4>. QED
        BY <1>5, <2>4, <4>1
    <3>3. CASE k # 0 /\ k # L
      <4>1. /\ k \in 1 .. L /\ k + 1 \in 1 .. L /\ k + 1 \in 0 .. L /\ k + 1 # 1
            /\ k \in 0 .. (L + 1) /\ k + 1 \in 0 .. (L + 1)
        BY <1>1, <3>3
      <4>2. b(k) = a(k) /\ b(k + 1) = a(k + 1)
        BY <1>2, <4>1
      <4>3. a(k) # a(L) /\ a(k) # new /\ a(k + 1) # new /\ a(k + 1) # a(1)
        BY <1>1, <1>3, <1>4, <2>1, <3>3, <4>1
      <4>4. a(k) \in N /\ a(k + 1) \in N /\ h.next[a(k)] = a(k + 1) /\ h.prev[a(k + 1)] = a(k)
        BY <1>1, <4>1
      <4>. QED
        BY <2>4, <4>2, <4>3, <4>4
    <3>. QED
      BY <3>1, <3>2, <3>3
  <2>8. IsRing(f, N, new, s)
    BY <1>1, <2>6, <2>7 DEF IsRing, b, L
  <2>9. ASSUME NEW y \in N, \A k \in 0 .. L : a(k) # y, y # new
        PROVE  f.next[y] = h.next[y] /\ f.prev[y] = h.prev[y]
    <3>1. a(1) # y /\ a(L) # y
      BY <1>4, <2>1, <2>9
    <3>. QED
      BY <2>4, <2>9, <3>1
  <2>. QED
    BY <2>5, <2>8, <2>9 DEF a, L
<1>. QED
  BY <1>7, <1>8
=============================================================================
