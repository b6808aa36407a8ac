-------------------------- MODULE HashChainsProofs --------------------------
(***************************************************************************)
(* The chains of the hash table, for any buckets, names and hash function  *)
(* and any finite set of entries.                                          *)
(*                                                                         *)
(* The pointers are handled through the sequence they spell: IsChain says  *)
(* that a heap holds the chain of a sequence behind a head.  Every         *)
(* operation is an insertion, a removal or the move of a whole chain; one  *)
(* lemma each says what that makes of the sequence, and one per operation  *)
(* that its assignments are one.                                           *)
(***************************************************************************)
EXTENDS HashChains, FiniteSetTheorems, FunctionTheorems, SequenceTheorems,
        WellFoundedInduction, TLAPS

\* Every nonempty set of naturals has a least element.
LEMMA LeastNat ==
  ASSUME NEW S \in SUBSET Nat, S # {}
  PROVE  \E x \in S : \A y \in S : x <= y
<1>1. PICK x \in S : \A y \in S : ~(<<y, x>> \in OpToRel(<, Nat))
  BY WFMin, NatLessThanWellFounded
<1>2. \A y \in S : x <= y
  <2> TAKE y \in S
  <2>1. ~(<<y, x>> \in OpToRel(<, Nat))
    BY <1>1
  <2>2. ~(y < x)
    BY <2>1 DEF OpToRel
  <2> QED
    BY <2>2
<1> QED
  BY <1>2

-----------------------------------------------------------------------------
(* The memory.                                                             *)

\* *p
Load(h, p) == IF p.field = "first" THEN h.first[p.of] ELSE h.next[p.of]

WellShaped(h) ==
  /\ DOMAIN h.first = Buckets
  /\ DOMAIN h.next = Nodes
  /\ DOMAIN h.pprev = Nodes

\* Different pointers have different addresses, none of them NULL.
LEMMA AddressesDiffer ==
  /\ \A b \in Buckets : FirstOf(b) \in Addresses
  /\ \A x \in Nodes : NextOf(x) \in Addresses
  /\ \A a \in Addresses : a # NULL
  /\ \A a, b : FirstOf(a) = FirstOf(b) => a = b
  /\ \A x, y : NextOf(x) = NextOf(y) => x = y
  /\ \A b, x : FirstOf(b) # NextOf(x)
<1>1. \A b : FirstOf(b).of = b /\ FirstOf(b).field = "first"
  BY DEF FirstOf
<1>2. \A x : NextOf(x).of = x /\ NextOf(x).field = "next"
  BY DEF NextOf
<1>3. "first" # "next"
  OBVIOUS
<1>4. \A a \in Addresses : a # NULL
  BY ChainsAssumption
<1>5. (\A b \in Buckets : FirstOf(b) \in Addresses) /\ (\A x \in Nodes : NextOf(x) \in Addresses)
  BY DEF Addresses
<1>. QED
  BY <1>1, <1>2, <1>3, <1>4, <1>5

LEMMA LoadIs ==
  /\ \A h, b : Load(h, FirstOf(b)) = h.first[b]
  /\ \A h, x : Load(h, NextOf(x)) = h.next[x]
BY DEF Load, FirstOf, NextOf

\* An assignment changes the pointer at its address and no other.
LEMMA StoreIs ==
  ASSUME NEW h, WellShaped(h), NEW p \in Addresses, NEW x, NEW f, f = Store(h, p, x)
  PROVE  /\ WellShaped(f)
         /\ f.pprev = h.pprev
         /\ \A q \in Addresses : Load(f, q) = IF q = p THEN x ELSE Load(h, q)
<1>1. CASE \E b \in Buckets : p = FirstOf(b)
  <2>1. PICK b \in Buckets : p = FirstOf(b)
    BY <1>1
  <2>2. p.of = b /\ p.field = "first"
    BY <2>1 DEF FirstOf
  <2>3. f.first = [h.first EXCEPT ![b] = x] /\ f.next = h.next /\ f.pprev = h.pprev
    BY <2>2 DEF Store, Heap
  <2>4. WellShaped(f)
    BY <2>3 DEF WellShaped
  <2>5. \A d \in Buckets : f.first[d] = IF d = b THEN x ELSE h.first[d]
    BY <2>3 DEF WellShaped
  <2>6. ASSUME NEW q \in Addresses
        PROVE  Load(f, q) = IF q = p THEN x ELSE Load(h, q)
    <3>1. CASE \E d \in Buckets : q = FirstOf(d)
      BY <2>1, <2>5, <3>1, LoadIs, AddressesDiffer
    <3>2. CASE \E y \in Nodes : q = NextOf(y)
      BY <2>1, <2>3, <3>2, LoadIs, AddressesDiffer
    <3>. QED
      BY <3>1, <3>2 DEF Addresses
  <2>. QED
    BY <2>3, <2>4, <2>6
<1>2. CASE \E y \in Nodes : p = NextOf(y)
  <2>1. PICK y \in Nodes : p = NextOf(y)
    BY <1>2
  <2>2. p.of = y /\ p.field # "first"
    BY <2>1 DEF NextOf
  <2>3. f.next = [h.next EXCEPT ![y] = x] /\ f.first = h.first /\ f.pprev = h.pprev
    BY <2>2 DEF Store, Heap
  <2>4. WellShaped(f)
    BY <2>3 DEF WellShaped
  <2>5. \A z \in Nodes : f.next[z] = IF z = y THEN x ELSE h.next[z]
    BY <2>3 DEF WellShaped
  <2>6. ASSUME NEW q \in Addresses
        PROVE  Load(f, q) = IF q = p THEN x ELSE Load(h, q)
    <3>1. CASE \E d \in Buckets : q = FirstOf(d)
      BY <2>1, <2>3, <3>1, LoadIs, AddressesDiffer
    <3>2. CASE \E z \in Nodes : q = NextOf(z)
      BY <2>1, <2>5, <3>2, LoadIs, AddressesDiffer
    <3>. QED
      BY <3>1, <3>2 DEF Addresses
  <2>. QED
    BY <2>3, <2>4, <2>6
<1>. QED
  BY <1>1, <1>2 DEF Addresses

LEMMA SetNextIs ==
  ASSUME NEW h, WellShaped(h), NEW x \in Nodes, NEW y, NEW f, f = SetNext(h, x, y)
  PROVE  /\ WellShaped(f)
         /\ f.pprev = h.pprev
         /\ \A q \in Addresses : Load(f, q) = IF q = NextOf(x) THEN y ELSE Load(h, q)
<1>1. NextOf(x) \in Addresses /\ f = Store(h, NextOf(x), y)
  BY AddressesDiffer DEF SetNext
<1>. QED
  BY <1>1, StoreIs

LEMMA SetPprevIs ==
  ASSUME NEW h, WellShaped(h), NEW x \in Nodes, NEW p, NEW f, f = SetPprev(h, x, p)
  PROVE  /\ WellShaped(f)
         /\ \A q : Load(f, q) = Load(h, q)
         /\ \A y \in Nodes : f.pprev[y] = IF y = x THEN p ELSE h.pprev[y]
<1>1. f.first = h.first /\ f.next = h.next /\ f.pprev = [h.pprev EXCEPT ![x] = p]
  BY DEF SetPprev, Heap
<1>. QED
  BY <1>1 DEF WellShaped, Load

LEMMA SetPprevOfIs ==
  ASSUME NEW h, WellShaped(h), NEW x \in Nodes \cup {NULL}, NEW p,
         NEW f, f = SetPprevOf(h, x, p)
  PROVE  /\ WellShaped(f)
         /\ \A q : Load(f, q) = Load(h, q)
         /\ \A y \in Nodes : f.pprev[y] = IF y = x THEN p ELSE h.pprev[y]
<1>1. CASE x = NULL
  BY <1>1, ChainsAssumption DEF SetPprevOf
<1>2. CASE x # NULL
  <2>1. x \in Nodes /\ f = SetPprev(h, x, p)
    BY <1>2 DEF SetPprevOf
  <2>. QED
    BY <2>1, SetPprevIs
<1>. QED
  BY <1>1, <1>2

-----------------------------------------------------------------------------
(* Chains.                                                                 *)

\* The pointer that leads to the entry behind the k-th, and the k-th entry.
PlaceOf(c, b, k) == IF k = 0 THEN FirstOf(b) ELSE NextOf(c[k])
EntryAt(c, k)    == IF k \in 1 .. Len(c) THEN c[k] ELSE NULL

\* The links behind the head b spell c, and no entry twice.
IsChain(h, b, c) ==
  /\ c \in Seq(Nodes)
  /\ \A i, j \in 1 .. Len(c) : c[i] = c[j] => i = j
  /\ \A k \in 0 .. Len(c) : Load(h, PlaceOf(c, b, k)) = EntryAt(c, k + 1)
  /\ \A k \in 1 .. Len(c) : h.pprev[c[k]] = PlaceOf(c, b, k - 1)


\* What the places and entries of a chain are.
LEMMA ChainPlaces ==
  ASSUME NEW b \in Buckets, NEW c \in Seq(Nodes)
  PROVE  /\ Len(c) \in Nat
         /\ \A k \in 1 .. Len(c) : EntryAt(c, k) = c[k] /\ c[k] \in Nodes
         /\ EntryAt(c, Len(c) + 1) = NULL
         /\ \A k : EntryAt(c, k) \in Nodes \cup {NULL}
         /\ PlaceOf(c, b, 0) = FirstOf(b)
         /\ \A k \in 0 .. Len(c) : PlaceOf(c, b, k) \in Addresses
         /\ \A k \in 1 .. Len(c) : PlaceOf(c, b, k) = NextOf(c[k])
<1>1. Len(c) \in Nat /\ \A k \in 1 .. Len(c) : c[k] \in Nodes
  OBVIOUS
<1>2. ~(Len(c) + 1 \in 1 .. Len(c)) /\ \A k \in 1 .. Len(c) : k # 0
  BY <1>1
<1>3. \A k \in 0 .. Len(c) : k = 0 \/ k \in 1 .. Len(c)
  BY <1>1
<1>. QED
  BY <1>1, <1>2, <1>3, AddressesDiffer DEF EntryAt, PlaceOf

\* One turn of hlist_for_each, and the walk up to turn m.
WalkStep(h, b, s) ==
  LET succ == IF s = <<>> THEN h.first[b] ELSE h.next[s[Len(s)]]
  IN  IF succ = NULL THEN s ELSE Append(s, succ)

IsWalk(h, b, g, m) ==
  g = [k \in 0 .. m |-> IF k = 0 THEN <<>> ELSE WalkStep(h, b, g[k - 1])]

\* There is such a function, so the recursive definition defines it.
LEMMA WalkExists ==
  ASSUME NEW h, NEW b, NEW m \in Nat
  PROVE  \E g : IsWalk(h, b, g, m)
<1>. DEFINE S == {k \in Nat : ~ \E g : IsWalk(h, b, g, k)}
<1>1. SUFFICES ASSUME S # {} PROVE FALSE
  OBVIOUS
<1>2. PICK k \in S : \A i \in S : k <= i
  <2>1. S \in SUBSET Nat
    OBVIOUS
  <2>. HIDE DEF S
  <2>. QED
    BY <1>1, <2>1, LeastNat
<1>3. k \in Nat /\ ~ \E g : IsWalk(h, b, g, k)
  OBVIOUS
<1>4. CASE k = 0
  <2>. DEFINE g == [i \in 0 .. 0 |-> <<>>]
  <2>1. IsWalk(h, b, g, 0)
    BY DEF IsWalk
  <2>. QED
    BY <1>3, <1>4, <2>1
<1>5. CASE k # 0
  <2>1. k - 1 \in Nat /\ ~(k <= k - 1)
    BY <1>3, <1>5
  <2>2. PICK g : IsWalk(h, b, g, k - 1)
    BY <1>2, <2>1
  <2>. HIDE DEF S
  <2>. DEFINE f == [i \in 0 .. k |-> IF i < k THEN g[i] ELSE WalkStep(h, b, g[k - 1])]
  <2>3. \A i \in 0 .. (k - 1) :
          g[i] = IF i = 0 THEN <<>> ELSE WalkStep(h, b, g[i - 1])
    BY <2>2 DEF IsWalk
  <2>4. ASSUME NEW i \in 0 .. k
        PROVE  f[i] = IF i = 0 THEN <<>> ELSE WalkStep(h, b, f[i - 1])
    <3>1. CASE i = 0
      <4>1. i < k /\ i \in 0 .. (k - 1)
        BY <1>3, <1>5, <3>1
      <4>. QED
        BY <2>3, <3>1, <4>1
    <3>2. CASE i # 0 /\ i < k
      <4>1. i \in 0 .. (k - 1) /\ i - 1 \in 0 .. k /\ i - 1 < k
        BY <1>3, <3>2
      <4>2. f[i] = g[i] /\ f[i - 1] = g[i - 1]
        BY <3>2, <4>1
      <4>. QED
        BY <2>3, <3>2, <4>1, <4>2
    <3>3. CASE i # 0 /\ ~(i < k)
      <4>1. i = k /\ k - 1 \in 0 .. k /\ k - 1 < k
        BY <1>3, <3>3
      <4>2. f[i] = WalkStep(h, b, g[k - 1]) /\ f[i - 1] = g[k - 1]
        BY <4>1
      <4>. QED
        BY <3>3, <4>2
    <3>. QED
      BY <3>1, <3>2, <3>3
  <2>5. f = [i \in 0 .. k |-> f[i]]
    OBVIOUS
  <2>. HIDE DEF f
  <2>6. IsWalk(h, b, f, k)
    BY <2>4, <2>5 DEF IsWalk
  <2>. QED
    BY <1>3, <2>6
<1>. QED
  BY <1>4, <1>5

LEMMA ChainIsWalked ==
  ASSUME NEW h, NEW b
  PROVE  \E g : IsWalk(h, b, g, Cardinality(Nodes)) /\ Chain(h, b) = g[Cardinality(Nodes)]
<1>. DEFINE bound == Cardinality(Nodes)
            g == CHOOSE w : w = [k \in 0 .. bound |->
                   IF k = 0 THEN <<>> ELSE WalkStep(h, b, w[k - 1])]
<1>1. bound \in Nat
  BY ChainsAssumption, FS_CardinalityType
<1>2. \E w : w = [k \in 0 .. bound |->
                   IF k = 0 THEN <<>> ELSE WalkStep(h, b, w[k - 1])]
  <2>. HIDE DEF bound, g
  <2>1. \E v : IsWalk(h, b, v, bound)
    BY <1>1, WalkExists
  <2>2. PICK v : IsWalk(h, b, v, bound)
    BY <2>1
  <2>3. v = [k \in 0 .. bound |->
               IF k = 0 THEN <<>> ELSE WalkStep(h, b, v[k - 1])]
    BY <2>2 DEF IsWalk
  <2>. QED
    BY <2>3
<1>3. Chain(h, b) = g[bound]
  BY DEF Chain, WalkStep
<1>4. g = [k \in 0 .. bound |-> IF k = 0 THEN <<>> ELSE WalkStep(h, b, g[k - 1])]
  <2>. HIDE DEF bound
  <2>. QED
    BY <1>2
<1>. HIDE DEF g
<1>. QED
  BY <1>3, <1>4 DEF IsWalk

\* After k turns the walk has the first k entries, or all.
LEMMA WalkIsPrefix ==
  ASSUME NEW h, NEW b \in Buckets, NEW c, IsChain(h, b, c),
         NEW m \in Nat, NEW g, IsWalk(h, b, g, m)
  PROVE  \A k \in 0 .. m : g[k] = SubSeq(c, 1, IF k < Len(c) THEN k ELSE Len(c))
<1>. DEFINE L == Len(c)
            Prefix(k) == SubSeq(c, 1, k)
            S == {k \in 0 .. m : g[k] # Prefix(IF k < L THEN k ELSE L)}
<1>1. L \in Nat /\ c \in Seq(Nodes) /\ \A i \in 1 .. L : c[i] \in Nodes
  BY DEF IsChain
<1>2. ASSUME NEW j \in 0 .. L
      PROVE  /\ Prefix(j) \in Seq(Nodes) /\ Len(Prefix(j)) = j
             /\ \A i \in 1 .. j : Prefix(j)[i] = c[i]
             /\ Prefix(j) = <<>> <=> j = 0
  <2>1. j \in Int /\ \A i \in 1 .. j : c[i] \in Nodes
    BY <1>1
  <2>2. /\ SubSeq(c, 1, j) \in Seq(Nodes)
        /\ Len(SubSeq(c, 1, j)) = IF 1 <= j THEN j - 1 + 1 ELSE 0
        /\ \A i \in 1 .. (j - 1 + 1) : SubSeq(c, 1, j)[i] = c[1 + i - 1]
    BY <2>1, SubSeqProperties
  <2>. QED
    BY <1>1, <2>1, <2>2
<1>3. SUFFICES ASSUME S # {} PROVE FALSE
  OBVIOUS
<1>4. PICK k \in S : \A i \in S : k <= i
  <2>1. S \in SUBSET Nat
    OBVIOUS
  <2>. HIDE DEF S
  <2>. QED
    BY <1>3, <2>1, LeastNat
<1>5. k \in 0 .. m /\ g[k] # Prefix(IF k < L THEN k ELSE L)
  OBVIOUS
<1>6. \A i \in 0 .. m : g[i] = IF i = 0 THEN <<>> ELSE WalkStep(h, b, g[i - 1])
  BY DEF IsWalk
<1>7. k # 0
  <2>1. k = 0 => (IF k < L THEN k ELSE L) = 0
    BY <1>1
  <2>2. Prefix(0) = <<>>
    BY <1>1, <1>2
  <2>. HIDE DEF Prefix
  <2>. QED
    BY <1>5, <1>6, <2>1, <2>2
<1>. DEFINE j == IF k - 1 < L THEN k - 1 ELSE L
<1>8. g[k - 1] = Prefix(j)
  <2>1. k - 1 \in 0 .. m /\ ~(k <= k - 1)
    BY <1>5, <1>7
  <2>. QED
    BY <1>4, <2>1
<1>. HIDE DEF S
<1>9. /\ j \in 0 .. L /\ j \in Nat /\ j + 1 \in Nat
      /\ (IF k < L THEN k ELSE L) = IF j < L THEN j + 1 ELSE L
  BY <1>1, <1>5, <1>7
<1>. HIDE DEF j
<1>10. g[k] = WalkStep(h, b, Prefix(j))
  BY <1>5, <1>6, <1>7, <1>8
<1>11. (IF Prefix(j) = <<>> THEN h.first[b] ELSE h.next[Prefix(j)[Len(Prefix(j))]])
         = EntryAt(c, j + 1)
  <2>1. Load(h, PlaceOf(c, b, j)) = EntryAt(c, j + 1)
    BY <1>9 DEF IsChain
  <2>2. Prefix(j) = <<>> <=> j = 0
    BY <1>2, <1>9
  <2>3. j # 0 => j \in 1 .. j /\ j \in 1 .. L
    BY <1>1, <1>9
  <2>4. Len(Prefix(j)) = j /\ \A i \in 1 .. j : Prefix(j)[i] = c[i]
    BY <1>2, <1>9
  <2>. HIDE DEF Prefix
  <2>5. Load(h, PlaceOf(c, b, j)) = IF j = 0 THEN h.first[b] ELSE h.next[c[j]]
    BY LoadIs DEF PlaceOf
  <2>. QED
    BY <2>1, <2>2, <2>3, <2>4, <2>5
<1>. HIDE DEF Prefix
<1>12. g[k] = IF EntryAt(c, j + 1) = NULL THEN Prefix(j)
              ELSE Append(Prefix(j), EntryAt(c, j + 1))
  BY <1>10, <1>11 DEF WalkStep
<1>13. CASE j = L
  <2>1. EntryAt(c, j + 1) = NULL
    BY <1>1, <1>13, ChainPlaces
  <2>. QED
    BY <1>5, <1>9, <1>12, <1>13, <2>1
<1>14. CASE j < L
  <2>1. j + 1 \in 1 .. L /\ j + 1 \in 0 .. L
    BY <1>1, <1>9, <1>14
  <2>2. EntryAt(c, j + 1) = c[j + 1] /\ c[j + 1] \in Nodes /\ c[j + 1] # NULL
    BY <1>1, <2>1, ChainsAssumption DEF EntryAt
  <2>3. g[k] = Append(Prefix(j), c[j + 1])
    BY <1>12, <2>2
  <2>4. Append(Prefix(j), c[j + 1]) = Prefix(j + 1)
    <3>. DEFINE p == Prefix(j)
                q == Prefix(j + 1)
                a == Append(p, c[j + 1])
    <3>1. /\ p \in Seq(Nodes) /\ Len(p) = j
          /\ \A i \in 1 .. j : p[i] = c[i]
      BY <1>2, <1>9
    <3>2. /\ q \in Seq(Nodes) /\ Len(q) = j + 1
          /\ \A i \in 1 .. (j + 1) : q[i] = c[i]
      BY <1>2, <2>1
    <3>. HIDE DEF p, q
    <3>3. /\ a \in Seq(Nodes) /\ Len(a) = j + 1
          /\ \A i \in 1 .. j : a[i] = p[i]
          /\ a[j + 1] = c[j + 1]
      BY <2>2, <3>1, AppendProperties
    <3>. HIDE DEF a
    <3>4. \A i \in 1 .. (j + 1) : a[i] = q[i]
      BY <1>9, <3>1, <3>2, <3>3
    <3>5. a = q
      BY <3>2, <3>3, <3>4, SeqEqual
    <3>. QED
      BY <3>5 DEF a, p, q
  <2>. QED
    BY <1>5, <1>9, <1>14, <2>3, <2>4
<1>. QED
  BY <1>1, <1>9, <1>13, <1>14

\* No more entries than nodes.
LEMMA ChainIsShort ==
  ASSUME NEW h, NEW b, NEW c, IsChain(h, b, c)
  PROVE  Len(c) <= Cardinality(Nodes)
<1>. DEFINE L == Len(c)
            I == 1 .. L
            f == [i \in I |-> c[i]]
            R == {c[i] : i \in I}
<1>1. L \in Nat /\ \A i \in I : c[i] \in Nodes
  BY DEF IsChain
<1>2. \A i, j \in I : f[i] = f[j] => i = j
  BY DEF IsChain
<1>3. f \in [I -> R] /\ \A r \in R : \E i \in I : f[i] = r
  OBVIOUS
<1>4. R \in SUBSET Nodes
  BY <1>1
<1>5. IsFiniteSet(I) /\ Cardinality(I) = L
  <2>. HIDE DEF L
  <2>1. Cardinality(1 .. L) = IF 1 > L THEN 0 ELSE L - 1 + 1
    BY <1>1, FS_Interval
  <2>2. IsFiniteSet(1 .. L)
    BY <1>1, FS_Interval
  <2>. QED
    BY <1>1, <2>1, <2>2
<1>. HIDE DEF f, I, R, L
<1>6. f \in Bijection(I, R)
  BY <1>2, <1>3, Fun_IsBij
<1>7. ExistsBijection(I, R)
  BY <1>6, Fun_ExistsBij
<1>8. Cardinality(R) = L
  BY <1>5, <1>7, FS_Bijection
<1>9. Cardinality(R) <= Cardinality(Nodes)
  BY <1>4, FS_Subset, ChainsAssumption
<1>. QED
  BY <1>8, <1>9 DEF L

\* hlist_for_each visits the sequence the chain spells.
LEMMA ChainIs ==
  ASSUME NEW h, NEW b \in Buckets, NEW c, IsChain(h, b, c)
  PROVE  Chain(h, b) = c
<1>. DEFINE m == Cardinality(Nodes)
<1>1. m \in Nat /\ c \in Seq(Nodes) /\ Len(c) \in Nat
  BY FS_CardinalityType, ChainsAssumption DEF IsChain
<1>2. PICK g : IsWalk(h, b, g, m) /\ Chain(h, b) = g[m]
  BY ChainIsWalked
<1>3. ~(m < Len(c)) /\ m \in 0 .. m
  BY <1>1, ChainIsShort
<1>. HIDE DEF m
<1>4. g[m] = SubSeq(c, 1, Len(c))
  <2>1. \A k \in 0 .. m : g[k] = SubSeq(c, 1, IF k < Len(c) THEN k ELSE Len(c))
    BY <1>1, <1>2, WalkIsPrefix
  <2>. QED
    BY <1>3, <2>1
<1>5. SubSeq(c, 1, Len(c)) = c
  BY <1>1, SubSeqFull
<1>. QED
  BY <1>2, <1>4, <1>5

-----------------------------------------------------------------------------
(* Insertion and removal.                                                  *)

\* The places of a chain are different pointers.
LEMMA PlacesDiffer ==
  ASSUME NEW h, NEW b \in Buckets, NEW c, IsChain(h, b, c)
  PROVE  \A i, j \in 0 .. Len(c) : PlaceOf(c, b, i) = PlaceOf(c, b, j) => i = j
<1>. SUFFICES ASSUME NEW i \in 0 .. Len(c), NEW j \in 0 .. Len(c),
                     PlaceOf(c, b, i) = PlaceOf(c, b, j)
              PROVE  i = j
  OBVIOUS
<1>1. \A k \in 0 .. Len(c) : k # 0 => k \in 1 .. Len(c)
  BY DEF IsChain
<1>2. \A k, m \in 1 .. Len(c) : c[k] = c[m] => k = m
  BY DEF IsChain
<1>. QED
  BY <1>1, <1>2, AddressesDiffer DEF PlaceOf

\* x as the p-th entry.
Inserted(c, p, x) ==
  [k \in 1 .. (Len(c) + 1) |-> IF k < p THEN c[k] ELSE IF k = p THEN x ELSE c[k - 1]]

Removed(c, p) == [k \in 1 .. (Len(c) - 1) |-> IF k < p THEN c[k] ELSE c[k + 1]]

LEMMA InsertedIs ==
  ASSUME NEW c \in Seq(Nodes), NEW p \in 1 .. (Len(c) + 1), NEW x \in Nodes
  PROVE  /\ Inserted(c, p, x) \in Seq(Nodes)
         /\ Len(Inserted(c, p, x)) = Len(c) + 1
         /\ \A k \in 1 .. (Len(c) + 1) :
              Inserted(c, p, x)[k] = IF k < p THEN c[k] ELSE IF k = p THEN x ELSE c[k - 1]
         /\ \A k \in 1 .. (Len(c) + 2) :
              EntryAt(Inserted(c, p, x), k) =
                IF k < p THEN EntryAt(c, k) ELSE IF k = p THEN x ELSE EntryAt(c, k - 1)
         /\ \A b : \A k \in 0 .. (Len(c) + 1) :
              PlaceOf(Inserted(c, p, x), b, k) =
                IF k < p THEN PlaceOf(c, b, k)
                ELSE IF k = p THEN NextOf(x) ELSE PlaceOf(c, b, k - 1)
<1>. DEFINE L == Len(c)
            f == Inserted(c, p, x)
<1>1. L \in Nat /\ (\A k \in 1 .. L : c[k] \in Nodes) /\ p \in Nat /\ p >= 1 /\ p <= L + 1
  OBVIOUS
<1>. HIDE DEF L
<1>2. \A k \in 1 .. (L + 1) : f[k] = IF k < p THEN c[k] ELSE IF k = p THEN x ELSE c[k - 1]
  BY DEF Inserted, L
<1>3. \A k \in 1 .. (L + 1) :
        (IF k < p THEN c[k] ELSE IF k = p THEN x ELSE c[k - 1]) \in Nodes
  <2>1. \A k \in 1 .. (L + 1) : /\ k < p => k \in 1 .. L
                                /\ ~(k < p) /\ k # p => k - 1 \in 1 .. L
    BY <1>1
  <2>. QED
    BY <1>1, <2>1
<1>4. f \in [1 .. (L + 1) -> Nodes]
  BY <1>3 DEF Inserted, L
<1>5. f \in Seq(Nodes) /\ Len(f) = L + 1
  <2>1. L + 1 \in Nat
    BY <1>1
  <2>. HIDE DEF f
  <2>. QED
    BY <1>4, <2>1
<1>. HIDE DEF f
<1>6. ASSUME NEW k \in 1 .. (L + 2)
      PROVE  EntryAt(f, k) = IF k < p THEN EntryAt(c, k)
                             ELSE IF k = p THEN x ELSE EntryAt(c, k - 1)
  <2>1. k \in 1 .. Len(f) <=> k \in 1 .. (L + 1)
    BY <1>5
  <2>2. CASE k < p
    <3>1. k \in 1 .. (L + 1) /\ k \in 1 .. L
      BY <1>1, <2>2
    <3>. QED
      BY <1>2, <2>1, <2>2, <3>1 DEF EntryAt, L
  <2>3. CASE k = p
    <3>1. k \in 1 .. (L + 1) /\ ~(k < p)
      BY <1>1, <2>3
    <3>. QED
      BY <1>2, <2>1, <2>3, <3>1 DEF EntryAt
  <2>4. CASE k > p
    <3>1. /\ ~(k < p) /\ k # p
          /\ k \in 1 .. (L + 1) <=> k - 1 \in 1 .. L
      BY <1>1, <2>4
    <3>. QED
      BY <1>2, <2>1, <3>1 DEF EntryAt, L
  <2>. QED
    BY <1>1, <2>2, <2>3, <2>4
<1>7. ASSUME NEW b, NEW k \in 0 .. (L + 1)
      PROVE  PlaceOf(f, b, k) = IF k < p THEN PlaceOf(c, b, k)
                                ELSE IF k = p THEN NextOf(x) ELSE PlaceOf(c, b, k - 1)
  <2>1. CASE k = 0
    <3>1. k < p
      BY <1>1, <2>1
    <3>. QED
      BY <2>1, <3>1 DEF PlaceOf
  <2>2. CASE k # 0
    <3>1. k \in 1 .. (L + 1) /\ (~(k < p) /\ k # p => k - 1 # 0)
      BY <1>1, <2>2
    <3>. QED
      BY <1>2, <2>2, <3>1 DEF PlaceOf
  <2>. QED
    BY <2>1, <2>2
<1>. QED
  BY <1>2, <1>5, <1>6, <1>7 DEF f, L

LEMMA RemovedIs ==
  ASSUME NEW c \in Seq(Nodes), NEW p \in 1 .. Len(c)
  PROVE  /\ Removed(c, p) \in Seq(Nodes)
         /\ Len(Removed(c, p)) = Len(c) - 1
         /\ \A k \in 1 .. (Len(c) - 1) :
              Removed(c, p)[k] = IF k < p THEN c[k] ELSE c[k + 1]
         /\ \A k \in 1 .. Len(c) :
              EntryAt(Removed(c, p), k) = IF k < p THEN EntryAt(c, k) ELSE EntryAt(c, k + 1)
         /\ \A b : \A k \in 0 .. (Len(c) - 1) :
              PlaceOf(Removed(c, p), b, k) =
                IF k < p THEN PlaceOf(c, b, k) ELSE PlaceOf(c, b, k + 1)
<1>. DEFINE L == Len(c)
            f == Removed(c, p)
<1>1. L \in Nat /\ (\A k \in 1 .. L : c[k] \in Nodes) /\ p \in Nat /\ p >= 1 /\ p <= L
  OBVIOUS
<1>. HIDE DEF L
<1>2. \A k \in 1 .. (L - 1) : f[k] = IF k < p THEN c[k] ELSE c[k + 1]
  BY DEF Removed, L
<1>3. \A k \in 1 .. (L - 1) : (IF k < p THEN c[k] ELSE c[k + 1]) \in Nodes
  <2>1. \A k \in 1 .. (L - 1) : k \in 1 .. L /\ k + 1 \in 1 .. L
    BY <1>1
  <2>. QED
    BY <1>1, <2>1
<1>4. f \in [1 .. (L - 1) -> Nodes]
  BY <1>3 DEF Removed, L
<1>5. f \in Seq(Nodes) /\ Len(f) = L - 1
  <2>1. L - 1 \in Nat
    BY <1>1
  <2>. HIDE DEF f
  <2>. QED
    BY <1>4, <2>1
<1>. HIDE DEF f
<1>6. ASSUME NEW k \in 1 .. L
      PROVE  EntryAt(f, k) = IF k < p THEN EntryAt(c, k) ELSE EntryAt(c, k + 1)
  <2>1. k \in 1 .. Len(f) <=> k \in 1 .. (L - 1)
    BY <1>5
  <2>2. CASE k < p
    <3>1. k \in 1 .. (L - 1) /\ k \in 1 .. L
      BY <1>1, <2>2
    <3>. QED
      BY <1>2, <2>1, <2>2, <3>1 DEF EntryAt, L
  <2>3. CASE ~(k < p)
    <3>1. k \in 1 .. (L - 1) <=> k + 1 \in 1 .. L
      BY <1>1, <2>3
    <3>. QED
      BY <1>2, <2>1, <2>3, <3>1 DEF EntryAt, L
  <2>. QED
    BY <2>2, <2>3
<1>7. ASSUME NEW b, NEW k \in 0 .. (L - 1)
      PROVE  PlaceOf(f, b, k) = IF k < p THEN PlaceOf(c, b, k) ELSE PlaceOf(c, b, k + 1)
  <2>1. CASE k = 0
    <3>1. k < p
      BY <1>1, <2>1
    <3>. QED
      BY <2>1, <3>1 DEF PlaceOf
  <2>2. CASE k # 0
    <3>1. k \in 1 .. (L - 1) /\ k + 1 # 0
      BY <1>1, <2>2
    <3>. QED
      BY <1>2, <2>2, <3>1 DEF PlaceOf
  <2>. QED
    BY <2>1, <2>2
<1>. QED
  BY <1>2, <1>5, <1>6, <1>7 DEF f, L

\* From h to f, x has become the p-th entry of the chain c behind b, and no
\* other pointer has changed.
InsertsAt(h, f, b, c, p, x) ==
  /\ Load(f, PlaceOf(c, b, p - 1)) = x
  /\ Load(f, NextOf(x)) = EntryAt(c, p)
  /\ \A q \in Addresses \ {PlaceOf(c, b, p - 1), NextOf(x)} : Load(f, q) = Load(h, q)
  /\ f.pprev[x] = PlaceOf(c, b, p - 1)
  /\ \A y \in Nodes \ {x} :
       f.pprev[y] = IF y = EntryAt(c, p) THEN NextOf(x) ELSE h.pprev[y]

\* The p-th entry has left it; what its own pointers hold does not matter.
RemovesAt(h, f, b, c, p) ==
  /\ Load(f, PlaceOf(c, b, p - 1)) = EntryAt(c, p + 1)
  /\ \A q \in Addresses \ {PlaceOf(c, b, p - 1), NextOf(c[p])} : Load(f, q) = Load(h, q)
  /\ \A y \in Nodes \ {c[p]} :
       f.pprev[y] = IF y = EntryAt(c, p + 1) THEN PlaceOf(c, b, p - 1) ELSE h.pprev[y]

LEMMA InsertedChain ==
  ASSUME NEW h, NEW b \in Buckets, NEW c, IsChain(h, b, c),
         NEW p \in 1 .. (Len(c) + 1), NEW x \in Nodes, \A k \in 1 .. Len(c) : c[k] # x,
         NEW f, InsertsAt(h, f, b, c, p, x)
  PROVE  IsChain(f, b, Inserted(c, p, x))
<1>. DEFINE L == Len(c)
            d == Inserted(c, p, x)
            at(k) == PlaceOf(c, b, k)
<1>1. /\ c \in Seq(Nodes) /\ L \in Nat /\ p \in 1 .. (L + 1) /\ p \in Nat
      /\ \A k \in 1 .. L : c[k] \in Nodes
  BY DEF IsChain
<1>2. /\ d \in Seq(Nodes) /\ Len(d) = L + 1
      /\ \A k \in 1 .. (L + 1) : d[k] = IF k < p THEN c[k] ELSE IF k = p THEN x ELSE c[k - 1]
      /\ \A k \in 1 .. (L + 2) :
           EntryAt(d, k) = IF k < p THEN EntryAt(c, k) ELSE IF k = p THEN x ELSE EntryAt(c, k - 1)
      /\ \A k \in 0 .. (L + 1) :
           PlaceOf(d, b, k) = IF k < p THEN at(k) ELSE IF k = p THEN NextOf(x) ELSE at(k - 1)
  BY <1>1, InsertedIs
<1>3. /\ \A i, j \in 1 .. L : c[i] = c[j] => i = j
      /\ \A k \in 0 .. L : Load(h, at(k)) = EntryAt(c, k + 1)
      /\ \A k \in 1 .. L : h.pprev[c[k]] = at(k - 1)
      /\ \A k \in 1 .. L : c[k] # x
  BY DEF IsChain
<1>4. /\ \A i, j \in 0 .. L : at(i) = at(j) => i = j
      /\ \A k \in 0 .. L : at(k) \in Addresses /\ at(k) # NextOf(x)
  <2>1. \A i, j \in 0 .. L : at(i) = at(j) => i = j
    BY PlacesDiffer
  <2>2. \A k \in 0 .. L : at(k) \in Addresses
    BY <1>1, ChainPlaces
  <2>3. ASSUME NEW k \in 0 .. L
        PROVE  at(k) # NextOf(x)
    <3>1. k = 0 \/ k \in 1 .. L
      BY <1>1
    <3>. QED
      BY <1>3, <3>1, AddressesDiffer DEF PlaceOf
  <2>. QED
    BY <2>1, <2>2, <2>3
<1>5. \A k \in 1 .. L : EntryAt(c, k) = c[k]
  BY DEF EntryAt
<1>6. /\ Load(f, at(p - 1)) = x
      /\ Load(f, NextOf(x)) = EntryAt(c, p)
      /\ \A q \in Addresses \ {at(p - 1), NextOf(x)} : Load(f, q) = Load(h, q)
      /\ f.pprev[x] = at(p - 1)
      /\ \A y \in Nodes \ {x} :
           f.pprev[y] = IF y = EntryAt(c, p) THEN NextOf(x) ELSE h.pprev[y]
  BY DEF InsertsAt
<1>. HIDE DEF L, d, at
<1>7. ASSUME NEW i \in 1 .. (L + 1), NEW j \in 1 .. (L + 1), d[i] = d[j]
      PROVE  i = j
  <2>1. \A k \in 1 .. (L + 1) : /\ k < p => k \in 1 .. L
                                /\ ~(k < p) /\ k # p => k - 1 \in 1 .. L
    BY <1>1
  <2>2. \A k \in 1 .. (L + 1) : d[k] = x <=> k = p
    <3>1. p \in 1 .. (L + 1) /\ ~(p < p)
      BY <1>1
    <3>2. ASSUME NEW k \in 1 .. (L + 1), k # p
          PROVE  d[k] # x
      BY ONLY <1>2, <1>3, <2>1, <3>2
    <3>. QED
      BY ONLY <1>2, <3>1, <3>2
  <2>3. CASE i = p \/ j = p
    BY <1>7, <2>2, <2>3
  <2>4. CASE i # p /\ j # p
    <3>. DEFINE u(k) == IF k < p THEN k ELSE k - 1
    <3>1. \A k \in 1 .. (L + 1) : k # p => u(k) \in 1 .. L /\ d[k] = c[u(k)]
      BY <1>2, <2>1
    <3>2. /\ u(i) \in 1 .. L /\ d[i] = c[u(i)]
          /\ u(j) \in 1 .. L /\ d[j] = c[u(j)]
      BY <2>4, <3>1
    <3>3. u(i) = u(j)
      <4>. HIDE DEF u
      <4>1. \A k, m \in 1 .. L : c[k] = c[m] => k = m
        BY <1>3
      <4>. QED
        BY ONLY <1>7, <3>2, <4>1
    <3>. QED
      BY <1>1, <2>4, <3>3
  <2>. QED
    BY <2>3, <2>4
<1>8. ASSUME NEW k \in 0 .. (L + 1)
      PROVE  Load(f, PlaceOf(d, b, k)) = EntryAt(d, k + 1)
  <2>0. k + 1 \in 1 .. (L + 2) /\ k \in Int /\ p - 1 \in 0 .. L /\ (k + 1) - 1 = k
    BY <1>1
  <2>1. CASE k < p - 1
    <3>1. k \in 0 .. L /\ k # p - 1 /\ k < p /\ k + 1 < p
      BY <1>1, <2>0, <2>1
    <3>2. PlaceOf(d, b, k) = at(k) /\ EntryAt(d, k + 1) = EntryAt(c, k + 1)
      BY <1>2, <2>0, <3>1
    <3>3. at(k) \in Addresses \ {at(p - 1), NextOf(x)}
      BY <1>4, <2>0, <3>1
    <3>. QED
      BY <1>3, <1>6, <3>1, <3>2, <3>3
  <2>2. CASE k = p - 1
    <3>1. k < p /\ k + 1 = p
      BY <1>1, <2>2
    <3>2. PlaceOf(d, b, k) = at(p - 1) /\ EntryAt(d, k + 1) = x
      BY <1>1, <1>2, <2>0, <2>2, <3>1
    <3>. QED
      BY <1>6, <3>2
  <2>3. CASE k = p
    <3>1. ~(k < p) /\ ~(k + 1 < p) /\ k + 1 # p
      BY <1>1, <2>3
    <3>2. PlaceOf(d, b, k) = NextOf(x) /\ EntryAt(d, k + 1) = EntryAt(c, p)
      BY <1>2, <2>0, <2>3, <3>1
    <3>. QED
      BY <1>6, <3>2
  <2>4. CASE k > p
    <3>1. /\ ~(k < p) /\ k # p /\ ~(k + 1 < p) /\ k + 1 # p
          /\ k - 1 \in 0 .. L /\ k - 1 # p - 1 /\ (k - 1) + 1 = k
      BY <1>1, <2>0, <2>4
    <3>2. PlaceOf(d, b, k) = at(k - 1) /\ EntryAt(d, k + 1) = EntryAt(c, k)
      BY <1>2, <2>0, <3>1
    <3>3. at(k - 1) \in Addresses \ {at(p - 1), NextOf(x)}
      BY <1>4, <2>0, <3>1
    <3>4. Load(h, at(k - 1)) = EntryAt(c, k)
      <4>1. Load(h, at(k - 1)) = EntryAt(c, (k - 1) + 1)
        BY <1>3, <3>1
      <4>. QED
        BY <3>1, <4>1
    <3>. QED
      BY <1>6, <3>2, <3>3, <3>4
  <2>. QED
    BY <1>1, <2>0, <2>1, <2>2, <2>3, <2>4
<1>9. ASSUME NEW k \in 1 .. (L + 1)
      PROVE  f.pprev[d[k]] = PlaceOf(d, b, k - 1)
  <2>0. k - 1 \in 0 .. (L + 1) /\ k \in Int
    BY <1>1
  <2>1. CASE k < p
    <3>1. k \in 1 .. L /\ k - 1 < p
      BY <1>1, <2>0, <2>1
    <3>2. d[k] = c[k] /\ PlaceOf(d, b, k - 1) = at(k - 1)
      BY <1>2, <2>0, <2>1, <3>1
    <3>3. c[k] # EntryAt(c, p)
      <4>1. CASE p \in 1 .. L
        BY <1>3, <1>5, <2>1, <3>1, <4>1
      <4>2. CASE ~(p \in 1 .. L)
        <5>1. EntryAt(c, p) = NULL
          BY <4>2 DEF EntryAt, L
        <5>. QED
          BY <1>1, <3>1, <5>1, ChainsAssumption
      <4>. QED
        BY <4>1, <4>2
    <3>. QED
      BY <1>1, <1>3, <1>6, <3>1, <3>2, <3>3
  <2>2. CASE k = p
    <3>1. k - 1 < p /\ ~(k < p)
      BY <1>1, <2>2
    <3>2. d[k] = x /\ PlaceOf(d, b, k - 1) = at(p - 1)
      BY <1>2, <2>0, <2>2, <3>1
    <3>. QED
      BY <1>6, <3>2
  <2>3. CASE k = p + 1
    <3>1. ~(k < p) /\ k # p /\ ~(k - 1 < p) /\ k - 1 = p /\ p \in 1 .. L
      BY <1>1, <2>3
    <3>2. d[k] = c[p] /\ PlaceOf(d, b, k - 1) = NextOf(x)
      BY <1>2, <2>0, <3>1
    <3>. QED
      BY <1>1, <1>3, <1>5, <1>6, <3>1, <3>2
  <2>4. CASE k > p + 1
    <3>1. /\ ~(k < p) /\ k # p /\ ~(k - 1 < p) /\ k - 1 # p
          /\ k - 1 \in 1 .. L /\ p \in 1 .. L
      BY <1>1, <2>0, <2>4
    <3>2. d[k] = c[k - 1] /\ PlaceOf(d, b, k - 1) = at((k - 1) - 1)
      BY <1>2, <2>0, <3>1
    <3>3. c[k - 1] # EntryAt(c, p)
      BY <1>3, <1>5, <3>1
    <3>. QED
      BY <1>1, <1>3, <1>6, <3>1, <3>2, <3>3
  <2>. QED
    BY <1>1, <2>0, <2>1, <2>2, <2>3, <2>4
<1>. QED
  BY <1>2, <1>7, <1>8, <1>9 DEF IsChain, d

LEMMA RemovedChain ==
  ASSUME NEW h, NEW b \in Buckets, NEW c, IsChain(h, b, c), NEW p \in 1 .. Len(c),
         NEW f, RemovesAt(h, f, b, c, p)
  PROVE  IsChain(f, b, Removed(c, p))
<1>. DEFINE L == Len(c)
            d == Removed(c, p)
            at(k) == PlaceOf(c, b, k)
<1>1. /\ c \in Seq(Nodes) /\ L \in Nat /\ p \in 1 .. L /\ p \in Nat
      /\ \A k \in 1 .. L : c[k] \in Nodes
  BY DEF IsChain
<1>2. /\ d \in Seq(Nodes) /\ Len(d) = L - 1
      /\ \A k \in 1 .. (L - 1) : d[k] = IF k < p THEN c[k] ELSE c[k + 1]
      /\ \A k \in 1 .. L :
           EntryAt(d, k) = IF k < p THEN EntryAt(c, k) ELSE EntryAt(c, k + 1)
      /\ \A k \in 0 .. (L - 1) :
           PlaceOf(d, b, k) = IF k < p THEN at(k) ELSE at(k + 1)
  BY <1>1, RemovedIs
<1>3. /\ \A i, j \in 1 .. L : c[i] = c[j] => i = j
      /\ \A k \in 0 .. L : Load(h, at(k)) = EntryAt(c, k + 1)
      /\ \A k \in 1 .. L : h.pprev[c[k]] = at(k - 1)
  BY DEF IsChain
<1>4. /\ \A i, j \in 0 .. L : at(i) = at(j) => i = j
      /\ \A k \in 0 .. L : at(k) \in Addresses
      /\ at(p) = NextOf(c[p])
  <2>1. \A i, j \in 0 .. L : at(i) = at(j) => i = j
    BY PlacesDiffer
  <2>2. (\A k \in 0 .. L : at(k) \in Addresses) /\ at(p) = NextOf(c[p])
    BY <1>1, ChainPlaces
  <2>. QED
    BY <2>1, <2>2
<1>5. \A k \in 1 .. L : EntryAt(c, k) = c[k]
  BY DEF EntryAt
<1>6. /\ Load(f, at(p - 1)) = EntryAt(c, p + 1)
      /\ \A q \in Addresses \ {at(p - 1), NextOf(c[p])} : Load(f, q) = Load(h, q)
      /\ \A y \in Nodes \ {c[p]} :
           f.pprev[y] = IF y = EntryAt(c, p + 1) THEN at(p - 1) ELSE h.pprev[y]
  BY DEF RemovesAt
<1>. HIDE DEF L, d, at
<1>7. ASSUME NEW i \in 1 .. (L - 1), NEW j \in 1 .. (L - 1), d[i] = d[j]
      PROVE  i = j
  <2>. DEFINE u(k) == IF k < p THEN k ELSE k + 1
  <2>1. \A k \in 1 .. (L - 1) : u(k) \in 1 .. L /\ d[k] = c[u(k)]
    BY <1>1, <1>2
  <2>2. u(i) = u(j)
    BY <1>3, <1>7, <2>1
  <2>. QED
    BY <1>1, <2>2
<1>8. ASSUME NEW k \in 0 .. (L - 1)
      PROVE  Load(f, PlaceOf(d, b, k)) = EntryAt(d, k + 1)
  <2>0. k + 1 \in 1 .. L /\ k \in Int /\ p - 1 \in 0 .. L /\ p \in 0 .. L
    BY <1>1
  <2>1. CASE k < p - 1
    <3>1. k \in 0 .. L /\ k # p - 1 /\ k # p /\ k < p /\ k + 1 < p
      BY <1>1, <2>0, <2>1
    <3>2. PlaceOf(d, b, k) = at(k) /\ EntryAt(d, k + 1) = EntryAt(c, k + 1)
      BY <1>2, <2>0, <3>1
    <3>3. at(k) \in Addresses \ {at(p - 1), NextOf(c[p])}
      BY <1>4, <2>0, <3>1
    <3>. QED
      BY <1>3, <1>6, <3>1, <3>2, <3>3
  <2>2. CASE k = p - 1
    <3>1. k < p /\ ~(k + 1 < p) /\ (k + 1) + 1 = p + 1
      BY <1>1, <2>2
    <3>2. PlaceOf(d, b, k) = at(p - 1) /\ EntryAt(d, k + 1) = EntryAt(c, p + 1)
      BY <1>2, <2>0, <2>2, <3>1
    <3>. QED
      BY <1>6, <3>2
  <2>3. CASE k >= p
    <3>1. /\ ~(k < p) /\ ~(k + 1 < p) /\ k + 1 \in 0 .. L /\ k + 1 # p - 1 /\ k + 1 # p
      BY <1>1, <2>0, <2>3
    <3>2. PlaceOf(d, b, k) = at(k + 1) /\ EntryAt(d, k + 1) = EntryAt(c, (k + 1) + 1)
      BY <1>2, <2>0, <3>1
    <3>3. at(k + 1) \in Addresses \ {at(p - 1), NextOf(c[p])}
      BY <1>4, <2>0, <3>1
    <3>. QED
      BY <1>3, <1>6, <3>1, <3>2, <3>3
  <2>. QED
    BY <1>1, <2>0, <2>1, <2>2, <2>3
<1>9. ASSUME NEW k \in 1 .. (L - 1)
      PROVE  f.pprev[d[k]] = PlaceOf(d, b, k - 1)
  <2>0. k - 1 \in 0 .. (L - 1) /\ k \in 1 .. L /\ k + 1 \in 1 .. L /\ k \in Int
    BY <1>1
  <2>1. CASE k < p
    <3>1. k - 1 < p /\ k # p
      BY <1>1, <2>0, <2>1
    <3>2. d[k] = c[k] /\ PlaceOf(d, b, k - 1) = at(k - 1)
      BY <1>2, <2>0, <2>1, <3>1
    <3>3. c[k] # EntryAt(c, p + 1)
      <4>1. CASE p + 1 \in 1 .. L
        <5>1. k # p + 1
          BY <1>1, <2>0, <2>1
        <5>. QED
          BY <1>3, <1>5, <2>0, <4>1, <5>1
      <4>2. CASE ~(p + 1 \in 1 .. L)
        <5>1. EntryAt(c, p + 1) = NULL
          BY <4>2 DEF EntryAt, L
        <5>. QED
          BY <1>1, <2>0, <5>1, ChainsAssumption
      <4>. QED
        BY <4>1, <4>2
    <3>4. c[k] # c[p]
      BY <1>1, <1>3, <2>0, <3>1
    <3>. QED
      BY <1>1, <1>3, <1>6, <2>0, <3>2, <3>3, <3>4
  <2>2. CASE k = p
    <3>1. k - 1 < p /\ ~(k < p) /\ p + 1 \in 1 .. L /\ p + 1 # p
      BY <1>1, <2>0, <2>2
    <3>2. d[k] = c[p + 1] /\ PlaceOf(d, b, k - 1) = at(p - 1)
      BY <1>2, <2>0, <2>2, <3>1
    <3>3. c[p + 1] # c[p]
      BY <1>1, <1>3, <3>1
    <3>. QED
      BY <1>1, <1>5, <1>6, <3>1, <3>2, <3>3
  <2>3. CASE k > p
    <3>1. /\ ~(k < p) /\ ~(k - 1 < p) /\ (k - 1) + 1 = (k + 1) - 1
          /\ k + 1 # p /\ k + 1 # p + 1 /\ p + 1 \in 1 .. L
      BY <1>1, <2>0, <2>3
    <3>2. d[k] = c[k + 1] /\ PlaceOf(d, b, k - 1) = at((k + 1) - 1)
      BY <1>2, <2>0, <3>1
    <3>3. c[k + 1] # EntryAt(c, p + 1) /\ c[k + 1] # c[p]
      BY <1>1, <1>3, <1>5, <2>0, <3>1
    <3>. QED
      BY <1>1, <1>3, <1>6, <2>0, <3>2, <3>3
  <2>. QED
    BY <1>1, <2>0, <2>1, <2>2, <2>3
<1>. QED
  BY <1>2, <1>7, <1>8, <1>9 DEF IsChain, d

-----------------------------------------------------------------------------
(* All chains of the table.                                                *)

\* Every bucket has its chain, and no entry is on two.
AllChains(h) ==
  /\ WellShaped(h)
  /\ \A b \in Buckets : IsChain(h, b, Chain(h, b))
  /\ \A b, d \in Buckets :
       \A i \in 1 .. Len(Chain(h, b)), j \in 1 .. Len(Chain(h, d)) :
         Chain(h, b)[i] = Chain(h, d)[j] => b = d

LEMMA LinkedIs ==
  ASSUME NEW h
  PROVE  \A x : x \in Linked(h) <=>
                  \E b \in Buckets : \E k \in 1 .. Len(Chain(h, b)) : Chain(h, b)[k] = x
BY DEF Linked

\* A chain whose pointers have not changed is still there.
LEMMA ChainStays ==
  ASSUME NEW h, NEW f, NEW b, NEW c, IsChain(h, b, c),
         \A k \in 0 .. Len(c) : Load(f, PlaceOf(c, b, k)) = Load(h, PlaceOf(c, b, k)),
         \A k \in 1 .. Len(c) : f.pprev[c[k]] = h.pprev[c[k]]
  PROVE  IsChain(f, b, c)
BY DEF IsChain

LEMMA AllPlacesDiffer ==
  ASSUME NEW h, AllChains(h), NEW b \in Buckets, NEW d \in Buckets, b # d,
         NEW i \in 0 .. Len(Chain(h, b)), NEW j \in 0 .. Len(Chain(h, d))
  PROVE  PlaceOf(Chain(h, b), b, i) # PlaceOf(Chain(h, d), d, j)
<1>1. /\ i # 0 => i \in 1 .. Len(Chain(h, b))
      /\ j # 0 => j \in 1 .. Len(Chain(h, d))
  BY DEF AllChains, IsChain
<1>2. i # 0 /\ j # 0 => Chain(h, b)[i] # Chain(h, d)[j]
  BY <1>1 DEF AllChains
<1>. QED
  BY <1>2, AddressesDiffer DEF PlaceOf

\* The entries, and places, of an unlinked entry and of the chains differ.
LEMMA UnlinkedDiffers ==
  ASSUME NEW h, AllChains(h), NEW x \in Nodes \ Linked(h), NEW b \in Buckets
  PROVE  /\ \A k \in 1 .. Len(Chain(h, b)) : Chain(h, b)[k] # x
         /\ \A k \in 0 .. Len(Chain(h, b)) : PlaceOf(Chain(h, b), b, k) # NextOf(x)
<1>1. \A k \in 1 .. Len(Chain(h, b)) : Chain(h, b)[k] # x
  BY LinkedIs
<1>2. \A k \in 0 .. Len(Chain(h, b)) : k # 0 => k \in 1 .. Len(Chain(h, b))
  BY DEF AllChains, IsChain
<1>. QED
  BY <1>1, <1>2, AddressesDiffer DEF PlaceOf

LEMMA Insertion ==
  ASSUME NEW h, AllChains(h), NEW f, WellShaped(f), NEW b \in Buckets,
         NEW p \in 1 .. (Len(Chain(h, b)) + 1), NEW x \in Nodes \ Linked(h),
         InsertsAt(h, f, b, Chain(h, b), p, x)
  PROVE  /\ AllChains(f)
         /\ Chain(f, b) = Inserted(Chain(h, b), p, x)
         /\ \A d \in Buckets \ {b} : Chain(f, d) = Chain(h, d)
         /\ Linked(f) = Linked(h) \cup {x}
<1>. DEFINE c == Chain(h, b)
            L == Len(c)
<1>1. /\ IsChain(h, b, c) /\ c \in Seq(Nodes) /\ L \in Nat
      /\ p \in 1 .. (L + 1) /\ \A k \in 1 .. L : c[k] # x
  <2>1. IsChain(h, b, c)
    BY DEF AllChains
  <2>2. \A k \in 1 .. L : c[k] # x
    BY UnlinkedDiffers
  <2>3. c \in Seq(Nodes) /\ L \in Nat
    BY <2>1 DEF IsChain
  <2>. QED
    BY <2>1, <2>2, <2>3
<1>2. IsChain(f, b, Inserted(c, p, x))
  BY <1>1, InsertedChain
<1>3. Chain(f, b) = Inserted(c, p, x)
  BY <1>2, ChainIs
<1>4. ASSUME NEW d \in Buckets, d # b
      PROVE  IsChain(f, d, Chain(h, d)) /\ Chain(f, d) = Chain(h, d)
  <2>. DEFINE e == Chain(h, d)
  <2>1. IsChain(h, d, e)
    BY DEF AllChains
  <2>2. e \in Seq(Nodes) /\ p - 1 \in 0 .. L
    BY <1>1, <2>1 DEF IsChain
  <2>3. ASSUME NEW k \in 0 .. Len(e)
        PROVE  Load(f, PlaceOf(e, d, k)) = Load(h, PlaceOf(e, d, k))
    <3>1. PlaceOf(e, d, k) \in Addresses
      BY <2>2, ChainPlaces
    <3>2. PlaceOf(e, d, k) # NextOf(x)
      BY UnlinkedDiffers
    <3>3. PlaceOf(e, d, k) # PlaceOf(c, b, p - 1)
      BY <1>4, <2>2, AllPlacesDiffer
    <3>. QED
      BY <3>1, <3>2, <3>3 DEF InsertsAt
  <2>4. ASSUME NEW k \in 1 .. Len(e)
        PROVE  f.pprev[e[k]] = h.pprev[e[k]]
    <3>1. e[k] \in Nodes /\ e[k] # x
      BY <2>2, UnlinkedDiffers
    <3>2. e[k] # EntryAt(c, p)
      <4>1. CASE p \in 1 .. L
        BY <1>4, <4>1 DEF EntryAt, AllChains
      <4>2. CASE ~(p \in 1 .. L)
        BY <3>1, <4>2, ChainsAssumption DEF EntryAt
      <4>. QED
        BY <4>1, <4>2
    <3>. QED
      BY <3>1, <3>2 DEF InsertsAt
  <2>5. IsChain(f, d, e)
    BY <2>1, <2>3, <2>4, ChainStays
  <2>. QED
    BY <2>5, ChainIs
<1>5. /\ Len(Chain(f, b)) = L + 1
      /\ \A k \in 1 .. (L + 1) :
           Chain(f, b)[k] = IF k < p THEN c[k] ELSE IF k = p THEN x ELSE c[k - 1]
  <2>1. /\ Len(Inserted(c, p, x)) = L + 1
        /\ \A k \in 1 .. (L + 1) :
             Inserted(c, p, x)[k] = IF k < p THEN c[k] ELSE IF k = p THEN x ELSE c[k - 1]
    BY ONLY <1>1, x \in Nodes, InsertedIs
  <2>. QED
    BY ONLY <1>3, <2>1
<1>6. /\ p \in 1 .. (L + 1) /\ p \in Int /\ ~(p < p)
      /\ \A k \in 1 .. (L + 1) : /\ k < p => k \in 1 .. L
                                 /\ ~(k < p) /\ k # p => k - 1 \in 1 .. L
      /\ \A k \in 1 .. L : /\ k \in 1 .. (L + 1) /\ k + 1 \in 1 .. (L + 1)
                           /\ ~(k < p) => ~(k + 1 < p) /\ k + 1 # p /\ (k + 1) - 1 = k
  BY <1>1
<1>7. \A y : (\E k \in 1 .. Len(Chain(f, b)) : Chain(f, b)[k] = y)
               <=> y = x \/ \E k \in 1 .. L : c[k] = y
  <2>. HIDE DEF c, L
  <2>1. ASSUME NEW k \in 1 .. (L + 1)
        PROVE  Chain(f, b)[k] = x \/ \E i \in 1 .. L : c[i] = Chain(f, b)[k]
    BY <1>5, <1>6
  <2>2. ASSUME NEW k \in 1 .. L
        PROVE  \E i \in 1 .. (L + 1) : Chain(f, b)[i] = c[k]
    <3>1. CASE k < p
      BY <1>5, <1>6, <3>1
    <3>2. CASE ~(k < p)
      <4>1. Chain(f, b)[k + 1] = c[k]
        BY <1>5, <1>6, <3>2
      <4>. QED
        BY <1>6, <4>1
    <3>. QED
      BY <3>1, <3>2
  <2>3. Chain(f, b)[p] = x
    BY <1>5, <1>6
  <2>4. ASSUME NEW y, NEW k \in 1 .. (L + 1), Chain(f, b)[k] = y
        PROVE  y = x \/ \E i \in 1 .. L : c[i] = y
    BY <2>1, <2>4
  <2>5. ASSUME NEW y, y = x \/ \E i \in 1 .. L : c[i] = y
        PROVE  \E k \in 1 .. (L + 1) : Chain(f, b)[k] = y
    BY <1>6, <2>2, <2>3, <2>5
  <2>6. Len(Chain(f, b)) = L + 1
    BY <1>5
  <2>. QED
    <3>. SUFFICES ASSUME NEW y
                  PROVE  (\E k \in 1 .. (L + 1) : Chain(f, b)[k] = y)
                           <=> y = x \/ \E k \in 1 .. L : c[k] = y
      BY <2>6
    <3>. QED
      BY <2>4, <2>5
<1>8. Linked(f) = Linked(h) \cup {x}
  <2>1. ASSUME NEW y
        PROVE  y \in Linked(f) <=> y = x \/ y \in Linked(h)
    <3>. DEFINE On(g, d) == \E k \in 1 .. Len(Chain(g, d)) : Chain(g, d)[k] = y
    <3>1. \A d \in Buckets \ {b} : On(f, d) <=> On(h, d)
      BY <1>4
    <3>2. On(f, b) <=> y = x \/ On(h, b)
      BY <1>7
    <3>3. /\ y \in Linked(f) <=> \E d \in Buckets : On(f, d)
          /\ y \in Linked(h) <=> \E d \in Buckets : On(h, d)
      BY LinkedIs
    <3>. HIDE DEF On
    <3>. QED
      BY <3>1, <3>2, <3>3
  <2>. QED
    BY <2>1
<1>9. AllChains(f)
  <2>1. \A d \in Buckets : IsChain(f, d, Chain(f, d))
    BY <1>2, <1>3, <1>4
  <2>2. ASSUME NEW d \in Buckets, d # b,
               NEW i \in 1 .. Len(Chain(f, b)), NEW j \in 1 .. Len(Chain(f, d))
        PROVE  Chain(f, b)[i] # Chain(f, d)[j]
    <3>1. Chain(f, b)[i] = x \/ \E k \in 1 .. L : c[k] = Chain(f, b)[i]
      BY <1>7
    <3>2. Chain(f, d) = Chain(h, d)
      BY <1>4, <2>2
    <3>3. Chain(h, d)[j] # x
      BY <3>2, UnlinkedDiffers
    <3>4. \A k \in 1 .. L : c[k] # Chain(h, d)[j]
      BY <2>2, <3>2 DEF AllChains
    <3>. QED
      BY <3>1, <3>2, <3>3, <3>4
  <2>3. ASSUME NEW a \in Buckets, NEW d \in Buckets, a # b, d # b,
               NEW i \in 1 .. Len(Chain(f, a)), NEW j \in 1 .. Len(Chain(f, d)),
               Chain(f, a)[i] = Chain(f, d)[j]
        PROVE  a = d
    <3>1. Chain(f, a) = Chain(h, a) /\ Chain(f, d) = Chain(h, d)
      BY <1>4, <2>3
    <3>. QED
      BY <2>3, <3>1 DEF AllChains
  <2>. QED
    BY <2>1, <2>2, <2>3 DEF AllChains
<1>. QED
  BY <1>3, <1>4, <1>8, <1>9

LEMMA Removal ==
  ASSUME NEW h, AllChains(h), NEW f, WellShaped(f), NEW b \in Buckets,
         NEW p \in 1 .. Len(Chain(h, b)), RemovesAt(h, f, b, Chain(h, b), p)
  PROVE  /\ AllChains(f)
         /\ Chain(f, b) = Removed(Chain(h, b), p)
         /\ \A d \in Buckets \ {b} : Chain(f, d) = Chain(h, d)
         /\ Linked(f) = Linked(h) \ {Chain(h, b)[p]}
<1>. DEFINE c == Chain(h, b)
            L == Len(c)
            x == c[p]
<1>1. /\ IsChain(h, b, c) /\ c \in Seq(Nodes) /\ L \in Nat /\ p \in 1 .. L
      /\ \A i, j \in 1 .. L : c[i] = c[j] => i = j
  <2>1. IsChain(h, b, c)
    BY DEF AllChains
  <2>. QED
    BY <2>1 DEF IsChain
<1>2. IsChain(f, b, Removed(c, p))
  BY <1>1, RemovedChain
<1>3. Chain(f, b) = Removed(c, p)
  BY <1>2, ChainIs
<1>4. ASSUME NEW d \in Buckets, d # b
      PROVE  /\ IsChain(f, d, Chain(h, d)) /\ Chain(f, d) = Chain(h, d)
             /\ \A k \in 1 .. Len(Chain(h, d)) : Chain(h, d)[k] # x
  <2>. DEFINE e == Chain(h, d)
  <2>1. IsChain(h, d, e)
    BY DEF AllChains
  <2>2. e \in Seq(Nodes) /\ p - 1 \in 0 .. L /\ p \in 0 .. L
    BY <1>1, <2>1 DEF IsChain
  <2>3. ASSUME NEW k \in 0 .. Len(e)
        PROVE  Load(f, PlaceOf(e, d, k)) = Load(h, PlaceOf(e, d, k))
    <3>1. PlaceOf(e, d, k) \in Addresses
      BY <2>2, ChainPlaces
    <3>2. PlaceOf(e, d, k) # NextOf(x)
      <4>1. PlaceOf(c, b, p) = NextOf(x)
        BY <1>1, ChainPlaces
      <4>2. PlaceOf(e, d, k) # PlaceOf(c, b, p)
        BY <1>4, <2>2, AllPlacesDiffer
      <4>. QED
        BY <4>1, <4>2
    <3>3. PlaceOf(e, d, k) # PlaceOf(c, b, p - 1)
      BY <1>4, <2>2, AllPlacesDiffer
    <3>. QED
      BY <3>1, <3>2, <3>3 DEF RemovesAt
  <2>4. ASSUME NEW k \in 1 .. Len(e)
        PROVE  f.pprev[e[k]] = h.pprev[e[k]] /\ e[k] # x
    <3>1. e[k] \in Nodes /\ e[k] # x
      <4>1. e[k] \in Nodes
        BY <2>2
      <4>. QED
        BY <1>4, <4>1 DEF AllChains
    <3>2. e[k] # EntryAt(c, p + 1)
      <4>1. CASE p + 1 \in 1 .. L
        BY <1>4, <4>1 DEF EntryAt, AllChains
      <4>2. CASE ~(p + 1 \in 1 .. L)
        BY <3>1, <4>2, ChainsAssumption DEF EntryAt
      <4>. QED
        BY <4>1, <4>2
    <3>. QED
      BY <3>1, <3>2 DEF RemovesAt
  <2>5. IsChain(f, d, e)
    BY <2>1, <2>3, <2>4, ChainStays
  <2>. QED
    BY <2>4, <2>5, ChainIs
<1>5. /\ Len(Chain(f, b)) = L - 1
      /\ \A k \in 1 .. (L - 1) : Chain(f, b)[k] = IF k < p THEN c[k] ELSE c[k + 1]
  <2>1. c \in Seq(Nodes) /\ p \in 1 .. Len(c)
    BY <1>1
  <2>2. /\ Len(Removed(c, p)) = Len(c) - 1
        /\ \A k \in 1 .. (Len(c) - 1) : Removed(c, p)[k] = IF k < p THEN c[k] ELSE c[k + 1]
    BY ONLY <2>1, RemovedIs
  <2>. QED
    BY <1>3, <2>2
<1>6. /\ p \in 1 .. L /\ p \in Int
      /\ \A k \in 1 .. (L - 1) : /\ k \in 1 .. L /\ k + 1 \in 1 .. L
                                 /\ k < p => k # p
                                 /\ ~(k < p) => k + 1 # p
      /\ \A k \in 1 .. L : /\ k < p => k \in 1 .. (L - 1)
                           /\ ~(k < p) /\ k # p =>
                                k - 1 \in 1 .. (L - 1) /\ ~(k - 1 < p) /\ (k - 1) + 1 = k
  BY <1>1
<1>7. \A y : (\E k \in 1 .. Len(Chain(f, b)) : Chain(f, b)[k] = y)
               <=> y # x /\ \E k \in 1 .. L : c[k] = y
  <2>. HIDE DEF c, L
  <2>1. ASSUME NEW k \in 1 .. (L - 1)
        PROVE  Chain(f, b)[k] # x /\ \E i \in 1 .. L : c[i] = Chain(f, b)[k]
    <3>1. CASE k < p
      BY <1>1, <1>5, <1>6, <3>1
    <3>2. CASE ~(k < p)
      <4>1. Chain(f, b)[k] = c[k + 1] /\ k + 1 \in 1 .. L /\ k + 1 # p
        BY <1>5, <1>6, <3>2
      <4>. QED
        BY <1>1, <4>1
    <3>. QED
      BY <3>1, <3>2
  <2>2. ASSUME NEW k \in 1 .. L, k # p
        PROVE  \E i \in 1 .. (L - 1) : Chain(f, b)[i] = c[k]
    <3>1. CASE k < p
      BY <1>5, <1>6, <3>1
    <3>2. CASE ~(k < p)
      <4>1. k - 1 \in 1 .. (L - 1) /\ ~(k - 1 < p) /\ (k - 1) + 1 = k
        BY <1>6, <2>2, <3>2
      <4>2. Chain(f, b)[k - 1] = c[(k - 1) + 1]
        BY <1>5, <4>1
      <4>. QED
        BY <4>1, <4>2
    <3>. QED
      BY <3>1, <3>2
  <2>. QED
    BY <1>5, <1>6, <2>1, <2>2
<1>8. Linked(f) = Linked(h) \ {x}
  <2>1. ASSUME NEW y
        PROVE  y \in Linked(f) <=> y # x /\ y \in Linked(h)
    BY <1>4, <1>7, LinkedIs
  <2>. QED
    BY <2>1
<1>9. AllChains(f)
  <2>1. \A d \in Buckets : IsChain(f, d, Chain(f, d))
    BY <1>2, <1>3, <1>4
  <2>2. ASSUME NEW d \in Buckets, d # b,
               NEW i \in 1 .. Len(Chain(f, b)), NEW j \in 1 .. Len(Chain(f, d))
        PROVE  Chain(f, b)[i] # Chain(f, d)[j]
    <3>1. \E k \in 1 .. L : c[k] = Chain(f, b)[i]
      BY <1>7
    <3>2. Chain(f, d) = Chain(h, d)
      BY <1>4, <2>2
    <3>3. \A k \in 1 .. L : c[k] # Chain(h, d)[j]
      BY <2>2, <3>2 DEF AllChains
    <3>. QED
      BY <3>1, <3>2, <3>3
  <2>3. ASSUME NEW a \in Buckets, NEW d \in Buckets, a # b, d # b,
               NEW i \in 1 .. Len(Chain(f, a)), NEW j \in 1 .. Len(Chain(f, d)),
               Chain(f, a)[i] = Chain(f, d)[j]
        PROVE  a = d
    <3>1. Chain(f, a) = Chain(h, a) /\ Chain(f, d) = Chain(h, d)
      BY <1>4, <2>3
    <3>. QED
      BY <2>3, <3>1 DEF AllChains
  <2>. QED
    BY <2>1, <2>2, <2>3 DEF AllChains
<1>. QED
  BY <1>3, <1>4, <1>8, <1>9

\* Neither changes the pointers of an entry that is on no chain.
SamePointers(h, f, S) == \A y \in S : f.next[y] = h.next[y] /\ f.pprev[y] = h.pprev[y]

LEMMA InsertionSpares ==
  ASSUME NEW h, AllChains(h), NEW f, NEW b \in Buckets,
         NEW p \in 1 .. (Len(Chain(h, b)) + 1), NEW x \in Nodes,
         InsertsAt(h, f, b, Chain(h, b), p, x)
  PROVE  SamePointers(h, f, (Nodes \ Linked(h)) \ {x})
<1>. DEFINE c == Chain(h, b)
<1>. SUFFICES ASSUME NEW y \in Nodes \ Linked(h), y # x
              PROVE  f.next[y] = h.next[y] /\ f.pprev[y] = h.pprev[y]
  BY DEF SamePointers
<1>1. p - 1 \in 0 .. Len(c)
  BY DEF AllChains, IsChain
<1>2. NextOf(y) \in Addresses \ {PlaceOf(c, b, p - 1), NextOf(x)}
  <2>1. PlaceOf(c, b, p - 1) # NextOf(y)
    BY <1>1, UnlinkedDiffers
  <2>. QED
    BY <2>1, AddressesDiffer
<1>3. Load(f, NextOf(y)) = Load(h, NextOf(y))
  BY <1>2 DEF InsertsAt
<1>4. y # EntryAt(c, p)
  BY UnlinkedDiffers, ChainsAssumption DEF EntryAt
<1>5. f.pprev[y] = h.pprev[y]
  BY <1>4 DEF InsertsAt
<1>. QED
  BY <1>3, <1>5, LoadIs

LEMMA RemovalSpares ==
  ASSUME NEW h, AllChains(h), NEW f, NEW b \in Buckets,
         NEW p \in 1 .. Len(Chain(h, b)), RemovesAt(h, f, b, Chain(h, b), p)
  PROVE  SamePointers(h, f, Nodes \ Linked(h))
<1>. DEFINE c == Chain(h, b)
<1>. SUFFICES ASSUME NEW y \in Nodes \ Linked(h)
              PROVE  f.next[y] = h.next[y] /\ f.pprev[y] = h.pprev[y]
  BY DEF SamePointers
<1>1. p - 1 \in 0 .. Len(c)
  BY DEF AllChains, IsChain
<1>2. c[p] # y
  BY UnlinkedDiffers
<1>3. NextOf(y) \in Addresses \ {PlaceOf(c, b, p - 1), NextOf(c[p])}
  <2>1. PlaceOf(c, b, p - 1) # NextOf(y)
    BY <1>1, UnlinkedDiffers
  <2>. QED
    BY <1>2, <2>1, AddressesDiffer
<1>4. Load(f, NextOf(y)) = Load(h, NextOf(y))
  BY <1>3 DEF RemovesAt
<1>5. y # EntryAt(c, p + 1)
  BY UnlinkedDiffers, ChainsAssumption DEF EntryAt
<1>6. f.pprev[y] = h.pprev[y]
  BY <1>2, <1>5 DEF RemovesAt
<1>. QED
  BY <1>4, <1>6, LoadIs

-----------------------------------------------------------------------------
(* The operations.                                                         *)

\* What the operations read of a chain.
LEMMA ChainLinks ==
  ASSUME NEW h, AllChains(h), NEW b \in Buckets
  PROVE  /\ WellShaped(h)
         /\ Chain(h, b) \in Seq(Nodes) /\ Len(Chain(h, b)) \in Nat
         /\ h.first[b] = EntryAt(Chain(h, b), 1)
         /\ \A k \in 1 .. Len(Chain(h, b)) :
              /\ Chain(h, b)[k] \in Nodes
              /\ EntryAt(Chain(h, b), k) = Chain(h, b)[k]
              /\ h.next[Chain(h, b)[k]] = EntryAt(Chain(h, b), k + 1)
              /\ h.pprev[Chain(h, b)[k]] = PlaceOf(Chain(h, b), b, k - 1)
<1>. DEFINE c == Chain(h, b)
<1>1. WellShaped(h) /\ IsChain(h, b, c)
  BY DEF AllChains
<1>2. c \in Seq(Nodes) /\ Len(c) \in Nat
  BY <1>1 DEF IsChain
<1>. HIDE DEF c
<1>3. \A k \in 0 .. Len(c) : Load(h, PlaceOf(c, b, k)) = EntryAt(c, k + 1)
  BY <1>1 DEF IsChain
<1>4. h.first[b] = EntryAt(c, 1)
  <2>1. 0 \in 0 .. Len(c) /\ 0 + 1 = 1 /\ PlaceOf(c, b, 0) = FirstOf(b)
    BY <1>2, ChainPlaces
  <2>. QED
    BY <1>3, <2>1, LoadIs
<1>5. ASSUME NEW k \in 1 .. Len(c)
      PROVE  /\ c[k] \in Nodes /\ EntryAt(c, k) = c[k]
             /\ h.next[c[k]] = EntryAt(c, k + 1)
             /\ h.pprev[c[k]] = PlaceOf(c, b, k - 1)
  <2>1. k \in 0 .. Len(c) /\ PlaceOf(c, b, k) = NextOf(c[k])
    BY <1>2, ChainPlaces
  <2>2. h.next[c[k]] = EntryAt(c, k + 1)
    BY <1>3, <2>1, LoadIs
  <2>3. h.pprev[c[k]] = PlaceOf(c, b, k - 1)
    BY <1>1 DEF IsChain
  <2>4. c[k] \in Nodes /\ EntryAt(c, k) = c[k]
    BY <1>2, ChainPlaces
  <2>. QED
    BY <2>2, <2>3, <2>4
<1>. QED
  BY <1>1, <1>2, <1>4, <1>5 DEF c

LEMMA AddHead ==
  ASSUME NEW h, AllChains(h), NEW b \in Buckets, NEW x \in Nodes \ Linked(h),
         NEW f, f = hlist_add_head(h, x, b)
  PROVE  /\ WellShaped(f)
         /\ InsertsAt(h, f, b, Chain(h, b), 1, x)
         /\ 1 \in 1 .. (Len(Chain(h, b)) + 1)
<1>. DEFINE c     == Chain(h, b)
            first == h.first[b]
            h1    == SetNext(h, x, first)
            h2    == SetPprevOf(h1, first, NextOf(x))
            h3    == Store(h2, FirstOf(b), x)
<1>1. /\ WellShaped(h) /\ c \in Seq(Nodes) /\ Len(c) \in Nat
      /\ first = EntryAt(c, 1) /\ first \in Nodes \cup {NULL}
  BY ChainLinks, ChainPlaces
<1>2. f = SetPprev(h3, x, FirstOf(b))
  BY DEF hlist_add_head
<1>3. first # x
  BY <1>1, UnlinkedDiffers, ChainsAssumption DEF EntryAt
<1>4. /\ FirstOf(b) \in Addresses /\ NextOf(x) \in Addresses /\ FirstOf(b) # NextOf(x)
      /\ PlaceOf(c, b, 1 - 1) = FirstOf(b)
  BY AddressesDiffer DEF PlaceOf
<1>. HIDE DEF c, first, h1, h2, h3
<1>5. /\ WellShaped(h1) /\ h1.pprev = h.pprev
      /\ \A q \in Addresses : Load(h1, q) = IF q = NextOf(x) THEN first ELSE Load(h, q)
  BY <1>1, SetNextIs DEF h1
<1>6. /\ WellShaped(h2) /\ (\A q : Load(h2, q) = Load(h1, q))
      /\ \A y \in Nodes : h2.pprev[y] = IF y = first THEN NextOf(x) ELSE h1.pprev[y]
  <2>1. first \in Nodes \cup {NULL} /\ WellShaped(h1)
    BY <1>1, <1>5
  <2>. QED
    BY ONLY <2>1, SetPprevOfIs DEF h2
<1>7. /\ WellShaped(h3) /\ h3.pprev = h2.pprev
      /\ \A q \in Addresses : Load(h3, q) = IF q = FirstOf(b) THEN x ELSE Load(h2, q)
  BY <1>4, <1>6, StoreIs DEF h3
<1>8. /\ WellShaped(f) /\ (\A q : Load(f, q) = Load(h3, q))
      /\ \A y \in Nodes : f.pprev[y] = IF y = x THEN FirstOf(b) ELSE h3.pprev[y]
  BY <1>2, <1>7, SetPprevIs
<1>9. \A q \in Addresses : Load(f, q) = IF q = FirstOf(b) THEN x
                                        ELSE IF q = NextOf(x) THEN first ELSE Load(h, q)
  BY <1>5, <1>6, <1>7, <1>8
<1>10. \A y \in Nodes : f.pprev[y] = IF y = x THEN FirstOf(b)
                                     ELSE IF y = first THEN NextOf(x) ELSE h.pprev[y]
  BY <1>5, <1>6, <1>7, <1>8
<1>11. InsertsAt(h, f, b, c, 1, x)
  BY <1>1, <1>4, <1>9, <1>10 DEF InsertsAt
<1>. QED
  BY <1>1, <1>8, <1>11 DEF c

LEMMA AddBefore ==
  ASSUME NEW h, AllChains(h), NEW b \in Buckets, NEW x \in Nodes \ Linked(h),
         NEW k \in 1 .. Len(Chain(h, b)),
         NEW f, f = hlist_add_before(h, x, Chain(h, b)[k])
  PROVE  /\ WellShaped(f)
         /\ InsertsAt(h, f, b, Chain(h, b), k, x)
         /\ k \in 1 .. (Len(Chain(h, b)) + 1)
<1>. DEFINE c  == Chain(h, b)
            z  == c[k]
            h1 == SetPprev(h, x, h.pprev[z])
            h2 == SetNext(h1, x, z)
            h3 == SetPprev(h2, z, NextOf(x))
<1>1. /\ WellShaped(h) /\ c \in Seq(Nodes) /\ Len(c) \in Nat
      /\ z \in Nodes /\ EntryAt(c, k) = z
      /\ h.pprev[z] = PlaceOf(c, b, k - 1)
  BY ChainLinks
<1>2. f = Store(h3, h3.pprev[x], x)
  BY DEF hlist_add_before
<1>3. z # x
  BY UnlinkedDiffers
<1>4. /\ NextOf(x) \in Addresses /\ PlaceOf(c, b, k - 1) \in Addresses
      /\ PlaceOf(c, b, k - 1) # NextOf(x)
  <2>1. k - 1 \in 0 .. Len(c)
    BY <1>1
  <2>2. PlaceOf(c, b, k - 1) \in Addresses
    BY <1>1, <2>1, ChainPlaces
  <2>3. PlaceOf(c, b, k - 1) # NextOf(x)
    BY <2>1, UnlinkedDiffers
  <2>. QED
    BY <2>2, <2>3, AddressesDiffer
<1>5. k \in 1 .. (Len(c) + 1)
  BY <1>1
<1>. HIDE DEF c, z, h1, h2, h3
<1>6. /\ WellShaped(h1) /\ (\A q : Load(h1, q) = Load(h, q))
      /\ \A y \in Nodes : h1.pprev[y] = IF y = x THEN h.pprev[z] ELSE h.pprev[y]
  BY <1>1, SetPprevIs DEF h1
<1>7. /\ WellShaped(h2) /\ h2.pprev = h1.pprev
      /\ \A q \in Addresses : Load(h2, q) = IF q = NextOf(x) THEN z ELSE Load(h1, q)
  BY <1>6, SetNextIs DEF h2
<1>8. /\ WellShaped(h3) /\ (\A q : Load(h3, q) = Load(h2, q))
      /\ \A y \in Nodes : h3.pprev[y] = IF y = z THEN NextOf(x) ELSE h2.pprev[y]
  BY <1>1, <1>7, SetPprevIs DEF h3
<1>9. h3.pprev[x] = PlaceOf(c, b, k - 1)
  BY <1>1, <1>3, <1>6, <1>7, <1>8
<1>10. /\ WellShaped(f) /\ f.pprev = h3.pprev
       /\ \A q \in Addresses :
            Load(f, q) = IF q = PlaceOf(c, b, k - 1) THEN x ELSE Load(h3, q)
  BY <1>2, <1>4, <1>8, <1>9, StoreIs
<1>11. \A q \in Addresses : Load(f, q) = IF q = PlaceOf(c, b, k - 1) THEN x
                                         ELSE IF q = NextOf(x) THEN z ELSE Load(h, q)
  BY <1>6, <1>7, <1>8, <1>10
<1>12. \A y \in Nodes : f.pprev[y] = IF y = z THEN NextOf(x)
                                     ELSE IF y = x THEN PlaceOf(c, b, k - 1) ELSE h.pprev[y]
  BY <1>1, <1>6, <1>7, <1>8, <1>10
<1>13. InsertsAt(h, f, b, c, k, x)
  BY <1>1, <1>3, <1>4, <1>11, <1>12 DEF InsertsAt
<1>. QED
  BY <1>5, <1>10, <1>13 DEF c

LEMMA AddAfter ==
  ASSUME NEW h, AllChains(h), NEW b \in Buckets, NEW x \in Nodes \ Linked(h),
         NEW k \in 1 .. Len(Chain(h, b)),
         NEW f, f = hlist_add_after(h, Chain(h, b)[k], x)
  PROVE  /\ WellShaped(f)
         /\ InsertsAt(h, f, b, Chain(h, b), k + 1, x)
         /\ k + 1 \in 1 .. (Len(Chain(h, b)) + 1)
<1>. DEFINE c  == Chain(h, b)
            z  == c[k]
            s  == EntryAt(c, k + 1)
            h1 == SetNext(h, x, h.next[z])
            h2 == SetNext(h1, z, x)
            h3 == SetPprev(h2, x, NextOf(z))
<1>1. /\ WellShaped(h) /\ c \in Seq(Nodes) /\ Len(c) \in Nat
      /\ z \in Nodes /\ h.next[z] = s
  BY ChainLinks
<1>2. f = SetPprevOf(h3, h3.next[x], NextOf(x))
  BY DEF hlist_add_after
<1>3. z # x /\ s # x /\ s \in Nodes \cup {NULL}
  <2>1. z # x /\ s # x
    BY UnlinkedDiffers, ChainsAssumption DEF EntryAt
  <2>2. s \in Nodes \cup {NULL}
    BY <1>1, ChainPlaces
  <2>. QED
    BY <2>1, <2>2
<1>4. /\ NextOf(x) \in Addresses /\ NextOf(z) \in Addresses /\ NextOf(z) # NextOf(x)
      /\ PlaceOf(c, b, (k + 1) - 1) = NextOf(z)
  <2>1. (k + 1) - 1 = k /\ k # 0
    BY <1>1
  <2>. QED
    BY <1>1, <1>3, <2>1, AddressesDiffer DEF PlaceOf
<1>5. k + 1 \in 1 .. (Len(c) + 1)
  BY <1>1
<1>. HIDE DEF c, z, s, h1, h2, h3
<1>6. /\ WellShaped(h1) /\ h1.pprev = h.pprev
      /\ \A q \in Addresses : Load(h1, q) = IF q = NextOf(x) THEN s ELSE Load(h, q)
  BY <1>1, SetNextIs DEF h1
<1>7. /\ WellShaped(h2) /\ h2.pprev = h1.pprev
      /\ \A q \in Addresses : Load(h2, q) = IF q = NextOf(z) THEN x ELSE Load(h1, q)
  BY <1>1, <1>6, SetNextIs DEF h2
<1>8. /\ WellShaped(h3) /\ (\A q : Load(h3, q) = Load(h2, q))
      /\ \A y \in Nodes : h3.pprev[y] = IF y = x THEN NextOf(z) ELSE h2.pprev[y]
  BY <1>7, SetPprevIs DEF h3
<1>9. h3.next[x] = s
  <2>1. Load(h3, NextOf(x)) = s
    BY <1>4, <1>6, <1>7, <1>8
  <2>. QED
    BY <2>1, LoadIs
<1>10. /\ WellShaped(f) /\ (\A q : Load(f, q) = Load(h3, q))
       /\ \A y \in Nodes : f.pprev[y] = IF y = s THEN NextOf(x) ELSE h3.pprev[y]
  <2>1. f = SetPprevOf(h3, s, NextOf(x))
    BY <1>2, <1>9
  <2>2. s \in Nodes \cup {NULL} /\ WellShaped(h3)
    BY <1>3, <1>8
  <2>. QED
    BY ONLY <2>1, <2>2, SetPprevOfIs
<1>11. \A q \in Addresses : Load(f, q) = IF q = NextOf(z) THEN x
                                         ELSE IF q = NextOf(x) THEN s ELSE Load(h, q)
  BY <1>6, <1>7, <1>8, <1>10
<1>12. \A y \in Nodes : f.pprev[y] = IF y = s THEN NextOf(x)
                                     ELSE IF y = x THEN NextOf(z) ELSE h.pprev[y]
  BY <1>6, <1>7, <1>8, <1>10
<1>13. InsertsAt(h, f, b, c, k + 1, x)
  BY <1>3, <1>4, <1>11, <1>12 DEF InsertsAt, s
<1>. QED
  BY <1>5, <1>10, <1>13 DEF c

\* __hlist_del and what hlist_del and hlist_del_init do on top.
LEMMA Unlink ==
  ASSUME NEW h, AllChains(h), NEW b \in Buckets, NEW k \in 1 .. Len(Chain(h, b)),
         NEW f, f = hlist_unlink(h, Chain(h, b)[k])
  PROVE  /\ WellShaped(f)
         /\ RemovesAt(h, f, b, Chain(h, b), k)
<1>. DEFINE c  == Chain(h, b)
            z  == c[k]
            s  == EntryAt(c, k + 1)
            h1 == Store(h, h.pprev[z], s)
<1>1. /\ WellShaped(h) /\ c \in Seq(Nodes) /\ Len(c) \in Nat
      /\ z \in Nodes /\ h.next[z] = s /\ s \in Nodes \cup {NULL}
      /\ h.pprev[z] = PlaceOf(c, b, k - 1)
  BY ChainLinks, ChainPlaces
<1>2. f = SetPprevOf(h1, s, h.pprev[z])
  BY <1>1 DEF hlist_unlink
<1>3. PlaceOf(c, b, k - 1) \in Addresses
  <2>1. k - 1 \in 0 .. Len(c)
    BY <1>1
  <2>. QED
    BY <1>1, <2>1, ChainPlaces
<1>. HIDE DEF c, z, s, h1
<1>4. /\ WellShaped(h1) /\ h1.pprev = h.pprev
      /\ \A q \in Addresses :
           Load(h1, q) = IF q = PlaceOf(c, b, k - 1) THEN s ELSE Load(h, q)
  BY <1>1, <1>3, StoreIs DEF h1
<1>5. /\ WellShaped(f) /\ (\A q : Load(f, q) = Load(h1, q))
      /\ \A y \in Nodes : f.pprev[y] = IF y = s THEN h.pprev[z] ELSE h1.pprev[y]
  BY <1>1, <1>2, <1>4, SetPprevOfIs
<1>6. RemovesAt(h, f, b, c, k)
  BY <1>1, <1>3, <1>4, <1>5 DEF RemovesAt, s
<1>. QED
  BY <1>5, <1>6 DEF c

LEMMA OwnPointers ==
  ASSUME NEW g, WellShaped(g), NEW x \in Nodes, NEW u, NEW v,
         NEW f, f = SetPprev(SetNext(g, x, u), x, v)
  PROVE  /\ WellShaped(f)
         /\ \A q \in Addresses : Load(f, q) = IF q = NextOf(x) THEN u ELSE Load(g, q)
         /\ \A y \in Nodes : f.pprev[y] = IF y = x THEN v ELSE g.pprev[y]
         /\ f.next[x] = u /\ f.pprev[x] = v
<1>. DEFINE g1 == SetNext(g, x, u)
<1>1. /\ WellShaped(g1) /\ g1.pprev = g.pprev
      /\ \A q \in Addresses : Load(g1, q) = IF q = NextOf(x) THEN u ELSE Load(g, q)
  BY SetNextIs
<1>. HIDE DEF g1
<1>2. f = SetPprev(g1, x, v)
  BY DEF g1
<1>3. /\ WellShaped(f) /\ (\A q : Load(f, q) = Load(g1, q))
      /\ \A y \in Nodes : f.pprev[y] = IF y = x THEN v ELSE g1.pprev[y]
  BY <1>1, <1>2, SetPprevIs
<1>4. f.next[x] = u
  BY <1>1, <1>3, AddressesDiffer, LoadIs
<1>. QED
  BY <1>1, <1>3, <1>4

LEMMA Delete ==
  ASSUME NEW h, AllChains(h), NEW b \in Buckets, NEW k \in 1 .. Len(Chain(h, b)),
         NEW f, NEW u, NEW v,
         f = SetPprev(SetNext(hlist_unlink(h, Chain(h, b)[k]), Chain(h, b)[k], u),
                      Chain(h, b)[k], v)
  PROVE  /\ WellShaped(f)
         /\ RemovesAt(h, f, b, Chain(h, b), k)
         /\ f.next[Chain(h, b)[k]] = u /\ f.pprev[Chain(h, b)[k]] = v
<1>. DEFINE c == Chain(h, b)
            z == c[k]
            g == hlist_unlink(h, z)
<1>1. WellShaped(g) /\ RemovesAt(h, g, b, c, k)
  BY Unlink
<1>2. z \in Nodes
  BY ChainLinks
<1>3. NextOf(z) # PlaceOf(c, b, k - 1) /\ PlaceOf(c, b, k - 1) \in Addresses
  <2>1. IsChain(h, b, c)
    BY DEF AllChains
  <2>2. c \in Seq(Nodes) /\ k \in 0 .. Len(c) /\ k - 1 \in 0 .. Len(c) /\ k # k - 1
    BY <2>1 DEF IsChain
  <2>3. PlaceOf(c, b, k) = NextOf(z) /\ PlaceOf(c, b, k - 1) \in Addresses
    BY <2>2, ChainPlaces
  <2>4. PlaceOf(c, b, k) # PlaceOf(c, b, k - 1)
    BY <2>1, <2>2, PlacesDiffer
  <2>. QED
    BY <2>3, <2>4
<1>. HIDE DEF g
<1>4. /\ WellShaped(f)
      /\ \A q \in Addresses : Load(f, q) = IF q = NextOf(z) THEN u ELSE Load(g, q)
      /\ \A y \in Nodes : f.pprev[y] = IF y = z THEN v ELSE g.pprev[y]
      /\ f.next[z] = u /\ f.pprev[z] = v
  <2>1. f = SetPprev(SetNext(g, z, u), z, v)
    BY DEF g
  <2>. QED
    BY <1>1, <1>2, <2>1, OwnPointers
<1>. HIDE DEF c, z
<1>5. RemovesAt(h, f, b, c, k)
  BY <1>1, <1>3, <1>4 DEF RemovesAt, z
<1>. QED
  BY <1>4, <1>5 DEF c, z

\* hlist_del and hlist_del_init are such deletions.
LEMMA DelIs ==
  ASSUME NEW h, AllChains(h), NEW b \in Buckets, NEW k \in 1 .. Len(Chain(h, b)),
         NEW f, f = hlist_del(h, Chain(h, b)[k])
  PROVE  /\ WellShaped(f)
         /\ RemovesAt(h, f, b, Chain(h, b), k)
<1>1. f = SetPprev(SetNext(hlist_unlink(h, Chain(h, b)[k]), Chain(h, b)[k], "poison1"),
                   Chain(h, b)[k], "poison2")
  BY DEF hlist_del
<1>. QED
  BY <1>1, Delete

LEMMA DelInitIs ==
  ASSUME NEW h, AllChains(h), NEW b \in Buckets, NEW k \in 1 .. Len(Chain(h, b)),
         NEW f, f = hlist_del_init(h, Chain(h, b)[k])
  PROVE  /\ WellShaped(f)
         /\ RemovesAt(h, f, b, Chain(h, b), k)
         /\ f.next[Chain(h, b)[k]] = NULL /\ f.pprev[Chain(h, b)[k]] = NULL
<1>1. h.pprev[Chain(h, b)[k]] # NULL
  <2>1. /\ h.pprev[Chain(h, b)[k]] = PlaceOf(Chain(h, b), b, k - 1)
        /\ Chain(h, b) \in Seq(Nodes) /\ k - 1 \in 0 .. Len(Chain(h, b))
    BY ChainLinks
  <2>2. PlaceOf(Chain(h, b), b, k - 1) \in Addresses
    BY <2>1, ChainPlaces
  <2>. QED
    BY <2>1, <2>2, AddressesDiffer
<1>2. f = SetPprev(SetNext(hlist_unlink(h, Chain(h, b)[k]), Chain(h, b)[k], NULL),
                   Chain(h, b)[k], NULL)
  BY <1>1 DEF hlist_del_init, hlist_unhashed, INIT_HLIST_NODE
<1>. QED
  BY <1>2, Delete

\* Deleting an entry that is on no chain, but may look as if it were.
LEMMA DelFake ==
  ASSUME NEW h, AllChains(h), NEW x \in Nodes \ Linked(h),
         h.next[x] = NULL, h.pprev[x] = NextOf(x),
         NEW u, NEW v, NEW f, f = SetPprev(SetNext(hlist_unlink(h, x), x, u), x, v)
  PROVE  /\ WellShaped(f)
         /\ \A q \in Addresses : q # NextOf(x) => Load(f, q) = Load(h, q)
         /\ \A y \in Nodes : f.pprev[y] = IF y = x THEN v ELSE h.pprev[y]
         /\ f.next[x] = u
<1>. DEFINE g == hlist_unlink(h, x)
<1>1. g = Store(h, NextOf(x), NULL)
  BY DEF hlist_unlink, SetPprevOf
<1>2. WellShaped(h)
  BY DEF AllChains
<1>3. /\ WellShaped(g) /\ g.pprev = h.pprev
      /\ \A q \in Addresses : Load(g, q) = IF q = NextOf(x) THEN NULL ELSE Load(h, q)
  <2>1. NextOf(x) \in Addresses
    BY AddressesDiffer
  <2>. HIDE DEF g
  <2>. QED
    BY <1>1, <1>2, <2>1, StoreIs
<1>4. f = SetPprev(SetNext(g, x, u), x, v)
  OBVIOUS
<1>. HIDE DEF g
<1>5. /\ WellShaped(f)
      /\ \A q \in Addresses : Load(f, q) = IF q = NextOf(x) THEN u ELSE Load(g, q)
      /\ \A y \in Nodes : f.pprev[y] = IF y = x THEN v ELSE g.pprev[y]
      /\ f.next[x] = u
  BY <1>3, <1>4, OwnPointers
<1>. QED
  BY <1>3, <1>5

\* Pointers of an entry that is on no chain may change.
LEMMA ChainsStay ==
  ASSUME NEW h, AllChains(h), NEW f, WellShaped(f), NEW x \in Nodes \ Linked(h),
         \A q \in Addresses : q # NextOf(x) => Load(f, q) = Load(h, q),
         \A y \in Nodes : y # x => f.pprev[y] = h.pprev[y]
  PROVE  AllChains(f) /\ (\A b \in Buckets : Chain(f, b) = Chain(h, b)) /\ Linked(f) = Linked(h)
<1>1. ASSUME NEW b \in Buckets
      PROVE  IsChain(f, b, Chain(h, b)) /\ Chain(f, b) = Chain(h, b)
  <2>. DEFINE c == Chain(h, b)
  <2>1. IsChain(h, b, c)
    BY DEF AllChains
  <2>2. c \in Seq(Nodes)
    BY <2>1 DEF IsChain
  <2>3. ASSUME NEW k \in 0 .. Len(c)
        PROVE  Load(f, PlaceOf(c, b, k)) = Load(h, PlaceOf(c, b, k))
    <3>1. PlaceOf(c, b, k) \in Addresses
      BY <2>2, ChainPlaces
    <3>2. PlaceOf(c, b, k) # NextOf(x)
      BY UnlinkedDiffers
    <3>. QED
      BY <3>1, <3>2
  <2>4. ASSUME NEW k \in 1 .. Len(c)
        PROVE  f.pprev[c[k]] = h.pprev[c[k]]
    <3>1. c[k] \in Nodes
      BY <2>2
    <3>2. c[k] # x
      BY UnlinkedDiffers
    <3>. QED
      BY <3>1, <3>2
  <2>5. IsChain(f, b, c)
    BY <2>1, <2>3, <2>4, ChainStays
  <2>. QED
    BY <2>5, ChainIs
<1>2. AllChains(f)
  BY <1>1 DEF AllChains
<1>3. Linked(f) = Linked(h)
  BY <1>1 DEF Linked
<1>. QED
  BY <1>1, <1>2, <1>3

LEMMA MoveList ==
  ASSUME NEW h, AllChains(h), NEW old \in Buckets, NEW new \in Buckets, old # new,
         h.first[new] = NULL, NEW f, f = hlist_move_list(h, old, new)
  PROVE  /\ AllChains(f)
         /\ Chain(f, new) = Chain(h, old) /\ Chain(f, old) = <<>>
         /\ \A b \in Buckets \ {old, new} : Chain(f, b) = Chain(h, b)
<1>. DEFINE c  == Chain(h, old)
            s  == EntryAt(c, 1)
            h1 == Store(h, FirstOf(new), s)
            h2 == SetPprevOf(h1, s, FirstOf(new))
<1>1. /\ WellShaped(h) /\ c \in Seq(Nodes) /\ Len(c) \in Nat
      /\ h.first[old] = s /\ s \in Nodes \cup {NULL}
      /\ IsChain(h, old, c)
  BY ChainLinks, ChainPlaces DEF AllChains
<1>2. /\ FirstOf(new) \in Addresses /\ FirstOf(old) \in Addresses /\ FirstOf(old) # FirstOf(new)
  BY AddressesDiffer
<1>. HIDE DEF c, s
<1>3. /\ WellShaped(h1) /\ h1.pprev = h.pprev
      /\ \A q \in Addresses : Load(h1, q) = IF q = FirstOf(new) THEN s ELSE Load(h, q)
  BY <1>1, <1>2, StoreIs
<1>. HIDE DEF h1
<1>4. h1.first[new] = s
  BY <1>2, <1>3, LoadIs
<1>5. f = Store(h2, FirstOf(old), NULL)
  BY <1>1, <1>4 DEF hlist_move_list, h1
<1>6. /\ WellShaped(h2) /\ (\A q : Load(h2, q) = Load(h1, q))
      /\ \A y \in Nodes : h2.pprev[y] = IF y = s THEN FirstOf(new) ELSE h1.pprev[y]
  <2>1. s \in Nodes \cup {NULL} /\ WellShaped(h1)
    BY <1>1, <1>3
  <2>. QED
    BY ONLY <2>1, SetPprevOfIs DEF h2
<1>. HIDE DEF h2
<1>7. /\ WellShaped(f) /\ f.pprev = h2.pprev
      /\ \A q \in Addresses : Load(f, q) = IF q = FirstOf(old) THEN NULL ELSE Load(h2, q)
  BY <1>2, <1>5, <1>6, StoreIs
<1>8. \A q \in Addresses : Load(f, q) = IF q = FirstOf(old) THEN NULL
                                        ELSE IF q = FirstOf(new) THEN s ELSE Load(h, q)
  BY <1>3, <1>6, <1>7
<1>9. \A y \in Nodes : f.pprev[y] = IF y = s THEN FirstOf(new) ELSE h.pprev[y]
  BY <1>3, <1>6, <1>7
<1>10. IsChain(f, new, c)
  <2>1. ASSUME NEW k \in 0 .. Len(c)
        PROVE  Load(f, PlaceOf(c, new, k)) = EntryAt(c, k + 1)
    <3>1. CASE k = 0
      BY <1>2, <1>8, <3>1 DEF PlaceOf, s
    <3>2. CASE k # 0
      <4>1. k \in 1 .. Len(c)
        BY <3>2
      <4>2. PlaceOf(c, new, k) = NextOf(c[k]) /\ PlaceOf(c, old, k) = NextOf(c[k])
        BY <1>1, <4>1, ChainPlaces
      <4>3. NextOf(c[k]) \in Addresses /\ NextOf(c[k]) # FirstOf(old) /\ NextOf(c[k]) # FirstOf(new)
        BY <1>1, <4>1, AddressesDiffer
      <4>4. Load(h, PlaceOf(c, old, k)) = EntryAt(c, k + 1)
        BY <1>1 DEF IsChain
      <4>. QED
        BY <1>8, <4>2, <4>3, <4>4
    <3>. QED
      BY <3>1, <3>2
  <2>2. ASSUME NEW k \in 1 .. Len(c)
        PROVE  f.pprev[c[k]] = PlaceOf(c, new, k - 1)
    <3>0. c[k] \in Nodes /\ 1 \in 1 .. Len(c) /\ s = c[1]
      BY <1>1 DEF s, EntryAt
    <3>1. CASE k = 1
      BY <1>9, <3>0, <3>1 DEF PlaceOf
    <3>2. CASE k # 1
      <4>1. c[k] # s
        BY <1>1, <3>0, <3>2 DEF IsChain
      <4>2. k - 1 # 0 /\ h.pprev[c[k]] = PlaceOf(c, old, k - 1)
        BY <1>1, <3>2 DEF IsChain
      <4>. QED
        BY <1>9, <3>0, <4>1, <4>2 DEF PlaceOf
    <3>. QED
      BY <3>1, <3>2
  <2>. QED
    BY <1>1, <2>1, <2>2 DEF IsChain
<1>11. IsChain(f, old, <<>>)
  <2>1. Len(<<>>) = 0 /\ <<>> \in Seq(Nodes) /\ Load(f, FirstOf(old)) = NULL
    BY <1>2, <1>8
  <2>2. EntryAt(<<>>, 0 + 1) = NULL /\ PlaceOf(<<>>, old, 0) = FirstOf(old)
    BY <2>1 DEF EntryAt, PlaceOf
  <2>. QED
    BY <2>1, <2>2 DEF IsChain
<1>12. Chain(f, new) = c /\ Chain(f, old) = <<>>
  BY <1>10, <1>11, ChainIs
<1>13. ASSUME NEW b \in Buckets, b # old, b # new
       PROVE  IsChain(f, b, Chain(h, b)) /\ Chain(f, b) = Chain(h, b)
  <2>. DEFINE e == Chain(h, b)
  <2>1. IsChain(h, b, e)
    BY DEF AllChains
  <2>2. e \in Seq(Nodes)
    BY <2>1 DEF IsChain
  <2>3. ASSUME NEW k \in 0 .. Len(e)
        PROVE  Load(f, PlaceOf(e, b, k)) = Load(h, PlaceOf(e, b, k))
    <3>1. PlaceOf(e, b, k) \in Addresses
      BY <2>2, ChainPlaces
    <3>2. PlaceOf(e, b, k) # FirstOf(old) /\ PlaceOf(e, b, k) # FirstOf(new)
      BY <1>13, AddressesDiffer DEF PlaceOf
    <3>. QED
      BY <1>8, <3>1, <3>2
  <2>4. ASSUME NEW k \in 1 .. Len(e)
        PROVE  f.pprev[e[k]] = h.pprev[e[k]]
    <3>1. e[k] \in Nodes
      BY <2>2
    <3>2. e[k] # s
      <4>1. CASE 1 \in 1 .. Len(c)
        BY <1>13, <4>1 DEF s, EntryAt, AllChains, c
      <4>2. CASE ~(1 \in 1 .. Len(c))
        BY <3>1, <4>2, ChainsAssumption DEF s, EntryAt
      <4>. QED
        BY <4>1, <4>2
    <3>. QED
      BY <1>9, <3>1, <3>2
  <2>5. IsChain(f, b, e)
    BY <2>1, <2>3, <2>4, ChainStays
  <2>. QED
    BY <2>5, ChainIs
<1>14. AllChains(f)
  <2>1. ASSUME NEW b \in Buckets
        PROVE  IsChain(f, b, Chain(f, b))
    BY <1>10, <1>11, <1>12, <1>13
  <2>. DEFINE src(b) == IF b = new THEN old ELSE b
  <2>2. ASSUME NEW b \in Buckets, b # old
        PROVE  src(b) \in Buckets /\ Chain(f, b) = Chain(h, src(b))
    BY <1>12, <1>13, <2>2 DEF c
  <2>3. ASSUME NEW b \in Buckets, NEW d \in Buckets,
               NEW i \in 1 .. Len(Chain(f, b)), NEW j \in 1 .. Len(Chain(f, d)),
               Chain(f, b)[i] = Chain(f, d)[j]
        PROVE  b = d
    <3>1. b # old /\ d # old
      <4>1. 1 .. Len(<<>>) = {}
        OBVIOUS
      <4>. QED
        BY <1>12, <4>1
    <3>2. /\ src(b) \in Buckets /\ Chain(f, b) = Chain(h, src(b))
          /\ src(d) \in Buckets /\ Chain(f, d) = Chain(h, src(d))
      BY <2>2, <3>1
    <3>3. src(b) = src(d)
      <4>. HIDE DEF src
      <4>. QED
        BY <2>3, <3>2 DEF AllChains
    <3>. QED
      BY <3>1, <3>3
  <2>. QED
    BY <1>7, <2>1, <2>3 DEF AllChains
<1>. QED
  BY <1>12, <1>13, <1>14 DEF c

-----------------------------------------------------------------------------
(* What the sequence operations of the properties are.                     *)

LEMMA PutIs ==
  ASSUME NEW c \in Seq(Nodes), NEW k \in 0 .. Len(c), NEW x \in Nodes
  PROVE  Inserted(c, k + 1, x) = SubSeq(c, 1, k) \o <<x>> \o SubSeq(c, k + 1, Len(c))
<1>. DEFINE L == Len(c)
            p == SubSeq(c, 1, k)
            q == SubSeq(c, k + 1, L)
            d == Inserted(c, k + 1, x)
            e == p \o <<x>> \o q
<1>1. /\ L \in Nat /\ k \in Nat /\ k <= L /\ (\A i \in 1 .. L : c[i] \in Nodes)
  OBVIOUS
<1>2. p \in Seq(Nodes) /\ Len(p) = k /\ \A i \in 1 .. k : p[i] = c[i]
  <2>1. k \in Int /\ \A i \in 1 .. k : c[i] \in Nodes
    BY <1>1
  <2>2. /\ SubSeq(c, 1, k) \in Seq(Nodes)
        /\ Len(SubSeq(c, 1, k)) = IF 1 <= k THEN k - 1 + 1 ELSE 0
        /\ \A i \in 1 .. (k - 1 + 1) : SubSeq(c, 1, k)[i] = c[1 + i - 1]
    BY <2>1, SubSeqProperties
  <2>. QED
    BY <1>1, <2>2
<1>3. q \in Seq(Nodes) /\ Len(q) = L - k /\ \A i \in 1 .. (L - k) : q[i] = c[k + i]
  <2>1. k + 1 \in Int /\ L \in Int /\ \A i \in (k + 1) .. L : c[i] \in Nodes
    BY <1>1
  <2>. HIDE DEF L
  <2>2. /\ SubSeq(c, k + 1, L) \in Seq(Nodes)
        /\ Len(SubSeq(c, k + 1, L)) = IF k + 1 <= L THEN L - (k + 1) + 1 ELSE 0
        /\ \A i \in 1 .. (L - (k + 1) + 1) : SubSeq(c, k + 1, L)[i] = c[(k + 1) + i - 1]
    BY <2>1, SubSeqProperties
  <2>3. \A i \in 1 .. (L - k) : i \in 1 .. (L - (k + 1) + 1) /\ (k + 1) + i - 1 = k + i
    BY <1>1
  <2>. QED
    BY <1>1, <2>2, <2>3
<1>. HIDE DEF p, q
<1>4. /\ p \o <<x>> \in Seq(Nodes) /\ Len(p \o <<x>>) = k + 1
      /\ \A i \in 1 .. (k + 1) : (p \o <<x>>)[i] = IF i <= k THEN c[i] ELSE x
  <2>1. p \o <<x>> = Append(p, x)
    BY <1>2
  <2>2. /\ Append(p, x) \in Seq(Nodes) /\ Len(Append(p, x)) = k + 1
        /\ \A i \in 1 .. k : Append(p, x)[i] = p[i]
        /\ Append(p, x)[k + 1] = x
    BY <1>2, AppendProperties
  <2>3. \A i \in 1 .. (k + 1) : IF i <= k THEN i \in 1 .. k ELSE i = k + 1
    BY <1>1
  <2>. QED
    BY <1>2, <2>1, <2>2, <2>3
<1>5. /\ e \in Seq(Nodes) /\ Len(e) = L + 1
      /\ \A i \in 1 .. (L + 1) : e[i] = IF i <= k + 1 THEN (p \o <<x>>)[i] ELSE q[i - (k + 1)]
  <2>. DEFINE a == p \o <<x>>
  <2>1. a \in Seq(Nodes) /\ Len(a) = k + 1
    BY <1>4
  <2>. HIDE DEF a, e
  <2>2. e = a \o q
    BY DEF a, e
  <2>3. /\ a \o q \in Seq(Nodes) /\ Len(a \o q) = Len(a) + Len(q)
        /\ \A i \in 1 .. (Len(a) + Len(q)) :
             (a \o q)[i] = IF i <= Len(a) THEN a[i] ELSE q[i - Len(a)]
    BY <1>3, <2>1, ConcatProperties
  <2>4. (k + 1) + (L - k) = L + 1
    BY <1>1
  <2>. QED
    BY <1>3, <2>1, <2>2, <2>3, <2>4 DEF a
<1>6. /\ d \in Seq(Nodes) /\ Len(d) = L + 1
      /\ \A i \in 1 .. (L + 1) :
           d[i] = IF i < k + 1 THEN c[i] ELSE IF i = k + 1 THEN x ELSE c[i - 1]
  <2>1. k + 1 \in 1 .. (L + 1)
    BY <1>1
  <2>. QED
    BY <2>1, InsertedIs
<1>. HIDE DEF d, e, L
<1>7. ASSUME NEW i \in 1 .. (L + 1)
      PROVE  d[i] = e[i]
  <2>1. CASE i <= k
    <3>1. i < k + 1 /\ i <= k + 1 /\ i \in 1 .. (k + 1)
      BY <1>1, <2>1
    <3>. QED
      BY <1>4, <1>5, <1>6, <2>1, <3>1
  <2>2. CASE i = k + 1
    <3>1. ~(i < k + 1) /\ i <= k + 1 /\ i \in 1 .. (k + 1) /\ ~(i <= k)
      BY <1>1, <2>2
    <3>. QED
      BY <1>4, <1>5, <1>6, <2>2, <3>1
  <2>3. CASE i > k + 1
    <3>1. /\ ~(i < k + 1) /\ ~(i <= k + 1) /\ i # k + 1
          /\ i - (k + 1) \in 1 .. (L - k) /\ k + (i - (k + 1)) = i - 1
      BY <1>1, <2>3
    <3>2. e[i] = q[i - (k + 1)] /\ d[i] = c[i - 1]
      BY <1>5, <1>6, <3>1
    <3>3. q[i - (k + 1)] = c[k + (i - (k + 1))]
      BY <1>3, <3>1
    <3>. QED
      BY <3>1, <3>2, <3>3
  <2>. QED
    BY <1>1, <2>1, <2>2, <2>3
<1>8. d = e
  BY <1>5, <1>6, <1>7, SeqEqual
<1>. QED
  BY <1>8 DEF d, e, p, q, L

LEMMA RemoveAtIs ==
  ASSUME NEW c \in Seq(Nodes), NEW k \in 1 .. Len(c)
  PROVE  Removed(c, k) = RemoveAt(c, k)
<1>. DEFINE L == Len(c)
            p == SubSeq(c, 1, k - 1)
            q == SubSeq(c, k + 1, L)
            d == Removed(c, k)
            e == p \o q
<1>1. /\ L \in Nat /\ k \in Nat /\ 1 <= k /\ k <= L /\ (\A i \in 1 .. L : c[i] \in Nodes)
  OBVIOUS
<1>2. p \in Seq(Nodes) /\ Len(p) = k - 1 /\ \A i \in 1 .. (k - 1) : p[i] = c[i]
  <2>1. k - 1 \in Int /\ \A i \in 1 .. (k - 1) : c[i] \in Nodes
    BY <1>1
  <2>2. /\ SubSeq(c, 1, k - 1) \in Seq(Nodes)
        /\ Len(SubSeq(c, 1, k - 1)) = IF 1 <= k - 1 THEN (k - 1) - 1 + 1 ELSE 0
        /\ \A i \in 1 .. ((k - 1) - 1 + 1) : SubSeq(c, 1, k - 1)[i] = c[1 + i - 1]
    BY <2>1, SubSeqProperties
  <2>3. \A i \in 1 .. (k - 1) : i \in 1 .. ((k - 1) - 1 + 1) /\ 1 + i - 1 = i
    BY <1>1
  <2>. QED
    BY <1>1, <2>2, <2>3
<1>3. q \in Seq(Nodes) /\ Len(q) = L - k /\ \A i \in 1 .. (L - k) : q[i] = c[k + i]
  <2>1. k + 1 \in Int /\ L \in Int /\ \A i \in (k + 1) .. L : c[i] \in Nodes
    BY <1>1
  <2>. HIDE DEF L
  <2>2. /\ SubSeq(c, k + 1, L) \in Seq(Nodes)
        /\ Len(SubSeq(c, k + 1, L)) = IF k + 1 <= L THEN L - (k + 1) + 1 ELSE 0
        /\ \A i \in 1 .. (L - (k + 1) + 1) : SubSeq(c, k + 1, L)[i] = c[(k + 1) + i - 1]
    BY <2>1, SubSeqProperties
  <2>3. \A i \in 1 .. (L - k) : i \in 1 .. (L - (k + 1) + 1) /\ (k + 1) + i - 1 = k + i
    BY <1>1
  <2>. QED
    BY <1>1, <2>2, <2>3
<1>. HIDE DEF p, q
<1>4. /\ e \in Seq(Nodes) /\ Len(e) = L - 1
      /\ \A i \in 1 .. (L - 1) : e[i] = IF i <= k - 1 THEN p[i] ELSE q[i - (k - 1)]
  <2>1. /\ p \o q \in Seq(Nodes) /\ Len(p \o q) = Len(p) + Len(q)
        /\ \A i \in 1 .. (Len(p) + Len(q)) :
             (p \o q)[i] = IF i <= Len(p) THEN p[i] ELSE q[i - Len(p)]
    BY <1>2, <1>3, ConcatProperties
  <2>2. (k - 1) + (L - k) = L - 1
    BY <1>1
  <2>. HIDE DEF L
  <2>. QED
    BY <1>2, <1>3, <2>1, <2>2
<1>5. /\ d \in Seq(Nodes) /\ Len(d) = L - 1
      /\ \A i \in 1 .. (L - 1) : d[i] = IF i < k THEN c[i] ELSE c[i + 1]
  BY RemovedIs
<1>. HIDE DEF d, e, L
<1>6. ASSUME NEW i \in 1 .. (L - 1)
      PROVE  d[i] = e[i]
  <2>1. CASE i < k
    <3>1. i <= k - 1 /\ i \in 1 .. (k - 1)
      BY <1>1, <2>1
    <3>. QED
      BY <1>2, <1>4, <1>5, <2>1, <3>1
  <2>2. CASE ~(i < k)
    <3>1. ~(i <= k - 1) /\ i - (k - 1) \in 1 .. (L - k) /\ k + (i - (k - 1)) = i + 1
      BY <1>1, <2>2
    <3>2. q[i - (k - 1)] = c[k + (i - (k - 1))]
      BY <1>3, <3>1
    <3>. QED
      BY <1>4, <1>5, <2>2, <3>1, <3>2
  <2>. QED
    BY <2>1, <2>2
<1>7. d = e
  BY <1>4, <1>5, <1>6, SeqEqual
<1>. QED
  BY <1>7 DEF d, e, p, q, L, RemoveAt

-----------------------------------------------------------------------------
(* The table.  In every state its entries are on the chain of their name,  *)
(* the allocated ones on no chain look the way INIT_HLIST_NODE or          *)
(* hlist_add_fake left them, and the destroying walk stands on the first   *)
(* entry of a chain and goes on with the second.                           *)

OwnNames(hs, h, nm) ==
  \A b \in Buckets : \A k \in 1 .. Len(Chain(h, b)) :
    nm[Chain(h, b)[k]] \in Names /\ hs[nm[Chain(h, b)[k]]] = b

OffTable(h, nm) ==
  \A x \in Nodes \ Linked(h) :
    nm[x] # NULL => h.next[x] = NULL /\ h.pprev[x] \in {NULL, NextOf(x)}

Table(hs, h, nm) ==
  /\ hs \in [Names -> Buckets]
  /\ nm \in [Nodes -> Names \cup {NULL}]
  /\ AllChains(h)
  /\ OwnNames(hs, h, nm)
  /\ OffTable(h, nm)

OnFirst(h, b, p, m) ==
  1 \in 1 .. Len(Chain(h, b)) /\ p = Chain(h, b)[1] /\ m = EntryAt(Chain(h, b), 2)

Walk(h, p, m) ==
  /\ p = NULL => m = NULL
  /\ p # NULL => \E b \in Buckets : OnFirst(h, b, p, m)

ChainsInv == Table(hash, heap, name) /\ Walk(heap, pos, n)

LEMMA TableInserts ==
  ASSUME NEW hs, NEW h, NEW nm, Table(hs, h, nm),
         NEW b \in Buckets, NEW x \in Nodes \ Linked(h), NEW m \in Names, hs[m] = b,
         NEW p \in 1 .. (Len(Chain(h, b)) + 1), NEW f, WellShaped(f),
         InsertsAt(h, f, b, Chain(h, b), p, x),
         NEW nm1 \in [Nodes -> Names \cup {NULL}],
         nm1[x] = m, \A y \in Nodes : y # x => nm1[y] = nm[y]
  PROVE  Table(hs, f, nm1)
<1>. DEFINE c == Chain(h, b)
<1>1. /\ AllChains(h) /\ c \in Seq(Nodes) /\ Len(c) \in Nat
  BY ChainLinks DEF Table
<1>2. /\ AllChains(f)
      /\ Chain(f, b) = Inserted(c, p, x)
      /\ \A d \in Buckets \ {b} : Chain(f, d) = Chain(h, d)
      /\ Linked(f) = Linked(h) \cup {x}
  <2>1. AllChains(h) /\ WellShaped(f) /\ InsertsAt(h, f, b, Chain(h, b), p, x)
    BY <1>1
  <2>. QED
    BY ONLY <2>1, b \in Buckets, p \in 1 .. (Len(Chain(h, b)) + 1), x \in Nodes \ Linked(h),
            Insertion
<1>3. /\ Len(Inserted(c, p, x)) = Len(c) + 1
      /\ \A k \in 1 .. (Len(c) + 1) :
           Inserted(c, p, x)[k] = IF k < p THEN c[k] ELSE IF k = p THEN x ELSE c[k - 1]
  BY <1>1, InsertedIs
<1>4. \A d \in Buckets : \A k \in 1 .. Len(Chain(h, d)) :
        /\ Chain(h, d)[k] \in Nodes /\ Chain(h, d)[k] # x
        /\ nm1[Chain(h, d)[k]] \in Names /\ hs[nm1[Chain(h, d)[k]]] = d
  BY <1>1, ChainLinks, UnlinkedDiffers DEF Table, OwnNames
<1>5. OwnNames(hs, f, nm1)
  <2>1. ASSUME NEW k \in 1 .. Len(Chain(f, b))
        PROVE  nm1[Chain(f, b)[k]] \in Names /\ hs[nm1[Chain(f, b)[k]]] = b
    <3>1. k \in 1 .. (Len(c) + 1)
      BY <1>2, <1>3
    <3>2. CASE k < p
      <4>1. k \in 1 .. Len(c) /\ Chain(f, b)[k] = c[k]
        BY <1>1, <1>2, <1>3, <3>1, <3>2
      <4>. QED
        BY <1>4, <4>1
    <3>3. CASE k = p
      BY <1>2, <1>3, <3>1, <3>3
    <3>4. CASE k > p
      <4>1. k - 1 \in 1 .. Len(c) /\ Chain(f, b)[k] = c[k - 1]
        BY <1>1, <1>2, <1>3, <3>1, <3>4
      <4>. QED
        BY <1>4, <4>1
    <3>. QED
      BY <3>1, <3>2, <3>3, <3>4
  <2>. QED
    BY <1>2, <1>4, <2>1 DEF OwnNames
<1>6. SamePointers(h, f, (Nodes \ Linked(h)) \ {x})
  <2>1. AllChains(h) /\ InsertsAt(h, f, b, Chain(h, b), p, x)
    BY <1>1
  <2>2. x \in Nodes /\ b \in Buckets /\ p \in 1 .. (Len(Chain(h, b)) + 1)
    OBVIOUS
  <2>. QED
    BY ONLY <2>1, <2>2, InsertionSpares
<1>7. OffTable(f, nm1)
  <2>1. ASSUME NEW y \in Nodes \ Linked(f), nm1[y] # NULL
        PROVE  f.next[y] = NULL /\ f.pprev[y] \in {NULL, NextOf(y)}
    <3>1. y \in Nodes \ Linked(h) /\ y # x /\ nm[y] # NULL
      BY <1>2, <2>1
    <3>. QED
      BY <1>6, <3>1 DEF Table, OffTable, SamePointers
  <2>. QED
    BY <2>1 DEF OffTable
<1>. QED
  BY <1>2, <1>5, <1>7 DEF Table

\* An entry leaves its chain to be freed, or stays as a single one.
LEMMA TableRemoves ==
  ASSUME NEW hs, NEW h, NEW nm, Table(hs, h, nm),
         NEW b \in Buckets, NEW k \in 1 .. Len(Chain(h, b)), NEW f, WellShaped(f),
         RemovesAt(h, f, b, Chain(h, b), k),
         NEW nm1 \in [Nodes -> Names \cup {NULL}],
         \/ nm1[Chain(h, b)[k]] = NULL
         \/ f.next[Chain(h, b)[k]] = NULL /\ f.pprev[Chain(h, b)[k]] = NULL,
         \A y \in Nodes : y # Chain(h, b)[k] => nm1[y] = nm[y]
  PROVE  Table(hs, f, nm1)
<1>. DEFINE c == Chain(h, b)
            x == c[k]
<1>1. /\ AllChains(h) /\ c \in Seq(Nodes) /\ Len(c) \in Nat
      /\ \A i, j \in 1 .. Len(c) : c[i] = c[j] => i = j
  <2>1. AllChains(h)
    BY DEF Table
  <2>. QED
    BY <2>1, ChainLinks DEF AllChains, IsChain
<1>2. /\ AllChains(f)
      /\ Chain(f, b) = Removed(c, k)
      /\ \A d \in Buckets \ {b} : Chain(f, d) = Chain(h, d)
      /\ Linked(f) = Linked(h) \ {x}
  <2>1. AllChains(h) /\ WellShaped(f) /\ RemovesAt(h, f, b, Chain(h, b), k)
    BY <1>1
  <2>. QED
    BY ONLY <2>1, b \in Buckets, k \in 1 .. Len(Chain(h, b)), Removal
<1>3. /\ Len(Removed(c, k)) = Len(c) - 1
      /\ \A i \in 1 .. (Len(c) - 1) : Removed(c, k)[i] = IF i < k THEN c[i] ELSE c[i + 1]
  BY <1>1, RemovedIs
<1>4. \A d \in Buckets : \A i \in 1 .. Len(Chain(h, d)) :
        /\ Chain(h, d)[i] \in Nodes
        /\ nm[Chain(h, d)[i]] \in Names /\ hs[nm[Chain(h, d)[i]]] = d
  BY <1>1, ChainLinks DEF Table, OwnNames
<1>5. OwnNames(hs, f, nm1)
  <2>1. ASSUME NEW i \in 1 .. Len(Chain(f, b))
        PROVE  nm1[Chain(f, b)[i]] \in Names /\ hs[nm1[Chain(f, b)[i]]] = b
    <3>1. i \in 1 .. (Len(c) - 1)
      BY <1>2, <1>3
    <3>2. PICK j \in 1 .. Len(c) : j # k /\ Chain(f, b)[i] = c[j]
      <4>1. CASE i < k
        BY <1>1, <1>2, <1>3, <3>1, <4>1
      <4>2. CASE ~(i < k)
        <5>1. i + 1 \in 1 .. Len(c) /\ i + 1 # k /\ Chain(f, b)[i] = c[i + 1]
          BY <1>1, <1>2, <1>3, <3>1, <4>2
        <5>. QED
          BY <5>1
      <4>. QED
        BY <4>1, <4>2
    <3>3. c[j] # x /\ c[j] \in Nodes
      BY <1>1, <1>4, <3>2
    <3>. QED
      BY <1>4, <3>2, <3>3
  <2>2. ASSUME NEW d \in Buckets, d # b, NEW i \in 1 .. Len(Chain(h, d))
        PROVE  nm1[Chain(h, d)[i]] \in Names /\ hs[nm1[Chain(h, d)[i]]] = d
    <3>1. Chain(h, d)[i] # x
      BY <1>1, <2>2 DEF AllChains
    <3>. QED
      BY <1>4, <2>2, <3>1
  <2>. QED
    BY <1>2, <2>1, <2>2 DEF OwnNames
<1>6. SamePointers(h, f, Nodes \ Linked(h))
  <2>1. AllChains(h) /\ RemovesAt(h, f, b, Chain(h, b), k)
    BY <1>1
  <2>. QED
    BY ONLY <2>1, b \in Buckets, k \in 1 .. Len(Chain(h, b)), RemovalSpares
<1>7. OffTable(f, nm1)
  <2>1. ASSUME NEW y \in Nodes \ Linked(f), nm1[y] # NULL
        PROVE  f.next[y] = NULL /\ f.pprev[y] \in {NULL, NextOf(y)}
    <3>1. CASE y = x
      BY <2>1, <3>1
    <3>2. CASE y # x
      <4>1. y \in Nodes \ Linked(h) /\ nm[y] # NULL
        BY <1>2, <2>1, <3>2
      <4>. QED
        BY <1>6, <4>1 DEF Table, OffTable, SamePointers
    <3>. QED
      BY <3>1, <3>2
  <2>. QED
    BY <2>1 DEF OffTable
<1>. QED
  BY <1>2, <1>5, <1>7 DEF Table

\* The own pointers of an entry on no chain change.
LEMMA TableStays ==
  ASSUME NEW hs, NEW h, NEW nm, Table(hs, h, nm), NEW f, WellShaped(f),
         NEW x \in Nodes \ Linked(h),
         \A q \in Addresses : q # NextOf(x) => Load(f, q) = Load(h, q),
         \A y \in Nodes : y # x => f.pprev[y] = h.pprev[y],
         NEW nm1 \in [Nodes -> Names \cup {NULL}],
         \/ nm1[x] = NULL
         \/ f.next[x] = NULL /\ f.pprev[x] \in {NULL, NextOf(x)},
         \A y \in Nodes : y # x => nm1[y] = nm[y]
  PROVE  Table(hs, f, nm1)
<1>1. AllChains(h)
  BY DEF Table
<1>2. AllChains(f) /\ (\A b \in Buckets : Chain(f, b) = Chain(h, b)) /\ Linked(f) = Linked(h)
  BY <1>1, ChainsStay
<1>3. \A b \in Buckets : \A k \in 1 .. Len(Chain(h, b)) :
        Chain(h, b)[k] \in Nodes /\ Chain(h, b)[k] # x
  BY <1>1, ChainLinks, UnlinkedDiffers
<1>4. OwnNames(hs, f, nm1)
  BY <1>2, <1>3 DEF Table, OwnNames
<1>5. OffTable(f, nm1)
  <2>1. ASSUME NEW y \in Nodes \ Linked(f), nm1[y] # NULL, y # x
        PROVE  f.next[y] = NULL /\ f.pprev[y] \in {NULL, NextOf(y)}
    <3>1. NextOf(y) \in Addresses /\ NextOf(y) # NextOf(x)
      BY <2>1, AddressesDiffer
    <3>2. f.next[y] = h.next[y] /\ f.pprev[y] = h.pprev[y]
      BY <2>1, <3>1, LoadIs
    <3>. QED
      BY <1>2, <2>1, <3>2 DEF Table, OffTable
  <2>. QED
    BY <2>1 DEF OffTable
<1>. QED
  BY <1>2, <1>4, <1>5 DEF Table

LEMMA OnTable ==
  ASSUME NEW hs, NEW h, NEW nm, Table(hs, h, nm)
  PROVE  \A x \in Linked(h) :
           /\ x \in Nodes /\ nm[x] \in Names /\ nm[x] # NULL
           /\ \E k \in 1 .. Len(Chain(h, hs[nm[x]])) : Chain(h, hs[nm[x]])[k] = x
           /\ hs[nm[x]] \in Buckets
<1>1. SUFFICES ASSUME NEW b \in Buckets, NEW k \in 1 .. Len(Chain(h, b))
               PROVE  /\ Chain(h, b)[k] \in Nodes
                      /\ nm[Chain(h, b)[k]] \in Names /\ nm[Chain(h, b)[k]] # NULL
                      /\ hs[nm[Chain(h, b)[k]]] = b
  BY LinkedIs
<1>2. AllChains(h) /\ OwnNames(hs, h, nm)
  BY DEF Table
<1>3. Chain(h, b)[k] \in Nodes
  BY <1>2, ChainLinks
<1>4. nm[Chain(h, b)[k]] \in Names /\ hs[nm[Chain(h, b)[k]]] = b
  BY <1>2 DEF OwnNames
<1>. QED
  BY <1>3, <1>4, ChainsAssumption

\* An entry on no chain is put first on the chain of its name.
LEMMA TableAddsHead ==
  ASSUME NEW hs, NEW h, NEW nm, Table(hs, h, nm),
         NEW x \in Nodes \ Linked(h), NEW m \in Names, NEW f, f = hlist_add_head(h, x, hs[m]),
         NEW nm1 \in [Nodes -> Names \cup {NULL}],
         nm1[x] = m, \A y \in Nodes : y # x => nm1[y] = nm[y]
  PROVE  Table(hs, f, nm1)
<1>. DEFINE b == hs[m]
            q == 1
<1>1. AllChains(h) /\ b \in Buckets
  BY DEF Table
<1>. HIDE DEF b
<1>2. f = hlist_add_head(h, x, b)
  BY DEF b
<1>3. WellShaped(f) /\ InsertsAt(h, f, b, Chain(h, b), q, x) /\ q \in 1 .. (Len(Chain(h, b)) + 1)
  BY <1>1, <1>2, AddHead
<1>. HIDE DEF q
<1>4. hs[m] = b
  BY DEF b
<1>. QED
  BY <1>1, <1>3, <1>4, TableInserts

\* An allocated entry on no chain is unhashed, or appears to be on one; to
\* take it off changes nothing but its own pointers.
LEMMA TakenOffTwice ==
  ASSUME NEW hs, NEW h, NEW nm, Table(hs, h, nm), NEW x \in Nodes \ Linked(h), nm[x] # NULL,
         h.pprev[x] # NULL, NEW u, NEW v,
         NEW f, f = SetPprev(SetNext(hlist_unlink(h, x), x, u), x, v)
  PROVE  /\ WellShaped(f)
         /\ \A q \in Addresses : q # NextOf(x) => Load(f, q) = Load(h, q)
         /\ \A y \in Nodes : y # x => f.pprev[y] = h.pprev[y]
         /\ f.next[x] = u /\ f.pprev[x] = v
<1>1. AllChains(h) /\ h.next[x] = NULL /\ h.pprev[x] = NextOf(x)
  BY DEF Table, OffTable
<1>2. /\ WellShaped(f)
      /\ \A q \in Addresses : q # NextOf(x) => Load(f, q) = Load(h, q)
      /\ \A y \in Nodes : f.pprev[y] = IF y = x THEN v ELSE h.pprev[y]
      /\ f.next[x] = u
  BY <1>1, DelFake
<1>. QED
  BY <1>2

\* del_init, whatever the entry is; its name may go with it.
LEMMA TableDelInit ==
  ASSUME NEW hs, NEW h, NEW nm, Table(hs, h, nm), NEW x \in Nodes, nm[x] # NULL,
         NEW f, f = hlist_del_init(h, x), NEW nm1 \in [Nodes -> Names \cup {NULL}],
         \A y \in Nodes : y # x => nm1[y] = nm[y]
  PROVE  Table(hs, f, nm1)
<1>1. CASE x \in Linked(h)
  <2>1. PICK b, k : b \in Buckets /\ k \in 1 .. Len(Chain(h, b)) /\ Chain(h, b)[k] = x
    BY <1>1, LinkedIs
  <2>2. AllChains(h) /\ f = hlist_del_init(h, Chain(h, b)[k])
    BY <2>1 DEF Table
  <2>3. /\ WellShaped(f) /\ RemovesAt(h, f, b, Chain(h, b), k)
        /\ f.next[Chain(h, b)[k]] = NULL /\ f.pprev[Chain(h, b)[k]] = NULL
    BY ONLY <2>1, <2>2, DelInitIs
  <2>. QED
    BY <2>1, <2>3, TableRemoves
<1>2. CASE x \notin Linked(h) /\ h.pprev[x] = NULL
  <2>1. f = h
    BY <1>2 DEF hlist_del_init, hlist_unhashed
  <2>2. h.next[x] = NULL /\ WellShaped(h)
    BY <1>2 DEF Table, OffTable, AllChains
  <2>. QED
    BY <1>2, <2>1, <2>2, TableStays
<1>3. CASE x \notin Linked(h) /\ h.pprev[x] # NULL
  <2>1. f = SetPprev(SetNext(hlist_unlink(h, x), x, NULL), x, NULL)
    BY <1>3 DEF hlist_del_init, hlist_unhashed, INIT_HLIST_NODE
  <2>2. /\ WellShaped(f)
        /\ \A q \in Addresses : q # NextOf(x) => Load(f, q) = Load(h, q)
        /\ \A y \in Nodes : y # x => f.pprev[y] = h.pprev[y]
        /\ f.next[x] = NULL /\ f.pprev[x] = NULL
    BY <1>3, <2>1, TakenOffTwice
  <2>. QED
    BY <1>3, <2>2, TableStays
<1>. QED
  BY <1>1, <1>2, <1>3

\* del, when the entry is freed with it.
LEMMA TableDel ==
  ASSUME NEW hs, NEW h, NEW nm, Table(hs, h, nm), NEW x \in Nodes, nm[x] # NULL,
         h.pprev[x] # NULL, NEW f, f = hlist_del(h, x),
         NEW nm1 \in [Nodes -> Names \cup {NULL}],
         nm1[x] = NULL, \A y \in Nodes : y # x => nm1[y] = nm[y]
  PROVE  Table(hs, f, nm1)
<1>1. CASE x \in Linked(h)
  <2>1. PICK b, k : b \in Buckets /\ k \in 1 .. Len(Chain(h, b)) /\ Chain(h, b)[k] = x
    BY <1>1, LinkedIs
  <2>2. AllChains(h) /\ f = hlist_del(h, Chain(h, b)[k])
    BY <2>1 DEF Table
  <2>3. WellShaped(f) /\ RemovesAt(h, f, b, Chain(h, b), k)
    BY ONLY <2>1, <2>2, DelIs
  <2>. QED
    BY <2>1, <2>3, TableRemoves
<1>2. CASE x \notin Linked(h)
  <2>1. f = SetPprev(SetNext(hlist_unlink(h, x), x, "poison1"), x, "poison2")
    BY DEF hlist_del
  <2>2. /\ WellShaped(f)
        /\ \A q \in Addresses : q # NextOf(x) => Load(f, q) = Load(h, q)
        /\ \A y \in Nodes : y # x => f.pprev[y] = h.pprev[y]
    BY <1>2, <2>1, TakenOffTwice
  <2>. QED
    BY <1>2, <2>2, TableStays
<1>. QED
  BY <1>1, <1>2

-----------------------------------------------------------------------------
(* The actions.                                                            *)

LEMMA ChainsInit == Init => ChainsInv
<1>. SUFFICES ASSUME Init
              PROVE  ChainsInv
  OBVIOUS
<1>. DEFINE none == <<>>
<1>1. /\ heap.first = [b \in Buckets |-> NULL]
      /\ heap.next = [x \in Nodes |-> NULL] /\ heap.pprev = [x \in Nodes |-> NULL]
  BY DEF Init, Heap
<1>2. none \in Seq(Nodes) /\ Len(none) = 0
  OBVIOUS
<1>3. ASSUME NEW b \in Buckets
      PROVE  IsChain(heap, b, none)
  <2>1. Load(heap, FirstOf(b)) = NULL
    BY <1>1, LoadIs
  <2>2. PlaceOf(none, b, 0) = FirstOf(b) /\ EntryAt(none, 0 + 1) = NULL
    BY <1>2 DEF PlaceOf, EntryAt
  <2>3. \A k \in 0 .. Len(none) : k = 0
    BY <1>2
  <2>4. \A k \in 1 .. Len(none) : FALSE
    BY <1>2
  <2>. HIDE DEF none
  <2>. QED
    BY ONLY <1>2, <2>1, <2>2, <2>3, <2>4 DEF IsChain
<1>4. \A b \in Buckets : Chain(heap, b) = none
  BY <1>3, ChainIs
<1>5. \A b \in Buckets : IsChain(heap, b, Chain(heap, b))
  BY <1>3, <1>4
<1>6. \A b \in Buckets : \A k \in 1 .. Len(Chain(heap, b)) : FALSE
  BY <1>2, <1>4
<1>7. AllChains(heap)
  BY <1>1, <1>5, <1>6 DEF AllChains, WellShaped
<1>8. OwnNames(hash, heap, name)
  BY <1>6 DEF OwnNames
<1>9. OffTable(heap, name)
  BY DEF OffTable, Init
<1>10. Table(hash, heap, name)
  BY <1>7, <1>8, <1>9 DEF Table, Init
<1>. QED
  BY <1>10 DEF ChainsInv, Walk, Init

LEMMA AddStep ==
  ASSUME ChainsInv, hash_add
  PROVE  ChainsInv'
<1>1. PICK x \in Nodes \ Allocated, m \in Names :
        /\ Idle
        /\ name' = [name EXCEPT ![x] = m]
        /\ heap' = hlist_add_head(heap, x, hash[m])
        /\ UNCHANGED <<hash, pos, n>>
  BY DEF hash_add
<1>2. Table(hash, heap, name) /\ name \in [Nodes -> Names \cup {NULL}]
  BY DEF ChainsInv, Table
<1>3. x \in Nodes \ Linked(heap)
  BY <1>2, OnTable DEF Allocated
<1>4. /\ name' \in [Nodes -> Names \cup {NULL}]
      /\ name'[x] = m /\ \A y \in Nodes : y # x => name'[y] = name[y]
  BY <1>1, <1>2
<1>5. heap' = hlist_add_head(heap, x, hash[m])
  BY <1>1
<1>6. Table(hash, heap', name')
  BY ONLY <1>2, <1>3, <1>4, <1>5, m \in Names, TableAddsHead
<1>7. hash' = hash /\ pos' = NULL /\ n' = NULL
  BY <1>1 DEF ChainsInv, Walk, Idle
<1>. QED
  BY <1>6, <1>7 DEF ChainsInv, Walk

LEMMA AddNextToStep ==
  ASSUME ChainsInv, AddNextTo
  PROVE  ChainsInv'
<1>1. PICK x \in Nodes \ Allocated, y \in Linked(heap), m \in Names :
        /\ Idle
        /\ hash[m] = hash[name[y]]
        /\ name' = [name EXCEPT ![x] = m]
        /\ heap' \in {hlist_add_before(heap, x, y), hlist_add_after(heap, y, x)}
        /\ UNCHANGED <<hash, pos, n>>
  BY DEF AddNextTo
<1>2. /\ Table(hash, heap, name) /\ name \in [Nodes -> Names \cup {NULL}] /\ AllChains(heap)
  BY DEF ChainsInv, Table
<1>3. x \in Nodes \ Linked(heap)
  BY <1>2, OnTable DEF Allocated
<1>4. /\ name' \in [Nodes -> Names \cup {NULL}]
      /\ name'[x] = m /\ \A z \in Nodes : z # x => name'[z] = name[z]
  BY <1>1, <1>2
<1>5. PICK b, k : /\ b = hash[m] /\ b \in Buckets
                  /\ k \in 1 .. Len(Chain(heap, b)) /\ Chain(heap, b)[k] = y
  BY <1>1, <1>2, OnTable
<1>6. Table(hash, heap', name')
  <2>1. ASSUME NEW p \in 1 .. (Len(Chain(heap, b)) + 1), WellShaped(heap'),
               InsertsAt(heap, heap', b, Chain(heap, b), p, x)
        PROVE  Table(hash, heap', name')
    <3>1. hash[m] = b /\ b \in Buckets /\ m \in Names
      BY <1>5
    <3>. QED
      BY ONLY <1>2, <1>3, <1>4, <2>1, <3>1, TableInserts
  <2>2. CASE heap' = hlist_add_before(heap, x, Chain(heap, b)[k])
    <3>1. /\ WellShaped(heap') /\ InsertsAt(heap, heap', b, Chain(heap, b), k, x)
          /\ k \in 1 .. (Len(Chain(heap, b)) + 1)
      BY ONLY <1>2, <1>3, <1>5, <2>2, AddBefore
    <3>. QED
      BY <2>1, <3>1
  <2>3. CASE heap' = hlist_add_after(heap, Chain(heap, b)[k], x)
    <3>1. /\ WellShaped(heap') /\ InsertsAt(heap, heap', b, Chain(heap, b), k + 1, x)
          /\ k + 1 \in 1 .. (Len(Chain(heap, b)) + 1)
      BY ONLY <1>2, <1>3, <1>5, <2>3, AddAfter
    <3>. QED
      BY <2>1, <3>1
  <2>. QED
    BY <1>1, <1>5, <2>2, <2>3
<1>7. hash' = hash /\ pos' = NULL /\ n' = NULL
  BY <1>1 DEF ChainsInv, Walk, Idle
<1>. QED
  BY <1>6, <1>7 DEF ChainsInv, Walk

LEMMA TakeOffStep ==
  ASSUME ChainsInv, TakeOff
  PROVE  ChainsInv'
<1>1. PICK x \in Allocated :
        /\ Idle
        /\ heap' = hlist_del_init(heap, x)
        /\ UNCHANGED <<hash, name, pos, n>>
  BY DEF TakeOff
<1>2. Table(hash, heap, name) /\ name \in [Nodes -> Names \cup {NULL}]
  BY DEF ChainsInv, Table
<1>3. x \in Nodes /\ name[x] # NULL
  BY DEF Allocated
<1>4. heap' = hlist_del_init(heap, x)
  BY <1>1
<1>5. \A y \in Nodes : y # x => name[y] = name[y]
  OBVIOUS
<1>6. Table(hash, heap', name)
  BY ONLY <1>2, <1>3, <1>4, <1>5, TableDelInit
<1>7. hash' = hash /\ name' = name /\ pos' = NULL /\ n' = NULL
  BY <1>1 DEF ChainsInv, Walk, Idle
<1>. QED
  BY <1>6, <1>7 DEF ChainsInv, Walk

\* An unhashed entry is on no chain.
LEMMA UnhashedIsOff ==
  ASSUME NEW h, AllChains(h), NEW x \in Nodes, h.pprev[x] = NULL
  PROVE  x \in Nodes \ Linked(h)
<1>. SUFFICES ASSUME NEW b \in Buckets, NEW k \in 1 .. Len(Chain(h, b)), Chain(h, b)[k] = x
              PROVE  FALSE
  BY LinkedIs
<1>1. /\ Chain(h, b) \in Seq(Nodes) /\ Len(Chain(h, b)) \in Nat
      /\ h.pprev[x] = PlaceOf(Chain(h, b), b, k - 1)
  BY ChainLinks
<1>2. k - 1 \in 0 .. Len(Chain(h, b))
  BY <1>1
<1>3. PlaceOf(Chain(h, b), b, k - 1) \in Addresses
  BY <1>1, <1>2, ChainPlaces
<1>. QED
  BY <1>1, <1>3, AddressesDiffer

LEMMA PutBackStep ==
  ASSUME ChainsInv, PutBack
  PROVE  ChainsInv'
<1>1. PICK x \in Allocated :
        /\ Idle
        /\ hlist_unhashed(heap, x)
        /\ heap' = hlist_add_head(heap, x, hash[name[x]])
        /\ UNCHANGED <<hash, name, pos, n>>
  BY DEF PutBack
<1>2. Table(hash, heap, name) /\ name \in [Nodes -> Names \cup {NULL}] /\ AllChains(heap)
  BY DEF ChainsInv, Table
<1>3. x \in Nodes /\ name[x] \in Names /\ heap.pprev[x] = NULL
  BY <1>1, <1>2 DEF Allocated, hlist_unhashed
<1>4. x \in Nodes \ Linked(heap)
  BY <1>2, <1>3, UnhashedIsOff
<1>5. heap' = hlist_add_head(heap, x, hash[name[x]])
  BY <1>1
<1>6. name[x] = name[x] /\ \A y \in Nodes : y # x => name[y] = name[y]
  OBVIOUS
<1>7. Table(hash, heap', name)
  BY ONLY <1>2, <1>3, <1>4, <1>5, <1>6, TableAddsHead
<1>8. hash' = hash /\ name' = name /\ pos' = NULL /\ n' = NULL
  BY <1>1 DEF ChainsInv, Walk, Idle
<1>. QED
  BY <1>7, <1>8 DEF ChainsInv, Walk

LEMMA PretendStep ==
  ASSUME ChainsInv, Pretend
  PROVE  ChainsInv'
<1>1. PICK x \in Allocated :
        /\ Idle
        /\ hlist_unhashed(heap, x)
        /\ heap' = hlist_add_fake(heap, x)
        /\ UNCHANGED <<hash, name, pos, n>>
  BY DEF Pretend
<1>2. Table(hash, heap, name) /\ name \in [Nodes -> Names \cup {NULL}] /\ AllChains(heap)
  BY DEF ChainsInv, Table
<1>3. x \in Nodes /\ name[x] # NULL /\ heap.pprev[x] = NULL
  BY <1>1, <1>2 DEF Allocated, hlist_unhashed
<1>4. x \in Nodes \ Linked(heap)
  BY <1>2, <1>3, UnhashedIsOff
<1>5. heap' = SetPprev(heap, x, NextOf(x)) /\ WellShaped(heap)
  BY <1>1, <1>2 DEF hlist_add_fake, AllChains
<1>6. /\ WellShaped(heap')
      /\ \A q : Load(heap', q) = Load(heap, q)
      /\ \A y \in Nodes : heap'.pprev[y] = IF y = x THEN NextOf(x) ELSE heap.pprev[y]
  BY ONLY <1>3, <1>5, SetPprevIs
<1>7. heap.next[x] = NULL
  BY <1>2, <1>3, <1>4 DEF Table, OffTable
<1>8. heap'.next[x] = NULL /\ heap'.pprev[x] \in {NULL, NextOf(x)}
  BY <1>3, <1>6, <1>7, LoadIs
<1>9. /\ WellShaped(heap')
      /\ \A q \in Addresses : q # NextOf(x) => Load(heap', q) = Load(heap, q)
      /\ \A y \in Nodes : y # x => heap'.pprev[y] = heap.pprev[y]
      /\ \A y \in Nodes : y # x => name[y] = name[y]
  BY <1>6
<1>10. Table(hash, heap', name)
  BY ONLY <1>2, <1>4, <1>8, <1>9, TableStays
<1>11. hash' = hash /\ name' = name /\ pos' = NULL /\ n' = NULL
  BY <1>1 DEF ChainsInv, Walk, Idle
<1>. QED
  BY <1>10, <1>11 DEF ChainsInv, Walk

LEMMA DiscardStep ==
  ASSUME ChainsInv, Discard
  PROVE  ChainsInv'
<1>1. PICK x \in Allocated :
        /\ Idle
        /\ ~hlist_unhashed(heap, x)
        /\ heap' = hlist_del(heap, x)
        /\ name' = [name EXCEPT ![x] = NULL]
        /\ UNCHANGED <<hash, pos, n>>
  BY DEF Discard
<1>2. Table(hash, heap, name) /\ name \in [Nodes -> Names \cup {NULL}]
  BY DEF ChainsInv, Table
<1>3. x \in Nodes /\ name[x] # NULL /\ heap.pprev[x] # NULL
  BY <1>1 DEF Allocated, hlist_unhashed
<1>4. heap' = hlist_del(heap, x)
  BY <1>1
<1>5. /\ name' \in [Nodes -> Names \cup {NULL}]
      /\ name'[x] = NULL /\ \A y \in Nodes : y # x => name'[y] = name[y]
  BY <1>1, <1>2, <1>3
<1>6. Table(hash, heap', name')
  BY ONLY <1>2, <1>3, <1>4, <1>5, TableDel
<1>7. hash' = hash /\ pos' = NULL /\ n' = NULL
  BY <1>1 DEF ChainsInv, Walk, Idle
<1>. QED
  BY <1>6, <1>7 DEF ChainsInv, Walk

LEMMA DestoryStep ==
  ASSUME ChainsInv, hash_table_destory
  PROVE  ChainsInv'
<1>1. PICK b \in Buckets :
        /\ Idle
        /\ heap.first[b] # NULL
        /\ pos' = heap.first[b]
        /\ n' = heap.next[heap.first[b]]
        /\ UNCHANGED <<hash, heap, name>>
  BY DEF hash_table_destory
<1>2. Table(hash, heap, name) /\ AllChains(heap)
  BY DEF ChainsInv, Table
<1>3. 1 \in 1 .. Len(Chain(heap, b)) /\ heap.first[b] = Chain(heap, b)[1]
  BY <1>1, <1>2, ChainLinks DEF EntryAt
<1>4. heap.next[Chain(heap, b)[1]] = EntryAt(Chain(heap, b), 2)
  <2>1. heap.next[Chain(heap, b)[1]] = EntryAt(Chain(heap, b), 1 + 1)
    BY <1>2, <1>3, ChainLinks
  <2>. QED
    BY <2>1
<1>5. OnFirst(heap, b, pos', n') /\ pos' # NULL
  BY <1>1, <1>3, <1>4 DEF OnFirst
<1>6. Walk(heap, pos', n')
  BY <1>5 DEF Walk
<1>. QED
  BY <1>1, <1>2, <1>6 DEF ChainsInv

\* One round of the destroying walk, on the chain it is on.
LEMMA DestroyRound ==
  ASSUME ChainsInv, DestroyEntry
  PROVE  \E b \in Buckets :
           /\ OnFirst(heap, b, pos, n)
           /\ Chain(heap', b) = Removed(Chain(heap, b), 1)
           /\ IF n = NULL THEN pos' = NULL /\ n' = NULL
              ELSE pos' # NULL /\ OnFirst(heap', b, pos', n')
<1>1. Table(hash, heap, name) /\ AllChains(heap) /\ pos # NULL
  BY DEF ChainsInv, Table, DestroyEntry
<1>2. PICK b \in Buckets : OnFirst(heap, b, pos, n)
  BY <1>1 DEF ChainsInv, Walk
<1>. DEFINE c == Chain(heap, b)
            k == 1
<1>3. k \in 1 .. Len(c) /\ pos = c[k] /\ n = EntryAt(c, 2)
  BY <1>2 DEF OnFirst
<1>4. c \in Seq(Nodes) /\ Len(c) \in Nat /\ c[1] \in Nodes
  BY <1>1, <1>3, ChainLinks
<1>5. heap' = hlist_del_init(heap, Chain(heap, b)[k])
  BY <1>3 DEF DestroyEntry
<1>. HIDE DEF k
<1>6. WellShaped(heap') /\ RemovesAt(heap, heap', b, Chain(heap, b), k)
  BY ONLY <1>1, <1>3, <1>5, b \in Buckets, DelInitIs
<1>7. AllChains(heap') /\ Chain(heap', b) = Removed(Chain(heap, b), k)
  BY ONLY <1>1, <1>3, <1>6, b \in Buckets, Removal
<1>8. Chain(heap', b) = Removed(c, 1)
  BY <1>7 DEF k
<1>9. CASE n = NULL
  BY <1>2, <1>8, <1>9 DEF DestroyEntry, NextEntry
<1>10. CASE n # NULL
  <2>1. 2 \in 1 .. Len(c) /\ n = c[2]
    BY <1>3, <1>10 DEF EntryAt
  <2>2. Len(Chain(heap', b)) = Len(c) - 1 /\ Chain(heap', b)[1] = c[2]
    <3>1. 1 \in 1 .. Len(c) /\ 1 \in 1 .. (Len(c) - 1)
      BY <1>4, <2>1
    <3>. QED
      BY <1>4, <1>8, <3>1, RemovedIs
  <2>3. 1 \in 1 .. Len(Chain(heap', b)) /\ Chain(heap', b)[1] = n
    BY <1>4, <2>1, <2>2
  <2>4. pos' = n /\ n' = heap'.next[n]
    BY <1>10 DEF DestroyEntry, NextEntry
  <2>5. heap'.next[Chain(heap', b)[1]] = EntryAt(Chain(heap', b), 1 + 1)
    BY ONLY <1>7, <2>3, b \in Buckets, ChainLinks
  <2>6. n' = EntryAt(Chain(heap', b), 2)
    BY <2>3, <2>4, <2>5
  <2>7. pos' # NULL /\ OnFirst(heap', b, pos', n')
    BY <1>10, <2>3, <2>4, <2>6 DEF OnFirst
  <2>. QED
    BY <1>2, <1>8, <1>10, <2>7
<1>. QED
  BY <1>9, <1>10

LEMMA DestroyStep ==
  ASSUME ChainsInv, DestroyEntry
  PROVE  ChainsInv'
<1>1. Table(hash, heap, name) /\ name \in [Nodes -> Names \cup {NULL}] /\ pos # NULL
  BY DEF ChainsInv, Table, DestroyEntry
<1>2. PICK b \in Buckets :
        /\ OnFirst(heap, b, pos, n)
        /\ IF n = NULL THEN pos' = NULL /\ n' = NULL
           ELSE pos' # NULL /\ OnFirst(heap', b, pos', n')
  BY DestroyRound
<1>3. pos \in Nodes /\ name[pos] # NULL
  <2>1. pos \in Linked(heap)
    BY <1>2, LinkedIs DEF OnFirst
  <2>. QED
    BY <1>1, <2>1, OnTable
<1>4. heap' = hlist_del_init(heap, pos)
  BY DEF DestroyEntry
<1>5. /\ name' \in [Nodes -> Names \cup {NULL}]
      /\ \A y \in Nodes : y # pos => name'[y] = name[y]
  BY <1>1, <1>3 DEF DestroyEntry
<1>6. Table(hash, heap', name')
  BY ONLY <1>1, <1>3, <1>4, <1>5, TableDelInit
<1>7. Walk(heap', pos', n')
  BY <1>2 DEF Walk
<1>8. hash' = hash
  BY DEF DestroyEntry
<1>. QED
  BY <1>6, <1>7, <1>8 DEF ChainsInv

\* In every state the table holds the chains of its entries' names.
THEOREM ChainsInvariant == Spec => []ChainsInv
<1>1. ChainsInv /\ [Next]_chainVars => ChainsInv'
  <2>. SUFFICES ASSUME ChainsInv, [Next]_chainVars
                PROVE  ChainsInv'
    OBVIOUS
  <2>1. CASE UNCHANGED chainVars
    BY <2>1 DEF chainVars, ChainsInv
  <2>2. CASE Next
    BY <2>2, AddStep, AddNextToStep, TakeOffStep, PutBackStep, PretendStep, DiscardStep,
       DestoryStep, DestroyStep DEF Next
  <2>. QED
    BY <2>1, <2>2
<1>. QED
  BY ChainsInit, <1>1, PTL DEF Spec

-----------------------------------------------------------------------------
(* The theorems.                                                           *)

\* Every chain ends and its entries' pprevs lead back; what the pointers of
\* the others hold does no harm to it.
THEOREM TableIsLinked == Spec => []ChainsAreLinked
<1>1. ChainsInv => ChainsAreLinked
  <2>. SUFFICES ASSUME ChainsInv
                PROVE  ChainsAreLinked
    OBVIOUS
  <2>1. Table(hash, heap, name) /\ AllChains(heap)
    BY DEF ChainsInv, Table
  <2>2. ASSUME NEW b \in Buckets, Chain(heap, b) # <<>>
        PROVE  heap.next[Last(Chain(heap, b))] = NULL
    <3>1. Chain(heap, b) \in Seq(Nodes) /\ Len(Chain(heap, b)) \in Nat
      BY <2>1, ChainLinks
    <3>2. Len(Chain(heap, b)) \in 1 .. Len(Chain(heap, b))
      BY <2>2, <3>1, EmptySeq
    <3>3. heap.next[Chain(heap, b)[Len(Chain(heap, b))]]
            = EntryAt(Chain(heap, b), Len(Chain(heap, b)) + 1)
      BY <2>1, <3>2, ChainLinks
    <3>4. EntryAt(Chain(heap, b), Len(Chain(heap, b)) + 1) = NULL
      BY <3>1, ChainPlaces
    <3>. QED
      BY <3>3, <3>4 DEF Last
  <2>3. ASSUME NEW b \in Buckets, NEW k \in 1 .. Len(Chain(heap, b))
        PROVE  /\ Chain(heap, b)[k] \in Allocated
               /\ heap.pprev[Chain(heap, b)[k]]
                    = IF k = 1 THEN FirstOf(b) ELSE NextOf(Chain(heap, b)[k - 1])
    <3>1. Chain(heap, b)[k] \in Linked(heap)
      BY LinkedIs
    <3>2. heap.pprev[Chain(heap, b)[k]] = PlaceOf(Chain(heap, b), b, k - 1)
      BY <2>1, ChainLinks
    <3>3. k - 1 = 0 <=> k = 1
      OBVIOUS
    <3>. QED
      BY <2>1, <3>1, <3>2, <3>3, OnTable DEF Allocated, PlaceOf
  <2>4. ASSUME NEW x \in Allocated \ Linked(heap)
        PROVE  /\ hlist_unhashed(heap, x) \/ heap.pprev[x] = NextOf(x)
               /\ Chains(hlist_del_init(heap, x)) = Chains(heap)
    <3>1. x \in Nodes \ Linked(heap) /\ name[x] # NULL
      BY DEF Allocated
    <3>2. heap.pprev[x] \in {NULL, NextOf(x)}
      BY <2>1, <3>1 DEF Table, OffTable
    <3>3. CASE heap.pprev[x] = NULL
      BY <3>3 DEF hlist_del_init, hlist_unhashed
    <3>4. CASE heap.pprev[x] # NULL
      <4>1. PICK f : f = hlist_del_init(heap, x)
        OBVIOUS
      <4>2. f = SetPprev(SetNext(hlist_unlink(heap, x), x, NULL), x, NULL)
        BY <3>4, <4>1 DEF hlist_del_init, hlist_unhashed, INIT_HLIST_NODE
      <4>3. /\ WellShaped(f)
            /\ \A q \in Addresses : q # NextOf(x) => Load(f, q) = Load(heap, q)
            /\ \A y \in Nodes : y # x => f.pprev[y] = heap.pprev[y]
        BY ONLY <2>1, <3>1, <3>4, <4>2, TakenOffTwice
      <4>4. \A b \in Buckets : Chain(f, b) = Chain(heap, b)
        BY ONLY <2>1, <3>1, <4>3, ChainsStay
      <4>. QED
        BY <3>2, <3>4, <4>1, <4>4 DEF Chains
    <3>. QED
      BY <3>2, <3>3, <3>4 DEF hlist_unhashed
  <2>. QED
    BY <2>2, <2>3, <2>4 DEF ChainsAreLinked
<1>. QED
  BY ChainsInvariant, <1>1, PTL

\* A name is found when an entry on the table has it, and only then.
THEOREM LookupFinds == Spec => []LookupIsComplete
<1>1. ChainsInv => LookupIsComplete
  <2>. SUFFICES ASSUME ChainsInv, NEW m \in Names
                PROVE  LET x == hash_lookup_tag(m)
                       IN  IF x = NULL THEN \A y \in Linked(heap) : name[y] # m
                           ELSE x \in Linked(heap) /\ name[x] = m
    BY DEF LookupIsComplete
  <2>. DEFINE b    == hash[m]
              c    == Chain(heap, b)
              hits == {k \in 1 .. Len(c) : name[c[k]] = m}
  <2>1. Table(hash, heap, name) /\ AllChains(heap) /\ b \in Buckets
    BY DEF ChainsInv, Table
  <2>2. c \in Seq(Nodes) /\ Len(c) \in Nat /\ \A k \in 1 .. Len(c) : c[k] \in Nodes
    BY <2>1, ChainLinks
  <2>3. hash_lookup_tag(m) = IF hits = {} THEN NULL ELSE c[Min(hits)]
    BY DEF hash_lookup_tag
  <2>4. \A k \in 1 .. Len(c) : c[k] \in Linked(heap)
    BY <2>1, LinkedIs
  <2>5. \A y \in Linked(heap) : name[y] = m => \E k \in 1 .. Len(c) : c[k] = y
    BY <2>1, OnTable
  <2>6. CASE hits = {}
    <3>1. \A y \in Linked(heap) : name[y] # m
      BY <2>5, <2>6
    <3>. QED
      BY <2>3, <2>6, <3>1
  <2>7. CASE hits # {}
    <3>1. hits \in SUBSET Nat
      OBVIOUS
    <3>2. \E x \in hits : \A y \in hits : x <= y
      BY ONLY <2>7, <3>1, LeastNat
    <3>3. Min(hits) \in hits
      BY <3>2 DEF Min
    <3>4. Min(hits) \in 1 .. Len(c) /\ name[c[Min(hits)]] = m
      BY <3>3
    <3>5. c[Min(hits)] # NULL
      BY <2>2, <3>4, ChainsAssumption
    <3>. QED
      BY <2>3, <2>4, <2>7, <3>4, <3>5
  <2>. QED
    BY <2>6, <2>7
<1>. QED
  BY ChainsInvariant, <1>1, PTL

\* The chain at b has become c, the others are what they were.
ChangesOnly(h, f, b, c) ==
  Chain(f, b) = c /\ \A d \in Buckets \ {b} : Chain(f, d) = Chain(h, d)

PutInto(c, k, x) == SubSeq(c, 1, k) \o <<x>> \o SubSeq(c, k + 1, Len(c))

LEMMA PutChains ==
  ASSUME NEW h, AllChains(h), NEW f, WellShaped(f), NEW b \in Buckets,
         NEW k \in 0 .. Len(Chain(h, b)), NEW x \in Nodes \ Linked(h),
         InsertsAt(h, f, b, Chain(h, b), k + 1, x)
  PROVE  ChangesOnly(h, f, b, PutInto(Chain(h, b), k, x))
<1>. DEFINE c == Chain(h, b)
            p == k + 1
<1>1. c \in Seq(Nodes) /\ Len(c) \in Nat
  BY ChainLinks
<1>2. p \in 1 .. (Len(Chain(h, b)) + 1) /\ InsertsAt(h, f, b, Chain(h, b), p, x)
  BY <1>1
<1>3. Inserted(c, p, x) = PutInto(c, k, x)
  BY <1>1, PutIs DEF PutInto
<1>. HIDE DEF p
<1>4. AllChains(h) /\ WellShaped(f) /\ b \in Buckets /\ x \in Nodes \ Linked(h)
  OBVIOUS
<1>5. /\ Chain(f, b) = Inserted(Chain(h, b), p, x)
      /\ \A d \in Buckets \ {b} : Chain(f, d) = Chain(h, d)
  BY ONLY <1>2, <1>4, Insertion
<1>. QED
  BY <1>3, <1>5 DEF ChangesOnly

LEMMA OutChains ==
  ASSUME NEW h, AllChains(h), NEW f, WellShaped(f), NEW b \in Buckets,
         NEW k \in 1 .. Len(Chain(h, b)), RemovesAt(h, f, b, Chain(h, b), k)
  PROVE  /\ Chains(f) = [Chains(h) EXCEPT ![b] = RemoveAt(Chain(h, b), k)]
         /\ Chain(f, b) = RemoveAt(Chain(h, b), k)
<1>1. Chain(h, b) \in Seq(Nodes)
  BY ChainLinks
<1>2. Removed(Chain(h, b), k) = RemoveAt(Chain(h, b), k)
  BY <1>1, RemoveAtIs
<1>3. /\ Chain(f, b) = Removed(Chain(h, b), k)
      /\ \A d \in Buckets \ {b} : Chain(f, d) = Chain(h, d)
  BY Removal
<1>. QED
  BY <1>2, <1>3 DEF Chains

LEMMA EditsInPlace == ChainsInv => EditsAreExact
<1>. SUFFICES ASSUME ChainsInv, NEW b \in Buckets
              PROVE  LET c == Chain(heap, b)
                         Put(k, x) == SubSeq(c, 1, k) \o <<x>> \o SubSeq(c, k + 1, Len(c))
                     IN  /\ \A x \in Nodes \ Linked(heap) :
                              /\ Chains(hlist_add_head(heap, x, b))
                                   = [Chains(heap) EXCEPT ![b] = Put(0, x)]
                              /\ \A k \in 1 .. Len(c) :
                                   /\ Chains(hlist_add_before(heap, x, c[k]))
                                        = [Chains(heap) EXCEPT ![b] = Put(k - 1, x)]
                                   /\ Chains(hlist_add_after(heap, c[k], x))
                                        = [Chains(heap) EXCEPT ![b] = Put(k, x)]
                         /\ \A k \in 1 .. Len(c) :
                              LET without == [Chains(heap) EXCEPT ![b] = RemoveAt(c, k)]
                              IN  /\ Chains(hlist_del(heap, c[k])) = without
                                  /\ Chains(hlist_del_init(heap, c[k])) = without
  BY DEF EditsAreExact
<1>. DEFINE c == Chain(heap, b)
            Put(k, x) == SubSeq(c, 1, k) \o <<x>> \o SubSeq(c, k + 1, Len(c))
<1>1. AllChains(heap) /\ Len(c) \in Nat
  BY ChainLinks DEF ChainsInv, Table
<1>2. ASSUME NEW x \in Nodes \ Linked(heap), NEW k \in 0 .. Len(c), NEW f, WellShaped(f),
             NEW p, p = k + 1, InsertsAt(heap, f, b, Chain(heap, b), p, x)
      PROVE  Chains(f) = [Chains(heap) EXCEPT ![b] = Put(k, x)]
  <2>1. /\ AllChains(heap) /\ WellShaped(f) /\ b \in Buckets
        /\ k \in 0 .. Len(Chain(heap, b)) /\ x \in Nodes \ Linked(heap)
        /\ InsertsAt(heap, f, b, Chain(heap, b), k + 1, x)
    BY <1>1, <1>2
  <2>2. ChangesOnly(heap, f, b, PutInto(Chain(heap, b), k, x))
    BY ONLY <2>1, PutChains
  <2>3. PutInto(Chain(heap, b), k, x) = Put(k, x)
    BY DEF PutInto
  <2>. HIDE DEF Put
  <2>. QED
    BY <2>2, <2>3 DEF Chains, ChangesOnly
<1>3. ASSUME NEW x \in Nodes \ Linked(heap)
      PROVE  Chains(hlist_add_head(heap, x, b)) = [Chains(heap) EXCEPT ![b] = Put(0, x)]
  <2>1. PICK f : f = hlist_add_head(heap, x, b)
    OBVIOUS
  <2>2. WellShaped(f) /\ InsertsAt(heap, f, b, Chain(heap, b), 1, x)
    BY ONLY <1>1, <2>1, b \in Buckets, x \in Nodes \ Linked(heap), AddHead
  <2>3. 0 \in 0 .. Len(c) /\ 1 = 0 + 1
    BY <1>1
  <2>4. Chains(f) = [Chains(heap) EXCEPT ![b] = Put(0, x)]
    BY <1>2, <2>2, <2>3
  <2>. QED
    BY <2>1, <2>4
<1>4. ASSUME NEW x \in Nodes \ Linked(heap), NEW k \in 1 .. Len(c)
      PROVE  Chains(hlist_add_before(heap, x, c[k])) = [Chains(heap) EXCEPT ![b] = Put(k - 1, x)]
  <2>1. PICK f : f = hlist_add_before(heap, x, Chain(heap, b)[k])
    OBVIOUS
  <2>2. WellShaped(f) /\ InsertsAt(heap, f, b, Chain(heap, b), k, x)
    BY ONLY <1>1, <2>1, b \in Buckets, x \in Nodes \ Linked(heap),
            k \in 1 .. Len(Chain(heap, b)), AddBefore
  <2>3. k - 1 \in 0 .. Len(c) /\ k = (k - 1) + 1
    BY <1>1
  <2>4. Chains(f) = [Chains(heap) EXCEPT ![b] = Put(k - 1, x)]
    BY <1>2, <2>2, <2>3
  <2>. QED
    BY <2>1, <2>4
<1>5. ASSUME NEW x \in Nodes \ Linked(heap), NEW k \in 1 .. Len(c)
      PROVE  Chains(hlist_add_after(heap, c[k], x)) = [Chains(heap) EXCEPT ![b] = Put(k, x)]
  <2>1. PICK f : f = hlist_add_after(heap, Chain(heap, b)[k], x)
    OBVIOUS
  <2>2. WellShaped(f) /\ InsertsAt(heap, f, b, Chain(heap, b), k + 1, x)
    BY ONLY <1>1, <2>1, b \in Buckets, x \in Nodes \ Linked(heap),
            k \in 1 .. Len(Chain(heap, b)), AddAfter
  <2>3. k \in 0 .. Len(c)
    BY <1>1
  <2>4. Chains(f) = [Chains(heap) EXCEPT ![b] = Put(k, x)]
    BY <1>2, <2>2, <2>3
  <2>. QED
    BY <2>1, <2>4
<1>6. ASSUME NEW k \in 1 .. Len(c)
      PROVE  /\ Chains(hlist_del(heap, c[k])) = [Chains(heap) EXCEPT ![b] = RemoveAt(c, k)]
             /\ Chains(hlist_del_init(heap, c[k])) = [Chains(heap) EXCEPT ![b] = RemoveAt(c, k)]
  <2>1. PICK f, g : /\ f = hlist_del(heap, Chain(heap, b)[k])
                    /\ g = hlist_del_init(heap, Chain(heap, b)[k])
    OBVIOUS
  <2>2. b \in Buckets /\ k \in 1 .. Len(Chain(heap, b))
    OBVIOUS
  <2>3. WellShaped(f) /\ RemovesAt(heap, f, b, Chain(heap, b), k)
    BY ONLY <1>1, <2>1, <2>2, DelIs
  <2>4. WellShaped(g) /\ RemovesAt(heap, g, b, Chain(heap, b), k)
    BY ONLY <1>1, <2>1, <2>2, DelInitIs
  <2>5. Chains(f) = [Chains(heap) EXCEPT ![b] = RemoveAt(Chain(heap, b), k)]
    BY ONLY <1>1, <2>2, <2>3, OutChains
  <2>6. Chains(g) = [Chains(heap) EXCEPT ![b] = RemoveAt(Chain(heap, b), k)]
    BY ONLY <1>1, <2>2, <2>4, OutChains
  <2>. QED
    BY <2>1, <2>5, <2>6
<1>. QED
  BY <1>3, <1>4, <1>5, <1>6

LEMMA MovesWhole == ChainsInv => MovedChainIsWhole
<1>. SUFFICES ASSUME ChainsInv, NEW old \in Buckets, NEW new \in Buckets \ {old},
                     heap.first[new] = NULL, NEW h, h = hlist_move_list(heap, old, new)
              PROVE  LET c == Chain(heap, old)
                     IN  /\ Chains(h) = [Chains(heap) EXCEPT ![old] = <<>>, ![new] = c]
                         /\ \A k \in 1 .. Len(c) :
                              Chain(hlist_del_init(h, c[k]), new) = RemoveAt(c, k)
  BY DEF MovedChainIsWhole
<1>. DEFINE c == Chain(heap, old)
<1>1. AllChains(heap)
  BY DEF ChainsInv, Table
<1>2. /\ AllChains(h)
      /\ Chain(h, new) = Chain(heap, old) /\ Chain(h, old) = <<>>
      /\ \A b \in Buckets \ {old, new} : Chain(h, b) = Chain(heap, b)
  BY <1>1, MoveList
<1>3. Chains(h) = [Chains(heap) EXCEPT ![old] = <<>>, ![new] = c]
  BY <1>2 DEF Chains
<1>4. ASSUME NEW k \in 1 .. Len(c)
      PROVE  Chain(hlist_del_init(h, c[k]), new) = RemoveAt(c, k)
  <2>1. new \in Buckets /\ k \in 1 .. Len(Chain(h, new)) /\ AllChains(h)
    BY <1>2
  <2>2. PICK g : g = hlist_del_init(h, Chain(h, new)[k])
    OBVIOUS
  <2>3. WellShaped(g) /\ RemovesAt(h, g, new, Chain(h, new), k)
    BY ONLY <2>1, <2>2, DelInitIs
  <2>4. Chain(g, new) = RemoveAt(Chain(h, new), k)
    BY ONLY <2>1, <2>3, OutChains
  <2>. QED
    BY <1>2, <2>2, <2>4
<1>. QED
  BY <1>3, <1>4

\* On every table the program can have, each operation on chains is the
\* sequence operation it stands for.
THEOREM ChainOperations == Spec => []ChainOperationsAreExact
<1>1. ChainsInv => ChainOperationsAreExact
  BY EditsInPlace, MovesWhole DEF ChainOperationsAreExact
<1>. QED
  BY ChainsInvariant, <1>1, PTL

\* The destroying walk frees the entry it stands on and still finds its way
\* to the end of the chain.
THEOREM DestroyEnds == Spec => DestroyIsSafe
<1>1. ChainsInv /\ [Next]_chainVars =>
        [pos # NULL =>
           /\ pos \in Linked(heap)
           /\ n \in Linked(heap) \cup {NULL}
           /\ pos' = NULL => Chain(heap', hash[name[pos]]) = <<>>]_chainVars
  <2>. SUFFICES ASSUME ChainsInv, Next, pos # NULL
                PROVE  /\ pos \in Linked(heap)
                       /\ n \in Linked(heap) \cup {NULL}
                       /\ pos' = NULL => Chain(heap', hash[name[pos]]) = <<>>
    OBVIOUS
  <2>1. DestroyEntry
    BY DEF Next, hash_add, AddNextTo, TakeOff, PutBack, Pretend, Discard,
           hash_table_destory, Idle
  <2>2. PICK b \in Buckets :
          /\ OnFirst(heap, b, pos, n)
          /\ Chain(heap', b) = Removed(Chain(heap, b), 1)
          /\ IF n = NULL THEN pos' = NULL /\ n' = NULL
             ELSE pos' # NULL /\ OnFirst(heap', b, pos', n')
    BY <2>1, DestroyRound
  <2>. DEFINE c == Chain(heap, b)
  <2>3. /\ Table(hash, heap, name) /\ AllChains(heap)
        /\ c \in Seq(Nodes) /\ Len(c) \in Nat /\ \A k \in 1 .. Len(c) : c[k] \in Nodes
    BY ChainLinks DEF ChainsInv, Table
  <2>4. 1 \in 1 .. Len(c) /\ pos = c[1] /\ n = EntryAt(c, 2)
    BY <2>2 DEF OnFirst
  <2>5. pos \in Linked(heap) /\ n \in Linked(heap) \cup {NULL}
    BY <2>4, LinkedIs DEF EntryAt
  <2>6. ASSUME pos' = NULL
        PROVE  Chain(heap', hash[name[pos]]) = <<>>
    <3>1. n = NULL
      BY <2>2, <2>6
    <3>2. ~(2 \in 1 .. Len(c))
      BY <2>3, <2>4, <3>1, ChainsAssumption DEF EntryAt
    <3>. DEFINE k == 1
    <3>3. Len(c) \in Nat /\ c \in Seq(Nodes) /\ k \in 1 .. Len(c)
      BY <2>3, <2>4
    <3>. HIDE DEF c
    <3>4. Len(c) = 1
      <4>1. PICK l \in Nat : l = Len(c)
        BY <3>3
      <4>2. l >= 2 => 2 \in 1 .. l
        OBVIOUS
      <4>3. k <= l
        BY <3>3, <4>1
      <4>. QED
        BY <3>2, <4>1, <4>2, <4>3
    <3>. HIDE DEF k
    <3>5. Removed(c, k) \in Seq(Nodes) /\ Len(Removed(c, k)) = Len(c) - 1
      BY ONLY <3>3, RemovedIs
    <3>6. Removed(c, 1) = <<>>
      BY <3>4, <3>5, EmptySeq DEF k
    <3>7. Chain(heap', b) = <<>>
      BY <2>2, <3>6 DEF c
    <3>8. hash[name[pos]] = b
      BY <2>3, <2>4 DEF Table, OwnNames, c
    <3>. QED
      BY <3>7, <3>8
  <2>. QED
    BY <2>5, <2>6
<1>. QED
  BY ChainsInvariant, <1>1, PTL DEF Spec, DestroyIsSafe

-----------------------------------------------------------------------------
(* The hash function: words of 32 bits, in halves.                         *)

HalfWord == 0 .. (Half - 1)
Word32   == HalfWord \X HalfWord

LEMMA HalfIs == Half \in Nat \ {0}
BY DEF Half

LEMMA DivMod ==
  ASSUME NEW B \in Nat \ {0}, NEW i \in Int
  PROVE  /\ i \div B \in Int /\ i % B \in 0 .. (B - 1)
         /\ i = (i \div B) * B + (i % B)
OBVIOUS

LEMMA Multiples ==
  ASSUME NEW B \in Nat \ {0}, NEW i \in Int, NEW j \in Int, i < j
  PROVE  i * B + B <= j * B
<1>1. j = (i + 1) + (j - i - 1) /\ j - i - 1 \in Nat
  OBVIOUS
<1>2. j * B = (i + 1) * B + (j - i - 1) * B
  BY <1>1
<1>3. (i + 1) * B = i * B + B /\ (j - i - 1) * B \in Nat
  BY <1>1
<1>. QED
  BY <1>2, <1>3

LEMMA Carried ==
  ASSUME NEW B \in Nat \ {0}, NEW a \in Int, NEW k \in Int, NEW b \in 0 .. (B - 1),
         a = k * B + b
  PROVE  a \div B = k /\ a % B = b
<1>1. PICK q : q = a \div B
  OBVIOUS
<1>2. PICK r : r = a % B
  OBVIOUS
<1>3. q \in Int /\ r \in 0 .. (B - 1) /\ a = q * B + r /\ q * B \in Int /\ k * B \in Int
  BY <1>1, <1>2, DivMod
<1>4. ~(q < k)
  <2>1. q < k => q * B + B <= k * B
    BY <1>3, Multiples
  <2>. QED
    BY <1>3, <2>1
<1>5. ~(k < q)
  <2>1. k < q => k * B + B <= q * B
    BY <1>3, Multiples
  <2>. QED
    BY <1>3, <2>1
<1>6. q = k
  BY <1>3, <1>4, <1>5
<1>. QED
  BY <1>1, <1>2, <1>3, <1>6

\* Modulo 2^32, addition and subtraction undo each other.
LEMMA SumUndone ==
  ASSUME NEW p \in HalfWord, NEW q \in HalfWord, NEW r \in HalfWord, NEW s \in HalfWord
  PROVE  /\ Plus(<<p, q>>, <<r, s>>) \in Word32
         /\ Minus(Plus(<<p, q>>, <<r, s>>), <<r, s>>) = <<p, q>>
<1>1. PICK B : B = Half
  OBVIOUS
<1>2. /\ B \in Nat \ {0} /\ HalfWord = 0 .. (B - 1)
      /\ p \in 0 .. (B - 1) /\ q \in 0 .. (B - 1) /\ r \in Int /\ s \in Int
  BY <1>1, HalfIs DEF HalfWord
<1>3. PICK c : c = (q + s) \div B
  OBVIOUS
<1>4. PICK d : d = (q + s) % B
  OBVIOUS
<1>5. q + s \in Int /\ c \in Int /\ d \in 0 .. (B - 1) /\ q + s = c * B + d
  <2>1. q + s \in Int
    BY <1>2
  <2>. QED
    BY <1>2, <2>1, <1>3, <1>4, DivMod
<1>6. PICK c2 : c2 = (p + r + c) \div B
  OBVIOUS
<1>7. PICK d2 : d2 = (p + r + c) % B
  OBVIOUS
<1>8. p + r + c \in Int /\ c2 \in Int /\ d2 \in 0 .. (B - 1) /\ p + r + c = c2 * B + d2
  <2>1. p + r + c \in Int
    BY <1>2, <1>5
  <2>. QED
    BY <1>2, <2>1, <1>6, <1>7, DivMod
<1>9. Plus(<<p, q>>, <<r, s>>) = <<d2, d>>
  BY <1>1, <1>3, <1>4, <1>7 DEF Plus
<1>10. (d - s) \div B = -c /\ (d - s) % B = q
  <2>1. (-c) * B = - (c * B) /\ c * B \in Int
    BY <1>2, <1>5
  <2>2. d - s = (-c) * B + q /\ d - s \in Int /\ -c \in Int
    BY <1>2, <1>5, <2>1
  <2>. QED
    BY <1>2, <2>2, Carried
<1>11. (d2 - r + (-c)) % B = p
  <2>1. (-c2) * B = - (c2 * B) /\ c2 * B \in Int
    BY <1>2, <1>8
  <2>2. d2 - r + (-c) = (-c2) * B + p /\ d2 - r + (-c) \in Int /\ -c2 \in Int
    BY <1>2, <1>5, <1>8, <2>1
  <2>. QED
    BY <1>2, <2>2, Carried
<1>12. Minus(<<d2, d>>, <<r, s>>) = <<p, q>>
  BY <1>1, <1>10, <1>11 DEF Minus
<1>13. d2 \in HalfWord /\ d \in HalfWord
  BY <1>2, <1>5, <1>8
<1>. QED
  BY <1>9, <1>12, <1>13 DEF Word32

LEMMA DifferenceUndone ==
  ASSUME NEW p \in HalfWord, NEW q \in HalfWord, NEW r \in HalfWord, NEW s \in HalfWord
  PROVE  /\ Minus(<<p, q>>, <<r, s>>) \in Word32
         /\ Plus(Minus(<<p, q>>, <<r, s>>), <<r, s>>) = <<p, q>>
<1>1. PICK B : B = Half
  OBVIOUS
<1>2. /\ B \in Nat \ {0} /\ HalfWord = 0 .. (B - 1)
      /\ p \in 0 .. (B - 1) /\ q \in 0 .. (B - 1) /\ r \in Int /\ s \in Int
  BY <1>1, HalfIs DEF HalfWord
<1>3. PICK c : c = (q - s) \div B
  OBVIOUS
<1>4. PICK d : d = (q - s) % B
  OBVIOUS
<1>5. q - s \in Int /\ c \in Int /\ d \in 0 .. (B - 1) /\ q - s = c * B + d
  <2>1. q - s \in Int
    BY <1>2
  <2>. QED
    BY <1>2, <2>1, <1>3, <1>4, DivMod
<1>6. PICK c2 : c2 = (p - r + c) \div B
  OBVIOUS
<1>7. PICK d2 : d2 = (p - r + c) % B
  OBVIOUS
<1>8. p - r + c \in Int /\ c2 \in Int /\ d2 \in 0 .. (B - 1) /\ p - r + c = c2 * B + d2
  <2>1. p - r + c \in Int
    BY <1>2, <1>5
  <2>. QED
    BY <1>2, <2>1, <1>6, <1>7, DivMod
<1>9. Minus(<<p, q>>, <<r, s>>) = <<d2, d>>
  BY <1>1, <1>3, <1>4, <1>7 DEF Minus
<1>10. (d + s) \div B = -c /\ (d + s) % B = q
  <2>1. (-c) * B = - (c * B) /\ c * B \in Int
    BY <1>2, <1>5
  <2>2. d + s = (-c) * B + q /\ d + s \in Int /\ -c \in Int
    BY <1>2, <1>5, <2>1
  <2>. QED
    BY <1>2, <2>2, Carried
<1>11. (d2 + r + (-c)) % B = p
  <2>1. (-c2) * B = - (c2 * B) /\ c2 * B \in Int
    BY <1>2, <1>8
  <2>2. d2 + r + (-c) = (-c2) * B + p /\ d2 + r + (-c) \in Int /\ -c2 \in Int
    BY <1>2, <1>5, <1>8, <2>1
  <2>. QED
    BY <1>2, <2>2, Carried
<1>12. Plus(<<d2, d>>, <<r, s>>) = <<p, q>>
  BY <1>1, <1>10, <1>11 DEF Plus
<1>13. d2 \in HalfWord /\ d \in HalfWord
  BY <1>2, <1>5, <1>8
<1>. QED
  BY <1>9, <1>12, <1>13 DEF Word32

LEMMA WordsUndo ==
  ASSUME NEW x \in Word32, NEW y \in Word32
  PROVE  /\ Plus(x, y) \in Word32 /\ Minus(x, y) \in Word32
         /\ Minus(Plus(x, y), y) = x /\ Plus(Minus(x, y), y) = x
         /\ Plus(x, y) = Plus(y, x)
<1>1. PICK p \in HalfWord, q \in HalfWord : x = <<p, q>>
  BY DEF Word32
<1>2. PICK r \in HalfWord, s \in HalfWord : y = <<r, s>>
  BY DEF Word32
<1>3. p + r = r + p /\ q + s = s + q
  BY HalfIs DEF HalfWord
<1>4. Plus(x, y) = Plus(y, x)
  BY <1>1, <1>2, <1>3 DEF Plus
<1>. QED
  BY <1>1, <1>2, <1>4, SumUndone, DifferenceUndone

-----------------------------------------------------------------------------
(* The exclusive or.                                                       *)

DifferTurn(g, p, q) == IF p + q = 0 THEN 0 ELSE ((p + q) % 2) + 2 * g[<<p \div 2, q \div 2>>]

Pairs(N) == (0 .. N) \X (0 .. N)

DifferTurns(g, N) == [x \in Pairs(N) |-> DifferTurn(g, x[1], x[2])]

LEMMA DifferTurnsExist ==
  ASSUME NEW N \in Nat
  PROVE  \E g : g = DifferTurns(g, N)
<1>1. PICK S : S = {k \in Nat : ~\E g : g = DifferTurns(g, k)}
  OBVIOUS
<1>2. CASE S = {}
  BY <1>1, <1>2
<1>3. CASE S # {}
  <2>1. PICK k \in S : \A j \in S : k <= j
    <3>1. S \in SUBSET Nat
      BY <1>1
    <3>. QED
      BY <1>3, <3>1, LeastNat
  <2>2. k \in Nat /\ ~\E g : g = DifferTurns(g, k)
    BY <1>1
  <2>3. k # 0
    <3>1. SUFFICES ASSUME k = 0 PROVE FALSE
      OBVIOUS
    <3>2. PICK g : g = [x \in Pairs(0) |-> 0]
      OBVIOUS
    <3>3. \A x \in Pairs(0) : DifferTurn(g, x[1], x[2]) = 0
      BY DEF DifferTurn, Pairs
    <3>4. g = DifferTurns(g, 0)
      BY <3>2, <3>3 DEF DifferTurns
    <3>. QED
      BY <2>2, <3>1, <3>4
  <2>4. PICK f : f = DifferTurns(f, k - 1)
    <3>1. k - 1 \in Nat /\ ~(k <= k - 1)
      BY <2>2, <2>3
    <3>. QED
      BY <1>1, <2>1, <3>1
  <2>5. PICK g : g = [x \in Pairs(k) |-> DifferTurn(f, x[1], x[2])]
    OBVIOUS
  <2>6. ASSUME NEW x \in Pairs(k - 1)
        PROVE  g[x] = f[x]
    <3>1. x \in Pairs(k)
      BY <2>2 DEF Pairs
    <3>2. g[x] = DifferTurn(f, x[1], x[2])
      BY <2>5, <3>1
    <3>3. PICK e : e = DifferTurns(f, k - 1)
      OBVIOUS
    <3>4. e[x] = DifferTurn(f, x[1], x[2])
      BY <3>3 DEF DifferTurns
    <3>. QED
      BY <2>4, <3>2, <3>3, <3>4
  <2>7. ASSUME NEW x \in Pairs(k)
        PROVE  DifferTurn(g, x[1], x[2]) = DifferTurn(f, x[1], x[2])
    <3>1. x[1] \in 0 .. k /\ x[2] \in 0 .. k
      BY DEF Pairs
    <3>2. x[1] \div 2 \in 0 .. (k - 1) /\ x[2] \div 2 \in 0 .. (k - 1)
      BY <2>2, <2>3, <3>1
    <3>3. <<x[1] \div 2, x[2] \div 2>> \in Pairs(k - 1)
      BY <3>2 DEF Pairs
    <3>4. g[<<x[1] \div 2, x[2] \div 2>>] = f[<<x[1] \div 2, x[2] \div 2>>]
      BY <2>6, <3>3
    <3>. QED
      BY <3>4 DEF DifferTurn
  <2>8. g = DifferTurns(g, k)
    BY <2>5, <2>7 DEF DifferTurns
  <2>. QED
    BY <2>2, <2>8
<1>. QED
  BY <1>2, <1>3

LEMMA DifferHalfIs ==
  ASSUME NEW p \in HalfWord, NEW q \in HalfWord
  PROVE  DifferHalf[<<p, q>>] = DifferTurn(DifferHalf, p, q)
<1>1. PICK g : g = CHOOSE h : h = DifferTurns(h, Half - 1)
  OBVIOUS
<1>2. Half - 1 \in Nat
  BY DEF Half
<1>3. g = DifferTurns(g, Half - 1)
  BY <1>1, <1>2, DifferTurnsExist
<1>4. DifferHalf = g
  BY <1>1 DEF DifferHalf, DifferTurns, DifferTurn, Pairs
<1>5. PICK e : e = DifferTurns(g, Half - 1)
  OBVIOUS
<1>6. PICK x : x = <<p, q>>
  OBVIOUS
<1>7. x \in Pairs(Half - 1) /\ x[1] = p /\ x[2] = q
  BY <1>6 DEF HalfWord, Pairs
<1>8. e[x] = DifferTurn(g, p, q)
  BY <1>5, <1>7 DEF DifferTurns
<1>. QED
  BY <1>3, <1>4, <1>5, <1>6, <1>8

Below(h) == \A p, q \in 0 .. (h - 1) : DifferHalf[<<p, q>>] \in 0 .. (h - 1)

LEMMA BelowTwice ==
  ASSUME NEW h \in Nat \ {0}, NEW g \in Nat, g = 2 * h, g <= Half, Below(h)
  PROVE  Below(g)
<1>. SUFFICES ASSUME NEW p \in 0 .. (g - 1), NEW q \in 0 .. (g - 1)
              PROVE  DifferHalf[<<p, q>>] \in 0 .. (g - 1)
  BY DEF Below
<1>1. p \in HalfWord /\ q \in HalfWord
  BY HalfIs DEF HalfWord
<1>2. p \div 2 \in 0 .. (h - 1) /\ q \div 2 \in 0 .. (h - 1)
  OBVIOUS
<1>3. PICK e : e = DifferHalf[<<p \div 2, q \div 2>>]
  OBVIOUS
<1>4. e \in 0 .. (h - 1)
  BY <1>2, <1>3 DEF Below
<1>5. DifferHalf[<<p, q>>] = IF p + q = 0 THEN 0 ELSE ((p + q) % 2) + 2 * e
  BY <1>1, <1>3, DifferHalfIs DEF DifferTurn
<1>6. (p + q) % 2 \in 0 .. 1
  OBVIOUS
<1>. QED
  BY <1>4, <1>5, <1>6

LEMMA DifferTyped ==
  ASSUME NEW p \in HalfWord, NEW q \in HalfWord
  PROVE  DifferHalf[<<p, q>>] \in HalfWord
<1>1. Below(1)
  <2>. SUFFICES ASSUME NEW a \in 0 .. 0, NEW b \in 0 .. 0
                PROVE  DifferHalf[<<a, b>>] \in 0 .. 0
    BY DEF Below
  <2>1. a \in HalfWord /\ b \in HalfWord /\ a + b = 0
    BY HalfIs DEF HalfWord
  <2>. QED
    BY <2>1, DifferHalfIs DEF DifferTurn
<1>2. Below(2)
  BY <1>1, BelowTwice DEF Half
<1>3. Below(4)
  BY <1>2, BelowTwice DEF Half
<1>4. Below(8)
  BY <1>3, BelowTwice DEF Half
<1>5. Below(16)
  BY <1>4, BelowTwice DEF Half
<1>6. Below(32)
  BY <1>5, BelowTwice DEF Half
<1>7. Below(64)
  BY <1>6, BelowTwice DEF Half
<1>8. Below(128)
  BY <1>7, BelowTwice DEF Half
<1>9. Below(256)
  BY <1>8, BelowTwice DEF Half
<1>10. Below(512)
  BY <1>9, BelowTwice DEF Half
<1>11. Below(1024)
  BY <1>10, BelowTwice DEF Half
<1>12. Below(2048)
  BY <1>11, BelowTwice DEF Half
<1>13. Below(4096)
  BY <1>12, BelowTwice DEF Half
<1>14. Below(8192)
  BY <1>13, BelowTwice DEF Half
<1>15. Below(16384)
  BY <1>14, BelowTwice DEF Half
<1>16. Below(32768)
  BY <1>15, BelowTwice DEF Half
<1>17. Below(Half)
  BY <1>16, BelowTwice DEF Half
<1>. QED
  BY <1>17 DEF Below, HalfWord

\* What a difference does, it undoes.
LEMMA DifferUndone ==
  ASSUME NEW p \in HalfWord, NEW q \in HalfWord
  PROVE  DifferHalf[<<DifferHalf[<<p, q>>], q>>] = p
<1>1. PICK S : S = {num \in Nat : \E a, b \in HalfWord :
                                  a + b = num /\ DifferHalf[<<DifferHalf[<<a, b>>], b>>] # a}
  OBVIOUS
<1>2. \A a \in HalfWord : a \in Nat
  BY HalfIs DEF HalfWord
<1>3. CASE S = {}
  <2>1. p + q \in Nat
    BY <1>2
  <2>. QED
    BY <1>1, <1>3, <2>1
<1>4. CASE S # {}
  <2>1. PICK num \in S : \A j \in S : num <= j
    <3>1. S \in SUBSET Nat
      BY <1>1
    <3>. QED
      BY <1>4, <3>1, LeastNat
  <2>2. PICK a \in HalfWord, b \in HalfWord :
          a + b = num /\ DifferHalf[<<DifferHalf[<<a, b>>], b>>] # a
    BY <1>1, <2>1
  <2>3. PICK d : d = DifferHalf[<<a, b>>]
    OBVIOUS
  <2>4. PICK x : x = a \div 2
    OBVIOUS
  <2>5. PICK y : y = b \div 2
    OBVIOUS
  <2>6. PICK e : e = DifferHalf[<<x, y>>]
    OBVIOUS
  <2>7. a \in Nat /\ b \in Nat /\ x \in Nat /\ y \in Nat
    BY <1>2, <2>4, <2>5
  <2>8. x \in HalfWord /\ y \in HalfWord
    BY <2>4, <2>5, HalfIs DEF HalfWord
  <2>9. d \in HalfWord /\ e \in HalfWord /\ d \in Nat /\ e \in Nat
    BY <1>2, <2>3, <2>6, <2>8, DifferTyped
  <2>10. d = IF a + b = 0 THEN 0 ELSE ((a + b) % 2) + 2 * e
    BY <2>3, <2>4, <2>5, <2>6, DifferHalfIs DEF DifferTurn
  <2>11. CASE a + b = 0
    <3>1. a = 0 /\ b = 0 /\ d = 0
      BY <2>7, <2>10, <2>11
    <3>. QED
      BY <2>2, <2>3, <3>1
  <2>12. CASE a + b # 0
    <3>1. x + y \in Nat /\ ~(num <= x + y)
      BY <2>2, <2>4, <2>5, <2>7, <2>12
    <3>2. DifferHalf[<<e, y>>] = x
      BY <1>1, <2>1, <2>6, <2>8, <3>1
    <3>3. d \div 2 = e /\ (d + b) % 2 = a % 2
      BY <2>7, <2>9, <2>10, <2>12
    <3>4. DifferHalf[<<d, b>>] = IF d + b = 0 THEN 0 ELSE ((d + b) % 2) + 2 * x
      BY <2>5, <2>9, <3>2, <3>3, DifferHalfIs DEF DifferTurn
    <3>5. a = (a % 2) + 2 * x
      BY <2>4, <2>7
    <3>6. CASE d + b = 0
      <4>1. d = 0 /\ b = 0
        BY <2>7, <2>9, <3>6
      <4>2. y = 0 /\ e = 0
        BY <2>5, <3>3, <4>1
      <4>3. x = 0
        <5>1. DifferHalf[<<0, 0>>] = 0
          BY <4>1, <2>9, DifferHalfIs DEF DifferTurn
        <5>. QED
          BY <3>2, <4>2, <5>1
      <4>4. a % 2 = 0
        BY <3>3, <3>6
      <4>5. a = 0
        BY <3>5, <4>3, <4>4
      <4>. QED
        BY <2>12, <4>1, <4>5
    <3>7. CASE d + b # 0
      BY <2>2, <2>3, <3>3, <3>4, <3>5, <3>7
    <3>. QED
      BY <3>6, <3>7
  <2>. QED
    BY <2>11, <2>12
<1>. QED
  BY <1>3, <1>4

LEMMA DifferWords ==
  ASSUME NEW x \in Word32, NEW y \in Word32
  PROVE  Differ(x, y) \in Word32 /\ Differ(Differ(x, y), y) = x
<1>1. PICK p \in HalfWord, q \in HalfWord : x = <<p, q>>
  BY DEF Word32
<1>2. PICK r \in HalfWord, s \in HalfWord : y = <<r, s>>
  BY DEF Word32
<1>3. PICK d : d = DifferHalf[<<p, r>>]
  OBVIOUS
<1>4. PICK e : e = DifferHalf[<<q, s>>]
  OBVIOUS
<1>5. d \in HalfWord /\ e \in HalfWord /\ DifferHalf[<<d, r>>] = p /\ DifferHalf[<<e, s>>] = q
  BY <1>3, <1>4, DifferTyped, DifferUndone
<1>6. Differ(x, y) = <<d, e>>
  BY <1>1, <1>2, <1>3, <1>4 DEF Differ
<1>7. Differ(<<d, e>>, y) = <<p, q>>
  BY <1>2, <1>5 DEF Differ
<1>. QED
  BY <1>1, <1>5, <1>6, <1>7 DEF Word32

-----------------------------------------------------------------------------
(* Mixing.                                                                 *)

Rotations == {4, 6, 8, 16, 19, 14, 11, 25, 24}

LEMMA RotatedHalf ==
  ASSUME NEW P \in Nat \ {0}, NEW Q \in Nat \ {0}, P * Q = Half,
         NEW u \in HalfWord, NEW v \in HalfWord
  PROVE  ((u * P) % Half) + (v \div Q) \in HalfWord
<1>1. PICK B : B = Half
  OBVIOUS
<1>2. /\ B \in Nat \ {0} /\ P * Q = B /\ Q * P = B
      /\ u \in 0 .. (B - 1) /\ v \in 0 .. (B - 1) /\ HalfWord = 0 .. (B - 1)
  <2>1. P * Q = Q * P
    OBVIOUS
  <2>. QED
    BY <1>1, <2>1, HalfIs DEF HalfWord
<1>3. PICK c : c = u \div Q
  OBVIOUS
<1>4. PICK d : d = u % Q
  OBVIOUS
<1>5. u \in Int /\ v \in Int
  BY <1>2
<1>6. c \in Int /\ d \in 0 .. (Q - 1) /\ u = c * Q + d
  BY <1>3, <1>4, <1>5, DivMod
<1>7. d * P \in Int /\ 0 <= d * P /\ d * P + P <= B
  <2>1. d < Q /\ d \in Nat /\ Q \in Nat
    BY <1>6
  <2>2. d * P + P <= Q * P
    BY <2>1, Multiples
  <2>3. d * P \in Nat
    BY <2>1
  <2>. QED
    BY <1>2, <2>2, <2>3
<1>8. (u * P) % B = d * P
  <2>1. u * P = (c * Q) * P + d * P
    BY <1>6
  <2>2. (c * Q) * P = c * (Q * P)
    BY <1>6
  <2>3. u * P = c * B + d * P /\ u * P \in Int
    BY <1>2, <1>5, <2>1, <2>2
  <2>4. d * P \in 0 .. (B - 1)
    BY <1>2, <1>7
  <2>5. PICK w : w = u * P
    OBVIOUS
  <2>6. PICK x : x = d * P
    OBVIOUS
  <2>7. w \in Int /\ w = c * B + x
    BY <2>3, <2>5, <2>6
  <2>8. B \in Nat \ {0} /\ c \in Int /\ x \in 0 .. (B - 1)
    BY <1>2, <1>6, <2>4, <2>6
  <2>9. w % B = x
    BY ONLY <2>7, <2>8, Carried
  <2>. QED
    BY <2>5, <2>6, <2>9
<1>9. PICK e : e = v \div Q
  OBVIOUS
<1>10. PICK f : f = v % Q
  OBVIOUS
<1>11. e \in Int /\ f \in 0 .. (Q - 1) /\ v = e * Q + f /\ e * Q \in Int
  <2>1. e \in Int /\ f \in 0 .. (Q - 1) /\ v = e * Q + f
    BY <1>5, <1>9, <1>10, DivMod
  <2>. QED
    BY <2>1
<1>12. e < P
  <2>1. SUFFICES ASSUME P <= e PROVE FALSE
    BY <1>11
  <2>2. P < e => P * Q + Q <= e * Q
    BY <1>11, Multiples
  <2>3. B <= e * Q
    <3>1. CASE P = e
      BY <1>2, <3>1
    <3>2. CASE P < e
      BY <1>2, <1>11, <2>2, <3>2
    <3>. QED
      BY <1>11, <2>1, <3>1, <3>2
  <2>. QED
    BY <1>2, <1>11, <2>3
<1>13. 0 <= e
  <2>1. SUFFICES ASSUME e < 0 PROVE FALSE
    BY <1>11
  <2>2. e * Q + Q <= 0 * Q
    BY <1>11, <2>1, Multiples
  <2>3. 0 * Q = 0
    OBVIOUS
  <2>. QED
    BY <1>2, <1>11, <2>2, <2>3
<1>14. d * P + e \in 0 .. (B - 1)
  BY <1>2, <1>7, <1>11, <1>12, <1>13
<1>. QED
  BY <1>1, <1>2, <1>8, <1>9, <1>14

LEMMA Powers ==
  ASSUME NEW j \in {0, 3, 4, 6, 8, 9, 11, 14}
  PROVE  2^j \in Nat \ {0} /\ 2^(16 - j) \in Nat \ {0} /\ 2^j * 2^(16 - j) = Half
<1>1. CASE j = 0
  <2>1. 2^0 = 1 /\ 2^(16 - 0) = 65536 /\ 1 * 65536 = 65536
    OBVIOUS
  <2>. QED
    BY ONLY <1>1, <2>1 DEF Half
<1>2. CASE j = 3
  <2>1. 2^3 = 8 /\ 2^(16 - 3) = 8192 /\ 8 * 8192 = 65536
    OBVIOUS
  <2>. QED
    BY ONLY <1>2, <2>1 DEF Half
<1>3. CASE j = 4
  <2>1. 2^4 = 16 /\ 2^(16 - 4) = 4096 /\ 16 * 4096 = 65536
    OBVIOUS
  <2>. QED
    BY ONLY <1>3, <2>1 DEF Half
<1>4. CASE j = 6
  <2>1. 2^6 = 64 /\ 2^(16 - 6) = 1024 /\ 64 * 1024 = 65536
    OBVIOUS
  <2>. QED
    BY ONLY <1>4, <2>1 DEF Half
<1>5. CASE j = 8
  <2>1. 2^8 = 256 /\ 2^(16 - 8) = 256 /\ 256 * 256 = 65536
    OBVIOUS
  <2>. QED
    BY ONLY <1>5, <2>1 DEF Half
<1>6. CASE j = 9
  <2>1. 2^9 = 512 /\ 2^(16 - 9) = 128 /\ 512 * 128 = 65536
    OBVIOUS
  <2>. QED
    BY ONLY <1>6, <2>1 DEF Half
<1>7. CASE j = 11
  <2>1. 2^11 = 2048 /\ 2^(16 - 11) = 32 /\ 2048 * 32 = 65536
    OBVIOUS
  <2>. QED
    BY ONLY <1>7, <2>1 DEF Half
<1>8. CASE j = 14
  <2>1. 2^14 = 16384 /\ 2^(16 - 14) = 4 /\ 16384 * 4 = 65536
    OBVIOUS
  <2>. QED
    BY ONLY <1>8, <2>1 DEF Half
<1>. QED
  BY <1>1, <1>2, <1>3, <1>4, <1>5, <1>6, <1>7, <1>8

LEMMA Rotated ==
  ASSUME NEW x \in Word32, NEW k \in Rotations
  PROVE  rol32(x, k) \in Word32
<1>1. PICK p \in HalfWord, q \in HalfWord : x = <<p, q>>
  BY DEF Word32
<1>2. PICK j : j = k % 16
  OBVIOUS
<1>3. j \in {0, 3, 4, 6, 8, 9, 11, 14}
  BY <1>2 DEF Rotations
<1>4. PICK P, Q : P = 2^j /\ Q = 2^(16 - j)
  OBVIOUS
<1>5. P \in Nat \ {0} /\ Q \in Nat \ {0} /\ P * Q = Half
  BY <1>3, <1>4, Powers
<1>6. PICK y \in HalfWord \X HalfWord : y = IF k >= 16 THEN <<x[2], x[1]>> ELSE x
  <2>1. <<x[2], x[1]>> \in HalfWord \X HalfWord /\ x \in HalfWord \X HalfWord
    BY <1>1
  <2>. QED
    BY <2>1
<1>7. y[1] \in HalfWord /\ y[2] \in HalfWord
  OBVIOUS
<1>8. rol32(x, k) = <<((y[1] * P) % Half) + (y[2] \div Q),
                      ((y[2] * P) % Half) + (y[1] \div Q)>>
  BY <1>2, <1>4, <1>6 DEF rol32
<1>9. /\ ((y[1] * P) % Half) + (y[2] \div Q) \in HalfWord
      /\ ((y[2] * P) % Half) + (y[1] \div Q) \in HalfWord
  BY <1>5, <1>7, RotatedHalf
<1>. QED
  BY <1>8, <1>9 DEF Word32

Letters == {"a", "b", "c"}
States  == [Letters -> Word32]

LEMMA UndoneStep ==
  ASSUME NEW t \in States, NEW x \in Letters, NEW y \in Letters, NEW z \in Letters,
         x # y, NEW k, NEW old, NEW v,
         Minus(t[y], t[z]) = old, Plus(Differ(t[x], rol32(old, k)), old) = v
  PROVE  UndoMixStep(t, x, y, z, k) = [t EXCEPT ![y] = old, ![x] = v]
<1>1. PICK w : w = [t EXCEPT ![y] = old]
  OBVIOUS
<1>2. w[x] = t[x]
  BY <1>1 DEF States
<1>3. UndoMixStep(t, x, y, z, k)
        = [[t EXCEPT ![y] = Minus(t[y], t[z])] EXCEPT
             ![x] = Plus(Differ(@, rol32(Minus(t[y], t[z]), k)), Minus(t[y], t[z]))]
  BY Zenon DEF UndoMixStep
<1>4. UndoMixStep(t, x, y, z, k)
        = [w EXCEPT ![x] = Plus(Differ(w[x], rol32(old, k)), old)]
  BY ONLY <1>1, <1>3, Minus(t[y], t[z]) = old, Zenon
<1>5. UndoMixStep(t, x, y, z, k) = [w EXCEPT ![x] = v]
  BY ONLY <1>2, <1>4, Plus(Differ(t[x], rol32(old, k)), old) = v, Zenon
<1>6. [w EXCEPT ![x] = v] = [t EXCEPT ![y] = old, ![x] = v]
  BY ONLY <1>1, Zenon
<1>. QED
  BY <1>5, <1>6

LEMMA StepUndone ==
  ASSUME NEW s \in States, NEW x \in Letters, NEW y \in Letters, NEW z \in Letters,
         x # y, y # z, x # z, NEW k \in Rotations
  PROVE  /\ MixStep(s, x, y, z, k) \in States
         /\ UndoMixStep(MixStep(s, x, y, z, k), x, y, z, k) = s
<1>1. PICK d : d = Differ(Minus(s[x], s[y]), rol32(s[y], k))
  OBVIOUS
<1>2. PICK e : e = Plus(s[y], s[z])
  OBVIOUS
<1>3. s[x] \in Word32 /\ s[y] \in Word32 /\ s[z] \in Word32
  BY DEF States
<1>4. PICK r : r = rol32(s[y], k)
  OBVIOUS
<1>5. r \in Word32
  BY <1>3, <1>4, Rotated
<1>6. /\ d \in Word32 /\ Differ(d, r) = Minus(s[x], s[y])
      /\ Plus(Minus(s[x], s[y]), s[y]) = s[x]
  BY <1>1, <1>3, <1>4, <1>5, WordsUndo, DifferWords
<1>7. e \in Word32 /\ Minus(e, s[z]) = s[y]
  BY <1>2, <1>3, WordsUndo
<1>8. PICK t : t = [s EXCEPT ![x] = d, ![y] = e]
  OBVIOUS
<1>9. MixStep(s, x, y, z, k) = t
  BY <1>1, <1>2, <1>8 DEF MixStep, States
<1>10. /\ t \in States /\ t[x] = d /\ t[y] = e /\ t[z] = s[z]
       /\ \A v \in Letters \ {x, y} : t[v] = s[v]
  BY <1>6, <1>7, <1>8 DEF States
<1>11. UndoMixStep(t, x, y, z, k) = [t EXCEPT ![x] = s[x], ![y] = s[y]]
  <2>1. Minus(t[y], t[z]) = s[y]
    BY <1>7, <1>10
  <2>2. Plus(Differ(t[x], r), s[y]) = s[x]
    BY <1>6, <1>10
  <2>3. UndoMixStep(t, x, y, z, k) = [t EXCEPT ![y] = s[y], ![x] = s[x]]
    BY ONLY x \in Letters, y \in Letters, z \in Letters, x # y,
            <1>4, <1>10, <2>1, <2>2, UndoneStep
  <2>4. [t EXCEPT ![y] = s[y], ![x] = s[x]] = [t EXCEPT ![x] = s[x], ![y] = s[y]]
    BY ONLY x # y, <1>10, x \in Letters, y \in Letters DEF States
  <2>. QED
    BY ONLY <2>3, <2>4
<1>12. [t EXCEPT ![x] = s[x], ![y] = s[y]] = s
  BY <1>3, <1>8, <1>10 DEF States
<1>. QED
  BY <1>9, <1>10, <1>11, <1>12

\* "mix 3 32-bit values reversibly": no two states are mixed to one.
THEOREM MixReversible ==
  ASSUME NEW s \in States
  PROVE  __jhash_mix(s) \in States /\ Unmix(__jhash_mix(s)) = s
<1>1. PICK s1 : s1 = MixStep(s,  "a", "c", "b", 4)
  OBVIOUS
<1>2. PICK s2 : s2 = MixStep(s1, "b", "a", "c", 6)
  OBVIOUS
<1>3. PICK s3 : s3 = MixStep(s2, "c", "b", "a", 8)
  OBVIOUS
<1>4. PICK s4 : s4 = MixStep(s3, "a", "c", "b", 16)
  OBVIOUS
<1>5. PICK s5 : s5 = MixStep(s4, "b", "a", "c", 19)
  OBVIOUS
<1>6. PICK s6 : s6 = MixStep(s5, "c", "b", "a", 4)
  OBVIOUS
<1>. USE DEF Letters, Rotations
<1>7. s1 \in States /\ UndoMixStep(s1, "a", "c", "b", 4) = s
  BY <1>1, StepUndone
<1>8. s2 \in States /\ UndoMixStep(s2, "b", "a", "c", 6) = s1
  BY <1>2, <1>7, StepUndone
<1>9. s3 \in States /\ UndoMixStep(s3, "c", "b", "a", 8) = s2
  BY <1>3, <1>8, StepUndone
<1>10. s4 \in States /\ UndoMixStep(s4, "a", "c", "b", 16) = s3
  BY <1>4, <1>9, StepUndone
<1>11. s5 \in States /\ UndoMixStep(s5, "b", "a", "c", 19) = s4
  BY <1>5, <1>10, StepUndone
<1>12. s6 \in States /\ UndoMixStep(s6, "c", "b", "a", 4) = s5
  BY <1>6, <1>11, StepUndone
<1>13. __jhash_mix(s) = s6
  BY <1>1, <1>2, <1>3, <1>4, <1>5, <1>6 DEF __jhash_mix
<1>14. Unmix(s6) = s
  BY <1>7, <1>8, <1>9, <1>10, <1>11, <1>12 DEF Unmix
<1>. QED
  BY <1>12, <1>13, <1>14

\* Replacing a word by its difference to another and so on keeps states states.
LEMMA FinalStepTyped ==
  ASSUME NEW s \in States, NEW x \in Letters, NEW y \in Letters, x # y, NEW k \in Rotations
  PROVE  FinalStep(s, x, y, k) \in States
<1>1. PICK d : d = Minus(Differ(s[x], s[y]), rol32(s[y], k))
  OBVIOUS
<1>2. s[x] \in Word32 /\ s[y] \in Word32
  BY DEF States
<1>3. rol32(s[y], k) \in Word32
  BY <1>2, Rotated
<1>4. d \in Word32
  BY <1>1, <1>2, <1>3, WordsUndo, DifferWords
<1>5. FinalStep(s, x, y, k) = [s EXCEPT ![x] = d]
  BY <1>1 DEF FinalStep, States
<1>. QED
  BY <1>4, <1>5 DEF States

LEMMA FinalTyped ==
  ASSUME NEW s \in States
  PROVE  __jhash_final(s) \in States
<1>1. PICK s1 : s1 = FinalStep(s,  "c", "b", 14)
  OBVIOUS
<1>2. PICK s2 : s2 = FinalStep(s1, "a", "c", 11)
  OBVIOUS
<1>3. PICK s3 : s3 = FinalStep(s2, "b", "a", 25)
  OBVIOUS
<1>4. PICK s4 : s4 = FinalStep(s3, "c", "b", 16)
  OBVIOUS
<1>5. PICK s5 : s5 = FinalStep(s4, "a", "c", 4)
  OBVIOUS
<1>6. PICK s6 : s6 = FinalStep(s5, "b", "a", 14)
  OBVIOUS
<1>7. PICK s7 : s7 = FinalStep(s6, "c", "b", 24)
  OBVIOUS
<1>. USE DEF Letters, Rotations
<1>8. s1 \in States
  BY <1>1, FinalStepTyped
<1>9. s2 \in States
  BY <1>2, <1>8, FinalStepTyped
<1>10. s3 \in States
  BY <1>3, <1>9, FinalStepTyped
<1>11. s4 \in States
  BY <1>4, <1>10, FinalStepTyped
<1>12. s5 \in States
  BY <1>5, <1>11, FinalStepTyped
<1>13. s6 \in States
  BY <1>6, <1>12, FinalStepTyped
<1>14. s7 \in States
  BY <1>7, <1>13, FinalStepTyped
<1>15. __jhash_final(s) = s7
  BY <1>1, <1>2, <1>3, <1>4, <1>5, <1>6, <1>7 DEF __jhash_final
<1>. QED
  BY <1>14, <1>15

-----------------------------------------------------------------------------
(* The blocks of a key.                                                    *)

\* What a turn of the loop makes of the last one's state and a block.
MixTurn(g, s, blocks, i) ==
  IF i = 0 THEN s
  ELSE __jhash_mix(AddWords(g[i - 1], blocks[i][1], blocks[i][2], blocks[i][3]))

MixTurns(g, s, blocks, N) == [i \in 0 .. N |-> MixTurn(g, s, blocks, i)]

LEMMA MixTurnsExist ==
  ASSUME NEW s, NEW blocks, NEW N \in Nat
  PROVE  \E g : g = MixTurns(g, s, blocks, N)
<1>1. PICK S : S = {k \in Nat : ~\E g : g = MixTurns(g, s, blocks, k)}
  OBVIOUS
<1>2. CASE S = {}
  BY <1>1, <1>2
<1>3. CASE S # {}
  <2>1. PICK k \in S : \A j \in S : k <= j
    <3>1. S \in SUBSET Nat
      BY <1>1
    <3>. QED
      BY <1>3, <3>1, LeastNat
  <2>2. k \in Nat /\ ~\E g : g = MixTurns(g, s, blocks, k)
    BY <1>1
  <2>3. k # 0
    <3>1. SUFFICES ASSUME k = 0 PROVE FALSE
      OBVIOUS
    <3>2. PICK g : g = [i \in 0 .. 0 |-> s]
      OBVIOUS
    <3>3. \A i \in 0 .. 0 : MixTurn(g, s, blocks, i) = s
      BY DEF MixTurn
    <3>4. g = MixTurns(g, s, blocks, 0)
      BY <3>2, <3>3 DEF MixTurns
    <3>. QED
      BY <2>2, <3>1, <3>4
  <2>4. PICK f : f = MixTurns(f, s, blocks, k - 1)
    <3>1. k - 1 \in Nat /\ ~(k <= k - 1)
      BY <2>2, <2>3
    <3>. QED
      BY <1>1, <2>1, <3>1
  <2>5. PICK g : g = [i \in 0 .. k |-> MixTurn(f, s, blocks, i)]
    OBVIOUS
  <2>6. ASSUME NEW i \in 0 .. (k - 1)
        PROVE  g[i] = f[i]
    <3>1. i \in 0 .. k
      BY <2>2
    <3>2. g[i] = MixTurn(f, s, blocks, i)
      BY <2>5, <3>1
    <3>3. PICK e : e = MixTurns(f, s, blocks, k - 1)
      OBVIOUS
    <3>4. e[i] = MixTurn(f, s, blocks, i)
      BY <3>3 DEF MixTurns
    <3>. QED
      BY <2>4, <3>2, <3>3, <3>4
  <2>7. ASSUME NEW i \in 0 .. k
        PROVE  MixTurn(g, s, blocks, i) = MixTurn(f, s, blocks, i)
    <3>1. CASE i = 0
      BY <3>1 DEF MixTurn
    <3>2. CASE i # 0
      <4>1. i - 1 \in 0 .. (k - 1)
        BY <2>2, <3>2
      <4>2. g[i - 1] = f[i - 1]
        BY <2>6, <4>1
      <4>. QED
        BY <4>2 DEF MixTurn
    <3>. QED
      BY <3>1, <3>2
  <2>8. g = MixTurns(g, s, blocks, k)
    BY <2>5, <2>7 DEF MixTurns
  <2>. QED
    BY <2>2, <2>8
<1>. QED
  BY <1>2, <1>3

\* The same blocks to begin with lead to the same states.
LEMMA SameTurns ==
  ASSUME NEW s, NEW b, NEW c, NEW N \in Nat, NEW M \in Nat, NEW num \in Nat, num <= N, num <= M,
         NEW g, g = MixTurns(g, s, b, N), NEW h, h = MixTurns(h, s, c, M),
         \A i \in 1 .. num : b[i][1] = c[i][1] /\ b[i][2] = c[i][2] /\ b[i][3] = c[i][3]
  PROVE  g[num] = h[num]
<1>1. ASSUME NEW i \in 0 .. num
      PROVE  g[i] = MixTurn(g, s, b, i) /\ h[i] = MixTurn(h, s, c, i)
  <2>1. i \in 0 .. N /\ i \in 0 .. M
    OBVIOUS
  <2>2. PICK e : e = MixTurns(g, s, b, N)
    OBVIOUS
  <2>3. PICK f : f = MixTurns(h, s, c, M)
    OBVIOUS
  <2>4. e[i] = MixTurn(g, s, b, i) /\ f[i] = MixTurn(h, s, c, i)
    BY <2>1, <2>2, <2>3 DEF MixTurns
  <2>. QED
    BY <2>2, <2>3, <2>4
<1>2. PICK S : S = {i \in 0 .. num : g[i] # h[i]}
  OBVIOUS
<1>3. CASE S = {}
  BY <1>2, <1>3
<1>4. CASE S # {}
  <2>1. PICK k \in S : \A j \in S : k <= j
    <3>1. S \in SUBSET Nat
      BY <1>2
    <3>. QED
      BY <1>4, <3>1, LeastNat
  <2>2. k \in 0 .. num /\ g[k] # h[k]
    BY <1>2
  <2>3. k # 0
    BY <1>1, <2>2 DEF MixTurn
  <2>4. k - 1 \in 0 .. num /\ ~(k <= k - 1) /\ k \in 1 .. num
    BY <2>2, <2>3
  <2>5. g[k - 1] = h[k - 1]
    BY <1>2, <2>1, <2>4
  <2>6. MixTurn(g, s, b, k) = MixTurn(h, s, c, k)
    BY <2>3, <2>4, <2>5 DEF MixTurn
  <2>. QED
    BY <1>1, <2>2, <2>6
<1>. QED
  BY <1>3, <1>4

LEMMA MinOf ==
  ASSUME NEW S \in SUBSET Nat, S # {}
  PROVE  Min(S) \in S /\ \A y \in S : Min(S) <= y
BY LeastNat DEF Min

\* What is left after the loop is a block or less, and nothing of nothing only.
LEMMA LoopIsLeft ==
  ASSUME NEW length \in Nat, NEW m, m = Min({i \in 0 .. length : LastBlock(length - 12 * i)})
  PROVE  /\ m \in 0 .. length /\ length - 12 * m \in 0 .. 12
         /\ \A i \in 0 .. length : length - 12 * i <= 12 => m <= i
<1>1. PICK S : S = {i \in 0 .. length : LastBlock(length - 12 * i)}
  OBVIOUS
<1>2. S \in SUBSET Nat /\ length \in S
  BY <1>1 DEF LastBlock
<1>3. m \in S /\ \A i \in S : m <= i
  BY <1>1, <1>2, MinOf
<1>4. m \in 0 .. length /\ length - 12 * m <= 12
  BY <1>1, <1>3 DEF LastBlock
<1>5. \A i \in 0 .. length : length - 12 * i <= 12 => m <= i
  BY <1>1, <1>3 DEF LastBlock
<1>6. 0 <= length - 12 * m
  <2>1. SUFFICES ASSUME length - 12 * m < 0 PROVE FALSE
    BY <1>4
  <2>2. m # 0
    BY <2>1
  <2>3. m - 1 \in 0 .. length /\ length - 12 * (m - 1) <= 12 /\ ~(m <= m - 1)
    BY <1>4, <2>1, <2>2
  <2>. QED
    BY <1>5, <2>3
<1>. QED
  BY <1>4, <1>5, <1>6

KeyBlocks(key, N) ==
  [i \in 1 .. N |-> <<WordAt(key, 12 * (i - 1)), WordAt(key, 12 * (i - 1) + 4),
                      WordAt(key, 12 * (i - 1) + 8)>>]

Finish(s, key, k, rest) ==
  IF rest = 0 THEN s.c
  ELSE __jhash_final(AddWords(s, LastBytes(key, k, rest), LastBytes(key, k + 4, rest - 4),
                                 LastBytes(key, k + 8, rest - 8))).c

JhashRun(key, length, initval) ==
  \E g, m :
    /\ g = MixTurns(g, Start(length, initval), KeyBlocks(key, length), length)
    /\ m = Min({i \in 0 .. length : LastBlock(length - 12 * i)})
    /\ jhash(key, length, initval) = Finish(g[m], key, 12 * m, length - 12 * m)

LEMMA JhashIs ==
  ASSUME NEW key, NEW length \in Nat, NEW initval
  PROVE  JhashRun(key, length, initval)
<1>1. PICK s : s = Start(length, initval)
  OBVIOUS
<1>2. PICK b : b = KeyBlocks(key, length)
  OBVIOUS
<1>3. ASSUME NEW g
      PROVE  MixTurns(g, s, b, length)
               = [i \in 0 .. length |->
                    IF i = 0 THEN Start(length, initval)
                    ELSE __jhash_mix(AddWords(g[i - 1], WordAt(key, 12 * (i - 1)),
                           WordAt(key, 12 * (i - 1) + 4), WordAt(key, 12 * (i - 1) + 8)))]
  <2>1. ASSUME NEW i \in 0 .. length
        PROVE  MixTurn(g, s, b, i)
                 = IF i = 0 THEN Start(length, initval)
                   ELSE __jhash_mix(AddWords(g[i - 1], WordAt(key, 12 * (i - 1)),
                          WordAt(key, 12 * (i - 1) + 4), WordAt(key, 12 * (i - 1) + 8)))
    <3>1. CASE i = 0
      BY <1>1, <3>1 DEF MixTurn
    <3>2. CASE i # 0
      <4>1. i \in 1 .. length
        BY <3>2
      <4>2. b[i] = <<WordAt(key, 12 * (i - 1)), WordAt(key, 12 * (i - 1) + 4),
                     WordAt(key, 12 * (i - 1) + 8)>>
        BY <1>2, <4>1 DEF KeyBlocks
      <4>. QED
        BY <3>2, <4>2 DEF MixTurn
    <3>. QED
      BY <3>1, <3>2
  <2>. QED
    BY <2>1 DEF MixTurns
<1>4. PICK g : g = CHOOSE h : h = [i \in 0 .. length |->
                    IF i = 0 THEN Start(length, initval)
                    ELSE __jhash_mix(AddWords(h[i - 1], WordAt(key, 12 * (i - 1)),
                           WordAt(key, 12 * (i - 1) + 4), WordAt(key, 12 * (i - 1) + 8)))]
  OBVIOUS
<1>5. g = MixTurns(g, s, b, length)
  <2>1. \E h : h = MixTurns(h, s, b, length)
    BY ONLY length \in Nat, MixTurnsExist
  <2>2. g = CHOOSE h : h = MixTurns(h, s, b, length)
    BY ONLY <1>3, <1>4
  <2>. QED
    BY ONLY <2>1, <2>2
<1>6. PICK m : m = Min({i \in 0 .. length : LastBlock(length - 12 * i)})
  OBVIOUS
<1>7. jhash(key, length, initval) = Finish(g[m], key, 12 * m, length - 12 * m)
  BY <1>4, <1>6 DEF jhash, Finish
<1>. QED
  BY <1>1, <1>2, <1>5, <1>6, <1>7 DEF JhashRun

SameKey(key, other, length) == \A i \in 1 .. length : key[i] = other[i]

SameAt(key, other, length, k) ==
  /\ k + 4 <= length => WordAt(key, k) = WordAt(other, k)
  /\ LastBytes(key, k, length - k) = LastBytes(other, k, length - k)

\* The bytes behind the key are not read, in a whole word or in a last one.
LEMMA SameBytes ==
  ASSUME NEW key, NEW other, NEW length \in Nat, SameKey(key, other, length), NEW k \in Nat
  PROVE  SameAt(key, other, length, k)
<1>1. ASSUME NEW i \in 1 .. 4, k + i <= length
      PROVE  key[k + i] = other[k + i]
  <2>1. k + i \in 1 .. length
    BY <1>1
  <2>. QED
    BY <2>1 DEF SameKey
<1>2. k + 4 <= length => WordAt(key, k) = WordAt(other, k)
  <2>1. SUFFICES ASSUME k + 4 <= length PROVE WordAt(key, k) = WordAt(other, k)
    OBVIOUS
  <2>2. /\ key[k + 1] = other[k + 1] /\ key[k + 2] = other[k + 2]
        /\ key[k + 3] = other[k + 3] /\ key[k + 4] = other[k + 4]
    <3>1. k + 1 \in 1 .. length /\ k + 2 \in 1 .. length /\ k + 3 \in 1 .. length
          /\ k + 4 \in 1 .. length
      BY <2>1
    <3>. QED
      BY <3>1 DEF SameKey
  <2>. QED
    BY <2>2 DEF WordAt
<1>3. \A i \in 0 .. 3 : (IF i < length - k THEN key[k + i + 1] ELSE 0)
                          = (IF i < length - k THEN other[k + i + 1] ELSE 0)
  <2>. SUFFICES ASSUME NEW i \in 0 .. 3, i < length - k
                PROVE  key[k + i + 1] = other[k + i + 1]
    OBVIOUS
  <2>1. k + i + 1 \in 1 .. length
    OBVIOUS
  <2>. QED
    BY <2>1 DEF SameKey
<1>4. /\ (IF 0 < length - k THEN key[k + 0 + 1] ELSE 0)
           = (IF 0 < length - k THEN other[k + 0 + 1] ELSE 0)
      /\ (IF 1 < length - k THEN key[k + 1 + 1] ELSE 0)
           = (IF 1 < length - k THEN other[k + 1 + 1] ELSE 0)
      /\ (IF 2 < length - k THEN key[k + 2 + 1] ELSE 0)
           = (IF 2 < length - k THEN other[k + 2 + 1] ELSE 0)
      /\ (IF 3 < length - k THEN key[k + 3 + 1] ELSE 0)
           = (IF 3 < length - k THEN other[k + 3 + 1] ELSE 0)
  BY <1>3
<1>5. LastBytes(key, k, length - k) = LastBytes(other, k, length - k)
  BY ONLY <1>4 DEF LastBytes
<1>. QED
  BY <1>2, <1>5 DEF SameAt

\* A key of any length has one hash wherever it lies: what follows it in
\* memory is not read.
THEOREM OnlyTheKeyIsRead ==
  ASSUME NEW key, NEW other, NEW length \in Nat, SameKey(key, other, length), NEW initval
  PROVE  jhash(key, length, initval) = jhash(other, length, initval)
<1>1. PICK s : s = Start(length, initval)
  OBVIOUS
<1>2. PICK b : b = KeyBlocks(key, length)
  OBVIOUS
<1>3. PICK c : c = KeyBlocks(other, length)
  OBVIOUS
<1>4. PICK g, m :
        /\ g = MixTurns(g, Start(length, initval), KeyBlocks(key, length), length)
        /\ m = Min({i \in 0 .. length : LastBlock(length - 12 * i)})
        /\ jhash(key, length, initval) = Finish(g[m], key, 12 * m, length - 12 * m)
  <2>1. JhashRun(key, length, initval)
    BY ONLY length \in Nat, JhashIs
  <2>. QED
    BY ONLY <2>1 DEF JhashRun
<1>5. PICK h, num :
        /\ h = MixTurns(h, Start(length, initval), KeyBlocks(other, length), length)
        /\ num = Min({i \in 0 .. length : LastBlock(length - 12 * i)})
        /\ jhash(other, length, initval) = Finish(h[num], other, 12 * num, length - 12 * num)
  <2>1. JhashRun(other, length, initval)
    BY ONLY length \in Nat, JhashIs
  <2>. QED
    BY ONLY <2>1 DEF JhashRun
<1>6. g = MixTurns(g, s, b, length) /\ h = MixTurns(h, s, c, length)
  BY <1>1, <1>2, <1>3, <1>4, <1>5
<1>7. \A k \in Nat : SameAt(key, other, length, k)
  BY ONLY length \in Nat, SameKey(key, other, length), SameBytes
<1>8. num = m
  BY <1>4, <1>5
<1>9. m \in 0 .. length /\ length - 12 * m \in 0 .. 12
  BY <1>4, LoopIsLeft
<1>10. ASSUME NEW i \in 1 .. m
      PROVE  b[i] = c[i]
  <2>1. i \in 1 .. length /\ 12 * (i - 1) \in Nat /\ 12 * (i - 1) + 12 <= length
    BY <1>9
  <2>2. PICK k \in Nat : k = 12 * (i - 1)
    BY <2>1
  <2>3. k + 4 \in Nat /\ k + 8 \in Nat /\ k + 12 <= length
    BY <2>1, <2>2
  <2>4. /\ SameAt(key, other, length, k) /\ SameAt(key, other, length, k + 4)
        /\ SameAt(key, other, length, k + 8)
    BY ONLY <1>7, <2>3, k \in Nat
  <2>5. /\ WordAt(key, k) = WordAt(other, k) /\ WordAt(key, k + 4) = WordAt(other, k + 4)
        /\ WordAt(key, k + 8) = WordAt(other, k + 8)
    <3>1. k + 4 <= length /\ (k + 4) + 4 <= length /\ (k + 8) + 4 <= length
      BY <2>3
    <3>. QED
      BY ONLY <2>4, <3>1 DEF SameAt
  <2>. QED
    BY <1>2, <1>3, <2>1, <2>2, <2>5 DEF KeyBlocks
<1>11. g[m] = h[m]
  <2>1. m \in Nat /\ m <= length
    BY <1>9
  <2>2. \A i \in 1 .. m : b[i][1] = c[i][1] /\ b[i][2] = c[i][2] /\ b[i][3] = c[i][3]
    BY <1>10
  <2>. QED
    BY ONLY length \in Nat, <1>6, <2>1, <2>2, SameTurns
<1>12. PICK k : k = 12 * m
  OBVIOUS
<1>13. /\ k \in Nat /\ k + 4 \in Nat /\ k + 8 \in Nat
       /\ length - k - 4 = length - (k + 4) /\ length - k - 8 = length - (k + 8)
  BY <1>9, <1>12
<1>14. /\ LastBytes(key, k, length - k) = LastBytes(other, k, length - k)
       /\ LastBytes(key, k + 4, length - k - 4) = LastBytes(other, k + 4, length - k - 4)
       /\ LastBytes(key, k + 8, length - k - 8) = LastBytes(other, k + 8, length - k - 8)
  <2>1. /\ SameAt(key, other, length, k) /\ SameAt(key, other, length, k + 4)
        /\ SameAt(key, other, length, k + 8)
    BY ONLY <1>7, <1>13
  <2>. QED
    BY <1>13, <2>1 DEF SameAt
<1>15. Finish(g[m], key, k, length - k) = Finish(h[m], other, k, length - k)
  BY <1>11, <1>14 DEF Finish
<1>. QED
  BY <1>4, <1>5, <1>8, <1>12, <1>15

-----------------------------------------------------------------------------
(* Keys of words.                                                          *)

WordOr0(key, length, i) == IF i <= length THEN key[i] ELSE Word(0)

WordBlocks(key, length, N) ==
  [i \in 1 .. N |-> <<WordOr0(key, length, 3 * (i - 1) + 1), WordOr0(key, length, 3 * (i - 1) + 2),
                      WordOr0(key, length, 3 * (i - 1) + 3)>>]

FinishWords(s, key, length, m) ==
  IF length - 3 * m = 0 THEN s.c
  ELSE __jhash_final(AddWords(s, WordOr0(key, length, 3 * m + 1), WordOr0(key, length, 3 * m + 2),
                                 WordOr0(key, length, 3 * m + 3))).c

Jhash2Run(key, length, initval) ==
  \E g, m :
    /\ g = MixTurns(g, Start(4 * length, initval), WordBlocks(key, length, length), length)
    /\ m = Min({i \in 0 .. length : length - 3 * i <= 3})
    /\ jhash2(key, length, initval) = FinishWords(g[m], key, length, m)

LEMMA Jhash2Is ==
  ASSUME NEW key, NEW length \in Nat, NEW initval
  PROVE  Jhash2Run(key, length, initval)
<1>1. PICK s : s = Start(4 * length, initval)
  OBVIOUS
<1>2. PICK b : b = WordBlocks(key, length, length)
  OBVIOUS
<1>3. ASSUME NEW g
      PROVE  MixTurns(g, s, b, length)
               = [i \in 0 .. length |->
                    IF i = 0 THEN Start(4 * length, initval)
                    ELSE __jhash_mix(AddWords(g[i - 1], WordOr0(key, length, 3 * (i - 1) + 1),
                           WordOr0(key, length, 3 * (i - 1) + 2),
                           WordOr0(key, length, 3 * (i - 1) + 3)))]
  <2>1. ASSUME NEW i \in 0 .. length
        PROVE  MixTurn(g, s, b, i)
                 = IF i = 0 THEN Start(4 * length, initval)
                   ELSE __jhash_mix(AddWords(g[i - 1], WordOr0(key, length, 3 * (i - 1) + 1),
                          WordOr0(key, length, 3 * (i - 1) + 2),
                          WordOr0(key, length, 3 * (i - 1) + 3)))
    <3>1. CASE i = 0
      BY <1>1, <3>1 DEF MixTurn
    <3>2. CASE i # 0
      <4>1. i \in 1 .. length
        BY <3>2
      <4>2. b[i] = <<WordOr0(key, length, 3 * (i - 1) + 1), WordOr0(key, length, 3 * (i - 1) + 2),
                     WordOr0(key, length, 3 * (i - 1) + 3)>>
        BY <1>2, <4>1 DEF WordBlocks
      <4>. QED
        BY <3>2, <4>2 DEF MixTurn
    <3>. QED
      BY <3>1, <3>2
  <2>. QED
    BY <2>1 DEF MixTurns
<1>4. PICK g : g = CHOOSE h : h = [i \in 0 .. length |->
                    IF i = 0 THEN Start(4 * length, initval)
                    ELSE __jhash_mix(AddWords(h[i - 1], WordOr0(key, length, 3 * (i - 1) + 1),
                           WordOr0(key, length, 3 * (i - 1) + 2),
                           WordOr0(key, length, 3 * (i - 1) + 3)))]
  OBVIOUS
<1>5. g = MixTurns(g, s, b, length)
  <2>1. \E h : h = MixTurns(h, s, b, length)
    BY ONLY length \in Nat, MixTurnsExist
  <2>2. g = CHOOSE h : h = MixTurns(h, s, b, length)
    BY ONLY <1>3, <1>4
  <2>. QED
    BY ONLY <2>1, <2>2
<1>6. PICK m : m = Min({i \in 0 .. length : length - 3 * i <= 3})
  OBVIOUS
<1>7. jhash2(key, length, initval) = FinishWords(g[m], key, length, m)
  BY <1>4, <1>6 DEF jhash2, FinishWords, WordOr0
<1>. QED
  BY <1>1, <1>2, <1>5, <1>6, <1>7 DEF Jhash2Run

\* The loop over words and that over their bytes make the same turns.
LEMMA SameCount ==
  ASSUME NEW length \in Nat, NEW num, num = Min({i \in 0 .. length : length - 3 * i <= 3}),
         NEW m, m = Min({i \in 0 .. (4 * length) : LastBlock(4 * length - 12 * i)})
  PROVE  num = m /\ m \in 0 .. length /\ length - 3 * m \in 0 .. 3
<1>1. PICK S : S = {i \in 0 .. length : length - 3 * i <= 3}
  OBVIOUS
<1>2. S \in SUBSET Nat /\ length \in S
  BY <1>1
<1>3. num \in S /\ \A i \in S : num <= i
  BY <1>1, <1>2, MinOf
<1>4. num \in 0 .. length /\ length - 3 * num <= 3
  BY <1>1, <1>3
<1>5. PICK bytes : bytes = 4 * length
  OBVIOUS
<1>6. bytes \in Nat /\ m = Min({i \in 0 .. bytes : LastBlock(bytes - 12 * i)})
  BY <1>5
<1>7. /\ m \in 0 .. bytes /\ bytes - 12 * m \in 0 .. 12
      /\ \A i \in 0 .. bytes : bytes - 12 * i <= 12 => m <= i
  BY <1>6, LoopIsLeft
<1>8. m <= num
  <2>1. num \in 0 .. bytes /\ bytes - 12 * num <= 12
    BY <1>4, <1>5
  <2>. QED
    BY <1>7, <2>1
<1>9. m \in 0 .. length /\ length - 3 * m \in 0 .. 3
  BY <1>4, <1>5, <1>7, <1>8
<1>10. num <= m
  BY <1>1, <1>3, <1>9
<1>. QED
  BY <1>4, <1>8, <1>9, <1>10

SameWords(words, bytes, length) ==
  \A i \in 1 .. length : words[i] = WordAt(bytes, 4 * (i - 1))

WholeWord(words, bytes, length, k) ==
  WordOr0(words, length, k + 1) = LastBytes(bytes, 4 * k, 4 * length - 4 * k)

\* Four bytes there are, or none of the four.
LEMMA WholeWords ==
  ASSUME NEW words, NEW bytes, NEW length \in Nat, SameWords(words, bytes, length), NEW k \in Nat
  PROVE  WholeWord(words, bytes, length, k)
<1>1. CASE k + 1 <= length
  <2>1. words[k + 1] = WordAt(bytes, 4 * k)
    <3>1. k + 1 \in 1 .. length /\ 4 * ((k + 1) - 1) = 4 * k
      BY <1>1
    <3>. QED
      BY <3>1 DEF SameWords
  <2>2. PICK r : r = 4 * length - 4 * k
    OBVIOUS
  <2>3. 0 < r /\ 1 < r /\ 2 < r /\ 3 < r
    BY <1>1, <2>2
  <2>4. PICK j : j = 4 * k
    OBVIOUS
  <2>5. j \in Nat /\ j + 0 + 1 = j + 1 /\ j + 1 + 1 = j + 2 /\ j + 2 + 1 = j + 3 /\ j + 3 + 1 = j + 4
    BY <2>4
  <2>6. LastBytes(bytes, j, r) = WordAt(bytes, j)
    BY ONLY <2>3, <2>5 DEF LastBytes, WordAt
  <2>. QED
    BY <1>1, <2>1, <2>2, <2>4, <2>6 DEF WordOr0, WholeWord
<1>2. CASE ~(k + 1 <= length)
  <2>1. PICK r : r = 4 * length - 4 * k
    OBVIOUS
  <2>2. ~(0 < r) /\ ~(1 < r) /\ ~(2 < r) /\ ~(3 < r)
    BY <1>2, <2>1
  <2>3. LastBytes(bytes, 4 * k, r) = <<0, 0>>
    BY ONLY <2>2 DEF LastBytes
  <2>4. Word(0) = <<0, 0>>
    BY DEF Word, Half
  <2>. QED
    BY <1>2, <2>1, <2>3, <2>4 DEF WordOr0, WholeWord
<1>. QED
  BY <1>1, <1>2

\* An array of words of any length has the hash of its bytes.
THEOREM WordsHashAsBytes ==
  ASSUME NEW words, NEW bytes, NEW length \in Nat,
         SameWords(words, bytes, length), NEW initval
  PROVE  jhash2(words, length, initval) = jhash(bytes, 4 * length, initval)
<1>1. PICK N \in Nat : N = 4 * length
  OBVIOUS
<1>2. N \in Nat
  OBVIOUS
<1>3. PICK s : s = Start(N, initval)
  OBVIOUS
<1>4. PICK b : b = WordBlocks(words, length, length)
  OBVIOUS
<1>5. PICK c : c = KeyBlocks(bytes, N)
  OBVIOUS
<1>6. PICK g, num :
        /\ g = MixTurns(g, Start(4 * length, initval), WordBlocks(words, length, length), length)
        /\ num = Min({i \in 0 .. length : length - 3 * i <= 3})
        /\ jhash2(words, length, initval) = FinishWords(g[num], words, length, num)
  <2>1. Jhash2Run(words, length, initval)
    BY ONLY length \in Nat, Jhash2Is
  <2>. QED
    BY ONLY <2>1 DEF Jhash2Run
<1>7. PICK h, m :
        /\ h = MixTurns(h, Start(N, initval), KeyBlocks(bytes, N), N)
        /\ m = Min({i \in 0 .. N : LastBlock(N - 12 * i)})
        /\ jhash(bytes, N, initval) = Finish(h[m], bytes, 12 * m, N - 12 * m)
  <2>1. JhashRun(bytes, N, initval)
    BY ONLY N \in Nat, JhashIs
  <2>. QED
    BY ONLY <2>1 DEF JhashRun
<1>8. g = MixTurns(g, s, b, length) /\ h = MixTurns(h, s, c, N)
  BY <1>1, <1>3, <1>4, <1>5, <1>6, <1>7
<1>9. \A k \in Nat : WholeWord(words, bytes, length, k)
  BY ONLY length \in Nat, SameWords(words, bytes, length), WholeWords
<1>10. num = m /\ m \in 0 .. length /\ length - 3 * m \in 0 .. 3
  BY <1>1, <1>6, <1>7, SameCount
<1>11. m \in Nat /\ m <= length /\ m <= N
  BY <1>1, <1>10
<1>12. ASSUME NEW i \in 1 .. m
       PROVE  b[i] = c[i]
  <2>1. i \in 1 .. length /\ i \in 1 .. N
    BY <1>2, <1>11
  <2>2. PICK k : k = 3 * (i - 1)
    OBVIOUS
  <2>3. /\ k \in Nat /\ k + 1 \in 1 .. length /\ k + 2 \in 1 .. length /\ k + 3 \in 1 .. length
        /\ 12 * (i - 1) = 4 * k /\ 4 * k + 4 = 4 * (k + 1) /\ 4 * k + 8 = 4 * (k + 2)
        /\ (k + 1) - 1 = k /\ (k + 2) - 1 = k + 1 /\ (k + 3) - 1 = k + 2
    BY <1>10, <2>2
  <2>4. /\ words[k + 1] = WordAt(bytes, 4 * k) /\ words[k + 2] = WordAt(bytes, 4 * k + 4)
        /\ words[k + 3] = WordAt(bytes, 4 * k + 8)
    BY <2>3 DEF SameWords
  <2>5. b[i] = <<words[k + 1], words[k + 2], words[k + 3]>>
    BY <1>4, <2>1, <2>2, <2>3 DEF WordBlocks, WordOr0
  <2>6. c[i] = <<WordAt(bytes, 4 * k), WordAt(bytes, 4 * k + 4), WordAt(bytes, 4 * k + 8)>>
    BY <1>5, <2>1, <2>3 DEF KeyBlocks
  <2>. QED
    BY <2>4, <2>5, <2>6
<1>13. g[m] = h[m]
  <2>1. \A i \in 1 .. m : b[i][1] = c[i][1] /\ b[i][2] = c[i][2] /\ b[i][3] = c[i][3]
    BY <1>12
  <2>. QED
    BY ONLY length \in Nat, N \in Nat, <1>11, <1>8, <2>1, SameTurns
<1>14. PICK k : k = 3 * m
  OBVIOUS
<1>15. /\ k \in Nat /\ k + 1 \in Nat /\ k + 2 \in Nat /\ 12 * m = 4 * k
       /\ (k + 1) + 1 = k + 2 /\ (k + 2) + 1 = k + 3
       /\ 4 * (k + 1) = 4 * k + 4 /\ 4 * (k + 2) = 4 * k + 8
       /\ 4 * length - 4 * (k + 1) = N - 4 * k - 4 /\ 4 * length - 4 * (k + 2) = N - 4 * k - 8
       /\ 4 * length - 4 * k = N - 4 * k
       /\ (length - k = 0 <=> N - 4 * k = 0)
  BY <1>1, <1>11, <1>14
<1>16. /\ WordOr0(words, length, k + 1) = LastBytes(bytes, 4 * k, N - 4 * k)
       /\ WordOr0(words, length, k + 2) = LastBytes(bytes, 4 * k + 4, N - 4 * k - 4)
       /\ WordOr0(words, length, k + 3) = LastBytes(bytes, 4 * k + 8, N - 4 * k - 8)
  <2>1. WordOr0(words, length, k + 1) = LastBytes(bytes, 4 * k, 4 * length - 4 * k)
    BY ONLY <1>15, <1>9 DEF WholeWord
  <2>2. WordOr0(words, length, (k + 1) + 1)
          = LastBytes(bytes, 4 * (k + 1), 4 * length - 4 * (k + 1))
    BY ONLY <1>15, <1>9 DEF WholeWord
  <2>3. WordOr0(words, length, (k + 2) + 1)
          = LastBytes(bytes, 4 * (k + 2), 4 * length - 4 * (k + 2))
    BY ONLY <1>15, <1>9 DEF WholeWord
  <2>. QED
    BY <1>15, <2>1, <2>2, <2>3
<1>17. FinishWords(g[m], words, length, m) = Finish(h[m], bytes, 4 * k, N - 4 * k)
  BY <1>13, <1>14, <1>15, <1>16 DEF FinishWords, Finish
<1>. QED
  BY <1>1, <1>6, <1>7, <1>10, <1>15, <1>17

-----------------------------------------------------------------------------
(* The hash is a word.                                                     *)

Byte == 0 .. 255

LEMMA WordTyped ==
  ASSUME NEW x \in Nat
  PROVE  Word(x) \in Word32
<1>1. PICK B \in Nat \ {0} : B = Half
  BY HalfIs
<1>2. x \div B \in Int
  BY DivMod
<1>3. x % B \in 0 .. (B - 1) /\ (x \div B) % B \in 0 .. (B - 1)
  BY <1>2, DivMod
<1>. QED
  BY <1>1, <1>3 DEF Word, Word32, HalfWord

LEMMA JhashInitval == JHASH_INITVAL \in Word32
<1>1. 57005 \in HalfWord /\ 48879 \in HalfWord
  BY DEF HalfWord, Half
<1>. QED
  BY <1>1 DEF JHASH_INITVAL, Word32

LEMMA Triple ==
  ASSUME NEW x \in Word32, NEW y \in Word32, NEW z \in Word32
  PROVE  [a |-> x, b |-> y, c |-> z] \in States
BY DEF States, Letters

LEMMA StartTyped ==
  ASSUME NEW length \in Nat, NEW initval \in Word32
  PROVE  Start(length, initval) \in States
<1>1. PICK v : v = Plus(Plus(JHASH_INITVAL, Word(length)), initval)
  OBVIOUS
<1>2. v \in Word32
  BY <1>1, WordTyped, JhashInitval, WordsUndo
<1>. QED
  BY <1>1, <1>2, Triple DEF Start

LEMMA AddTyped ==
  ASSUME NEW s \in States, NEW x \in Word32, NEW y \in Word32, NEW z \in Word32
  PROVE  AddWords(s, x, y, z) \in States
<1>1. s.a \in Word32 /\ s.b \in Word32 /\ s.c \in Word32
  BY DEF States, Letters
<1>2. Plus(s.a, x) \in Word32 /\ Plus(s.b, y) \in Word32 /\ Plus(s.c, z) \in Word32
  BY <1>1, WordsUndo
<1>. QED
  BY <1>2, Triple DEF AddWords

LEMMA TwoBytes ==
  \A p, q \in Byte : p + 256 * q \in HalfWord
<1>1. PICK B \in Int : B = 65535
  OBVIOUS
<1>2. HalfWord = 0 .. B
  BY <1>1 DEF HalfWord, Half
<1>3. \A p, q \in Int : 0 <= p /\ p <= 255 /\ 0 <= q /\ q <= 255
                        => p + 256 * q \in Int /\ 0 <= p + 256 * q /\ p + 256 * q <= B
  BY <1>1
<1>4. \A r \in Int : 0 <= r /\ r <= B => r \in 0 .. B
  BY B \in Int
<1>5. \A p \in Byte : p \in Int /\ 0 <= p /\ p <= 255
  BY DEF Byte
<1>. QED
  BY ONLY <1>2, <1>3, <1>4, <1>5

KeyOfBytes(key, length) == \A i \in 1 .. length : key[i] \in Byte

TypedAt(key, length, k) ==
  /\ k + 4 <= length => WordAt(key, k) \in Word32
  /\ LastBytes(key, k, length - k) \in Word32

LEMMA BytesTyped ==
  ASSUME NEW key, NEW length \in Nat, KeyOfBytes(key, length), NEW k \in Nat
  PROVE  TypedAt(key, length, k)
<1>1. \A p, q \in Byte : p + 256 * q \in HalfWord
  BY ONLY TwoBytes
<1>2. k + 4 <= length => WordAt(key, k) \in Word32
  <2>1. SUFFICES ASSUME k + 4 <= length PROVE WordAt(key, k) \in Word32
    OBVIOUS
  <2>2. k + 1 \in 1 .. length /\ k + 2 \in 1 .. length /\ k + 3 \in 1 .. length
        /\ k + 4 \in 1 .. length
    BY <2>1
  <2>. QED
    BY <1>1, <2>2 DEF WordAt, Word32, KeyOfBytes
<1>3. \A i \in 0 .. 3 : (IF i < length - k THEN key[k + i + 1] ELSE 0) \in Byte
  <2>. SUFFICES ASSUME NEW i \in 0 .. 3
                PROVE  (IF i < length - k THEN key[k + i + 1] ELSE 0) \in Byte
    OBVIOUS
  <2>1. i < length - k => k + i + 1 \in 1 .. length
    OBVIOUS
  <2>2. 0 \in Byte
    BY DEF Byte
  <2>. QED
    BY <2>1, <2>2 DEF KeyOfBytes
<1>4. /\ (IF 0 < length - k THEN key[k + 0 + 1] ELSE 0) \in Byte
      /\ (IF 1 < length - k THEN key[k + 1 + 1] ELSE 0) \in Byte
      /\ (IF 2 < length - k THEN key[k + 2 + 1] ELSE 0) \in Byte
      /\ (IF 3 < length - k THEN key[k + 3 + 1] ELSE 0) \in Byte
  BY <1>3
<1>5. LastBytes(key, k, length - k) \in Word32
  BY ONLY <1>1, <1>4 DEF LastBytes, Word32
<1>. QED
  BY <1>2, <1>5 DEF TypedAt

\* The hash of bytes is a word of 32 bits, for a key of any length.
THEOREM HashIsAWord ==
  ASSUME NEW key, NEW length \in Nat, KeyOfBytes(key, length), NEW initval \in Word32
  PROVE  jhash(key, length, initval) \in Word32
<1>1. PICK s : s = Start(length, initval)
  OBVIOUS
<1>2. PICK b : b = KeyBlocks(key, length)
  OBVIOUS
<1>3. PICK g, m :
        /\ g = MixTurns(g, Start(length, initval), KeyBlocks(key, length), length)
        /\ m = Min({i \in 0 .. length : LastBlock(length - 12 * i)})
        /\ jhash(key, length, initval) = Finish(g[m], key, 12 * m, length - 12 * m)
  <2>1. JhashRun(key, length, initval)
    BY ONLY length \in Nat, JhashIs
  <2>. QED
    BY ONLY <2>1 DEF JhashRun
<1>4. m \in 0 .. length /\ length - 12 * m \in 0 .. 12
  BY <1>3, LoopIsLeft
<1>5. \A k \in Nat : TypedAt(key, length, k)
  BY ONLY length \in Nat, KeyOfBytes(key, length), BytesTyped
<1>6. s \in States
  BY <1>1, StartTyped
<1>7. ASSUME NEW i \in 0 .. m
      PROVE  g[i] = MixTurn(g, s, b, i)
  <2>1. i \in 0 .. length
    BY <1>4
  <2>2. PICK e : e = MixTurns(g, s, b, length)
    OBVIOUS
  <2>3. e[i] = MixTurn(g, s, b, i)
    BY <2>1, <2>2 DEF MixTurns
  <2>. QED
    BY <1>1, <1>2, <1>3, <2>2, <2>3
<1>8. g[m] \in States
  <2>1. PICK S : S = {i \in 0 .. m : g[i] \notin States}
    OBVIOUS
  <2>2. CASE S = {}
    BY <1>4, <2>1, <2>2
  <2>3. CASE S # {}
    <3>1. PICK j \in S : \A i \in S : j <= i
      <4>1. S \in SUBSET Nat
        BY <1>4, <2>1
      <4>. QED
        BY <2>3, <4>1, LeastNat
    <3>2. j \in 0 .. m /\ g[j] \notin States
      BY <2>1
    <3>3. j # 0
      BY <1>6, <1>7, <3>2 DEF MixTurn
    <3>4. j \in 1 .. length /\ j - 1 \in 0 .. m /\ ~(j <= j - 1)
      BY <1>4, <3>2, <3>3
    <3>5. g[j - 1] \in States
      BY <2>1, <3>1, <3>4
    <3>6. 12 * (j - 1) \in Nat /\ 12 * (j - 1) + 12 <= length
      BY <1>4, <3>2, <3>3
    <3>7. b[j] = <<WordAt(key, 12 * (j - 1)), WordAt(key, 12 * (j - 1) + 4),
                   WordAt(key, 12 * (j - 1) + 8)>>
      BY <1>2, <3>4 DEF KeyBlocks
    <3>8. b[j][1] \in Word32 /\ b[j][2] \in Word32 /\ b[j][3] \in Word32
      <4>1. PICK k \in Nat : k = 12 * (j - 1)
        BY <3>6
      <4>2. /\ k + 4 \in Nat /\ k + 8 \in Nat /\ k + 4 <= length
            /\ (k + 4) + 4 <= length /\ (k + 8) + 4 <= length
        BY <3>6, <4>1
      <4>3. TypedAt(key, length, k) /\ TypedAt(key, length, k + 4) /\ TypedAt(key, length, k + 8)
        BY ONLY <1>5, <4>2, k \in Nat
      <4>4. WordAt(key, k) \in Word32 /\ WordAt(key, k + 4) \in Word32 /\ WordAt(key, k + 8) \in Word32
        BY ONLY <4>2, <4>3 DEF TypedAt
      <4>. QED
        BY <3>7, <4>1, <4>4
    <3>9. MixTurn(g, s, b, j) \in States
      BY <3>3, <3>5, <3>8, AddTyped, MixReversible DEF MixTurn
    <3>. QED
      BY <1>7, <3>2, <3>9
  <2>. QED
    BY <2>2, <2>3
<1>9. PICK k : k = 12 * m
  OBVIOUS
<1>10. /\ k \in Nat /\ k + 4 \in Nat /\ k + 8 \in Nat
       /\ length - k - 4 = length - (k + 4) /\ length - k - 8 = length - (k + 8)
  BY <1>4, <1>9
<1>11. /\ LastBytes(key, k, length - k) \in Word32
       /\ LastBytes(key, k + 4, length - k - 4) \in Word32
       /\ LastBytes(key, k + 8, length - k - 8) \in Word32
  <2>1. TypedAt(key, length, k) /\ TypedAt(key, length, k + 4) /\ TypedAt(key, length, k + 8)
    BY ONLY <1>5, <1>10
  <2>. QED
    BY <1>10, <2>1 DEF TypedAt
<1>12. \A t \in States : t.c \in Word32
  BY DEF States, Letters
<1>13. Finish(g[m], key, k, length - k) \in Word32
  BY <1>8, <1>11, <1>12, AddTyped, FinalTyped DEF Finish
<1>. QED
  BY <1>3, <1>9, <1>13

-----------------------------------------------------------------------------
(* What HashAgrees says of its keys, for every seed.                       *)

\* Few words hash as an array of them, but for the length in the start.
LEMMA FewWords ==
  ASSUME NEW words, NEW length \in 1 .. 3, \A i \in 1 .. length : words[i] \in Word32
  PROVE  jhash2(words, length, Minus(Word(0), Word(4 * length)))
           = jhash_3words(WordOr0(words, length, 1), WordOr0(words, length, 2),
                          WordOr0(words, length, 3), JHASH_INITVAL)
<1>1. PICK v : v = Minus(Word(0), Word(4 * length))
  OBVIOUS
<1>2. PICK g, m :
        /\ g = MixTurns(g, Start(4 * length, v), WordBlocks(words, length, length), length)
        /\ m = Min({i \in 0 .. length : length - 3 * i <= 3})
        /\ jhash2(words, length, v) = FinishWords(g[m], words, length, m)
  <2>1. Jhash2Run(words, length, v)
    BY ONLY length \in 1 .. 3, Jhash2Is
  <2>. QED
    BY ONLY <2>1 DEF Jhash2Run
<1>3. m = 0
  <2>1. PICK S : S = {i \in 0 .. length : length - 3 * i <= 3}
    OBVIOUS
  <2>2. S \in SUBSET Nat /\ 0 \in S
    BY <2>1
  <2>3. m \in S /\ m <= 0
    BY <1>2, <2>1, <2>2, MinOf
  <2>. QED
    BY <2>2, <2>3
<1>4. PICK s : s = Start(4 * length, v)
  OBVIOUS
<1>5. g[0] = s
  <2>1. PICK e : e = MixTurns(g, s, WordBlocks(words, length, length), length)
    OBVIOUS
  <2>2. 0 \in 0 .. length
    OBVIOUS
  <2>3. e[0] = s
    BY <2>1, <2>2 DEF MixTurns, MixTurn
  <2>. QED
    BY <1>2, <1>4, <2>1, <2>3
<1>6. PICK J : J = JHASH_INITVAL
  OBVIOUS
<1>7. Plus(Plus(J, Word(4 * length)), v) = J
  <2>1. CASE length = 1
    <3>1. Word(4 * length) = <<0, 4>> /\ Word(0) = <<0, 0>>
      BY ONLY <2>1 DEF Word, Half
    <3>2. v = <<65535, 65532>> /\ Plus(J, <<0, 4>>) = <<57005, 48883>>
      BY ONLY <1>1, <1>6, <3>1 DEF Minus, Plus, Half, JHASH_INITVAL
    <3>. QED
      BY ONLY <1>6, <3>1, <3>2 DEF Plus, Half, JHASH_INITVAL
  <2>2. CASE length = 2
    <3>1. Word(4 * length) = <<0, 8>> /\ Word(0) = <<0, 0>>
      BY ONLY <2>2 DEF Word, Half
    <3>2. v = <<65535, 65528>> /\ Plus(J, <<0, 8>>) = <<57005, 48887>>
      BY ONLY <1>1, <1>6, <3>1 DEF Minus, Plus, Half, JHASH_INITVAL
    <3>. QED
      BY ONLY <1>6, <3>1, <3>2 DEF Plus, Half, JHASH_INITVAL
  <2>3. CASE length = 3
    <3>1. Word(4 * length) = <<0, 12>> /\ Word(0) = <<0, 0>>
      BY ONLY <2>3 DEF Word, Half
    <3>2. v = <<65535, 65524>> /\ Plus(J, <<0, 12>>) = <<57005, 48891>>
      BY ONLY <1>1, <1>6, <3>1 DEF Minus, Plus, Half, JHASH_INITVAL
    <3>. QED
      BY ONLY <1>6, <3>1, <3>2 DEF Plus, Half, JHASH_INITVAL
  <2>. QED
    BY <2>1, <2>2, <2>3
<1>8. s = [a |-> J, b |-> J, c |-> J]
  BY <1>4, <1>6, <1>7 DEF Start
<1>9. PICK x, y, z : /\ x = WordOr0(words, length, 1) /\ y = WordOr0(words, length, 2)
                     /\ z = WordOr0(words, length, 3)
  OBVIOUS
<1>10. x \in Word32 /\ y \in Word32 /\ z \in Word32 /\ J \in Word32
  <2>1. \A i \in 1 .. 3 : WordOr0(words, length, i) \in Word32
    <3>. SUFFICES ASSUME NEW i \in 1 .. 3 PROVE WordOr0(words, length, i) \in Word32
      OBVIOUS
    <3>1. i <= length => i \in 1 .. length
      OBVIOUS
    <3>2. Word(0) \in Word32
      BY WordTyped
    <3>. QED
      BY <3>1, <3>2 DEF WordOr0
  <2>. QED
    BY <1>6, <1>9, <2>1, JhashInitval
<1>11. AddWords(s, x, y, z) = [a |-> Plus(x, J), b |-> Plus(y, J), c |-> Plus(z, J)]
  BY <1>8, <1>10, WordsUndo DEF AddWords
<1>12. length - 3 * m # 0 /\ 3 * m + 1 = 1 /\ 3 * m + 2 = 2 /\ 3 * m + 3 = 3
  BY <1>3
<1>13. FinishWords(g[m], words, length, m) = __jhash_final(AddWords(s, x, y, z)).c
  BY <1>3, <1>5, <1>9, <1>12 DEF FinishWords
<1>14. jhash_3words(x, y, z, J) = __jhash_final(AddWords(s, x, y, z)).c
  BY <1>6, <1>11 DEF jhash_3words
<1>. QED
  BY <1>1, <1>2, <1>6, <1>9, <1>13, <1>14

LEMMA SeedBytes ==
  ASSUME NEW seed \in Nat, NEW num \in Nat
  PROVE  /\ Bytes(num, seed) \in Seq(Byte) /\ Len(Bytes(num, seed)) = num
         /\ \A i \in 1 .. num : Bytes(num, seed)[i] \in Byte
<1>1. \A i \in 1 .. num : (seed + 37 * i * i + 101 * i) % 256 \in Byte
  <2>. SUFFICES ASSUME NEW i \in 1 .. num
                PROVE  (seed + 37 * i * i + 101 * i) % 256 \in Byte
    OBVIOUS
  <2>1. PICK t : t = seed + 37 * i * i + 101 * i
    OBVIOUS
  <2>2. t \in Int
    <3>1. 37 * i * i \in Int /\ 101 * i \in Int
      OBVIOUS
    <3>. QED
      BY <2>1, <3>1
  <2>3. t % 256 \in 0 .. 255
    BY ONLY <2>2
  <2>. QED
    BY <2>1, <2>3 DEF Byte
<1>. QED
  BY <1>1 DEF Bytes

LEMMA SeedWords ==
  ASSUME NEW seed \in Nat, NEW num \in Nat
  PROVE  /\ SameWords(Words(num, seed), Bytes(4 * num, seed), num)
         /\ \A i \in 1 .. num : Words(num, seed)[i] \in Word32
<1>1. SameWords(Words(num, seed), Bytes(4 * num, seed), num)
  BY DEF Words, SameWords
<1>2. PICK N \in Nat : N = 4 * num
  OBVIOUS
<1>3. PICK key : key = Bytes(N, seed)
  OBVIOUS
<1>4. KeyOfBytes(key, N)
  BY <1>3, SeedBytes DEF KeyOfBytes
<1>5. \A k \in Nat : k + 4 <= N => WordAt(key, k) \in Word32
  <2>1. \A k \in Nat : TypedAt(key, N, k)
    BY ONLY N \in Nat, <1>4, BytesTyped
  <2>. QED
    BY ONLY <2>1 DEF TypedAt
<1>6. ASSUME NEW i \in 1 .. num
      PROVE  Words(num, seed)[i] \in Word32
  <2>1. 4 * (i - 1) \in Nat /\ 4 * (i - 1) + 4 <= N
    BY <1>2
  <2>2. WordAt(key, 4 * (i - 1)) \in Word32
    BY <1>5, <2>1
  <2>. QED
    BY <1>2, <1>3, <2>2 DEF Words
<1>. QED
  BY <1>1, <1>6

\* Whatever the seed of the keys: mixing can be undone, words hash like
\* their bytes, and only the key counts.
THEOREM HashesOfEverySeed ==
  ASSUME NEW seed \in Nat
  PROVE  MixIsReversible(seed) /\ WordsHashLikeBytes(seed) /\ OnlyTheKeyCounts(seed)
<1>1. InitVals \in SUBSET Word32
  <2>1. <<65535, 65535>> \in Word32
    <3>1. 65535 \in HalfWord
      BY DEF HalfWord, Half
    <3>. QED
      BY <3>1 DEF Word32
  <2>. QED
    BY <2>1, WordTyped, JhashInitval DEF InitVals
<1>2. MixIsReversible(seed)
  <2>1. Words(1, seed)[1] \in Word32
    BY SeedWords
  <2>. QED
    BY <1>1, <2>1, Triple, MixReversible DEF MixIsReversible
<1>3. WordsHashLikeBytes(seed)
  <2>1. ASSUME NEW num \in 0 .. 7, NEW v \in InitVals
        PROVE  jhash2(Words(num, seed), num, v) = jhash(Bytes(4 * num, seed), 4 * num, v)
    <3>1. num \in Nat
      OBVIOUS
    <3>2. SameWords(Words(num, seed), Bytes(4 * num, seed), num)
      BY <3>1, SeedWords
    <3>. QED
      BY ONLY <3>1, <3>2, WordsHashAsBytes
  <2>2. PICK w : w = Words(3, seed)
    OBVIOUS
  <2>3. w[1] \in Word32 /\ w[2] \in Word32 /\ w[3] \in Word32
    BY <2>2, SeedWords
  <2>4. PICK J : J = JHASH_INITVAL
    OBVIOUS
  <2>5. jhash_1word(w[1], J) = jhash2(w, 1, Minus(Word(0), Word(4)))
    <3>1. WordOr0(w, 1, 1) = w[1] /\ WordOr0(w, 1, 2) = Word(0) /\ WordOr0(w, 1, 3) = Word(0)
      BY DEF WordOr0
    <3>2. \A i \in 1 .. 1 : w[i] \in Word32
      BY <2>3
    <3>3. jhash2(w, 1, Minus(Word(0), Word(4 * 1)))
            = jhash_3words(WordOr0(w, 1, 1), WordOr0(w, 1, 2), WordOr0(w, 1, 3), J)
      BY ONLY <2>4, <3>2, FewWords
    <3>4. 4 * 1 = 4
      OBVIOUS
    <3>. QED
      BY <3>1, <3>3, <3>4 DEF jhash_1word
  <2>6. jhash_2words(w[1], w[2], J) = jhash2(w, 2, Minus(Word(0), Word(8)))
    <3>1. WordOr0(w, 2, 1) = w[1] /\ WordOr0(w, 2, 2) = w[2] /\ WordOr0(w, 2, 3) = Word(0)
      BY DEF WordOr0
    <3>2. \A i \in 1 .. 2 : w[i] \in Word32
      BY <2>3
    <3>3. jhash2(w, 2, Minus(Word(0), Word(4 * 2)))
            = jhash_3words(WordOr0(w, 2, 1), WordOr0(w, 2, 2), WordOr0(w, 2, 3), J)
      BY ONLY <2>4, <3>2, FewWords
    <3>4. 4 * 2 = 8
      OBVIOUS
    <3>. QED
      BY <3>1, <3>3, <3>4 DEF jhash_2words
  <2>7. jhash_3words(w[1], w[2], w[3], J) = jhash2(w, 3, Minus(Word(0), Word(12)))
    <3>1. WordOr0(w, 3, 1) = w[1] /\ WordOr0(w, 3, 2) = w[2] /\ WordOr0(w, 3, 3) = w[3]
      BY DEF WordOr0
    <3>2. \A i \in 1 .. 3 : w[i] \in Word32
      BY <2>3
    <3>3. jhash2(w, 3, Minus(Word(0), Word(4 * 3)))
            = jhash_3words(WordOr0(w, 3, 1), WordOr0(w, 3, 2), WordOr0(w, 3, 3), J)
      BY ONLY <2>4, <3>2, FewWords
    <3>4. 4 * 3 = 12
      OBVIOUS
    <3>. QED
      BY <3>1, <3>3, <3>4
  <2>. QED
    BY <2>1, <2>2, <2>4, <2>5, <2>6, <2>7 DEF WordsHashLikeBytes
<1>4. OnlyTheKeyCounts(seed)
  <2>. SUFFICES ASSUME NEW num \in 0 .. 26
                PROVE  jhash(Bytes(num, seed), num, Word(0))
                         = jhash(Bytes(num, seed) \o Bytes(12, seed + 1), num, Word(0))
    BY DEF OnlyTheKeyCounts
  <2>1. PICK p \in Seq(Byte) : p = Bytes(num, seed)
    BY SeedBytes
  <2>2. PICK q \in Seq(Byte) : q = Bytes(12, seed + 1)
    BY SeedBytes
  <2>3. Len(p) = num
    BY <2>1, SeedBytes
  <2>4. PICK r : r = p \o q
    OBVIOUS
  <2>5. num \in Nat /\ SameKey(p, r, num)
    BY <2>3, <2>4 DEF SameKey
  <2>6. jhash(p, num, Word(0)) = jhash(r, num, Word(0))
    BY ONLY <2>5, OnlyTheKeyIsRead
  <2>. QED
    BY <2>1, <2>2, <2>4, <2>6
<1>. QED
  BY <1>2, <1>3, <1>4

\* With the two published values of lookup3, which are facts of given keys
\* that TLC computes, the hash functions agree as HashesAreExact says.
THEOREM HashesHold ==
  ASSUME AgreesWithLookup3
  PROVE  Spec => []HashesAreExact
<1>1. HashesAreExact
  <2>1. Seeds \in SUBSET Nat
    BY DEF Seeds
  <2>. QED
    BY <2>1, HashesOfEverySeed DEF HashAgrees, HashesAreExact
<1>. QED
  BY <1>1, PTL
=============================================================================
