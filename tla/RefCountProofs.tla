--------------------------- MODULE RefCountProofs ---------------------------
(***************************************************************************)
(* For any number of threads and of references: the count is the number of *)
(* references, and no object is used after it was freed.                   *)
(***************************************************************************)
EXTENDS RefCount, FiniteSetTheorems, TLAPS

\* While a reference is left nobody is about to destroy the object; a thread
\* that is about to is the only one, and still finds the object there.
DestroyersAreAlone ==
  /\ Held # {} => mem = "live" /\ buf = "live" /\ Destroyers = {}
  /\ \A t \in Destroyers :
       /\ Held = {} /\ mem = "live"
       /\ \A u \in Destroyers : u = t
       /\ pc[t] # "free" => buf = "live"

\* The inductive invariant.
IInv == TypeOK /\ ReferencesAreCounted /\ DestroyersAreAlone

-----------------------------------------------------------------------------
\* A set of references is finite, and smaller than the count space.
LEMMA RefsAreFew ==
  ASSUME NEW S \in SUBSET Ref
  PROVE  /\ IsFiniteSet(S)
         /\ Cardinality(S) \in Nat
         /\ Cardinality(S) < CountSpace
<1>1. IsFiniteSet(S) /\ Cardinality(S) <= Cardinality(Ref)
  BY FS_Subset, RefCountAssumption
<1>2. Cardinality(S) \in Nat /\ Cardinality(Ref) \in Nat
  BY <1>1, FS_CardinalityType, RefCountAssumption
<1>. QED
  BY <1>1, <1>2, RefCountAssumption

\* A count that stays in its range is incremented and decremented exactly.
LEMMA AtomicsCount ==
  ASSUME NEW n \in Nat, n < CountSpace
  PROVE  /\ n + 1 < CountSpace => vlstp_atomic_inc(n) = n + 1
         /\ n > 0 => vlstp_atomic_dec(n) = n - 1
         /\ vlstp_atomic_inc(n) \in Counts
         /\ vlstp_atomic_dec(n) \in Counts
<1>1. CountSpace \in Nat /\ CountSpace > 1
  BY RefCountAssumption
<1>2. n + 1 < CountSpace => (n + 1) % CountSpace = n + 1
  BY <1>1
<1>3. n > 0 => (n + (CountSpace - 1)) % CountSpace = n - 1
  <2>. SUFFICES ASSUME n > 0
                PROVE  (n + (CountSpace - 1)) % CountSpace = n - 1
    OBVIOUS
  <2>1. n + (CountSpace - 1) = (n - 1) + CountSpace
    BY <1>1
  <2>2. n - 1 \in Nat /\ n - 1 < CountSpace
    BY <1>1
  <2>. QED
    BY <1>1, <2>1, <2>2
<1>4. \A k \in Nat : k % CountSpace \in Counts
  BY <1>1 DEF Counts
<1>5. n + 1 \in Nat /\ n + (CountSpace - 1) \in Nat
  BY <1>1
<1>. QED
  BY <1>2, <1>3, <1>4, <1>5 DEF vlstp_atomic_inc, vlstp_atomic_dec

\* A reference more, or one less, is one count more or less.
LEMMA TakingCounts ==
  ASSUME TypeOK, NEW r \in Ref, NEW t \in Thread, owner[r] = NULL,
         owner' = [owner EXCEPT ![r] = t]
  PROVE  /\ Held' = Held \cup {r}
         /\ Cardinality(Held') = Cardinality(Held) + 1
<1>1. t # NULL
  BY RefCountAssumption
<1>2. Held' = Held \cup {r} /\ r \notin Held
  BY <1>1 DEF Held, TypeOK
<1>3. Held \in SUBSET Ref
  BY DEF Held
<1>. QED
  BY <1>2, <1>3, RefsAreFew, FS_AddElement

LEMMA GivingCounts ==
  ASSUME TypeOK, NEW r \in Ref, owner[r] # NULL,
         owner' = [owner EXCEPT ![r] = NULL]
  PROVE  /\ Held' = Held \ {r}
         /\ Cardinality(Held') = Cardinality(Held) - 1
         /\ Cardinality(Held) > 0
         /\ Cardinality(Held) = 1 <=> Held' = {}
<1>1. Held' = Held \ {r} /\ r \in Held
  BY DEF Held, TypeOK
<1>2. IsFiniteSet(Held) /\ Cardinality(Held) \in Nat
  <2>1. Held \in SUBSET Ref
    BY DEF Held
  <2>. QED
    BY <2>1, RefsAreFew
<1>3. IsFiniteSet(Held') /\ Cardinality(Held') = Cardinality(Held) - 1
  BY <1>1, <1>2, FS_RemoveElement
<1>4. Cardinality(Held') \in Nat /\ (Cardinality(Held') = 0 <=> Held' = {})
  BY <1>3, FS_CardinalityType, FS_EmptySet
<1>. QED
  BY <1>1, <1>2, <1>3, <1>4

-----------------------------------------------------------------------------
LEMMA InitIsSafe == Init => IInv
<1>. SUFFICES ASSUME Init
              PROVE  IInv
  OBVIOUS
<1>1. TypeOK
  BY RefCountAssumption DEF Init, TypeOK, Counts
<1>2. Held = {} /\ Destroyers = {}
  BY DEF Init, Held, Destroyers
<1>. QED
  BY <1>1, <1>2 DEF IInv, Init, ReferencesAreCounted, DestroyersAreAlone

LEMMA NewStep ==
  ASSUME IInv, NEW t \in Thread, NEW r \in Ref, typedobj_new(t, r)
  PROVE  IInv'
<1>. USE DEF IInv, typedobj_new, objbase_init
<1>1. TypeOK'
  BY RefCountAssumption DEF TypeOK, Counts
<1>2. Held = {} /\ Destroyers = {}
  BY DEF DestroyersAreAlone
<1>3. Held' = Held \cup {r} /\ Cardinality(Held') = Cardinality(Held) + 1
  BY TakingCounts
<1>4. Cardinality(Held) = 0
  BY <1>2, FS_EmptySet
<1>5. ReferencesAreCounted'
  BY <1>3, <1>4 DEF ReferencesAreCounted
<1>6. Destroyers' = {}
  BY <1>2 DEF Destroyers
<1>7. DestroyersAreAlone'
  BY <1>6 DEF DestroyersAreAlone
<1>. QED
  BY <1>1, <1>5, <1>7

LEMMA AddRefStep ==
  ASSUME IInv, NEW t \in Thread, NEW r \in Ref, objbase_addref(t, r)
  PROVE  IInv'
<1>. USE DEF IInv, objbase_addref
<1>1. refcnt \in Nat /\ refcnt < CountSpace
  BY RefCountAssumption DEF TypeOK, Counts
<1>2. TypeOK'
  BY <1>1, AtomicsCount DEF TypeOK
<1>3. Held # {}
  BY RefCountAssumption DEF Held
<1>4. mem = "live" /\ buf = "live" /\ Destroyers = {}
  BY <1>3 DEF DestroyersAreAlone
<1>5. Held' = Held \cup {r} /\ Cardinality(Held') = Cardinality(Held) + 1
  BY TakingCounts
<1>6. Cardinality(Held') < CountSpace
  <2>1. Held' \in SUBSET Ref
    BY DEF Held
  <2>. QED
    BY <2>1, RefsAreFew
<1>7. refcnt = Cardinality(Held)
  BY <1>4 DEF ReferencesAreCounted
<1>8. ReferencesAreCounted'
  BY <1>1, <1>5, <1>6, <1>7, AtomicsCount DEF ReferencesAreCounted
<1>9. Destroyers' = {}
  BY <1>4 DEF Destroyers
<1>10. DestroyersAreAlone'
  BY <1>4, <1>9 DEF DestroyersAreAlone
<1>. QED
  BY <1>2, <1>8, <1>10

LEMMA HandOverStep ==
  ASSUME IInv, NEW t \in Thread, NEW r \in Ref, HandOver(t, r)
  PROVE  IInv'
<1>. USE DEF IInv, HandOver
<1>1. PICK u \in Thread : owner' = [owner EXCEPT ![r] = u]
  OBVIOUS
<1>2. TypeOK'
  BY <1>1 DEF TypeOK
<1>3. t # NULL /\ u # NULL
  BY RefCountAssumption
<1>4. Held' = Held
  BY <1>1, <1>3 DEF Held, TypeOK
<1>5. Destroyers' = Destroyers
  BY DEF Destroyers
<1>. QED
  BY <1>2, <1>4, <1>5 DEF ReferencesAreCounted, DestroyersAreAlone

LEMMA ReleaseStep ==
  ASSUME IInv, NEW t \in Thread, NEW r \in Ref, objbase_release(t, r)
  PROVE  IInv'
<1>. USE DEF IInv, objbase_release
<1>1. refcnt \in Nat /\ refcnt < CountSpace
  BY RefCountAssumption DEF TypeOK, Counts
<1>2. TypeOK'
  BY <1>1, AtomicsCount DEF TypeOK
<1>3. owner[r] # NULL
  BY RefCountAssumption
<1>4. mem = "live" /\ buf = "live" /\ Destroyers = {}
  BY <1>3 DEF DestroyersAreAlone, Held
<1>5. /\ Cardinality(Held') = Cardinality(Held) - 1
      /\ Cardinality(Held) > 0
      /\ Cardinality(Held) = 1 <=> Held' = {}
  BY <1>3, GivingCounts
<1>6. refcnt = Cardinality(Held)
  BY <1>4 DEF ReferencesAreCounted
<1>7. refcnt' = refcnt - 1
  BY <1>1, <1>5, <1>6, AtomicsCount
<1>8. ReferencesAreCounted'
  BY <1>5, <1>6, <1>7 DEF ReferencesAreCounted
<1>9. count'[t] = 0 <=> Held' = {}
  BY <1>1, <1>5, <1>6, <1>7 DEF TypeOK
<1>10. Destroyers' = IF Held' = {} THEN {t} ELSE {}
  BY <1>4, <1>9 DEF Destroyers, TypeOK
<1>11. DestroyersAreAlone'
  BY <1>4, <1>10 DEF DestroyersAreAlone
<1>. QED
  BY <1>2, <1>8, <1>11

LEMMA FinishStep ==
  ASSUME IInv, NEW t \in Thread, Finish(t)
  PROVE  IInv'
<1>. USE DEF IInv
<1>1. CASE Test(t)
  <2>. USE <1>1 DEF Test, IsLast
  <2>1. TypeOK'
    BY DEF TypeOK
  <2>2. Held' = Held
    BY DEF Held
  <2>3. Destroyers' = Destroyers
    BY DEF Destroyers, TypeOK
  <2>4. \A u \in Destroyers : pc'[u] # "free" => pc[u] # "free"
    BY DEF TypeOK, Destroyers
  <2>5. DestroyersAreAlone'
    BY <2>2, <2>3, <2>4 DEF DestroyersAreAlone
  <2>. QED
    BY <2>1, <2>2, <2>5 DEF ReferencesAreCounted
<1>2. CASE FreeBuf(t)
  <2>. USE <1>2 DEF FreeBuf
  <2>1. TypeOK'
    BY DEF TypeOK
  <2>2. Held' = Held
    BY DEF Held
  <2>3. t \in Destroyers
    BY DEF Destroyers
  <2>4. Held = {} /\ mem = "live" /\ Destroyers = {t}
    BY <2>3 DEF DestroyersAreAlone
  <2>5. Destroyers' = Destroyers
    BY <2>3 DEF Destroyers, TypeOK
  <2>6. pc'[t] = "free"
    BY DEF TypeOK
  <2>7. DestroyersAreAlone'
    BY <2>2, <2>4, <2>5, <2>6 DEF DestroyersAreAlone
  <2>. QED
    BY <2>1, <2>2, <2>7 DEF ReferencesAreCounted
<1>3. CASE FreeObj(t)
  <2>. USE <1>3 DEF FreeObj
  <2>1. TypeOK'
    BY DEF TypeOK
  <2>2. Held' = Held
    BY DEF Held
  <2>3. t \in Destroyers
    BY DEF Destroyers
  <2>4. Held = {} /\ Destroyers = {t}
    BY <2>3 DEF DestroyersAreAlone
  <2>5. Destroyers' = {}
    BY <2>4 DEF Destroyers, TypeOK
  <2>6. DestroyersAreAlone'
    BY <2>2, <2>4, <2>5 DEF DestroyersAreAlone
  <2>. QED
    BY <2>1, <2>6 DEF ReferencesAreCounted
<1>. QED
  BY <1>1, <1>2, <1>3 DEF Finish

-----------------------------------------------------------------------------
\* The count is that of the references, and whoever destroys is alone, at
\* every step of every number of threads.
THEOREM CountsInvariant == Spec => []IInv
<1>1. IInv /\ [Next]_vars => IInv'
  <2>. SUFFICES ASSUME IInv, [Next]_vars
                PROVE  IInv'
    OBVIOUS
  <2>1. CASE UNCHANGED vars
    BY <2>1 DEF vars, IInv, TypeOK, ReferencesAreCounted, DestroyersAreAlone,
                Held, Destroyers
  <2>2. CASE Next
    <3>1. PICK t \in Thread :
            \/ \E r \in Ref :
                 \/ typedobj_new(t, r)
                 \/ objbase_addref(t, r)
                 \/ HandOver(t, r)
                 \/ objbase_release(t, r)
            \/ Finish(t)
      BY <2>2 DEF Next
    <3>. QED
      BY <3>1, NewStep, AddRefStep, HandOverStep, ReleaseStep, FinishStep
  <2>. QED
    BY <2>1, <2>2
<1>. QED
  BY InitIsSafe, <1>1, PTL DEF Spec

\* The count of a living object is the number of references to it.
THEOREM CountsAreExact == Spec => []ReferencesAreCounted
<1>1. IInv => ReferencesAreCounted
  BY DEF IInv
<1>. QED
  BY CountsInvariant, <1>1, PTL

\* Whoever has a reference, or destroys, finds the object there, and the one
\* that destroys is alone.
THEOREM NobodyUsesFreedMemory == Spec => []NoUseAfterFree
<1>1. IInv => NoUseAfterFree
  <2>. SUFFICES ASSUME IInv
                PROVE  NoUseAfterFree
    OBVIOUS
  <2>1. \A t \in Thread : pc[t] \in {"destroy", "free"} => t \in Destroyers
    BY DEF Destroyers
  <2>. QED
    BY <2>1 DEF IInv, DestroyersAreAlone, NoUseAfterFree
<1>. QED
  BY CountsInvariant, <1>1, PTL
=============================================================================
