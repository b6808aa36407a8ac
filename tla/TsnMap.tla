------------------------------- MODULE TsnMap -------------------------------
(***************************************************************************)
(* The receive-side TSN map (vlstp/tsnmap.c, include/tsnmap.h): which of   *)
(* the TSNs after the Cumulative TSN Ack Point have been received, the     *)
(* gap ack blocks a SACK reports from them, and the duplicate TSNs seen    *)
(* since the last SACK.                                                    *)
(*                                                                         *)
(* One map is modelled, with its life from a zeroed structure to           *)
(* vlstp_tsnmap_free.  The bit array is the set of its set bits, over the  *)
(* words the bitmap operations touch for its length.  What a grown or new  *)
(* map holds before it is written is part of the state, and so is what     *)
(* lies behind the bytes malloc was asked for when those words reach       *)
(* further.                                                                *)
(***************************************************************************)
EXTENDS Sequences, SerialArith, BitArray

CONSTANTS
  BITS_PER_BYTE,
  VLSTP_TSN_MAP_SIZE,    \* largest map, in bits
  VLSTP_MAX_DUP_TSNS,    \* duplicates recorded between two SACKs
  VLSTP_MAX_GABS,        \* gap ack blocks in one SACK
  GapSpace,              \* number of values of uint16_t
  InitialLens,           \* lengths vlstp_tsnmap_init is called with
  InitialTSNs,           \* the peers' initial TSNs
  ReportedDups,          \* TSNs given to vlstp_tsnmap_mark_dup
  ZeroedHeap             \* TRUE: malloc happens to return zeroed storage

ASSUME MapAssumption ==
  /\ BITS_PER_BYTE \in Nat \ {0}
  /\ BITS_PER_LONG % BITS_PER_BYTE = 0
  /\ VLSTP_TSN_MAP_SIZE \in Nat \ {0}
  /\ VLSTP_TSN_MAP_SIZE % BITS_PER_LONG = 0
  /\ GapSpace \in Nat
  /\ VLSTP_TSN_MAP_SIZE < GapSpace
  /\ GapSpace <= TSN_SIGN_BIT
  /\ VLSTP_MAX_DUP_TSNS \in Nat \ {0}
  /\ VLSTP_MAX_GABS \in Nat \ {0}
  /\ InitialLens \subseteq 1 .. VLSTP_TSN_MAP_SIZE
  /\ InitialTSNs \subseteq TSN
  /\ ReportedDups \subseteq TSN
  /\ ZeroedHeap \in BOOLEAN

VARIABLES
  mem,                       \* the pointer tsn_map: NULL, live or freed
  tsn_map,                   \* set bits of the array it points at
  len,
  base_tsn,
  cumulative_tsn_ack_point,
  max_tsn_seen,
  num_dup_tsns,
  dup_tsns                   \* the array, network byte order

seenVars == <<mem, tsn_map, len, base_tsn, cumulative_tsn_ack_point,
              max_tsn_seen>>
dupVars  == <<num_dup_tsns, dup_tsns>>
vars     == <<seenVars, dupVars>>

VLSTP_TSN_MAP_INCREMENT == BITS_PER_LONG

\* The conversions to wire format; what matters is that the host integer
\* and its network-order image are different things.
htonl(t) == [be32 |-> t]
htons(n) == [be16 |-> n]

\* How many bits of a map of n bits malloc(n >> 3) has given it.
Backed(n) == (n \div BITS_PER_BYTE) * BITS_PER_BYTE

\* What a map of n bits may hold in the given bits before they are written.
\* What lies behind its storage is not the map's: it may be anything.
MallocBits(bits, n) == SUBSET {i \in bits : ZeroedHeap => i >= Backed(n)}

Init ==
  /\ mem = "NULL"
  /\ tsn_map = {}
  /\ len = 0
  /\ base_tsn = 0
  /\ cumulative_tsn_ack_point = 0
  /\ max_tsn_seen = 0
  /\ num_dup_tsns = 0
  /\ dup_tsns = [i \in 0 .. (VLSTP_MAX_DUP_TSNS - 1) |-> htonl(0)]
-----------------------------------------------------------------------------
(* Queries: they change nothing.                                           *)

vlstp_tsnmap_has_gap == cumulative_tsn_ack_point # max_tsn_seen

\* Mutant: the window is one TSN too wide.
check_wide(tsn) ==
  IF TSN_lte(tsn, cumulative_tsn_ack_point) THEN 1
  ELSE IF ~TSN_lte(tsn, Plus(base_tsn, VLSTP_TSN_MAP_SIZE)) THEN -1
  ELSE IF Diff(tsn, base_tsn) < len /\ Diff(tsn, base_tsn) \in tsn_map THEN 1
  ELSE 0

\* 1 seen, 0 not yet seen, -1 too far ahead to track.
vlstp_tsnmap_check(tsn) ==
  IF TSN_lte(tsn, cumulative_tsn_ack_point) THEN 1
  ELSE IF ~TSN_lt(tsn, Plus(base_tsn, VLSTP_TSN_MAP_SIZE)) THEN -1
  ELSE IF Diff(tsn, base_tsn) < len /\ Diff(tsn, base_tsn) \in tsn_map THEN 1
  ELSE 0

\* How many TSNs below the highest one seen are missing.
vlstp_tsnmap_pending ==
  LET gap == Diff(max_tsn_seen, base_tsn)
      all == Diff(max_tsn_seen, cumulative_tsn_ack_point)
  IN  IF gap = 0 \/ gap >= len
      THEN all % GapSpace
      ELSE (all - bitmap_weight(tsn_map, gap + 1)) % GapSpace

\* No gap ack block: bit 0 as the start is taken for "not found".
NoBlock == [start |-> 0, end |-> 0]

\* Mutant: the block ends at the first bit behind it.
find_gap_ack_long(off) ==
  LET first == find_next_bit(tsn_map, len, off)
  IN  IF first < len /\ first # 0
      THEN [start |-> first, end |-> find_next_zero_bit(tsn_map, len, first)]
      ELSE NoBlock

\* The first run of set bits at or after off.  A run that reaches the end of
\* the map ends there (the caller's fix-up).
vlstp_tsnmap_find_gap_ack(off) ==
  LET first == find_next_bit(tsn_map, len, off)
  IN  IF first < len /\ first # 0
      THEN [start |-> first,
            end   |-> find_next_zero_bit(tsn_map, len, first) - 1]
      ELSE NoBlock

\* Mutant: every search starts at the front of the map.
next_gap_ack_first(pos) ==
  LET run == vlstp_tsnmap_find_gap_ack(0)
  IN  IF TSN_lte(max_tsn_seen, pos) \/ run.end = 0
      THEN NoBlock
      ELSE [start |-> run.start + 1, end |-> run.end + 1]

\* The next gap ack block for an iterator that stands at TSN pos, as offsets
\* from the Cumulative TSN Ack Point; NoBlock for the return value 0.
vlstp_tsnmap_next_gap_ack(pos) ==
  LET run == vlstp_tsnmap_find_gap_ack(Diff(pos, base_tsn) % GapSpace)
  IN  IF TSN_lte(max_tsn_seen, pos) \/ run.end = 0
      THEN NoBlock
      ELSE [start |-> run.start + 1, end |-> run.end + 1]

vlstp_tsnmap_iter_init == Plus(cumulative_tsn_ack_point, 1)

\* Mutant: the iterator stays on the block's last TSN.
IterAfter_last(b) == Plus(cumulative_tsn_ack_point, b.end)

\* Where the iterator stands after it returned block b.
IterAfter(b) == Plus(cumulative_tsn_ack_point, b.end + 1)

\* One turn of the loop that collects the blocks of a SACK.
GabsTurn(w) ==
  LET b == vlstp_tsnmap_next_gap_ack(w.pos)
  IN  IF b = NoBlock THEN w
      ELSE [blocks |-> Append(w.blocks, [start |-> htons(b.start),
                                         end   |-> htons(b.end)]),
            pos    |-> IterAfter(b)]

GabsAfter[n \in 0 .. VLSTP_MAX_GABS] ==
  IF n = 0 THEN [blocks |-> <<>>, pos |-> vlstp_tsnmap_iter_init]
  ELSE GabsTurn(GabsAfter[n - 1])

\* The blocks a SACK reports: iterate until NoBlock or the SACK is full.
vlstp_tsnmap_num_gabs ==
  IF vlstp_tsnmap_has_gap THEN GabsAfter[VLSTP_MAX_GABS].blocks ELSE <<>>
-----------------------------------------------------------------------------
(* Operations.                                                             *)

\* Mutant: storage that is used again is not zeroed.
init_stale(n, initial_tsn) ==
  /\ \/ /\ mem = "NULL"
        /\ mem' = "live"
        /\ len' = n
        /\ tsn_map' \in MallocBits(0 .. (BitsOfLongs(n) - 1), n)
     \/ /\ mem = "live"
        /\ UNCHANGED <<mem, len, tsn_map>>
  /\ base_tsn' = initial_tsn
  /\ cumulative_tsn_ack_point' = Plus(initial_tsn, -1)
  /\ max_tsn_seen' = cumulative_tsn_ack_point'
  /\ num_dup_tsns' = 0
  /\ UNCHANGED dup_tsns

\* A new map of n bits, a failed malloc (nothing changes), or, when the
\* structure already has storage, that storage zeroed with its length kept.
vlstp_tsnmap_init(n, initial_tsn) ==
  /\ \/ /\ mem = "NULL"
        /\ mem' = "live"
        /\ len' = n
        /\ tsn_map' \in MallocBits(0 .. (BitsOfLongs(n) - 1), n)
     \/ /\ mem = "live"
        /\ tsn_map' = {}
        /\ UNCHANGED <<mem, len>>
  /\ base_tsn' = initial_tsn
  /\ cumulative_tsn_ack_point' = Plus(initial_tsn, -1)
  /\ max_tsn_seen' = cumulative_tsn_ack_point'
  /\ num_dup_tsns' = 0
  /\ UNCHANGED dup_tsns

InitFails == mem = "NULL" /\ UNCHANGED vars

\* Mutants: the increment is not rounded up to whole words; the last word
\* that holds part of the gap is not copied.
grow_ragged(size) ==
  LET inc    == (size - len) + VLSTP_TSN_MAP_INCREMENT
      newlen == IF len + inc < VLSTP_TSN_MAP_SIZE THEN len + inc
                ELSE VLSTP_TSN_MAP_SIZE
  IN  IF size > VLSTP_TSN_MAP_SIZE THEN {} ELSE {[len |-> newlen, bits |-> tsn_map]}

grow_losing(size) ==
  LET inc    == ALIGN(size - len, BITS_PER_LONG) + VLSTP_TSN_MAP_INCREMENT
      newlen == IF len + inc < VLSTP_TSN_MAP_SIZE THEN len + inc
                ELSE VLSTP_TSN_MAP_SIZE
      words  == Diff(max_tsn_seen, cumulative_tsn_ack_point) \div BITS_PER_LONG
  IN  IF size > VLSTP_TSN_MAP_SIZE THEN {}
      ELSE {[len  |-> newlen,
             bits |-> tsn_map \cap (0 .. (words * BITS_PER_LONG - 1))]}

\* What grow may leave when malloc succeeds: the words that hold the gap are
\* copied, the rest is as malloc returned it.  Empty when size is too large.
vlstp_tsnmap_grow(size) ==
  LET inc    == ALIGN(size - len, BITS_PER_LONG) + VLSTP_TSN_MAP_INCREMENT
      newlen == IF len + inc < VLSTP_TSN_MAP_SIZE THEN len + inc
                ELSE VLSTP_TSN_MAP_SIZE
      copied == BitsOfLongs(Diff(max_tsn_seen, cumulative_tsn_ack_point))
      kept   == tsn_map \cap (0 .. (copied - 1))
  IN  IF size > VLSTP_TSN_MAP_SIZE THEN {}
      ELSE {[len |-> newlen, bits |-> kept \cup junk] :
              junk \in MallocBits(copied .. (BitsOfLongs(newlen) - 1), newlen)}

\* The storage mark goes on with: the map as it is when gap fits.
StorageFor(gap) ==
  IF gap < len THEN {[len |-> len, bits |-> tsn_map]}
  ELSE vlstp_tsnmap_grow((gap + 1) % GapSpace)

\* Move the ack point over the bits that are set from the front.
vlstp_tsnmap_update(bits, n, base, ctsn, max) ==
  LET zero_bit == find_first_zero_bit(bits, Diff(max, ctsn) % GapSpace)
  IN  /\ base_tsn' = Plus(base, zero_bit)
      /\ cumulative_tsn_ack_point' = Plus(ctsn, zero_bit)
      /\ tsn_map' = IF zero_bit = 0 THEN bits
                    ELSE bitmap_shift_right(bits, zero_bit, n)

MaxSeen(tsn) == IF TSN_lt(max_tsn_seen, tsn) THEN tsn ELSE max_tsn_seen

\* The next expected TSN of a map without gaps: the bits are not touched.
MarkInOrder ==
  /\ max_tsn_seen' = Plus(max_tsn_seen, 1)
  /\ cumulative_tsn_ack_point' = Plus(cumulative_tsn_ack_point, 1)
  /\ base_tsn' = Plus(base_tsn, 1)

MarkInGap(tsn, gap, store) ==
  /\ max_tsn_seen' = MaxSeen(tsn)
  /\ vlstp_tsnmap_update(store.bits \cup {gap}, store.len, base_tsn,
                         cumulative_tsn_ack_point, max_tsn_seen')

\* Returns 0.  An old TSN is ignored.
vlstp_tsnmap_mark(tsn) ==
  LET gap == Diff(tsn, base_tsn) % GapSpace
  IN  /\ mem = "live"
      /\ IF TSN_lt(tsn, base_tsn) THEN UNCHANGED seenVars
         ELSE \E store \in StorageFor(gap) :
                /\ len' = store.len
                /\ IF ~vlstp_tsnmap_has_gap /\ gap = 0
                   THEN MarkInOrder /\ tsn_map' = store.bits
                   ELSE MarkInGap(tsn, gap, store)
                /\ UNCHANGED mem
      /\ UNCHANGED dupVars

\* Returns -ENOMEM: the map would have to grow and cannot.
MarkFails(tsn) ==
  /\ mem = "live"
  /\ ~TSN_lt(tsn, base_tsn)
  /\ Diff(tsn, base_tsn) % GapSpace >= len
  /\ UNCHANGED vars

\* Mark this TSN and all lower ones as seen.
vlstp_tsnmap_skip(tsn) ==
  LET gap  == Plus(Diff(tsn, base_tsn), 1)
      base == Plus(base_tsn, gap)
      ctsn == Plus(cumulative_tsn_ack_point, gap)
  IN  /\ mem = "live"
      /\ ~TSN_lt(tsn, base_tsn)
      /\ TSN_lt(tsn, Plus(base_tsn, VLSTP_TSN_MAP_SIZE))
      /\ max_tsn_seen' = MaxSeen(tsn)
      /\ IF gap >= len
         THEN /\ tsn_map' = {}
              /\ base_tsn' = base
              /\ cumulative_tsn_ack_point' = ctsn
         ELSE vlstp_tsnmap_update(bitmap_shift_right(tsn_map, gap, len), len,
                                  base, ctsn, max_tsn_seen')
      /\ UNCHANGED <<mem, len, dupVars>>

\* Pretend this TSN was never seen.
vlstp_tsnmap_renege(tsn) ==
  /\ mem = "live"
  /\ ~TSN_lt(tsn, base_tsn)
  /\ TSN_lt(tsn, Plus(base_tsn, len))
  /\ tsn_map' = tsn_map \ {Diff(tsn, base_tsn)}
  /\ UNCHANGED <<mem, len, base_tsn, cumulative_tsn_ack_point, max_tsn_seen,
                 dupVars>>

\* Mutant: one duplicate more than there is room for.
mark_dup_over(tsn) ==
  /\ mem = "live"
  /\ num_dup_tsns <= VLSTP_MAX_DUP_TSNS
  /\ dup_tsns' = [i \in DOMAIN dup_tsns |->
                    IF i = num_dup_tsns THEN htonl(tsn) ELSE dup_tsns[i]]
  /\ num_dup_tsns' = num_dup_tsns + 1
  /\ UNCHANGED seenVars

vlstp_tsnmap_mark_dup(tsn) ==
  /\ mem = "live"
  /\ num_dup_tsns < VLSTP_MAX_DUP_TSNS
  /\ dup_tsns' = [dup_tsns EXCEPT ![num_dup_tsns] = htonl(tsn)]
  /\ num_dup_tsns' = num_dup_tsns + 1
  /\ UNCHANGED seenVars

\* Mutant: the count is not reset.
get_dups_kept ==
  /\ mem = "live"
  /\ UNCHANGED <<num_dup_tsns, dup_tsns, seenVars>>

\* The array is the result; the count starts again.
vlstp_tsnmap_get_dups ==
  /\ mem = "live"
  /\ num_dup_tsns' = 0
  /\ UNCHANGED <<dup_tsns, seenVars>>

\* The pointer keeps its value: the structure is never used again.
vlstp_tsnmap_free ==
  /\ mem = "live"
  /\ mem' = "freed"
  /\ len' = 0
  /\ tsn_map' = {}
  /\ UNCHANGED <<base_tsn, cumulative_tsn_ack_point, max_tsn_seen, dupVars>>
-----------------------------------------------------------------------------
(* A receiver marks a TSN after vlstp_tsnmap_check did not refuse it.  The *)
(* TSN exactly half the space past the ack point is "seen" to check and    *)
(* "ahead" to mark: it is out of any window and a receiver does not meet   *)
(* it.                                                                     *)
Trackable(tsn) ==
  /\ vlstp_tsnmap_check(tsn) >= 0
  /\ Diff(tsn, cumulative_tsn_ack_point) # TSN_SIGN_BIT

Mark == \E tsn \in TSN : Trackable(tsn) /\ vlstp_tsnmap_mark(tsn)

MarkNoMemory == \E tsn \in TSN : Trackable(tsn) /\ MarkFails(tsn)

InitMap == \E n \in InitialLens, t \in InitialTSNs : vlstp_tsnmap_init(n, t)

Skip == \E tsn \in TSN : vlstp_tsnmap_skip(tsn)

Renege == \E tsn \in TSN : vlstp_tsnmap_renege(tsn)

MarkDup == \E tsn \in ReportedDups : vlstp_tsnmap_mark_dup(tsn)

Next ==
  \/ InitMap
  \/ InitFails
  \/ Mark
  \/ MarkNoMemory
  \/ Skip
  \/ Renege
  \/ MarkDup
  \/ vlstp_tsnmap_get_dups
  \/ vlstp_tsnmap_free

Spec == Init /\ [][Next]_vars
-----------------------------------------------------------------------------
(* Properties.                                                             *)

\* The lengths vlstp_tsnmap_init is called with are whole numbers of words,
\* and malloc happens to return zeroed storage: what a map needs to start
\* empty.
WholeWords   == \A n \in InitialLens : n % BITS_PER_LONG = 0
CleanStorage == ZeroedHeap /\ WholeWords

\* Types: no operation moves a bit past the last word that it touches.
TypeOK ==
  /\ mem \in {"NULL", "live", "freed"}
  /\ len \in 0 .. VLSTP_TSN_MAP_SIZE
  /\ tsn_map \subseteq 0 .. (BitsOfLongs(len) - 1)
  /\ base_tsn \in TSN
  /\ cumulative_tsn_ack_point \in TSN
  /\ max_tsn_seen \in TSN
  /\ num_dup_tsns \in 0 .. VLSTP_MAX_DUP_TSNS
  /\ dup_tsns \in [0 .. (VLSTP_MAX_DUP_TSNS - 1) -> [be32 : TSN]]

\* How far the highest TSN seen is ahead of the ack point.
Span == Diff(max_tsn_seen, cumulative_tsn_ack_point)

\* Bit 0 of the array always stands for the TSN after the Cumulative TSN
\* Ack Point: mark, skip and update move the two together.
BaseFollowsAckPoint ==
  mem = "live" => base_tsn = Plus(cumulative_tsn_ack_point, 1)

\* Every TSN between the ack point and the highest one seen has its bit in
\* the map, through growth, skip and wrap: grow copies Span bits, update
\* truncates Span to 16 bits, and both rely on it.
GapFitsMap ==
  mem = "live" => Span <= len

\* The TSN after the ack point is never recorded as received: the map is
\* always fully updated.  vlstp_tsnmap_find_gap_ack takes a block that
\* starts at bit 0 for no block at all, and vlstp_tsnmap_pending does not
\* look at the map when only this TSN is missing.
NextTSNIsMissing ==
  CleanStorage => 0 \notin tsn_map

\* No bit is set for a TSN above the highest one seen: a stale bit left by
\* a copy, a shift or a re-initialisation would acknowledge a TSN nobody
\* sent, as soon as the window reaches it.
NothingBeyondMax ==
  CleanStorage => \A i \in tsn_map : i < Span

\* The words that the bitmap operations read and write for the map all lie in
\* what malloc(len >> 3) returned.  That is so when every map starts with a
\* whole number of words: vlstp_tsnmap_grow must keep it so, up to the cap.
StorageBacksMap ==
  (mem = "live" /\ WholeWords) => BitsOfLongs(len) <= Backed(len)

\* The window of the map is where mark, check and update take it to be,
\* whatever malloc returned, and a grown map has the storage it is used with.
WindowFits == BaseFollowsAckPoint /\ GapFitsMap /\ StorageBacksMap

\* Between two operations the map holds exactly what is ahead of the first
\* missing TSN: nothing that should have moved the ack point, nothing stale.
MapIsUpToDate == NextTSNIsMissing /\ NothingBeyondMax

\* A map that is not in use holds nothing.
UnusedIsEmpty ==
  mem # "live" => tsn_map = {}

\* What StorageBacksMap rests on.
LenIsWholeWords ==
  WholeWords => len % BITS_PER_LONG = 0

\* The inductive invariant: each part needs the others, the type of base_tsn
\* and Span to read a TSN as an offset in the map, the two bounds on the
\* bits to know that update stops at a clear bit.
IInv ==
  /\ TypeOK
  /\ BaseFollowsAckPoint
  /\ GapFitsMap
  /\ LenIsWholeWords
  /\ NextTSNIsMissing
  /\ NothingBeyondMax
  /\ UnusedIsEmpty

\* The ack point never moves back, in serial order, while a map is in use.
AckPointAdvances ==
  [][InitMap \/ TSN_lte(cumulative_tsn_ack_point, cumulative_tsn_ack_point')]_vars

\* vlstp_tsnmap_check answers "0 if the TSN has not yet been seen"
\* (tsnmap.c, test_tsnmap.c "We haven't marked it, so no"): right after
\* vlstp_tsnmap_init nothing in the window has been seen.
NothingSeenAfterInit ==
  [][\A n \in InitialLens, t \in InitialTSNs :
       vlstp_tsnmap_init(n, t) =>
         (\A k \in 0 .. (VLSTP_TSN_MAP_SIZE - 1) :
            vlstp_tsnmap_check(Plus(t, k)) = 0)']_vars
=============================================================================
