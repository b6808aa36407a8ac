----------------------------- MODULE SackReport -----------------------------
(***************************************************************************)
(* A gap ack iterator over the TSN map: started once and asked for block   *)
(* after block, while the map's owner may go on marking, skipping and      *)
(* reneging between two calls.                                             *)
(***************************************************************************)
EXTENDS TsnMap

\* "2*SCTP_TSN_MAP_SIZE must be less than 65535" (tsnmap.h): an offset behind
\* bit 0, stored in 16 bits, lies beyond every map.
ASSUME IteratorAssumption ==
  /\ 2 * VLSTP_TSN_MAP_SIZE <= GapSpace
  /\ TSNSpace % GapSpace = 0

VARIABLES
  iter_start,      \* the iterator's position, NoIter before iter_init
  iter_base        \* history: base_tsn when the iterator was started

iterVars == <<iter_start, iter_base>>
sackVars == <<vars, iterVars>>

NoIter == -1

Block == vlstp_tsnmap_next_gap_ack(iter_start)

SackInit ==
  /\ Init
  /\ iter_start = NoIter
  /\ iter_base = 0

StartIter ==
  /\ mem = "live"
  /\ iter_start' = vlstp_tsnmap_iter_init
  /\ iter_base' = base_tsn
  /\ UNCHANGED vars

\* A call that finds a block moves the iterator, one that finds none does
\* not.
NextBlock ==
  /\ mem = "live"
  /\ iter_start # NoIter
  /\ iter_start' = IF Block = NoBlock THEN iter_start ELSE IterAfter(Block)
  /\ UNCHANGED <<vars, iter_base>>

\* The map starts again: an iterator over the old one is void.
Restart ==
  /\ InitMap \/ vlstp_tsnmap_free
  /\ iter_start' = NoIter
  /\ iter_base' = 0

\* The map moves on under the iterator, by less than half the 16-bit offset
\* space between iter_init and the last call on the iterator.
Receive ==
  /\ Mark \/ MarkNoMemory \/ Skip \/ Renege
  /\ iter_start # NoIter => 2 * Diff(base_tsn', iter_base) < GapSpace
  /\ UNCHANGED iterVars

SackNext ==
  \/ StartIter
  \/ NextBlock
  \/ Restart
  \/ Receive

SackSpec == SackInit /\ [][SackNext]_sackVars
-----------------------------------------------------------------------------
\* A block names received TSNs only, whatever happened to the map since the
\* iterator was started: the sender would drop what it is told has arrived.
BlocksWereReceived ==
  (mem = "live" /\ iter_start # NoIter /\ Block # NoBlock) =>
    \A k \in Block.start .. Block.end :
      /\ vlstp_tsnmap_check(Plus(cumulative_tsn_ack_point, k)) = 1
      /\ k \in 1 .. Span

\* Every block starts at or after the iterator and moves it forward, so the
\* loop that collects the blocks of one SACK names no TSN twice and ends,
\* even while TSNs are marked between its turns.
IterationAdvances ==
  (mem = "live" /\ iter_start # NoIter /\ Block # NoBlock) =>
    /\ ~TSN_lt(Plus(cumulative_tsn_ack_point, Block.start), iter_start)
    /\ TSN_lt(iter_start, IterAfter(Block))

\* What an iterator may rely on: it stands at most the size of the map ahead
\* of bit 0, and bit 0 has left it behind by less than half the 16-bit space.
IteratorIsNear ==
  iter_start # NoIter =>
    /\ mem = "live"
    /\ iter_start \in TSN
    /\ 2 * Diff(base_tsn, iter_base) < GapSpace
    /\ Diff(iter_start, iter_base) <= Diff(base_tsn, iter_base) + VLSTP_TSN_MAP_SIZE

\* The inductive invariant of the map under an iterator.
SackInv ==
  /\ IInv
  /\ iter_base \in TSN
  /\ IteratorIsNear
=============================================================================
