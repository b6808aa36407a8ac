--------------------------- MODULE TsnMapHistory ---------------------------
(***************************************************************************)
(* The TSN map with two history variables.  epoch is the TSN that bit 0    *)
(* stands for, as an integer that does not wrap: with it the 32-bit map is *)
(* shown to implement TsnTracker, and what the queries answer is compared  *)
(* with the tracker's state, and the comparison of wrapped TSNs, and of    *)
(* the shorter stream sequence numbers, with the order of what they stand  *)
(* for.  dup_history is what the duplicate array, and its separate count,  *)
(* should tell the next SACK.                                              *)
(***************************************************************************)
EXTENDS TsnMap

CONSTANTS
  SSN_SIGN_BIT,     \* the weight of the top bit of a stream sequence number
  MaxEpoch,         \* bound of the model: how far bit 0 moves
  MaxDupHistory     \* bound of the model: duplicates between two SACKs

ASSUME HistoryAssumption ==
  /\ SSN_SIGN_BIT \in Nat \ {0}
  /\ MaxEpoch \in Nat
  /\ MaxDupHistory \in Nat

\* SSN_lt and SSN_lte are the code of TSN_lt and TSN_lte on uint16_t.
SSN == INSTANCE SerialArith WITH TSN_SIGN_BIT <- SSN_SIGN_BIT

VARIABLES
  epoch,
  dup_history       \* duplicates reported since the last SACK

historyVars == <<vars, epoch, dup_history>>

HInit == Init /\ epoch = 0 /\ dup_history = <<>>

\* Every other operation moves epoch as far, and to the same side, as it
\* moves base_tsn.
BaseMoves ==
  LET d == Diff(base_tsn', base_tsn)
  IN  IF d < TSN_SIGN_BIT THEN d ELSE d - TSNSpace

HInitMap ==
  \E n \in InitialLens, t \in InitialTSNs :
    vlstp_tsnmap_init(n, t) /\ epoch' = t /\ dup_history' = <<>>

HReceive ==
  /\ \/ InitFails
     \/ Mark
     \/ MarkNoMemory
     \/ Skip
     \/ Renege
     \/ vlstp_tsnmap_free
  /\ epoch' = epoch + BaseMoves
  /\ epoch' <= MaxEpoch
  /\ UNCHANGED dup_history

\* With the array full vlstp_tsnmap_mark_dup does nothing.
ReportDup ==
  \E tsn \in ReportedDups :
    /\ mem = "live"
    /\ Len(dup_history) < MaxDupHistory
    /\ \/ vlstp_tsnmap_mark_dup(tsn)
       \/ num_dup_tsns >= VLSTP_MAX_DUP_TSNS /\ UNCHANGED vars
    /\ dup_history' = Append(dup_history, tsn)
    /\ UNCHANGED epoch

TakeDups ==
  /\ vlstp_tsnmap_get_dups
  /\ dup_history' = <<>>
  /\ UNCHANGED epoch

HNext == HInitMap \/ HReceive \/ ReportDup \/ TakeDups

HSpec == HInit /\ [][HNext]_historyVars
-----------------------------------------------------------------------------
(* The refinement mapping.                                                 *)

cum   == epoch - Diff(base_tsn, cumulative_tsn_ack_point)
high  == cum + Span
ahead == {epoch + i : i \in tsn_map}

Tracker ==
  INSTANCE TsnTracker WITH
    Starts <- InitialTSNs,
    Window <- VLSTP_TSN_MAP_SIZE,
    open   <- mem = "live"

\* Every operation on the map does what the tracker does with the unbounded
\* number the TSN stands for: nothing is received that was not marked, no
\* marked TSN is lost by growth, shift, skip or wrap, and the ack point
\* stops exactly before the first missing TSN.
ImplementsTracker == Tracker!Spec
-----------------------------------------------------------------------------
(* The answers of the queries.                                             *)

\* The numbers the receiver can tell apart at this moment.
Horizon == (cum - TSN_SIGN_BIT + 1) .. (cum + TSN_SIGN_BIT - 1)

\* The uint32_t and the uint16_t image of a number.
Wrapped(n) == n % TSNSpace
Short(n)   == n % SSN!TSNSpace

\* However often the ack point has wrapped, comparing it with the TSN of a
\* number less than half the space away, on either side, gives the order of
\* the numbers; exactly half the space away each is less than the other.
TSNsKeepTheOrder ==
  LET ack  == cumulative_tsn_ack_point
      half == Wrapped(cum + TSN_SIGN_BIT)
  IN  /\ \A t \in Horizon :
           /\ TSN_lt(Wrapped(t), ack) <=> t < cum
           /\ TSN_lte(Wrapped(t), ack) <=> t <= cum
           /\ TSN_lt(ack, Wrapped(t)) <=> cum < t
      /\ TSN_lt(ack, half) /\ TSN_lt(half, ack)

\* The same for stream sequence numbers, whose space is smaller.
SSNsKeepTheOrder ==
  \A t \in Horizon :
    t - cum \in (1 - SSN_SIGN_BIT) .. (SSN_SIGN_BIT - 1) =>
      /\ SSN!TSN_lt(Short(t), Short(cum)) <=> t < cum
      /\ SSN!TSN_lte(Short(t), Short(cum)) <=> t <= cum
      /\ SSN!TSN_lt(Short(cum), Short(t)) <=> cum < t

\* Both kinds of serial number can be compared in place of the numbers they
\* stand for: all window tests of tsnmap.c rest on it.
SerialsKeepTheOrder ==
  mem = "live" => TSNsKeepTheOrder /\ SSNsKeepTheOrder

\* vlstp_tsnmap_check answers 1 for what was seen, -1 beyond the window the
\* map can grow to, 0 for what was not yet seen, on both sides of the wrap.
CheckIsExact ==
  mem = "live" =>
    \A t \in Horizon :
      vlstp_tsnmap_check(t % TSNSpace) =
        CASE t <= cum \/ t \in ahead         -> 1
          [] t > cum + VLSTP_TSN_MAP_SIZE    -> -1
          [] OTHER                           -> 0

\* vlstp_tsnmap_pending counts the TSNs that are missing below the highest.
PendingIsExact ==
  mem = "live" =>
    vlstp_tsnmap_pending = Cardinality(((cum + 1) .. high) \ ahead)

\* The maximal runs of received numbers, as offsets from cum.
Runs ==
  {[start |-> htons(r[1]), end |-> htons(r[2])] :
     r \in {q \in (1 .. Span) \X (1 .. Span) :
       /\ q[1] <= q[2]
       /\ \A k \in q[1] .. q[2] : cum + k \in ahead
       /\ cum + q[1] - 1 \notin ahead
       /\ cum + q[2] + 1 \notin ahead}}

\* The gap ack blocks of a SACK are the first VLSTP_MAX_GABS maximal runs
\* of what was received, in order.
GabsAreExact ==
  mem = "live" =>
    LET gabs     == vlstp_tsnmap_num_gabs
        reported == {gabs[i] : i \in 1 .. Len(gabs)}
    IN  /\ reported \subseteq Runs
        /\ Len(gabs) = IF Cardinality(Runs) < VLSTP_MAX_GABS
                       THEN Cardinality(Runs) ELSE VLSTP_MAX_GABS
        /\ \A i, j \in 1 .. Len(gabs) :
             i < j => gabs[i].end.be16 < gabs[j].start.be16
        /\ \A r \in Runs \ reported, b \in reported :
             b.end.be16 < r.start.be16

\* What a SACK says of the gaps follows from what was received alone.
GapReportIsExact == PendingIsExact /\ GabsAreExact

\* The count and the array agree with what was reported: the first
\* VLSTP_MAX_DUP_TSNS duplicates since the last SACK, oldest first.
DupsAreTheFirst ==
  mem = "live" =>
    /\ num_dup_tsns = IF Len(dup_history) < VLSTP_MAX_DUP_TSNS
                      THEN Len(dup_history) ELSE VLSTP_MAX_DUP_TSNS
    /\ \A i \in 0 .. (num_dup_tsns - 1) : dup_tsns[i] = htonl(dup_history[i + 1])
=============================================================================
