----------------------------- MODULE TsnTracker -----------------------------
(***************************************************************************)
(* What a TSN map promises, without widths, words or bit arrays: sequence  *)
(* numbers are integers that never wrap, what was received is a set.       *)
(* Everything up to cum has been received or skipped; ahead is what was    *)
(* received beyond it; high is the highest number ever seen.               *)
(***************************************************************************)
EXTENDS Integers, FiniteSets

CONSTANTS
  Starts,      \* numbers a peer may start from, a set of integers
  Window       \* how far past cum the tracker accepts a number, a natural

VARIABLES open, cum, high, ahead

trackerVars == <<open, cum, high, ahead>>

Accepted == (cum + 1) .. (cum + Window)

\* The last number of the unbroken run of s that follows c.
EndOfRun(c, s) ==
  CHOOSE n \in c .. (c + Cardinality(s)) :
    /\ (c + 1) .. n \subseteq s
    /\ n + 1 \notin s

\* c is acknowledged and s is what was received after it.
Settle(c, s) ==
  /\ cum' = EndOfRun(c, s)
  /\ ahead' = {t \in s : t > EndOfRun(c, s)}

Seen(t) == high' = IF t > high THEN t ELSE high

Init ==
  /\ open = FALSE
  /\ cum = 0
  /\ high = 0
  /\ ahead = {}

Open(t) ==
  /\ open' = TRUE
  /\ cum' = t - 1
  /\ high' = t - 1
  /\ ahead' = {}

Receive(t) ==
  /\ open
  /\ Seen(t)
  /\ Settle(cum, ahead \cup {t})
  /\ UNCHANGED open

\* t and everything before it will never be sent again.
SkipTo(t) ==
  /\ open
  /\ Seen(t)
  /\ Settle(t, {a \in ahead : a > t})
  /\ UNCHANGED open

\* Something received beyond cum was thrown away.
Forget(t) ==
  /\ open
  /\ ahead' = ahead \ {t}
  /\ UNCHANGED <<open, cum, high>>

Close ==
  /\ open
  /\ open' = FALSE
  /\ ahead' = {}
  /\ UNCHANGED <<cum, high>>

Next ==
  \/ \E t \in Starts : Open(t)
  \/ \E t \in Accepted : Receive(t) \/ SkipTo(t) \/ Forget(t)
  \/ Close

Spec == Init /\ [][Next]_trackerVars
=============================================================================
