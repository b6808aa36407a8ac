----------------------------- MODULE TimerQueue -----------------------------
(***************************************************************************)
(* What the timer service promises: a set of armed timers, each with the   *)
(* time it is due.  A timer's function runs only while the timer is armed  *)
(* and not before it is due, one function at a time, and the timer is idle *)
(* when its function has returned.                                         *)
(***************************************************************************)
EXTENDS Naturals

CONSTANTS
  Timer,
  NoTimer      \* not a timer

VARIABLES clock, armed, due, running

queueVars == <<clock, armed, due, running>>

Init ==
  /\ clock \in Nat
  /\ armed = {}
  /\ due \in [Timer -> Nat]
  /\ running = NoTimer

\* The time of day goes on, or is set.
Tick ==
  /\ clock' \in Nat
  /\ UNCHANGED <<armed, due, running>>

Arm(t) ==
  /\ UNCHANGED <<clock, running>>
  /\ \A u \in Timer \ {t} : due'[u] = due[u]
  /\ armed' = armed \cup {t}

Disarm(t) ==
  /\ UNCHANGED <<clock, running, due>>
  /\ armed' = armed \ {t}

\* The function of t is called.
Run(t) ==
  /\ running = NoTimer
  /\ running' = t
  /\ t \in armed
  /\ due[t] <= clock
  /\ UNCHANGED <<clock, armed, due>>

\* It has returned; whatever it did to its own timer, the timer is idle.
Finish ==
  /\ running \in Timer
  /\ running' = NoTimer
  /\ UNCHANGED <<clock, due>>
  /\ armed' = armed \ {running}

Next ==
  \/ Tick
  \/ \E t \in Timer : Arm(t) \/ Disarm(t) \/ Run(t)
  \/ Finish

Spec == Init /\ [][Next]_queueVars
=============================================================================
