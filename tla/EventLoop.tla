----------------------------- MODULE EventLoop -----------------------------
(***************************************************************************)
(* vlstp_dispatch_event (vlstp/vlstp.c) around the timer list: sleep in    *)
(* select until the first timer is nearly due, then dispatch.  The program *)
(* calls it in a loop; between two calls, and in timer functions, it uses  *)
(* the timer API of module Timer.                                          *)
(***************************************************************************)
EXTENDS Timer

CONSTANTS
  IdleMsecs,     \* how long to sleep when no timer is armed
  SlackMsecs     \* how much earlier than the first expiry to wake

ASSUME EventLoopAssumption == IdleMsecs \in Nat /\ SlackMsecs \in Nat

VARIABLES
  sleeping,      \* "no", "soon": the delay is computed, or "yes": in select
  ms,            \* that delay
  wake,          \* when select returns 0
  late           \* how long after the delay was computed select began

loopVars == <<sleeping, ms, wake, late>>
eventVars == <<timerVars, loopVars>>

EventInit ==
  /\ Init
  /\ sleeping = "no"
  /\ ms = 0
  /\ wake = 0
  /\ late = 0

\* Up to the call of select: the clock is read, and the first expiry.
vlstp_dispatch_event ==
  /\ pc = "idle"
  /\ inited
  /\ sleeping = "no"
  /\ sleeping' = "soon"
  /\ ms' = timer_next_msecs(IdleMsecs, SlackMsecs)
  /\ late' = 0
  /\ UNCHANGED <<timerVars, wake>>

\* The process may have been held up in between.
Select ==
  /\ sleeping = "soon"
  /\ sleeping' = "yes"
  /\ wake' = mtime + ms
  /\ UNCHANGED <<timerVars, ms, late>>

\* select returns 0.  Where the bounded clock stops, it does so whatever is left
\* of the delay.
TimedOut ==
  /\ sleeping = "yes"
  /\ mtime >= wake \/ mtime = MaxTime
  /\ sleeping' = "no"
  /\ ms' = 0
  /\ wake' = 0
  /\ late' = 0
  /\ dispatch_timer

\* select returns -1: a signal handler ran.  Nothing is dispatched.
Interrupted ==
  /\ sleeping = "yes"
  /\ sleeping' = "no"
  /\ ms' = 0
  /\ wake' = 0
  /\ late' = 0
  /\ UNCHANGED timerVars

ProgramRuns == sleeping = "no" /\ Program /\ UNCHANGED loopVars
ClockRuns ==
  /\ Tick
  /\ late' = IF sleeping = "soon" THEN late + 1 ELSE late
  /\ UNCHANGED <<sleeping, ms, wake>>
WalkRuns    == Walk /\ UNCHANGED loopVars
FunctionRuns == Callback /\ UNCHANGED loopVars

EventNext ==
  \/ ProgramRuns
  \/ ClockRuns
  \/ vlstp_dispatch_event
  \/ Select
  \/ TimedOut
  \/ Interrupted
  \/ WalkRuns
  \/ FunctionRuns

EventSpec == EventInit /\ [][EventNext]_eventVars

\* The clock goes on, the program comes back to its event loop, the walk
\* continues and timer functions return; a select that has timed out again
\* and again is not interrupted by a signal every time.
Fairness ==
  /\ WF_eventVars(ClockRuns)
  /\ WF_eventVars(vlstp_dispatch_event)
  /\ WF_eventVars(Select)
  /\ WF_eventVars(WalkRuns)
  /\ SF_eventVars(TimedOut)

FairEventSpec == EventSpec /\ Fairness
-----------------------------------------------------------------------------
\* The loop never sleeps past the first expiry: it wakes at once or before
\* any armed timer is due.  The clock was read before select began; the slack
\* makes up for that, if the process is not held up for longer.
NeverOversleeps ==
  (sleeping = "yes" /\ late <= SlackMsecs) =>
    \A t \in Armed : ms = 0 \/ wake <= expires[t]

Overdue(t) == t \in Armed /\ expires[t] <= mtime

\* A timer function moves the timer that the walk has saved as its next one.
MovesNext ==
  /\ FunctionRuns
  /\ timer1 \in Timer
  /\ expires'[timer1] # expires[timer1]

\* No timer stays overdue for ever: its function is called, or somebody
\* deletes it or moves it, whatever the program and the functions start
\* meanwhile, in the past too.  The code has one exception: a walk follows the
\* timer it has saved as its next one to where a function moves it, and so
\* passes those in between; done in every walk, this starves them.
NoTimerStaysOverdue ==
  \A t \in Timer : []<>~Overdue(t) \/ []<><<MovesNext>>_eventVars
=============================================================================
