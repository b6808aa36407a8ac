------------------------------- MODULE Timer -------------------------------
(***************************************************************************)
(* The timer list (vlstp/timer.c, include/timer.h): timers on one circular *)
(* list in the order of their expiry, and dispatch_timer, which walks the  *)
(* list and calls the functions of the timers that have expired.  The      *)
(* functions may use the timer API themselves, so the walk is modelled one *)
(* turn of the loop, and one callback, at a time; the clock runs on.       *)
(***************************************************************************)
EXTENDS ListHead, FiniteSetsExt

CONSTANTS
  Timer,          \* the struct timer_list objects of the program
  timer_list,     \* __timer_sys.timer_list
  MaxTime,        \* bound of the model: the clock stops here
  ClockIsSet,     \* whether somebody sets the clock, back or forward
  CallbackUses    \* what timer functions do with the API: see Callback

ASSUME TimerAssumption ==
  /\ NULL \notin Timer \cup {timer_list}
  /\ timer_list \notin Timer
  /\ IsFiniteSet(Timer)
  /\ MaxTime \in Nat
  /\ ClockIsSet \in BOOLEAN
  /\ CallbackUses \subseteq {"add", "delete_self", "move_other", "overdue",
                             "rearm_self", "delete_other", "delete_next"}

VARIABLES
  mtime,        \* the clock, in milliseconds
  inited,       \* __timer_sys.inited
  heap,         \* next and prev of the list head and of every timer's entry
  expires,
  pc,           \* where dispatch_timer is: "idle", "loop" or "callback"
  now,          \* its local variables
  timer,
  timer1

walkVars == <<pc, now, timer, timer1>>
listVars == <<inited, heap, expires>>
timerVars == <<mtime, listVars, walkVars>>

\* What the clock shows, and what timers are set to: MaxTime + 1 stands for
\* all the times that the bounded clock does not reach.
Times    == 0 .. MaxTime
Expiries == 0 .. (MaxTime + 1)

\* The timers on the list, in its order.
Pending == IF inited THEN Entries(heap, timer_list) ELSE <<>>
Armed   == IF inited THEN OnList(heap, timer_list) ELSE {}

Init ==
  /\ mtime = 0
  /\ inited = FALSE
  /\ heap = Heap([x \in Timer \cup {timer_list} |-> NULL],
                 [x \in Timer \cup {timer_list} |-> NULL])
  /\ expires = [t \in Timer |-> 0]
  /\ pc = "idle"
  /\ now = 0
  /\ timer = timer_list
  /\ timer1 = timer_list
-----------------------------------------------------------------------------
(* The timer API.  The caller is the program between two dispatches or a   *)
(* timer's function.                                                       *)

\* The code compares by the sign of the difference of two longs: the order of
\* the times, because the milliseconds of the time of day do not wrap in the 64
\* bits of the committed build.
time_before(a, b)   == a < b
time_after_eq(a, b) == a >= b

\* Not "on the list": list_del_init leaves an entry that points to itself.
timer_panding(t) == heap.next[t] # NULL

\* Mutants: behind the first later timer; at the end.
internal_add_behind(h, t, exp) ==
  LET list  == Entries(h, timer_list)
      later == {k \in 1 .. Len(list) : time_before(exp[t], exp[list[k]])}
  IN  IF later = {} THEN list_add_tail(h, t, timer_list)
      ELSE list_add(h, t, list[Min(later)])

internal_add_last(h, t, exp) == list_add_tail(h, t, timer_list)

\* In front of the first timer that expires later, else at the end.
internal_add_timer(h, t, exp) ==
  LET list  == Entries(h, timer_list)
      later == {k \in 1 .. Len(list) : time_before(exp[t], exp[list[k]])}
  IN  IF later = {} THEN list_add_tail(h, t, timer_list)
      ELSE list_add(h, t, h.prev[list[Min(later)]])

\* The caller has filled in the fields; setup_timer forgets the links, so
\* it is for timers that are not on the list.
setup_timer(t) ==
  /\ t \notin Armed
  /\ heap' = Heap([heap.next EXCEPT ![t] = NULL], [heap.prev EXCEPT ![t] = NULL])
  /\ UNCHANGED <<inited, expires>>

\* The first call initialises the list.  Nothing checks that the timer is
\* not on the list already: that is the caller's duty.
add_timer(t, e) ==
  /\ t \notin Armed
  /\ expires' = [expires EXCEPT ![t] = e]
  /\ inited' = TRUE
  /\ heap' = internal_add_timer(
               IF inited THEN heap ELSE INIT_LIST_HEAD(heap, timer_list), t, expires')

\* The same expiry on a timer that was added once: returns 1 and does nothing,
\* even if the timer has run or was deleted since.  The entry must have been
\* linked once: detach_timer follows its pointers.
mod_timer(t, e) ==
  /\ timer_panding(t)
  /\ IF expires[t] = e THEN UNCHANGED <<heap, expires>>
     ELSE /\ expires' = [expires EXCEPT ![t] = e]
          /\ heap' = internal_add_timer(list_del_init(heap, t), t, expires')
  /\ UNCHANGED inited

del_timer(t) ==
  /\ heap' = IF timer_panding(t) THEN list_del_init(heap, t) ELSE heap
  /\ UNCHANGED <<inited, expires>>

\* Mutant: looks at the last timer.
timer_last_msecs(idle, slack) ==
  IF list_empty(heap, timer_list) THEN idle
  ELSE LET last == expires[heap.prev[timer_list]]
       IN  IF last > mtime + slack THEN last - mtime - slack ELSE 0

\* The delay until the first timer expires, less a slack, for select; 0 when
\* the difference, taken as signed, is not positive.
timer_next_msecs(idle, slack) ==
  IF list_empty(heap, timer_list) THEN idle
  ELSE LET first == expires[heap.next[timer_list]]
       IN  IF first > mtime + slack THEN first - mtime - slack ELSE 0
-----------------------------------------------------------------------------
(* dispatch_timer.                                                         *)

dispatch_timer ==
  /\ now' = mtime
  /\ timer' = heap.next[timer_list]
  /\ timer1' = heap.next[heap.next[timer_list]]
  /\ pc' = "loop"
  /\ UNCHANGED <<mtime, listVars>>

\* Mutant: a timer is called one unit early.
Expired_early == time_after_eq(now + 1, expires[timer])

Expired == time_after_eq(now, expires[timer])

\* Mutants: the successor of the entry just left; back to the front.
Step_stale(h) ==
  /\ timer' = timer1
  /\ timer1' = h.next[timer]

Step_front(h) ==
  /\ timer' = h.next[timer_list]
  /\ timer1' = h.next[h.next[timer_list]]

\* timer = timer1, and the next timer1 as the links h are.
Step(h) ==
  /\ timer' = timer1
  /\ timer1' = h.next[timer1]

\* The local variables go out of scope.
LoopEnds ==
  /\ pc = "loop"
  /\ timer = timer_list
  /\ pc' = "idle"
  /\ now' = 0
  /\ timer1' = timer_list
  /\ UNCHANGED <<mtime, listVars, timer>>

LoopSkips ==
  /\ pc = "loop"
  /\ timer # timer_list
  /\ ~Expired
  /\ Step(heap)
  /\ UNCHANGED <<mtime, listVars, pc, now>>

LoopCalls ==
  /\ pc = "loop"
  /\ timer # timer_list
  /\ Expired
  /\ pc' = "callback"
  /\ UNCHANGED <<mtime, listVars, now, timer, timer1>>

\* Mutant: the timer stays on the list.
CallReturns_armed ==
  /\ pc = "callback"
  /\ Step(heap)
  /\ pc' = "loop"
  /\ UNCHANGED <<mtime, listVars, now>>

\* The function has returned: only now is its timer taken off the list.
CallReturns ==
  /\ pc = "callback"
  /\ heap' = list_del_init(heap, timer)
  /\ Step(heap')
  /\ pc' = "loop"
  /\ UNCHANGED <<mtime, inited, expires, now>>

\* The expiry a timer function asks for lies ahead, unless it is careless.
CallbackTimes ==
  IF "overdue" \in CallbackUses THEN Expiries ELSE {e \in Expiries : e > mtime}

\* One use of the API by the running function.  The walk's own variables are
\* out of its reach.
Callback ==
  /\ pc = "callback"
  /\ \/ /\ "add" \in CallbackUses
        /\ \E t \in Timer, e \in CallbackTimes : add_timer(t, e)
     \/ /\ "delete_self" \in CallbackUses
        /\ del_timer(timer)
     \/ /\ "move_other" \in CallbackUses
        /\ \E t \in Timer \ {timer}, e \in CallbackTimes : mod_timer(t, e)
     \/ /\ "rearm_self" \in CallbackUses
        /\ \E e \in CallbackTimes : mod_timer(timer, e)
     \/ /\ "delete_other" \in CallbackUses
        /\ \E t \in Timer \ {timer} :
             (t = timer1 => "delete_next" \in CallbackUses) /\ del_timer(t)
  /\ UNCHANGED <<mtime, walkVars>>

\* The program between two dispatches.
Program ==
  /\ pc = "idle"
  /\ \E t \in Timer :
       \/ setup_timer(t)
       \/ del_timer(t)
       \/ \E e \in Expiries : add_timer(t, e) \/ mod_timer(t, e)
  /\ UNCHANGED <<mtime, walkVars>>

Tick ==
  /\ mtime < MaxTime
  /\ mtime' = mtime + 1
  /\ UNCHANGED <<listVars, walkVars>>

\* mtime() is the time of day, which somebody may set.
SetClock ==
  /\ ClockIsSet
  /\ mtime' \in Times
  /\ UNCHANGED <<listVars, walkVars>>

\* A first add_timer must have initialised the list.
Dispatch ==
  /\ pc = "idle"
  /\ inited
  /\ dispatch_timer

Walk == LoopEnds \/ LoopSkips \/ LoopCalls \/ CallReturns

Next == Program \/ Tick \/ SetClock \/ Dispatch \/ Walk \/ Callback

Spec == Init /\ [][Next]_timerVars

\* The walk goes on and the functions it calls return.
FairSpec == Spec /\ WF_timerVars(Walk)
-----------------------------------------------------------------------------
(* Properties.                                                             *)

\* The list stays one closed ring under every interleaving of the walk with
\* the callbacks' uses of the API, the second list_del_init of a timer whose
\* function deleted it included; and an entry that is not on it does not
\* point into it: deleting it again, or starting it again, cannot unlink
\* somebody else.
ListIsClosed ==
  /\ inited => WellLinked(heap, timer_list)
  /\ \A t \in Timer \ Armed :
       heap.next[t] \in {NULL, t} /\ heap.prev[t] = heap.next[t]

\* The list is in the order of expiry: timer_next_msecs looks at the first
\* entry only.
ListIsSorted ==
  LET list == Pending
  IN  \A j, k \in 1 .. Len(list) :
        j < k => expires[list[j]] <= expires[list[k]]

\* list.h promises a walk "safe against removal of list entry": the walk
\* stands on an entry of the list, or at its end, whenever it tests one.
CursorIsOnList ==
  pc = "loop" => timer \in Armed \cup {timer_list}

\* The walk is never led to a timer it has already passed: what is ahead of
\* it is on the list.
NextCursorIsOnList ==
  pc \in {"loop", "callback"} => timer1 \in Armed \cup {timer_list}

\* The functions are called in the order of expiry: no timer that is due
\* earlier is left behind by the walk (when functions set no timer to a time
\* that has passed).
EarliestFirst ==
  [][LoopCalls => \A t \in Armed : expires[timer] <= expires[t]]_timerVars

\* A function starts a timer, or moves it, at a time the walk calls expired.
ArmsOverdue ==
  /\ Callback
  /\ \E t \in Timer :
       /\ t \in Armed'
       /\ t \in Armed => expires'[t] # expires[t]
       /\ time_after_eq(now, expires'[t])

\* Every walk over the list ends, unless functions keep starting timers that
\* have expired already, which the walk then meets: whatever else they start,
\* move or delete.  (The deletion of the timer the walk has saved as its next
\* one is excluded: then the walk does not end.)
WalkEnds ==
  []<><<ArmsOverdue>>_timerVars \/ (pc # "idle" ~> pc = "idle")

Queue ==
  INSTANCE TimerQueue WITH
    NoTimer <- timer_list,
    clock   <- IF pc = "idle" THEN mtime ELSE now,
    armed   <- Armed,
    due     <- expires,
    running <- IF pc = "callback" THEN timer ELSE timer_list

\* A function runs only for a timer that is on the list and has expired by
\* the clock as the walk has read it, however the clock is set meanwhile,
\* and leaves the timer idle.
ImplementsTimerQueue == Queue!Spec
=============================================================================
