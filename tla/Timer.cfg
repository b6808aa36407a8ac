SPECIFICATION FairSpec
CONSTANTS
  NULL = NULL
  timer_list = timer_list
  Timer = {t1, t2, t3}
  MaxTime = 1
  ClockIsSet = TRUE
  CallbackUses = {"add", "delete_self", "move_other", "overdue", "rearm_self", "delete_other"}
INVARIANTS
  ListIsClosed
  ListIsSorted
  NextCursorIsOnList
PROPERTIES
  ImplementsTimerQueue
  WalkEnds
