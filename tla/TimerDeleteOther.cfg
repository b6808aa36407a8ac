SPECIFICATION Spec
CONSTANTS
  NULL = NULL
  timer_list = timer_list
  Timer = {t1, t2}
  MaxTime = 2
  ClockIsSet = FALSE
  CallbackUses = {"delete_other", "delete_next"}
INVARIANTS
  CursorIsOnList
