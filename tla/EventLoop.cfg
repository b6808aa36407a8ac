SPECIFICATION FairEventSpec
CONSTANTS
  NULL = NULL
  timer_list = timer_list
  Timer = {t1, t2, t3}
  MaxTime = 3
  ClockIsSet = FALSE
  CallbackUses = {"add", "delete_self", "move_other"}
  IdleMsecs = 2
  SlackMsecs = 1
INVARIANTS
  NeverOversleeps
PROPERTIES
  EarliestFirst
  NoTimerStaysOverdue
