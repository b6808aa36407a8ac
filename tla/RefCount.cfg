SPECIFICATION FairSpec
CONSTANTS
  Thread = {t1, t2, t3}
  Ref = {r1, r2, r3, r4}
  NULL = NULL
  CountSpace = 5
INVARIANTS
  ReferencesAreCounted
  NoUseAfterFree
PROPERTIES
  UnusedIsDestroyed
CHECK_DEADLOCK FALSE
