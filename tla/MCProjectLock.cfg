SPECIFICATION FairSpec
CONSTANTS
  None = None
  Procs = {c1, c2, c3}
INVARIANTS
  ExclusiveUnlessRaced
  NoLockLeaks
PROPERTIES
  DeadLockIsTakenOver
CHECK_DEADLOCK FALSE
