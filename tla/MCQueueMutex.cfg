SPECIFICATION FairSpec
CONSTANTS
  None = None
  Procs = {c1, c2, c3}
  MaxTx = 1
INVARIANTS
  ExclusiveUnlessStolen
  UpdatesSurviveUnlessStolen
PROPERTIES
  DeadLockIsRecovered
CHECK_DEADLOCK FALSE
