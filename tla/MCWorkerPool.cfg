SPECIFICATION PoolSpec
CONSTANTS
  Projects = {q1, q2, q3}
  Children = {c1, c2, c3}
  None = None
  MaxWorkers = 2
  MaxPending = 4
  MaxWait = 6
SYMMETRY PoolSymmetry
INVARIANTS
  ExecutionsKeepTheirOwn
  BusySlotEnds
  WaitIsBounded
CHECK_DEADLOCK FALSE
