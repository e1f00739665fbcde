SPECIFICATION Spec
CONSTANTS
  Processes = {d, r, c}
  MaxSize = 2
  KeepLines = 2
  PruneLines = 3
  PageLimit = 2
  MaxEvents = 5
  MaxCrashes = 1
SYMMETRY ProcessSymmetry
INVARIANTS
  LossIsExplained
  PagesAdvance
CHECK_DEADLOCK FALSE
