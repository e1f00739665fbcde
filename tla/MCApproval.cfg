SPECIFICATION Spec
CONSTANTS
  None = None
  MaxPasses = 2
  MaxDrift = 1
  MaxKills = 2
INVARIANTS
  ApprovalInvariant
PROPERTIES
  StoppedNeedsGrant
CHECK_DEADLOCK FALSE
