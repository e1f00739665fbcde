SPECIFICATION Spec
CONSTANTS
  None = None
  Files = {f1}
  MaxPatches = 1
  MaxCommands = 1
  MaxCorrections = 0
  MaxTotalSteps = 20
  MaxMicroRetries = 0
  Commands = {"resume"}
  Faults = {}
INVARIANT DryRunIsHarmless
CHECK_DEADLOCK FALSE
