SPECIFICATION Spec
CONSTANTS
  None = None
  Files = {f1, f2}
  MaxPatches = 2
  MaxCommands = 2
  MaxCorrections = 1
  MaxTotalSteps = 6
  MaxMicroRetries = 1
  Commands = {"resume", "apply", "replay"}
  Faults = {"kill", "write", "edit"}
SYMMETRY FileSymmetry
INVARIANTS
  PipelineInvariant
  AppliedOnce
  AppliedWhole
  OnlyApprovedIsApplied
  SuccessMeansApproved
  RefusedPatchIsUndone
PROPERTIES
  DryRunWritesNothing
  CommandsRunOut
CHECK_DEADLOCK FALSE
