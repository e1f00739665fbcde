SPECIFICATION Spec
CONSTANTS
  j1 = j1
  j2 = j2
  j3 = j3
  p1 = p1
  p2 = p2
  None = None
  Jobs <- TwoJobs
  Projects <- OneProject
  ProjectOf <- SharedProject
  Daemons = {d1, d2}
  Recurring <- TwoJobs
  MaxAttempts = 2
  MaxWorkers = 2
  MaxPerProject = 2
  Faults = {"crash", "timeout", "signal"}
SYMMETRY SharedSymmetry
INVARIANTS
  InductiveInvariant
  RunningJobHasWorker
PROPERTIES
  ImplementsLifecycle
