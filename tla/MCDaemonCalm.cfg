SPECIFICATION Spec
CONSTANTS
  j1 = j1
  j2 = j2
  j3 = j3
  p1 = p1
  p2 = p2
  None = None
  Jobs <- ThreeJobs
  Projects <- TwoProjects
  ProjectOf <- MixedProjects
  Daemons = {d1, d2}
  Recurring <- RecurringPair
  MaxAttempts = 2
  MaxWorkers = 2
  MaxPerProject = 2
  Faults = {"signal"}
SYMMETRY DaemonSymmetry
INVARIANTS
  OneChildPerProject
  ChildrenSupervised
  RecurrenceContinues
