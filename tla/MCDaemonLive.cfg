SPECIFICATION FairSpec
CONSTANTS
  j1 = j1
  j2 = j2
  j3 = j3
  p1 = p1
  p2 = p2
  None = None
  Jobs <- TwoJobs
  Projects <- OneProject
  ProjectOf <- SharedProject
  Daemons = {d1, d2}
  Recurring <- NoJobs
  MaxAttempts = 1
  MaxWorkers = 2
  MaxPerProject = 1
  Faults = {"crash"}
INVARIANTS
  CancellingJobHasWorker
PROPERTIES
  ExecutionEnds
  PendingIsStarted
  ShutdownEnds
