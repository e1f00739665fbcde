CONSTANTS
  Null = Null
  Bad = Bad
  Torn = Torn
  MaxCommands = 3
  MaxCorrections = 1
  MaxResumes = 2
  Troubles <- MCTroubles
  RetryThresholds <- MCRetryThresholds
  Limits = {0, 3}
SPECIFICATION Spec
INVARIANTS
  GraphRunsInOrder
  PolicyStopsWhatItNames
  RefusalsAreWholeAndMendable
  ChangesAreValidated
  RecordsSurviveKills
  ReachIsExact
  TroubleIsJudged
CHECK_DEADLOCK FALSE
