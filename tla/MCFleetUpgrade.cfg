SPECIFICATION MCSpec
CONSTANTS
  NDirectives = 2
  Versions = {v1, v2}
  firstOnDisk = v1
  MaxRuns = 2
  MaxOps = 1
CHECK_DEADLOCK FALSE
INVARIANTS TypeOK OutcomeOwed SucceededMeansInstalled
PROPERTIES SettledStays Settles
