SPECIFICATION Spec
CONSTANTS
  NDirectives = 1
  firstOnDisk = v1
  Versions = {v1, v2}
  MaxRuns = 1
  MaxOps = 1
CHECK_DEADLOCK FALSE
PROPERTY ReplayTruth
