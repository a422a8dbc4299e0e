SPECIFICATION Spec
CONSTANTS
  NDirectives = 2
  firstOnDisk = v1
  Versions = {v1}
  MaxRuns = 1
  MaxOps = 0
CHECK_DEADLOCK FALSE
INVARIANT AtMostOneActive
