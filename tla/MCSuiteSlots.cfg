SPECIFICATION FairSpec
CONSTANTS
  r1 = r1
  r2 = r2
  r3 = r3
  p = p
  none = none
  Runs <- MCRuns
  Projects <- MCProjects
  NoProject <- none
  Assignments <- MCAssignments
  Cpus = 2
  Settings = {0, 2}
  MaxOps = 2
INVARIANTS TypeOK SlotsCounted NoIdleSlot
PROPERTIES WithinLimit ExclusiveAlone EveryRunEnds
CHECK_DEADLOCK FALSE
