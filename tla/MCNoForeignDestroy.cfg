SPECIFICATION Spec
CONSTANTS
  NEvents = 2
  Orgs = {acme, cglab}
  Pending = Pending
  NoOrg = NoOrg
  Gone = Gone
  Flushers = {f1, f2}
  BatchSize = 1
  HaltAfter = 2
  OutboxCap = 1
  PruneSlack = 0
  PruneWindow = 2
  MaxFaults = 2
  MaxOps = 1
CHECK_DEADLOCK FALSE
PROPERTY NoForeignDestroy
