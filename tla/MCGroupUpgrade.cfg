SPECIFICATION FairSpec
CONSTANTS
  t1 = t1
  t2 = t2
  Machines = {m1}
  Replicas = {t1, t2}
  MaxCancelAttempts = 2
  Scenarios <- MCScenarios
INVARIANTS TypeOK BoardTrue StoppedStays
PROPERTIES FannedOutOnce ClosedStays BoardConverges CancelAnswered FlowAnswered
CHECK_DEADLOCK FALSE
