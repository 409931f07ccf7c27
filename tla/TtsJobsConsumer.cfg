SPECIFICATION Spec
CONSTANTS
  j1 = j1
  j2 = j2
  j3 = j3
  p1 = p1
  p2 = p2
  NoJob = NoJob
  Jobs = {j1, j2}
  Procs = {p1}
  Tier <- FreeTier
  Priority <- TwoPriority
  ScoreScale = 10
  FreeLimit = 1
  Top = 2
  FaultKinds = {"redis_error"}
  MaxFaults = 1
INVARIANTS
  OneConsumerPerProcess
CHECK_DEADLOCK FALSE
