SPECIFICATION FairSpec
CONSTANTS
  j1 = j1
  j2 = j2
  j3 = j3
  p1 = p1
  p2 = p2
  NoJob = NoJob
  Jobs = {j1, j2, j3}
  Procs = {p1}
  Tier <- MixedTier
  Priority <- MixedPriority
  ScoreScale = 10
  FreeLimit = 1
  Top = 2
  FaultKinds = {}
  MaxFaults = 0
PROPERTIES
  PriorityThenFifo
  AcceptedJobsFinish
CHECK_DEADLOCK FALSE
