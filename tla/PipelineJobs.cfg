SPECIFICATION Spec
CONSTANTS
  i1 = i1
  i2 = i2
  i3 = i3
  ann = ann
  bob = bob
  k1 = k1
  k2 = k2
  NoUser = NoUser
  Anon = Anon
  NoRecord = NoRecord
  NoTask = NoTask
  Ids = {i1, i2, i3}
  Users = {ann, bob}
  Keys = {k1, k2}
  Requests <- Resubmitted
  Concurrency = 2
  MaxPerUser = 1
  MaxDepth = 3
  DepthWindow = 4
  ScanWindow = 4
  Transcribing = 2
  LastStage = 3
  MaxSubmits = 3
  MaxRestarts = 1
INVARIANTS
  TypeOK
  ConcurrencyRespected
  UserCeiling
  UserCountExact
  RunOnce
PROPERTIES
  CancelBeforeRunSticks
CHECK_DEADLOCK FALSE
