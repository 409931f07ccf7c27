SPECIFICATION FairSpec
CONSTANTS
  Lines = 2
  Parts <- TwoLines
  Pairs = 2
  Tries = 2
  Parallel = 1
  MaxRetries = 2
  Concurrency = 2
  Patience = 1
  FailMax = 2
  NoClip = NoClip
  Blank = Blank
  Absent = Absent
  MaxPolls = 1
  MaxRuns = 2
  MaxCrashes = 1
  Nothing = Nothing
INVARIANTS
  TypeOK
  OwnWords
  ClockOnce
  SpendBounded
PROPERTIES
  ClipKept
  RunEnds
CHECK_DEADLOCK FALSE
