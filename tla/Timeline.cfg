SPECIFICATION Spec
CONSTANTS
  GeminiInputs <- ReportedChunks
  WhisperInputs <- HeardFragments
  Texts = {1, 2, 3, 4, 5, 6}
  Lengths = {0, 2, 20}
  Slow = 3
  MinDuration = 2
  MaxDuration = 6
  MaxMerge = 6
  MaxGap = 1
  MaxSplit = 8
  MinSplit = 2
INVARIANTS
  TypeOK
  SequentialChunk
  SpokenOnce
  SentenceWithinLimits
  NoDrift
