SPECIFICATION FairSpec
CONSTANTS
  j1 = j1
  j2 = j2
  douyin1 = douyin1
  media1 = media1
  Ids = {j1, j2}
  Urls = {douyin1, media1}
  Tools <- MCTools
  Globbed <- MCGlobbed
  MaxCalls = 2
  Routes = {"jobs", "download", "audio"}
  Concurrency = 1
  MaxCrashes = 1
  Never = Never
  NoRecord = NoRecord
  NoCall = NoCall
INVARIANTS
  TypeOK
  
PROPERTIES
  JobsEnd
CHECK_DEADLOCK FALSE
