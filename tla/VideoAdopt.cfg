SPECIFICATION Spec
CONSTANTS
  j1 = j1
  j2 = j2
  douyin1 = douyin1
  media1 = media1
  Ids = {j1}
  Urls = {douyin1, media1}
  Tools <- MCTools
  Globbed <- MCGlobbed
  MaxCalls = 1
  Routes = {"jobs"}
  Concurrency = 1
  MaxCrashes = 0
  Never = Never
  NoRecord = NoRecord
  NoCall = NoCall
INVARIANTS
  AdoptedIsComplete
CHECK_DEADLOCK FALSE
