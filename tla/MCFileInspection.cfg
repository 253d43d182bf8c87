SPECIFICATION FairSpec
CONSTANTS
  MaxOcrPages = 1
  Files = {f1}
  u1 = u1
  u2 = u2
  Users = {u1, u2}
  Uploads <- MCUploads
  ItemLists <- MCItemLists
  MaxRequests = 2
  MaxItems = 2
  MaxWorkers = 1
  MaxQueue = 1
  NoFile = NoFile
INVARIANTS ParsedMeansRead OwnContentOnly DiskInOrder
PROPERTIES EveryAnalysisAnswered
CHECK_DEADLOCK FALSE
