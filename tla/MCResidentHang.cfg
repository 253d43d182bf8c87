SPECIFICATION FairSpec
CONSTANTS
  Requests = {r1, r2}
  MaxPending = 2
  NoJob = NoJob
PROPERTIES TimeoutReturns
CHECK_DEADLOCK FALSE
