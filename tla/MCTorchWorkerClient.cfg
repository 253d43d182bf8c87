SPECIFICATION FairClientSpec
CONSTANTS
  Requests = {r1, r2}
  MaxPending = 2
  NoJob = NoJob
INVARIANTS PayloadGone OkIsGenuine OwnAnswer
PROPERTIES EveryExecuteReturns ImplementsAdmission
CHECK_DEADLOCK FALSE
