SPECIFICATION FairSpec
CONSTANTS
  Jobs = {j1, j2, j3}
  MaxWorkers = 1
  MaxQueue = 1
INVARIANTS ReservedExact OperationsBounded
PROPERTIES ImplementsAdmission EveryCallReturns
CHECK_DEADLOCK FALSE
