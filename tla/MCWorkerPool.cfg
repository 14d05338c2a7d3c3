CONSTANTS
  NumWorkers = 2
  MaxTasks = 4
  MaxAsync = 3
  TERMINATE = TERMINATE
SPECIFICATION Spec
INVARIANT FuturesResolved
PROPERTY CallReturns
CHECK_DEADLOCK FALSE
