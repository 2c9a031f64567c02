CONSTANTS
  NULL = NULL
  Raws <- OnlyTransactions
  MaxRuns = 1
  Faults = {}
SPECIFICATION Spec
CHECK_DEADLOCK FALSE
INVARIANT InvalidRowsAreRejected
