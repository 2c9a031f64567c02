CONSTANTS
  NULL = NULL
  Raws <- OnlyRetail
  MaxRuns = 1
  Faults = {}
SPECIFICATION Spec
CHECK_DEADLOCK FALSE
INVARIANT VerifierAcceptsTheSlice
