CONSTANTS
  NULL = NULL
  Raws <- AllRaws
  MaxRuns = 2
  Faults = {"spark", "rows", "kill"}
SPECIFICATION Spec
CHECK_DEADLOCK FALSE
INVARIANTS
  TypeOK
  BuiltFromOwnRun
  SuccessIsComplete
  ErrorRowSplitsTheTables
  RowsAreAccountedFor
  RejectionIsDeserved
  FactsExtendSilver
  MartsAgreeWithFacts
PROPERTIES
  RerunKeepsCounts
