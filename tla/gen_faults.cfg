SPECIFICATION Spec
CONSTANTS
  bronze = bronze
  silver = silver
  LayerNames = {bronze, silver}
  Supported = {bronze, silver}
  Layers <- TwoLayers
  MaxAttempts = 3
  ExecuteGenerated = TRUE
  PromoteToWhitelist = TRUE
  HasSpark = TRUE
  MaxRuns = 1
  Faults = {"endpoint", "malformed_call", "disk", "submit", "timeout", "cancel", "cancelled", "poll", "cleanup", "catalog", "store_read"}
CHECK_DEADLOCK FALSE
INVARIANTS
  TypeOK
  ModelIsToldTheLastError
  LayersInOrder
  FailureIsRecorded
  RetryFindsItsLayersError
PROPERTIES
  PassedNotebookIsStable
  EveryRunEnds
  ImplementsRetryContract
