SPECIFICATION Spec
CONSTANTS
  bronze = bronze
  silver = silver
  LayerNames = {bronze}
  Supported = {bronze}
  Layers <- OneLayer
  MaxAttempts = 2
  ExecuteGenerated = TRUE
  PromoteToWhitelist = TRUE
  HasSpark = TRUE
  MaxRuns = 1
  Faults = {}
CHECK_DEADLOCK FALSE
INVARIANTS
  CatalogedNotebookHasPassed
