SPECIFICATION Spec
CONSTANTS
  bronze = bronze
  silver = silver
  LayerNames = {bronze}
  Supported = {bronze}
  Layers <- OneLayer
  MaxAttempts = 2
  ExecuteGenerated = TRUE
  PromoteToWhitelist = FALSE
  HasSpark = TRUE
  MaxRuns = 1
  Faults = {"timeout", "cleanup"}
CHECK_DEADLOCK FALSE
INVARIANTS
  RetryNeverRacesItsJob
