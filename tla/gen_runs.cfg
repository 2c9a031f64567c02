SPECIFICATION Spec
CONSTANTS
  bronze = bronze
  silver = silver
  LayerNames = {bronze}
  Supported = {bronze}
  Layers <- OneLayer
  MaxAttempts = 2
  ExecuteGenerated = TRUE
  PromoteToWhitelist = TRUE
  HasSpark = TRUE
  MaxRuns = 2
  Faults = {"timeout", "cancelled", "catalog", "store_write", "kill"}
CHECK_DEADLOCK FALSE
INVARIANTS
  PassedWasExecuted
  RetryNeverRacesItsJob
  PublishedByThePassedAttempt
  ConversationIsKept
  RecordsFormAHistory
  AdviceIsAFixThatWorked
PROPERTIES
  TornCatalogStopsEverything
