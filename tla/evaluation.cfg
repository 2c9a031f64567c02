SPECIFICATION MCSpec
CONSTANTS
  Evaluated = {"taxi", "transaction_cat"}
  MaxRuns = 2
  MaxAttempts = 2
  Budgets <- BudgetSet
  Faults = {"job", "query", "head", "kill"}
  LandingFaults = {"copy", "spark", "ls", "kill"}
  MaxLandings = 3
  LoopFaults = {"endpoint", "unusable"}
  MaxToolRounds = 3
  MaxTries = 3
CHECK_DEADLOCK FALSE
INVARIANTS
  TypesOK EvalIsUntouched RegisteredHasData AcceptedRunIsComplete
  CallsAreAnswered EvidenceWasSeen
PROPERTIES
  AcceptedIsThere LandedOnce SampleStandsAlone
