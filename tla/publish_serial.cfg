SPECIFICATION Spec
CONSTANTS
  w1 = w1
  w2 = w2
  w3 = w3
  k1 = k1
  k2 = k2
  Writers = {w1, w2, w3}
  Keys = {k1, k2}
  AllowEmpty = FALSE
  Overlap = FALSE
  Faults = {"save", "sql", "rows", "kill"}
SYMMETRY Symmetry
CHECK_DEADLOCK FALSE
INVARIANTS
  TypeOK
  PublishedWasAudited
  FailedCheckPublishesNothing
  SuccessWasPublished
PROPERTIES
  DoneIsVisible
  ExistingKeysSurvive
  ImplementsAtomicTable
