SPECIFICATION Spec
CONSTANTS
  w1 = w1
  w2 = w2
  w3 = w3
  k1 = k1
  k2 = k2
  Writers = {w1, w2}
  Keys = {k1, k2}
  AllowEmpty = FALSE
  Overlap = TRUE
  Faults = {}
CHECK_DEADLOCK FALSE
INVARIANTS
  PublishedWasAudited
