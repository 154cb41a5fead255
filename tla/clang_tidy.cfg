SPECIFICATION FairSpec
CONSTANTS
  Workers = {w1, w2}
  Entries = 3
CHECK_DEADLOCK FALSE
INVARIANTS
  TidyInv
  StatusTellsFailures
PROPERTIES
  Terminates
