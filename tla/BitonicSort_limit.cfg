SPECIFICATION Spec
CONSTANTS
  N = 4
  MaxThreads = 1
  Threshold = 1
  Values = {0}
INVARIANTS
  WorkersWithinLimit
CHECK_DEADLOCK FALSE
