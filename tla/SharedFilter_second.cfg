SPECIFICATION Spec
CONSTANTS
  Lines = 2
  MaxCrashes = 0
  MaxRestarts = 0
INVARIANTS
  AllLinesWritten
CHECK_DEADLOCK FALSE
