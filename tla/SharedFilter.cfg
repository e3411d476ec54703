SPECIFICATION FairSpec
CONSTANTS
  Lines = 3
  MaxCrashes = 2
  MaxRestarts = 1
INVARIANTS
  TypeOK
  NoTornLine
  LastLineWritten
  NamesFollowRuns
PROPERTIES
  Splits
  EverybodyEnds
CHECK_DEADLOCK FALSE
