SPECIFICATION FairSpec
CONSTANTS
  Lines = 4
  Capacity = 2
  MaxFailures = 1
INVARIANTS
  TypeOK
  NothingLost
  BrokenOnlyByFailure
PROPERTIES
  Splits
  EverybodyEnds
CHECK_DEADLOCK FALSE
