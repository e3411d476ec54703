SPECIFICATION FairSpec
CONSTANTS
  N = 8
  MaxThreads = 2
  Threshold = 2
  Values = {0, 1}
INVARIANTS
  TypeOK
  SortedAtEnd
  DisjointWork
  ThreadsCounted
  WorkersBounded
PROPERTIES
  Terminates
CHECK_DEADLOCK FALSE
