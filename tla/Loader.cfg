SPECIFICATION Spec
CONSTANT
  BITS = 6
INVARIANTS
  TypeOK
  CallsIntoLoaded
  ShownNumberTrue
CHECK_DEADLOCK FALSE
