SPECIFICATION FairSpec
CONSTANTS
  Ids = {1, 2}
  Keys = {"a", "long", "tail"}
  NoKey = "none"
  Stored <- MCStored
  Overlong = {"long"}
  Periods = {}
  Pids = {1, 2}
  Hwm = 2
  Refused = {}
  Timeout = 1
  MaxCreates = 2
  MaxRequests = 3
  MaxRestarts = 0
  MaxKills = 1
  Careful = TRUE
  ClockRuns = FALSE
INVARIANTS
  TypeOK
  AckedWritesKept
  AnswersAwaited
PROPERTIES
  ReadsSeeAckedWrites
  EveryRequestAnswered
CHECK_DEADLOCK FALSE
