SPECIFICATION Spec
CONSTANTS
  Ids = {1, 2}
  Keys = {"a"}
  NoKey = "none"
  Stored <- MCStored
  Overlong = {}
  Periods = {}
  Pids = {1, 2, 3}
  Hwm = 2
  Refused = {}
  Timeout = 1
  MaxCreates = 3
  MaxRequests = 0
  MaxRestarts = 0
  MaxKills = 0
  Careful = FALSE
  ClockRuns = FALSE
INVARIANTS
  OneProcessPerNode
CHECK_DEADLOCK FALSE
