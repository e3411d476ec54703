SPECIFICATION Spec
CONSTANTS
  Ids = {1, 2, 3}
  Keys = {"a"}
  NoKey = "none"
  Stored <- MCStored
  Overlong = {}
  Periods = {}
  Pids = {1, 2, 3}
  Hwm = 2
  Refused = {3}
  Timeout = 1
  MaxCreates = 4
  MaxRequests = 0
  MaxRestarts = 1
  MaxKills = 1
  Careful = FALSE
  ClockRuns = TRUE
INVARIANTS
  RepliesNameNodes
  RequestsAddressKnownNodes
  NoCycle
CHECK_DEADLOCK FALSE
