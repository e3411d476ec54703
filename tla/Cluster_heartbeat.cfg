SPECIFICATION FairSpec
CONSTANTS
  Ids = {1, 2}
  Keys = {"a"}
  NoKey = "none"
  Stored <- MCStored
  Overlong = {}
  Periods = {1}
  Pids = {1, 2, 3}
  Hwm = 1
  Refused = {2}
  Timeout = 0
  MaxCreates = 2
  MaxRequests = 1
  MaxRestarts = 1
  MaxKills = 1
  Careful = TRUE
  ClockRuns = TRUE
PROPERTIES
  DeadNodeReported
  BeatingNodeHeard
  EndsExplained
  EveryRequestSettled
CHECK_DEADLOCK FALSE
