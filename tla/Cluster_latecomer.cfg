SPECIFICATION FairSpec
CONSTANTS
  Ids = {1, 2}
  Keys = {"a"}
  NoKey = "none"
  Stored <- MCStored
  Overlong = {}
  Periods = {1}
  Pids = {1, 2}
  Hwm = 2
  Refused = {}
  Timeout = 0
  MaxCreates = 2
  MaxRequests = 1
  MaxRestarts = 0
  MaxKills = 0
  Careful = TRUE
  ClockRuns = TRUE
PROPERTIES
  EveryNodeBeats
CHECK_DEADLOCK FALSE
