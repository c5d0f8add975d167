SPECIFICATION FairSpec
CONSTANTS
  Workflows = {w1, w2}
  Initial = {w1}
  Ids = {i1, i2}
  MaxQueue = 2
  None = None
INVARIANTS NoHiddenJobs UniqueSchedule OneInstance
PROPERTIES DeletedInTheEnd
CHECK_DEADLOCK FALSE
