SPECIFICATION AnyForkSpec
CONSTANTS
  NumInstances = 1
  NumActivities = 1
  StartTime = 0
  EndTime = 3
  Horizon = 3
INVARIANT NoInstanceLost
CHECK_DEADLOCK FALSE
