SPECIFICATION FairSpec
CONSTANTS
  NumInstances = 2
  NumActivities = 2
  StartTime = 0
  EndTime = 2
  Horizon = 2
INVARIANTS
  TypeOK
  AwaitedHeldOnce
  OthersExpired
  CalendarAhead
  NothingDueAtDecision
  EndedComplete
  ForkAgrees
PROPERTIES
  ImplementsTimetable
  EventuallyEnds
CHECK_DEADLOCK FALSE
