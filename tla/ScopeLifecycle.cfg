SPECIFICATION FairSpec
CONSTANTS
  Models <- SoundModels
  Instances = 3
  MaxIds = 40
  MaxSignals = 3
INVARIANTS
  TypeOK
  NeverAborts
  NothingDangles
  EventSubProcessesListen
  CompensationsReversed
  InstancesExact
PROPERTIES
  WaitsForCompensation
  EventuallyOver
CHECK_DEADLOCK FALSE
