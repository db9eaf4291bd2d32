SPECIFICATION FairSpec
CONSTANTS
  Models <- SoundModels
  MaxTokens = 15
  MaxTime = 2
  MaxSignals = 2
INVARIANTS
  TypeOK
  NeverAborts
  ScopesKept
  BoundaryExact
  JoinsSynchronise
  InclusiveAwaits
  AlternativesWithdrawn
PROPERTIES
  EventuallyOver
CHECK_DEADLOCK FALSE
