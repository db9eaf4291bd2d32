SPECIFICATION Spec
CONSTANTS
  Models <- FailureModels
  MaxTokens = 12
  MaxTime = 2
  MaxSignals = 2
INVARIANTS
  NeverAborts
CHECK_DEADLOCK FALSE
