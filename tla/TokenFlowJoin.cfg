SPECIFICATION Spec
CONSTANTS
  Models <- JoinModels
  MaxTokens = 12
  MaxTime = 2
  MaxSignals = 2
INVARIANTS
  JoinsSynchronise
CHECK_DEADLOCK FALSE
