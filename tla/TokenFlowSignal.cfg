SPECIFICATION Spec
CONSTANTS
  Models <- SignalModels
  MaxTokens = 12
  MaxTime = 2
  MaxSignals = 2
INVARIANTS
  BoundaryWithdrawn
CHECK_DEADLOCK FALSE
