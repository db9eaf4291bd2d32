SPECIFICATION Spec
CONSTANTS
  Collaborations <- OnlyOrders
  None = None
  MaxTime = 0
  MaxInstalls = 1
INVARIANT CopyFindsMessages
CHECK_DEADLOCK FALSE
