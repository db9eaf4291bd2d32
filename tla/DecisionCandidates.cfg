SPECIFICATION FairSpec
CONSTANTS
  Collaborations <- AllCollaborations
  None = None
  MaxTime = 2
  MaxInstalls = 1
INVARIANTS
  PostedOnce
  SendersExact
  CandidatesExact
  EvaluationsFresh
  ConditionsNoticed
PROPERTIES
  EventuallyServed
CHECK_DEADLOCK FALSE
