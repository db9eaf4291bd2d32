SPECIFICATION FairSpec
CONSTANTS
  a = a
  b = b
  c = c
  adhoc1 = adhoc1
  adhoc2 = adhoc2
  None = None
  Tokens <- MCTokens
  Scopes <- MCScopes
  ScopeOf <- MCScopeOf
INVARIANTS
  TypeOK
  MutualExclusion
  HeldByBusy
  RequestedIffIdle
  ListedOnce
PROPERTY NoStarvation
CHECK_DEADLOCK FALSE
