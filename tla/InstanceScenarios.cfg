SPECIFICATION Spec
CONSTANTS
  Instances = {"a", "b"}
  Nodes <- MCNodes
  Kind <- MCKind
  Parent <- MCParent
  Own <- MCOwn
  Data <- MCData
  ModelGiven <- MCModelGiven
  Tables <- MCTables
  Providers = {"static", "expected", "dynamic", "stochastic"}
  Undefined = Undefined
  Lowest <- MCLowest
  MaxTime = 4
  MaxForks = 2
INVARIANTS
  GivenAgrees
  InstancesExact
PROPERTIES
  ForkKeepsThePast
CHECK_DEADLOCK FALSE
