SPECIFICATION Spec
CHECK_DEADLOCK FALSE
CONSTANTS
  c1 = c1
  c2 = c2
  i1 = i1
  i2 = i2
  None = None
  Calls <- MCCalls
  Ivks <- MCIvks
  Strategies <- AllStrategies
  Retries = 1
  Forks = 2
  FailbackTasks = 1
  Preferred <- MCPreferred
  InZone <- MCInZone
  MaxChanges = 1
INVARIANTS
  ClusterInv
  ReachesEnough
PROPERTIES
  CallEnds
