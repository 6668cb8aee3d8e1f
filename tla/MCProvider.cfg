SPECIFICATION Spec
CHECK_DEADLOCK FALSE
CONSTANTS
  r1 = r1
  r2 = r2
  m1 = m1
  m2 = m2
  None = None
  Unset = Unset
  Invalid = Invalid
  Service = Service
  Requests <- MCRequests
  Methods <- MCMethods
  MethodOf <- MCMethodOf
  TwoWay <- MCTwoWay
  Confs <- AllConfs
  DefaultInterval = 2
  StepTimeout = 1
  TotalTimeout = 3
  MaxTime = 4
INVARIANTS
  ProviderInv
  ExecuteBound
  FixedWindowBound
  ActiveExact
PROPERTIES
  
  ShutdownEnds
