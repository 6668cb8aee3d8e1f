SPECIFICATION Spec
CHECK_DEADLOCK FALSE
CONSTANTS
  t1 = t1
  t2 = t2
  k1 = k1
  n1 = n1
  n2 = n2
  s1 = s1
  s2 = s2
  None = None
  Threads <- MCThreads
  Closers <- MCClosers
  Conns <- MCConns
  Sessions <- MCSessions
  ConnectionNum = 1
INVARIANTS
  GettyClientInv
PROPERTIES
  SelectEnds
  CloseLeavesNothing
