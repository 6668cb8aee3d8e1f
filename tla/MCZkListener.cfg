SPECIFICATION Spec
CHECK_DEADLOCK FALSE
CONSTANTS
  n1 = n1
  None = None
  Nodes <- MCNodes
  Mine <- MCMine
  MaxGo = 4
  MaxChanges = 2
  MaxLosses = 1
INVARIANTS
  ListenerInv
PROPERTIES
  LiveAreFound
  CloseEnds
