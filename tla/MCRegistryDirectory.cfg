SPECIFICATION Spec
CHECK_DEADLOCK FALSE
CONSTANTS
  k1 = k1
  k2 = k2
  p1 = p1
  p2 = p2
  i1 = i1
  i2 = i2
  c1 = c1
  None = None
  Keys <- MCKeys
  Foreign <- MCForeign
  Params <- MCParams
  Ivks <- MCIvks
  Listeners <- MCListeners
  MaxEvents = 3
INVARIANTS
  DirectoryInv
  ListedIsAlive
  FollowsRegistry
PROPERTIES
  Converges
