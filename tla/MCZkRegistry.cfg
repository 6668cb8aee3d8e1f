SPECIFICATION Spec
CHECK_DEADLOCK FALSE
CONSTANTS
  k1 = k1
  u1 = u1
  None = None
  Keys <- MCKeys
  Urls <- MCUrls
  MaxLosses = 2
  MaxOps = 1
INVARIANTS
  RegistryInv
PROPERTIES
  Recovers
  DestroyEnds
