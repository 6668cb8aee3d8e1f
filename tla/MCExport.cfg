SPECIFICATION Spec
CHECK_DEADLOCK FALSE
CONSTANTS
  p1 = p1
  p2 = p2
  x1 = x1
  r1 = r1
  r2 = r2
  None = None
  Protos <- MCProtos
  IDs <- MCIDs
  NameOf <- MCNameOf
  Registries <- MCRegistries
  Services <- MCServices
  Values = {0, 1, 2}
  Base = 0
  Strict <- MCStrict
  MaxRules = 2
  MaxFails = 1
INVARIANTS
  ExportInv
  ServiceIsFound
PROPERTIES
  RuleTakesEffect
