SPECIFICATION Spec
CHECK_DEADLOCK FALSE
CONSTANTS
  d1 = d1
  d2 = d2
  Ids = {d1, d2}
  RetryLimit = 3
  NonFailTimes = 1
  MaxErrors = 1
  MaxPanics = 2
  MaxDays = 1
INVARIANTS
  NothingLost
PROPERTIES
  Reported
