SPECIFICATION Spec
CHECK_DEADLOCK FALSE
CONSTANTS
  p1 = p1
  r1 = r1
  s1 = s1
  Self = Self
  Root = Root
  Providers <- MCProviders
  Refers <- MCRefers
  Subs <- MCSubs
  ChanSize = 1
INVARIANTS
  WatchersInv
PROPERTIES
  ProviderKnown
  CloseEnds
