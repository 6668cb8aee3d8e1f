SPECIFICATION Spec
CHECK_DEADLOCK FALSE
CONSTANTS
  a1 = a1
  a2 = a2
  x1 = x1
  x2 = x2
  x3 = x3
  x4 = x4
  v1 = v1
  v2 = v2
  s1 = s1
  s2 = s2
  Apps = {a1, a2}
  Instances = {x1, x2, x3, x4}
  Revisions = {v1, v2}
  Services = {s1, s2}
  AppOf <- MCAppOf
  RevisionOf <- MCRevisionOf
  Offers <- MCOffers
  MaxWorkers = 2
  Deployments <- MCDeployments
INVARIANTS
  DiscoveryInv
  SubscriberIsTold
PROPERTIES
  Discovered
