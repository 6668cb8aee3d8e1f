SPECIFICATION Spec
CHECK_DEADLOCK FALSE
CONSTANTS
  i1 = i1
  i2 = i2
  i3 = i3
  e1 = e1
  e2 = e2
  e3 = e3
  r1 = r1
  None = None
  Invokers <- MCInvokersTwo
  Clients <- MCClients
  Requests <- MCRequests
  Retries = 2
  Width = 4
INVARIANTS
  ClientsInv
  DrainedBeforeClose
PROPERTIES
  InvokersSettle
