SPECIFICATION Spec
CONSTANTS
  c1 = c1
  b1 = b1
  s1 = s1
  Callers <- MCCallers
  Beats <- MCBeats
  SrvBeats <- MCSrvBeats
  MaxAttempts = 2
  NoKey = NoKey
INVARIANTS
  ExchangeInv
PROPERTIES
  NoLostWakeup
  CallEnds
  ImplementsRpc
