SPECIFICATION Spec
CONSTANTS
  k1 = k1
  k2 = k2
  k3 = k3
  h1 = h1
  h2 = h2
  Handlers = {h1, h2}
  Keys = {k1, k2, k3}
  Poison = {k3}
  NoKey = NoKey
  Retention = 2
  MaxSends = 2
  MaxFaults = 1
  MaxCrashes = 1
INVARIANTS
  TypeOK
  GatewayInvariant
  NeverLost
  OwnRow
  SettledOnce
  ReceivedIsOwned
  RetentionBound
PROPERTIES
  SettledIsFinal
  OldestGoFirst
  KeepsLedger
CHECK_DEADLOCK FALSE
