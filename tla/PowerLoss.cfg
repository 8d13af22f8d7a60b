SPECIFICATION FairLossSpec
CONSTANTS
  k1 = k1
  k2 = k2
  h1 = h1
  h2 = h2
  Handlers = {h1, h2}
  Keys = {k1, k2}
  Poison = {k2}
  NoKey = NoKey
  Retention = 1
  MaxSends = 2
  MaxFaults = 1
  MaxCrashes = 0
  MaxLosses = 1
INVARIANTS
  SettledOnceAfterLoss
PROPERTIES
  DeliverySettles
  RequestAnswered
CHECK_DEADLOCK FALSE
