SPECIFICATION LossSpec
CONSTANTS
  k1 = k1
  k2 = k2
  h1 = h1
  h2 = h2
  Handlers = {h1, h2}
  Keys = {k1, k2}
  Poison = {k2}
  NoKey = NoKey
  Retention = 2
  MaxSends = 2
  MaxFaults = 0
  MaxCrashes = 0
  MaxLosses = 1
INVARIANTS
  AckedIsDurable
CHECK_DEADLOCK FALSE
