SPECIFICATION ReadSpec
CONSTANTS
  c1 = c1
  c2 = c2
  c3 = c3
  u1 = u1
  u2 = u2
  Calls <- ThreeCalls
  Urls <- TwoUrls
  Methods <- Reads
  MaxRetries = 0
  Caching = TRUE
  MaxEntries = 1
  Budget = 3
  MaxEdits = 1
  MaxDeploys = 1
SYMMETRY ReadSymmetry
INVARIANTS
  ClientInvariant
  RouteInvariant
  FreshRead
  NotModifiedIsTrue
CHECK_DEADLOCK FALSE
