SPECIFICATION FairSpec
CONSTANTS
  c1 = c1
  c2 = c2
  u1 = u1
  Calls <- TwoCalls
  Urls <- OneUrl
  Methods <- AllMethods
  MaxRetries = 1
  Caching = TRUE
  MaxEntries = 1
  Budget = 2
  MaxEdits = 1
INVARIANTS
  ClientInvariant
  CreatedOnce
  WriteAnswerIsTrue
PROPERTIES
  CallEnds
CHECK_DEADLOCK FALSE
