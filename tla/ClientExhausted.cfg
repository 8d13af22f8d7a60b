SPECIFICATION Spec
CONSTANTS
  c1 = c1
  c2 = c2
  u1 = u1
  Calls <- TwoCalls
  Urls <- OneUrl
  Methods <- Reads
  MaxRetries = 0
  Caching = TRUE
  MaxEntries = 1
  Budget = 1
  MaxEdits = 0
PROPERTIES
  ExhaustedBudgetHolds
CHECK_DEADLOCK FALSE
