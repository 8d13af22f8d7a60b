SPECIFICATION Spec
CONSTANTS
  Items <- MCItems
  None = None
  PerPages = {1, 2}
  DefaultPerPage = 3
  MaxPerPage = 3
  MaxItems = 4
  MaxPage = 2
INVARIANTS
  LinksKeepTheQuestion
  WalkGathersAll
  NothingLeftBehind
CHECK_DEADLOCK FALSE
