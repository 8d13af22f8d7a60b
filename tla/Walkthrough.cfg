SPECIFICATION Spec
CONSTANTS
  MaxRuns = 2
  MaxBuilds = 1
  Nothing = Nothing
INVARIANTS
  StatusIsItsOwn
  StatusFollowsPicture
  DocumentIsWhole
CHECK_DEADLOCK FALSE
