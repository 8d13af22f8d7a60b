SPECIFICATION FeedSpec
CONSTANTS
  k1 = k1
  k2 = k2
  k3 = k3
  k4 = k4
  issues = issues
  comments = comments
  Keys = {k1, k2, k3, k4}
  Events = {issues, comments}
  EventOf <- FeedEventOf
  NoFilter = NoFilter
  Retention = 2
  Limits = {1, 2, 3}
  MaxLimit = 3
  MaxId = 5
PROPERTIES
  NewRowsOnTop
  StatusGoesForward
  ShortAnswerIsComplete
CHECK_DEADLOCK FALSE
