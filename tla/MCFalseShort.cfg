SPECIFICATION PageSpec
CONSTANTS
  p1 = p1
  p2 = p2
  s1 = s1
  People = {p1, p2}
  Shared = {s1}
  Ids <- MCIds
  CacheFor = 2
  Nothing = Nothing
  MaxOwed = 2
  MaxCommandsLanded = 4
  MaxClock = 2
INVARIANTS
  NoFalseAlarm
CHECK_DEADLOCK FALSE
