SPECIFICATION LiveSpec
CONSTANTS
  Workspaces = {w1, w2}
  Collections = {}
  Bookmarks = {}
  Groups = {}
  NoId = NoId
  MaxSeq = 4
  MaxClock = 2
  PlanGrace = 1
  TrashGrace = 1
  Window = 1
  RoundPeriod = 1
CHECK_DEADLOCK FALSE
PROPERTIES
  ExpiredIsPurged
