SPECIFICATION CleanupSpec
CONSTANTS
  Workspaces = {w1, w2}
  Collections = {c1}
  Bookmarks = {b1}
  Groups = {}
  NoId = NoId
  MaxSeq = 4
  MaxClock = 3
  PlanGrace = 1
  TrashGrace = 1
  Window = 1
  RoundPeriod = 1
CHECK_DEADLOCK FALSE
PROPERTIES
  NoOrphanByCleanup
