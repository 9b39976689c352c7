SPECIFICATION PullSpec
CONSTANTS
  Workspaces = {w1, w2}
  Collections = {c1}
  Bookmarks = {b1}
  Groups = {g1}
  NoId = NoId
  MaxSeq = 4
  MaxClock = 0
CHECK_DEADLOCK FALSE
PROPERTIES
  PullIsComplete
