SPECIFICATION PullSpec
CONSTANTS
  Workspaces = {w1, w2}
  Collections = {c1}
  Bookmarks = {b1}
  Groups = {g1}
  NoId = NoId
  MaxSeq = 4
  MaxClock = 0
SYMMETRY IdSymmetry
CHECK_DEADLOCK FALSE
INVARIANTS
  PullTypeOK
  QuietPullsConverge
PROPERTIES
  DeviceNeverGoesBack
