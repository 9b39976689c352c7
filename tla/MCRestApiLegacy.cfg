SPECIFICATION SearchSpec
CONSTANTS
  Workspaces = {w1, w2}
  Collections = {c1}
  Bookmarks = {b1}
  Groups = {g1}
  NoId = NoId
  MaxSeq = 8
  MaxClock = 0
SYMMETRY IdSymmetry
CHECK_DEADLOCK FALSE
PROPERTIES
  RestoreKeepsEarlierDeletions
