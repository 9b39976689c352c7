SPECIFICATION PushSpec
CONSTANTS
  Workspaces = {w1, w2}
  Collections = {c1}
  Bookmarks = {}
  Groups = {}
  NoId = NoId
  MaxSeq = 4
  MaxClock = 0
  MaxWorkspaces <- NoLimit
  MaxCollections <- NoLimit
  MaxBookmarks <- NoLimit
  MaxSavedGroups <- NoLimit
  MaxEntities = 2
SYMMETRY IdSymmetry
CHECK_DEADLOCK FALSE
PROPERTIES
  NoRescue
