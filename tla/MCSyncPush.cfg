SPECIFICATION PushSpec
CONSTANTS
  Workspaces = {w1, w2}
  Collections = {c1}
  Bookmarks = {b1, b2}
  Groups = {g1}
  NoId = NoId
  MaxSeq = 4
  MaxClock = 0
  MaxWorkspaces <- NoLimit
  MaxCollections = 1
  MaxBookmarks = 1
  MaxSavedGroups = 1
  MaxEntities = 2
SYMMETRY IdSymmetry
CHECK_DEADLOCK FALSE
INVARIANTS
  AnswersAreHonest
PROPERTIES
  PushKeepsQuota
  TombstoneIsFrozen
  NoLiveWriteUnderDeleted
  EveryChangeIsPublished
  PushedIsIndexed
