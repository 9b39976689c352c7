SPECIFICATION SearchSpec
CONSTANTS
  Workspaces = {w1, w2}
  Collections = {c1, c2}
  Bookmarks = {b1}
  Groups = {g1}
  NoId = NoId
  MaxSeq = 6
  MaxClock = 1
SYMMETRY IdSymmetry
CHECK_DEADLOCK FALSE
INVARIANTS
  TypeOK
  DeletionIsStamped
  PurgedLeavesNothing
  LegacyCascadeIsComplete
  IndexIsComplete
  NoDocumentOutlivesItsRow
PROPERTIES
  TombstoneIsFrozen
  NoBookmarkIsStranded
  EveryChangeIsPublished
  RestoreIsExact
  ImplementsContract
