SPECIFICATION CleanupSpec
CONSTANTS
  Workspaces = {w1, w2}
  Collections = {c1}
  Bookmarks = {b1}
  Groups = {g1}
  NoId = NoId
  MaxSeq = 4
  MaxClock = 4
  PlanGrace = 1
  TrashGrace = 1
  Window = 2
  RoundPeriod = 2
SYMMETRY IdSymmetry
CHECK_DEADLOCK FALSE
INVARIANTS
  CleanupTypeOK
PROPERTIES
  WorkerSparesActive
  NoDueBookmarkIsStranded
  TombstonesArePublished
  TombstonesAreFinal
  TombstoneLosesAtMostARound
  ImplementsContract
