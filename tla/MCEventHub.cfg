SPECIFICATION LiveSpec
CONSTANTS
  Streams = {c1, c2}
  Handlers = {h1, h2}
  Capacity = 1
  MaxCommits = 2
CHECK_DEADLOCK FALSE
INVARIANTS
  TypeOK
  MapHoldsOpenChannels
  NoWakeupIsLost
PROPERTIES
  StreamCatchesUp
