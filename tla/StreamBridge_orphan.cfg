SPECIFICATION Spec
CONSTANTS
  LocalStreams = {"l"}
  PeerStreams = {}
  HighWater = 1
  MaxInflight = 2
  MaxIncoming = 1
  MaxChunks = 0
  MaxWrites = 0
  DgramHighWater = 1
  MaxDatagrams = 0
  Scenarios <- MCOrphan
  MayClose = TRUE
CHECK_DEADLOCK FALSE
INVARIANT SessionTakesStreams
