SPECIFICATION FairSpec
CONSTANTS
  LocalStreams = {"l"}
  PeerStreams = {"p", "q"}
  HighWater = 1
  MaxInflight = 1
  MaxIncoming = 1
  MaxChunks = 1
  MaxWrites = 1
  DgramHighWater = 1
  MaxDatagrams = 2
  Scenarios <- MCBridge
  MayClose = TRUE
CHECK_DEADLOCK FALSE
INVARIANTS TypeOK NoChunkLost CleanEndIsComplete SessionTakesPeerStreams RequestAccounted WriteAccounted
PROPERTIES FinArrives WritesSettle OpensSettle
