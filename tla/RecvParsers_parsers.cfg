SPECIFICATION Spec
CONSTANTS
  Buffer <- MCBuffer
  Session = {"this", "other"}
  Owner <- MCOwner
  Byte <- MCByte
  SessionLimit = 40
  ServerLimit = 44
  Capacities = {1, 2, 4, 8, 16, 32}
  Extras = {1}
  AllocMayFail = TRUE
  First = 65
  MaxCode = 70
  Unis = {"u1", "u2"}
  Bidis = {"b1"}
  Roles = {TRUE, FALSE}
  Scripts <- MCScripts
  MaxFrame = 16
  ChunkSizes = {1, 4, 9}
  PeerCodes = {30}
  RawCodes = {3}
  OtherSize = 5
INVARIANTS TypeOK Budget Reassembled ClosedReleases NoFalseAccusation
PROPERTY BackpressureHolds
CHECK_DEADLOCK FALSE
