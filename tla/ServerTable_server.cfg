SPECIFICATION FairSpec
CONSTANTS
  Key = {"k1", "k2"}
  Addr = {"a1"}
  MaxConnections = 2
  MaxPending = 1
  MaxInflight = 1
  MaxSessions = 2
  MayPanic = TRUE
CHECK_DEADLOCK FALSE
INVARIANTS TypeOK TablesAgree SessionAccounted Bounded AnnouncedOnce
PROPERTIES CloseSettles ConnectionReturned
