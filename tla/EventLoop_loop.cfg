SPECIFICATION FairSpec
CONSTANTS
  Roles = {"server", "client"}
  Budget = 2
  SocketCap = 3
  MaxCommands = 2
PROPERTIES CommandsHandled WorkDone
CHECK_DEADLOCK FALSE
