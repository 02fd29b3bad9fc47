SPECIFICATION FairSpec
CONSTANTS
  u1 = u1
  u2 = u2
  b1 = b1
  UniStreams = {u1, u2}
  BidiStreams = {}
  Abortable = {u1}
  InitialMax <- MCInitialMax
  GrantMax <- MCGrantMax
  MaxWrite = 2
CHECK_DEADLOCK FALSE
PROPERTY WritesAlwaysDrain
