SPECIFICATION FairSpec
CONSTANTS
  u1 = u1
  u2 = u2
  b1 = b1
  UniStreams = {u1, u2}
  BidiStreams = {}
  Abortable = {u1}
  InitialMax <- MCNone
  GrantMax <- MCTight
  MaxWrite = 1
CHECK_DEADLOCK FALSE
INVARIANTS CreditConserved CreditChain NoFlowError OutstandingCreditBounded ResetAgreement
PROPERTIES WritesDrain ImplementsContract
