SPECIFICATION FairSpec
CONSTANT Environments <- MCLife
CHECK_DEADLOCK FALSE
INVARIANTS TypeOK EventDiscipline ReadyAgreement DrainAccounted
PROPERTIES CloserKeepsCode SessionEnds
