SPECIFICATION FairSpec
CONSTANT Environments <- MCEarlyDrain
CHECK_DEADLOCK FALSE
PROPERTY DrainDelivered
