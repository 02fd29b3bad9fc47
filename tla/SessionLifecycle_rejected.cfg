SPECIFICATION Spec
CONSTANT Environments <- MCRejected
CHECK_DEADLOCK FALSE
INVARIANT RejectionStatusSeen
