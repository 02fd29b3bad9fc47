SPECIFICATION Spec
CONSTANT Environments <- MCCongested
CHECK_DEADLOCK FALSE
INVARIANT CodesRideTheCapsule
