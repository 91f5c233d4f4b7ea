SPECIFICATION Spec
CONSTANTS
  Pushers = {p1, p2}
  MaxQueues = 2
  Capacity <- Capacities
  MaxCollisions = 1

INVARIANTS
  QueuesConsistent
  NoLostWakeUp
  NoPusherLeftBehind

PROPERTIES
  OwnerReturns
  QueuesServed

CHECK_DEADLOCK FALSE
