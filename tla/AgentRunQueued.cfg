SPECIFICATION Spec
CONSTANTS
  MaxSteeringLoops = 2
  MaxSteering = 1
  MaxTools = 1
  MaxFaults = 0
CHECK_DEADLOCK FALSE
INVARIANT
  QueuedIsConsumed
