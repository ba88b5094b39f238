SPECIFICATION Spec
CONSTANTS
  MaxSteeringLoops = 2
  MaxSteering = 2
  MaxTools = 0
  MaxFaults = 0
CHECK_DEADLOCK FALSE
INVARIANTS
  SteeringConsumedInOrder
PROPERTIES
  RunEnds
  RunRecorded
