SPECIFICATION Spec
CONSTANTS
  MaxSteeringLoops = 2
  MaxSteering = 1
  MaxTools = 1
  MaxFaults = 1
CHECK_DEADLOCK FALSE
INVARIANTS
  TypeOK
  TerminalAgrees
  LocalAgrees
PROPERTIES
  QuietAfterTerminal
  NoToolAfterCancel
  ImplementsLedger
