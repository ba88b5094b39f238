SPECIFICATION Spec
CONSTANTS
  Calls = {write}
  MaxRuns = 3
  MaxCalls = 1
  MaxRequests = 1
  MaxAlive = 2
  MaxEvents = 4
CHECK_DEADLOCK FALSE
INVARIANTS
  TypeOK
  RepeatedOnlyBehindCheckpoint
  UnknownStopsResume
  FinishedStaysFinished
  ConsumedOnce
