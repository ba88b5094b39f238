SPECIFICATION Spec
CHECK_DEADLOCK FALSE
CONSTANTS
  Calls <- MCCalls
  Exposures <- MCExposures
  Writes = {w}
  Groups <- MCGroups
  GroupOf <- MCGroupOf
  Limit <- MCLimit
  MaxAttempts <- MCAttempts
  RetryOn = {"timeout", "transient"}
  MaxOthers = 1
  NoCall = NoCall
  r1 = r1
  r2 = r2
  w = w
  reads = reads
  proposals = proposals
INVARIANTS
  TypeOK
  SlotsAccounted
  WritesActOnce
  LedgerIsTrue
  ReturnedIsRecorded
PROPERTIES
  OnlyRetriesStartAfterAbort
  CallsEnd
