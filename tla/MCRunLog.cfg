SPECIFICATION Spec
SYMMETRY ThreadSymmetry
CONSTANTS
  Threads = {t1, t2}
  Requests <- MCRequests
  Ids <- MCIds
  Types <- MCTypes
  ToolCalls = {tool}
  Vals = {none}
  MaxLag = 1
  tool = tool
  none = none
  kFail = kFail
  kCancel = kCancel
  kTool = kTool
  kConfirm = kConfirm
  eFail = eFail
  eConfirmed = eConfirmed
  eCommitted = eCommitted
  steer = steer
INVARIANTS
  TypeOK
  IdsRecordedOnce
  AcknowledgedIsRecorded
  EffectsReportedOnce
  StatusReplays
PROPERTIES
  WritesAtExpectedVersion
  FinishedIsFinal
  ImplementsLedger
