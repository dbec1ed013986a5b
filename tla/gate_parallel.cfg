SPECIFICATION Spec
SYMMETRY Slots
CONSTANTS
  MaxTurns = 2
  MaxRevs = 1
  DiskMayFail = TRUE
  ReadMayFail = TRUE
  MarkerMayFail = TRUE
  Edits = {e1, e2}
  GateModes = {"warn"}
  KeeperOn = TRUE
  ReviewMayFail = TRUE
INVARIANTS
  GateTypeOK
  SettledIsEarned
PROPERTIES
  NoHookSettlesUnderHold
  ConsentBeforeCode
CHECK_DEADLOCK FALSE
