SPECIFICATION Spec
CONSTANTS
  MaxTurns = 3
  MaxRevs = 1
  DiskMayFail = TRUE
  ReadMayFail = TRUE
  MarkerMayFail = FALSE
  Edits = {e1}
  GateModes = {"warn", "deny"}
  KeeperOn = TRUE
  ReviewMayFail = TRUE
INVARIANTS
  HoldTypeOK
  RequestShutsGate
  OpenHoldStands
  ApprovedPlanAnswersGoal
PROPERTIES
  OneReviewPerTurn
  StrictGateReviewsAgain
CHECK_DEADLOCK FALSE
