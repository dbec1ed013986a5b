SPECIFICATION Spec
CONSTANTS
  Offers <- MCOffers
  Replies <- MCReplies
  Kills = TRUE
  MaxPrompts = 3
  MaxOffers = 2
INVARIANTS
  LedgerInOrder
  NeverSilent
PROPERTIES
  CommitmentHolds
CHECK_DEADLOCK FALSE
