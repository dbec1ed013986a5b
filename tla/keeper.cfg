SPECIFICATION KeeperFairSpec
CONSTANTS
  MaxTurns = 3
  MaxConsecutive = 3
  MaxWakes = 3
  MaxLost = 2
  BubbleMayFail = TRUE
INVARIANTS
  TypeOK
  RunawayGuard
PROPERTIES
  GivesUpLoudly
  NewMessageReArms
  ComesToRest
CHECK_DEADLOCK FALSE
