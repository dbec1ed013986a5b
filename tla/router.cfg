SPECIFICATION FairSpec
CONSTANTS
  minimax = minimax
  claude = claude
  NoProvider = none
  Calls = {c1, c2}
  Providers = {minimax, claude}
  Order <- MCOrder
  Spread = TRUE
  Capped = {minimax, claude}
  Deadlined = {minimax}
  Floor <- MCFloor
  Headroom = 1
  MaxAttempts = 1
  DegradeAfter = 2
  Trips = 2
INVARIANTS
  PoolInOrder
  NoLostWakeup
PROPERTIES
  OneTripPerWindow
  EveryRoutedCallEnds
CHECK_DEADLOCK FALSE
