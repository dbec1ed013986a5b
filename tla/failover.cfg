SPECIFICATION FairSpec
CONSTANTS
  c1 = c1
  c2 = c2
  r1 = r1
  Calls = {c1, c2, r1}
  Races = {r1}
  Priority <- MCPriority
  Built <- MCBuilt
  SkipSet = {"deepseek_flash"}
  StyleOf <- MCStyleOf
  Cap <- MCCap
  Threshold = 2
  Rounds <- MCRounds
INVARIANTS
  CallsInOrder
  OpenOnlyWhileFailing
PROPERTIES
  EveryCallEnds
CHECK_DEADLOCK FALSE
