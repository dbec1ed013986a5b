SPECIFICATION Spec
CONSTANTS
    Projects = {ours, theirs}
    Ambient = ours
    Surface = 1
    Scan = 2
    HarvestScan = 3
    MaxBubbles = 4
    MaxSpoils = 1
INVARIANTS
    OutboxInOrder
    AtMostOnce
    NothingUnlearntInSilence
