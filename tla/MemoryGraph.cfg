SPECIFICATION FairSpec
CONSTANTS
    n1 = n1
    n2 = n2
    None = None
    Nodes = {n1, n2}
    Alike <- Pairwise
    Close <- Pairwise
    Matching <- OneMatch
    Levels = {1, 2}
    BatchSize = 1
    RecallN = 1
    DreamCap = 3
    MaxFaults = 1
    MaxPasses = 1
    MaxTime = 2
INVARIANTS GraphHoldsTogether
PROPERTIES OnlyADreamDatesBack DecayReachesAll
CHECK_DEADLOCK FALSE
