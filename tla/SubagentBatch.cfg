SPECIFICATION FairSpec
CONSTANTS
    NumTasks = 4
    Concurrency = 2
    NoTools <- Toolless
    MaxFaults = 2
INVARIANTS EachTaskOnce OutcomeAgrees
PROPERTIES OnlyChildrenHold
CHECK_DEADLOCK FALSE
