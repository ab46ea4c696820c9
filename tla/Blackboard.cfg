SPECIFICATION Spec
CONSTANTS
    MaxTurns = 2
    MaxScopes = 2
    Workers = 2
    HardMaxRounds = 2
    LeaseTtl = 1
    MaxClock = 1
    MaxFaults = 1
    MaxConcurrency = 1
    QueueLimit = 1
    None = None
CHECK_DEADLOCK FALSE
INVARIANTS ExclusiveWhileLeased NothingIsLeftBehind HandedBackAsRecorded
PROPERTIES EveryTurnEnds
