SPECIFICATION LoopSpec
CONSTANTS
    read = read
    write = write
    fanout = fanout
    ghost = ghost
    Calls <- AllCalls
    Known <- Catalog
    ToolOf <- Tool
    ReadOnly <- Reads
    ConcurrencySafe <- Reads
    Exclusive <- Nothing
    BatchUnit <- FanOut
    TurnBudget = 3
    OperationBudget = 3
    RiskQuota = 1
    MaxCalls = 6
    MaxRepeatedCalls = 2
    MaxFailedRepeats = 1
    MaxUnknownRepeats = 1
    MaxStep = 3
INVARIANTS EveryCallIsAnswered SpendingIsBounded NoHopelessRetry WritesAreBarriers
