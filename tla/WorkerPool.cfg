SPECIFICATION PoolSpec
CONSTANTS
    MaxTasks = 4
    Adapters <- MCAdapters
    MaxConcurrency = 2
    QueueLimit = 1
CHECK_DEADLOCK FALSE
INVARIANTS StrangersAnswerOnlyAfterFailure
PROPERTIES EveryTaskSettles
