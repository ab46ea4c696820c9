SPECIFICATION FairSpec
CONSTANT MaxAttempts = 2
INVARIANTS OneConnection
PROPERTIES ImplementsRetriedCall HangsOnlyUnguarded
