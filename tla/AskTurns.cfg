SPECIFICATION FairSpec
CONSTANTS
    NumTurns = 2
    MaxChainDepth = 1
    Scopes = {"explicit", "recalled", "own"}
    Reuse = TRUE
    MaxCrashes = 1
    MaxFaults = 1
    MaxUndos = 1
INVARIANTS InterruptedIsReported CapIsEnforced PendingHasItsGhost
PROPERTIES AnswersArePending WarmupRecovers
CHECK_DEADLOCK FALSE
