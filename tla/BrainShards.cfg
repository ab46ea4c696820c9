SPECIFICATION FairSpec
CONSTANTS
    MaxMonth = 3
    MaxEvents = 2
    MaxCrashes = 1
    MaxFile = 13
CHECK_DEADLOCK FALSE
INVARIANTS LostOnlyByMisfiling ShownOnce ReaderAgrees RefusedOnlyWhenSealed
PROPERTIES LiveFileCatchesUp
