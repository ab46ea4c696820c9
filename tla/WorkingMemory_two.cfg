SPECIFICATION Spec
CONSTANTS
    Clients = {c1, c2}
    Episodes = {e1, e2, e3}
    MaxEpisodes = 1
    RingSize = 2
    SnapshotEvery = 2
    MaxWalLines = 9
    Calls = {"write", "drop", "rewrite"}
    Ttls = {1}
    Absent = Absent
    Missing = Missing
    Corrupt = Corrupt
    Torn = Torn
    MaxTime = 0
    MaxLsn = 3
    Crashes = 1
    Tears = 0
    IoFailures = 1
    Rots = 0
    Budget <- MCBudget
SYMMETRY SymmetricCallers
INVARIANTS AckedIsVisible
PROPERTIES CapacityOvershoot
CHECK_DEADLOCK FALSE
