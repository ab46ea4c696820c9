SPECIFICATION Spec
CONSTANTS
    Clients = {c1}
    Episodes = {e1, e2, e3}
    MaxEpisodes = 2
    RingSize = 2
    SnapshotEvery = 2
    MaxWalLines = 2
    Calls = {"write", "reinforce", "touch"}
    Ttls = {1}
    Absent = Absent
    Missing = Missing
    Corrupt = Corrupt
    Torn = Torn
    MaxTime = 1
    MaxLsn = 5
    Crashes = 1
    Tears = 1
    IoFailures = 1
    Rots = 1
    Budget <- MCBudget
SYMMETRY Symmetric
INVARIANTS AckedIsDurable RestartShowsTheSameView
CHECK_DEADLOCK FALSE
