SPECIFICATION FairSpec
CONSTANTS
    o1 = o1
    e1 = e1
    e2 = e2
    e3 = e3
    Owners = {o1}
    Episodes = {e1, e2, e3}
    OwnerOf <- OneOwner
    Jobs = {"consolidation", "compression", "dream"}
    Loaded = {}
    BatchSize = 2
    MaxPerOwner = 2
    MaxWrites = 3
    MaxAging = 1
    MaxFaults = 1
INVARIANTS RemovalIsEvidenced PromotedOncePerFailure CompressionLosesOnlyOnFailure
PROPERTIES  DueIsHandled
CHECK_DEADLOCK FALSE
