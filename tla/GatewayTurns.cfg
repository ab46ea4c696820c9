SPECIFICATION GatewaySpec
CONSTANTS
    Connections = {c1, c2}
    Messages = {m1, m2}
    Requests = {r1, r2}
    Ttl = 1
    MaxEntries = 1
    MaxTurns = 3
    MaxTime = 1
SYMMETRY Symmetric
INVARIANTS ActiveIffRunning ClaimsAreSettled
CHECK_DEADLOCK FALSE
