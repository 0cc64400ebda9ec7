SPECIFICATION Spec
CONSTANTS
    w = w
    v = v
    b = b
    r1 = r1
    r2 = r2
    r3 = r3
    r4 = r4
    r5 = r5
    None = None
    Accounts = {w, v, b}
    Constrained = {b}
    Reqs = {r1, r2, r3, r4, r5}
    Transfer <- MCTransfer
    Units <- MCUnits
    Opening <- MCOpening
    Cap = 2
    BatchMax = 2
    BatchQueued = 2
    InFlightMax = 2
    RaftCap = 1
    AckCap = 1
    AckBacklog = 1
    MaxFailures = 1
    MaxSwaps = 1
    MaxClears = 1
CHECK_DEADLOCK FALSE
INVARIANTS
    NoOverdraft
    StateFollowsLog
    AcksAreTrue
    AuditHolds
PROPERTIES
    PauseEnds
    DrainFinishes
