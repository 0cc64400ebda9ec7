SPECIFICATION FairSpec
CONSTANTS
    Accounts = {a, b}
    Constrained = {a}
    MaxReqs = 2
    MaxVoids = 1
    MaxFaults = 1
    Slots = 3
    IdemCap = 2
    PendCap = 1
    MaxLegs = 1
    MaxBatch = 2
    QueuedLimit = 2
    InFlightLimit = 2
    LanesToFail = 1
CHECK_DEADLOCK FALSE
INVARIANTS
    ChainWhole
    RepliesBelong
    LaneBooksBalance
    GapHasACause
PROPERTIES
    EveryRequestAnswered
