SPECIFICATION Spec
CONSTANTS
    Holds = {h1}
    Reqs = {r1, r2, r3, r4}
    HoldAmount = 2
    CmdCap = 4
    WriteLimit = 4
    QueuedLimit = 4
    MaxBatch = 2
    InFlightLimit = 2
    SoftLimit = 0
    EvictPerRound = 1
    MaxFailures = 1
SYMMETRY Symmetry
CHECK_DEADLOCK FALSE
INVARIANTS
    NoOverPromise
    ConservedUnlessRefused
    NothingLeaks
PROPERTY
    JudgedAgainstTruth
