SPECIFICATION FairSpec
CONSTANTS
    Holds = {h1}
    Reqs = {r1, r2, r3}
    HoldAmount = 2
    CmdCap = 1
    WriteLimit = 4
    QueuedLimit = 4
    MaxBatch = 2
    InFlightLimit = 2
    SoftLimit = 0
    EvictPerRound = 1
    MaxFailures = 1
CHECK_DEADLOCK FALSE
INVARIANTS
    TypeOK
    EngineFollowsCommits
    OverlaySound
    NoStaleAnswer
    ReadYourWrites
PROPERTIES
    EveryRequestAnswered
