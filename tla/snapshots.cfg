SPECIFICATION Spec
CONSTANTS
    Chunks = 2
    Depth = 2
    Share = 2
    PerRound = 2
    MaxDumps = 2
    MaxLogOps = 1
    MaxFaults = 1
    MaxCrashes = 1
    None = None
CHECK_DEADLOCK FALSE
INVARIANTS
    CurrentIsWhole
    FinishedStays
PROPERTIES
    DumpEnds
