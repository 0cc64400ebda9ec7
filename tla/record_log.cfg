SPECIFICATION Spec
CONSTANTS
    Keys = {k1, k2}
    Grouped = {k2}
    Amount = 2
    PerBlock = 1
    FlushBlocks = 1
    ResidentBlocks = 0
    DrainBlocks = 1
    Ceiling = 2
    Segments = 2
    Lifetime = 1
    Depth = 2
    MaxEffects = 4
    MaxDay = 2
    MaxCrashes = 1
    MaxRefused = 0
    MaxDumps = 1
    None = None
CHECK_DEADLOCK FALSE
INVARIANTS
    LookupIsTruth
    CoverageIsOnDisk
    WriteOnce
    TotalsTrue
