SPECIFICATION Spec
CONSTANTS
    Segs = {s1, s2}
    Handles = {h1, h2}
    CacheBlocks = 2
    ReadDepth = 2
    MaxBlocks = 3
    MaxFrees = 2
    None = None
CHECK_DEADLOCK FALSE
INVARIANTS
    ReadsAreTrue
PROPERTIES
    EveryReadAnswered
