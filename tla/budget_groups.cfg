SPECIFICATION Spec
CONSTANTS
    h1 = h1
    h2 = h2
    h3 = h3
    shared = shared
    None = None
    Holds = {h1, h2, h3}
    Size <- MCSize
    Group <- MCGroup
    Lane <- MCLane
    Units <- MCUnits
    Expiring = {h1, h3}
    MaxFailures = 1
CHECK_DEADLOCK FALSE
INVARIANTS
    GroupMovesWhole
    ReportsTheGroup
