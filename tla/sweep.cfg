SPECIFICATION Spec
CONSTANTS
    Holds = {h1, h2}
    Segments = 2
    Lifetime = 1
    PerRound = 2
    NoticeCap = 1
    CmdCap = 1
    Backlog = 1
    MaxDay = 7
    FirstDay = 4
    MaxTurns = 1
    None = None
CHECK_DEADLOCK FALSE
INVARIANTS
    DaysKeptApart
PROPERTIES
    DayFinishes
