SPECIFICATION Spec
CONSTANTS
    Values = {v1, v2}
    NoValue = none
    Capacity = 4
    Laps = 2
    MaxPush = 2
CHECK_DEADLOCK FALSE
INVARIANTS
    IndicesInOrder
    OneOwner
PROPERTIES
    RefinesFifo
