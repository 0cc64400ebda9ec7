SPECIFICATION Spec
CONSTANTS
    k1 = k1
    k2 = k2
    k3 = k3
    k4 = k4
    Keys = {k1, k2, k3, k4}
    Buckets = 4
    Ways = 1
    MaxHops = 2
    Fingerprint <- MCFingerprint
    Home <- MCHome
    Step <- MCStep
    MaxEffects = 4
    MaxMoves = 1
    MaxDumps = 1
    None = None
CHECK_DEADLOCK FALSE
INVARIANTS
    EntriesSound
    FindsEveryHold
    DumpIsOfItsInstant
