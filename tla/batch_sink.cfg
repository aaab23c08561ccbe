SPECIFICATION FairSpec
CONSTANTS
    Env = {e1, e2, e3}
    Key = {ka, kb}
    NoKey = NoKey
    FrameMax = 8
    IngressCapacity = 1
    MaxEvents = 2
    MaxBytes = 4
    MaxAttempts = 2
    SpoolMax = 2
    MaxFails = 2
    MaxBoots = 2
    e1 = e1
    e2 = e2
    e3 = e3
    ka = ka
    kb = kb
    Loads <- MCLoads
INVARIANTS Accounted StoredOnce
PROPERTIES LeavesMemory SpoolDrains
CHECK_DEADLOCK FALSE
