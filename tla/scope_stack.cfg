SPECIFICATION Spec
CONSTANTS
    t1 = t1
    t2 = t2
    Thread = {th1, th2}
    Task = {t1, t2}
    Idle = Idle
    Mixed = Mixed
    SeedKind <- SeedOfTwo
    Event = {e1, e2}
    Config <- MCConfig
    Apps <- MCApps
    TailCapacity = 1
SYMMETRY Symmetry
INVARIANTS OwnStack OwnTrace TailCopies
CHECK_DEADLOCK FALSE
