SPECIFICATION Spec
CONSTANTS
    t1 = t1
    t2 = t2
    Thread = {th1, th2}
    Task = {t1, t2}
    Idle = Idle
    Mixed = Mixed
    SeedKind <- NoSeeds
    Event = {e1}
    Config <- MCConfig
    Apps <- InstrumentedApps
    TailCapacity = 1
INVARIANTS TaskScoped
CHECK_DEADLOCK FALSE
