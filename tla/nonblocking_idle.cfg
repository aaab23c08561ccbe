SPECIFICATION Spec
CONSTANTS
    Parts = {"nonblocking"}
    e1 = e1  e2 = e2  e3 = e3  k1 = k1  k2 = k2  s1 = s1
    Procs = {p1, p2}
    Envs = {e1, e2, e3}
    Spans = {s1}
    NoSpan = NoSpan
    None = None
    SpanOf <- MCSpanOf
    Role <- MCRole
    PartOf <- MCPartOf
    SizeOf <- MCSizeOf
    MaxRecords = 2
    RetryCap = 1
    RollBytes = 2
    MaxCrashes = 1
    MaxRolls = 2
    BatchSize = 2
    RetryAttempts = 2
    Recorders = {r1, r2}
    SeriesKeys = {q1, q2}
    MaxSeries = 1
    MaxCalls = 3
    Clients = {c1, c2}
    MaxMessages = 2
    TailFilters <- MCTailFilters
    MaxTotal = 1
    MaxPerKey = 1
    Capacity = 1
    MaxSubs = 2
    Writers = {w1, w2}
    MaxRollLines = 2
    Pieces = 2
    RollConfigs <- MCRollConfigs
    MaxBytes = 2
    Period = 2
    MaxClock = 2
    MaxFails = 1
    Handle = {h1}
    NbCapacity = 1
    MaxLines = 2
    MaxBatch = 1
PROPERTY DropsOnlyAtOverflow
CHECK_DEADLOCK FALSE
