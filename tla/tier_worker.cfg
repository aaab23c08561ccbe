SPECIFICATION FairSpec
CONSTANTS
    Env = {e1, e2}
    Capacity = 1
    Callers = {c1, c2}
    MayTimeout = TRUE
INVARIANTS Conservation SinkOutlivesTaskUncancelled
PROPERTIES FifoHolds ShutdownReturns AcceptedIsDelivered
