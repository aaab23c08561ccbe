SPECIFICATION FairSpec
CONSTANTS
    Env = {e1, e2}
    Capacity = 1
    MaxRecords = 2
    Policies <- MCPolicies
    BatchSize = 2
    MaxBoots = 3
    MaxFaults = 1
INVARIANTS Accounted CleanShutdown SyncWindow AtMostOncePlusRedone
PROPERTIES RecoveryEnds
CHECK_DEADLOCK FALSE
