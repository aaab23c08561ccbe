SPECIFICATION Spec
CONSTANTS
    Env = {e1, e2}
    Capacity = 1
    MaxRecords = 2
    Policies <- MCPolicies
    BatchSize = 2
    MaxBoots = 1
    MaxFaults = 0
INVARIANT SpooledIsRecoverable
CHECK_DEADLOCK FALSE
