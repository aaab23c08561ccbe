SPECIFICATION FlowSpec
CONSTANTS
    Declarations <- MCDeclarations
    Neighbour <- MCNeighbour
    MaxEvents = 1
INVARIANTS ClassifiedIsRedacted PathsAgree RowsAligned
CHECK_DEADLOCK FALSE
