SPECIFICATION FairSpec
CONSTANTS
    p1 = p1
    p2 = p2
    id1 = id1
    id2 = id2
    Procs = {p1, p2}
    Ids = {id1, id2}
    InputTerminator = InputTerminator
    OutputTerminator = OutputTerminator
    Capacity = 3
    InitialPartitions <- LeftBehind
    Values = {0, 1}
    WithTimeout = TRUE
    MaxCalls = 1
    MaxRounds = 1
CHECK_DEADLOCK FALSE
INVARIANTS PartitionExact TerminatorKept
PROPERTY CallsReturn
