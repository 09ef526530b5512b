SPECIFICATION EquivalenceSpec
CONSTANTS
    l1 = l1
    t1 = t1
    t2 = t2
    SpaceSize = 3
    Tests = {t1, t2}
    Locations = {l1}
    LocationOf <- OneLocation
    InitialRelated <- BothTests
    Configs <- AllPatches
    Verdicts <- AnyVerdict
    InputTerminator = InputTerminator
    OutputTerminator = OutputTerminator
    Capacity = 4
    InitialPartitions <- Left
    Values = {0, 1}
    MaxCalls = 2
    Process = process
    Programs <- SomePrograms
CHECK_DEADLOCK FALSE
INVARIANT FoundUnlessCut
PROPERTY ImplementsSearchEngine
