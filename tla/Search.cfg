SPECIFICATION FairSpec
CONSTANTS
    l1 = l1
    l2 = l2
    t1 = t1
    t2 = t2
    t3 = t3
    SpaceSize = 3
    Tests = {t1, t2, t3}
    Locations = {l1, l2}
    LocationOf <- ThreeAtTwo
    InitialRelated <- RelatedThree
    Configs <- ThreeConfigs
    Verdicts <- VerdictsOfConfigs
CHECK_DEADLOCK FALSE
INVARIANTS TablesSound FoundExactly FoundCovered
PROPERTIES NoRedundantExecution ImplementsPlausibleSearch SearchTerminates
