SPECIFICATION ExperimentSpec
CONSTANTS
    l1 = l1
    l2 = l2
    SpaceSize = 3
    Locations = {l1, l2}
    LocationOf <- ThreeAtTwo
    Configs <- AllConfigs
    Unreliable = {TRUE, FALSE}
    Defects <- TwoDefects
    BenchConfig <- Single
    MaxInvocations = 2
CHECK_DEADLOCK FALSE
INVARIANTS OriginalsRestored OutputsAreSinglePatches BatchOutputsValidated CheapestFirst AllAcceptableOutput RepairedMeansPatch
PROPERTY CommandsEnd
