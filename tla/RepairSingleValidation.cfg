SPECIFICATION Spec
CONSTANTS
    l1 = l1
    l2 = l2
    SpaceSize = 3
    Locations = {l1, l2}
    LocationOf <- ThreeAtTwo
    Configs <- OnlySingleValidated
    Unreliable = {FALSE}
CHECK_DEADLOCK FALSE
INVARIANT OutputsValidated
