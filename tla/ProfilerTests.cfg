SPECIFICATION Spec
CONSTANTS
    l1 = l1
    l2 = l2
    NumTests = 3
    Locations = {l1, l2}
    MaxProcesses = 2
    MaxLines = 3
CHECK_DEADLOCK FALSE
INVARIANTS FailingFirst RelatedSound RelatedCompleteWithFault
