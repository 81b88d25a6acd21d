SPECIFICATION FairSpec
CONSTANTS
    NTargets = 2
    NULL = NULL
    Faults = {}
PROPERTIES ServedAfterAbruptEnd
