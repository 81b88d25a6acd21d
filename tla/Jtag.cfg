SPECIFICATION Spec
CONSTANTS
    MaxDevs = 4
    MaxIrLen = 4
    OnesLen = 8
    Chains <- SoundChains
    WordLen = 5
    IRs <- TwoIRs
    RegLen = 2
INVARIANTS TypeOK ScanIsExact CacheIsTrue ReachesDevice
PROPERTIES ChainIsFound
