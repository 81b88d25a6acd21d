SPECIFICATION Spec
CONSTANTS
    Dps = {1}
    Version = 1
    Words = 3
    Block = 2
    MaxLen = 2
    BadAddrs = {}
    WireFaults = {"NO_RESPONSE"}
    MaxFaults = 1
INVARIANT WriteIsComplete
