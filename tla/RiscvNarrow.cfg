SPECIFICATION Spec
CONSTANTS
    Size = 4
    MaxLen = 4
    BadAddrs = {}
    Buses = {{4}}
    Kinds = {"write"}
    DmiFaults = {}
    MaxIdle = 1
    MaxFaults = 0
INVARIANT WriteKeepsNeighbours
