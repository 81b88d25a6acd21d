SPECIFICATION Spec
CONSTANTS
    Size = 8
    MaxLen = 7
    BadAddrs = {6}
    Buses = {{}, {1, 2, 4}, {4}, {2, 4}}
    Kinds = {"read", "write"}
    DmiFaults = {"FAILURE", "TOO_SOON"}
    MaxIdle = 1
    MaxFaults = 1
INVARIANTS TypeOK WriteStaysInside ReportedOrExact UndisturbedIsExact ErrorsAreCleared
PROPERTIES AccessEnds
