SPECIFICATION Spec
CONSTANTS
    Dps = {1, 2}
    Version = 2
    Words = 4
    Block = 2
    MaxLen = 3
    BadAddrs = {3}
    WireFaults = {"WAIT", "NO_RESPONSE", "INVALID", "PARITY"}
    MaxFaults = 2
INVARIANTS TypeOK NoStrayWrite ExactWhenUndisturbed
