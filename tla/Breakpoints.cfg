SPECIFICATION Spec
CONSTANTS
    Points <- MCPoints
    Unit <- MCUnit
    Slots <- MCSlots
    MaxSessions = 2
    Off = Off
    Stale = Stale
    Faults = {"alloc", "noattach"}
INVARIANTS TypeOK NoSlotLost EntryNamesComparator
PROPERTIES BehavesAsSet
