SPECIFICATION FairSpec
CONSTANTS
    NTargets = 2
    NULL = NULL
    Faults = {"raise", "deadwire", "lost", "attach", "wfi", "vstopped"}
INVARIANTS TypeOK NoDanglingTarget ControlIsOwned NoJumpIntoDeadFrame
PROPERTIES ServedWhenIdle
