CONSTANTS
    Collector = {r1}
    Seed = {}
    Overlay = {"settings"}
    MayFail = FALSE
    MayWatch = FALSE
    Gen = {1, 2}

SPECIFICATION Spec
CHECK_DEADLOCK FALSE

INVARIANT KeepsPulling
