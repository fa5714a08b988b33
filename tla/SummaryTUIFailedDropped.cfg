CONSTANTS
    Collector = {r1}
    Seed = {}
    Overlay = {}
    MayFail = TRUE
    MayWatch = TRUE
    Gen = {1, 2}

SPECIFICATION Spec
CHECK_DEADLOCK FALSE

PROPERTY OnlyDeletedDropOut
