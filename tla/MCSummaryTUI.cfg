CONSTANTS
    Collector = {r1}
    Seed = {}
    Overlay = {"switcher", "passive"}
    MayFail = FALSE
    MayWatch = TRUE
    Gen = {1, 2}

SPECIFICATION FairSpec
CHECK_DEADLOCK FALSE

INVARIANT TypeOK
INVARIANT OnePull
INVARIANT OneTimer
INVARIANT OnlyCurrentEngine
PROPERTY DeletedDropOut
PROPERTY OnlyDeletedDropOut
PROPERTY ScanCompletes
