CONSTANTS
    Collector = {r1}
    Seed = {}
    Overlay = {}
    MayFail = FALSE
    MayWatch = TRUE
    Gen = {1, 2}

SPECIFICATION FairSpec
CHECK_DEADLOCK FALSE

PROPERTY DeletedRowsGo
