INIT Init
NEXT Next
CONSTANTS
    None = None
    Max = 2
INVARIANTS FullArnIsOne
CHECK_DEADLOCK FALSE
