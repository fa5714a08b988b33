INIT Init
NEXT Next
CONSTANTS
    None = None
    Max = 2
INVARIANTS Sound Accounted
CHECK_DEADLOCK FALSE
