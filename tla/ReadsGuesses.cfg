INIT Init
NEXT Next
CONSTANTS
    None = None
    Max = 2
INVARIANT UnderWarns
CHECK_DEADLOCK FALSE
