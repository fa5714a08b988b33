CONSTANTS
    base = base
    other = other
    N = 3
    Account <- MCAccount
    Owner <- MCOwner
    MayFail <- MCMayFail
    Limit = 2
    Cap = 1
    MaxPages = 1

SPECIFICATION FairSpec

INVARIANT TypeOK
INVARIANT CloseIsLast
INVARIANT NothingLost
INVARIANT EveryTaskEnds
INVARIANT AccountErrorOnce
INVARIANT PartialIsHonest
PROPERTY ImplementsStream
PROPERTY ScanCloses
PROPERTY ConsumerSeesEnd
