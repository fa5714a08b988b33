CONSTANTS
    noArn = noArn
    NoArn = noArn
    Resource <- MCResource
    MaxBatch = 2
    MaxReceived = 4
    Query <- MCQuery
    Score <- MCScore
    MaxHits = 2
    MaxRows = 3
    Streaming = FALSE
    Uses = {"scan", "table", "finder", "plan"}
    Plan <- Configs
    Base = base
    NoName = noArn

SPECIFICATION MCSpec

INVARIANT TypeOK
INVARIANT IndexExact
INVARIANT SortedWithText
INVARIANT FinderHitsInRange
INVARIANT FinderHitsMatch
INVARIANT SelectionStays
INVARIANT JumpLandsOnRow
INVARIANT SameAsDedupe
INVARIANT MeterExact
INVARIANT CredsMatchAccount
PROPERTY TransitionsFlagged
PROPERTY ImplementsInventory
PROPERTY RichestThenNewest
