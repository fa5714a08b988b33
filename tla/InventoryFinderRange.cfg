CONSTANTS
    noArn = noArn
    NoArn = noArn
    Resource <- MCResource
    MaxBatch = 2
    MaxReceived = 4
    Query <- MCQuery
    Score <- MCScore
    MaxHits = 2
    MaxRows = 3
    Streaming = TRUE
    Uses = {"finder"}
    Plan = {}
    Base = base
    NoName = noArn

SPECIFICATION MCSpec

INVARIANT FinderHitsInRange
