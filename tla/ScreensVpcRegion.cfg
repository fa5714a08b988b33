INIT Init
NEXT Next
CONSTANTS
    None = None
    MaxCmds = 3
    Gen = {1, 2}
    Job = {j1, j2}
    Other = {o1}
    Region1 = r1
    Region2 = r2
    Cluster = {c1, c2}
    SubView = {"hbase", "config", "describe", "appui"}
    Function = {f1, f2}
    Image = {f2}
    Layer = {l1}
    Match = {f1}
    Queue = {0, 1}
    QMatch = {1}
    DeadLetter = 1
    Key = {k1, k2}
    Query = {q1}
    Items = 1
    Groups = {1, 2}
    GMatch = {2}
    Streams = 1
    Bucket = {1, 2}
    BMatch = {2}
    Silent = {1}
    Depth = 1
    Text = {1}
    Csv = {2}
    Parquet = {4}
    Tar = {5, 6}
    Window = {1, 2}
    Service = {1, 2}
    VPC = {v1, v2}
    Overlay = {"trace", "diff", "xref", "analyzer"}
    Subject = {i1}
    Regions = {1, 2}
    Failed = {2}
    Times = {1, 2, 3, 4}
    Limit = 2
    MaxPages = 3
    Rows = 3
    MaxRows = {0, 2}
    Scanned = {1, 2, 3}
    Pool = 2
    Buffer = 1
    Twin = {t1, t2}
    Single = {s1}
    Pane = {"logs"}
    Dialog = {"about", "debug", "errors", "diff", "switcher", "filter", "finder", "filtering"}
    Scope = {1, 2}
    Resource = {1, 2}
    Tall = 6
    Height = {1, 2, 3}
    Width = {0, 4, 6}
    Entry = {1, 2, 3}
INVARIANT ReadInItsRegion
CHECK_DEADLOCK FALSE
