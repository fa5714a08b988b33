-------------------------------- MODULE Screens --------------------------------
(***************************************************************************)
(* A terminal runs one of the screens: the Summary (whose scan SummaryTUI  *)
(* has), a dashboard, an explorer or a feed, or a part that they share.    *)
(* They have their ways to load, to wait and to show in common, and with   *)
(* them the ways to get these wrong; the properties are stated of          *)
(* whichever screen runs.  Where a screen has parts that hardly meet, the  *)
(* parts run apart, so that each can have more commands under way.         *)
(***************************************************************************)
EXTENDS Tea

CONSTANTS
    Job, Region1, Region2, Other,
    Cluster, SubView,
    Function, Image, Layer, Match,
    Queue, QMatch, DeadLetter,
    Key, Query, Items,
    Groups, GMatch, Streams,
    Bucket, BMatch, Silent, Depth, Text, Csv, Parquet, Tar, Window,
    Service,
    VPC, Overlay, Subject,
    Regions, Failed, Times, Limit, MaxPages,
    Rows, MaxRows,
    Scanned, Pool, Buffer,
    Twin, Single, Pane, Dialog, Scope, Resource,
    Tall, Height, Width,
    Entry

VARIABLE app   \* the screen that runs

ASSUME ScreensAssumption ==
    /\ Region1 # Region2 /\ Image \subseteq Function
    /\ QMatch \subseteq Queue /\ DeadLetter \in Queue
    /\ GMatch \subseteq Groups /\ BMatch \union Silent \subseteq Bucket
    /\ Text \intersect Csv = {} /\ Parquet \intersect (Text \union Csv) = {}
    /\ Tar \intersect (Text \union Csv \union Parquet) = {}
    /\ Failed \subseteq Regions
    /\ VPC # {} /\ None \notin VPC
    /\ IsFiniteSet(Times) /\ Times \subseteq Nat
    /\ Limit \in Nat /\ MaxPages \in Nat /\ Rows \in Nat /\ MaxRows \subseteq Nat
    /\ IsFiniteSet(Scanned) /\ Scanned # {} /\ Scanned = 1..Cardinality(Scanned)
    /\ Entry = 1..Cardinality(Entry) /\ None \notin Entry
    /\ Twin \intersect Single = {} /\ None \notin Twin \union Single
    /\ Dialog \subseteq {"help", "about", "debug", "errors", "coverage", "diff", "switcher",
                        "filter", "finder", "filtering"}

\* Resources of different regions, as far as there are two.
Regional(S) ==
    LET one == CHOOSE x \in S : TRUE IN [x \in S |-> IF x = one THEN Region1 ELSE Region2]
One(S) == {CHOOSE x \in S : TRUE}

Glue == INSTANCE GlueTUI WITH MaxCmds <- MaxCmds + 1, RegionOf <- Regional(Job)
EMR == INSTANCE EMRTUI WITH SubView <- SubView \ {"hbase"}, RegionOf <- Regional(Cluster)
HBase == INSTANCE EMRTUI WITH MaxCmds <- MaxCmds - 1, SubView <- {"hbase"}, RegionOf <- Regional(Cluster)
Lambda == INSTANCE LambdaTUI WITH MaxCmds <- MaxCmds - 1
SQS == INSTANCE SqsTUI WITH MaxCmds <- MaxCmds - 1,
    DLQ <- [q \in Queue |-> IF q = DeadLetter THEN None ELSE DeadLetter]
Tags == INSTANCE TagsTUI WITH MaxCmds <- MaxCmds - 1, Query <- {}
Typed == INSTANCE TagsTUI WITH MaxCmds <- MaxCmds - 1, Key <- One(Key)
Cw == INSTANCE CwTUI WITH MaxCmds <- MaxCmds - 1, Viewed <- {}
\* A group searched as a whole: two viewers, one after the other.
Viewer == INSTANCE CwTUI WITH Groups <- One(Groups), GMatch <- One(Groups), Streams <- 0, Viewed <- Groups
Buckets == INSTANCE S3Buckets WITH MaxCmds <- MaxCmds - 1
Objects == INSTANCE S3Objects WITH MaxCmds <- MaxCmds - 1, Bucket <- One(Bucket)
Preview == INSTANCE S3Preview WITH MaxCmds <- MaxCmds - 1
\* The scan for VPCs with its search, over one VPC; the browser, over two; the
\* filter of its table.
Vpcs == INSTANCE VpcTUI WITH MaxCmds <- MaxCmds - 1, VPC <- One(VPC), RegionOf <- [v \in One(VPC) |-> Region2],
    Home <- Region1, Type <- {1}, First <- 1, VpcMatch <- {None}, RowMatch <- {}, Lists <- {{1, 2}}
Vpc == INSTANCE VpcTUI WITH MaxCmds <- MaxCmds - 1, Gen <- {1}, RegionOf <- Regional(VPC), Home <- Region1,
    Type <- {1, 2}, First <- 1, VpcMatch <- {}, RowMatch <- {}, Lists <- {{1, 2}}
Filtered == INSTANCE VpcTUI WITH MaxCmds <- MaxCmds - 1, Gen <- {1}, RegionOf <- Regional(VPC), Home <- Region1,
    Type <- {1}, First <- 1, VpcMatch <- {}, RowMatch <- {2}, Lists <- {{}, {1, 2}}
\* The overlays, which do not ask for what the browser reads.
Overlays == INSTANCE VpcTUI WITH MaxCmds <- MaxCmds - 1, Overlay <- Overlay \ {"trace", "diff", "analyzer"},
    RegionOf <- Regional(VPC), Home <- Region1, Type <- {1}, First <- 1, VpcMatch <- {}, RowMatch <- {}, Lists <- {}
Analyzer == INSTANCE VpcTUI WITH MaxCmds <- MaxCmds - 1, Overlay <- {"analyzer"},
    RegionOf <- Regional(VPC), Home <- Region1, Type <- {1}, First <- 1, VpcMatch <- {}, RowMatch <- {}, Lists <- {}
Snapshots == INSTANCE VpcTUI WITH MaxCmds <- MaxCmds - 1, VPC <- One(VPC), Overlay <- {"trace", "diff"},
    RegionOf <- Regional(VPC), Home <- Region1, Type <- {1}, First <- 1, VpcMatch <- {}, RowMatch <- {}, Lists <- {}
Feed == INSTANCE FeedTUI   \* trail, lake, audit and bill

\* The Summary's detail panel, beside the settings, which take what it waits for;
\* its other overlays; and its table.
IdOf == [r \in Twin \union Single |-> IF r \in Twin THEN None ELSE r]
ServiceOf == [r \in Resource |-> r + 1]
Cell == [r \in Resource |-> <<Cardinality(Resource) - r>>]
Panes == INSTANCE SummaryPanes WITH MaxCmds <- MaxCmds - 1, Found <- Twin \union Single,
    Overlay <- {"settings"}, Scope <- One(Scope), Matching <- {}, Picked <- {}
Dialogs == INSTANCE SummaryPanes WITH MaxCmds <- MaxCmds - 1, Found <- Single, Pane <- {},
    Overlay <- Dialog, Matching <- {}, Picked <- {}
Table == INSTANCE SummaryPanes WITH Found <- Single, Overlay <- {}, Matching <- One(Resource),
    Picked <- Resource \ One(Resource)
\* The settings with a theme of two roles, and with two themes of one; and the
\* table widget, with columns that its rows widen and with one column.  Results with
\* equal cells in a column, and paths of three.
Sections == <<<<1>>, <<2>>>>
Fallback == <<None, 1>>
Builtin == <<<<1, None>>>>
Wheel == <<1, 2>>
Amber == 2
Spans == {<<1, 2, 2, 3>>, <<1, 2, 3, 3>>, <<1>>}
EMatch == {e \in Entry : e % 2 = 0}
Errored == {e \in Entry : e > 1}
Cells == [e \in Entry |-> <<e % 2, Cardinality(Entry) - e>>]
Edge == {e \in Entry \X Entry : e[2] = e[1] + 1} \union {<<2, 1>>}
Hops == 3
Roles == INSTANCE SharedUI WITH MaxCmds <- MaxCmds - 2
Themes == INSTANCE SharedUI WITH MaxCmds <- MaxCmds - 1, Sections <- <<<<1>>>>, Fallback <- <<None>>,
    Builtin <- <<<<1>>, <<0>>>>, Wheel <- <<1>>, Amber <- 1
Parts == INSTANCE SharedUI

Apps == {"glue", "emr", "hbase", "lambda", "sqs", "tags", "typed", "cw", "viewer",
         "buckets", "objects", "preview", "vpcs", "vpc", "filtered", "overlays", "analyzer",
         "snapshots", "bill", "trail", "lake", "audit",
         "panes", "dialogs", "table", "roles", "themes", "widget", "results", "explorer"}

Init ==
    \/ app = "glue" /\ Glue!Init
    \/ app = "emr" /\ EMR!Init
    \/ app = "hbase" /\ HBase!Init
    \/ app = "lambda" /\ Lambda!Init
    \/ app = "sqs" /\ SQS!Init
    \/ app = "tags" /\ Tags!Init
    \/ app = "typed" /\ Typed!Init
    \/ app = "cw" /\ Cw!Init
    \/ app = "viewer" /\ Viewer!Init
    \/ app = "buckets" /\ Buckets!Init
    \/ app = "objects" /\ Objects!Init
    \/ app = "preview" /\ Preview!Init
    \/ app = "vpcs" /\ Vpcs!Init
    \/ app = "vpc" /\ Vpc!Init
    \/ app = "filtered" /\ Filtered!Init
    \/ app = "overlays" /\ Overlays!OverlaysInit
    \/ app = "analyzer" /\ Analyzer!OverlaysInit
    \/ app = "snapshots" /\ Snapshots!OverlaysInit
    \/ app = "bill" /\ Feed!BillInit
    \/ app = "trail" /\ Feed!TrailInit
    \/ app = "lake" /\ Feed!LakeInit
    \/ app = "audit" /\ Feed!AuditInit
    \/ app = "panes" /\ Panes!PanesInit
    \/ app = "dialogs" /\ Dialogs!PanesInit
    \/ app = "table" /\ Table!InventoryInit
    \/ app = "roles" /\ Roles!SettingsInit
    \/ app = "themes" /\ Themes!SettingsInit
    \/ app = "widget" /\ Parts!TableInit
    \/ app = "results" /\ Parts!ResultsInit
    \/ app = "explorer" /\ Parts!ExplorerInit

Next ==
    \/ app = "glue" /\ Glue!Next /\ UNCHANGED app
    \/ app = "emr" /\ EMR!Next /\ UNCHANGED app
    \/ app = "hbase" /\ HBase!Next /\ UNCHANGED app
    \/ app = "lambda" /\ Lambda!Next /\ UNCHANGED app
    \/ app = "sqs" /\ SQS!Next /\ UNCHANGED app
    \/ app = "tags" /\ Tags!Next /\ UNCHANGED app
    \/ app = "typed" /\ Typed!Next /\ UNCHANGED app
    \/ app = "cw" /\ Cw!Next /\ UNCHANGED app
    \/ app = "viewer" /\ Viewer!Next /\ UNCHANGED app
    \/ app = "buckets" /\ Buckets!Next /\ UNCHANGED app
    \/ app = "objects" /\ Objects!Next /\ UNCHANGED app
    \/ app = "preview" /\ Preview!Next /\ UNCHANGED app
    \/ app = "vpcs" /\ Vpcs!Next /\ UNCHANGED app
    \/ app = "vpc" /\ Vpc!Next /\ UNCHANGED app
    \/ app = "filtered" /\ Filtered!Next /\ UNCHANGED app
    \/ app = "overlays" /\ Overlays!OverlaysNext /\ UNCHANGED app
    \/ app = "analyzer" /\ Analyzer!OverlaysNext /\ UNCHANGED app
    \/ app = "snapshots" /\ Snapshots!OverlaysNext /\ UNCHANGED app
    \/ app = "bill" /\ Feed!BillNext /\ UNCHANGED app
    \/ app = "trail" /\ Feed!TrailNext /\ UNCHANGED app
    \/ app = "lake" /\ Feed!LakeNext /\ UNCHANGED app
    \/ app = "audit" /\ Feed!AuditNext /\ UNCHANGED app
    \/ app = "panes" /\ Panes!PanesNext /\ UNCHANGED app
    \/ app = "dialogs" /\ Dialogs!PanesNext /\ UNCHANGED app
    \/ app = "table" /\ Table!InventoryNext /\ UNCHANGED app
    \/ app = "roles" /\ Roles!SettingsNext /\ UNCHANGED app
    \/ app = "themes" /\ Themes!SettingsNext /\ UNCHANGED app
    \/ app = "widget" /\ Parts!TableNext /\ UNCHANGED app
    \/ app = "results" /\ Parts!ResultsNext /\ UNCHANGED app
    \/ app = "explorer" /\ Parts!ExplorerNext /\ UNCHANGED app

-------------------------------------------------------------------------------
TypeOK ==
    /\ app \in Apps
    /\ CASE app = "cw" -> Cw!TypeOK /\ Cw!SelectionInRange
         [] app = "sqs" -> SQS!TypeOK
         [] app = "snapshots" -> Snapshots!OverlaysTypeOK
         [] app = "objects" -> Objects!TypeOK
         [] app = "tags" -> Tags!TypeOK
         [] app = "preview" -> Preview!TypeOK
         [] app = "viewer" -> Viewer!TypeOK
         [] app = "vpc" -> Vpc!TypeOK
         [] app = "vpcs" -> Vpcs!TypeOK
         [] app = "glue" -> Glue!TypeOK
         [] app = "panes" -> Panes!PanesTypeOK
         [] app = "lambda" -> Lambda!TypeOK
         [] app = "dialogs" -> Dialogs!PanesTypeOK
         [] app = "buckets" -> Buckets!TypeOK
         [] app = "emr" -> EMR!TypeOK
         [] app = "trail" -> Feed!TrailTypeOK
         [] app = "roles" -> Roles!SettingsTypeOK
         [] app = "overlays" -> Overlays!OverlaysTypeOK
         [] app = "themes" -> Themes!SettingsTypeOK
         [] app = "filtered" -> Filtered!TypeOK
         [] app = "results" -> Parts!ResultsTypeOK
         [] app = "table" -> Table!InventoryTypeOK
         [] app = "hbase" -> HBase!TypeOK
         [] app = "typed" -> Typed!TypeOK
         [] app = "analyzer" -> Analyzer!OverlaysTypeOK
         [] app = "widget" -> Parts!TableTypeOK
         [] app = "explorer" -> Parts!ExplorerTypeOK
         [] app = "bill" -> Feed!BillTypeOK
         [] app = "audit" -> Feed!AuditTypeOK
         [] app = "lake" -> Feed!LakeTypeOK

\* What is on display was put there by one load, and the counters of a load
\* count its own answers: the generation tag of gluetui and emrtui; in EMR the
\* list is also of the scope the terminated-clusters toggle says.  In the tags
\* dashboard counts are read one at a time and by the last pass only, and the
\* bill is never fetched twice at a time, nor is a paid analysis run; the VPC
\* overlays share one fetch of the snapshot.
OneLoad ==
    CASE app = "snapshots" -> Snapshots!OneLoad
      [] app = "tags" -> Tags!OneLoad
      [] app = "glue" -> Glue!OneLoad
      [] app = "emr" -> EMR!OneLoad /\ EMR!ScopeInSync
      [] app = "overlays" -> Overlays!OneLoad
      [] app = "hbase" -> HBase!OneLoad
      [] app = "typed" -> Typed!OneLoad
      [] app = "analyzer" -> Analyzer!OneLoad
      [] app = "bill" -> Feed!OneLoad
      [] OTHER -> TRUE

\* No screen spins for an answer that no command under way will bring, with
\* the exceptions the screens' own SpinnerEnds name.
SpinnerEnds ==
    CASE app = "cw" -> Cw!SpinnerEnds
      [] app = "sqs" -> SQS!SpinnerEnds
      [] app = "snapshots" -> Snapshots!OverlaysSpinnerEnds
      [] app = "objects" -> Objects!SpinnerEnds
      [] app = "tags" -> Tags!SpinnerEnds
      [] app = "preview" -> Preview!SpinnerEnds
      [] app = "viewer" -> Viewer!SpinnerEnds
      [] app = "vpc" -> Vpc!SpinnerEnds
      [] app = "vpcs" -> Vpcs!SpinnerEnds
      [] app = "glue" -> Glue!SpinnerEnds
      [] app = "panes" -> Panes!PanesSpinnerEnds
      [] app = "lambda" -> Lambda!SpinnerEnds
      [] app = "dialogs" -> Dialogs!PanesSpinnerEnds
      [] app = "buckets" -> Buckets!SpinnerEnds
      [] app = "emr" -> EMR!SpinnerEnds
      [] app = "trail" -> Feed!TrailSpinnerEnds
      [] app = "overlays" -> Overlays!OverlaysSpinnerEnds
      [] app = "filtered" -> Filtered!SpinnerEnds
      [] app = "hbase" -> HBase!SpinnerEnds
      [] app = "typed" -> Typed!SpinnerEnds
      [] app = "analyzer" -> Analyzer!OverlaysSpinnerEnds
      [] app = "explorer" -> Parts!ExplorerSpinnerEnds
      [] app = "bill" -> Feed!BillSpinnerEnds
      [] app = "audit" -> Feed!AuditSpinnerEnds
      [] app = "lake" -> Feed!LakeSpinnerEnds
      [] OTHER -> TRUE

\* A view shows the resource in its title, whatever answers arrive late, with
\* the exceptions the screens' own ShowsSubject name.
ShowsSubject ==
    CASE app = "cw" -> Cw!ShowsSubject
      [] app = "sqs" -> SQS!ShowsSubject
      [] app = "snapshots" -> Snapshots!OverlaysShowSubject
      [] app = "objects" -> Objects!ShowsSubject
      [] app = "tags" -> Tags!ShowsSubject
      [] app = "preview" -> Preview!ShowsSubject
      [] app = "viewer" -> Viewer!ShowsSubject
      [] app = "vpc" -> Vpc!ShowsSubject
      [] app = "vpcs" -> Vpcs!ShowsSubject
      [] app = "glue" -> Glue!ShowsSubject
      [] app = "panes" -> Panes!PanesShowSubject
      [] app = "lambda" -> Lambda!ShowsSubject
      [] app = "dialogs" -> Dialogs!PanesShowSubject
      [] app = "buckets" -> Buckets!ShowsSubject
      [] app = "emr" -> EMR!ShowsSubject
      [] app = "roles" -> Roles!SettingsShowSubject
      [] app = "overlays" -> Overlays!OverlaysShowSubject
      [] app = "themes" -> Themes!SettingsShowSubject
      [] app = "filtered" -> Filtered!ShowsSubject
      [] app = "results" -> Parts!ResultsShowSubject
      [] app = "table" -> Table!InventoryShowsSubject
      [] app = "hbase" -> HBase!ShowsSubject
      [] app = "typed" -> Typed!ShowsSubject
      [] app = "analyzer" -> Analyzer!OverlaysShowSubject
      [] app = "widget" -> Parts!TableShowsSubject
      [] OTHER -> TRUE

\* Lambda, SQS, the VPC browser, the Summary, the pages of results and the explorer:
\* the table is the loaded list under the tab, the filter and the order.
TableCurrent ==
    /\ app = "lambda" => Lambda!TableCurrent
    /\ app = "sqs" => SQS!TableCurrent
    /\ app = "vpcs" => Vpcs!TableCurrent
    /\ app = "vpc" => Vpc!TableCurrent
    /\ app = "filtered" => Filtered!TableCurrent
    /\ app = "table" => Table!InventoryTableCurrent
    /\ app = "results" => Parts!ResultsCurrent
    /\ app = "explorer" => Parts!ExplorerCurrent

\* Lambda, SQS, the VPC explorer and the Summary: a key goes to the page that is
\* drawn on top.
KeysReachDrawn ==
    /\ app = "lambda" => Lambda!KeysReachDrawn
    /\ app = "sqs" => SQS!KeysReachDrawn
    /\ app = "vpcs" => Vpcs!KeysReachDrawn
    /\ app = "vpc" => Vpc!KeysReachDrawn
    /\ app = "filtered" => Filtered!KeysReachDrawn
    /\ app = "overlays" => Overlays!OverlaysHaveKeys
    /\ app = "analyzer" => Analyzer!OverlaysHaveKeys
    /\ app = "snapshots" => Snapshots!OverlaysHaveKeys
    /\ app = "dialogs" => Dialogs!PanesHaveKeys

\* Watch mode, an open log viewer and the live bill have a timer running,
\* however often they are switched, left and opened again: the ticks are the
\* timer.
KeepsTicking ==
    /\ app = "cw" => Cw!KeepsTicking
    /\ app = "viewer" => Viewer!KeepsTicking
    /\ app = "bill" => Feed!KeepsTicking

\* A feed that was read from several regions or pages shows all there is up to
\* its bound, or says that it does not.
FeedComplete ==
    /\ app = "vpcs" => Vpcs!FeedComplete
    /\ app = "vpc" => Vpc!FeedComplete
    /\ app = "filtered" => Filtered!FeedComplete
    /\ app = "trail" => Feed!TrailFeedComplete
    /\ app = "lake" => Feed!LakeFeedComplete
    /\ app = "audit" => Feed!AuditFeedComplete

\* The VPC browser reads a VPC in the region it is in: see VpcTUI.
ReadInItsRegion == app = "vpc" => Vpc!ReadInItsRegion
===============================================================================
