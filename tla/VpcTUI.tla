--------------------------------- MODULE VpcTUI ---------------------------------
(***************************************************************************)
(* The VPC explorer: the scan of the regions for VPCs, their list with its *)
(* search, and the browser of one VPC's resources, which keeps a map per   *)
(* resource type.  The settings panel, while it is open, takes every       *)
(* message, the answers too.  A set of rows stands for a list; 1 and 2 are *)
(* the rows of a type that has any.                                        *)
(***************************************************************************)
EXTENDS Tea

CONSTANTS
    VPC, RegionOf,   \* the VPCs of the account
    Home,            \* the region the program was started in
    Type, First,     \* resource types, and the first of the sidebar
    VpcMatch, RowMatch,  \* what the searches that are typed find
    Lists,               \* what a read of a type may find
    Overlay,    \* the overlays the user opens
    Subject     \* resources the user asks about in them

Region == {Home} \union {RegionOf[v] : v \in VPC}
Fetch(v, rt, r) == Cmd("resources", 0, [vpc |-> v, rt |-> rt, region |-> r, cached |-> None])
NoTable(rt) == [vpc |-> None, rt |-> rt, rows |-> {}]
Scanning == Running("discover") \union Running("region")

\* m.mixed, for the properties alone: the scan began while another ran.
\* m.lost: answers the settings panel took.
Init ==
    /\ m = [loading |-> TRUE, scanning |-> FALSE, total |-> 0, done |-> 0, scan |-> 1,
            mixed |-> FALSE, listed |-> {}, rows |-> {}, page |-> "list", focus |-> "list",
            selected |-> None, client |-> Home, side |-> First, active |-> First, maps |-> <<>>,
            table |-> NoTable(First), viewed |-> FALSE, query |-> FALSE, resourceLoading |-> FALSE,
            resourceErr |-> FALSE, pending |-> FALSE, err |-> FALSE, lost |-> {}]
    /\ cmds = Batch({Cmd("discover", 1, None)})

On(focus) == m.focus = focus

-------------------------------------------------------------------------------
\* "r" in the list.  The rows stay until a region answers.
loadVPCs ==
    /\ On("list")
    /\ \E g \in Gen :
         /\ Fresh(g, m.scan)
         /\ m' = [m EXCEPT !.loading = TRUE, !.scanning = FALSE, !.total = 0, !.done = 0,
                           !.listed = {}, !.scan = g, !.mixed = Scanning # {}]
         /\ Return({Cmd("discover", g, None)})

\* Regions are always found: there is a list to fall back on.
regionsDiscoveredMsg(c) ==
    /\ c.kind = "discover"
    /\ m' = [m EXCEPT !.scanning = TRUE, !.total = Cardinality(Region)]
    /\ ReturnFrom(c, {Cmd("region", c.gen, r) : r \in Region})

\* A region that fails or is denied lists nothing.  The answers carry no
\* scan: those of an earlier one count.
regionScannedMsg(c) ==
    /\ c.kind = "region"
    /\ \E found \in {{}, {v \in VPC : RegionOf[v] = c.key}} :
         LET listed == m.listed \union found
             ends == m.done + 1 >= m.total
         IN  m' = [m EXCEPT !.done = @ + 1, !.listed = listed, !.rows = listed,
                            !.loading = @ /\ ~ends, !.scanning = @ /\ ~ends]
    /\ ReturnFrom(c, {})

\* "/", then a search is typed, kept or dropped.
Search ==
    /\ \/ On("list") /\ VpcMatch # {} /\ m' = [m EXCEPT !.focus = "search"]
       \/ /\ On("search")
          /\ \/ \E keep \in {VpcMatch, VPC} : m' = [m EXCEPT !.rows = m.listed \intersect keep]
             \/ m' = [m EXCEPT !.focus = "list"]
             \/ m' = [m EXCEPT !.focus = "list", !.rows = m.listed]
    /\ UNCHANGED cmds

-------------------------------------------------------------------------------
Shown(s) ==
    IF s.query THEN s.maps[s.active].rows \intersect RowMatch ELSE s.maps[s.active].rows

rebuildResourceTable(s) ==
    IF s.active \in DOMAIN s.maps
    THEN [s EXCEPT !.table = [vpc |-> s.maps[s.active].vpc, rt |-> s.active, rows |-> Shown(s)],
                   !.viewed = TRUE]
    ELSE [s EXCEPT !.table = NoTable(s.active), !.viewed = TRUE]

\* What is loaded is brought again; otherwise the view is dropped, though not
\* the rows of the table.
loadResources(s) ==
    LET fetch == Fetch(s.selected, s.active, s.client)
    IN  IF s.active \in DOMAIN s.maps
        THEN /\ m' = [s EXCEPT !.resourceLoading = TRUE, !.resourceErr = FALSE]
             /\ Return({[fetch EXCEPT !.key.cached = s.maps[s.active]]})
        ELSE /\ m' = [s EXCEPT !.resourceLoading = TRUE, !.resourceErr = FALSE, !.viewed = FALSE]
             /\ Return({fetch})

\* Enter on a row that is still listed.  A client is made for a region that is
\* not the first, which may fail; for the first the client stays what it is.
enterVPC(v) ==
    /\ On("list") /\ v \in m.rows \intersect m.listed
    /\ \/ /\ RegionOf[v] # Home
          /\ m' = [m EXCEPT !.selected = v, !.err = TRUE] /\ UNCHANGED cmds
       \/ loadResources([m EXCEPT
            !.selected = v, !.client = IF RegionOf[v] # Home THEN RegionOf[v] ELSE @,
            !.maps = <<>>, !.query = FALSE, !.side = First, !.active = First,
            !.page = "browser", !.focus = "category"])

Leave ==
    /\ On("category") \/ On("table")
    /\ m' = [m EXCEPT !.page = "list", !.focus = "list", !.selected = None]
    /\ UNCHANGED cmds

\* Tab and the arrows.
Move ==
    /\ \/ On("category") /\ m' = [m EXCEPT !.focus = "table"]
       \/ On("table") /\ m' = [m EXCEPT !.focus = "category"]
       \/ On("category") /\ \E rt \in Type : m' = [m EXCEPT !.side = rt]
    /\ UNCHANGED cmds

\* Enter in the sidebar: the focus goes to the table at once if it is known to
\* have rows, or when that becomes known.
Choose ==
    /\ On("category")
    /\ LET s == [m EXCEPT !.active = m.side, !.query = FALSE, !.table = NoTable(m.side)]
           jumps == s.active \in DOMAIN s.maps /\ s.maps[s.active].rows # {}
       IN  IF s.active \in DOMAIN s.maps
           THEN loadResources([rebuildResourceTable(s) EXCEPT !.focus = IF jumps THEN "table" ELSE @])
           ELSE loadResources([s EXCEPT !.pending = TRUE])

refreshResources ==
    /\ On("table") /\ m.page = "browser"
    /\ loadResources([m EXCEPT !.maps = [rt \in DOMAIN @ \ {m.active} |-> @[rt]]])

\* "/" in the table: an empty query first; then it is typed, kept or cleared.
Filter ==
    /\ \/ On("table") /\ RowMatch # {} /\ m' = rebuildResourceTable([m EXCEPT !.focus = "filter", !.query = FALSE])
       \/ /\ On("filter")
          /\ \/ \E query \in BOOLEAN : m' = rebuildResourceTable([m EXCEPT !.query = query])
             \/ m' = [m EXCEPT !.focus = "table"]
             \/ m' = rebuildResourceTable([m EXCEPT !.focus = "table", !.query = FALSE])
    /\ UNCHANGED cmds

\* The VPC must be the one that is browsed; the type need not.
resourcesLoadedMsg(c) ==
    /\ c.kind = "resources" /\ ReturnFrom(c, {})
    /\ IF m.selected # c.key.vpc THEN m' = m
       ELSE \/ /\ c.key.cached = None
               /\ m' = [m EXCEPT !.resourceLoading = FALSE, !.resourceErr = TRUE]
            \/ \E got \in IF c.key.cached # None THEN {c.key.cached}
                          ELSE [vpc : {c.key.vpc}, region : {c.key.region}, rows : Lists] :
                 LET s == [m EXCEPT !.resourceLoading = FALSE,
                             !.maps = [rt \in DOMAIN @ \union {c.key.rt} |->
                                         IF rt = c.key.rt THEN got ELSE @[rt]]]
                     jumps == m.pending /\ got.rows # {}
                 IN  m' = IF c.key.rt # m.active THEN s
                          ELSE [rebuildResourceTable(s) EXCEPT !.pending = FALSE,
                                  !.focus = IF jumps /\ @ # "filter" THEN "table" ELSE @]

\* "S" from any of the panes opens the settings panel; an answer that arrives
\* before it is closed is lost.  One that is lost is enough.
Settings(c) ==
    /\ m.lost = {} /\ m.focus \in {"list", "category", "table"}
    /\ m' = [m EXCEPT !.lost = {c.kind}]
    /\ ReturnFrom(c, {})

Next ==
    \/ loadVPCs \/ Search \/ Leave \/ Move \/ Choose \/ refreshResources \/ Filter
    \/ \E v \in VPC : enterVPC(v)
    \/ \E c \in UnderWay :
         regionsDiscoveredMsg(c) \/ regionScannedMsg(c) \/ resourcesLoadedMsg(c) \/ Settings(c)

-------------------------------------------------------------------------------
TypeOK ==
    /\ m.page \in {"list", "browser"} /\ m.client \in Region /\ m.selected \in VPC \union {None}
    /\ m.focus \in {"list", "search", "category", "table", "filter"}
    /\ m.rows \subseteq VPC /\ m.listed \subseteq VPC /\ DOMAIN m.maps \subseteq Type

\* The list says that it is being read only while it is, and the browser spins
\* only for an answer of its VPC, unless the settings panel took the answer.
SpinnerEnds ==
    /\ m.loading \/ m.scanning => Scanning # {} \/ m.lost # {}
    /\ m.resourceLoading /\ m.page = "browser" =>
         (\E c \in Running("resources") : c.key.vpc = m.selected) \/ "resources" \in m.lost

\* Once the list is no longer being read every region has answered or is
\* counted as failed, unless the scan was started while another ran.
FeedComplete == ~m.loading /\ ~m.mixed /\ m.lost = {} => Scanning = {} /\ m.done = m.total

\* All that is kept while a VPC is browsed is that VPC's, and so is a table
\* that is drawn, unless one could not be entered.
Drawn ==
    /\ m.page = "browser" /\ ~m.resourceLoading /\ ~m.resourceErr
    /\ m.active \in DOMAIN m.maps /\ m.maps[m.active].rows # {}
ShowsSubject ==
    m.page = "browser" /\ ~m.err => /\ \A rt \in DOMAIN m.maps : m.maps[rt].vpc = m.selected
                                     /\ Drawn => m.table.vpc = m.selected

\* A table that is drawn shows the rows of the active type under the filter,
\* and the keys that act on an entry find it in them.
TableCurrent == Drawn => m.table.rt = m.active /\ m.table.rows = Shown(m) /\ m.viewed

\* The keys go to the page that is drawn, but for a VPC that could not be
\* entered and whose answers of an earlier visit arrive.
KeysReachDrawn == (m.page = "list") = (m.focus \in {"list", "search"}) \/ m.err

\* What is shown of a VPC was read in its region.
ReadInItsRegion ==
    m.page = "browser" => \A rt \in DOMAIN m.maps : m.maps[rt].region = RegionOf[m.selected]

-------------------------------------------------------------------------------
(***************************************************************************)
(* The overlays of the VPC explorer, which debug the VPC that is browsed.  *)
(* All but two compute from a snapshot of the VPC, which is cached: it is  *)
(* good until it has aged, and r, or entering the VPC, drops it.  Who asks *)
(* while a snapshot is fetched waits for that.  The epoch of a VPC changes *)
(* when its snapshot is dropped; a command's generation is the epoch its   *)
(* snapshot's fetch began in.                                              *)
(***************************************************************************)

\* Which overlays compute from the snapshot, and which of them are about a
\* resource: "trace" is, whose destination is asked for in an input first.
Cached == {"findings", "exposure", "trace", "xref", "effective"}
About == {"trace", "xref", "effective"}
Still == {"detail", "help"}

ViewOrder == <<"help", "detail", "findings", "xref", "effective", "dns", "diff", "exposure",
               "analyzer", "traceInput", "trace">>
KeyOrder == <<"traceInput", "detail", "trace", "exposure", "dns", "effective", "xref", "findings",
              "analyzer", "diff", "help">>
Top(order, open) == CHOOSE o \in open :
    \/ open = {o}
    \/ \A i \in DOMAIN order :
         order[i] = o => \A j \in DOMAIN order : order[j] \in open => i <= j

\* What the open overlay, the comparison apart, is about and shows.
Blank == [loading |-> FALSE, subject |-> None, shown |-> None, epoch |-> 0, overtaken |-> FALSE]

\* m.racing, for the properties alone: when the snapshot was dropped last,
\* something was under way.
OverlaysInit ==
    /\ m = [selected |-> None, open |-> {}, ov |-> Blank, input |-> None,
            cache |-> [v \in VPC |-> 0], flight |-> [v \in VPC |-> 0], epoch |-> [v \in VPC |-> 1],
            racing |-> {}, current |-> None, changes |-> None, diffErr |-> FALSE, actors |-> None,
            actorsLoading |-> FALSE, saved |-> {}, mode |-> "list", running |-> FALSE, path |-> "none"]
    /\ cmds = EmptyBag

\* A command that has yet to look for its snapshot, is fetching or waiting for
\* it, or has it.
Task(kind, v, subject) == Cmd(kind, 0, [vpc |-> v, subject |-> subject, at |-> "begin"])
Now(c, epoch, at) == [c EXCEPT !.gen = epoch, !.key.at = at]
Of(v) == {c \in UnderWay : c.key.vpc = v}

Base == m.selected # None /\ m.open = {}

invalidate(s, v) ==
    \E g \in Gen :
      /\ Fresh(g, m.epoch[v]) /\ g \notin {m.cache[v], m.flight[v]}
      /\ m' = [s EXCEPT !.cache[v] = 0, !.epoch[v] = g,
                        !.racing = IF Of(v) # {} THEN @ \union {v} ELSE @ \ {v}]
      /\ UNCHANGED cmds

Enters(v) == m.selected = None /\ invalidate([m EXCEPT !.selected = v], v)
Leaves == Base /\ m' = [m EXCEPT !.selected = None] /\ UNCHANGED cmds
Refreshes == Base /\ invalidate(m, m.selected)

\* The cached snapshot ages.
Ages ==
    \E v \in VPC : m.cache[v] # 0 /\ m' = [m EXCEPT !.cache[v] = 0] /\ UNCHANGED cmds

-------------------------------------------------------------------------------
Ask(s, o, subject) ==
    /\ m' = [s EXCEPT !.open = {o},
               !.ov = [Blank EXCEPT !.loading = TRUE, !.subject = subject,
                  !.overtaken = \E c \in Running(o) : c.key.subject # subject \/ c.key.vpc # m.selected]]
    /\ Return({Task(o, m.selected, subject)})

\* F, P, D, x, e, A.
Open ==
    /\ Base
    /\ \E o \in Overlay \ {"trace", "diff"} :
         \E subject \in IF o \in About THEN Subject ELSE {m.selected} :
           Ask([m EXCEPT !.mode = "list"], o, subject)

\* "t" on an interface, then the destination.
Trace ==
    \/ /\ Base /\ "trace" \in Overlay
       /\ \E x \in Subject : m' = [m EXCEPT !.open = {"traceInput"}, !.input = x]
       /\ UNCHANGED cmds
    \/ /\ m.open # {} /\ Top(KeyOrder, m.open) = "traceInput"
       /\ \/ /\ m' = [m EXCEPT !.open = @ \ {"traceInput"}] /\ UNCHANGED cmds
          \/ /\ m' = [m EXCEPT !.open = (@ \ {"traceInput"}) \union {"trace"},
                               !.ov = [Blank EXCEPT !.loading = TRUE, !.subject = m.input,
                                 !.overtaken = \E c \in Running("trace") : c.key.subject # m.input]]
             /\ Return({Task("trace", m.selected, m.input)})

\* "?" and Enter on an entry.
OpenStill == Base /\ \E o \in Still : m' = [m EXCEPT !.open = {o}] /\ UNCHANGED cmds

Close ==
    /\ m.open \ {"traceInput"} # {} /\ Top(KeyOrder, m.open) # "traceInput"
    /\ Top(KeyOrder, m.open) = "analyzer" => m.running \/ m.mode = "list"
    /\ LET open == m.open \ {Top(KeyOrder, m.open)}
       IN  m' = [m EXCEPT !.open = open, !.ov = IF open \ {"diff"} = {} THEN Blank ELSE @]
    /\ UNCHANGED cmds

\* Mutant: who asks does not look whether the snapshot is the dropped one.
snapshotCacheGet_Flight(c) ==
    LET v == c.key.vpc
        epoch == IF m.cache[v] # 0 THEN m.cache[v] ELSE IF m.flight[v] # 0 THEN m.flight[v] ELSE m.epoch[v]
    IN  /\ c.key.at = "begin" /\ c.kind \in Cached
        /\ m' = [m EXCEPT !.flight[v] = epoch]
        /\ ReturnFrom(c, {Now(c, epoch, "waits")})

\* The cached snapshot, the one that is being fetched, or a new one.
snapshotCacheGet(c) ==
    LET v == c.key.vpc
    IN  /\ c.key.at = "begin" /\ c.kind \in Cached
        /\ IF m.cache[v] # 0
           THEN m' = m /\ ReturnFrom(c, {Now(c, m.cache[v], "has")})
           ELSE LET epoch == IF m.flight[v] # 0 THEN m.flight[v] ELSE m.epoch[v]
                IN  /\ m' = [m EXCEPT !.flight[v] = epoch]
                    /\ ReturnFrom(c, {Now(c, epoch, "waits")})

\* The fetch stores its snapshot, whatever has been dropped since, and all who
\* wait have it; or all have its error.
FlightEnds(v) ==
    LET waiting == [c \in {d \in Of(v) : d.key.at = "waits" /\ d.kind \in Cached} |-> cmds[c]]
        All(at) == (cmds (-) waiting) (+) BagOfAll(LAMBDA c : Now(c, c.gen, at), waiting)
    IN  /\ m.flight[v] # 0
        /\ \/ m' = [m EXCEPT !.flight[v] = 0, !.cache[v] = m.flight[v]] /\ cmds' = All("has")
           \/ m' = [m EXCEPT !.flight[v] = 0] /\ cmds' = All("failed")

staleVPCMsg(c) == m.selected # c.key.vpc

\* findingsLoadedMsg, exposureDoneMsg, traceDoneMsg, xrefDoneMsg,
\* effRulesDoneMsg, and dnsDoneMsg, whose command reads the VPC itself, as does
\* analyzerListMsg, which alone is not asked whose VPC it is.  An overlay that is
\* closed keeps its answer, but opening it forgets that.
OverlayMsg(c) ==
    /\ c.kind \in Overlay \ {"diff"}
    /\ IF c.kind \in Cached THEN c.key.at \in {"has", "failed"} ELSE c.key.at = "begin"
    /\ m' = IF c.kind \notin m.open \/ (c.kind # "analyzer" /\ staleVPCMsg(c)) THEN m
            ELSE [m EXCEPT !.ov.loading = FALSE, !.ov.epoch = c.gen,
                           !.ov.shown = IF c.key.at = "failed" THEN None ELSE c.key.subject]
    /\ ReturnFrom(c, {})

-------------------------------------------------------------------------------
\* "w": the diff fetches a snapshot of its own and stores it.
loadDiff == Base /\ "diff" \in Overlay /\ m' = m /\ Return({Task("diff", m.selected, None)})

DiffFetches(c) ==
    /\ c.kind = "diff"
    /\ \/ c.key.at = "begin" /\ m' = m /\ ReturnFrom(c, {Now(c, m.epoch[c.key.vpc], "waits")})
       \/ /\ c.key.at = "waits"
          /\ \/ m' = [m EXCEPT !.cache[c.key.vpc] = c.gen] /\ ReturnFrom(c, {Now(c, c.gen, "has")})
             \/ m' = m /\ ReturnFrom(c, {Now(c, c.gen, "failed")})

\* It opens the overlay whenever it comes: with the error of the fetch or of
\* reading the baseline, or with the changes.  The first snapshot becomes the
\* baseline, if it can be written.
diffDoneMsg(c) ==
    /\ c.kind = "diff" /\ c.key.at \in {"has", "failed"} /\ ReturnFrom(c, {})
    /\ IF staleVPCMsg(c) THEN m' = m
       ELSE LET v == c.key.vpc
                s == [m EXCEPT !.current = IF c.key.at = "has" THEN v ELSE "nothing"]
            IN  \/ m' = [s EXCEPT !.diffErr = TRUE, !.open = @ \union {"diff"}]
                \/ /\ c.key.at = "has"
                   /\ IF v \notin m.saved
                      THEN \E ok \in BOOLEAN : m' = IF ok THEN [s EXCEPT !.saved = @ \union {v}] ELSE s
                      ELSE m' = [s EXCEPT !.changes = v, !.diffErr = FALSE, !.actors = None,
                                          !.actorsLoading = FALSE, !.open = @ \union {"diff"}]

DiffKeys == m.open # {} /\ Top(KeyOrder, m.open) = "diff"

\* "t": who made the changes.
loadDiffActors ==
    /\ DiffKeys /\ ~m.actorsLoading /\ m.actors = None /\ m.changes # None
    /\ m' = [m EXCEPT !.actorsLoading = TRUE]
    /\ Return({Task("actors", m.selected, m.changes)})

diffActorsDoneMsg(c) ==
    /\ c.kind = "actors"
    /\ m' = IF staleVPCMsg(c) THEN m ELSE [m EXCEPT !.actorsLoading = FALSE, !.actors = c.key.subject]
    /\ ReturnFrom(c, {})

\* "b": what was read last is the new baseline, if it can be written.  One without
\* a name is of no VPC.
saveSnapshot ==
    /\ DiffKeys /\ UNCHANGED cmds
    /\ \E ok \in BOOLEAN : m' = [m EXCEPT !.open = @ \ {"diff"},
                                           !.saved = IF ok THEN @ \union ({m.current} \intersect VPC) ELSE @]

-------------------------------------------------------------------------------
\* The keys of the analyzer: a new analysis is typed, confirmed, and run.
Analyzer ==
    /\ m.open # {} /\ Top(KeyOrder, m.open) = "analyzer" /\ ~m.running
    /\ \/ m.mode = "list" /\ m' = [m EXCEPT !.mode = "input"] /\ UNCHANGED cmds
       \/ m.mode = "input" /\ (\E to \in {"confirm", "list"} : m' = [m EXCEPT !.mode = to]) /\ UNCHANGED cmds
       \/ /\ m.mode = "confirm"
          /\ \/ m' = [m EXCEPT !.mode = "list"] /\ UNCHANGED cmds
             \/ /\ m' = [m EXCEPT !.mode = "list", !.running = TRUE]
                /\ Return({Task("run", m.selected, None)})

\* Mutant: a path whose analysis does not start stays.
CreateStartWaitAnalysis_Leaves(c) ==
    /\ c.kind = "run"
    /\ \/ /\ c.key.at = "begin" /\ m' = [m EXCEPT !.path = "alone"] /\ ReturnFrom(c, {Now(c, 0, "starts")})
       \/ /\ c.key.at = "starts" /\ m' = m /\ ReturnFrom(c, {Now(c, 0, "failed")})

\* A path is created, its analysis started and asked for until it has ended,
\* cannot be read or has taken two minutes.  If it does not start the path is
\* deleted, or stays if that fails.
CreateStartWaitAnalysis(c) ==
    /\ c.kind = "run"
    /\ \/ /\ c.key.at = "begin"
          /\ \/ m' = m /\ ReturnFrom(c, {Now(c, 0, "failed")})
             \/ m' = [m EXCEPT !.path = "alone"] /\ ReturnFrom(c, {Now(c, 0, "starts")})
       \/ /\ c.key.at = "starts"
          /\ \/ m' = [m EXCEPT !.path = "analysed"] /\ ReturnFrom(c, {Now(c, 0, "polls")})
             \/ \E to \in {"none", "undeleted"} :
                  m' = [m EXCEPT !.path = to] /\ ReturnFrom(c, {Now(c, 0, "failed")})
       \/ /\ c.key.at = "polls" /\ m' = m
          /\ \E to \in {"has", "failed"} : ReturnFrom(c, {Now(c, 0, to)})

analyzerRunMsg(c) ==
    /\ c.kind = "run" /\ c.key.at \in {"has", "failed"}
    /\ m' = [m EXCEPT !.running = FALSE] /\ ReturnFrom(c, {})

OverlaysNext ==
    \/ Leaves \/ Refreshes \/ Ages \/ Open \/ Trace \/ OpenStill \/ Close
    \/ loadDiff \/ loadDiffActors \/ saveSnapshot \/ Analyzer
    \/ \E v \in VPC : Enters(v) \/ FlightEnds(v)
    \/ \E c \in UnderWay :
         \/ snapshotCacheGet(c) \/ OverlayMsg(c) \/ DiffFetches(c) \/ diffDoneMsg(c)
         \/ diffActorsDoneMsg(c) \/ CreateStartWaitAnalysis(c) \/ analyzerRunMsg(c)

-------------------------------------------------------------------------------
OverlaysTypeOK ==
    /\ m.selected \in VPC \union {None}
    /\ m.open \subseteq Overlay \union Still \union {"traceInput"}
    /\ m.saved \subseteq VPC /\ m.mode \in {"list", "input", "confirm"}

\* One snapshot of a VPC is fetched for all who wait for one.  What an overlay
\* shows was read since the VPC was entered or refreshed, unless something was
\* under way then.  Analyses, which are paid for, run one at a time, and none
\* of them leaves a path behind that has no analysis, unless it cannot delete it.
OneLoad ==
    /\ \A c \in UnderWay : c.kind \in Cached /\ c.key.at = "waits" => c.gen = m.flight[c.key.vpc]
    /\ m.open \intersect Cached # {} /\ m.ov.shown # None /\ m.selected \notin m.racing =>
         m.ov.epoch = m.epoch[m.selected]
    /\ Cardinality(Running("run")) = IF m.running THEN 1 ELSE 0
    /\ m.path = "alone" => m.running

\* An open overlay spins only for an answer of its VPC.
OverlaysSpinnerEnds ==
    /\ \A o \in Overlay \ {"diff"} : o \in m.open /\ m.ov.loading =>
         \E c \in Running(o) : c.key.vpc = m.selected
    /\ "diff" \in m.open /\ ~m.diffErr /\ m.actorsLoading => Running("actors") # {}

\* An overlay is about the resource and the VPC it was opened for, unless an
\* answer it cannot tell from its own was under way.  Changes, those who made
\* them and what "b" saves are of the VPC that is browsed, unless the
\* comparison failed.
OverlaysShowSubject ==
    /\ m.ov.shown \in {None, m.ov.subject} \/ m.ov.overtaken
    /\ "diff" \in m.open /\ ~m.diffErr =>
         m.changes = m.selected /\ m.actors \in {None, m.selected} /\ m.current = m.selected

\* The keys go to the overlay that is drawn; only a comparison that comes while
\* another overlay is open may be drawn over it, or under it, and not have them.
OverlaysHaveKeys ==
    m.open # {} => ("diff" \in m.open /\ m.open # {"diff"}) \/ Top(ViewOrder, m.open) = Top(KeyOrder, m.open)

-------------------------------------------------------------------------------
(***************************************************************************)
(* What holds of the explorer for every set of VPCs, types and lists.  The *)
(* scan and the browser share the model and the commands, but neither      *)
(* touches what the other's properties are about.                          *)
(***************************************************************************)
VpcFields == {"loading", "scanning", "total", "done", "scan", "mixed", "listed", "rows", "page", "focus",
              "selected", "client", "side", "active", "maps", "table", "viewed", "query",
              "resourceLoading", "resourceErr", "pending", "err", "lost"}

\* The commands of the scan with generation g.
Reading(g, r) == Cmd("region", g, r)
Discovery(g) == Cmd("discover", g, None)
Waiting == {r \in Region : Reading(m.scan, r) \in UnderWay}

\* The commands are formed as their operators form them.
ScanType ==
    /\ IsABag(cmds) /\ DOMAIN m = VpcFields
    /\ m.loading \in BOOLEAN /\ m.total \in Nat /\ m.done \in Nat
    /\ \A c \in UnderWay : /\ c.kind = "discover" => c = Discovery(c.gen)
                           /\ c.kind = "region" => c = Reading(c.gen, c.key) /\ c.key \in Region
\* Unless scans mix or an answer is lost: the commands of the scan are all there
\* is, once each; the regions that have answered and those that have not are all.
Counted ==
    ~m.mixed /\ m.lost = {} =>
      /\ \A c \in Scanning : c.gen = m.scan /\ Copies(c) = 1
      /\ Discovery(m.scan) \in UnderWay => m.done = 0 /\ m.total = 0 /\ Waiting = {}
      /\ Discovery(m.scan) \notin UnderWay => m.done + Cardinality(Waiting) = m.total
      /\ ~m.loading => Scanning = {} /\ m.done = m.total
\* The inductive invariant of the scan.
ScanInv == ScanType /\ Counted

\* The sets of regions can be counted: said of the regions because no library
\* is used, and true when they are finitely many.
Countable ==
    \A S \in SUBSET Region :
      /\ Cardinality(S) \in Nat
      /\ Cardinality(S) = 0 => S = {}
      /\ \A r \in S : Cardinality(S \ {r}) = Cardinality(S) - 1

\* A step that leaves the scan alone.
ScanKept ==
    /\ DOMAIN m' = VpcFields
    /\ m'.loading = m.loading /\ m'.total = m.total /\ m'.done = m.done /\ m'.scan = m.scan
    /\ m'.mixed = m.mixed /\ m'.lost = m.lost

\* What happens in the browser does not touch the scan.
LEMMA ScanQuiet ==
    ASSUME ScanInv, ScanKept,
           \/ UNCHANGED cmds
           \/ \E new : Return(new) /\ \A c \in new : c.kind = "resources"
           \/ \E c \in UnderWay : ReturnFrom(c, {}) /\ c.kind = "resources"
    PROVE  ScanInv'
<1>1. /\ IsABag(cmds') /\ Scanning' = Scanning
      /\ \A c \in Scanning : Copies(c)' = Copies(c)
      /\ \A c \in UnderWay' : c \in UnderWay \/ c.kind = "resources"
      /\ \A c : c.kind \in {"discover", "region"} => (c \in UnderWay' <=> c \in UnderWay)
  <2>1. CASE UNCHANGED cmds
    BY <2>1 DEF ScanInv, ScanType, Scanning, Running, UnderWay, Copies, CopiesIn
  <2>2. ASSUME NEW new, Return(new), \A c \in new : c.kind = "resources"
        PROVE  <1>1!1 /\ <1>1!2 /\ <1>1!3 /\ <1>1!4
    <3>1. /\ IsABag(cmds') /\ UnderWay' = UnderWay \union new
          /\ \A x : Copies(x)' = Copies(x) + (IF x \in new THEN 1 ELSE 0)
      BY <2>2, ReturnBag DEF ScanInv, ScanType
    <3>2. \A c \in Scanning : c \notin new /\ Copies(c) \in Nat
      BY <2>2 DEF Scanning, Running, Copies, CopiesIn, ScanInv, ScanType, IsABag, UnderWay, BagToSet
    <3>3. Scanning' = Scanning BY <2>2, <3>1 DEF Scanning, Running
    <3>4. ASSUME NEW c \in Scanning PROVE Copies(c)' = Copies(c) BY <3>1, <3>2
    <3> QED BY <3>1, <3>3, <3>4, <2>2
  <2>3. ASSUME NEW d \in UnderWay, ReturnFrom(d, {}), d.kind = "resources"
        PROVE  <1>1!1 /\ <1>1!2 /\ <1>1!3 /\ <1>1!4
    <3>1. /\ IsABag(cmds') /\ UnderWay' \subseteq UnderWay /\ UnderWay \ {d} \subseteq UnderWay'
          /\ \A x : Copies(x)' = (Copies(x) + 0) - (IF x = d THEN 1 ELSE 0)
      BY <2>3, ReturnFromBag DEF ScanInv, ScanType
    <3>2. \A c \in Scanning : c # d /\ Copies(c) \in Nat
      BY <2>3 DEF Scanning, Running, Copies, CopiesIn, ScanInv, ScanType, IsABag, UnderWay, BagToSet
    <3>3. Scanning' = Scanning BY <2>3, <3>1 DEF Scanning, Running
    <3>4. ASSUME NEW c \in Scanning PROVE Copies(c)' = Copies(c) BY <3>1, <3>2
    <3> QED BY <3>1, <3>3, <3>4, <2>3
  <2> QED BY <2>1, <2>2, <2>3
<1>2. /\ \A r : Reading(m.scan, r) \in UnderWay' <=> Reading(m.scan, r) \in UnderWay
      /\ Discovery(m.scan) \in UnderWay' <=> Discovery(m.scan) \in UnderWay
  BY <1>1 DEF Reading, Discovery, Cmd
<1>3. Waiting' = Waiting BY <1>2 DEF ScanKept, Waiting
<1>4. ScanType' BY <1>1 DEF ScanKept, ScanInv, ScanType
<1>5. Counted' BY <1>1, <1>2, <1>3 DEF ScanKept, ScanInv, Counted
<1> QED BY <1>4, <1>5 DEF ScanInv

\* The invariant says that the list is complete.
LEMMA ScanDone == ASSUME ScanInv PROVE FeedComplete
BY DEF ScanInv, Counted, FeedComplete

\* It holds when the explorer starts.
LEMMA ScanStart == ASSUME Init PROVE ScanInv
<1>1. /\ IsABag(cmds) /\ UnderWay = {Discovery(1)} /\ Copies(Discovery(1)) = 1
  BY BatchBag DEF Init, Discovery
<1>2. ScanType BY <1>1 DEF Init, ScanType, VpcFields, Discovery, Cmd
<1>3. m.scan = 1 /\ m.done = 0 /\ m.total = 0 /\ m.loading BY DEF Init
<1>4. Waiting = {} BY <1>1 DEF Waiting, Reading, Discovery, Cmd
<1>5. \A c \in Scanning : c = Discovery(1) BY <1>1 DEF Scanning, Running
<1> QED BY <1>1, <1>2, <1>3, <1>4, <1>5 DEF ScanInv, Counted, Discovery, Cmd

\* "r": what runs belongs to another scan, or there is nothing that runs.
LEMMA ScanAgain == ASSUME ScanInv, loadVPCs PROVE ScanInv'
<1>1. PICK g \in Gen : /\ Fresh(g, m.scan) /\ Return({Discovery(g)}) /\ DOMAIN m' = VpcFields
                       /\ m'.loading = TRUE /\ m'.total = 0 /\ m'.done = 0 /\ m'.scan = g
                       /\ m'.mixed = (Scanning # {}) /\ m'.lost = m.lost
  BY DEF loadVPCs, ScanInv, ScanType, VpcFields, Discovery
<1>2. /\ IsABag(cmds') /\ UnderWay' = UnderWay \union {Discovery(g)}
      /\ \A x : Copies(x)' = Copies(x) + (IF x \in {Discovery(g)} THEN 1 ELSE 0)
  BY <1>1, ReturnBag DEF ScanInv, ScanType
<1>x. Discovery(g) = Discovery(Discovery(g).gen) /\ Discovery(g).kind # "region"
  BY DEF Discovery, Cmd
<1>3. ScanType'
  <2>1. ASSUME NEW c \in UnderWay'
        PROVE  /\ c.kind = "discover" => c = Discovery(c.gen)
               /\ c.kind = "region" => c = Reading(c.gen, c.key) /\ c.key \in Region
    <3>1. CASE c \in UnderWay BY <3>1 DEF ScanInv, ScanType
    <3>2. CASE c = Discovery(g) BY <3>2, <1>x
    <3> QED BY <3>1, <3>2, <1>2
  <2>2. IsABag(cmds') BY <1>2
  <2>3. DOMAIN m' = VpcFields /\ m'.loading = TRUE /\ m'.total = 0 /\ m'.done = 0
    BY <1>1
  <2>4. m'.loading \in BOOLEAN BY <2>3
  <2>5. 0 \in Nat OBVIOUS
  <2>6. m'.total \in Nat /\ m'.done \in Nat BY <2>3, <2>5
  <2> QED BY <2>1, <2>2, <2>3, <2>4, <2>6 DEF ScanType
<1>4. Discovery(g) \notin UnderWay BY <1>1 DEF Fresh, Discovery, Cmd
<1>5. Copies(Discovery(g))' = 1 BY <1>2, <1>4 DEF Copies, CopiesIn, UnderWay, BagToSet
<1>6. Waiting' = {}
  BY <1>1, <1>2 DEF Waiting, Reading, Discovery, Fresh, Cmd
<1>7. CASE Scanning = {}
  <2>1. \A c \in Scanning' : c = Discovery(g) BY <1>2, <1>7 DEF Scanning, Running
  <2> QED BY <1>1, <1>2, <1>3, <1>5, <1>6, <2>1 DEF ScanInv, Counted, Discovery, Cmd
<1>8. CASE Scanning # {} BY <1>1, <1>3, <1>8 DEF ScanInv, Counted
<1> QED BY <1>7, <1>8

\* The regions are found: one command for each, and all of them to come.
LEMMA RegionsFound ==
    ASSUME ScanInv, Countable, NEW c \in UnderWay, regionsDiscoveredMsg(c)
    PROVE  ScanInv'
<1> DEFINE new == {Reading(c.gen, r) : r \in Region}
<1>1. /\ ReturnFrom(c, new) /\ DOMAIN m' = VpcFields /\ m'.total = Cardinality(Region)
      /\ c = Discovery(c.gen)
      /\ m'.loading = m.loading /\ m'.done = m.done /\ m'.scan = m.scan /\ m'.mixed = m.mixed
      /\ m'.lost = m.lost
  BY DEF regionsDiscoveredMsg, ScanInv, ScanType, VpcFields, Reading
<1>2. /\ IsABag(cmds') /\ UnderWay' \subseteq UnderWay \union new
      /\ (UnderWay \ {c}) \union new \subseteq UnderWay'
      /\ \A x : Copies(x)' = (Copies(x) + (IF x \in new THEN 1 ELSE 0)) - (IF x = c THEN 1 ELSE 0)
  BY <1>1, ReturnFromBag DEF ScanInv, ScanType
<1>3. ScanType'
  <2>1. Cardinality(Region) \in Nat BY DEF Countable
  <2>2. \A d \in new : d.kind = "region" /\ d = Reading(d.gen, d.key) /\ d.key \in Region
    BY DEF Reading, Cmd
  <2> QED BY <1>1, <1>2, <2>1, <2>2 DEF ScanInv, ScanType
<1>4. ASSUME ~m'.mixed, m'.lost = {} PROVE
         /\ \A d \in Scanning' : d.gen = m.scan /\ Copies(d)' = 1
         /\ Discovery(m.scan) \notin UnderWay' /\ Waiting' = Region
         /\ m.done = 0 /\ m.loading
  <2>1. /\ c.gen = m.scan /\ Copies(c) = 1 /\ c \in Scanning /\ m.loading /\ m.done = 0
        /\ Waiting = {}
        /\ \A d \in Scanning : d.gen = m.scan
    <3>1. c \in Scanning BY DEF Scanning, Running, regionsDiscoveredMsg
    <3>2. ~m.mixed /\ m.lost = {} BY <1>1, <1>4
    <3>3. c.gen = m.scan BY <3>1, <3>2 DEF ScanInv, Counted
    <3> QED BY <3>1, <3>2, <3>3, <1>1 DEF ScanInv, Counted
  <2>2. c \notin new BY <1>1 DEF Reading, Discovery, Cmd
  <2>3. Copies(c)' = 0 BY <1>2, <2>1, <2>2
  <2>4. c \notin UnderWay'
    <3>1. \A x \in UnderWay' : cmds'[x] > 0 BY <1>2 DEF IsABag, UnderWay, BagToSet
    <3> QED BY <3>1, <2>3 DEF Copies, CopiesIn, UnderWay, BagToSet
  <2>5. \A d \in Scanning : d = c
    <3>1. ASSUME NEW d \in Scanning, d.kind = "region" PROVE FALSE
      <4>1. d = Reading(m.scan, d.key) /\ d.key \in Region /\ d \in UnderWay
        BY <2>1, <3>1 DEF Scanning, Running, ScanInv, ScanType
      <4> QED BY <4>1, <2>1 DEF Waiting
    <3>2. ASSUME NEW d \in Scanning, d.kind = "discover" PROVE d = c
      <4>1. d = Discovery(d.gen) /\ d.gen = m.scan
        BY <3>2, <2>1 DEF Scanning, Running, ScanInv, ScanType
      <4> QED BY <4>1, <2>1, <1>1
    <3> QED BY <3>1, <3>2 DEF Scanning, Running
  <2>6. Scanning' \subseteq new BY <1>2, <2>4, <2>5 DEF Scanning, Running
  <2>7. ASSUME NEW d \in new PROVE d.gen = m.scan /\ Copies(d)' = 1
    <3>1. d.gen = m.scan /\ d.kind = "region" BY <2>1 DEF Reading, Cmd
    <3>2. d # c /\ d \notin UnderWay
      BY <2>2, <2>5, <3>1 DEF Scanning, Running
    <3>3. Copies(d) = 0 BY <3>2 DEF Copies, CopiesIn, UnderWay, BagToSet
    <3> QED BY <3>1, <3>2, <3>3, <1>2
  <2>8. Waiting' = Region BY <1>1, <1>2, <2>1 DEF Waiting
  <2>9. Discovery(m.scan) \notin UnderWay' BY <2>1, <2>4, <1>1
  <2> QED BY <2>1, <2>6, <2>7, <2>8, <2>9
<1>5. Counted'
  <2>1. SUFFICES ASSUME ~m'.mixed, m'.lost = {} PROVE Counted' BY DEF Counted
  <2>2. Cardinality(Region) \in Nat BY DEF Countable
  <2>3. m'.scan = m.scan BY <1>1
  <2>4. Discovery(m'.scan) \notin UnderWay' /\ m'.done + Cardinality(Waiting') = m'.total
    BY <2>1, <1>4, <1>1, <2>2
  <2> QED BY <2>1, <2>4, <1>1, <1>4 DEF Counted
<1> QED BY <1>3, <1>5 DEF ScanInv

\* A region answers: one less to come, and the last one ends the scan.
LEMMA RegionAnswers ==
    ASSUME ScanInv, Countable, NEW c \in UnderWay, regionScannedMsg(c)
    PROVE  ScanInv'
<1> DEFINE ends == m.done + 1 >= m.total
<1>1. /\ ReturnFrom(c, {}) /\ DOMAIN m' = VpcFields /\ m'.total = m.total
      /\ c = Reading(c.gen, c.key)
      /\ c.key \in Region
      /\ m'.loading = (m.loading /\ ~ends) /\ m'.done = m.done + 1 /\ m'.scan = m.scan
      /\ m'.mixed = m.mixed /\ m'.lost = m.lost
  BY DEF regionScannedMsg, ScanInv, ScanType, VpcFields
<1>2. /\ IsABag(cmds') /\ UnderWay' \subseteq UnderWay /\ UnderWay \ {c} \subseteq UnderWay'
      /\ \A x : Copies(x)' = (Copies(x) + 0) - (IF x = c THEN 1 ELSE 0)
  BY <1>1, ReturnFromBag DEF ScanInv, ScanType
<1>3. ScanType' BY <1>1, <1>2 DEF ScanInv, ScanType
<1>4. SUFFICES ASSUME ~m'.mixed, m'.lost = {} PROVE Counted' BY <1>3 DEF ScanInv, Counted
<1>5. /\ c \in Scanning
      /\ c.gen = m.scan
      /\ Copies(c) = 1
      /\ m.loading
      /\ \A d \in Scanning : d.gen = m.scan /\ Copies(d) = 1
  <2>1. c \in Scanning BY DEF Scanning, Running, regionScannedMsg
  <2> QED BY <2>1, <1>1, <1>4 DEF ScanInv, Counted
<1>6. c.key \in Waiting BY <1>1, <1>5 DEF Waiting
<1>7. Discovery(m.scan) \notin UnderWay /\ m.done + Cardinality(Waiting) = m.total
  BY <1>6, <1>1, <1>4 DEF ScanInv, Counted
<1>8. c \notin UnderWay'
  <2>1. Copies(c)' = 0 BY <1>2, <1>5
  <2>2. \A x \in UnderWay' : cmds'[x] > 0 BY <1>2 DEF IsABag, UnderWay, BagToSet
  <2> QED BY <2>1, <2>2 DEF Copies, CopiesIn, UnderWay, BagToSet
<1>9. Scanning' \subseteq Scanning \ {c} BY <1>2, <1>8 DEF Scanning, Running
<1>10. ASSUME NEW d \in Scanning' PROVE d.gen = m.scan /\ Copies(d)' = 1
  BY <1>2, <1>5, <1>9
<1>11. Waiting' = Waiting \ {c.key}
  <2>1. \A r \in Region : Reading(m.scan, r) \in UnderWay' <=> Reading(m.scan, r) \in UnderWay /\ r # c.key
    <3>1. \A r \in Region : Reading(m.scan, r) = c <=> r = c.key
      BY <1>1, <1>5 DEF Reading, Cmd
    <3> QED BY <3>1, <1>2, <1>8
  <2>2. m'.scan = m.scan BY <1>1
  <2> QED BY <2>1, <2>2 DEF Waiting
<1>12. /\ Cardinality(Waiting) \in Nat /\ Cardinality(Waiting') = Cardinality(Waiting) - 1
       /\ Cardinality(Waiting') \in Nat /\ Waiting' \subseteq Region
  <2>1. Waiting \subseteq Region BY DEF Waiting
  <2>2. Cardinality(Waiting \ {c.key}) = Cardinality(Waiting) - 1 /\ Cardinality(Waiting) \in Nat
    BY <2>1, <1>6 DEF Countable
  <2>3. Waiting \ {c.key} \subseteq Region /\ Cardinality(Waiting \ {c.key}) \in Nat
    BY <2>1 DEF Countable
  <2> QED BY <2>2, <2>3, <1>11
<1>13. m'.done + Cardinality(Waiting') = m'.total /\ Discovery(m'.scan) \notin UnderWay'
  <2>1. m.done \in Nat /\ m.total \in Nat BY DEF ScanInv, ScanType
  <2> QED BY <2>1, <1>1, <1>2, <1>7, <1>12
<1>14. ASSUME ~m'.loading PROVE Scanning' = {} /\ m'.done = m'.total
  <2>1. m.done \in Nat /\ m.total \in Nat BY DEF ScanInv, ScanType
  <2>2. m.done + 1 >= m.total BY <1>14, <1>1, <1>5
  <2>3. Cardinality(Waiting') = 0 /\ m'.done = m'.total BY <2>1, <2>2, <1>1, <1>12, <1>13
  <2>4. Waiting' = {} BY <2>3, <1>12 DEF Countable
  <2>5. ASSUME NEW d \in Scanning' PROVE FALSE
    <3>1. d \in Scanning /\ d.gen = m.scan /\ d \in UnderWay'
      BY <1>9, <1>10 DEF Scanning, Running
    <3>2. d.kind = "discover" => d = Discovery(m.scan)
      BY <3>1 DEF Scanning, Running, ScanInv, ScanType
    <3>3. d.kind = "region" => d = Reading(m.scan, d.key) /\ d.key \in Region
      BY <3>1 DEF Scanning, Running, ScanInv, ScanType
    <3>4. d.kind = "region" BY <3>1, <3>2, <1>7 DEF Scanning, Running
    <3>5. m'.scan = m.scan BY <1>1
    <3>6. d.key \in Waiting' BY <3>1, <3>3, <3>4, <3>5 DEF Waiting
    <3> QED BY <3>6, <2>4
  <2> QED BY <2>3, <2>5
<1>15. m'.scan = m.scan BY <1>1
<1> QED BY <1>10, <1>13, <1>14, <1>15 DEF Counted

\* Every step keeps the invariant of the scan.
LEMMA ScanStep == ASSUME ScanInv, Countable, Next \/ UNCHANGED vars PROVE ScanInv'
<1>0. DOMAIN m = VpcFields BY DEF ScanInv, ScanType
<1>1. CASE UNCHANGED vars BY <1>1, <1>0, ScanQuiet DEF vars, ScanKept
<1>2. CASE Search BY <1>2, <1>0, ScanQuiet DEF Search, ScanKept, VpcFields
<1>3. CASE Leave BY <1>3, <1>0, ScanQuiet DEF Leave, ScanKept, VpcFields
<1>4. CASE Move BY <1>4, <1>0, ScanQuiet DEF Move, ScanKept, VpcFields
<1>r. ASSUME NEW s, DOMAIN s = VpcFields
      PROVE  /\ DOMAIN rebuildResourceTable(s) = VpcFields
             /\ rebuildResourceTable(s).loading = s.loading
             /\ rebuildResourceTable(s).total = s.total
             /\ rebuildResourceTable(s).done = s.done /\ rebuildResourceTable(s).scan = s.scan
             /\ rebuildResourceTable(s).mixed = s.mixed /\ rebuildResourceTable(s).lost = s.lost
  <2>1. ASSUME NEW t PROVE LET u == [s EXCEPT !.table = t, !.viewed = TRUE]
                           IN  /\ DOMAIN u = VpcFields /\ u.loading = s.loading /\ u.total = s.total
                               /\ u.done = s.done /\ u.scan = s.scan /\ u.mixed = s.mixed
                               /\ u.lost = s.lost
    BY <1>r DEF VpcFields
  <2> QED BY <2>1 DEF rebuildResourceTable
<1>l. ASSUME NEW s, DOMAIN s = VpcFields, loadResources(s), s.loading = m.loading,
             s.total = m.total,
             s.done = m.done, s.scan = m.scan, s.mixed = m.mixed, s.lost = m.lost
      PROVE  ScanInv'
  <2>1. ScanKept BY <1>l DEF loadResources, ScanKept, VpcFields
  <2>2. \E new : Return(new) /\ \A c \in new : c.kind = "resources"
    BY <1>l DEF loadResources, Fetch, Cmd
  <2> QED BY <2>1, <2>2, ScanQuiet
<1>5. CASE Choose
  <2> DEFINE s == [m EXCEPT !.active = m.side, !.query = FALSE, !.table = NoTable(m.side)]
             f == IF s.active \in DOMAIN s.maps /\ s.maps[s.active].rows # {} THEN "table" ELSE rebuildResourceTable(s).focus
             t == [rebuildResourceTable(s) EXCEPT !.focus = f]
             p == [s EXCEPT !.pending = TRUE]
  <2>1. /\ DOMAIN s = VpcFields /\ s.loading = m.loading /\ s.total = m.total
        /\ s.done = m.done /\ s.scan = m.scan /\ s.mixed = m.mixed /\ s.lost = m.lost
    BY <1>0 DEF VpcFields
  <2>2. /\ DOMAIN p = VpcFields /\ p.loading = m.loading /\ p.total = m.total
        /\ p.done = m.done /\ p.scan = m.scan /\ p.mixed = m.mixed /\ p.lost = m.lost
    BY <1>0 DEF VpcFields
  <2>3. loadResources(t) \/ loadResources(p) BY <1>5 DEF Choose
  <2> HIDE DEF s, p
  <2>4. /\ DOMAIN t = VpcFields /\ t.loading = m.loading /\ t.total = m.total
        /\ t.done = m.done /\ t.scan = m.scan /\ t.mixed = m.mixed /\ t.lost = m.lost
    <3>1. PICK u : u = rebuildResourceTable(s) OBVIOUS
    <3>2. /\ DOMAIN u = VpcFields /\ u.loading = m.loading /\ u.total = m.total
          /\ u.done = m.done /\ u.scan = m.scan /\ u.mixed = m.mixed /\ u.lost = m.lost
      BY <3>1, <2>1, <1>r
    <3> QED BY <3>1, <3>2 DEF VpcFields
  <2> HIDE DEF t
  <2> QED BY <2>2, <2>3, <2>4, <1>l
<1>6. CASE refreshResources
  BY <1>6, <1>0, <1>l DEF refreshResources, VpcFields
<1>7. CASE Filter
  <2>1. ASSUME NEW s, DOMAIN s = VpcFields, m' = rebuildResourceTable(s), s.loading = m.loading,
               s.total = m.total,
             s.done = m.done, s.scan = m.scan, s.mixed = m.mixed, s.lost = m.lost PROVE ScanKept
    BY <2>1, <1>r DEF ScanKept
  <2>2. ScanKept /\ UNCHANGED cmds BY <1>7, <1>0, <2>1 DEF Filter, ScanKept, VpcFields
  <2> QED BY <2>2, ScanQuiet
<1>8. ASSUME NEW v \in VPC, enterVPC(v) PROVE ScanInv'
  <2>1. CASE m' = [m EXCEPT !.selected = v, !.err = TRUE] /\ UNCHANGED cmds
    BY <2>1, <1>0, ScanQuiet DEF ScanKept, VpcFields
  <2> QED BY <2>1, <1>8, <1>0, <1>l DEF enterVPC, VpcFields
<1>9. ASSUME NEW c \in UnderWay, resourcesLoadedMsg(c) PROVE ScanInv'
  <2>1. c.kind = "resources" /\ ReturnFrom(c, {}) BY <1>9 DEF resourcesLoadedMsg
  <2>2. ASSUME NEW s, DOMAIN s = VpcFields, NEW p, NEW f,
               m' = [rebuildResourceTable(s) EXCEPT !.pending = p, !.focus = f],
             s.loading = m.loading, s.total = m.total,
             s.done = m.done, s.scan = m.scan, s.mixed = m.mixed, s.lost = m.lost PROVE ScanKept
    <3>1. PICK u : u = rebuildResourceTable(s) OBVIOUS
    <3>2. /\ DOMAIN u = VpcFields /\ u.loading = m.loading /\ u.total = m.total
          /\ u.done = m.done /\ u.scan = m.scan /\ u.mixed = m.mixed /\ u.lost = m.lost
      BY <3>1, <2>2, <1>r
    <3>3. m' = [u EXCEPT !.pending = p, !.focus = f] BY <3>1, <2>2
    <3> QED BY <3>2, <3>3 DEF VpcFields, ScanKept
  <2>3. CASE m' = m BY <2>3, <1>0, <2>1, ScanQuiet DEF ScanKept
  <2>4. CASE m' = [m EXCEPT !.resourceLoading = FALSE, !.resourceErr = TRUE]
    <3>1. ScanKept BY <2>4, <1>0 DEF ScanKept, VpcFields
    <3> QED BY <3>1, <2>1, ScanQuiet
  <2>5. ASSUME NEW maps, NEW p, NEW f,
               LET s == [m EXCEPT !.resourceLoading = FALSE, !.maps = maps]
               IN  m' = s \/ m' = [rebuildResourceTable(s) EXCEPT !.pending = p, !.focus = f]
        PROVE  ScanKept
    <3> DEFINE s == [m EXCEPT !.resourceLoading = FALSE, !.maps = maps]
    <3>1. /\ DOMAIN s = VpcFields /\ s.loading = m.loading /\ s.total = m.total
          /\ s.done = m.done /\ s.scan = m.scan /\ s.mixed = m.mixed /\ s.lost = m.lost
      BY <1>0 DEF VpcFields
    <3>2. m' = s \/ m' = [rebuildResourceTable(s) EXCEPT !.pending = p, !.focus = f] BY <2>5
    <3> HIDE DEF s
    <3> QED BY <3>1, <3>2, <2>2 DEF ScanKept
  <2>6. CASE /\ m.selected = c.key.vpc
             /\ m' # [m EXCEPT !.resourceLoading = FALSE, !.resourceErr = TRUE]
    <3>1. PICK got :
            LET s == [m EXCEPT !.resourceLoading = FALSE,
                             !.maps = [rt \in DOMAIN @ \union {c.key.rt} |->
                                         IF rt = c.key.rt THEN got ELSE @[rt]]]
                jumps == m.pending /\ got.rows # {}
            IN  m' = IF c.key.rt # m.active THEN s
                     ELSE [rebuildResourceTable(s) EXCEPT !.pending = FALSE,
                             !.focus = IF jumps /\ @ # "filter" THEN "table" ELSE @]
      BY <2>6, <1>9 DEF resourcesLoadedMsg
    <3> DEFINE maps == [rt \in DOMAIN m.maps \union {c.key.rt} |-> IF rt = c.key.rt THEN got ELSE m.maps[rt]]
               s == [m EXCEPT !.resourceLoading = FALSE, !.maps = maps]
               g == rebuildResourceTable(s).focus
               f == IF (m.pending /\ got.rows # {}) /\ g # "filter" THEN "table" ELSE g
    <3>2. m' = s \/ m' = [rebuildResourceTable(s) EXCEPT !.pending = FALSE, !.focus = f]
      BY <3>1, <1>0 DEF VpcFields
    <3>3. ScanKept BY <3>2, <2>5
    <3> QED BY <3>3, <2>1, ScanQuiet
  <2> QED BY <2>3, <2>4, <2>6, <1>9 DEF resourcesLoadedMsg
<1>10. ASSUME NEW c \in UnderWay, Settings(c) PROVE ScanInv'
  <2>1. ReturnFrom(c, {}) /\ m' = [m EXCEPT !.lost = {c.kind}] BY <1>10 DEF Settings
  <2>2. IsABag(cmds') /\ UnderWay' \subseteq UnderWay
    BY <2>1, ReturnFromBag DEF ScanInv, ScanType
  <2>3. m'.lost # {} BY <2>1, <1>0 DEF VpcFields
  <2>4. ScanType' BY <2>1, <2>2, <1>0 DEF ScanInv, ScanType, VpcFields
  <2> QED BY <2>3, <2>4 DEF ScanInv, Counted
<1> QED
  BY <1>1, <1>2, <1>3, <1>4, <1>5, <1>6, <1>7, <1>8, <1>9, <1>10, ScanAgain, RegionsFound,
     RegionAnswers DEF Next
-------------------------------------------------------------------------------
\* The keys go to the list.
InList(s) == s.focus \in {"list", "search"}

\* A table is made again whenever what it shows changes.
TableOf(s) ==
    s.active \in DOMAIN s.maps =>
      s.table = [vpc |-> s.maps[s.active].vpc, rt |-> s.active, rows |-> Shown(s)] /\ s.viewed

\* The page and the focus change together, and what is kept is the VPC's.
PageOf(s) ==
    /\ ~InList(s) => s.selected \in VPC
    /\ ~s.err => /\ s.page \in {"list", "browser"} /\ (s.page = "list" <=> InList(s))
                 /\ s.page = "list" => s.selected = None
                 /\ s.page = "browser" => \A rt \in DOMAIN s.maps : s.maps[rt].vpc = s.selected

\* An answer is of a VPC, and so is what it brings again.
AnswerOf(c, s) ==
    c.kind = "resources" => /\ c.key.vpc \in VPC
                            /\ ~s.err /\ c.key.cached # None => c.key.cached.vpc = c.key.vpc

\* The inductive invariant of the browser.
Browses(s) == DOMAIN s = VpcFields /\ TableOf(s) /\ PageOf(s)
BrowserInv == IsABag(cmds) /\ Browses(m) /\ \A c \in UnderWay : AnswerOf(c, m)

\* The invariant says what the browser's properties say.
LEMMA BrowserShows == ASSUME BrowserInv PROVE ShowsSubject /\ TableCurrent /\ KeysReachDrawn
<1>1. TableCurrent BY DEF BrowserInv, Browses, TableOf, TableCurrent, Drawn
<1>2. KeysReachDrawn BY DEF BrowserInv, Browses, PageOf, InList, KeysReachDrawn
<1>3. ShowsSubject BY DEF BrowserInv, Browses, PageOf, TableOf, ShowsSubject, Drawn
<1> QED BY <1>1, <1>2, <1>3

\* It holds when the explorer starts.
LEMMA BrowserStart == ASSUME Init PROVE BrowserInv
<1>1. IsABag(cmds) /\ UnderWay = {Cmd("discover", 1, None)} BY BatchBag DEF Init
<1>2. /\ m.maps = <<>>
      /\ m.focus = "list"
      /\ m.page = "list"
      /\ m.selected = None
      /\ DOMAIN m = VpcFields
  BY DEF Init, VpcFields
<1>3. DOMAIN m.maps = {} BY <1>2
<1> QED BY <1>1, <1>2, <1>3 DEF BrowserInv, Browses, TableOf, PageOf, InList, AnswerOf, Cmd

\* A key or an answer that starts no read.
LEMMA BrowserSet ==
    ASSUME BrowserInv, Browses(m'), m.err => m'.err,
           \/ UNCHANGED cmds
           \/ \E new : Return(new) /\ \A c \in new : AnswerOf(c, m')
           \/ \E c \in UnderWay : \E new : ReturnFrom(c, new) /\ \A d \in new : AnswerOf(d, m')
    PROVE  BrowserInv'
<1>1. CASE UNCHANGED cmds
  BY <1>1 DEF BrowserInv, UnderWay, AnswerOf, Browses, TableOf, PageOf, InList, Shown
<1>a. \A c : AnswerOf(c, m) => AnswerOf(c, m') BY DEF AnswerOf
<1>b. Browses(m)' <=> Browses(m') BY DEF Browses, TableOf, PageOf, InList, Shown
<1>c. \A c : AnswerOf(c, m)' <=> AnswerOf(c, m') BY DEF AnswerOf
<1>2. ASSUME NEW new, Return(new), \A c \in new : AnswerOf(c, m') PROVE BrowserInv'
  <2>1. IsABag(cmds') /\ UnderWay' = UnderWay \union new BY <1>2, ReturnBag DEF BrowserInv
  <2>2. ASSUME NEW c \in UnderWay' PROVE AnswerOf(c, m') BY <2>1, <1>2, <1>a DEF BrowserInv
  <2>3. \A c \in UnderWay' : AnswerOf(c, m') BY <2>2
  <2> QED BY <2>1, <2>3, <1>b DEF BrowserInv, AnswerOf
<1>3. ASSUME NEW c \in UnderWay, NEW new, ReturnFrom(c, new), \A d \in new : AnswerOf(d, m')
      PROVE  BrowserInv'
  <2>1. IsABag(cmds') /\ UnderWay' \subseteq UnderWay \union new
    BY <1>3, ReturnFromBag DEF BrowserInv
  <2>2. ASSUME NEW d \in UnderWay' PROVE AnswerOf(d, m') BY <2>1, <1>3, <1>a DEF BrowserInv
  <2>3. \A d \in UnderWay' : AnswerOf(d, m') BY <2>2
  <2> QED BY <2>1, <2>3, <1>b DEF BrowserInv, AnswerOf
<1> QED BY <1>1, <1>2, <1>3

\* What a rebuilt table is of.
LEMMA RebuiltTable ==
    ASSUME NEW s, DOMAIN s = VpcFields
    PROVE  LET u == rebuildResourceTable(s)
           IN  /\ DOMAIN u = VpcFields /\ TableOf(u)
               /\ u.err = s.err /\ u.page = s.page /\ u.focus = s.focus /\ u.selected = s.selected
               /\ u.maps = s.maps /\ u.active = s.active /\ u.query = s.query
<1>1. ASSUME NEW t, NEW v
      PROVE  LET u == [s EXCEPT !.table = t, !.viewed = v]
             IN  /\ DOMAIN u = VpcFields /\ u.table = t /\ u.viewed = v
                 /\ u.err = s.err /\ u.page = s.page /\ u.focus = s.focus /\ u.selected = s.selected
                 /\ u.maps = s.maps /\ u.active = s.active /\ u.query = s.query
  BY DEF VpcFields
<1> QED BY <1>1 DEF rebuildResourceTable, TableOf, Shown

\* A read keeps the page it is started from.
LEMMA BrowserLoads ==
    ASSUME BrowserInv, NEW s, Browses(s), loadResources(s), s.err = m.err, s.selected \in VPC,
           ~s.err => s.page = "browser"
    PROVE  BrowserInv'
<1> DEFINE fetch == Fetch(s.selected, s.active, s.client)
<1>0. /\ AnswerOf(fetch, s)
      /\ \A x : (~s.err => x.vpc = s.selected) => AnswerOf([fetch EXCEPT !.key.cached = x], s)
  BY DEF Fetch, Cmd, AnswerOf
<1>1. /\ DOMAIN m' = VpcFields /\ m'.err = s.err /\ m'.page = s.page /\ m'.focus = s.focus
      /\ m'.selected = s.selected
      /\ m'.maps = s.maps /\ m'.active = s.active /\ m'.query = s.query /\ m'.table = s.table
      /\ s.active \in DOMAIN s.maps => m'.viewed = s.viewed
  BY DEF loadResources, Browses, VpcFields
<1>2. Browses(m') BY <1>1 DEF Browses, TableOf, PageOf, InList, Shown
<1>3. \A c : AnswerOf(c, s) => AnswerOf(c, m') BY <1>1 DEF AnswerOf
<1>4. CASE s.active \in DOMAIN s.maps
  <2>1. ~s.err => s.maps[s.active].vpc = s.selected BY <1>4 DEF Browses, PageOf
  <2>2. Return({[fetch EXCEPT !.key.cached = s.maps[s.active]]}) BY <1>4 DEF loadResources
  <2>3. AnswerOf([fetch EXCEPT !.key.cached = s.maps[s.active]], m') BY <2>1, <1>0, <1>3
  <2> HIDE DEF fetch
  <2> QED BY <2>2, <2>3, <1>1, <1>2, BrowserSet
<1>5. CASE s.active \notin DOMAIN s.maps
  <2>1. Return({fetch}) BY <1>5 DEF loadResources
  <2> QED BY <2>1, <1>0, <1>1, <1>2, <1>3, BrowserSet
<1> QED BY <1>4, <1>5

\* Every step keeps it; of no VPC is not of a VPC.
LEMMA BrowserStep ==
    ASSUME BrowserInv, None \notin VPC, Next \/ UNCHANGED vars
    PROVE  BrowserInv'
<1>0. DOMAIN m = VpcFields /\ TableOf(m) /\ PageOf(m) BY DEF BrowserInv, Browses
<1>k. ASSUME NEW s, DOMAIN s = VpcFields, TableOf(s), s.err = m.err, s.page = m.page,
             InList(s) <=> InList(m), s.selected = m.selected, s.maps = m.maps
      PROVE  Browses(s)
  BY <1>k, <1>0 DEF Browses, PageOf
<1>1. CASE UNCHANGED vars
  BY <1>1, <1>0, BrowserSet DEF vars, Browses
<1>2. ASSUME DOMAIN m' = VpcFields, m'.table = m.table, m'.viewed = m.viewed, m'.err = m.err,
             m'.page = m.page, m'.focus = m.focus,
             m'.selected = m.selected, m'.maps = m.maps, m'.active = m.active, m'.query = m.query PROVE Browses(m')
  BY <1>2, <1>0 DEF Browses, TableOf, PageOf, InList, Shown
<1>3. CASE loadVPCs
  <2>1. PICK g : Return({Cmd("discover", g, None)}) BY <1>3 DEF loadVPCs
  <2>2. Browses(m') /\ m'.err = m.err BY <1>3, <1>2, <1>0 DEF loadVPCs, VpcFields
  <2>3. AnswerOf(Cmd("discover", g, None), m') BY DEF AnswerOf, Cmd
  <2> QED BY <2>1, <2>2, <2>3, BrowserSet
<1>4. ASSUME NEW c \in UnderWay, regionsDiscoveredMsg(c) \/ regionScannedMsg(c) \/ Settings(c)
      PROVE  BrowserInv'
  <2>1. Browses(m') /\ m'.err = m.err
    BY <1>4, <1>2, <1>0 DEF regionsDiscoveredMsg, regionScannedMsg, Settings, VpcFields
  <2>2. \A r : AnswerOf(Cmd("region", c.gen, r), m') BY DEF AnswerOf, Cmd
  <2>3. \E new : ReturnFrom(c, new) /\ \A d \in new : AnswerOf(d, m')
    <3>1. CASE regionsDiscoveredMsg(c) BY <3>1, <2>2 DEF regionsDiscoveredMsg
    <3>2. CASE ReturnFrom(c, {}) BY <3>2
    <3> QED BY <3>1, <3>2, <1>4 DEF regionScannedMsg, Settings
  <2> QED BY <2>1, <2>3, BrowserSet
<1>5. CASE Search
  <2>1. /\ DOMAIN m' = VpcFields /\ m'.table = m.table /\ m'.viewed = m.viewed /\ m'.err = m.err
        /\ m'.page = m.page
        /\ InList(m) /\ InList(m') /\ m'.selected = m.selected /\ m'.maps = m.maps
        /\ m'.active = m.active /\ m'.query = m.query /\ cmds' = cmds
    BY <1>5, <1>0 DEF Search, VpcFields, InList, On
  <2>2. Browses(m') BY <2>1, <1>0 DEF Browses, TableOf, PageOf, Shown
  <2> QED BY <2>1, <2>2, BrowserSet
<1>6. CASE Leave
  <2>1. /\ DOMAIN m' = VpcFields /\ m'.table = m.table /\ m'.viewed = m.viewed /\ m'.err = m.err
        /\ m'.page = "list"
        /\ InList(m') /\ m'.selected = None /\ m'.maps = m.maps
        /\ m'.active = m.active /\ m'.query = m.query /\ cmds' = cmds
    BY <1>6, <1>0 DEF Leave, VpcFields, InList
  <2>2. Browses(m') BY <2>1, <1>0 DEF Browses, TableOf, PageOf, Shown
  <2> QED BY <2>1, <2>2, BrowserSet
<1>7. CASE Move
  <2>1. /\ DOMAIN m' = VpcFields /\ m'.table = m.table /\ m'.viewed = m.viewed /\ m'.err = m.err
        /\ m'.page = m.page
        /\ ~InList(m) /\ ~InList(m') /\ m'.selected = m.selected /\ m'.maps = m.maps
        /\ m'.active = m.active /\ m'.query = m.query /\ cmds' = cmds
    BY <1>7, <1>0 DEF Move, VpcFields, InList, On
  <2>2. Browses(m') BY <2>1, <1>0 DEF Browses, TableOf, PageOf, Shown
  <2> QED BY <2>1, <2>2, BrowserSet
<1>8. ASSUME NEW v \in VPC, enterVPC(v) PROVE BrowserInv'
  <2>1. CASE m' = [m EXCEPT !.selected = v, !.err = TRUE] /\ UNCHANGED cmds
    <3>1. /\ DOMAIN m' = VpcFields /\ m'.table = m.table /\ m'.viewed = m.viewed /\ m'.err = TRUE
          /\ InList(m') /\ m'.maps = m.maps /\ m'.active = m.active /\ m'.query = m.query
      BY <2>1, <1>8, <1>0 DEF enterVPC, VpcFields, InList, On
    <3>2. Browses(m') BY <3>1, <1>0 DEF Browses, TableOf, PageOf, Shown
    <3> QED BY <2>1, <3>1, <3>2, BrowserSet
  <2>2. CASE ~(m' = [m EXCEPT !.selected = v, !.err = TRUE] /\ UNCHANGED cmds)
    <3> DEFINE s == [m EXCEPT
            !.selected = v, !.client = IF RegionOf[v] # Home THEN RegionOf[v] ELSE @,
            !.maps = <<>>, !.query = FALSE, !.side = First, !.active = First,
            !.page = "browser", !.focus = "category"]
    <3>1. loadResources(s) BY <2>2, <1>8 DEF enterVPC
    <3>2. /\ DOMAIN s = VpcFields /\ s.err = m.err /\ s.selected = v /\ s.maps = <<>>
          /\ s.page = "browser"
          /\ s.focus = "category"
      BY <1>0 DEF VpcFields
    <3> HIDE DEF s
    <3>3. DOMAIN s.maps = {} BY <3>2
    <3>4. Browses(s) BY <3>2, <3>3 DEF Browses, TableOf, PageOf, InList
    <3> QED BY <3>1, <3>2, <3>4, BrowserLoads
  <2> QED BY <2>1, <2>2
<1>9. CASE Choose
  <2> DEFINE s == [m EXCEPT !.active = m.side, !.query = FALSE, !.table = NoTable(m.side)]
             b == rebuildResourceTable(s)
             f == IF s.active \in DOMAIN s.maps /\ s.maps[s.active].rows # {} THEN "table" ELSE b.focus
             t == [b EXCEPT !.focus = f]
             p == [s EXCEPT !.pending = TRUE]
  <2>1. /\ DOMAIN s = VpcFields /\ s.err = m.err /\ s.page = m.page /\ s.focus = "category"
        /\ s.selected = m.selected
        /\ s.maps = m.maps
    BY <1>9, <1>0 DEF Choose, On, VpcFields
  <2>2. m.focus = "category" /\ m.selected \in VPC /\ (~m.err => m.page = "browser")
    BY <1>9, <1>0 DEF Choose, On, PageOf, InList
  <2>3. (s.active \in DOMAIN s.maps /\ loadResources(t)) \/ (s.active \notin DOMAIN s.maps /\ loadResources(p))
    BY <1>9 DEF Choose
  <2>4. /\ DOMAIN p = VpcFields /\ p.err = m.err /\ p.page = m.page /\ p.focus = "category"
        /\ p.selected = m.selected
        /\ p.maps = m.maps /\ p.active = s.active
    BY <2>1 DEF VpcFields
  <2> HIDE DEF s
  <2>5. /\ DOMAIN b = VpcFields /\ TableOf(b) /\ b.err = m.err /\ b.page = m.page
        /\ b.focus = "category"
        /\ b.selected = m.selected /\ b.maps = m.maps
    BY <2>1, RebuiltTable
  <2>6. f \in {"table", "category"} BY <2>5
  <2> HIDE DEF b, p, f
  <2>7. /\ DOMAIN t = VpcFields /\ t.err = m.err /\ t.page = m.page /\ t.focus = f
        /\ t.selected = m.selected
        /\ t.maps = m.maps /\ t.active = b.active /\ t.query = b.query /\ t.table = b.table
        /\ t.viewed = b.viewed
    BY <2>5 DEF VpcFields
  <2> HIDE DEF t
  <2>8. TableOf(t) BY <2>5, <2>7 DEF TableOf, Shown
  <2>9. Browses(t) BY <1>k, <2>2, <2>6, <2>7, <2>8 DEF InList
  <2>10. s.active \notin DOMAIN s.maps => Browses(p)
    <3>1. s.active \notin DOMAIN s.maps => TableOf(p) BY <2>1, <2>4 DEF TableOf
    <3> QED BY <3>1, <1>k, <2>2, <2>4 DEF InList
  <2>11. loadResources(t) => BrowserInv' BY <2>2, <2>7, <2>9, BrowserLoads
  <2> QED BY <2>2, <2>3, <2>4, <2>10, <2>11, BrowserLoads
<1>10. CASE refreshResources
  <2> DEFINE s == [m EXCEPT !.maps = [rt \in DOMAIN @ \ {m.active} |-> @[rt]]]
  <2>1. loadResources(s) /\ m.page = "browser" /\ m.focus = "table"
    BY <1>10 DEF refreshResources, On
  <2>2. /\ DOMAIN s = VpcFields /\ s.err = m.err /\ s.page = m.page /\ s.focus = m.focus
        /\ s.selected = m.selected
        /\ s.maps = [rt \in DOMAIN m.maps \ {m.active} |-> m.maps[rt]] /\ s.active = m.active
    BY <1>0 DEF VpcFields
  <2> HIDE DEF s
  <2>3. TableOf(s) BY <2>2 DEF TableOf
  <2>4. PageOf(s) BY <2>1, <2>2, <1>0 DEF PageOf, InList
  <2>5. s.selected \in VPC BY <2>1, <2>2, <1>0 DEF PageOf, InList
  <2> QED BY <2>1, <2>2, <2>3, <2>4, <2>5, BrowserLoads DEF Browses
<1>11. CASE Filter
  <2>1. ASSUME NEW s, DOMAIN s = VpcFields, m' = rebuildResourceTable(s), s.err = m.err,
               s.page = m.page,
               ~InList(s), s.selected = m.selected, s.maps = m.maps
        PROVE  Browses(m') /\ m'.err = m.err
    <3>1. /\ DOMAIN m' = VpcFields /\ TableOf(m') /\ m'.err = s.err /\ m'.page = s.page
          /\ m'.focus = s.focus
          /\ m'.selected = s.selected /\ m'.maps = s.maps
      BY <2>1, RebuiltTable
    <3>2. ~InList(m) BY <1>11 DEF Filter, On, InList
    <3>3. ~InList(m') BY <2>1, <3>1 DEF InList
    <3> QED BY <2>1, <3>1, <3>2, <3>3, <1>k
  <2>2. ASSUME m' = [m EXCEPT !.focus = "table"] PROVE Browses(m') /\ m'.err = m.err
    <3>1. /\ DOMAIN m' = VpcFields /\ m'.table = m.table /\ m'.viewed = m.viewed /\ m'.err = m.err
          /\ m'.page = m.page
          /\ ~InList(m) /\ ~InList(m') /\ m'.selected = m.selected /\ m'.maps = m.maps
          /\ m'.active = m.active /\ m'.query = m.query
      BY <1>11, <2>2, <1>0 DEF Filter, VpcFields, InList, On
    <3> QED BY <3>1, <1>0 DEF Browses, TableOf, PageOf, Shown
  <2>3. cmds' = cmds BY <1>11 DEF Filter
  <2>4. ASSUME NEW f \in {"table", "filter"}, NEW q
        PROVE  LET s == [m EXCEPT !.focus = f, !.query = q]
               IN  /\ DOMAIN s = VpcFields /\ s.err = m.err /\ s.page = m.page
                   /\ ~InList(s) /\ s.selected = m.selected /\ s.maps = m.maps
    BY <1>0, <2>4 DEF VpcFields, InList
  <2>5. ASSUME NEW q, m.focus = "filter"
        PROVE  LET s == [m EXCEPT !.query = q]
               IN  /\ DOMAIN s = VpcFields /\ s.err = m.err /\ s.page = m.page
                   /\ ~InList(s) /\ s.selected = m.selected /\ s.maps = m.maps
    BY <1>0, <2>5 DEF VpcFields, InList
  <2>6. Browses(m') /\ m'.err = m.err
    <3>1. CASE m' = rebuildResourceTable([m EXCEPT !.focus = "filter", !.query = FALSE])
      BY <3>1, <2>1, <2>4
    <3>2. CASE /\ m.focus = "filter"
               /\ \E q \in BOOLEAN : m' = rebuildResourceTable([m EXCEPT !.query = q])
      BY <3>2, <2>1, <2>5
    <3>3. CASE m' = rebuildResourceTable([m EXCEPT !.focus = "table", !.query = FALSE])
      BY <3>3, <2>1, <2>4
    <3> QED BY <3>1, <3>2, <3>3, <2>2, <1>11 DEF Filter, On
  <2> QED BY <2>3, <2>6, BrowserSet
<1>12. ASSUME NEW c \in UnderWay, resourcesLoadedMsg(c) PROVE BrowserInv'
  <2>1. c.kind = "resources" /\ ReturnFrom(c, {}) BY <1>12 DEF resourcesLoadedMsg
  <2>2. SUFFICES Browses(m') /\ m'.err = m.err
    <3>1. \A d \in {} : AnswerOf(d, m') OBVIOUS
    <3> QED BY <2>1, <2>2, <3>1, BrowserSet
  <2>3. CASE m' = m BY <2>3, <1>0 DEF Browses
  <2>4. CASE m' = [m EXCEPT !.resourceLoading = FALSE, !.resourceErr = TRUE]
    BY <2>4, <1>0, <1>2 DEF VpcFields
  <2>5. CASE /\ m.selected = c.key.vpc
             /\ m' # [m EXCEPT !.resourceLoading = FALSE, !.resourceErr = TRUE]
    <3>1. PICK got \in IF c.key.cached # None THEN {c.key.cached}
                       ELSE [vpc : {c.key.vpc}, region : {c.key.region}, rows : Lists] :
            LET s == [m EXCEPT !.resourceLoading = FALSE,
                             !.maps = [rt \in DOMAIN @ \union {c.key.rt} |->
                                         IF rt = c.key.rt THEN got ELSE @[rt]]]
                jumps == m.pending /\ got.rows # {}
            IN  m' = IF c.key.rt # m.active THEN s
                     ELSE [rebuildResourceTable(s) EXCEPT !.pending = FALSE,
                             !.focus = IF jumps /\ @ # "filter" THEN "table" ELSE @]
      BY <2>5, <1>12 DEF resourcesLoadedMsg
    <3>2. c.key.vpc \in VPC /\ (~m.err => got.vpc = m.selected)
      BY <2>1, <2>5, <3>1 DEF BrowserInv, AnswerOf
    <3> DEFINE maps == [rt \in DOMAIN m.maps \union {c.key.rt} |-> IF rt = c.key.rt THEN got ELSE m.maps[rt]]
               s == [m EXCEPT !.resourceLoading = FALSE, !.maps = maps]
               b == rebuildResourceTable(s)
               f == IF (m.pending /\ got.rows # {}) /\ b.focus # "filter" THEN "table" ELSE b.focus
               t == [b EXCEPT !.pending = FALSE, !.focus = f]
    <3>3. /\ DOMAIN s = VpcFields /\ s.table = m.table /\ s.viewed = m.viewed /\ s.err = m.err
          /\ s.page = m.page
          /\ s.focus = m.focus /\ s.selected = m.selected /\ s.maps = maps /\ s.active = m.active
          /\ s.query = m.query
      BY <1>0 DEF VpcFields
    <3>4. ~m.err => m.page = "browser" /\ m.selected \in VPC /\ ~InList(m)
      BY <3>2, <2>5, <1>0 DEF PageOf
    <3>5. ~m.err => \A rt \in DOMAIN maps : maps[rt].vpc = m.selected
      BY <3>2, <3>4, <1>0 DEF PageOf
    <3>6. PageOf(s) BY <3>3, <3>4, <3>5, <1>0 DEF PageOf, InList
    <3>7. c.key.rt # m.active => TableOf(s)
      <4>1. c.key.rt # m.active /\ m.active \in DOMAIN maps =>
              m.active \in DOMAIN m.maps /\ maps[m.active] = m.maps[m.active]
        OBVIOUS
      <4> HIDE DEF maps
      <4> QED BY <4>1, <3>3, <1>0 DEF TableOf, Shown
    <3>8. m' = (IF c.key.rt # m.active THEN s ELSE t)
      <4>1. DOMAIN b = VpcFields BY <3>3, RebuiltTable
      <4> QED BY <3>1, <4>1 DEF VpcFields
    <3> HIDE DEF s, maps
    <3>9. /\ DOMAIN b = VpcFields /\ TableOf(b) /\ b.err = m.err /\ b.page = m.page
          /\ b.focus = m.focus
          /\ b.selected = m.selected /\ b.maps = maps
      BY <3>3, RebuiltTable
    <3>10. f = m.focus \/ f = "table" BY <3>9
    <3> HIDE DEF b, f
    <3>11. /\ DOMAIN t = VpcFields /\ t.err = m.err /\ t.page = m.page /\ t.focus = f
           /\ t.selected = m.selected
           /\ t.maps = maps /\ t.active = b.active /\ t.query = b.query /\ t.table = b.table
           /\ t.viewed = b.viewed
      BY <3>9 DEF VpcFields
    <3> HIDE DEF t
    <3>12. TableOf(t) BY <3>9, <3>11 DEF TableOf, Shown
    <3>13. PageOf(t)
      <4>1. m.selected \in VPC BY <3>2, <2>5
      <4> QED BY <4>1, <3>4, <3>5, <3>10, <3>11 DEF PageOf, InList
    <3> QED BY <3>3, <3>6, <3>7, <3>8, <3>11, <3>12, <3>13 DEF Browses
  <2> QED BY <2>3, <2>4, <2>5, <1>12 DEF resourcesLoadedMsg
<1> QED BY <1>1, <1>3, <1>4, <1>5, <1>6, <1>7, <1>8, <1>9, <1>10, <1>11, <1>12 DEF Next

-------------------------------------------------------------------------------
OverlayFields == {"selected", "open", "ov", "input", "cache", "flight", "epoch", "racing", "current", "changes",
                  "diffErr", "actors", "actorsLoading", "saved", "mode", "running", "path"}
\* Apart from the comparison, which opens whenever its answer comes, at most one overlay is open.
AtMostOne(open) == \A a, b \in open \ {"diff"} : a = b
OverlayInv == DOMAIN m = OverlayFields /\ AtMostOne(m.open)

\* At most one overlay is open next to the diff, so the two orders agree on it.
LEMMA OverlayShows == ASSUME OverlayInv PROVE OverlaysHaveKeys
<1>1. SUFFICES ASSUME m.open # {}, "diff" \in m.open => m.open = {"diff"}
               PROVE  Top(ViewOrder, m.open) = Top(KeyOrder, m.open)
  BY DEF OverlaysHaveKeys
<1>2. PICK o \in m.open : m.open = {o} BY <1>1 DEF OverlayInv, AtMostOne
<1> QED BY <1>2 DEF Top

\* Of two pages one comes first in the order of the keys, which has none twice.
LEMMA KeysOrdered ==
    ASSUME NEW a, a # "diff", NEW open, open = {a, "diff"}
    PROVE  \E o \in open : \A i, j \in DOMAIN KeyOrder : KeyOrder[i] = o /\ KeyOrder[j] \in open => i <= j
<1>1. DOMAIN KeyOrder = 1..11 BY DEF KeyOrder
<1>2. KeyOrder[10] = "diff" /\ KeyOrder[11] = "help" BY DEF KeyOrder
<1>b. \A i, j \in 1..11 : KeyOrder[i] = KeyOrder[j] => i = j BY DEF KeyOrder
<1>c. \A i \in 1..11 : (KeyOrder[i] = "diff" => i = 10) /\ (KeyOrder[i] = "help" => i = 11)
  BY <1>2, <1>b
<1> HIDE DEF KeyOrder
<1>3. ASSUME a = "help", NEW i \in 1..11, NEW j \in 1..11, KeyOrder[i] = "diff",
             KeyOrder[j] \in open
      PROVE  i <= j
  BY <1>3, <1>c
<1>4. ASSUME a # "help", NEW i \in 1..11, NEW j \in 1..11, KeyOrder[i] = a, KeyOrder[j] \in open
      PROVE  i <= j
  <2>1. i # 11 BY <1>2, <1>4
  <2>2. CASE KeyOrder[j] = a BY <2>2, <1>4, <1>b
  <2>3. CASE KeyOrder[j] = "diff" BY <2>1, <2>3, <1>c
  <2> QED BY <2>2, <2>3, <1>4
<1>5. CASE a = "help"
  <2> WITNESS "diff" \in open
  <2> QED BY <1>1, <1>3, <1>5
<1>6. CASE a # "help"
  <2> WITNESS a \in open
  <2> QED BY <1>1, <1>4, <1>6
<1> QED BY <1>5, <1>6

\* The input is open if its keys are read.
LEMMA InputOpen ==
    ASSUME AtMostOne(m.open), m.open # {}, Top(KeyOrder, m.open) = "traceInput"
    PROVE  "traceInput" \in m.open
<1>1. CASE \E o : m.open = {o} BY <1>1 DEF Top
<1>2. CASE \A o : m.open # {o}
  <2>1. \A S : \A b \in S : S # {b} => \E d \in S : d # b OBVIOUS
  <2>2. PICK b, d \in m.open : d # b BY <2>1, <1>2
  <2>3. PICK a \in {b, d} : a # "diff" BY <2>2
  <2>4. a # "diff" /\ m.open = {a, "diff"} BY <2>2, <2>3 DEF AtMostOne
  <2>5. \E o \in m.open : \A i, j \in DOMAIN KeyOrder : KeyOrder[i] = o /\ KeyOrder[j] \in m.open => i <= j
    BY <2>4, KeysOrdered
  <2> QED BY <2>5 DEF Top
<1> QED BY <1>1, <1>2

\* It holds while no overlay is open.
LEMMA OverlayStart == ASSUME OverlaysInit PROVE OverlayInv
BY DEF OverlaysInit, OverlayInv, OverlayFields, AtMostOne

\* Every key and every answer of the overlays keeps it.
LEMMA OverlayStep == ASSUME OverlayInv, OverlaysNext \/ UNCHANGED vars PROVE OverlayInv'
<1>0. DOMAIN m = OverlayFields /\ AtMostOne(m.open) BY DEF OverlayInv
<1>s. ASSUME DOMAIN m' = OverlayFields, m'.open \subseteq m.open \union {"diff"} PROVE OverlayInv'
  BY <1>s, <1>0 DEF OverlayInv, AtMostOne
<1>1. CASE UNCHANGED vars BY <1>1, <1>s, <1>0 DEF vars
<1>2. CASE Leaves \/ Ages \/ loadDiff \/ loadDiffActors
  BY <1>2, <1>s, <1>0 DEF Leaves, Ages, loadDiff, loadDiffActors, OverlayFields
<1>3. CASE Refreshes \/ \E v \in VPC : Enters(v)
  BY <1>3, <1>s, <1>0 DEF Refreshes, Enters, invalidate, OverlayFields
<1>4. CASE Open
  BY <1>4, <1>0 DEF Open, Ask, Base, OverlayFields, OverlayInv, AtMostOne
<1>5. CASE Trace
  <2>1. CASE Base /\ \E x \in Subject : m' = [m EXCEPT !.open = {"traceInput"}, !.input = x]
    BY <2>1, <1>0 DEF OverlayFields, OverlayInv, AtMostOne
  <2>2. CASE m' = [m EXCEPT !.open = @ \ {"traceInput"}]
    BY <2>2, <1>s, <1>0 DEF OverlayFields
  <2>3. ASSUME m.open # {}, Top(KeyOrder, m.open) = "traceInput", NEW ov,
               m' = [m EXCEPT !.open = (@ \ {"traceInput"}) \union {"trace"}, !.ov = ov]
        PROVE  OverlayInv'
    <3>1. "traceInput" \in m.open BY <2>3, <1>0, InputOpen
    <3>2. DOMAIN m' = OverlayFields /\ m'.open = (m.open \ {"traceInput"}) \union {"trace"}
      BY <2>3, <1>0 DEF OverlayFields
    <3> QED BY <3>1, <3>2, <1>0 DEF OverlayInv, AtMostOne
  <2> QED BY <1>5, <2>1, <2>2, <2>3 DEF Trace
<1>6. CASE OpenStill BY <1>6, <1>0 DEF OpenStill, OverlayInv, AtMostOne, OverlayFields
<1>7. CASE Close
  BY <1>7, <1>s, <1>0 DEF Close, OverlayFields
<1>8. CASE saveSnapshot \/ Analyzer
  BY <1>8, <1>s, <1>0 DEF saveSnapshot, Analyzer, OverlayFields
<1>9. CASE \E v \in VPC : FlightEnds(v)
  BY <1>9, <1>s, <1>0 DEF FlightEnds, OverlayFields
<1>10. ASSUME NEW c \in UnderWay, snapshotCacheGet(c) \/ OverlayMsg(c) \/ DiffFetches(c)
       PROVE  OverlayInv'
  <2>1. CASE snapshotCacheGet(c) BY <2>1, <1>s, <1>0 DEF snapshotCacheGet, OverlayFields
  <2>2. CASE OverlayMsg(c) BY <2>2, <1>s, <1>0 DEF OverlayMsg, OverlayFields
  <2>3. CASE DiffFetches(c) BY <2>3, <1>s, <1>0 DEF DiffFetches, OverlayFields
  <2> QED BY <1>10, <2>1, <2>2, <2>3
<1>11. ASSUME NEW c \in UnderWay,
              diffActorsDoneMsg(c) \/ CreateStartWaitAnalysis(c) \/ analyzerRunMsg(c)
       PROVE  OverlayInv'
  BY <1>11, <1>s, <1>0 DEF diffActorsDoneMsg, CreateStartWaitAnalysis, analyzerRunMsg, OverlayFields
<1>12. ASSUME NEW c \in UnderWay, diffDoneMsg(c) PROVE OverlayInv'
  <2>1. PICK s : /\ DOMAIN s = OverlayFields /\ s.open = m.open
                 /\ \/ m' = s \/ m' = [s EXCEPT !.diffErr = TRUE, !.open = @ \union {"diff"}]
                    \/ \E v : m' = [s EXCEPT !.saved = @ \union {v}]
                    \/ \E v : m' = [s EXCEPT !.changes = v, !.diffErr = FALSE, !.actors = None,
                                          !.actorsLoading = FALSE, !.open = @ \union {"diff"}]
    <3>1. CASE m' = m BY <3>1, <1>0
    <3> DEFINE u == [m EXCEPT !.current = IF c.key.at = "has" THEN c.key.vpc ELSE "nothing"]
    <3>2. DOMAIN u = OverlayFields /\ u.open = m.open BY <1>0 DEF OverlayFields
    <3> QED BY <1>12, <3>1, <3>2 DEF diffDoneMsg
  <2> QED BY <2>1, <1>s DEF OverlayFields
<1> QED
  BY <1>1, <1>2, <1>3, <1>4, <1>5, <1>6, <1>7, <1>8, <1>9, <1>10, <1>11, <1>12 DEF OverlaysNext
===============================================================================
