----------------------------- MODULE ScreensProofs -----------------------------
(***************************************************************************)
(* What the runs of Screens check of the screens, proved of them for every *)
(* set of regions, resources, generations and bounds.  The invariants and  *)
(* their proofs are with the screens that need bags of commands for them   *)
(* (CwTUI, VpcTUI, FeedTUI); of the others they are here.                  *)
(***************************************************************************)
EXTENDS Screens, FiniteSetTheorems, WellFoundedInduction, TLAPS

Spec == Init /\ [][Next]_<<m, cmds, app>>

\* The screen that runs starts, and goes on, by itself.
LEMMA AppStarts ==
    ASSUME Init
    PROVE  /\ app = "cw" => Cw!Init
           /\ app = "viewer" => Viewer!Init
           /\ app = "bill" => Feed!BillInit
           /\ app = "trail" => Feed!TrailInit
           /\ app = "lake" => Feed!LakeInit
           /\ app = "audit" => Feed!AuditInit
           /\ app = "vpcs" => Vpcs!Init
           /\ app = "vpc" => Vpc!Init
           /\ app = "filtered" => Filtered!Init
           /\ app = "overlays" => Overlays!OverlaysInit
           /\ app = "analyzer" => Analyzer!OverlaysInit
           /\ app = "snapshots" => Snapshots!OverlaysInit
           /\ app = "lambda" => Lambda!Init
           /\ app = "sqs" => SQS!Init
           /\ app = "dialogs" => Dialogs!PanesInit
           /\ app = "table" => Table!InventoryInit
           /\ app = "results" => Parts!ResultsInit
           /\ app = "explorer" => Parts!ExplorerInit
BY DEF Init

\* It stays the screen that runs, and every step is one of its own.
LEMMA AppGoesOn ==
    ASSUME [Next]_<<m, cmds, app>>
    PROVE  /\ app' = app
           /\ app = "cw" => Cw!Next \/ UNCHANGED Cw!vars
           /\ app = "viewer" => Viewer!Next \/ UNCHANGED Viewer!vars
           /\ app = "bill" => Feed!BillNext \/ UNCHANGED Feed!vars
           /\ app = "trail" => Feed!TrailNext \/ UNCHANGED Feed!vars
           /\ app = "lake" => Feed!LakeNext \/ UNCHANGED Feed!vars
           /\ app = "audit" => Feed!AuditNext \/ UNCHANGED Feed!vars
           /\ app = "vpcs" => Vpcs!Next \/ UNCHANGED Vpcs!vars
           /\ app = "vpc" => Vpc!Next \/ UNCHANGED Vpc!vars
           /\ app = "filtered" => Filtered!Next \/ UNCHANGED Filtered!vars
           /\ app = "overlays" => Overlays!OverlaysNext \/ UNCHANGED Overlays!vars
           /\ app = "analyzer" => Analyzer!OverlaysNext \/ UNCHANGED Analyzer!vars
           /\ app = "snapshots" => Snapshots!OverlaysNext \/ UNCHANGED Snapshots!vars
           /\ app = "lambda" => Lambda!Next \/ UNCHANGED Lambda!vars
           /\ app = "sqs" => SQS!Next \/ UNCHANGED SQS!vars
           /\ app = "dialogs" => Dialogs!PanesNext \/ UNCHANGED Dialogs!vars
           /\ app = "table" => Table!InventoryNext \/ UNCHANGED Table!vars
           /\ app = "results" => Parts!ResultsNext \/ UNCHANGED Parts!vars
           /\ app = "explorer" => Parts!ExplorerNext \/ UNCHANGED Parts!vars
<1>1. CASE Next BY <1>1 DEF Next
<1>2. CASE UNCHANGED <<m, cmds, app>>
  BY <1>2 DEF Cw!vars, Viewer!vars, Feed!vars, Vpcs!vars, Vpc!vars, Filtered!vars, Overlays!vars,
       Analyzer!vars, Snapshots!vars, Lambda!vars, SQS!vars, Dialogs!vars, Table!vars,
       Parts!vars
<1> QED BY <1>1, <1>2

-------------------------------------------------------------------------------
LambdaFields == {"loadGen", "loading", "err", "inv", "view", "tab", "filter", "filterActive", "showAbout",
                 "findingsActive", "detailActive", "detailOf", "detailKey", "detailLoading", "detailFunc",
                 "sections", "codeConfirm", "codeActive", "codeLoading", "codeKey", "codeFiles", "codeViewing"}
\* Whatever changes the tab, the filter or the inventory rebuilds the table, and
\* the filter's input and the findings are never both open: the one page the
\* drawing and the keys look for in another order.
LambdaInv ==
    /\ DOMAIN m = LambdaFields
    /\ m.loading \/ m.err \/ m.view = Lambda!buildView(m)
    /\ ~(m.findingsActive /\ m.filterActive)

\* It implies both properties: the list is that of the last answer, and where the
\* drawing and the keys look for a page in different orders one of the two is shut.
LEMMA LambdaShows == ASSUME LambdaInv PROVE Lambda!TableCurrent /\ Lambda!KeysReachDrawn
<1>1. Lambda!TableCurrent BY DEF LambdaInv, Lambda!TableCurrent
<1>2. ~(m.findingsActive /\ m.filterActive) BY DEF LambdaInv
<1>3. Lambda!KeysReachDrawn BY <1>2 DEF Lambda!KeysReachDrawn, Lambda!Routed, Lambda!Drawn
<1> QED BY <1>1, <1>3

\* It holds when the dashboard is opened.
LEMMA LambdaStart == ASSUME Lambda!Init PROVE LambdaInv
BY DEF Lambda!Init, LambdaInv, LambdaFields

\* Every key and every answer of the Lambda dashboard keeps it.
LEMMA LambdaStep == ASSUME LambdaInv, Lambda!Next \/ UNCHANGED Lambda!vars PROVE LambdaInv'
<1> DEFINE Same(s) == /\ DOMAIN s = LambdaFields
                      /\ s.inv = m.inv /\ s.tab = m.tab /\ s.filter = m.filter /\ s.view = m.view
                      /\ s.loading = m.loading /\ s.err = m.err /\ s.filterActive = m.filterActive
                      /\ s.findingsActive = m.findingsActive
<1>0. DOMAIN m = LambdaFields BY DEF LambdaInv
<1>k. /\ "inv" \in DOMAIN m /\ "tab" \in DOMAIN m /\ "filter" \in DOMAIN m /\ "view" \in DOMAIN m
      /\ "loading" \in DOMAIN m /\ "err" \in DOMAIN m /\ "filterActive" \in DOMAIN m
      /\ "findingsActive" \in DOMAIN m
  BY <1>0 DEF LambdaFields
<1>s. ASSUME NEW q, q = m', Same(q) PROVE LambdaInv' BY <1>s DEF LambdaInv, Lambda!buildView
<1>q. PICK q : q = m' OBVIOUS
<1>1. CASE UNCHANGED Lambda!vars BY <1>1 DEF LambdaInv, Lambda!vars, Lambda!buildView
<1>2. CASE Lambda!Retry \/ Lambda!startReload
  <2>1. PICK s : /\ s.findingsActive = m.findingsActive
                 /\ s.filterActive = m.filterActive
                 /\ DOMAIN s = LambdaFields
                 /\ Lambda!Load(s)
    BY <1>2, <1>0 DEF Lambda!Retry, Lambda!startReload, LambdaFields
  <2>2. /\ m'.loading = TRUE /\ DOMAIN m' = LambdaFields /\ m'.findingsActive = m.findingsActive
        /\ m'.filterActive = m.filterActive
    BY <2>1 DEF Lambda!Load, Lambda!beginLoad, LambdaFields
  <2> QED BY <2>2 DEF LambdaInv
<1>r. ASSUME NEW s, DOMAIN s = LambdaFields, m' = Lambda!rebuild(s),
             ~(s.findingsActive /\ s.filterActive)
      PROVE  LambdaInv'
  <2>1. /\ DOMAIN m' = LambdaFields /\ m'.view = Lambda!buildView(s)
        /\ m'.inv = s.inv /\ m'.tab = s.tab /\ m'.filter = s.filter
        /\ m'.findingsActive = s.findingsActive /\ m'.filterActive = s.filterActive
    BY <1>r DEF Lambda!rebuild, LambdaFields
  <2>2. Lambda!buildView(m)' = Lambda!buildView(s) BY <2>1 DEF Lambda!buildView
  <2> QED BY <1>r, <2>1, <2>2 DEF LambdaInv
<1>3. ASSUME NEW c \in Lambda!UnderWay, Lambda!invMsg(c) PROVE LambdaInv'
  <2>1. CASE m' = m
    <3>1. Same(m) BY <1>0
    <3> QED BY <2>1, <3>1, <1>s
  <2>2. CASE m' = [m EXCEPT !.loading = FALSE, !.err = TRUE]
    BY <2>2, <1>0 DEF LambdaInv, LambdaFields
  <2>3. ASSUME NEW inv, m' = Lambda!rebuild([m EXCEPT !.loading = FALSE, !.inv = inv])
        PROVE  LambdaInv'
    BY <2>3, <1>0, <1>r, Zenon DEF LambdaInv, LambdaFields
  <2> QED BY <1>3, <2>1, <2>2, <2>3 DEF Lambda!invMsg
<1>4. ASSUME NEW c \in Lambda!UnderWay, Lambda!detailMsg(c) PROVE LambdaInv'
  <2>1. \/ q = m
        \/ q = [m EXCEPT !.detailLoading = FALSE, !.detailFunc = c.key, !.sections = c.key]
        \/ q = [m EXCEPT !.detailLoading = FALSE]
    BY <1>4, <1>q DEF Lambda!detailMsg
  <2>2. Same(q) BY <2>1, <1>0, <1>k, Zenon
  <2> QED BY <2>2, <1>q, <1>s
<1>5. ASSUME NEW c \in Lambda!UnderWay, Lambda!codeMsg(c) PROVE LambdaInv'
  <2>1. \/ q = m
        \/ q = [m EXCEPT !.codeLoading = FALSE, !.codeFiles = c.key]
        \/ q = [m EXCEPT !.codeLoading = FALSE]
    BY <1>5, <1>q DEF Lambda!codeMsg
  <2>2. Same(q) BY <2>1, <1>0, <1>k, Zenon
  <2> QED BY <2>2, <1>q, <1>s
<1>11. CASE Lambda!About
  <2>1. Same(q) BY <1>11, <1>0, <1>q DEF Lambda!About, LambdaFields
  <2> QED BY <2>1, <1>q, <1>s
<1>12. CASE Lambda!closeDetail
  <2>1. Same(q) BY <1>12, <1>0, <1>q DEF Lambda!closeDetail, LambdaFields
  <2> QED BY <2>1, <1>q, <1>s
<1>13. CASE Lambda!requestCode
  <2>1. Same(q) BY <1>13, <1>0, <1>q DEF Lambda!requestCode, LambdaFields
  <2> QED BY <2>1, <1>q, <1>s
<1>14. CASE Lambda!cancelCode
  <2>1. Same(q) BY <1>14, <1>0, <1>q DEF Lambda!cancelCode, LambdaFields
  <2> QED BY <2>1, <1>q, <1>s
<1>15. CASE Lambda!startCodeDownload
  <2>1. Same(q) BY <1>15, <1>0, <1>q DEF Lambda!startCodeDownload, LambdaFields
  <2> QED BY <2>1, <1>q, <1>s
<1>6. CASE Lambda!handleCodeKey
  <2>1. Same(q) BY <1>6, <1>0, <1>q DEF Lambda!handleCodeKey, LambdaFields
  <2> QED BY <2>1, <1>q, <1>s
<1>10. ASSUME NEW r, Lambda!openDetail(r) PROVE LambdaInv'
  <2>1. PICK o : o = [m EXCEPT !.detailActive = TRUE, !.detailOf = r, !.detailFunc = None] OBVIOUS
  <2>2. \/ q = [o EXCEPT !.detailLoading = TRUE, !.detailKey = r, !.sections = None]
        \/ q = [o EXCEPT !.detailLoading = FALSE, !.sections = r]
    BY <1>10, <1>q, <2>1 DEF Lambda!openDetail
  <2>3. Same(q) BY <2>1, <2>2, <1>0, <1>k, Zenon
  <2> QED BY <2>3, <1>q, <1>s
<1>7. CASE Lambda!Findings
  BY <1>7, <1>0 DEF LambdaInv, Lambda!Findings, LambdaFields, Lambda!buildView
<1>8. CASE Lambda!switchTab
  BY <1>8, <1>0 DEF LambdaInv, Lambda!switchTab, LambdaFields, Lambda!rebuild, Lambda!buildView
<1>9. CASE Lambda!Filter
  <2>1. m.findingsActive => m.filterActive \/ Lambda!Routed(m) # "dashboard"
    BY DEF Lambda!Routed
  <2>2. ~m.findingsActive BY <1>9, <2>1 DEF Lambda!Filter, LambdaInv
  <2>3. CASE m' = [m EXCEPT !.filterActive = TRUE]
    BY <2>2, <2>3, <1>0 DEF LambdaInv, LambdaFields, Lambda!buildView
  <2>4. ASSUME NEW typed, NEW still,
               m' = Lambda!rebuild([m EXCEPT !.filter = typed, !.filterActive = still])
        PROVE  LambdaInv'
    BY <2>2, <2>4, <1>0, <1>r, Zenon DEF LambdaFields
  <2> QED BY <1>9, <2>3, <2>4 DEF Lambda!Filter
<1> QED
  BY <1>1, <1>2, <1>3, <1>4, <1>5, <1>6, <1>7, <1>8, <1>9, <1>10, <1>11, <1>12, <1>13, <1>14, <1>15
  DEF Lambda!Next, Lambda!Keys, Lambda!Answer

-------------------------------------------------------------------------------
\* The SQS explorer, whose list is filtered again on every answer and every key
\* of its search.
SqsFields == {"queues", "filtered", "selectedIdx", "search", "searchActive", "queuesLoading", "err", "details",
              "detailLoading", "view", "peekConfirm", "peekLoading", "peekQueue", "messages", "recordActive",
              "metrics", "metricsVisible", "metricsLoading", "jumpLoading", "overlay", "over"}
Searched(s) == {q \in s.queues : s.search => q \in QMatch}
\* The list changes with the queues and the search only, and with each of them.
SqsInv ==
    /\ DOMAIN m = SqsFields
    /\ m.filtered = Searched(m) /\ m.view \in {"overview", "messages"}

\* It implies both properties of the SQS explorer.
LEMMA SqsShows == ASSUME SqsInv PROVE SQS!TableCurrent /\ SQS!KeysReachDrawn
<1>1. SQS!TableCurrent
  BY DEF SqsInv, SQS!TableCurrent, SQS!filterQueues, SqsFields, Searched
<1>2. SQS!KeysReachDrawn BY DEF SqsInv, SQS!KeysReachDrawn, SQS!Routed, SQS!Drawn
<1> QED BY <1>1, <1>2

\* It holds when the explorer is opened.
LEMMA SqsStart == ASSUME SQS!Init PROVE SqsInv
BY DEF SQS!Init, SqsInv, SqsFields, Searched

\* filterQueues leaves a list that is searched, whatever it is given.
LEMMA QueuesFiltered ==
    ASSUME NEW s, DOMAIN s = SqsFields
    PROVE  LET f == SQS!filterQueues(s)
           IN  DOMAIN f = SqsFields /\ f.filtered = Searched(f) /\ f.view = s.view
BY DEF SQS!filterQueues, SqsFields, Searched

\* A list filtered again, with the details of its first queue asked for.
LEMMA SqsEager ==
    ASSUME NEW s, DOMAIN s = SqsFields, s.filtered = Searched(s), s.view \in {"overview", "messages"},
           SQS!eagerDetailCmd(s)
    PROVE  SqsInv'
BY DEF SQS!eagerDetailCmd, SqsInv, SqsFields, Searched

\* Every key and every answer of the SQS explorer keeps it.
LEMMA SqsStep == ASSUME SqsInv, SQS!Next \/ UNCHANGED SQS!vars PROVE SqsInv'
<1> DEFINE Same(s) == /\ DOMAIN s = SqsFields
                      /\ s.queues = m.queues /\ s.search = m.search /\ s.filtered = m.filtered
                      /\ s.view \in {"overview", "messages"}
<1>0. DOMAIN m = SqsFields /\ m.view \in {"overview", "messages"} BY DEF SqsInv
<1>k. /\ "queues" \in DOMAIN m /\ "search" \in DOMAIN m /\ "filtered" \in DOMAIN m
      /\ "view" \in DOMAIN m
  BY <1>0 DEF SqsFields
<1>s. ASSUME NEW q, q = m', Same(q) PROVE SqsInv' BY <1>s DEF SqsInv, Searched
<1>q. PICK q : q = m' OBVIOUS
<1>1. CASE UNCHANGED SQS!vars BY <1>1, <1>s DEF SqsInv, SQS!vars
<1>2. CASE SQS!ClearError \/ SQS!OverlayKeys \/ SQS!Confirm
  <2>1. Same(q) BY <1>2, <1>0, <1>k, <1>q, Zenon DEF SQS!ClearError, SQS!OverlayKeys, SQS!Confirm
  <2> QED BY <2>1, <1>q, <1>s
<1>3. CASE SQS!Peek \/ SQS!toggleMetrics \/ SQS!startConsumerJump \/ SQS!Refresh
  <2>1. Same(q)
    BY <1>3, <1>0, <1>k, <1>q, Zenon DEF SQS!Peek, SQS!toggleMetrics, SQS!startConsumerJump, SQS!Refresh
  <2> QED BY <2>1, <1>q, <1>s
<1>4. CASE SQS!handleMessagesKeys \/ SQS!handleRecordKeys
  <2>1. Same(q) BY <1>4, <1>0, <1>k, <1>q DEF SQS!handleMessagesKeys, SQS!handleRecordKeys
  <2> QED BY <2>1, <1>q, <1>s
<1>5. CASE SQS!moveSelection \/ SQS!jumpToDLQ
  BY <1>5, <1>0, SqsEager DEF SQS!moveSelection, SQS!jumpToDLQ, SqsFields, SqsInv, Searched
<1>6. CASE SQS!Search
  <2>1. CASE m' = [m EXCEPT !.searchActive = TRUE]
    <3>1. Same(q) BY <2>1, <1>0, <1>k, <1>q
    <3> QED BY <3>1, <1>q, <1>s
  <2>2. ASSUME NEW s, DOMAIN s = SqsFields, s.view = m.view, SQS!eagerDetailCmd(SQS!filterQueues(s))
        PROVE  SqsInv'
    BY <2>2, QueuesFiltered, SqsEager DEF SqsInv
  <2>3. ASSUME NEW t, m' = SQS!filterQueues([m EXCEPT !.search = t]) PROVE SqsInv'
    BY <2>3, <1>0, QueuesFiltered DEF SqsInv, SqsFields, Searched
  <2> QED BY <1>6, <1>0, <2>1, <2>2, <2>3, Zenon DEF SQS!Search, SqsFields
<1>7. CASE \E c \in SQS!UnderWay : SQS!queuesMsg(c)
  <2>1. CASE m' = [m EXCEPT !.queuesLoading = FALSE, !.err = TRUE]
    <3>1. Same(q) BY <2>1, <1>0, <1>k, <1>q
    <3> QED BY <3>1, <1>q, <1>s
  <2>2. ASSUME NEW qs, NEW s,
               s = SQS!filterQueues([m EXCEPT !.queuesLoading = FALSE, !.queues = qs]),
               m' = s \/ m' = [s EXCEPT !.detailLoading = TRUE]
        PROVE  SqsInv'
    <3>1. DOMAIN s = SqsFields /\ s.filtered = Searched(s) /\ s.view = m.view
      BY <2>2, <1>0, QueuesFiltered, Zenon DEF SqsFields
    <3> QED BY <2>2, <3>1 DEF SqsInv, SqsFields, Searched
  <2> QED BY <1>7, <2>1, <2>2 DEF SQS!queuesMsg
<1>8. ASSUME NEW c \in SQS!UnderWay, SQS!peekMsg(c) PROVE SqsInv'
  <2>1. \/ q = m
        \/ q = [m EXCEPT !.peekLoading = FALSE]
        \/ q = [m EXCEPT !.peekLoading = FALSE, !.messages = c.key, !.over = None,
                          !.view = "messages"]
    BY <1>8, <1>q DEF SQS!peekMsg
  <2>2. Same(q) BY <2>1, <1>0, <1>k, Zenon
  <2> QED BY <2>2, <1>q, <1>s
<1>9. ASSUME NEW c \in SQS!UnderWay, SQS!detailMsg(c) \/ SQS!metricsMsg(c) \/ SQS!consumersMsg(c)
      PROVE  SqsInv'
  <2>1. \/ \E d, b : q = [m EXCEPT !.details = d, !.detailLoading = b]
        \/ \E b, d : q = [m EXCEPT !.metricsLoading = b, !.metrics = d]
        \/ q = [m EXCEPT !.jumpLoading = FALSE]
    BY <1>9, <1>q DEF SQS!detailMsg, SQS!metricsMsg, SQS!consumersMsg
  <2>2. Same(q) BY <2>1, <1>0, <1>k
  <2> QED BY <2>2, <1>q, <1>s
<1> QED BY <1>1, <1>2, <1>3, <1>4, <1>5, <1>6, <1>7, <1>8, <1>9
        DEF SQS!Next, SQS!Keys, SQS!handleOverviewKeys, SQS!Answer

-------------------------------------------------------------------------------
\* The Summary's table, whose rows are cached by group.
TableFields == {"found", "bad", "services", "activeService", "chosen", "drifted", "focus", "filtering",
                "filterText", "filterForm", "sortCol", "sortAsc", "allRows", "table", "cursor", "sized"}
\* What is cached of a group, in a state s, is what it would be made of anew.
Cached(s) == \A g \in DOMAIN s.allRows : s.allRows[g] = Table!Group(Table!By(s), g)
\* Whatever changes the rows, a filter or the order empties the cache before the
\* table is filled from it.
TableInv == /\ DOMAIN m = TableFields
            /\ Cached(m)
            /\ \/ m.table = Table!Group(Table!By(m), Table!currentService(m))
               \/ ~m.sized /\ m.table = <<>>

\* Filled from a cache that is current, or empty, the table is current.
LEMMA TableFilled ==
    ASSUME NEW s, DOMAIN s = TableFields, Cached(s)
    PROVE  LET t == Table!updateTableRows(s)
           IN  /\ DOMAIN t = TableFields /\ Cached(t)
               /\ t.table = Table!Group(Table!By(t), Table!currentService(t))
<1> DEFINE g == Table!currentService(s)
           t == Table!updateTableRows(s)
<1>1. /\ DOMAIN t = TableFields
      /\ t.allRows = [h \in DOMAIN s.allRows \union {g} |-> Table!rowsFor(s, h)]
      /\ t.table = Table!rowsFor(s, g)
      /\ t.services = s.services /\ t.activeService = s.activeService
  BY DEF Table!updateTableRows, TableFields
<1>2. /\ t.found = s.found /\ t.bad = s.bad /\ t.filterText = s.filterText
      /\ t.filterForm = s.filterForm /\ t.sortCol = s.sortCol /\ t.sortAsc = s.sortAsc
  BY DEF Table!updateTableRows, TableFields
<1> HIDE DEF t
<1>3. Table!By(t) = Table!By(s) BY <1>2 DEF Table!By
<1>4. Table!currentService(t) = g BY <1>1 DEF Table!currentService
<1>5. ASSUME NEW h PROVE Table!rowsFor(s, h) = Table!Group(Table!By(s), h)
  BY DEF Table!rowsFor, Cached
<1>6. t.table = Table!Group(Table!By(t), Table!currentService(t)) BY <1>1, <1>3, <1>4, <1>5
<1>7. Cached(t) BY <1>1, <1>3, <1>5 DEF Cached
<1> QED BY <1>1, <1>6, <1>7 DEF t

\* An empty cache is current, whatever else there is.
LEMMA TableEmptied ==
    ASSUME NEW s, DOMAIN s = TableFields
    PROVE  LET t == Table!invalidateRows(s)
           IN  /\ DOMAIN t = TableFields /\ Cached(t) /\ t.allRows = <<>>
               /\ t.table = s.table /\ t.sized = s.sized
<1> DEFINE t == Table!invalidateRows(s)
<1>1. DOMAIN t = TableFields /\ t.allRows = <<>> /\ t.table = s.table /\ t.sized = s.sized
  BY DEF Table!invalidateRows, TableFields
<1> HIDE DEF t
<1>2. Cached(t) BY <1>1 DEF Cached
<1> QED BY <1>1, <1>2 DEF t

\* So is the cache after the groups were listed anew.
LEMMA TableRelisted ==
    ASSUME NEW s, DOMAIN s = TableFields
    PROVE  LET t == Table!onResultsChanged(s)
           IN  DOMAIN t = TableFields /\ Cached(t) /\ t.table = s.table /\ t.sized = s.sized
<1> DEFINE t == [s EXCEPT !.services = Table!Grouped(s)]
           u == [t EXCEPT !.activeService = IF @ >= Table!Cardinality(t.services) THEN 0 ELSE @]
           v == [u EXCEPT !.drifted = Table!currentService(u) # u.chosen]
<1>1. DOMAIN v = TableFields /\ v.table = s.table /\ v.sized = s.sized BY DEF TableFields
<1>2. Table!onResultsChanged(s) = Table!invalidateRows(v) BY DEF Table!onResultsChanged
<1> HIDE DEF v
<1> QED BY <1>1, <1>2, TableEmptied

\* It holds at the start, when a seed may have listed the groups and no row is drawn.
LEMMA TableStart == ASSUME Table!InventoryInit PROVE TableInv
<1>1. PICK none : /\ DOMAIN none = TableFields /\ none.allRows = <<>> /\ none.table = <<>>
                  /\ none.sized = FALSE
                  /\ m = none \/ m = Table!onResultsChanged(none)
  BY DEF Table!InventoryInit, TableFields
<1>2. CASE m = none BY <1>1, <1>2 DEF TableInv, Cached
<1>3. CASE m = Table!onResultsChanged(none) BY <1>1, <1>3, TableRelisted DEF TableInv
<1> QED BY <1>1, <1>2, <1>3

\* Every key and every message of the table keeps it.
LEMMA TableStep == ASSUME TableInv, Table!InventoryNext \/ UNCHANGED Table!vars PROVE TableInv'
<1>0. DOMAIN m = TableFields /\ Cached(m) BY DEF TableInv
<1>s. ASSUME NEW q, q = m', DOMAIN q = TableFields, q.allRows = m.allRows, q.table = m.table,
             q.sized = m.sized, q.found = m.found, q.bad = m.bad, q.filterText = m.filterText,
             q.filterForm = m.filterForm, q.sortCol = m.sortCol, q.sortAsc = m.sortAsc,
             q.services = m.services, q.activeService = m.activeService
      PROVE  TableInv'
  <2>1. Table!By(q) = Table!By(m) BY <1>s DEF Table!By
  <2>2. Table!currentService(q) = Table!currentService(m) BY <1>s DEF Table!currentService
  <2>3. Cached(q) BY <1>s, <1>0, <2>1 DEF Cached
  <2>4. \/ q.table = Table!Group(Table!By(q), Table!currentService(q))
        \/ ~q.sized /\ q.table = <<>>
    BY <1>s, <2>1, <2>2 DEF TableInv
  <2>5. Cached(m)' <=> Cached(m') BY DEF Cached
  <2> QED BY <1>s, <2>3, <2>4, <2>5 DEF TableInv
<1>f. ASSUME NEW s, DOMAIN s = TableFields, Cached(s),
             NEW q, q = Table!updateTableRows(s), m' = q \/ m' = [q EXCEPT !.focus = "table"]
                    \/ m' = [q EXCEPT !.sized = TRUE] \/ \E i : m' = [q EXCEPT !.cursor = i]
      PROVE  TableInv'
  <2>1. /\ DOMAIN q = TableFields /\ Cached(q)
        /\ q.table = Table!Group(Table!By(q), Table!currentService(q))
    BY <1>f, TableFilled
  <2>2. PICK p : p = m' OBVIOUS
  <2>3. /\ DOMAIN p = TableFields /\ p.allRows = q.allRows /\ p.table = q.table
        /\ p.found = q.found /\ p.bad = q.bad /\ p.filterText = q.filterText
        /\ p.filterForm = q.filterForm /\ p.sortCol = q.sortCol /\ p.sortAsc = q.sortAsc
        /\ p.services = q.services /\ p.activeService = q.activeService
    BY <1>f, <2>1, <2>2 DEF TableFields
  <2>4. Table!By(p) = Table!By(q) BY <2>3 DEF Table!By
  <2>5. Table!currentService(p) = Table!currentService(q) BY <2>3 DEF Table!currentService
  <2>6. Cached(p) /\ p.table = Table!Group(Table!By(p), Table!currentService(p))
    BY <2>1, <2>3, <2>4, <2>5 DEF Cached
  <2> QED BY <2>2, <2>3, <2>6 DEF TableInv, Cached
<1>e. ASSUME NEW s, DOMAIN s = TableFields, NEW q, q = Table!updateTableRows(Table!invalidateRows(s)),
             m' = q \/ \E i : m' = [q EXCEPT !.cursor = i]
      PROVE  TableInv'
  BY <1>e, <1>f, TableEmptied
<1>r. ASSUME NEW s, DOMAIN s = TableFields, m' = Table!updateTableRows(Table!onResultsChanged(s))
      PROVE  TableInv'
  BY <1>r, <1>f, TableRelisted
<1>1. CASE UNCHANGED Table!vars BY <1>0, <1>1, <1>s DEF Table!vars
<1>2. CASE Table!WindowSize BY <1>0, <1>2, <1>f, Zenon DEF Table!WindowSize, Table!Go
<1>3. CASE Table!Chunk
  BY <1>0, <1>3, <1>r, Zenon DEF Table!Chunk, Table!Go, TableFields
<1>4. CASE Table!finishWatchSweep
  BY <1>0, <1>4, <1>r, Zenon DEF Table!finishWatchSweep, Table!Go, TableFields
<1>5. CASE Table!restartTable
  BY <1>0, <1>5, <1>e, Zenon DEF Table!restartTable, Table!Go, TableFields
<1>6. CASE Table!MoveCursor
  BY <1>0, <1>6, <1>s DEF Table!MoveCursor, Table!Go, TableFields
<1>7. CASE Table!sortBy
  BY <1>0, <1>7, <1>e DEF Table!sortBy, Table!Go, TableFields
<1>8. CASE Table!filterBy
  BY <1>0, <1>8, <1>e, Zenon DEF Table!filterBy, Table!Go, TableFields
<1>9. CASE Table!typeFilter
  <2> DEFINE s == [m EXCEPT !.filtering = TRUE]
             t == [m EXCEPT !.filtering = FALSE]
             Cleared(on) == [m EXCEPT !.filterText = on]
             u == [m EXCEPT !.filtering = FALSE, !.filterText = FALSE]
  <2>1. ASSUME NEW q, q = s \/ q = t PROVE DOMAIN q = TableFields /\ Cached(q)
    <3>1. /\ DOMAIN q = TableFields /\ q.allRows = m.allRows
          /\ q.found = m.found /\ q.bad = m.bad /\ q.filterText = m.filterText
          /\ q.filterForm = m.filterForm /\ q.sortCol = m.sortCol /\ q.sortAsc = m.sortAsc
      BY <2>1, <1>0 DEF TableFields
    <3>2. Table!By(q) = Table!By(m) BY <3>1 DEF Table!By
    <3> QED BY <3>1, <3>2, <1>0 DEF Cached
  <2>2. /\ DOMAIN u = TableFields
        /\ \A on : DOMAIN Cleared(on) = TableFields
    BY <1>0 DEF TableFields
  <2>3. \/ m' = Table!updateTableRows(s) \/ m' = Table!updateTableRows(t)
        \/ \E on : m' = Table!updateTableRows(Table!invalidateRows(Cleared(on)))
        \/ m' = Table!updateTableRows(Table!invalidateRows(u))
    BY <1>9 DEF Table!typeFilter, Table!Go
  <2> HIDE DEF s, t, u, Cleared
  <2> QED BY <2>1, <2>2, <2>3, <1>e, <1>f
<1>10. CASE Table!selectService
  <2>1. ASSUME NEW i, NEW s, s = Table!Select(m, i), m' = s \/ m' = [s EXCEPT !.focus = "table"]
        PROVE  TableInv'
    <3> DEFINE at == [m EXCEPT !.activeService = i]
               t == [at EXCEPT !.chosen = Table!currentService(at), !.drifted = FALSE]
    <3>0. s = Table!updateTableRows(t) BY <2>1 DEF Table!Select
    <3>1. /\ DOMAIN t = TableFields /\ t.allRows = m.allRows
          /\ t.found = m.found /\ t.bad = m.bad
          /\ t.filterText = m.filterText /\ t.filterForm = m.filterForm
          /\ t.sortCol = m.sortCol /\ t.sortAsc = m.sortAsc
      BY <1>0 DEF TableFields
    <3> HIDE DEF t
    <3>2. Table!By(t) = Table!By(m) BY <3>1 DEF Table!By
    <3>3. Cached(t) BY <3>1, <3>2, <1>0 DEF Cached
    <3> QED BY <2>1, <3>0, <3>1, <3>3, <1>f
  <2>2. ASSUME NEW p, m' = [m EXCEPT !.focus = p] PROVE TableInv'
    BY <2>2, <1>0, <1>s DEF TableFields
  <2> QED BY <1>10, <2>1, <2>2 DEF Table!selectService, Table!Go
<1>11. CASE Table!jumpToResource
  <2>1. PICK s, i : /\ DOMAIN s = TableFields
                    /\ m' = [Table!updateTableRows(Table!invalidateRows(s)) EXCEPT !.cursor = i]
    BY <1>0, <1>11 DEF Table!jumpToResource, Table!Go, TableFields
  <2> QED BY <2>1, <1>e
<1> QED
  BY <1>1, <1>2, <1>3, <1>4, <1>5, <1>6, <1>7, <1>8, <1>9, <1>10, <1>11 DEF Table!InventoryNext

-------------------------------------------------------------------------------
\* The Summary's overlays.
PaneFields == {"open", "focus", "tableFocus", "detail", "show", "wait", "data", "rows", "errors", "loading",
               "done", "scanGen", "engine", "cfg", "switching", "report", "moved", "stranded", "eaten",
               "mixed", "ahead"}
\* One overlay is open at a time, because only the keys of the main page open
\* one; and the focus leaves the detail panel before the panel goes, but for an
\* engine's coming.
DialogInv ==
    /\ DOMAIN m = PaneFields
    /\ m.open = {} \/ \E o \in Dialog : m.open = {o}
    /\ m.focus \in {"sidebar", "table", "detail"}
    /\ m.focus = "detail" => m.detail # None \/ m.stranded
    /\ m.rows \subseteq Single

\* First finds the one overlay that is open, and nothing when there is none.
LEMMA FirstOpen ==
    ASSUME NEW order, NEW s, NEW other, DOMAIN order \subseteq Nat
    PROVE  /\ s.open = {} => Dialogs!First(order, s, other) = other
           /\ \A i \in DOMAIN order :
                s.open = {order[i]} /\ (\A j \in DOMAIN order : order[j] = order[i] => j = i)
                => Dialogs!First(order, s, other) = order[i]
<1>1. ASSUME s.open = {} PROVE Dialogs!First(order, s, other) = other BY <1>1 DEF Dialogs!First
<1>2. ASSUME NEW i \in DOMAIN order, s.open = {order[i]},
             \A j \in DOMAIN order : order[j] = order[i] => j = i
      PROVE  Dialogs!First(order, s, other) = order[i]
  <2> DEFINE on == {j \in DOMAIN order : order[j] \in s.open}
  <2>1. on = {i} BY <1>2
  <2>2. i \in on /\ \A j \in on : i <= j BY <2>1, <1>2
  <2>3. \A k \in on : k = i BY <2>1
  <2> HIDE DEF on
  <2>4. (CHOOSE k \in on : \A j \in on : k <= j) = i BY <2>2, <2>3
  <2>5. on # {} BY <2>2
  <2> QED BY <2>4, <2>5, Zenon DEF Dialogs!First, on
<1> QED BY <1>1, <1>2

\* Keys go to the overlay that is open, the status bar lists its keys, but for
\* the "About" text, and it is drawn, unless the screen of a scan or of its
\* errors hides it, or it is the filter's input line.
LEMMA OneOverlay ==
    ASSUME DialogInv
    PROVE  /\ m.open = {} => Dialogs!Listener(m) = "main"
           /\ \A o \in Dialog : m.open = {o} => Dialogs!Listener(m) = o
           /\ Dialogs!PanesHaveKeys
<1> DEFINE keys == <<"settings", "help", "about", "debug", "errors", "coverage", "diff",
                     "switcher", "filter", "finder", "filtering">>
           drawn == <<"about", "help", "errors", "coverage", "debug", "diff", "settings",
                      "filter", "switcher", "finder">>
           hints == <<"settings", "help", "errors", "coverage", "debug", "diff", "filter",
                      "switcher", "filtering", "finder">>
<1>1. /\ Dialogs!Listener(m) = Dialogs!First(keys, m, "main")
      /\ Dialogs!statusHints(m) = Dialogs!First(hints, m, "main")
      /\ \/ Dialogs!Drawn(m) \in {"loading", "failed"}
         \/ Dialogs!Drawn(m) = "debug" /\ "debug" \in m.open
         \/ Dialogs!Drawn(m) = Dialogs!First(drawn, m, "main")
  BY DEF Dialogs!Listener, Dialogs!statusHints, Dialogs!Drawn
<1>2. /\ DOMAIN keys = 1..11 /\ DOMAIN drawn = 1..10 /\ DOMAIN hints = 1..10
      /\ \A i, j \in 1..11 : keys[i] = keys[j] => i = j
      /\ \A i, j \in 1..10 : drawn[i] = drawn[j] => i = j
      /\ \A i, j \in 1..10 : hints[i] = hints[j] => i = j
  OBVIOUS
<1>3. ASSUME NEW o \in Dialog
      PROVE  /\ \E i \in 1..11 : keys[i] = o
             /\ o = "filtering" \/ \E i \in 1..10 : drawn[i] = o
             /\ o = "about" \/ \E i \in 1..10 : hints[i] = o
  <2>1. o \in {"help", "about", "debug", "errors", "coverage", "diff", "switcher", "filter", "finder",
               "filtering"}
    BY ScreensAssumption
  <2>2. /\ keys[2] = "help" /\ keys[3] = "about" /\ keys[4] = "debug" /\ keys[5] = "errors"
        /\ keys[6] = "coverage" /\ keys[7] = "diff" /\ keys[8] = "switcher" /\ keys[9] = "filter"
        /\ keys[10] = "finder" /\ keys[11] = "filtering"
    OBVIOUS
  <2>3. /\ drawn[1] = "about" /\ drawn[2] = "help" /\ drawn[3] = "errors" /\ drawn[4] = "coverage"
        /\ drawn[5] = "debug" /\ drawn[6] = "diff" /\ drawn[8] = "filter"
        /\ drawn[9] = "switcher" /\ drawn[10] = "finder"
    OBVIOUS
  <2>4. /\ hints[2] = "help" /\ hints[3] = "errors" /\ hints[4] = "coverage" /\ hints[5] = "debug"
        /\ hints[6] = "diff" /\ hints[7] = "filter" /\ hints[8] = "switcher"
        /\ hints[9] = "filtering" /\ hints[10] = "finder"
    OBVIOUS
  <2> HIDE DEF keys, drawn, hints
  <2> QED BY <2>1, <2>2, <2>3, <2>4
<1> HIDE DEF keys, drawn, hints
<1>4. ASSUME m.open = {}
      PROVE  /\ Dialogs!Listener(m) = "main" /\ Dialogs!statusHints(m) = "main"
             /\ Dialogs!Drawn(m) \in {"loading", "failed", "main"}
  BY <1>1, <1>2, <1>4, FirstOpen
<1>5. ASSUME NEW o \in Dialog, m.open = {o}
      PROVE  /\ Dialogs!Listener(m) = o
             /\ o = "about" \/ Dialogs!statusHints(m) = o
             /\ o = "filtering" \/ Dialogs!Drawn(m) \in {"loading", "failed", o}
  <2>1. Dialogs!Listener(m) = o
    <3>1. PICK i \in 1..11 : keys[i] = o BY <1>3
    <3> QED BY <3>1, <1>1, <1>2, <1>5, FirstOpen
  <2>2. ASSUME o # "about" PROVE Dialogs!statusHints(m) = o
    <3>1. PICK i \in 1..10 : hints[i] = o BY <1>3, <2>2
    <3> QED BY <3>1, <1>1, <1>2, <1>5, FirstOpen
  <2>3. ASSUME o # "filtering" PROVE Dialogs!Drawn(m) \in {"loading", "failed", o}
    <3>1. PICK i \in 1..10 : drawn[i] = o BY <1>3, <2>3
    <3>2. Dialogs!First(drawn, m, "main") = o BY <3>1, <1>2, <1>5, FirstOpen
    <3> QED BY <3>2, <1>1, <1>5
  <2> QED BY <2>1, <2>2, <2>3
<1>6. ASSUME m.open = {"filtering"}
      PROVE  Dialogs!Drawn(m) \in {"loading", "failed", "main"}
  <2>1. \A i \in 1..10 : drawn[i] \notin m.open BY <1>6 DEF drawn
  <2>2. Dialogs!First(drawn, m, "main") = "main"
    <3>1. {i \in DOMAIN drawn : drawn[i] \in m.open} = {} BY <2>1, <1>2
    <3> QED BY <3>1 DEF Dialogs!First
  <2> QED BY <2>2, <1>1, <1>6
<1>7. Dialogs!PanesHaveKeys
  <2>1. m.focus = "detail" => m.detail # None \/ m.stranded BY DEF DialogInv
  <2>2. CASE m.open = {} BY <2>1, <2>2, <1>4 DEF Dialogs!PanesHaveKeys
  <2>3. ASSUME NEW o \in Dialog, m.open = {o} PROVE Dialogs!PanesHaveKeys
    BY <2>1, <2>3, <1>5, <1>6 DEF Dialogs!PanesHaveKeys
  <2> QED BY <2>2, <2>3 DEF DialogInv
<1> QED BY <1>4, <1>5, <1>7

\* It holds when the Summary is opened.
LEMMA DialogStart == ASSUME Dialogs!PanesInit PROVE DialogInv
BY DEF Dialogs!PanesInit, DialogInv, PaneFields

\* Every key and every message of the Summary keeps it, whatever an overlay takes.
LEMMA DialogStep == ASSUME DialogInv, Dialogs!PanesNext \/ UNCHANGED Dialogs!vars PROVE DialogInv'
<1> DEFINE Ok(q) == /\ DOMAIN q = PaneFields
                    /\ q.open = {} \/ \E o \in Dialog : q.open = {o}
                    /\ q.focus \in {"sidebar", "table", "detail"}
                    /\ q.focus = "detail" => q.detail # None \/ q.stranded
                    /\ q.rows \subseteq Single
           Same(q) == /\ DOMAIN q = PaneFields /\ q.open = m.open /\ q.focus = m.focus
                      /\ q.detail = m.detail /\ q.stranded = m.stranded /\ q.rows = m.rows
<1>0. Ok(m) BY DEF DialogInv
<1>i. ASSUME NEW q, q = m', Ok(q) PROVE DialogInv' BY <1>i DEF DialogInv
<1>s. ASSUME NEW q, Same(q) PROVE Ok(q) BY <1>0, <1>s
<1>c. ASSUME NEW o, NEW q, q = Dialogs!Close(o)
      PROVE  /\ Ok(q) /\ q.focus = m.focus /\ q.detail = m.detail /\ q.rows = m.rows
             /\ q.stranded = m.stranded
  BY <1>c, <1>0 DEF Dialogs!Close, PaneFields
<1>1. CASE UNCHANGED Dialogs!vars BY <1>0, <1>1, <1>i DEF Dialogs!vars
<1>2. CASE Dialogs!Open
  <2>1. m.open = {}
    <3>1. Dialogs!Listener(m) = "main" BY <1>2 DEF Dialogs!Open, Dialogs!Main
    <3>2. "main" \notin Dialog BY ScreensAssumption
    <3> QED BY <1>0, <3>1, <3>2, OneOverlay
  <2>2. PICK o \in Dialog :
          \/ m' = m
          \/ m' = [m EXCEPT !.open = @ \union {o}]
          \/ m' = [m EXCEPT !.open = @ \union {"diff"}, !.report = m.engine] /\ o = "diff"
    BY <1>2 DEF Dialogs!Open, Dialogs!openAcctDiff, Dialogs!saveAcctBaseline, Dialogs!Go
  <2>3. PICK q : q = m' OBVIOUS
  <2>4. Ok(q)
    <3> DEFINE Opened == /\ DOMAIN q = PaneFields /\ q.open = {o} /\ q.focus = m.focus
                         /\ q.detail = m.detail /\ q.stranded = m.stranded /\ q.rows = m.rows
    <3>1. CASE m' = m BY <1>0, <2>3, <3>1
    <3>2. CASE m' = [m EXCEPT !.open = @ \union {o}]
      <4>1. Opened BY <1>0, <2>1, <2>3, <3>2 DEF PaneFields
      <4> QED BY <1>0, <4>1
    <3>3. CASE m' = [m EXCEPT !.open = @ \union {"diff"}, !.report = m.engine] /\ o = "diff"
      <4>1. Opened BY <1>0, <2>1, <2>3, <3>3 DEF PaneFields
      <4> QED BY <1>0, <4>1
    <3> QED BY <2>2, <3>1, <3>2, <3>3
  <2> QED BY <2>3, <2>4, <1>i
<1>d. ASSUME NEW s, Ok(s), NEW r \in s.rows, NEW q, q = Dialogs!OpenDetail(s, r)
      PROVE  Ok(q)
  <2>1. r # None BY <1>d, ScreensAssumption
  <2> QED BY <1>d, <2>1 DEF Dialogs!OpenDetail, Dialogs!Focus, PaneFields
<1>f. ASSUME NEW s, Ok(s), NEW panel \in {"sidebar", "table", "detail"},
             panel = "detail" => s.detail # None, NEW q, q = Dialogs!Focus(s, panel)
      PROVE  Ok(q)
  BY <1>f DEF Dialogs!Focus, PaneFields
<1>3. CASE Dialogs!Esc
  <2>1. PICK q : q = m' OBVIOUS
  <2>2. PICK s : s = Dialogs!Focus(m, "table") OBVIOUS
  <2>3. q = [s EXCEPT !.detail = None, !.show = {}]
    BY <1>3, <2>1, <2>2 DEF Dialogs!Esc, Dialogs!Go
  <2>4. Ok(s) /\ s.focus = "table" BY <1>0, <1>f, <2>2 DEF Dialogs!Focus, PaneFields
  <2>5. Ok(q) BY <2>3, <2>4 DEF PaneFields
  <2> QED BY <2>1, <2>5, <1>i
<1>11. CASE Dialogs!Click \/ Dialogs!Enter
  <2>1. PICK q : q = m' OBVIOUS
  <2>2. q = Dialogs!Focus(m, "table") \/ \E r \in m.rows : q = Dialogs!OpenDetail(m, r)
    BY <1>11, <2>1 DEF Dialogs!Click, Dialogs!Enter, Dialogs!Go
  <2>3. Ok(q) BY <1>0, <1>d, <1>f, <2>2
  <2> QED BY <2>1, <2>3, <1>i
<1>4. CASE Dialogs!cycleFocus
  <2>1. PICK q : q = m' OBVIOUS
  <2> DEFINE panels == <<"sidebar", "table", "detail">>
             n == IF m.detail = None THEN 2 ELSE 3
             at == CHOOSE i \in 0..2 : panels[i + 1] = m.focus
  <2>2. PICK step \in {1, n - 1} : q = Dialogs!Focus(m, panels[((at + step) % n) + 1])
    BY <1>4, <2>1 DEF Dialogs!cycleFocus, Dialogs!Go
  <2>3. at \in 0..2
    <3>1. panels[0 + 1] = "sidebar" /\ panels[1 + 1] = "table" /\ panels[2 + 1] = "detail" OBVIOUS
    <3>2. \E i \in 0..2 : panels[i + 1] = m.focus BY <3>1, <1>0
    <3> HIDE DEF panels
    <3> QED BY <3>2
  <2> HIDE DEF at
  <2>4. (at + step) % n \in 0..n - 1 BY <2>3
  <2>5. PICK panel : panel = panels[((at + step) % n) + 1] OBVIOUS
  <2>6. panel \in {"sidebar", "table", "detail"} /\ (panel = "detail" => m.detail # None)
    BY <2>4, <2>5
  <2> HIDE DEF panels, n
  <2>7. q = Dialogs!Focus(m, panel) BY <2>2, <2>5
  <2>8. Ok(q) BY <1>0, <1>f, <2>6, <2>7
  <2> QED BY <2>1, <2>8, <1>i
<1>5. CASE Dialogs!Toggle BY <1>5, Zenon DEF Dialogs!Toggle
<1>13. CASE Dialogs!Xref
  <2>1. PICK q : q = m' OBVIOUS
  <2>2. \/ q = [m EXCEPT !.show = {}]
        \/ \E d : q = [m EXCEPT !.show = {"xref"}, !.data = d]
    BY <1>13, <2>1 DEF Dialogs!Xref, Dialogs!Go
  <2>3. Same(q) BY <1>0, <2>2 DEF PaneFields
  <2> QED BY <2>1, <2>3, <1>i, <1>s
<1>6. CASE Dialogs!CloseOverlay \/ Dialogs!Rebaseline \/ Dialogs!Save \/ Dialogs!Jump
  <2>1. PICK q : q = m' OBVIOUS
  <2>2. Ok(q)
    BY <1>0, <1>6, <1>c, <1>d, <2>1
    DEF Dialogs!CloseOverlay, Dialogs!Rebaseline, Dialogs!Save, Dialogs!Jump, Dialogs!Go,
        Dialogs!saveAcctBaseline
  <2> QED BY <2>1, <2>2, <1>i
<1>7. CASE Dialogs!applySwitcher
  <2>1. PICK q : q = m' OBVIOUS
  <2>2. PICK t : t = Dialogs!Close("switcher") OBVIOUS
  <2>3. PICK s : q = [t EXCEPT !.cfg = s, !.switching = TRUE]
    BY <1>7, <2>1, <2>2 DEF Dialogs!applySwitcher
  <2>4. Ok(t) BY <2>2, <1>c
  <2>5. Ok(q) BY <2>3, <2>4 DEF PaneFields
  <2> QED BY <2>1, <2>5, <1>i
<1>8. ASSUME NEW c \in Dialogs!UnderWay, Dialogs!Swallow(c) \/ Dialogs!paneMsg(c) PROVE DialogInv'
  <2>1. PICK q : q = m' OBVIOUS
  <2>2. Same(q)
    <3>1. CASE Dialogs!Swallow(c) BY <1>0, <2>1, <3>1 DEF Dialogs!Swallow, PaneFields
    <3>2. CASE Dialogs!paneMsg(c) BY <1>0, <2>1, <3>2 DEF Dialogs!paneMsg, PaneFields
    <3> QED BY <1>8, <3>1, <3>2
  <2> QED BY <2>1, <2>2, <1>i, <1>s
<1>9. ASSUME NEW c \in Dialogs!UnderWay, Dialogs!SettingsSavedMsg(c) PROVE DialogInv'
  <2>1. m' = m \/ m' = Dialogs!Close("settings") BY <1>9 DEF Dialogs!SettingsSavedMsg
  <2> QED BY <2>1, <1>0, <1>c, <1>i
<1>10. ASSUME NEW c \in Dialogs!UnderWay, Dialogs!chunkMsg(c) PROVE DialogInv'
  <2>1. PICK q : q = m' OBVIOUS
  <2>2. \/ q = m
        \/ \E new \in {{}, Single}, err, last \in BOOLEAN :
             q = [m EXCEPT !.rows = @ \union new, !.errors = @ \/ err, !.loading = FALSE,
                           !.done = @ \/ last]
    BY <1>10, <2>1 DEF Dialogs!chunkMsg
  <2>3. CASE q = m BY <1>0, <2>1, <2>3, <1>i
  <2>4. ASSUME NEW new \in {{}, Single}, NEW err, NEW last,
               q = [m EXCEPT !.rows = @ \union new, !.errors = @ \/ err, !.loading = FALSE, !.done = @ \/ last]
        PROVE  DialogInv'
    <3>1. /\ DOMAIN q = PaneFields /\ q.open = m.open /\ q.focus = m.focus
          /\ q.detail = m.detail /\ q.stranded = m.stranded /\ q.rows = m.rows \union new
      BY <1>0, <2>4 DEF PaneFields
    <3>2. Ok(q) BY <1>0, <3>1
    <3> QED BY <2>1, <3>2, <1>i
  <2> QED BY <2>2, <2>3, <2>4
<1>12. ASSUME NEW c \in Dialogs!UnderWay, Dialogs!engineSwitchedMsg(c) PROVE DialogInv'
  <2>1. CASE m' = [m EXCEPT !.switching = FALSE, !.ahead = TRUE]
    <3>1. PICK q : q = m' OBVIOUS
    <3>2. Same(q) BY <1>0, <2>1, <3>1 DEF PaneFields
    <3> QED BY <3>1, <3>2, <1>i, <1>s
  <2>2. ASSUME NEW g, m' = Dialogs!restartScan([m EXCEPT !.switching = FALSE, !.engine = c.key,
                                                         !.ahead = FALSE, !.moved = "diff" \in m.open], g)
        PROVE  DialogInv'
    <3>1. PICK s : s = [m EXCEPT !.switching = FALSE, !.engine = c.key, !.ahead = FALSE,
                                 !.moved = "diff" \in m.open]
      OBVIOUS
    <3>2. Same(s) BY <3>1, <1>0 DEF PaneFields
    <3>3. PICK q : q = m' OBVIOUS
    <3>4. q = Dialogs!restartScan(s, g) BY <2>2, <3>1, <3>3
    <3>5. /\ DOMAIN q = PaneFields /\ q.open = s.open /\ q.focus = s.focus
          /\ q.rows = {} /\ q.stranded = (s.focus = "detail")
      BY <3>2, <3>4 DEF Dialogs!restartScan, PaneFields
    <3>6. Ok(q) BY <1>0, <3>2, <3>5, Zenon
    <3> QED BY <3>3, <3>6, <1>i
  <2> QED BY <1>12, <2>1, <2>2, Zenon DEF Dialogs!engineSwitchedMsg
<1> QED
  BY <1>1, <1>2, <1>3, <1>4, <1>5, <1>6, <1>7, <1>8, <1>9, <1>10, <1>11, <1>12, <1>13
  DEF Dialogs!PanesNext, Dialogs!Keys, Dialogs!Answer

-------------------------------------------------------------------------------
\* The pages of results: every answer and every key that a filter, the order or the
\* cap depends on lists the rows again.
ResultsFields == {"kind", "loading", "all", "errs", "filter", "filtering", "errorsOnly", "sortCol",
                  "sortAsc", "overlay", "visible", "cursor", "subject", "moved"}
ResultsInv == DOMAIN m = ResultsFields /\ Parts!ResultsCurrent

\* What is listed again is current, and the rest of the page is what it was.
LEMMA ResultsRebuilt ==
    ASSUME NEW s, DOMAIN s = ResultsFields
    PROVE  LET t == Parts!rebuild(s)
           IN  DOMAIN t = ResultsFields /\ t.visible = Parts!Visible(Parts!View(t))
<1> DEFINE t == Parts!rebuild(s)
<1>1. /\ DOMAIN t = ResultsFields /\ t.visible = Parts!Visible(Parts!View(s))
      /\ t.kind = s.kind /\ t.all = s.all /\ t.filter = s.filter
      /\ t.errorsOnly = s.errorsOnly /\ t.sortCol = s.sortCol /\ t.sortAsc = s.sortAsc
  BY DEF Parts!rebuild, ResultsFields
<1> HIDE DEF t
<1>2. Parts!View(t) = Parts!View(s) BY <1>1 DEF Parts!View
<1> QED BY <1>1, <1>2 DEF t

\* It holds at the start, when there are no results.
LEMMA ResultsStart == ASSUME Parts!ResultsInit PROVE ResultsInv
<1>1. DOMAIN m = ResultsFields /\ m.all = {} /\ m.visible = <<>>
  BY DEF Parts!ResultsInit, ResultsFields
<1>2. Parts!filterEvents(Parts!View(m)) = {}
  BY <1>1 DEF Parts!filterEvents, Parts!filterFindings, Parts!View
<1>3. Parts!Cardinality({}) = 0 BY FS_EmptySet DEF Parts!Cardinality, Cardinality
<1>4. 1..0 = {} OBVIOUS
<1>5. Parts!Visible(Parts!View(m)) = <<>>
  BY <1>2, <1>3, <1>4 DEF Parts!Visible, Parts!sortEvents
<1> QED BY <1>1, <1>5 DEF ResultsInv, Parts!ResultsCurrent

\* Every key and every answer of the pages of results keeps it.
LEMMA ResultsStep == ASSUME ResultsInv, Parts!ResultsNext \/ UNCHANGED Parts!vars PROVE ResultsInv'
<1>0. DOMAIN m = ResultsFields BY DEF ResultsInv
<1>k. /\ "visible" \in DOMAIN m /\ "kind" \in DOMAIN m /\ "all" \in DOMAIN m
      /\ "filter" \in DOMAIN m /\ "errorsOnly" \in DOMAIN m /\ "sortCol" \in DOMAIN m
      /\ "sortAsc" \in DOMAIN m
  BY <1>0 DEF ResultsFields
<1>s. ASSUME NEW q, q = m', DOMAIN q = ResultsFields, q.visible = m.visible, q.kind = m.kind,
             q.all = m.all, q.filter = m.filter, q.errorsOnly = m.errorsOnly,
             q.sortCol = m.sortCol, q.sortAsc = m.sortAsc
      PROVE  ResultsInv'
  <2>1. Parts!View(q) = Parts!View(m) BY <1>s DEF Parts!View
  <2>2. q.visible = Parts!Visible(Parts!View(q))
    BY <1>s, <2>1 DEF ResultsInv, Parts!ResultsCurrent
  <2> QED BY <1>s, <2>2 DEF ResultsInv, Parts!ResultsCurrent
<1>r. ASSUME NEW s, DOMAIN s = ResultsFields, m' = Parts!rebuild(s) PROVE ResultsInv'
  BY <1>r, ResultsRebuilt DEF ResultsInv, Parts!ResultsCurrent
<1>1. CASE UNCHANGED Parts!vars BY <1>0, <1>1, <1>s DEF Parts!vars
<1>2. CASE Parts!Findings \/ Parts!Events \/ Parts!QueryRows
  <2>1. ASSUME NEW new, NEW err, NEW last, Parts!Arrive(new, err, last) PROVE ResultsInv'
    BY <2>1, <1>0, <1>r DEF Parts!Arrive, ResultsFields
  <2> QED BY <1>2, <2>1, Zenon DEF Parts!Findings, Parts!Events, Parts!QueryRows
<1>3. CASE Parts!inOverlay \/ Parts!openOverlay \/ Parts!moveOnPage
  <2>1. PICK q : q = m' OBVIOUS
  <2>2. \/ \E o : q = [m EXCEPT !.overlay = o]
        \/ q = [m EXCEPT !.filtering = TRUE]
        \/ \E e : q = [m EXCEPT !.overlay = "detail", !.subject = e, !.moved = FALSE]
        \/ \E i : q = [m EXCEPT !.cursor = i]
    BY <1>3, <2>1 DEF Parts!inOverlay, Parts!openOverlay, Parts!moveOnPage, Parts!Go
  <2>3. /\ DOMAIN q = ResultsFields /\ q.visible = m.visible /\ q.kind = m.kind
        /\ q.all = m.all /\ q.filter = m.filter /\ q.errorsOnly = m.errorsOnly
        /\ q.sortCol = m.sortCol /\ q.sortAsc = m.sortAsc
    BY <2>2, <1>0, <1>k
  <2> QED BY <2>1, <2>3, <1>s
<1>4. CASE Parts!typeResults
  <2>1. CASE m' = [m EXCEPT !.filtering = FALSE] BY <2>1, <1>0, <1>s DEF ResultsFields
  <2> QED BY <1>4, <2>1, <1>0, <1>r, Zenon DEF Parts!typeResults, Parts!Go, ResultsFields
<1>5. CASE Parts!sortResults \/ Parts!resetResults \/ Parts!failedOnly
  <2>1. CASE Parts!sortResults
    BY <2>1, <1>0, <1>r, Zenon DEF Parts!sortResults, Parts!Go, ResultsFields
  <2> QED BY <1>5, <2>1, <1>0, <1>r, Zenon DEF Parts!resetResults, Parts!failedOnly, Parts!Go, ResultsFields
<1> QED
  BY <1>1, <1>2, <1>3, <1>4, <1>5 DEF Parts!ResultsNext, Parts!AuditKeys, Parts!TrailKeys,
     Parts!LakeKeys, Parts!ResultsKeys

-------------------------------------------------------------------------------
\* The explorer of references: an answer and every step along the path look up both
\* panes anew, and whatever is typed filters them anew.
ExplorerFields == {"loading", "edges", "stack", "focus", "result", "viewUses", "viewUsedBy", "filtering",
                   "filter", "help"}
ExplorerInv == DOMAIN m = ExplorerFields /\ Parts!ExplorerCurrent

\* Filtered, the panes show what was looked up.
LEMMA LinksFiltered ==
    ASSUME NEW s, DOMAIN s = ExplorerFields
    PROVE  LET t == Parts!applyFilter(s)
           IN  /\ DOMAIN t = ExplorerFields
               /\ t.result = s.result /\ t.edges = s.edges /\ t.stack = s.stack
               /\ t.viewUses = Parts!filterLinks(t.result.uses, t.filter)
               /\ t.viewUsedBy = Parts!filterLinks(t.result.usedBy, t.filter)
BY DEF Parts!applyFilter, ExplorerFields

\* It holds at the start, when there are no references.
LEMMA ExplorerStart == ASSUME Parts!ExplorerInit PROVE ExplorerInv
BY DEF Parts!ExplorerInit, ExplorerInv, ExplorerFields, Parts!ExplorerCurrent, Parts!Related,
   Parts!current, Parts!filterLinks

\* Every key and every answer of the explorer keeps it.
LEMMA ExplorerStep == ASSUME ExplorerInv, Parts!ExplorerNext \/ UNCHANGED Parts!vars PROVE ExplorerInv'
<1>0. DOMAIN m = ExplorerFields /\ m.result = Parts!Related(m.edges, Parts!current(m))
  BY DEF ExplorerInv, Parts!ExplorerCurrent
<1>s. ASSUME NEW q, q = m', DOMAIN q = ExplorerFields, q.edges = m.edges, q.stack = m.stack,
             q.result = m.result, q.viewUses = m.viewUses, q.viewUsedBy = m.viewUsedBy,
             q.filter = m.filter
      PROVE  ExplorerInv'
  BY <1>s DEF ExplorerInv, Parts!ExplorerCurrent, Parts!current
<1>f. ASSUME NEW s, DOMAIN s = ExplorerFields, s.result = Parts!Related(s.edges, Parts!current(s)),
             m' = Parts!applyFilter(s)
      PROVE  ExplorerInv'
  <2>1. PICK q : q = m' OBVIOUS
  <2>2. /\ DOMAIN q = ExplorerFields /\ q.edges = s.edges /\ q.stack = s.stack
        /\ q.result = s.result
        /\ q.viewUses = Parts!filterLinks(q.result.uses, q.filter)
        /\ q.viewUsedBy = Parts!filterLinks(q.result.usedBy, q.filter)
    BY <1>f, <2>1, LinksFiltered
  <2>3. Parts!current(q) = Parts!current(s) BY <2>2 DEF Parts!current
  <2> QED BY <1>f, <2>1, <2>2, <2>3 DEF ExplorerInv, Parts!ExplorerCurrent
<1>r. ASSUME NEW s, DOMAIN s = ExplorerFields, m' = Parts!recompute(s) PROVE ExplorerInv'
  <2>1. PICK t : t = [s EXCEPT !.result = Parts!Related(s.edges, Parts!current(s))] OBVIOUS
  <2>2. /\ DOMAIN t = ExplorerFields /\ t.edges = s.edges /\ t.stack = s.stack
        /\ t.result = Parts!Related(s.edges, Parts!current(s))
    BY <1>r, <2>1 DEF ExplorerFields
  <2>3. Parts!current(t) = Parts!current(s) BY <2>2 DEF Parts!current
  <2>4. m' = Parts!applyFilter(t) BY <1>r, <2>1 DEF Parts!recompute
  <2> QED BY <1>f, <2>2, <2>3, <2>4
<1>1. CASE UNCHANGED Parts!vars BY <1>0, <1>1, <1>s DEF Parts!vars
<1>2. CASE Parts!helpKey \/ Parts!collectCmd \/ Parts!openBox
  BY <1>2, <1>0, <1>s DEF Parts!helpKey, Parts!collectCmd, Parts!openBox, Parts!Go, ExplorerFields
<1>3. CASE Parts!typeLinks
  <2>1. CASE m' = [m EXCEPT !.filtering = FALSE] BY <2>1, <1>0, <1>s DEF ExplorerFields
  <2>2. ASSUME NEW s, DOMAIN s = ExplorerFields, s.edges = m.edges, s.stack = m.stack,
               s.result = m.result, m' = Parts!applyFilter(s)
        PROVE  ExplorerInv'
    <3>1. Parts!current(s) = Parts!current(m) BY <2>2 DEF Parts!current
    <3> QED BY <2>2, <3>1, <1>0, <1>f
  <2> QED BY <1>3, <2>1, <2>2, <1>0, Zenon DEF Parts!typeLinks, Parts!Go, ExplorerFields
<1>4. CASE Parts!descend \/ Parts!back
  BY <1>4, <1>0, <1>r DEF Parts!descend, Parts!back, Parts!Go, ExplorerFields
<1>5. ASSUME NEW c \in Parts!UnderWay, Parts!edgesMsg(c) PROVE ExplorerInv'
  BY <1>5, <1>0, <1>r, Zenon DEF Parts!edgesMsg, ExplorerFields
<1> QED BY <1>1, <1>2, <1>3, <1>4, <1>5 DEF Parts!ExplorerNext

-------------------------------------------------------------------------------
\* Watch mode, an open log viewer and the live bill have a timer running.
THEOREM KeepsTickingAlways == Spec => []KeepsTicking
<1> DEFINE Inv == /\ app = "cw" => Cw!Ticking
                  /\ app = "viewer" => Viewer!Ticking
                  /\ app = "bill" => Feed!BillInv
<1>1. Init => Inv BY AppStarts, Cw!TickingInit, Viewer!TickingInit, Feed!BillStart
<1>2. Inv /\ [Next]_<<m, cmds, app>> => Inv'
  BY AppGoesOn, Cw!TickingNext, Viewer!TickingNext, Feed!BillStep
<1>3. Inv => KeepsTicking
  BY DEF KeepsTicking, Cw!Ticking, Viewer!Ticking, Feed!BillInv
<1> QED BY <1>1, <1>2, <1>3, PTL DEF Spec

\* Sets of at most two regions are counted as finite sets are.
LEMMA FewRegions ==
    ASSUME NEW R, R \subseteq {Region1, Region2}, NEW S \in SUBSET R
    PROVE  /\ Cardinality(S) \in Nat
           /\ Cardinality(S) = 0 => S = {}
           /\ \A r \in S : Cardinality(S \ {r}) = Cardinality(S) - 1
<1>1. IsFiniteSet({Region1}) BY FS_Singleton
<1>2. IsFiniteSet({Region1} \union {Region2}) BY <1>1, FS_AddElement
<1>3. S \in SUBSET ({Region1} \union {Region2}) OBVIOUS
<1>4. IsFiniteSet(S) BY <1>2, <1>3, FS_Subset
<1> QED BY <1>4, FS_CardinalityType, FS_EmptySet, FS_RemoveElement

\* The regions of the scans in the three instances of the VPC explorer can be counted.
LEMMA RegionsOfVpcs ==
    /\ Vpcs!Countable /\ Vpc!Countable /\ Filtered!Countable
    /\ None \notin VPC /\ None \notin One(VPC)
<1>1. \A v \in VPC : Regional(VPC)[v] \in {Region1, Region2} BY DEF Regional
<1>2. One(VPC) \subseteq VPC BY ScreensAssumption DEF One
<1>3. /\ Vpcs!Region \subseteq {Region1, Region2} /\ Vpc!Region \subseteq {Region1, Region2}
      /\ Filtered!Region \subseteq {Region1, Region2}
  BY <1>1 DEF Vpcs!Region, Vpc!Region, Filtered!Region
<1>4. Vpcs!Countable BY <1>3, FewRegions, Zenon DEF Vpcs!Countable, Vpcs!Cardinality, Cardinality
<1>5. Vpc!Countable BY <1>3, FewRegions, Zenon DEF Vpc!Countable, Vpc!Cardinality, Cardinality
<1>6. Filtered!Countable BY <1>3, FewRegions, Zenon DEF Filtered!Countable, Filtered!Cardinality, Cardinality
<1> QED BY <1>2, <1>4, <1>5, <1>6, ScreensAssumption

\* A set of naturals has a least element.
LEMMA Least ==
    ASSUME NEW T, T \subseteq Nat, T # {}
    PROVE  \E x \in T : \A y \in T : x <= y
<1>1. PICK x \in T : \A y \in T : ~(<<y, x>> \in OpToRel(<, Nat))
  BY NatLessThanWellFounded, WFMin
<1>2. \A y \in T : ~(y < x)
  <2> TAKE y \in T
  <2>1. <<y, x>> \in Nat \X Nat
    OBVIOUS
  <2> QED
    BY <1>1, <2>1 DEF OpToRel
<1> QED
  BY <1>2

\* The times of the feeds are finitely many naturals.
LEMMA TimesOfFeeds == Feed!FiniteTimes
<1>1. ASSUME NEW B \in SUBSET Times, NEW A \in SUBSET B
      PROVE  /\ Cardinality(A) \in Nat /\ Cardinality(B) \in Nat /\ Cardinality(A) <= Cardinality(B)
             /\ A # B => Cardinality(A) < Cardinality(B)
  <2>1. IsFiniteSet(B) BY ScreensAssumption, FS_Subset, Zenon
  <2>2. /\ IsFiniteSet(A) /\ Cardinality(A) <= Cardinality(B)
        /\ (Cardinality(A) = Cardinality(B) => A = B)
    BY <2>1, FS_Subset
  <2>3. Cardinality(A) \in Nat /\ Cardinality(B) \in Nat BY <2>1, <2>2, FS_CardinalityType
  <2> QED BY <2>2, <2>3
<1>2. \A T \in SUBSET Nat : T # {} => \E x \in T : \A y \in T : x <= y BY Least, Zenon
<1>3. \A S : Feed!Cardinality(S) = Cardinality(S) BY DEF Feed!Cardinality, Cardinality
<1> QED BY <1>1, <1>2, <1>3, ScreensAssumption DEF Feed!FiniteTimes

\* A feed that was read from several regions or pages shows all there is up to
\* its bound, or says that it does not: the scan for VPCs, the CloudTrail feed,
\* a Lake query and the cost audit.
THEOREM FeedAlwaysComplete == Spec => []FeedComplete
<1> DEFINE Inv == /\ app = "vpcs" => Vpcs!ScanInv
                  /\ app = "vpc" => Vpc!ScanInv
                  /\ app = "filtered" => Filtered!ScanInv
                  /\ app = "trail" => Feed!TrailInv
                  /\ app = "lake" => Feed!LakeInv
                  /\ app = "audit" => Feed!AuditInv
<1>n. PICK n \in Nat \ {0} : Scanned = 1..n
  <2>1. Cardinality(Scanned) \in Nat BY ScreensAssumption, FS_CardinalityType
  <2>2. Cardinality(Scanned) # 0
    <3>1. 1..0 = {} OBVIOUS
    <3> QED BY <3>1, ScreensAssumption
  <2> QED BY <2>1, <2>2, ScreensAssumption
<1>1. ASSUME Init PROVE Inv
  <2>1. app = "audit" => Feed!AuditInv BY <1>1, <1>n, AppStarts, Feed!AuditStart
  <2>2. /\ app = "trail" => Feed!TrailInv
        /\ app = "lake" => Feed!LakeInv
    BY <1>1, AppStarts, ScreensAssumption, Feed!TrailStart, Feed!LakeStart
  <2>3. /\ app = "vpcs" => Vpcs!ScanInv
        /\ app = "vpc" => Vpc!ScanInv
        /\ app = "filtered" => Filtered!ScanInv
    BY <1>1, AppStarts, Vpcs!ScanStart, Vpc!ScanStart, Filtered!ScanStart
  <2> QED BY <2>1, <2>2, <2>3
<1>2. ASSUME Inv, [Next]_<<m, cmds, app>> PROVE Inv'
  <2>1. app' = app BY <1>2, AppGoesOn
  <2>2. app = "audit" => Feed!AuditInv' BY <1>2, <1>n, AppGoesOn, Feed!AuditStep
  <2>3. /\ app = "trail" => Feed!TrailInv'
        /\ app = "lake" => Feed!LakeInv'
    BY <1>2, AppGoesOn, Feed!TrailStep, Feed!LakeStep
  <2>4. /\ app = "vpcs" => Vpcs!ScanInv'
        /\ app = "vpc" => Vpc!ScanInv'
        /\ app = "filtered" => Filtered!ScanInv'
    BY <1>2, AppGoesOn, RegionsOfVpcs, Vpcs!ScanStep, Vpc!ScanStep, Filtered!ScanStep
  <2> QED BY <2>1, <2>2, <2>3, <2>4
<1>3. ASSUME Inv PROVE FeedComplete
  <2>1. app = "audit" => Feed!AuditFeedComplete BY <1>3, <1>n, Feed!AuditDone
  <2>2. app = "trail" => Feed!TrailFeedComplete
    BY <1>3, TimesOfFeeds, ScreensAssumption, Feed!TrailDone
  <2>3. app = "lake" => Feed!LakeFeedComplete BY <1>3 DEF Feed!LakeInv
  <2>4. /\ app = "vpcs" => Vpcs!FeedComplete
        /\ app = "vpc" => Vpc!FeedComplete
        /\ app = "filtered" => Filtered!FeedComplete
    BY <1>3, Vpcs!ScanDone, Vpc!ScanDone, Filtered!ScanDone
  <2> QED BY <2>1, <2>2, <2>3, <2>4 DEF FeedComplete
<1> QED
  <2>1. Init => Inv BY <1>1
  <2>2. Inv /\ [Next]_<<m, cmds, app>> => Inv' BY <1>2
  <2>3. Inv => FeedComplete BY <1>3
  <2> QED BY <2>1, <2>2, <2>3, PTL DEF Spec

-------------------------------------------------------------------------------
\* The screens whose pages and tables are proved to be in step.
Shown ==
    /\ app = "lambda" => LambdaInv
    /\ app = "sqs" => SqsInv
    /\ app = "vpcs" => Vpcs!BrowserInv
    /\ app = "vpc" => Vpc!BrowserInv
    /\ app = "filtered" => Filtered!BrowserInv
    /\ app = "overlays" => Overlays!OverlayInv
    /\ app = "analyzer" => Analyzer!OverlayInv
    /\ app = "snapshots" => Snapshots!OverlayInv
    /\ app = "dialogs" => DialogInv
    /\ app = "table" => TableInv
    /\ app = "results" => ResultsInv
    /\ app = "explorer" => ExplorerInv

\* Whatever screen runs, its invariant holds.
LEMMA ShownAlways == Spec => []Shown
<1>1. ASSUME Init PROVE Shown
  <2>1. /\ app = "lambda" => LambdaInv
        /\ app = "sqs" => SqsInv
    BY <1>1, AppStarts, LambdaStart, SqsStart
  <2>2. /\ app = "vpcs" => Vpcs!BrowserInv
        /\ app = "vpc" => Vpc!BrowserInv
        /\ app = "filtered" => Filtered!BrowserInv
    BY <1>1, AppStarts, Vpcs!BrowserStart, Vpc!BrowserStart, Filtered!BrowserStart
  <2>3. /\ app = "overlays" => Overlays!OverlayInv
        /\ app = "analyzer" => Analyzer!OverlayInv
        /\ app = "snapshots" => Snapshots!OverlayInv
    BY <1>1, AppStarts, Overlays!OverlayStart, Analyzer!OverlayStart, Snapshots!OverlayStart
  <2>4. /\ app = "dialogs" => DialogInv
        /\ app = "table" => TableInv
    BY <1>1, AppStarts, DialogStart, TableStart
  <2>5. /\ app = "results" => ResultsInv
        /\ app = "explorer" => ExplorerInv
    BY <1>1, AppStarts, ResultsStart, ExplorerStart
  <2> QED BY <2>1, <2>2, <2>3, <2>4, <2>5 DEF Shown
<1>2. ASSUME Shown, [Next]_<<m, cmds, app>> PROVE Shown'
  <2>1. app' = app BY <1>2, AppGoesOn
  <2>2. /\ app = "lambda" => LambdaInv'
        /\ app = "sqs" => SqsInv'
    BY <1>2, AppGoesOn, LambdaStep, SqsStep DEF Shown
  <2>3. /\ app = "vpcs" => Vpcs!BrowserInv'
        /\ app = "vpc" => Vpc!BrowserInv'
        /\ app = "filtered" => Filtered!BrowserInv'
    BY <1>2, AppGoesOn, RegionsOfVpcs, Vpcs!BrowserStep, Vpc!BrowserStep,
       Filtered!BrowserStep DEF Shown
  <2>4. /\ app = "overlays" => Overlays!OverlayInv'
        /\ app = "analyzer" => Analyzer!OverlayInv'
        /\ app = "snapshots" => Snapshots!OverlayInv'
    BY <1>2, AppGoesOn, Overlays!OverlayStep, Analyzer!OverlayStep, Snapshots!OverlayStep DEF Shown
  <2>5. /\ app = "dialogs" => DialogInv'
        /\ app = "table" => TableInv'
    BY <1>2, AppGoesOn, DialogStep, TableStep DEF Shown
  <2>6. /\ app = "results" => ResultsInv'
        /\ app = "explorer" => ExplorerInv'
    BY <1>2, AppGoesOn, ResultsStep, ExplorerStep DEF Shown
  <2> QED BY <2>1, <2>2, <2>3, <2>4, <2>5, <2>6 DEF Shown
<1> QED
  <2>1. Init => Shown BY <1>1
  <2>2. Shown /\ [Next]_<<m, cmds, app>> => Shown' BY <1>2
  <2> QED BY <2>1, <2>2, PTL DEF Spec

\* Lambda, SQS, the VPC browser, the Summary, the pages of results and the explorer:
\* the table is the loaded list under the tab, the filters and the order, whichever
\* of them changed last, and whatever the Summary has cached of it.
THEOREM TableAlwaysCurrent == Spec => []TableCurrent
<1>1. TableInv => Table!InventoryTableCurrent
  BY DEF TableInv, Cached, Table!InventoryTableCurrent
<1>2. Shown => TableCurrent
  BY <1>1, LambdaShows, SqsShows, Vpcs!BrowserShows, Vpc!BrowserShows, Filtered!BrowserShows
  DEF Shown, TableCurrent, ResultsInv, ExplorerInv
<1> QED BY <1>2, ShownAlways, PTL

\* Lambda, SQS, the VPC explorer with its overlays and the Summary with its own: a
\* key goes to the page that is drawn on top.
THEOREM KeysAlwaysReachDrawn == Spec => []KeysReachDrawn
<1>1. Shown => KeysReachDrawn
  BY LambdaShows, SqsShows, Vpcs!BrowserShows, Vpc!BrowserShows, Filtered!BrowserShows,
     Overlays!OverlayShows, Analyzer!OverlayShows, Snapshots!OverlayShows, OneOverlay
  DEF Shown, KeysReachDrawn
<1> QED BY <1>1, ShownAlways, PTL
===============================================================================
