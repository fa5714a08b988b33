-------------------------------- MODULE EMRTUI --------------------------------
(***************************************************************************)
(* The EMR dashboard: the progressive load with its terminated-clusters    *)
(* scope, the sub-views of a cluster, the declared/effective toggle of the *)
(* config browser, HBase row counts and the application-UI picker.  As in  *)
(* GlueTUI one record serves the sub-views, which every opening resets.    *)
(***************************************************************************)
EXTENDS Tea

CONSTANTS
    Cluster, RegionOf,
    SubView    \* sub-views the user opens: "steps", "hdfs", "yarn", "oozie",
               \* "hbase", "config", "describe", "appui"

Region == {RegionOf[c] : c \in Cluster}
Inventories == UNION {[S -> {0}] : S \in SUBSET Cluster}

Closed == [subject |-> None, loading |-> FALSE, shown |-> None, overtaken |-> FALSE]

\* The HBase view's tables, of which one is enough: its row count is None or
\* the cluster it was counted on.
NoTable == "no table"

Init ==
    /\ m = [loadGen |-> 1, loading |-> TRUE, err |-> FALSE, inv |-> <<>>, fails |-> 0,
            enrichPending |-> 0, view |-> {}, showTerminated |-> FALSE, scope |-> None,
            page |-> "list", sub |-> Closed, hbaseCluster |-> None, rowCount |-> NoTable,
            hbaseConfirm |-> FALSE, hbaseCounting |-> FALSE]
    /\ cmds = Batch({Cmd("list", 1, FALSE)})

beginLoad(s) == \E g \in Gen :
    /\ Fresh(g, m.loadGen)
    /\ m' = [s EXCEPT !.loadGen = g, !.loading = TRUE, !.inv = <<>>, !.fails = 0,
                      !.enrichPending = 0, !.scope = None]
    /\ Return({Cmd("list", g, s.showTerminated)})

Listed == ~m.err /\ m.page = "list"

startReload == Listed /\ ~m.loading /\ beginLoad(m)

Retry == m.err /\ beginLoad([m EXCEPT !.err = FALSE])

\* Mutant: the toggle does not wait for the running load.
ToggleTerminated_Loading ==
    /\ Listed
    /\ m' = [m EXCEPT !.showTerminated = ~@]
    /\ UNCHANGED cmds

\* "t": ignored while a load runs.
ToggleTerminated ==
    /\ Listed /\ ~m.loading
    /\ beginLoad([m EXCEPT !.showTerminated = ~@])

enrichCmds(g, inv) == {Cmd("enrich", g, r) : r \in {RegionOf[c] : c \in DOMAIN inv}}

\* Mutant: a failed list leaves the spinner on behind the error.
invMsg_ErrKeepsLoading(c) ==
    /\ c.kind = "list" /\ c.gen = m.loadGen
    /\ \/ \E inv \in Inventories, read \in {c.key, m.showTerminated} :
            /\ m' = [m EXCEPT !.loading = FALSE, !.inv = inv, !.view = DOMAIN inv, !.scope = read,
                              !.enrichPending = Cardinality(enrichCmds(c.gen, inv))]
            /\ ReturnFrom(c, enrichCmds(c.gen, inv))
       \/ /\ m' = [m EXCEPT !.err = TRUE]
          /\ ReturnFrom(c, {})

\* invMsg: ListSkeleton reads showTerminated when its goroutine runs, and fails
\* only when every region does.
invMsg(c) ==
    /\ c.kind = "list" /\ c.gen = m.loadGen
    /\ \/ \E inv \in Inventories, read \in {c.key, m.showTerminated} :
            /\ m' = [m EXCEPT !.loading = FALSE, !.inv = inv, !.view = DOMAIN inv, !.scope = read,
                              !.enrichPending = Cardinality(enrichCmds(c.gen, inv))]
            /\ ReturnFrom(c, enrichCmds(c.gen, inv))
       \/ /\ m' = [m EXCEPT !.loading = FALSE, !.err = TRUE]
          /\ ReturnFrom(c, {})

\* Mutant: failures of a straggler are counted.
enrichMsg_AnyGen(c) ==
    /\ c.kind = "enrich"
    /\ \E known \in SUBSET {x \in DOMAIN m.inv : RegionOf[x] = c.key} :
         m' = [m EXCEPT
                 !.inv = [x \in DOMAIN @ |-> IF x \in known THEN c.gen ELSE @[x]],
                 !.fails = @ + Cardinality({x \in DOMAIN m.inv : RegionOf[x] = c.key} \ known),
                 !.enrichPending = IF @ > 0 THEN @ - 1 ELSE 0,
                 !.view = DOMAIN m.inv]
    /\ ReturnFrom(c, {})

\* enrichMsg: DescribeCluster may fail for each cluster of the region.
enrichMsg(c) ==
    /\ c.kind = "enrich" /\ c.gen = m.loadGen
    /\ \E known \in SUBSET {x \in DOMAIN m.inv : RegionOf[x] = c.key} :
         m' = [m EXCEPT
                 !.inv = [x \in DOMAIN @ |-> IF x \in known THEN c.gen ELSE @[x]],
                 !.fails = @ + Cardinality({x \in DOMAIN m.inv : RegionOf[x] = c.key} \ known),
                 !.enrichPending = IF @ > 0 THEN @ - 1 ELSE 0,
                 !.view = DOMAIN m.inv]
    /\ ReturnFrom(c, {})

Straggler(c) ==
    /\ c.kind \in {"list", "enrich"} /\ c.gen # m.loadGen
    /\ m' = m /\ ReturnFrom(c, {})

\* What an opening asks for: the config browser starts with the declared source.
Asked(page, cl) == IF page = "config" THEN <<cl, "declared">> ELSE cl

\* Answers under way that the sub-view would take for its own.
Overtakers(page, key) ==
    CASE page = "describe" -> {}
      [] page = "config"   -> {c \in Running(page) : c.key[2] = key[2] /\ c.key # key}
      [] page = "hbase"    -> {c \in Running(page) : c.key # key} \union Running("count")
      [] OTHER             -> {c \in Running(page) : c.key # key}

Opened(page, key) ==
    [subject |-> key, loading |-> page # "appui", shown |-> None,
     overtaken |-> Overtakers(page, key) # {}]

\* Enter, d, c, n, y, b, z, u on a cluster.
Open(page, cl) ==
    /\ Listed /\ cl \in m.view /\ page \in SubView
    /\ m' = [m EXCEPT !.page = page, !.sub = Opened(page, Asked(page, cl)),
                      !.hbaseCluster = IF page = "hbase" THEN cl ELSE @,
                      !.rowCount = IF page = "hbase" THEN NoTable ELSE @]
    /\ Return(IF page = "appui" THEN {} ELSE {Cmd(page, 0, Asked(page, cl))})

\* "r": HDFS reloads whenever asked, the others unless they are loading.
Refresh ==
    /\ ~m.err /\ m.page \in {"hdfs", "yarn", "oozie", "hbase"} /\ ~m.hbaseConfirm
    /\ m.page = "hdfs" \/ ~m.sub.loading
    /\ m' = [m EXCEPT !.sub.loading = TRUE]
    /\ Return({Cmd(m.page, 0, m.sub.subject)})

\* "e" in the config browser.
ToggleEffective ==
    /\ ~m.err /\ m.page = "config"
    /\ LET key == <<m.sub.subject[1],
                    IF m.sub.subject[2] = "declared" THEN "effective" ELSE "declared">>
       IN  /\ m' = [m EXCEPT !.sub = [Opened("config", key) EXCEPT !.overtaken = @ \/ m.sub.overtaken]]
           /\ Return({Cmd("config", 0, key)})

\* Esc; the picker takes no key while its link is made.
Close ==
    /\ ~m.err /\ m.page # "list" /\ ~m.hbaseConfirm
    /\ m.page = "appui" => ~m.sub.loading
    /\ m' = [m EXCEPT !.page = "list", !.sub = Closed]
    /\ UNCHANGED cmds

\* Enter in the picker.
PickAppUI ==
    /\ ~m.err /\ m.page = "appui" /\ ~m.sub.loading
    /\ m' = [m EXCEPT !.sub.loading = TRUE]
    /\ Return({Cmd("appui", 0, m.sub.subject)})

\* Mutant: a description is adopted by whatever cluster is open.
Adopts_AnyCluster(c) == c.kind = "config" => c.key[2] = m.sub.subject[2]

\* Which answers the open sub-view takes: descMsg compares the cluster,
\* configMsg the source, the others nothing.
Adopts(c) ==
    /\ c.kind = "describe" => c.key = m.sub.subject
    /\ c.kind = "config" => c.key[2] = m.sub.subject[2]

\* stepsMsg, hdfsMsg, yarnMsg, oozieMsg, hbaseMsg, configMsg, descMsg.
SubMsg(c) ==
    /\ c.kind \in SubView \ {"appui"}
    /\ m' = IF m.page = c.kind /\ Adopts(c)
            THEN [m EXCEPT !.sub.loading = FALSE, !.sub.shown = c.key,
                           !.rowCount = IF c.kind = "hbase" THEN None ELSE @]
            ELSE m
    /\ ReturnFrom(c, {})

\* appUIMsg closes the picker.
appUIMsg(c) ==
    /\ c.kind = "appui"
    /\ m' = [m EXCEPT !.page = IF @ = "appui" THEN "list" ELSE @, !.sub = Closed]
    /\ ReturnFrom(c, {})

\* "c" in the HBase view asks first: a scan is not free.
AskCount ==
    /\ ~m.err /\ m.page = "hbase" /\ ~m.hbaseConfirm
    /\ m.rowCount # NoTable /\ ~m.hbaseCounting
    /\ m' = [m EXCEPT !.hbaseConfirm = TRUE] /\ UNCHANGED cmds

AnswerCount ==
    /\ ~m.err /\ m.hbaseConfirm
    /\ \/ /\ m' = [m EXCEPT !.hbaseConfirm = FALSE, !.hbaseCounting = TRUE]
          /\ Return({Cmd("count", 0, None)})
       \/ m' = [m EXCEPT !.hbaseConfirm = FALSE] /\ UNCHANGED cmds

\* countHbaseRowsCmd reads hbaseCluster when its goroutine runs.
CountStarts(c) ==
    /\ c.kind = "count" /\ c.key = None
    /\ ReturnFrom(c, {Cmd("count", 0, m.hbaseCluster)}) /\ UNCHANGED m

\* hbaseCountMsg: an error, or the count of the table of that name.
hbaseCountMsg(c) ==
    /\ c.kind = "count" /\ c.key # None
    /\ \E ok \in BOOLEAN :
         m' = [m EXCEPT !.hbaseCounting = FALSE,
                        !.rowCount = IF ok /\ @ # NoTable THEN c.key ELSE @]
    /\ ReturnFrom(c, {})

Keys ==
    \/ startReload \/ Retry \/ ToggleTerminated \/ Refresh \/ ToggleEffective \/ Close
    \/ PickAppUI \/ AskCount \/ AnswerCount
    \/ \E cl \in m.view, page \in SubView : Open(page, cl)

Answer(c) ==
    \/ invMsg(c) \/ enrichMsg(c) \/ Straggler(c) \/ SubMsg(c) \/ appUIMsg(c)
    \/ CountStarts(c) \/ hbaseCountMsg(c)

Next == Keys \/ \E c \in UnderWay : Answer(c)

-------------------------------------------------------------------------------
TypeOK ==
    /\ m.loadGen \in Gen /\ m.loading \in BOOLEAN /\ m.err \in BOOLEAN
    /\ DOMAIN m.inv \subseteq Cluster /\ m.view \subseteq Cluster
    /\ m.fails \in 0..Cardinality(Cluster)
    /\ m.page \in SubView \union {"list"}
    /\ m.rowCount \in Cluster \union {None, NoTable}

\* Columns and the count of failures come from one load: once no region is
\* enriching, the clusters without details are exactly those that failed.
OneLoad ==
    /\ \A c \in DOMAIN m.inv : m.inv[c] \in {0, m.loadGen}
    /\ m.enrichPending = Cardinality({c \in Running("enrich") : c.gen = m.loadGen})
    /\ ~m.loading /\ ~m.err /\ m.enrichPending = 0 =>
         m.fails = Cardinality({c \in DOMAIN m.inv : m.inv[c] = 0})

\* "so the toggle and the in-flight scope stay in sync": what is listed is what
\* the toggle says.
ScopeInSync == ~m.loading /\ ~m.err => m.scope = m.showTerminated

SpinnerEnds ==
    /\ m.loading => \E c \in Running("list") : c.gen = m.loadGen
    /\ m.sub.loading => Cmd(m.page, 0, m.sub.subject) \in UnderWay
    /\ m.hbaseCounting => Running("count") # {}

\* A sub-view shows the cluster and source it was opened on, unless an answer
\* it cannot tell from its own was under way; a description always does.
ShowsSubject ==
    /\ m.sub.shown # None => m.sub.shown = m.sub.subject \/ m.sub.overtaken
    /\ m.page = "hbase" => m.rowCount \in {NoTable, None, m.sub.subject} \/ m.sub.overtaken
===============================================================================
