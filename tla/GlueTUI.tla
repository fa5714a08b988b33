-------------------------------- MODULE GlueTUI --------------------------------
(***************************************************************************)
(* The Glue dashboard: the progressive load of the inventory and the       *)
(* sub-views of a job (runs, definition) or another resource (detail).     *)
(* The highlighted row is any row on display; a rebuild happens when tab,  *)
(* filter or sort change.  Each opening resets its sub-view, so one record *)
(* serves them all, and an answer for a sub-view that is closed changes    *)
(* nothing that is ever shown.                                             *)
(***************************************************************************)
EXTENDS Tea

CONSTANTS
    Job, RegionOf,  \* jobs and the region of each
    Other           \* crawlers, triggers, workflows, connections, databases

Region == {RegionOf[j] : j \in Job}
Inventories == UNION {[S -> {0}] : S \in SUBSET (Job \union Other)}

Closed == [subject |-> None, loading |-> FALSE, shown |-> None, overtaken |-> FALSE]

\* beginLoad: inv[j] is the load phase 2 fetched j's last run in, 0 before.
beginLoad(s, g) ==
    [s EXCEPT !.loadGen = g, !.loading = TRUE, !.inv = <<>>, !.enrichPending = 0]

Init ==
    /\ m = [loadGen |-> 1, loading |-> TRUE, inv |-> <<>>, enrichPending |-> 0,
            view |-> {}, page |-> "dashboard", sub |-> Closed]
    /\ cmds = Batch({Cmd("list", 1, None)})

\* "r": startReload.
startReload ==
    /\ m.page = "dashboard" /\ ~m.loading
    /\ \E g \in Gen : /\ Fresh(g, m.loadGen)
                     /\ m' = beginLoad(m, g)
                     /\ Return({Cmd("list", g, None)})

\* enrichCmds: one command for each region that has jobs.
enrichCmds(g, inv) ==
    {Cmd("enrich", g, r) : r \in {RegionOf[j] : j \in DOMAIN inv \intersect Job}}

\* invMsg of the current load.  It never carries an error: loadRegionWith logs
\* a listing that fails and returns what the others gave.
invMsg(c) ==
    /\ c.kind = "list" /\ c.gen = m.loadGen
    /\ \E inv \in Inventories :
         /\ m' = [m EXCEPT !.loading = FALSE, !.inv = inv, !.view = DOMAIN inv,
                           !.enrichPending = Cardinality(enrichCmds(c.gen, inv))]
         /\ ReturnFrom(c, enrichCmds(c.gen, inv))

\* Mutant: stragglers of an earlier load patch the current one.
enrichMsg_AnyGen(c) ==
    /\ c.kind = "enrich"
    /\ m' = [m EXCEPT
               !.inv = [j \in DOMAIN @ |->
                          IF j \in Job /\ RegionOf[j] = c.key THEN c.gen ELSE @[j]],
               !.enrichPending = IF @ > 0 THEN @ - 1 ELSE 0,
               !.view = DOMAIN m.inv]
    /\ ReturnFrom(c, {})

\* enrichMsg of the current load: applyEnrichment.
enrichMsg(c) ==
    /\ c.kind = "enrich" /\ c.gen = m.loadGen
    /\ m' = [m EXCEPT
               !.inv = [j \in DOMAIN @ |->
                          IF j \in Job /\ RegionOf[j] = c.key THEN c.gen ELSE @[j]],
               !.enrichPending = IF @ > 0 THEN @ - 1 ELSE 0,
               !.view = DOMAIN m.inv]
    /\ ReturnFrom(c, {})

\* Answers of a superseded load are dropped.
Straggler(c) ==
    /\ c.kind \in {"list", "enrich"} /\ c.gen # m.loadGen
    /\ m' = m /\ ReturnFrom(c, {})

\* runsMsg, defMsg, detailMsg: whatever arrives is shown, rows or error.
SubMsg(c) ==
    /\ c.kind \in {"runs", "def", "detail"}
    /\ m' = IF m.page = c.kind
            THEN [m EXCEPT !.sub.loading = FALSE, !.sub.shown = c.key]
            ELSE m
    /\ ReturnFrom(c, {})

\* Mutant: the sub-view opens on what it showed last.
Open_NoReset(page, r) ==
    /\ m.page = "dashboard" /\ r \in m.view
    /\ page = "detail" <=> r \in Other
    /\ m' = [m EXCEPT !.page = page, !.sub.subject = r, !.sub.overtaken = FALSE]
    /\ Return({Cmd(page, 0, r)})

\* Enter and "d" on a row.  overtaken is history: an answer to an earlier
\* opening was still under way.
Open(page, r) ==
    /\ m.page = "dashboard" /\ r \in m.view
    /\ page = "detail" <=> r \in Other
    /\ m' = [m EXCEPT !.page = page,
                      !.sub = [subject |-> r, loading |-> TRUE, shown |-> None,
                               overtaken |-> \E c \in Running(page) : c.key # r]]
    /\ Return({Cmd(page, 0, r)})

\* "f" opens the findings, which are computed at once.
openFindings ==
    /\ m.page = "dashboard"
    /\ m' = [m EXCEPT !.page = "findings"] /\ UNCHANGED cmds

\* Esc in a sub-view.
Close ==
    /\ m.page # "dashboard"
    /\ m' = [m EXCEPT !.page = "dashboard", !.sub.subject = None, !.sub.loading = FALSE]
    /\ UNCHANGED cmds

\* A tab, filter or sort key: rebuild from the inventory loaded so far.
rebuild ==
    /\ m.page = "dashboard"
    /\ m' = [m EXCEPT !.view = DOMAIN m.inv] /\ UNCHANGED cmds

Keys ==
    \/ startReload \/ openFindings \/ Close \/ rebuild
    \/ \E r \in m.view, page \in {"runs", "def", "detail"} : Open(page, r)

Answer(c) == invMsg(c) \/ enrichMsg(c) \/ Straggler(c) \/ SubMsg(c)

Next == Keys \/ \E c \in UnderWay : Answer(c)

-------------------------------------------------------------------------------
TypeOK ==
    /\ m.loadGen \in Gen /\ m.loading \in BOOLEAN
    /\ DOMAIN m.inv \subseteq Job \union Other /\ m.view \subseteq Job \union Other
    /\ m.enrichPending \in 0..Cardinality(Region)
    /\ m.page \in {"dashboard", "runs", "def", "detail", "findings"}
    /\ \A c \in UnderWay : c.kind \in {"list", "enrich", "runs", "def", "detail"}

\* "loadGen tags each load so a refresh's stragglers can't patch a newer load":
\* every run state on display came from the load that listed the job, and the
\* counter of regions still enriching counts the answers still to come.
OneLoad ==
    /\ \A j \in DOMAIN m.inv : m.inv[j] \in {0, m.loadGen}
    /\ m.enrichPending = Cardinality({c \in Running("enrich") : c.gen = m.loadGen})

\* A spinner always has a command under way that will end it.
SpinnerEnds ==
    /\ m.loading => Cmd("list", m.loadGen, None) \in UnderWay
    /\ m.sub.loading => Cmd(m.page, 0, m.sub.subject) \in UnderWay

\* A sub-view shows the resource it was opened on, unless an answer to an
\* earlier opening was still under way: those carry no key that is compared.
ShowsSubject ==
    m.page \in {"runs", "def", "detail"} /\ ~m.sub.loading =>
        m.sub.shown = m.sub.subject \/ m.sub.overtaken
===============================================================================
