------------------------------- MODULE LambdaTUI -------------------------------
(***************************************************************************)
(* The Lambda dashboard: one listing that may fail, a filtered table per   *)
(* tab, the detail of a function (fetched) or of another row (at hand),    *)
(* and on top of the detail the code browser behind its confirmation.      *)
(* The pages are flags; View and handleKey each go through them in an      *)
(* order of their own.                                                     *)
(***************************************************************************)
EXTENDS Tea

CONSTANTS
    Function, Image,  \* functions, and those that are container images
    Layer,            \* layers and event sources: rows with nothing to fetch
    Match             \* the rows the filter's term matches

Row == Function \union Layer
Tabs == {Function, Layer}

\* tabRows and buildView: the rows of the tab that match the filter.
buildView(s) == {r \in s.inv \intersect s.tab : s.filter => r \in Match}

rebuild(s) == [s EXCEPT !.view = buildView(s)]

\* View: the page that is drawn, the topmost overlay first.
Drawn(s) ==
    IF s.err THEN "error" ELSE IF s.showAbout THEN "about" ELSE
    IF s.codeConfirm THEN "confirm" ELSE IF s.codeActive THEN "code" ELSE
    IF s.detailActive THEN "detail" ELSE IF s.findingsActive THEN "findings" ELSE
    "dashboard"

\* Mutant: the detail swallows the keys of the pages over it.
Routed_DetailFirst(s) ==
    IF s.err THEN "error" ELSE IF s.showAbout THEN "about" ELSE
    IF s.detailActive THEN "detail" ELSE IF s.codeConfirm THEN "confirm" ELSE
    IF s.codeActive THEN "code" ELSE IF s.findingsActive THEN "findings" ELSE
    "dashboard"

\* handleKey: the page a key goes to.  The filter's input takes the keys of the
\* dashboard it stands on.
Routed(s) ==
    IF s.err THEN "error" ELSE IF s.showAbout THEN "about" ELSE
    IF s.codeConfirm THEN "confirm" ELSE IF s.codeActive THEN "code" ELSE
    IF s.detailActive THEN "detail" ELSE
    IF ~s.filterActive /\ s.findingsActive THEN "findings" ELSE "dashboard"

beginLoad(s, g) == [s EXCEPT !.loadGen = g, !.loading = TRUE, !.inv = {}]

Init ==
    /\ m = [loadGen |-> 1, loading |-> TRUE, err |-> FALSE, inv |-> {}, view |-> {},
            tab |-> Function, filter |-> FALSE, filterActive |-> FALSE,
            showAbout |-> FALSE, findingsActive |-> FALSE,
            detailActive |-> FALSE, detailOf |-> None, detailKey |-> None,
            detailLoading |-> FALSE, detailFunc |-> None, sections |-> None,
            codeConfirm |-> FALSE, codeActive |-> FALSE, codeLoading |-> FALSE,
            codeKey |-> None, codeFiles |-> None, codeViewing |-> FALSE]
    /\ cmds = Batch({Cmd("list", 1, None)})

\* Enter on the error screen, and "r" on the dashboard.
Load(s) ==
    \E g \in Gen : /\ Fresh(g, m.loadGen)
                  /\ m' = beginLoad(s, g) /\ Return({Cmd("list", g, None)})
Retry == Routed(m) = "error" /\ Load([m EXCEPT !.err = FALSE])
startReload ==
    /\ Routed(m) = "dashboard" /\ ~m.filterActive /\ ~m.loading /\ Load(m)

\* Mutant: the table is not rebuilt from the inventory that arrived.
invMsg_NoRebuild(c) ==
    /\ c.kind = "list"
    /\ IF c.gen # m.loadGen THEN m' = m
       ELSE \/ \E inv \in SUBSET Row : m' = [m EXCEPT !.loading = FALSE, !.inv = inv]
            \/ m' = [m EXCEPT !.loading = FALSE, !.err = TRUE]
    /\ ReturnFrom(c, {})

\* invMsg: the listing, or an error; one of a superseded load changes nothing.
invMsg(c) ==
    /\ c.kind = "list"
    /\ IF c.gen # m.loadGen THEN m' = m
       ELSE \/ \E inv \in SUBSET Row :
                 m' = rebuild([m EXCEPT !.loading = FALSE, !.inv = inv])
            \/ m' = [m EXCEPT !.loading = FALSE, !.err = TRUE]
    /\ ReturnFrom(c, {})

\* Mutant: an answer for any function is adopted.
detailMsg_AnyKey(c) ==
    /\ c.kind = "detail"
    /\ IF m.detailActive /\ m.detailLoading
       THEN m' = [m EXCEPT !.detailLoading = FALSE, !.detailFunc = c.key, !.sections = c.key]
       ELSE m' = m
    /\ ReturnFrom(c, {})

\* detailMsg, adopted only by the detail that waits for it.
detailMsg(c) ==
    /\ c.kind = "detail"
    /\ IF m.detailActive /\ m.detailLoading /\ c.key = m.detailKey
       THEN \/ m' = [m EXCEPT !.detailLoading = FALSE,
                              !.detailFunc = c.key, !.sections = c.key]
            \/ m' = [m EXCEPT !.detailLoading = FALSE]
       ELSE m' = m
    /\ ReturnFrom(c, {})

\* codeMsg, adopted only by the browser that waits for it.
codeMsg(c) ==
    /\ c.kind = "code"
    /\ IF m.codeActive /\ m.codeLoading /\ c.key = m.codeKey
       THEN \/ m' = [m EXCEPT !.codeLoading = FALSE, !.codeFiles = c.key]
            \/ m' = [m EXCEPT !.codeLoading = FALSE]
       ELSE m' = m
    /\ ReturnFrom(c, {})

\* "?" opens the about box over any page but the modal ones, any key closes it.
About ==
    /\ \/ m.showAbout \/ Routed(m) \in {"code", "detail", "findings"}
       \/ Routed(m) = "dashboard" /\ ~m.filterActive
    /\ ~m.err
    /\ m' = [m EXCEPT !.showAbout = ~@] /\ UNCHANGED cmds

\* switchTab drops the filter; "/" opens its input, typing rebuilds.
switchTab ==
    /\ Routed(m) = "dashboard" /\ ~m.filterActive
    /\ \E t \in Tabs \ {m.tab} : m' = rebuild([m EXCEPT !.tab = t, !.filter = FALSE])
    /\ UNCHANGED cmds

Filter ==
    /\ Routed(m) = "dashboard"
    /\ \/ ~m.filterActive /\ m' = [m EXCEPT !.filterActive = TRUE]
       \/ /\ m.filterActive
          /\ \E typed, still \in BOOLEAN :
               m' = rebuild([m EXCEPT !.filter = typed, !.filterActive = still])
    /\ UNCHANGED cmds

\* Enter on a row.  detailKey keeps its last value when nothing is fetched.
openDetail(r) ==
    LET opened == [m EXCEPT !.detailActive = TRUE, !.detailOf = r, !.detailFunc = None]
    IN  /\ Routed(m) = "dashboard" /\ ~m.filterActive /\ r \in m.view
        /\ \/ /\ r \in Function
              /\ m' = [opened EXCEPT !.detailLoading = TRUE, !.detailKey = r,
                                     !.sections = None]
              /\ Return({Cmd("detail", 0, r)})
           \/ /\ r \in Layer
              /\ m' = [opened EXCEPT !.detailLoading = FALSE, !.sections = r]
              /\ UNCHANGED cmds

closeDetail ==
    /\ Routed(m) = "detail"
    /\ m' = [m EXCEPT !.detailActive = FALSE, !.detailOf = None] /\ UNCHANGED cmds

\* "v": only a loaded function with a package has something to confirm.
requestCode ==
    /\ Routed(m) = "detail" /\ ~m.detailLoading
    /\ m.detailFunc \in Function \ Image
    /\ m' = [m EXCEPT !.codeConfirm = TRUE] /\ UNCHANGED cmds

startCodeDownload ==
    /\ Routed(m) = "confirm"
    /\ m' = [m EXCEPT !.codeConfirm = FALSE, !.codeActive = TRUE, !.codeLoading = TRUE,
                      !.codeViewing = FALSE, !.codeFiles = None, !.codeKey = m.detailFunc]
    /\ Return({Cmd("code", 0, m.detailFunc)})

cancelCode ==
    /\ Routed(m) = "confirm"
    /\ m' = [m EXCEPT !.codeConfirm = FALSE] /\ UNCHANGED cmds

\* The browser's keys: open a file, close it, close the browser.
handleCodeKey ==
    /\ Routed(m) = "code"
    /\ \/ ~m.codeViewing /\ m.codeFiles # None /\ m' = [m EXCEPT !.codeViewing = TRUE]
       \/ m.codeViewing /\ m' = [m EXCEPT !.codeViewing = FALSE]
       \/ ~m.codeViewing /\ m' = [m EXCEPT !.codeActive = FALSE]
    /\ UNCHANGED cmds

\* "f", and the way back.
Findings ==
    /\ Routed(m) \in {"dashboard", "findings"} /\ ~m.filterActive
    /\ m' = [m EXCEPT !.findingsActive = ~@] /\ UNCHANGED cmds

Keys ==
    \/ Retry \/ startReload \/ About \/ switchTab \/ Filter \/ closeDetail
    \/ requestCode \/ startCodeDownload \/ cancelCode \/ handleCodeKey \/ Findings
    \/ \E r \in m.view : openDetail(r)

Answer(c) == invMsg(c) \/ detailMsg(c) \/ codeMsg(c)

Next == Keys \/ \E c \in UnderWay : Answer(c)

-------------------------------------------------------------------------------
TypeOK ==
    /\ m.loadGen \in Gen /\ m.inv \subseteq Row /\ m.view \subseteq Row /\ m.tab \in Tabs
    /\ {m.detailOf, m.sections} \subseteq Row \union {None}
    /\ {m.detailKey, m.detailFunc, m.codeKey, m.codeFiles} \subseteq Function \union {None}
    /\ \A c \in UnderWay : c.kind \in {"list", "detail", "code"}

\* A spinner always has the command under way whose answer will end it.
SpinnerEnds ==
    /\ m.loading => Cmd("list", m.loadGen, None) \in UnderWay
    /\ m.detailActive /\ m.detailLoading => Cmd("detail", 0, m.detailOf) \in UnderWay
    /\ m.codeActive /\ m.codeLoading => Cmd("code", 0, m.detailFunc) \in UnderWay

\* "A stale detail can arrive after the view was closed or moved to another
\* function": the panels and the source on display are the opened row's.
ShowsSubject ==
    /\ m.detailActive /\ ~m.detailLoading => m.sections \in {m.detailOf, None}
    /\ m.codeConfirm \/ m.codeActive => m.detailActive /\ m.detailFunc = m.detailOf
    /\ m.codeActive => m.codeFiles \in {m.detailOf, None}

\* The table holds the rows of the loaded inventory that pass tab and filter.
TableCurrent == ~m.loading /\ ~m.err => m.view = buildView(m)

\* "They must claim keys before the detail handler": keys go to what is drawn.
KeysReachDrawn == Routed(m) = Drawn(m)
===============================================================================
