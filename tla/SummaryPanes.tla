----------------------------- MODULE SummaryPanes -----------------------------
(***************************************************************************)
(* What the Summary TUI shows over and beside its table: overlays, forms   *)
(* and the detail panel with its debug panes.  The order in which Update   *)
(* offers a message to the overlays is not the order in which View draws   *)
(* them, and three of them take every message, those of the scan too.      *)
(* The scan is a chain of chunks here (SummaryTUI has the rest of it); the *)
(* offline view, which has no engine, is left out.  The second part is the *)
(* table itself: the groups of the sidebar, filters and sort, the cache of *)
(* rows and the cursor, while InventoryView has the data behind it.        *)
(***************************************************************************)
EXTENDS Tea

CONSTANTS
    Found, IdOf,  \* resources a scan finds, and the ID of each
    Pane,         \* "timeline", "logs", "metrics": panes the user opens
    Overlay,      \* overlays the user opens
    Scope,        \* profiles and regions the switcher offers
    Resource,     \* resources of the table, numbered in (service, name) order
    ServiceOf,    \* their services, numbered from 2 in order
    Matching, Picked,  \* those that match what is typed, and the filter form
    Cell          \* what each shows in the columns that can be sorted

\* tuiModel.  An overlay is open when its flag is set.  report is the
\* account diff's: the engine whose inventory it compares.  History: moved, an engine came while a diff was
\* open; stranded, one came while the detail panel had the focus; eaten, what
\* waits for an answer that an overlay took; mixed, a pane took the answer for
\* another resource of the same ID; ahead, a switch did not come about.
PanesInit ==
    LET g == CHOOSE g \in Gen : TRUE
        s == CHOOSE s \in Scope : TRUE
    IN
    \E seed \in {{}, Found} :
      /\ m = [open |-> {}, focus |-> "table", tableFocus |-> TRUE, detail |-> None,
              show |-> {}, wait |-> {}, data |-> [p \in Pane \union {"xref"} |-> None],
              rows |-> seed, errors |-> FALSE, loading |-> TRUE, done |-> FALSE,
              scanGen |-> g, engine |-> s, cfg |-> s, switching |-> FALSE,
              report |-> None, moved |-> FALSE, stranded |-> FALSE,
              eaten |-> {}, mixed |-> FALSE, ahead |-> FALSE]
      /\ cmds = Batch({Cmd("chunk", g, None)})

First(order, s, other) ==
    LET on == {i \in DOMAIN order : order[i] \in s.open}
    IN  IF on = {} THEN other ELSE order[CHOOSE i \in on : \A j \in on : i <= j]

\* Who gets a key: Update's order.
Listener(s) ==
    First(<<"settings", "help", "about", "debug", "errors", "coverage", "diff",
            "switcher", "filter", "finder", "filtering">>, s, "main")

\* What is drawn: View's order, behind the first scan's screen, which only the
\* debug log is shown on, and the screen of a scan that only brought errors.
Drawn(s) ==
    IF s.loading /\ s.rows = {} THEN IF "debug" \in s.open THEN "debug" ELSE "loading"
    ELSE IF s.errors /\ s.rows = {} /\ s.done THEN "failed"
    ELSE First(<<"about", "help", "errors", "coverage", "debug", "diff", "settings",
                 "filter", "switcher", "finder">>, s, "main")

\* Whose keys the status bar lists.
statusHints(s) ==
    First(<<"settings", "help", "errors", "coverage", "debug", "diff", "filter",
            "switcher", "filtering", "finder">>, s, "main")

\* Forms and the settings panel take every message.
Captures(s) == s.open \intersect {"settings", "switcher", "filter"} # {}

Main == Listener(m) = "main"
Go(s) == m' = s /\ UNCHANGED cmds
\* A diff is made anew when it is opened.
Close(o) == [m EXCEPT !.open = @ \ {o}, !.report = None, !.moved = FALSE]

\* A panel that takes the focus takes the table's keys or gives them back.
Focus(s, panel) == [s EXCEPT !.focus = panel, !.tableFocus = panel = "table", !.stranded = FALSE]

OpenDetail(s, r) == [Focus(s, "detail") EXCEPT !.detail = r, !.show = {}]

-------------------------------------------------------------------------------
(* Keys with no overlay open. *)

\* A baseline is a file, of what has been found so far, at the end of a scan or
\* not.
saveAcctBaseline(s) == Go(s)

\* "D": the first time it saves; when there is a baseline, of this process or
\* of an earlier one, it compares.
openAcctDiff(s) ==
    \/ saveAcctBaseline(s)
    \/ Go([s EXCEPT !.open = @ \union {"diff"}, !.report = s.engine])

\* Mutant: an overlay opens wherever the user is and whatever there is to show.
Open_Anywhere ==
    Main /\ \E o \in Overlay : Go([m EXCEPT !.open = @ \union {o}])

\* "S", "?", "i", "~", "ctrl+p", "e", "c", "D", "P", "f" and "/".
Open ==
    /\ Main
    /\ \E o \in Overlay :
         /\ o = "errors" => m.errors
         /\ o = "switcher" => ~m.switching
         /\ o \in {"filter", "filtering"} => m.rows # {}
         /\ o = "filtering" => m.focus = "table"
         /\ IF o = "diff" THEN openAcctDiff(m) ELSE Go([m EXCEPT !.open = @ \union {o}])

\* Mutant: the detail panel closes and keeps the focus.
Esc_KeepsFocus ==
    Main /\ m.detail # None /\ Go([m EXCEPT !.detail = None, !.show = {}])

\* Esc.
Esc ==
    Main /\ m.detail # None /\ Go([Focus(m, "table") EXCEPT !.detail = None, !.show = {}])

\* Tab and shift+tab: round the panels there are.  From a detail panel that is
\* gone both lead to the table.
cycleFocus ==
    /\ Main
    /\ LET panels == <<"sidebar", "table", "detail">>
           n == IF m.detail = None THEN 2 ELSE 3
           at == CHOOSE i \in 0..2 : panels[i + 1] = m.focus
       IN  \E step \in {1, n - 1} :
             Go(Focus(m, panels[((at + step) % n) + 1]))

\* Enter.
Enter ==
    /\ Main
    /\ \/ m.focus = "sidebar" /\ Go(Focus(m, "table"))
       \/ m.focus = "table" /\ \E r \in m.rows : Go(OpenDetail(m, r))

\* A click into the sidebar or on a row.
Click == Listener(m) \in {"main", "filtering"} /\ Drawn(m) = "main" /\ Go(Focus(m, "table"))

OnDetail == Main /\ m.focus = "detail" /\ m.detail # None

\* Mutant: a pane that is opened again keeps what it showed.
Toggle_KeepsData ==
    /\ OnDetail
    /\ \E p \in Pane :
         IF p \in m.show THEN Go([m EXCEPT !.show = {}])
         ELSE \/ Go([m EXCEPT !.show = {p}, !.mixed = FALSE])
              \/ /\ m' = [m EXCEPT !.show = {p}, !.wait = @ \union {p}, !.eaten = @ \ {p}]
                 /\ Return({Cmd(p, 0, m.detail)})

\* "t", "l", "g": a pane takes the place of another and reads anew, or says
\* that there is nothing to read for such a resource.  mixed is of the pane.
Toggle ==
    /\ OnDetail
    /\ \E p \in Pane :
         IF p \in m.show THEN Go([m EXCEPT !.show = {}])
         ELSE LET s == [m EXCEPT !.show = {p}, !.data[p] = None, !.mixed = FALSE, !.eaten = @ \ {p}]
              IN  \/ p # "timeline" /\ Go([s EXCEPT !.wait = @ \ {p}])
                  \/ m' = [s EXCEPT !.wait = @ \union {p}] /\ Return({Cmd(p, 0, m.detail)})

\* "x": findReferences looks through the rows there are.
Xref ==
    /\ OnDetail
    /\ IF "xref" \in m.show THEN Go([m EXCEPT !.show = {}])
       ELSE Go([m EXCEPT !.show = {"xref"}, !.data = [@ EXCEPT !["xref"] = m.detail]])

-------------------------------------------------------------------------------
(* Keys in an overlay. *)

\* Esc, or the key that opened it.
CloseOverlay ==
    \E o \in Overlay : Listener(m) = o /\ Go(Close(o))

\* "b" in the account diff.
Rebaseline == Listener(m) = "diff" /\ saveAcctBaseline(Close("diff"))

\* Enter in the finder, on a hit.
Jump == Listener(m) = "finder" /\ \E r \in m.rows : Go(OpenDetail(Close("finder"), r))

\* ctrl+s in the settings panel.
Save == Listener(m) = "settings" /\ Return({Cmd("save", 0, None)}) /\ UNCHANGED m

\* applySwitcher: the configuration is changed at once, the engine that goes
\* with it is built by a command.
applySwitcher ==
    /\ Listener(m) = "switcher"
    /\ \E s \in Scope :
         /\ m' = [Close("switcher") EXCEPT !.cfg = s, !.switching = TRUE]
         /\ Return({Cmd("switch", 0, s)})

-------------------------------------------------------------------------------
(* Messages. *)

\* What an overlay that captures takes and does not know.
Swallow(c) ==
    /\ Captures(m) /\ ~(c.kind = "save" /\ "settings" \in m.open)
    /\ LET missed == \/ c.kind = "chunk" /\ c.gen = m.scanGen
                     \/ c.kind = "switch"
                     \/ c.kind \in Pane /\ m.detail # None /\ IdOf[c.key] = IdOf[m.detail]
       IN  m' = [m EXCEPT !.eaten = IF missed THEN @ \union {c.kind} ELSE @,
                          !.ahead = @ \/ c.kind = "switch"]
    /\ ReturnFrom(c, {})

\* chunkMsg and doneMsg.
chunkMsg(c) ==
    /\ c.kind = "chunk" /\ ~Captures(m)
    /\ IF c.gen # m.scanGen THEN m' = m /\ ReturnFrom(c, {})
       ELSE \E new \in {{}, Found}, err, last \in BOOLEAN :
              /\ m' = [m EXCEPT !.rows = @ \union new, !.errors = @ \/ err, !.loading = FALSE,
                                !.done = @ \/ last]
              /\ ReturnFrom(c, IF last THEN {} ELSE {c})

\* restartScan.  The focus stays where it is, as do the flags of the panes.
restartScan(s, g) ==
    [s EXCEPT !.rows = {}, !.errors = FALSE, !.detail = None, !.scanGen = g, !.loading = TRUE,
              !.done = FALSE, !.eaten = @ \ {"chunk"}, !.stranded = s.focus = "detail"]

\* engineSwitchedMsg.  After a failure the configuration is that of the engine
\* there could not be.
engineSwitchedMsg(c) ==
    /\ c.kind = "switch" /\ ~Captures(m)
    /\ \/ m' = [m EXCEPT !.switching = FALSE, !.ahead = TRUE] /\ ReturnFrom(c, {})
       \/ \E g \in Gen :
            /\ Fresh(g, m.scanGen)
            /\ m' = restartScan([m EXCEPT !.switching = FALSE, !.engine = c.key, !.ahead = FALSE,
                                          !.moved = "diff" \in m.open], g)
            /\ ReturnFrom(c, {Cmd("chunk", g, None)})

\* Mutant: the answer for any resource is taken.
paneMsg_AnyID(c) ==
    /\ c.kind \in Pane /\ ~Captures(m)
    /\ m' = IF m.detail # None THEN [m EXCEPT !.wait = @ \ {c.kind}, !.data[c.kind] = c.key] ELSE m
    /\ ReturnFrom(c, {})

\* timelineMsg, logsMsg and metricsMsg, matched by the ID: an answer or an error.
paneMsg(c) ==
    /\ c.kind \in Pane /\ ~Captures(m)
    /\ IF m.detail # None /\ IdOf[c.key] = IdOf[m.detail]
       THEN \/ m' = [m EXCEPT !.wait = @ \ {c.kind}, !.data[c.kind] = None]
            \/ m' = [m EXCEPT !.wait = @ \ {c.kind}, !.data[c.kind] = c.key,
                              !.mixed = @ \/ c.key # m.detail]
       ELSE m' = m
    /\ ReturnFrom(c, {})

\* SettingsSavedMsg and SettingsErrMsg close the panel, if it is still open.
SettingsSavedMsg(c) ==
    /\ c.kind = "save"
    /\ IF "settings" \in m.open THEN m' = Close("settings")
       ELSE ~Captures(m) /\ m' = m
    /\ ReturnFrom(c, {})

Keys ==
    Open \/ Esc \/ cycleFocus \/ Enter \/ Click \/ Toggle \/ Xref \/ CloseOverlay
    \/ Rebaseline \/ Jump \/ Save \/ applySwitcher
Answer(c) ==
    Swallow(c) \/ chunkMsg(c) \/ engineSwitchedMsg(c) \/ paneMsg(c) \/ SettingsSavedMsg(c)
PanesNext == Keys \/ \E c \in UnderWay : Answer(c)

-------------------------------------------------------------------------------
\* At most one overlay is open and at most one pane; the table takes its keys
\* when it has the focus, and only then; the rows' filter is typed over the table.
PanesTypeOK ==
    /\ Cardinality(m.open) <= 1 /\ Cardinality(m.show) <= 1
    /\ m.tableFocus = (m.focus = "table")
    /\ m.detail \in Found \union {None} /\ m.rows \in {{}, Found}
    /\ m.open = {"filtering"} => m.focus = "table"

\* A pane that loads, a scan and a switch have their command under way, unless
\* an overlay took the answer.
PanesSpinnerEnds ==
    /\ m.loading => Cmd("chunk", m.scanGen, None) \in UnderWay \/ "chunk" \in m.eaten
    /\ m.switching => Running("switch") # {} \/ "switch" \in m.eaten
    /\ \A p \in m.show \intersect m.wait :
         m.detail # None =>
           (\E c \in Running(p) : IdOf[c.key] = IdOf[m.detail]) \/ p \in m.eaten

\* A pane shows what was read for the resource in the panel, or for another of
\* the same ID that was asked about before; the account diff is of the engine
\* that scans, unless that was exchanged under it; and the configuration, which
\* names snapshots and starts other screens, is that of the engine, unless a
\* switch is under way or did not come about.
PanesShowSubject ==
    /\ m.detail # None =>
         \A p \in m.show \ m.wait : m.data[p] \in {m.detail, None} \/ m.mixed
    /\ "diff" \in m.open => m.report = m.engine \/ m.moved
    /\ m.cfg = m.engine \/ m.switching \/ m.ahead

\* A key goes to the overlay that is drawn, behind the screens that hide them
\* all; without one to a panel there is, unless a switch took it away; and the
\* status bar lists the keys of what listens, but for the "About" text.
PanesHaveKeys ==
    /\ Drawn(m) \in {"loading", "failed"} \/ Drawn(m) = Listener(m)
         \/ (Drawn(m) = "main" /\ Listener(m) = "filtering")
    /\ m.focus = "detail" => m.detail # None \/ m.stranded
    /\ statusHints(m) = Listener(m) \/ Listener(m) = "about"
-------------------------------------------------------------------------------
(* The table.  A group of the sidebar is a number, so that their numbers are *)
(* in the sidebar's order; activeService is a position among them.           *)
Triage == 0
All == 1

\* Triage is there as long as a resource is unhealthy.
Grouped(s) ==
    {All} \union {ServiceOf[r] : r \in s.found} \union (IF s.bad = {} THEN {} ELSE {Triage})

Nth(groups, i) ==
    IF i >= Cardinality(groups) THEN All
    ELSE CHOOSE g \in groups : Cardinality({h \in groups : h < g}) = i
currentService(s) == Nth(s.services, s.activeService)

\* rowsFor: the resources of a group that the filters let through, in natural
\* order or stably sorted by a column.
By(s) == [found |-> s.found, bad |-> s.bad, filterText |-> s.filterText,
          filterForm |-> s.filterForm, sortCol |-> s.sortCol, sortAsc |-> s.sortAsc]
Shown(s, g) ==
    {r \in s.found : /\ g = Triage => r \in s.bad
                     /\ g > All => ServiceOf[r] = g
                     /\ s.filterText => r \in Matching
                     /\ s.filterForm => r \in Picked}
Before(s, q, r) ==
    IF s.sortCol = 0 \/ Cell[q][s.sortCol] = Cell[r][s.sortCol] THEN q < r
    ELSE (Cell[q][s.sortCol] < Cell[r][s.sortCol]) = s.sortAsc
Group(s, g) ==
    [i \in 1..Cardinality(Shown(s, g)) |->
       CHOOSE r \in Shown(s, g) : Cardinality({q \in Shown(s, g) : Before(s, q, r)}) = i - 1]

\* allRows caches the groups that were looked at.
rowsFor(s, g) == IF g \in DOMAIN s.allRows THEN s.allRows[g] ELSE Group(By(s), g)
invalidateRows(s) == [s EXCEPT !.allRows = <<>>]

\* SetRows keeps the cursor on a row; there is none in an empty table.
updateTableRows(s) ==
    LET g == currentService(s)
        rows == rowsFor(s, g)
    IN  [s EXCEPT !.allRows = [h \in DOMAIN @ \union {g} |-> rowsFor(s, h)],
                  !.table = rows,
                  !.cursor = IF @ > Len(rows) THEN Len(rows) ELSE IF @ = 0 /\ rows # <<>> THEN 1 ELSE @]

\* Mutant: the rows that were cached stay.
onResultsChanged_KeepsRows(s) ==
    LET t == [s EXCEPT !.services = Grouped(s)]
    IN  [t EXCEPT !.activeService = IF @ >= Cardinality(t.services) THEN 0 ELSE @]

\* The groups are listed anew under activeService, which stays: drifted is
\* history, what is selected was not chosen.
onResultsChanged(s) ==
    LET t == [s EXCEPT !.services = Grouped(s)]
        u == [t EXCEPT !.activeService = IF @ >= Cardinality(t.services) THEN 0 ELSE @]
    IN  invalidateRows([u EXCEPT !.drifted = currentService(u) # u.chosen])

\* A seed makes the list of groups, and no rows before the first
\* WindowSizeMsg: sized.
InventoryInit ==
    \E seed \in {{}, Resource} : \E bad \in SUBSET seed :
      /\ LET none == [found |-> seed, bad |-> bad, services |-> {}, activeService |-> 0,
                      chosen |-> All, drifted |-> FALSE, focus |-> "table",
                      filtering |-> FALSE, filterText |-> FALSE, filterForm |-> FALSE,
                      sortCol |-> 0, sortAsc |-> TRUE, allRows |-> <<>>, table |-> <<>>,
                      cursor |-> 0, sized |-> FALSE]
         IN  m = IF seed = {} THEN none ELSE onResultsChanged(none)
      /\ cmds = EmptyBag

\* syncTableLayout, at a WindowSizeMsg.
WindowSize == Go([updateTableRows(m) EXCEPT !.sized = TRUE])

\* chunkMsg: what is new is merged, and states change.
Chunk ==
    \E new \in SUBSET (Resource \ m.found) : \E bad \in SUBSET (m.found \union new) :
      Go(updateTableRows(onResultsChanged([m EXCEPT !.found = @ \union new, !.bad = bad])))

\* finishWatchSweep: what the sweep did not see goes.
finishWatchSweep ==
    \E seen \in SUBSET m.found :
      /\ seen # m.found
      /\ Go(updateTableRows(onResultsChanged([m EXCEPT !.found = seen, !.bad = @ \intersect seen])))

restartTable ==
    LET s == [m EXCEPT !.found = {}, !.bad = {}, !.services = {}, !.activeService = 0,
                       !.chosen = All, !.drifted = FALSE]
    IN  Go(updateTableRows(invalidateRows(s)))

\* A group is chosen in the sidebar with the keys, the wheel or a click.
Select(s, i) ==
    LET t == [s EXCEPT !.activeService = i]
    IN  updateTableRows([t EXCEPT !.chosen = currentService(t), !.drifted = FALSE])
selectService ==
    \/ m.focus = "table" /\ ~m.filtering /\ Go([m EXCEPT !.focus = "sidebar"])
    \/ m.focus = "sidebar" /\ Go([m EXCEPT !.focus = "table"])
    \/ /\ m.focus = "sidebar" /\ m.activeService > 0
       /\ Go(Select(m, m.activeService - 1))
    \/ /\ m.focus = "sidebar" /\ m.activeService + 1 < Cardinality(m.services)
       /\ Go(Select(m, m.activeService + 1))
    \/ \E i \in 0..Cardinality(Resource) + 1 :
         /\ i < Cardinality(m.services)
         /\ Go([(IF i = m.activeService THEN m ELSE Select(m, i)) EXCEPT !.focus = "table"])

\* Keys of the table, and a click on a row.
MoveCursor == \E i \in DOMAIN m.table : Go([m EXCEPT !.cursor = i])

\* "/", what is typed, Enter and Esc.
typeFilter ==
    \/ ~m.filtering /\ m.focus = "table" /\ m.found # {} /\ Go(updateTableRows([m EXCEPT !.filtering = TRUE]))
    \/ /\ m.filtering
       /\ \/ \E on \in BOOLEAN : Go(updateTableRows(invalidateRows([m EXCEPT !.filterText = on])))
          \/ Go(updateTableRows([m EXCEPT !.filtering = FALSE]))
          \/ Go(updateTableRows(invalidateRows([m EXCEPT !.filtering = FALSE, !.filterText = FALSE])))

\* "f": the form for a region and a state; "r" takes back all filters.
filterBy ==
    /\ ~m.filtering
    /\ \/ m.found # {} /\ \E on \in BOOLEAN : Go(updateTableRows(invalidateRows([m EXCEPT !.filterForm = on])))
       \/ Go(updateTableRows(invalidateRows([m EXCEPT !.filterForm = FALSE, !.filterText = FALSE])))

\* Mutant: the order changes and the rows stay.
sortBy_KeepsRows ==
    /\ ~m.filtering /\ m.focus = "table" /\ m.found # {}
    /\ LET k == IF m.sortCol + 1 \in DOMAIN Cell[1] THEN m.sortCol + 1 ELSE 0
       IN  Go(updateTableRows([m EXCEPT !.sortCol = k]))

\* "s": from column to column and back to natural order; "R": the other way.
sortBy ==
    /\ ~m.filtering /\ m.focus = "table"
    /\ \/ /\ m.found # {}
          /\ LET k == IF m.sortCol + 1 \in DOMAIN Cell[1] THEN m.sortCol + 1 ELSE 0
             IN  Go(updateTableRows(invalidateRows([m EXCEPT !.sortCol = k])))
       \/ m.sortCol > 0 /\ Go(updateTableRows(invalidateRows([m EXCEPT !.sortAsc = ~@])))

\* Mutant: the target is looked for in the group on display.
jumpToResource_StaysThere ==
    /\ ~m.filtering
    /\ \E r \in m.found :
         LET t == updateTableRows(invalidateRows(
                    [m EXCEPT !.filterText = FALSE, !.filterForm = FALSE, !.chosen = ServiceOf[r],
                              !.drifted = FALSE]))
         IN  Go(t)

\* jumpToResource, from the finder: no filter hides the target, its service is
\* selected and the cursor is put on its row.
jumpToResource ==
    /\ ~m.filtering
    /\ \E r \in m.found :
         LET at == Cardinality({g \in m.services : g < ServiceOf[r]})
             t == updateTableRows(invalidateRows(
                    [m EXCEPT !.filterText = FALSE, !.filterForm = FALSE, !.activeService = at,
                              !.chosen = ServiceOf[r], !.drifted = FALSE]))
         IN  Go([t EXCEPT !.cursor = CHOOSE i \in DOMAIN t.table : t.table[i] = r])

InventoryNext ==
    WindowSize \/ Chunk \/ finishWatchSweep \/ restartTable \/ selectService \/ MoveCursor
    \/ typeFilter \/ filterBy \/ sortBy \/ jumpToResource

\* The table and the cache are what the current group, the filters and the
\* order make of the rows: the row that Enter, "y" and a click take (from the
\* cache) is the one drawn, and an export is of what is on display.
InventoryTableCurrent ==
    /\ \A g \in DOMAIN m.allRows : m.allRows[g] = Group(By(m), g)
    /\ m.table = Group(By(m), currentService(m)) \/ (~m.sized /\ m.table = <<>>)

\* The cursor is on a row as long as there is one.
InventoryTypeOK ==
    /\ m.found \subseteq Resource /\ m.bad \subseteq m.found
    /\ m.services \in {{}, Grouped(m)}
    /\ m.cursor \in (IF m.table = <<>> THEN {0} ELSE DOMAIN m.table)

\* The group on display is the one that was chosen, unless the list of groups
\* has changed since.
InventoryShowsSubject == currentService(m) = m.chosen \/ m.drifted
===============================================================================
