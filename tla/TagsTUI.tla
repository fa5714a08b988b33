-------------------------------- MODULE TagsTUI --------------------------------
(***************************************************************************)
(* The tags dashboard: three columns, keys, the values of the opened key   *)
(* and the resources of the opened value or of a typed query, and a pass   *)
(* that counts the resources of each item in the background.  A list is    *)
(* told by what was asked for it; its table (rows) may show another one.   *)
(* The help and the tags of a resource are overlays over a copy: they take *)
(* the keys and change nothing, and are left out.                          *)
(***************************************************************************)
EXTENDS Tea

CONSTANTS
    Key,
    Query,   \* queries a user types
    Items    \* how many values each key has

Value(k) == {k} \X (1..Items)
Desc == UNION {Value(k) : k \in Key} \union Query

NoPass == [col |-> None, parent |-> None, left |-> {}]

Init ==
    /\ m = [focus |-> "keys", keys |-> {}, selectedKey |-> None, filterDesc |-> None,
            loadingKeys |-> TRUE, loadingValues |-> FALSE, loadingResources |-> FALSE,
            values |-> None, valuesRows |-> None, resources |-> None, resRows |-> None,
            valuesCache |-> {}, resCache |-> {}, keyCounts |-> {}, valueCounts |-> {},
            countGen |-> 1, pass |-> NoPass]
    /\ cmds = Batch({Cmd("keys", 0, None)})

\* Mutant: the pass under way is not cancelled when the next one starts.
cancelCounts_KeepsGen(s, g) == [s EXCEPT !.pass = NoPass]

\* cancelCounts: the reads of the pass under way will be of an old generation.
cancelCounts(s, g) == [s EXCEPT !.countGen = g, !.pass = NoPass]

\* The items of a column without a count; the values are those the list holds.
Uncounted(s, col) ==
    IF col = "keys" THEN s.keys \ s.keyCounts
    ELSE {v \in UNION {Value(k) : k \in Key \intersect {s.values}} :
            <<s.selectedKey, v>> \notin s.valueCounts}

\* ensureCounts from state s, with the other commands Update returns and, if it
\* answers a command, that command gone.
ensureCounts(s, col, g, others, gone) ==
    LET items == Uncounted(s, col)
        t == cancelCounts(s, g)
    IN  IF items = {}
        THEN m' = t /\ cmds' = (cmds (-) Batch(gone)) (+) Batch(others)
        ELSE /\ m' = [t EXCEPT !.pass = [col |-> col, parent |-> s.selectedKey, left |-> items]]
             /\ BagCardinality(cmds) + Cardinality(others) < MaxCmds + Cardinality(gone)
             /\ cmds' = (cmds (-) Batch(gone)) (+) Batch(others \union {Cmd("count", t.countGen, None)})

keysMsg(c, g) ==
    /\ c.kind = "keys"
    /\ \E ks \in {{}, Key} :
         ensureCounts([m EXCEPT !.loadingKeys = FALSE, !.keys = ks, !.keyCounts = {}],
                      "keys", g, {}, {c})

\* Mutant: the rows of any key are put in the table.
valuesMsg_AnyKey(c, g) ==
    /\ c.kind = "values"
    /\ ensureCounts(
         [m EXCEPT !.loadingValues = FALSE, !.values = c.key, !.valuesRows = c.key,
                   !.valuesCache = @ \union {c.key},
                   !.valueCounts = {p \in @ : p[1] # c.key}],
         "values", g, {}, {c})

\* valuesMsg: the list is replaced whatever key it is of, the table only for
\* the selected key.
valuesMsg(c, g) ==
    /\ c.kind = "values"
    /\ ensureCounts(
         [m EXCEPT !.loadingValues = FALSE, !.values = c.key,
                   !.valuesRows = IF c.key = m.selectedKey THEN c.key ELSE @,
                   !.valuesCache = @ \union {c.key},
                   !.valueCounts = {p \in @ : p[1] # c.key}],
         "values", g, {}, {c})

\* resourcesMsg: the same for the third column.
resourcesMsg(c) ==
    /\ c.kind = "resources"
    /\ m' = [m EXCEPT !.loadingResources = FALSE, !.resources = c.key,
                      !.resCache = @ \union {c.key},
                      !.resRows = IF c.key = m.filterDesc THEN c.key ELSE @]
    /\ ReturnFrom(c, {})

\* onCount: one count of the current pass, and the next read; countsDoneMsg at
\* the end of a pass; nothing from one that was cancelled.
onCount(c) ==
    /\ c.kind = "count"
    /\ IF c.gen # m.countGen \/ m.pass.left = {} THEN m' = m /\ ReturnFrom(c, {})
       ELSE \E i \in m.pass.left :
              /\ m' = [m EXCEPT
                         !.pass.left = @ \ {i},
                         !.keyCounts = IF m.pass.col = "keys" THEN @ \union {i} ELSE @,
                         !.valueCounts = IF m.pass.col = "values"
                                         THEN @ \union {<<m.pass.parent, i>>} ELSE @]
              /\ ReturnFrom(c, {c})

\* "r": the column in focus, past its cache.  The count pass stops.
refresh(g) ==
    LET s == cancelCounts(m, g)
    IN  \/ /\ m.focus = "keys" /\ m' = [s EXCEPT !.loadingKeys = TRUE]
           /\ Return({Cmd("keys", 0, None)})
        \/ /\ m.focus = "values" /\ m.selectedKey # None
           /\ m' = [s EXCEPT !.loadingValues = TRUE, !.valuesCache = @ \ {m.selectedKey}]
           /\ Return({Cmd("values", 0, m.selectedKey)})
        \/ /\ m.focus = "resources" /\ m.filterDesc # None
           /\ m' = [s EXCEPT !.loadingResources = TRUE, !.resCache = @ \ {m.filterDesc}]
           /\ Return({Cmd("resources", 0, m.filterDesc)})
        \/ /\ <<m.focus, None>> \in {<<"values", m.selectedKey>>, <<"resources", m.filterDesc>>}
           /\ m' = s /\ UNCHANGED cmds

\* Left and Tab: landing on a list column resumes its counts.
MoveFocus(g) ==
    \E to \in {"keys", "values", "resources"} \ {m.focus} :
      LET s == [m EXCEPT !.focus = to]
      IN  IF to = "keys" \/ (to = "values" /\ m.selectedKey # None)
          THEN ensureCounts(s, to, g, {}, {})
          ELSE m' = s /\ UNCHANGED cmds

\* clearResources, when a key is opened.
clearResources(s) ==
    [s EXCEPT !.resources = None, !.filterDesc = None, !.resRows = None,
              !.loadingResources = FALSE]

\* Enter on a key: its values from the cache, or loaded.
openKey(k, g) ==
    LET s == clearResources([m EXCEPT !.selectedKey = k, !.focus = "values"])
    IN  /\ m.focus = "keys" /\ k \in m.keys
        /\ IF k \in m.valuesCache
           THEN ensureCounts([s EXCEPT !.values = k, !.valuesRows = k,
                                       !.loadingValues = FALSE], "values", g, {}, {})
           ELSE /\ m' = [s EXCEPT !.values = None, !.valuesRows = None,
                                  !.loadingValues = TRUE]
                /\ Return({Cmd("values", 0, k)})

\* Mutant: the column keeps the rows of the last query while it loads.
openResources_NoClear(s, d) ==
    LET t == [s EXCEPT !.filterDesc = d, !.focus = "resources"]
    IN  /\ m' = [t EXCEPT !.resources = None, !.loadingResources = TRUE]
        /\ Return({Cmd("resources", 0, d)})

\* openResources: from the cache, or loaded.
openResources(s, d) ==
    LET t == [s EXCEPT !.filterDesc = d, !.focus = "resources"]
    IN  IF d \in m.resCache
        THEN /\ m' = [t EXCEPT !.resources = d, !.resRows = d, !.loadingResources = FALSE]
             /\ UNCHANGED cmds
        ELSE /\ m' = [t EXCEPT !.resources = None, !.resRows = None,
                               !.loadingResources = TRUE]
             /\ Return({Cmd("resources", 0, d)})

\* Enter on a value: the selected key with the value the list holds there.
openValue ==
    /\ m.focus = "values" /\ m.values # None
    /\ \E v \in Value(m.values) : openResources(m, <<m.selectedKey, v[2]>>)

\* "f" and "/": a query is typed.
Filter == \E d \in Query : openResources(m, d)

Keys(g) ==
    \/ refresh(g) \/ MoveFocus(g) \/ openValue \/ Filter
    \/ \E k \in m.keys : openKey(k, g)

Answer(c, g) == keysMsg(c, g) \/ valuesMsg(c, g) \/ resourcesMsg(c) \/ onCount(c)

Next ==
    \E g \in {x \in Gen : Fresh(x, m.countGen)} :
        Keys(g) \/ \E c \in UnderWay : Answer(c, g)

-------------------------------------------------------------------------------
TypeOK ==
    /\ m.focus \in {"keys", "values", "resources"} /\ m.keys \subseteq Key
    /\ {m.selectedKey, m.values, m.valuesRows} \subseteq Key \union {None}
    /\ {m.filterDesc, m.resources, m.resRows} \subseteq Desc \union {None}
    /\ m.countGen \in Gen
    /\ \A c \in UnderWay : c.kind \in {"keys", "values", "resources", "count"}

\* "re-issued by onCount so reads stay one-at-a-time": a pass with counts left
\* has exactly one reader, and the reads of a cancelled one record nothing.
OneLoad ==
    LET readers == Copies(Cmd("count", m.countGen, None))
    IN  readers <= 1 /\ (m.pass.left # {} => readers = 1)

SpinnerEnds ==
    /\ m.loadingKeys => Running("keys") # {}
    /\ m.loadingValues => Cmd("values", 0, m.selectedKey) \in UnderWay
    /\ m.loadingResources => Cmd("resources", 0, m.filterDesc) \in UnderWay

\* The tables show the values of the selected key and the resources of the
\* filter in the title.
ShowsSubject ==
    m.valuesRows \in {m.selectedKey, None} /\ m.resRows \in {m.filterDesc, None}

===============================================================================
