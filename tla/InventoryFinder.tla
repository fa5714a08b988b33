---------------------------- MODULE InventoryFinder ----------------------------
(***************************************************************************)
(* The global finder (Ctrl+P) over the Summary TUI's table: keys go to the *)
(* palette while it is open; chunks, watch ticks and a scan's end keep    *)
(* changing the table behind it.                                           *)
(***************************************************************************)
EXTENDS InventoryView

CONSTANTS
    Query,        \* what the user types; "" is the empty query
    Score(_, _),  \* fuzzy.Score of a query on a row's text, 0 for no match
    MaxHits,      \* finderMaxHits
    MaxRows,      \* bound: rows in the table
    Streaming     \* whether a scan runs while the palette is open

VARIABLES
    showFinder, query,
    finderHits,   \* positions in sorted, best match first
    finderSel,    \* the selected line, from 1
    jump          \* history: the last jump, as [detail, row under the cursor]

finderVars == <<showFinder, query, finderHits, finderSel, jump>>
allVars == <<vars, finderVars>>

NoJump == <<>>

NoQuery == ""

Queries == Query \union {NoQuery}

ASSUME FinderAssumption ==
    /\ \A q \in Queries, r \in Resource : Score(q, searchTextFor(r)) \in Nat
    /\ MaxHits \in Nat \ {0}

ScoreOf(rows, q, i) == Score(q, rows[i].text)

Matches(rows, q) == {i \in DOMAIN rows : ScoreOf(rows, q, i) > 0}

\* The better score first, ties in table order.
Better(rows, q, i, j) ==
    \/ ScoreOf(rows, q, i) > ScoreOf(rows, q, j)
    \/ ScoreOf(rows, q, i) = ScoreOf(rows, q, j) /\ i < j

Ranking(rows, q) ==
    CHOOSE hits \in [1..Cardinality(Matches(rows, q)) -> Matches(rows, q)] :
      \A m, n \in DOMAIN hits : m < n => Better(rows, q, hits[m], hits[n])

\* fuzzy.Rank: the positions of the matching rows, cut off at the limit.
Rank(rows, q) ==
    LET hits == Ranking(rows, q)
    IN  IF Len(hits) > MaxHits THEN SubSeq(hits, 1, MaxHits) ELSE hits

\* Mutant: the selection stays where it was.
computeFinderHits_KeepsLine(q, sel) ==
    /\ finderHits' = Rank(sorted, q)
    /\ finderSel' = sel

\* finderSel falls back to the first line when the list has become too short.
computeFinderHits(q, sel) ==
    /\ finderHits' = Rank(sorted, q)
    /\ finderSel' = IF sel > Len(Rank(sorted, q)) THEN 1 ELSE sel

\* Mutant: the palette opens with the hits it was closed with.
openFinder_OldHits ==
    /\ ~showFinder
    /\ showFinder' = TRUE
    /\ query' = NoQuery /\ finderSel' = 1
    /\ jump' = NoJump
    /\ UNCHANGED <<vars, finderHits>>

openFinder ==
    /\ ~showFinder
    /\ showFinder' = TRUE
    /\ query' = NoQuery
    /\ computeFinderHits(NoQuery, 1)
    /\ jump' = NoJump
    /\ UNCHANGED vars

\* Mutant: the hits are those of the query before the key.
TypeQuery_NoRank(q) ==
    /\ showFinder
    /\ query' = q
    /\ UNCHANGED <<vars, showFinder, finderHits, finderSel, jump>>

\* A key of the query.
TypeQuery(q) ==
    /\ showFinder
    /\ query' = q
    /\ computeFinderHits(q, finderSel)
    /\ UNCHANGED <<vars, showFinder, jump>>

MoveSelection ==
    /\ showFinder
    /\ \/ finderSel > 1 /\ finderSel' = finderSel - 1
       \/ finderSel < Len(finderHits) /\ finderSel' = finderSel + 1
    /\ UNCHANGED <<vars, showFinder, query, finderHits, jump>>

closeFinder ==
    /\ showFinder
    /\ showFinder' = FALSE
    /\ UNCHANGED <<vars, query, finderHits, finderSel, jump>>

\* Mutant: rows are told apart by what the table shows of them.
sameResource_ByName(a, b) == a.svc = b.svc /\ a.name = b.name

\* By ARN when either has one, else by service and id.
sameResource(a, b) ==
    IF a.arn # NoArn \/ b.arn # NoArn THEN a.arn = b.arn
    ELSE a.svc = b.svc /\ a.id = b.id

\* Enter: the service of the resource is shown without filters, the cursor goes
\* to the first row that is the same resource, the detail panel opens.
jumpToResource ==
    /\ showFinder
    /\ showFinder' = FALSE
    /\ LET idx == finderHits[finderSel]
           res == sorted[idx].res
           rows == Without(sorted, {i \in DOMAIN sorted : sorted[i].res.svc # res.svc})
           hit == CHOOSE i \in DOMAIN rows :
                    /\ sameResource(rows[i].res, res)
                    /\ \A j \in 1..(i - 1) : ~sameResource(rows[j].res, res)
       IN  jump' = IF finderSel \in DOMAIN finderHits /\ idx \in DOMAIN sorted
                   THEN <<res, rows[hit].res>> ELSE jump
    /\ UNCHANGED <<vars, query, finderHits, finderSel>>

\* Messages go past the palette to the model, W does not.
Update ==
    /\ showFinder => Streaming
    /\ Message \/ (~showFinder /\ EnableWatch)
    /\ Len(sorted') <= MaxRows
    /\ UNCHANGED finderVars

-------------------------------------------------------------------------------
FinderInit ==
    /\ Init
    /\ showFinder = FALSE /\ query = NoQuery
    /\ finderHits = <<>> /\ finderSel = 1
    /\ jump = NoJump

FinderNext ==
    \/ openFinder
    \/ \E q \in Query : TypeQuery(q)
    \/ MoveSelection
    \/ closeFinder
    \/ jumpToResource
    \/ Update

FinderSpec == FinderInit /\ [][FinderNext]_allVars

-------------------------------------------------------------------------------
(* Properties. *)

\* Every line of the palette is a row of the table: finderView and Enter index
\* m.sorted with the hits of the last key without a bounds check in finderView.
FinderHitsInRange ==
    showFinder => \A n \in DOMAIN finderHits : finderHits[n] \in DOMAIN sorted

\* The palette shows the matches of the query, best first, and so the line the
\* user selects is one of them.
FinderHitsMatch ==
    showFinder =>
      \A n \in DOMAIN finderHits :
        finderHits[n] \in DOMAIN sorted =>
          /\ Score(query, sorted[finderHits[n]].text) > 0
          /\ \A k \in 1..(n - 1) :
               finderHits[k] \in DOMAIN sorted =>
                 Score(query, sorted[finderHits[n]].text)
                   <= Score(query, sorted[finderHits[k]].text)

\* Some line is selected as long as there is one, however the query shrinks the
\* list under the selection.
SelectionStays == showFinder /\ finderHits # <<>> => finderSel \in DOMAIN finderHits

\* After a jump the cursor is on the row of the resource in the detail panel.
JumpLandsOnRow == jump # NoJump => jump[1] = jump[2]
===============================================================================
