----------------------------- MODULE InventoryView -----------------------------
(***************************************************************************)
(* The data behind the Summary TUI's table: one slice of resources kept    *)
(* sorted, the filter text parallel to it, an index from resource keys to  *)
(* positions, the services of the sidebar and the bookkeeping of watch     *)
(* mode.                                                                   *)
(***************************************************************************)
EXTENDS Naturals, Sequences, FiniteSets

CONSTANTS
    Resource,    \* model.Resource: [arn, id, typ, svc, name, rich, state, acct]
    NoArn,       \* the empty ARN
    MaxBatch     \* bound: resources per chunk

VARIABLES
    sorted,       \* rows in (service, name) order, each with its filter text
    byARN,        \* resource key -> position in sorted
    svcSet,       \* services of the sidebar
    watching,     \* watchSeen # nil
    watchSeen,    \* keys seen by the running watch sweep
    prevStates,   \* resource key -> state at the last watch tick or W
    changedRows   \* keys flagged as having changed state

dataVars   == <<sorted, byARN, svcSet>>
watchVars  == <<watching, watchSeen, prevStates, changedRows>>
vars == <<dataVars, watchVars>>

\* The ARN when present, else (service, type, region, id) without the account;
\* an id stands for an id in its region.
resourceKey(r) == IF r.arn # NoArn THEN <<r.arn>> ELSE <<r.svc, r.typ, r.id>>

Richness(r) == r.rich

lessResource(a, b) == a.svc < b.svc \/ (a.svc = b.svc /\ a.name < b.name)

searchTextFor(r) == <<r.svc, r.id, r.name, r.state>>

Row(r) == [res |-> r, text |-> searchTextFor(r)]

Keys(rows) == {resourceKey(rows[i].res) : i \in DOMAIN rows}

\* The service and the name are numbered in their order.  A key has one service:
\* awsutil.CanonicalService gives the tag sweep's entries the typed collectors'.
ASSUME ViewAssumption ==
    /\ \A r \in Resource : r.svc \in Nat /\ r.name \in Nat /\ Richness(r) \in Nat
    /\ \A r, s \in Resource : resourceKey(r) = resourceKey(s) => r.svc = s.svc
    /\ MaxBatch \in Nat

Batch == UNION {[1..n -> Resource] : n \in 1..MaxBatch}

-------------------------------------------------------------------------------
(* mergeResources *)

\* Mutant: only a richer description replaces the one shown.
Fold_Strict(acc, r) ==
    LET key == resourceKey(r)
        idx == byARN[key]
    IN  IF \E i \in DOMAIN acc.fresh : resourceKey(acc.fresh[i]) = key THEN acc
        ELSE IF key \notin DOMAIN byARN THEN [acc EXCEPT !.fresh = Append(@, r)]
        ELSE IF Richness(r) <= Richness(acc.rows[idx].res) THEN acc
        ELSE [acc EXCEPT !.fresh = Append(@, r), !.drops = @ \union {idx}]

\* Mutant: a renamed resource keeps its position.
Fold_InPlace(acc, r) ==
    LET key == resourceKey(r)
        idx == byARN[key]
    IN  IF \E i \in DOMAIN acc.fresh : resourceKey(acc.fresh[i]) = key THEN acc
        ELSE IF key \notin DOMAIN byARN THEN [acc EXCEPT !.fresh = Append(@, r)]
        ELSE IF Richness(r) < Richness(acc.rows[idx].res) THEN acc
        ELSE [acc EXCEPT !.rows[idx] = Row(r)]

\* Mutant: a renamed resource is inserted and its old row stays.
Fold_NoDrop(acc, r) ==
    LET key == resourceKey(r)
        idx == byARN[key]
    IN  IF \E i \in DOMAIN acc.fresh : resourceKey(acc.fresh[i]) = key THEN acc
        ELSE IF key \notin DOMAIN byARN THEN [acc EXCEPT !.fresh = Append(@, r)]
        ELSE IF Richness(r) < Richness(acc.rows[idx].res) THEN acc
        ELSE [acc EXCEPT !.fresh = Append(@, r)]

\* One resource of the batch.  acc.rows is sorted with its in-place
\* replacements, acc.fresh the entries to insert, acc.drops the positions they
\* supersede.
Fold(acc, r) ==
    LET key == resourceKey(r)
        twin == {i \in DOMAIN acc.fresh : resourceKey(acc.fresh[i]) = key}
        idx == byARN[key]
        old == acc.rows[idx].res
        Fresh == [acc EXCEPT !.fresh = Append(@, r)]
    IN  IF twin # {} THEN
            LET i == CHOOSE i \in twin : TRUE IN
            IF Richness(r) > Richness(acc.fresh[i])
            THEN [acc EXCEPT !.fresh[i] = r] ELSE acc
        ELSE IF key \notin DOMAIN byARN THEN Fresh
        ELSE IF Richness(r) < Richness(old) THEN acc
        ELSE IF old.svc = r.svc /\ old.name = r.name
        THEN [acc EXCEPT !.rows[idx] = Row(r)]
        ELSE [Fresh EXCEPT !.drops = @ \union {idx}]

\* The rows shown, after the nth resource of the batch.
Folding(b) ==
    LET acc[n \in 0..Len(b)] ==
          IF n = 0 THEN [rows |-> sorted, fresh |-> <<>>, drops |-> {}]
          ELSE Fold(acc[n - 1], b[n])
    IN  acc

\* Insertion behind every row that is not greater: the stable sort of the new
\* entries and the stable merge with the rows already shown.
InsertRow(rows, r) ==
    LET before == Cardinality({i \in DOMAIN rows : ~lessResource(r, rows[i].res)})
    IN  [i \in 1..(Len(rows) + 1) |->
           IF i <= before THEN rows[i] ELSE IF i = before + 1 THEN Row(r) ELSE rows[i - 1]]

\* The rows with the first n of the new entries among them.
Inserting(rows, fresh) ==
    LET ins[n \in 0..Len(fresh)] ==
          IF n = 0 THEN rows ELSE InsertRow(ins[n - 1], fresh[n])
    IN  ins

\* The rows up to the nth that are not in drops.
Keeping(rows, drops) ==
    LET kept[n \in 0..Len(rows)] ==
          IF n = 0 THEN <<>>
          ELSE IF n \in drops THEN kept[n - 1]
          ELSE Append(kept[n - 1], rows[n])
    IN  kept

Without(rows, drops) == Keeping(rows, drops)[Len(rows)]

\* Mutant: keys that are in the index keep their position.
Reindex_NewOnly(index, rows) ==
    [k \in Keys(rows) \union DOMAIN index |->
       IF k \in DOMAIN index THEN index[k]
       ELSE CHOOSE i \in DOMAIN rows : resourceKey(rows[i].res) = k]

\* Positions of the keys of rows.  Keys the index holds for no row stay.
Reindex(index, rows) ==
    LET Place(k) == CHOOSE i \in DOMAIN rows :
                     /\ resourceKey(rows[i].res) = k
                     /\ \A j \in DOMAIN rows : resourceKey(rows[j].res) = k => j <= i
    IN  [k \in Keys(rows) \union DOMAIN index |->
            IF k \in Keys(rows) THEN Place(k) ELSE index[k]]

\* Mutant: the loop ends where the table ended before the merge.
Flagged_OldLength(rows) ==
    {k \in DOMAIN prevStates :
       \E i \in DOMAIN rows \intersect DOMAIN sorted :
         resourceKey(rows[i].res) = k /\ rows[i].res.state # prevStates[k]}

\* The rows whose state is not the one of the last watch tick.
Flagged(rows) ==
    {k \in DOMAIN prevStates :
       \E i \in DOMAIN rows : /\ resourceKey(rows[i].res) = k
                              /\ rows[i].res.state # prevStates[k]}

\* Mutant: only what is new to the table counts as seen.
Seen_NewOnly(b) ==
    watchSeen \union {k \in {resourceKey(b[i]) : i \in DOMAIN b} : k \notin DOMAIN byARN}

\* What a watch sweep has seen after the batch, merged or not.
Seen(b) == watchSeen \union {resourceKey(b[i]) : i \in DOMAIN b}

mergeResources(b) ==
    LET acc == Folding(b)[Len(b)]
        merged == Inserting(Without(acc.rows, acc.drops), acc.fresh)[Len(acc.fresh)]
    IN  /\ sorted' = merged
        /\ byARN' = IF acc.fresh = <<>> THEN byARN ELSE Reindex(byARN, merged)
        /\ svcSet' = svcSet \union {acc.fresh[i].svc : i \in DOMAIN acc.fresh}
        /\ watchSeen' = IF watching THEN Seen(b) ELSE watchSeen
        /\ changedRows' = changedRows \union Flagged(merged)
        /\ UNCHANGED <<watching, prevStates>>

-------------------------------------------------------------------------------
(* Watch mode *)

snapshotStates ==
    prevStates' = [k \in Keys(sorted) |->
                     LET i == CHOOSE i \in DOMAIN sorted : resourceKey(sorted[i].res) = k
                     IN  sorted[i].res.state]

\* "W": watch mode is turned on, the first tick is five seconds away.
EnableWatch ==
    /\ snapshotStates
    /\ UNCHANGED <<dataVars, watching, watchSeen, changedRows>>

\* A watch tick: snapshotStates and watchRefreshCmd, which starts a new sweep
\* whether or not the last one has ended.
WatchTick ==
    /\ snapshotStates
    /\ watching' = TRUE
    /\ watchSeen' = {}
    /\ UNCHANGED <<dataVars, changedRows>>

\* The rows the sweep has not seen.
Unseen == {i \in DOMAIN sorted : resourceKey(sorted[i].res) \notin watchSeen}

\* Mutant: the index is not rebuilt.
finishWatchSweep_OldIndex ==
    LET kept == Without(sorted, Unseen) IN
    /\ watching
    /\ watching' = FALSE
    /\ watchSeen' = {}
    /\ sorted' = kept
    /\ svcSet' = {kept[i].res.svc : i \in DOMAIN kept}
    /\ UNCHANGED <<byARN, prevStates, changedRows>>

\* Mutant: the sidebar is not rebuilt.
finishWatchSweep_OldSidebar ==
    LET kept == Without(sorted, Unseen) IN
    /\ watching
    /\ watching' = FALSE
    /\ watchSeen' = {}
    /\ sorted' = kept
    /\ byARN' = Reindex(<<>>, kept)
    /\ UNCHANGED <<svcSet, prevStates, changedRows>>

\* The scan ended.
finishWatchSweep ==
    LET kept == Without(sorted, Unseen) IN
    /\ watching
    /\ watching' = FALSE
    /\ watchSeen' = {}
    /\ IF kept = sorted THEN UNCHANGED dataVars
       ELSE /\ sorted' = kept
            /\ byARN' = Reindex(<<>>, kept)
            /\ svcSet' = {kept[i].res.svc : i \in DOMAIN kept}
    /\ UNCHANGED <<prevStates, changedRows>>

\* A flag is shown for ten seconds.
FlagExpires ==
    \E k \in changedRows :
      /\ changedRows' = changedRows \ {k}
      /\ UNCHANGED <<dataVars, watching, watchSeen, prevStates>>

\* restartScan after a profile or region switch.
restartScan ==
    /\ sorted' = <<>>
    /\ byARN' = <<>>
    /\ svcSet' = {}
    /\ UNCHANGED watchVars

-------------------------------------------------------------------------------
Init ==
    /\ sorted = <<>>
    /\ byARN = <<>>
    /\ svcSet = {}
    /\ watching = FALSE
    /\ watchSeen = {}
    /\ prevStates = <<>>
    /\ changedRows = {}

\* Everything but the key W.
Message ==
    \/ \E b \in Batch : mergeResources(b)
    \/ WatchTick
    \/ finishWatchSweep
    \/ FlagExpires
    \/ restartScan

Next == Message \/ EnableWatch

Spec == Init /\ [][Next]_vars

-------------------------------------------------------------------------------
(* Properties. *)

TypeOK ==
    /\ \A i \in DOMAIN sorted : sorted[i].res \in Resource
    /\ \A k \in DOMAIN byARN : byARN[k] \in DOMAIN sorted
    /\ watching \in BOOLEAN
    /\ ~watching => watchSeen = {}

\* The index is exact after any sequence of merges, renames and sweeps: it
\* holds the keys of the rows, each at the position of its row, so no key has
\* two rows and a later merge replaces the right one; and the sidebar lists the
\* services that have a row.
IndexExact ==
    /\ DOMAIN byARN = Keys(sorted)
    /\ svcSet = {sorted[i].res.svc : i \in DOMAIN sorted}
    /\ \A i \in DOMAIN sorted : byARN[resourceKey(sorted[i].res)] = i

\* The incremental merge keeps the order a full sort would give and the filter
\* text of every row is its own.
SortedWithText ==
    /\ \A i, j \in DOMAIN sorted : i < j => ~lessResource(sorted[j].res, sorted[i].res)
    /\ \A i \in DOMAIN sorted : sorted[i].text = searchTextFor(sorted[i].res)

\* A merge that gives a row another state than it had when watch mode was turned
\* on or last ticked leaves the row flagged.
TransitionsFlagged ==
    [][\A k \in DOMAIN prevStates :
         (\E i \in DOMAIN sorted' : /\ resourceKey(sorted'[i].res) = k
                                    /\ \A j \in DOMAIN sorted : sorted'[i] # sorted[j]
                                    /\ sorted'[i].res.state # prevStates[k])
           => k \in changedRows']_vars

\* The table as a map from keys to descriptions.
Map == INSTANCE Inventory WITH
    Key      <- resourceKey,
    Rich     <- Richness,
    entries  <- {sorted[i].res : i \in DOMAIN sorted},
    sweeping <- watching,
    seen     <- watchSeen

ImplementsInventory == Map!Spec
===============================================================================
