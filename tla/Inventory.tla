------------------------------- MODULE Inventory -------------------------------
(***************************************************************************)
(* What the Summary TUI's resource table promises: one entry per resource  *)
(* key, the richest description of it that arrived (the newest among       *)
(* equally rich ones of different batches), dropped only by a restart or   *)
(* at the end of a completed watch sweep that did not see the key.         *)
(* InventoryView is shown to implement this module.                        *)
(***************************************************************************)
EXTENDS Naturals, Sequences

CONSTANTS Resource,   \* descriptions of resources, as collectors emit them
          Key(_),     \* the identity of a resource
          Rich(_),    \* how much a description says
          MaxBatch    \* bound: resources per chunk

VARIABLES entries,    \* the descriptions shown, one per key
          sweeping,   \* a watch sweep is running
          seen        \* the keys it has seen so far

vars == <<entries, sweeping, seen>>

Batch == UNION {[1..n -> Resource] : n \in 1..MaxBatch}

Elements(b) == {b[i] : i \in DOMAIN b}

Init == entries = {} /\ sweeping = FALSE /\ seen = {}

\* For every key, a richest description wins, and one of the batch when it is
\* as rich as the one shown.
Merges(b, new) ==
    LET Keys(S) == {Key(r) : r \in S} IN
    /\ new \subseteq entries \union Elements(b)
    /\ Keys(new) = Keys(entries) \union Keys(Elements(b))
    /\ \A r, s \in new : Key(r) = Key(s) => r = s
    /\ \A r \in new, s \in entries \union Elements(b) :
         Key(r) = Key(s) =>
           /\ Rich(s) <= Rich(r)
           /\ (s \in Elements(b) /\ Rich(s) = Rich(r)) => r \in Elements(b)

Merge(b) ==
    /\ \E new \in SUBSET (entries \union Elements(b)) : Merges(b, new) /\ entries' = new
    /\ seen' = IF sweeping THEN seen \union {Key(r) : r \in Elements(b)} ELSE seen
    /\ UNCHANGED sweeping

StartSweep == sweeping' = TRUE /\ seen' = {} /\ UNCHANGED entries

FinishSweep ==
    /\ sweeping
    /\ entries' = {r \in entries : Key(r) \in seen}
    /\ sweeping' = FALSE
    /\ seen' = {}

Restart == entries' = {} /\ UNCHANGED <<sweeping, seen>>

Next ==
    \/ \E b \in Batch : Merge(b)
    \/ StartSweep
    \/ FinishSweep
    \/ Restart

Spec == Init /\ [][Next]_vars
===============================================================================
