---------------------------- MODULE InventoryDedupe ----------------------------
(***************************************************************************)
(* One scan in two presentations: the CLI dedupes everything it received   *)
(* at the end, the Summary TUI merges chunk by chunk.                      *)
(***************************************************************************)
EXTENDS InventoryView

CONSTANT MaxReceived   \* bound: resources received

VARIABLE received      \* history: every resource the scan delivered, in order

\* The first of the richest entries of an ARN, in the place of the first one that
\* had the ARN; entries without an ARN are all kept.
DedupeStep(out, r) ==
    LET twin == {i \in DOMAIN out : r.arn # NoArn /\ out[i].arn = r.arn}
        idx == CHOOSE i \in twin : TRUE
    IN  IF twin = {} THEN Append(out, r)
        ELSE IF Richness(r) > Richness(out[idx]) THEN [out EXCEPT ![idx] = r]
        ELSE out

\* The loop of summary.Dedupe, after each resource.
Deduping(rs) ==
    LET out[n \in 0..Len(rs)] == IF n = 0 THEN <<>> ELSE DedupeStep(out[n - 1], rs[n])
    IN  out

Dedupe(rs) == Deduping(rs)[Len(rs)]

Receive(b) ==
    /\ \A i \in DOMAIN b : b[i].arn # NoArn
    /\ Len(received) + Len(b) <= MaxReceived
    /\ mergeResources(b)
    /\ received' = received \o b

DedupeInit == Init /\ received = <<>>

DedupeNext ==
    \/ \E b \in Batch : Receive(b)
    \/ restartScan /\ received' = <<>>

DedupeSpec == DedupeInit /\ [][DedupeNext]_<<vars, received>>

-------------------------------------------------------------------------------
(* Properties. *)

\* mergeResources "applies the same dedupe rule as summary.Dedupe": in whatever
\* chunks a scan arrives, the table has as many rows as the CLI prints, and for
\* each of those a row of the same key that says as much.
SameAsDedupe ==
    LET cli == Dedupe(received) IN
    received # <<>> =>
      /\ Len(sorted) = Len(cli)
      /\ \A i \in DOMAIN cli : \E j \in DOMAIN sorted :
           /\ resourceKey(sorted[j].res) = resourceKey(cli[i])
           /\ Richness(sorted[j].res) = Richness(cli[i])

\* A chunk is merged as Inventory says: for each key the richest description
\* there is, and among equally rich ones the chunk's, so that a state the table
\* shows is not older than the last one reported as fully.
RichestThenNewest ==
    [][Len(received') > Len(received) =>
         LET b == SubSeq(received', Len(received) + 1, Len(received'))
         IN  Map!Merges(b, {sorted'[i].res : i \in DOMAIN sorted'})]_<<vars, received>>
===============================================================================
