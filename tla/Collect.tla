--------------------------------- MODULE Collect ---------------------------------
(***************************************************************************)
(* What the audits have in common: a collector reads a part of the account *)
(* into a snapshot, call by call; each call may fail, and what failed is   *)
(* recorded.  The analysis then looks at the snapshot alone.  The account  *)
(* does not change while it is read.                                       *)
(***************************************************************************)
EXTENDS Naturals, FiniteSets, Sequences

VARIABLES
    acct,    \* what there is in the account
    snap,    \* what was read of it
    errs,    \* the recorded errors, by service
    pc,      \* the function that runs next
    found    \* the findings, as <<check, resource>>

vars == <<acct, snap, errs, pc, found>>

\* A paginated listing of S: the pages until one fails.
Listing(S) == [rows : {S}, ok : {TRUE}] \union [rows : SUBSET S, ok : {FALSE}]

\* One call that returns all of S.
Call(S) == [rows : {S}, ok : {TRUE}] \union [rows : {{}}, ok : {FALSE}]

\* The part of a listing that is looked at when a sweep stops at max.
Capped(rows, max) ==
    IF Cardinality(rows) >= max THEN {P \in SUBSET rows : Cardinality(P) = max} ELSE {rows}

\* The calls of a service that went wrong are recorded.
Record(service, oks) == errs' = errs \union (IF FALSE \in oks THEN {service} ELSE {})

Step(from, to) == pc = from /\ pc' = to /\ UNCHANGED <<acct, found>>

\* The collected snapshot is analyzed.
Report(findings) ==
    /\ pc = "analyze" /\ pc' = "done" /\ found' = findings
    /\ UNCHANGED <<acct, snap, errs>>

Done == pc = "done"

Start(accounts, empty, first) ==
    /\ acct \in accounts /\ snap = empty /\ errs = {} /\ pc = first /\ found = {}
==================================================================================
