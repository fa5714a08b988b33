-------------------------------- MODULE Snapshots --------------------------------
(***************************************************************************)
(* The baseline of an account and the difference of a later scan from it,  *)
(* and the difference of two saved scans.  Either scan may have missed     *)
(* resources, and may have some twice.                                     *)
(***************************************************************************)
EXTENDS Collect, Integers

CONSTANTS Accounts,   \* the resources before and after, and the regions of both scans
          None

-------------------------------------------------------------------------------
\* Mutant: resources without ARN and ID are told apart by nothing.
entryKey_NoName(r) == IF r.arn # None THEN <<r.arn>> ELSE <<r.type, r.region, r.id>>

entryKey(r) ==
    IF r.arn # None THEN <<r.arn>>
    ELSE IF r.id = None THEN <<r.type, r.region, None, r.name>> ELSE <<r.type, r.region, r.id>>

\* The key of the saved scans is without the name.
scanKey(r) == IF r.arn # None THEN <<r.arn>> ELSE <<r.type, r.region, r.id>>
Key(r) == IF acct.ask = "scans" THEN scanKey(r) ELSE entryKey(r)

\* Of the entries of one ARN the richest; the entries without one are all kept.
Dedupe(rows) == {r \in rows : r.arn # None => \A t \in rows : t.arn = r.arn => t.rich <= r.rich}

\* What is compared: of the entries of one key, one.
New(rows) ==
    LET entries == IF acct.ask = "scans" THEN rows ELSE Dedupe(rows)
    IN  {S \in SUBSET entries : /\ \A r, t \in S : Key(r) = Key(t) => r = t
                                /\ \A r \in entries : \E t \in S : Key(r) = Key(t)}

\* The scan is saved under the account and the set of its regions.
Save ==
    /\ pc = "baseline" /\ UNCHANGED <<acct, found>>
    /\ \/ pc' = "done" /\ errs' = {"save"} /\ UNCHANGED snap
       \/ /\ pc' = "diff" /\ UNCHANGED errs
          /\ \E seen \in SUBSET acct.old : \E s \in New(seen) : snap' = [snap EXCEPT !.seen = seen, !.baseline = s]

\* What is compared of an entry, `facts` being its tags; and of a saved
\* resource, `facts` being its summary.
entryDeltas(o, n) == {f \in {"name", "state", "facts"} : o[f] # n[f]}
Changes(o, n) == {f \in {"state", "facts"} : o[f] # n[f]}
Differ(o, n) == (IF acct.ask = "scans" THEN Changes(o, n) ELSE entryDeltas(o, n)) # {}

DiffOf(old, new) ==
    LET At(S, k) == CHOOSE r \in S : Key(r) = k
        keys(S) == {Key(r) : r \in S}
    IN  [added |-> {At(new, k) : k \in keys(new) \ keys(old)},
         removed |-> {At(old, k) : k \in keys(old) \ keys(new)},
         modified |-> {At(new, k) : k \in {x \in keys(old) \intersect keys(new) : Differ(At(old, x), At(new, x))}}]

\* The difference as rows to show.
BuildDiffResources(diff) == UNION {{[kind |-> kind, row |-> r] : r \in diff[kind]} : kind \in DOMAIN diff}

\* A baseline that cannot be read is an error, and so is one of other regions.
Diff ==
    /\ pc = "diff" /\ pc' = "done" /\ UNCHANGED acct
    /\ \/ errs' = {"load"} /\ UNCHANGED <<snap, found>>
       \/ acct.scope # acct.oldScope /\ errs' = {"scope"} /\ UNCHANGED <<snap, found>>
       \/ /\ acct.scope = acct.oldScope /\ UNCHANGED errs
          /\ \E seen \in SUBSET acct.new : \E live \in New(seen) :
               /\ snap' = [snap EXCEPT !.live = seen]
               /\ found' = BuildDiffResources(DiffOf(snap.baseline, live))

\* Both files, or an error.
DiffScans ==
    /\ pc = "scans" /\ pc' = "done" /\ UNCHANGED acct
    /\ \/ errs' = {"file"} /\ UNCHANGED <<snap, found>>
       \/ \E seen \in SUBSET acct.old, live \in SUBSET acct.new :
          \E old \in New(seen), new \in New(live) :
            /\ snap' = [snap EXCEPT !.seen = seen, !.live = live] /\ UNCHANGED errs
            /\ found' = BuildDiffResources(DiffOf(old, new))

Init == /\ acct \in Accounts /\ errs = {} /\ found = {} /\ pc = acct.ask
        /\ snap = [seen |-> {}, baseline |-> {}, live |-> {}]

Next == Save \/ Diff \/ DiffScans

-------------------------------------------------------------------------------
\* Two entries are of one resource: by their ARN, or else by all there is.
Same(r, t) ==
    IF r.arn # None \/ t.arn # None THEN r.arn = t.arn
    ELSE /\ r.type = t.type /\ r.region = t.region /\ r.id = t.id
         /\ r.id = None => r.name = t.name

\* A resource that is called added or removed was, unless a scan missed it.
Sound ==
    Done => \A c \in found :
      /\ c.kind = "removed" => (\A t \in acct.new : ~Same(t, c.row)) \/ snap.live # acct.new
      /\ c.kind = "added" => (\A t \in acct.old : ~Same(t, c.row)) \/ snap.seen # acct.old

\* Of two whole scans, a resource of the first is in the second, with nothing
\* changed of what is compared, or is shown as removed or modified.  A baseline
\* goes by the richest entry of an ARN.  Saved scans do not: theirs has to be
\* the only one; and they mix up what has neither ARN nor ID.
Accounted ==
    Done /\ errs = {} /\ snap.seen = acct.old /\ snap.live = acct.new =>
      \A r \in acct.old :
        \/ \E t \in acct.old \ {r} : Same(t, r) /\ (acct.ask = "scans" \/ t.rich >= r.rich)
        \/ acct.ask = "scans" /\ r.arn = None /\ r.id = None
        \/ \E t \in acct.new : Same(t, r) /\ ~Differ(r, t)
        \/ \E c \in found : c.kind \in {"removed", "modified"} /\ Same(c.row, r)
===============================================================================
