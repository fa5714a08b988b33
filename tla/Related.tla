-------------------------------- MODULE Related --------------------------------
(***************************************************************************)
(* The answer of "related": the references swept, or those of a recent     *)
(* sweep, indexed by what they come from and by what they name, and walked *)
(* breadth-first from the resource that was asked for.  An identifier is   *)
(* an ARN or a short form; Short gives the short form of either.  An edge  *)
(* is [from, via, to].                                                     *)
(***************************************************************************)
EXTENDS Collect

CONSTANTS Accounts, None, Short, TTL

(***************************************************************************)
(* acct: the edges, by the sweep that reads them; the query's input, depth *)
(* and --show-paths all; its scope and --refresh; and the files a cache    *)
(* holds.  snap: the sweep that is used, and the walk.                     *)
(***************************************************************************)

IsArn(id) == Short[id] # id

-------------------------------------------------------------------------------
(* cache.go, and RunE of the command up to the walk. *)

\* Mutant: sweeps with and without the roles' policies share a file.
CacheKey_AnyPolicies(scope) ==
    <<scope.version, scope.account, scope.profile, {scope.regions[i] : i \in DOMAIN scope.regions}, scope.scan>>

\* The regions in any order, whether the roles' policies were read, and --scan.
CacheKey(scope) ==
    <<scope.version, scope.account, scope.profile, {scope.regions[i] : i \in DOMAIN scope.regions},
      scope.policies, scope.scan>>

\* The entry that answers for the scope: readable, of this version, not older
\* than the TTL.
LoadCache(scope) ==
    {e \in acct.cache : /\ CacheKey(e.of) = CacheKey(scope)
                        /\ TTL > 0 /\ e.readable /\ e.of.version = scope.version /\ e.age <= TTL}

\* --refresh sweeps whatever there is; what a sweep recorded comes with it.
Fetch ==
    /\ Step("fetch", "uses")
    /\ \E used \in IF ~acct.refresh /\ LoadCache(acct.scope) # {} THEN LoadCache(acct.scope)
                   ELSE {[of |-> acct.scope, age |-> 0, readable |-> TRUE, errs |-> e] : e \in {{}, {"ec2"}}} :
         /\ snap' = [snap EXCEPT !.used = used]
         /\ errs' = used.errs

Edges == acct.edges[snap.used.of.policies]

-------------------------------------------------------------------------------
(* related.go: the two indexes, and the walk over them. *)

\* Both forms of an identifier.
queryIdentifiers(id) == {id, Short[id]}

\* The edges stored under one form or the other of what they come from, or of
\* what they name.
BuildForwardIndex(key) == {e \in Edges : key \in queryIdentifiers(e.from)}
BuildIndex(key) == {e \in Edges : key \in queryIdentifiers(e.to)}

\* Mutant: an ARN is looked up as it is.
lookupEdges_Whole(id) == BuildForwardIndex(id)

lookupEdges(id) == UNION {BuildForwardIndex(k) : k \in queryIdentifiers(id)}
lookupRefs(id) == UNION {BuildIndex(k) : k \in queryIdentifiers(id)}

isStart(id) == queryIdentifiers(id) \intersect queryIdentifiers(acct.input) # {}

\* The rows a node leads to, and the key that keeps a row from coming twice.
Found(node, edges, side) ==
    {[id |-> e[side], via |-> e.via, path |-> Append(node.path, e.via)] :
       e \in {x \in edges : ~isStart(x[side])}}

dedupeKey(row) == IF acct.all THEN <<row.id, row.via, row.path>> ELSE <<row.id, row.via>>

Depth == IF acct.depth < 1 THEN 1 ELSE acct.depth

\* A hop: the nodes of the frontier are looked up in some order; a row is kept
\* the first time its key comes, and the first row that leads to a resource not
\* visited yet leads on from it.
Hop(found0, hop) ==
    LET fresh == {r \in found0 : dedupeKey(r) \notin {dedupeKey(q) : q \in hop.rows}}
        new == {r \in found0 : queryIdentifiers(r.id) \intersect hop.visited = {}}
        Firsts == {F \in SUBSET fresh : /\ {dedupeKey(r) : r \in F} = {dedupeKey(r) : r \in fresh}
                                        /\ \A p, q \in F : dedupeKey(p) = dedupeKey(q) => p = q}
        Leads(F) == {G \in SUBSET (new \intersect F) :
                       /\ {Short[r.id] : r \in G} = {Short[r.id] : r \in new}
                       /\ \A p, q \in G : Short[p.id] = Short[q.id] => p = q}
    IN  UNION {{[rows |-> hop.rows \union {[id |-> r.id, via |-> r.via, path |-> r.path, hop |-> hop.at] : r \in F},
                 frontier |-> {[id |-> r.id, path |-> r.path] : r \in G},
                 visited |-> hop.visited \union UNION {queryIdentifiers(r.id) : r \in G},
                 at |-> hop.at + 1] : G \in Leads(F)} : F \in Firsts}

Begin(id) == [rows |-> {}, frontier |-> {[id |-> id, path |-> <<>>]}, visited |-> queryIdentifiers(id), at |-> 1]

Over(hop) == hop.frontier = {} \/ hop.at > Depth

walkForward ==
    /\ pc = "uses" /\ UNCHANGED <<acct, errs, found>>
    /\ IF Over(snap.uses) THEN pc' = "used by" /\ UNCHANGED snap
       ELSE LET rows == UNION {Found(n, lookupEdges(n.id), "to") : n \in snap.uses.frontier}
            IN  UNCHANGED pc /\ \E hop \in Hop(rows, snap.uses) : snap' = [snap EXCEPT !.uses = hop]

walkReverse ==
    /\ pc = "used by" /\ UNCHANGED <<acct, errs, found>>
    /\ IF Over(snap.usedBy) THEN pc' = "report" /\ UNCHANGED snap
       ELSE LET rows == UNION {Found(n, lookupRefs(n.id), "from") : n \in snap.usedBy.frontier}
            IN  UNCHANGED pc /\ \E hop \in Hop(rows, snap.usedBy) : snap' = [snap EXCEPT !.usedBy = hop]

\* The full identifiers a bare name may stand for.
AmbiguousCandidates ==
    LET named == {id \in {e.from : e \in Edges} \union {e.to : e \in Edges} :
                    IsArn(id) /\ Short[id] = Short[acct.input]}
    IN  IF IsArn(acct.input) \/ Cardinality(named) <= 1 THEN {} ELSE named

\* risk.go
AssessRisk ==
    LET direct == Cardinality({r \in snap.usedBy.rows : r.hop = 1})
    IN  IF direct = 0 THEN "low" ELSE IF direct <= 2 THEN "medium" ELSE "high"

Render ==
    /\ pc = "report" /\ pc' = "done"
    /\ found' = {<<"risk", AssessRisk>>} \union {<<"may be", id>> : id \in AmbiguousCandidates}
    /\ UNCHANGED <<acct, snap, errs>>

Init ==
    \E a \in Accounts :
      Start({a}, [used |-> None, uses |-> Begin(a.input), usedBy |-> Begin(a.input)], "fetch")

Next == Fetch \/ walkForward \/ walkReverse \/ Render

-------------------------------------------------------------------------------
(* The walk from its definition: the names at most n hops from the input. *)

Reach(side, other, n) ==
    LET Out(c) == {Short[e[other]] : e \in {x \in Edges : Short[x[side]] = c}}
        R[k \in 0..n] == IF k = 0 THEN {Short[acct.input]}
                         ELSE R[k - 1] \union UNION {Out(c) : c \in R[k - 1]}
    IN  R[n]

\* A side of the answer shows what is at most Depth hops away, each reference
\* as near as it is.
Exact(rows, side, other) ==
    LET Near(e, n) == Short[e[side]] \in Reach(side, other, n)
    IN  /\ \A r \in rows :
             /\ \E e \in Edges : e[other] = r.id /\ e.via = r.via /\ Near(e, r.hop - 1)
             /\ ~acct.all /\ r.hop > 1 =>
                  \A e \in Edges : e[other] = r.id /\ e.via = r.via => ~Near(e, r.hop - 2)
        /\ \A e \in Edges : Near(e, Depth - 1) /\ Short[e[other]] # Short[acct.input] =>
             \E r \in rows : r.id = e[other] /\ r.via = e.via

\* The answer is from a sweep of the scope that was asked for, no older than
\* --cache-ttl, and flagged as partial if that sweep was; its two sides are
\* those of the definition; and the risk is low only if nothing else is found
\* to name the resource.
Sound ==
    /\ snap.used # None => /\ snap.used.of.policies = acct.scope.policies /\ snap.used.of.scan = acct.scope.scan
                           /\ snap.used.of.account = acct.scope.account
                           /\ snap.used.age > 0 => ~acct.refresh /\ snap.used.age <= TTL
                           /\ snap.used.errs = errs
    /\ Done => /\ Exact(snap.uses.rows, "from", "to")
               /\ Exact(snap.usedBy.rows, "to", "from")
               /\ <<"risk", "low">> \in found =>
                    \A e \in Edges : e.to = acct.input => Short[e.from] = Short[acct.input]

\* "Pass a full ARN to disambiguate": what is found next to a full ARN is next
\* to that resource, not to another of the same name.
FullArnIsOne ==
    Done /\ IsArn(acct.input) =>
      \A r \in snap.uses.rows : r.hop = 1 =>
        \E e \in Edges : e.from \in {acct.input, Short[acct.input]} /\ e.to = r.id
===============================================================================
