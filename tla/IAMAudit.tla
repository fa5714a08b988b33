-------------------------------- MODULE IAMAudit --------------------------------
(***************************************************************************)
(* The audits of the account itself: its users, roles and policies         *)
(* (collectIAMAccount, AnalyzeIAM) and its trails                          *)
(* (collectCloudTrailAccount, AnalyzeCloudTrail).  The credential report is generated while it is polled.     *)
(* An age is old (over 90 days), new, or None when it is unknown; a user's *)
(* keys are a set of [active, rotated, used].                              *)
(***************************************************************************)
EXTENDS Collect

CONSTANTS Accounts, None, MaxPolls, MaxChecks

Full ==
    [users |-> acct.users, roles |-> {[role |-> r, known |-> ~r.service] : r \in acct.roles},
     policies |-> {[policy |-> p, admin |-> p.admin, users |-> p.users] : p \in acct.policies}]

Init == Start(Accounts, [users |-> {}, roles |-> {}, policies |-> {}], "report")

\* Mutant: an unfinished report is given up without a word.
collectCredentialReport_Silent ==
    /\ Step("report", "roles")
    /\ \E polls \in 1..MaxPolls + 1, started, fetched \in BOOLEAN :
         /\ ~started \/ polls > MaxPolls => fetched
         /\ snap' = [snap EXCEPT !.users =
              IF started /\ polls <= MaxPolls /\ fetched THEN acct.users ELSE {}]
         /\ Record("iam", {started, fetched})

\* The report is polled for until it is complete, at most MaxPolls times, and
\* then fetched.
collectCredentialReport ==
    /\ Step("report", "roles")
    /\ \E polls \in 1..MaxPolls + 1, started, fetched \in BOOLEAN :
         /\ ~started \/ polls > MaxPolls => fetched
         /\ snap' = [snap EXCEPT !.users =
              IF started /\ polls <= MaxPolls /\ fetched THEN acct.users ELSE {}]
         /\ Record("iam", {started, polls <= MaxPolls, fetched})

\* A capped sweep whose calls for some of the rows run beside each other; when
\* its listing fails nothing is kept.
Fanned(rows, asked) ==
    UNION {{[some |-> S, failed |-> F,
             oks |-> {list.ok, F = {}, ~list.ok \/ Cardinality(list.rows) < MaxChecks}] :
              list \in {l \in Listing(rows) : S \in (IF l.ok THEN Capped(l.rows, MaxChecks) ELSE {{}})},
              F \in SUBSET (S \intersect asked)} : S \in SUBSET rows}

\* The use of a service-linked role is not asked for.
collectRolesIAM ==
    /\ Step("roles", "policies")
    /\ \E got \in Fanned(acct.roles, {r \in acct.roles : ~r.service}) :
         /\ snap' = [snap EXCEPT !.roles =
              {[role |-> r, known |-> ~r.service /\ r \notin got.failed] : r \in got.some}]
         /\ Record("iam", got.oks)

\* The document and the users are read for themselves: either may be missing,
\* or a part of the users.
collectPoliciesIAM ==
    /\ Step("policies", "analyze")
    /\ \E pages \in SUBSET UNION {p.users : p \in acct.policies}, doc \in BOOLEAN :
       \E got \in Fanned(acct.policies, acct.policies) :
         /\ snap' = [snap EXCEPT !.policies =
              {[policy |-> p, admin |-> p.admin /\ (p \notin got.failed \/ doc),
                users |-> IF p \in got.failed THEN p.users \intersect pages ELSE p.users] : p \in got.some}]
         /\ Record("iam", got.oks)

-------------------------------------------------------------------------------
checkUser(u) ==
    IF u.root THEN {<<"root key", u.id>> : k \in {l \in u.keys : l.active}}
    ELSE (IF u.password /\ ~u.mfa THEN {<<"no mfa", u.id>>} ELSE {})
           \union {IF k.used = "old" \/ (k.used = None /\ k.rotated = "old")
                   THEN <<"unused key", u.id>> ELSE <<"old key", u.id>>
                   : k \in {l \in u.keys : l.active /\ "old" \in {l.used, l.rotated}}}

\* An unknown creation date does not excuse a role from its use.
checkRole(x) ==
    (IF x.role.open THEN {<<"open trust", x.role.id>>} ELSE {})
      \union (IF ~x.role.service /\ x.known /\ x.role.created # "new" /\ x.role.used # "new"
              THEN {<<"unused role", x.role.id>>} ELSE {})

checkPolicy(x) ==
    (IF x.admin THEN {<<"full admin", x.policy.id>>} ELSE {})
      \union (IF x.users # {} THEN {<<"attached to users", x.policy.id>>} ELSE {})

AnalyzeIAM(s) ==
    UNION ({checkUser(u) : u \in s.users} \union {checkRole(x) : x \in s.roles}
             \union {checkPolicy(x) : x \in s.policies})

Analyze == Report(AnalyzeIAM(snap))

Next ==
    \/ collectCredentialReport \/ collectRolesIAM \/ collectPoliciesIAM
    \/ Analyze

-------------------------------------------------------------------------------
\* What is reported is true of the whole account, whichever of the credential
\* report, the roles and the policies could not be read.
Sound == found \subseteq AnalyzeIAM(Full)

\* A scan that recorded no error reports what the whole account would.
Accounted == Done /\ errs = {} => found = AnalyzeIAM(Full)

-------------------------------------------------------------------------------
(* The trails. *)

\* A trail records all management events by a classic or an advanced selector.
selectorsLogAllManagement(t) ==
    \/ \E s \in t.classic : s.management /\ s.all
    \/ \E s \in t.advanced : s.management /\ ~s.restricted

TrailFull ==
    [known |-> TRUE,
     trails |-> {[trail |-> t, status |-> TRUE, logging |-> t.logging, selectors |-> TRUE,
                  management |-> selectorsLogAllManagement(t)] : t \in acct}]

TrailInit == Start(Accounts, [known |-> FALSE, trails |-> {}], "trails")

\* One call, which lists a trail once in any region; two calls about each.
collectTrails ==
    /\ Step("trails", "analyze")
    /\ \E list \in Call(acct) :
         \E lost \in SUBSET list.rows, failed \in SUBSET list.rows :
           /\ snap' = [known |-> list.ok,
                       trails |-> {[trail |-> t, status |-> t \notin lost,
                                    logging |-> t \notin lost /\ t.logging,
                                    selectors |-> t \notin failed,
                                    management |-> t \notin failed /\ selectorsLogAllManagement(t)]
                                   : t \in list.rows}]
           /\ Record("cloudtrail", {list.ok, lost = {}, failed = {}})

-------------------------------------------------------------------------------
checkTrailCoverage(s) ==
    IF s.known /\ \A x \in s.trails : ~(x.trail.multi /\ x.status /\ x.logging /\ x.trail.global)
    THEN {<<"not logging", "-">>} ELSE {}

\* Mutant: selectors that could not be read count as partial.
checkTrailHygiene_Unread(s) ==
    UNION {(IF x.trail.validated THEN {} ELSE {<<"no validation", x.trail.id>>})
             \union (IF x.trail.kms THEN {} ELSE {<<"no key", x.trail.id>>})
             \union (IF x.trail.logs THEN {} ELSE {<<"no logs", x.trail.id>>})
             \union (IF ~x.management THEN {<<"partial", x.trail.id>>} ELSE {})
           : x \in s.trails}

checkTrailHygiene(s) ==
    UNION {(IF x.trail.validated THEN {} ELSE {<<"no validation", x.trail.id>>})
             \union (IF x.trail.kms THEN {} ELSE {<<"no key", x.trail.id>>})
             \union (IF x.trail.logs THEN {} ELSE {<<"no logs", x.trail.id>>})
             \union (IF x.selectors /\ ~x.management THEN {<<"partial", x.trail.id>>} ELSE {})
           : x \in s.trails}

AnalyzeCloudTrail(s) == checkTrailCoverage(s) \union checkTrailHygiene(s)

TrailAnalyze == Report(AnalyzeCloudTrail(snap))

TrailNext == collectTrails \/ TrailAnalyze

-------------------------------------------------------------------------------
\* As Sound, except that the account is said to record nothing when the status of the
\* trail that does could not be read.
TrailSound ==
    found \subseteq AnalyzeCloudTrail(TrailFull)
        \union (IF \E x \in snap.trails : ~x.status THEN {<<"not logging", "-">>} ELSE {})

\* As Sound, without the exception.
TrailUnderWarns == found \subseteq AnalyzeCloudTrail(TrailFull)

\* A scan that recorded no error reports what the whole account would.
TrailAccounted == Done /\ errs = {} => found = AnalyzeCloudTrail(TrailFull)
==================================================================================
