------------------------------ MODULE SecurityAudit ------------------------------
(***************************************************************************)
(* The security audit of a region: collectSecurityRegion and               *)
(* AnalyzeSecurity.  A policy, a rule or an attribute is reduced to what   *)
(* its check asks of it.  The checks look at one row each; what can go     *)
(* wrong is what a row says when one of several calls about it failed.     *)
(***************************************************************************)
EXTENDS Collect, Integers

CONSTANTS
    Accounts,
    None,       \* could not be determined: a nil pointer
    Home,       \* the region that also sweeps the buckets
    MaxChecks   \* the cap of the sweeps that make a call for each resource

\* A security group reduced to its rules open to the world.
worldOpen(g) == [g EXCEPT !.rules = {r \in @ : r.world}]

\* The whole region, read without a failure.
Full ==
    [vols |-> acct.vols, default |-> acct.default, shared |-> acct.shared, insts |-> acct.insts,
     groups |-> {worldOpen(g) : g \in acct.groups}, dbs |-> acct.dbs,
     public |-> {s.id : s \in {t \in acct.dbsnaps : t.public}},
     functions |-> acct.functions, queues |-> acct.queues, topics |-> acct.topics,
     alarms |-> {a \in acct.alarms : a.nodata}, buckets |-> acct.buckets]

Init ==
    Start(Accounts, [vols |-> {}, default |-> None, shared |-> {}, insts |-> {}, groups |-> {},
                     dbs |-> {}, public |-> {}, functions |-> {}, queues |-> {}, topics |-> {},
                     alarms |-> {}, buckets |-> {}], "ec2")

collectEC2Security ==
    /\ Step("ec2", "rds")
    /\ \E vol \in Listing(acct.vols), def \in BOOLEAN, es \in Listing(acct.shared),
          inst \in Listing(acct.insts), sg \in Listing(acct.groups) :
         /\ snap' = [snap EXCEPT
              !.vols = vol.rows, !.default = IF def THEN acct.default ELSE None,
              !.shared = es.rows, !.insts = inst.rows, !.groups = {worldOpen(g) : g \in sg.rows}]
         /\ Record("ec2", {vol.ok, def, es.ok, inst.ok, sg.ok})

\* A call for each row of a capped sweep, until one fails.  A sweep whose
\* listing fails is not begun; the cap is recorded as an error.
Sweep(rows, service, field) ==
    \E list \in Listing(rows) :
      \E some \in Capped(list.rows, MaxChecks) :
        \E asked \in SUBSET some :
          /\ ~list.ok => asked = {}
          /\ snap' = [snap EXCEPT ![field] = asked]
          /\ Record(service, {list.ok, ~list.ok \/ asked = some,
                              ~list.ok \/ Cardinality(list.rows) < MaxChecks})

\* Unlike the other sweeps this one goes on with the pages it got.
collectRDSSecurity ==
    /\ Step("rds", "lambda")
    /\ \E db \in Listing(acct.dbs), list \in Listing(acct.dbsnaps) :
         \E some \in Capped(list.rows, MaxChecks) :
           \E asked \in SUBSET some :
             /\ snap' = [snap EXCEPT !.dbs = db.rows,
                           !.public = {s.id : s \in {t \in asked : t.public}}]
             /\ Record("rds", {db.ok, list.ok, asked = some, Cardinality(list.rows) < MaxChecks})

\* The function whose call failed is kept, as one without a URL.
collectLambdaSecurity ==
    /\ Step("lambda", "sqs")
    /\ Sweep(acct.functions, "lambda", "functions")

collectSQSSecurity ==
    /\ Step("sqs", "sns")
    /\ Sweep(acct.queues, "sqs", "queues")

collectSNSSecurity ==
    /\ Step("sns", "alarms")
    /\ Sweep(acct.topics, "sns", "topics")

collectAlarmSecurity ==
    /\ Step("alarms", "s3")
    /\ \E list \in Listing({a \in acct.alarms : a.nodata}) :
         /\ snap' = [snap EXCEPT !.alarms = list.rows]
         /\ Record("cloudwatch", {list.ok})

\* Mutant: a posture call that fails counts as "no such configuration".
posture_FailedIsNo(b, located, failed) ==
    [b EXCEPT !.public = IF failed \/ (~located /\ b.region # Home) THEN FALSE ELSE @,
              !.blocked = IF failed \/ (~located /\ b.region # Home) THEN FALSE ELSE @,
              !.encrypted = IF failed \/ (~located /\ b.region # Home) THEN FALSE ELSE @]

\* The three posture calls go to the bucket's region, or to the home region
\* when it is not known, where they fail for the buckets of other regions.
\* "No such configuration" is an answer; any other failure is left unknown
\* and is not recorded.
posture(b, located, failed) ==
    [b EXCEPT !.public = IF failed \/ (~located /\ b.region # Home) THEN None ELSE @,
              !.blocked = IF failed \/ (~located /\ b.region # Home) THEN None ELSE @,
              !.encrypted = IF failed \/ (~located /\ b.region # Home) THEN None ELSE @]

\* Buckets are listed by one call, and only more than the cap are cut.
collectS3Security ==
    /\ Step("s3", "analyze")
    /\ \E list \in Call(acct.buckets) :
         \E some \in (IF Cardinality(list.rows) > MaxChecks
                      THEN Capped(list.rows, MaxChecks) ELSE {list.rows}) :
           \E lost \in SUBSET some, failed \in SUBSET some :
             /\ snap' = [snap EXCEPT !.buckets = {posture(b, b \notin lost, b \in failed) : b \in some}]
             /\ Record("s3", {list.ok, some = list.rows, lost = {}})

-------------------------------------------------------------------------------
checkBuckets(s) ==
    {<<"public", b.id>> : b \in {c \in s.buckets : c.public = TRUE}}
      \union {<<"block off", b.id>> : b \in {c \in s.buckets : c.blocked = FALSE}}
      \union {<<"bucket unencrypted", b.id>> : b \in {c \in s.buckets : c.encrypted = FALSE}}

checkSecVolumes(s) ==
    {<<"volume unencrypted", v.id>> : v \in {w \in s.vols : ~w.encrypted}}
      \union (IF s.default = FALSE THEN {<<"default off", "account">>} ELSE {})

checkPublicSnapshots(s) ==
    {<<"public snapshot", i>> : i \in s.shared} \union {<<"public db snapshot", i>> : i \in s.public}

checkInstancesIMDS(s) ==
    {<<"imdsv1", i.id>> : i \in {j \in s.insts : ~j.terminated /\ j.endpoint /\ ~j.tokens}}

\* The sensitive ports a rule opens: all of them without a port range.
openSensitivePorts(r) ==
    IF r.proto = "udp" THEN {}
    ELSE {p \in {22, 3389} : \/ r.proto = "-1" \/ (r.from < 0 /\ r.to < 0)
                             \/ (r.from <= p /\ p <= r.to)}

\* A policy is the set of its statements.
PolicyAllowsEveryone(policy) == \E st \in policy : st.allow /\ ~st.condition /\ st.everyone

\* Once for a group and a port, whatever rules open it.
checkSecGroups(s) == {<<"open", <<g.id, p>>>> : <<g, p>> \in
    {x \in s.groups \X {22, 3389} : \E r \in x[1].rules : x[2] \in openSensitivePorts(r)}}

checkDBInstances(s) ==
    {<<"db public", d.id>> : d \in {e \in s.dbs : e.public}}
      \union {<<"db unencrypted", d.id>> : d \in {e \in s.dbs : ~e.encrypted}}

checkLambdaURLs(s) == {<<"url", f.id>> : f \in {g \in s.functions : g.noauth}}

checkQueuePolicies(s) == {<<"queue policy", q.id>> : q \in {r \in s.queues : PolicyAllowsEveryone(r.policy)}}

checkTopicPolicies(s) == {<<"topic policy", t.id>> : t \in {u \in s.topics : PolicyAllowsEveryone(u.policy)}}

checkAlarms(s) == {<<"alarm", a.id>> : a \in {b \in s.alarms : b.old}}

AnalyzeSecurity(s) ==
    checkBuckets(s) \union checkSecVolumes(s) \union checkPublicSnapshots(s)
      \union checkInstancesIMDS(s) \union checkSecGroups(s) \union checkDBInstances(s)
      \union checkLambdaURLs(s) \union checkQueuePolicies(s) \union checkTopicPolicies(s)
      \union checkAlarms(s)

Analyze == Report(AnalyzeSecurity(snap))

Next ==
    \/ collectEC2Security \/ collectRDSSecurity \/ collectLambdaSecurity \/ collectSQSSecurity
    \/ collectSNSSecurity \/ collectAlarmSecurity \/ collectS3Security
    \/ Analyze

-------------------------------------------------------------------------------
\* What is reported is true of the whole account, whatever could not be read.
Sound == found \subseteq AnalyzeSecurity(Full)

\* Except where a bucket's posture could not be read, which nothing records.
Accounted ==
    Done /\ errs = {} /\ (\A b \in snap.buckets : None \notin {b.public, b.blocked, b.encrypted})
      => found = AnalyzeSecurity(Full)
==================================================================================
