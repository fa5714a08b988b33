------------------------------- MODULE Collectors -------------------------------
(***************************************************************************)
(* The service collectors of a scan (internal/services).  A collector is   *)
(* the sequence of the families of resources it lists; the families differ *)
(* in what a failed call costs, and all of them are run by the same steps. *)
(* What a resource's fields are is left out: it is its family and its row. *)
(***************************************************************************)
EXTENDS Collect

CONSTANTS Accounts,   \* per service: what its families have
          None

(***************************************************************************)
(* A family: what further calls each row takes and what their failure      *)
(* costs ("none"; "bare": the row is kept without their data, in silence;  *)
(* "drop": the row is dropped and the failure recorded; "late": bare, but  *)
(* asked after the listing and only if that went well); whether rows have  *)
(* resources of their own under them, whose failed listing is "silent" or  *)
(* "recorded"; whether the family is held until its listing has ended,     *)
(* and whether it may be emitted; whether a failed page ends the           *)
(* collection, and whether it forgets the errors recorded before; which    *)
(* rows are no resources.                                                  *)
(***************************************************************************)
Listed == [each |-> "none", kin |-> "none", held |-> FALSE, emits |-> TRUE, stop |-> TRUE,
           forgets |-> FALSE, omits |-> {}]
Independent == [Listed EXCEPT !.stop = FALSE]
Held == [Independent EXCEPT !.held = TRUE]
Described == [Independent EXCEPT !.each = "drop"]
Tagged == [Listed EXCEPT !.each = "bare"]

acm(level) == <<Listed>>
athena(level) == <<Listed>>
cloudformation(level) == <<Listed>>
cloudfront(level) == <<Listed>>
cloudwatch(level) == <<Listed>>
ecr(level) == <<Listed>>
efs(level) == <<Listed>>
elasticache(level) == <<Listed>>
kinesis(level) == <<Listed>>
redshift(level) == <<Listed>>
route53(level) == <<Listed>>
secretsmanager(level) == <<Listed>>
sns(level) == <<Listed>>
sqs(level) == <<Listed>>
stepfunctions(level) == <<Listed>>

\* Instances, VPCs, subnets, security groups, volumes, network interfaces.
ec2(level) == [i \in 1..6 |-> Independent]
\* Roles, users, groups, policies, instance profiles.
iam(level) == [i \in 1..5 |-> Independent]
\* Instances, clusters.
rds(level) == <<Independent, Independent>>
\* REST APIs, HTTP and WebSocket APIs.
apigateway(level) == <<Held, Held>>
\* Databases, jobs with their latest runs, crawlers, triggers, workflows,
\* connections.
glue(level) == [i \in 1..6 |-> IF i = 2 THEN [Held EXCEPT !.each = "bare"] ELSE Held]

dynamodb(level) == <<Described>>
eks(level) == <<Described>>
\* The aliases only name keys; AWS's own keys are no resources.
kms(level) == <<[Independent EXCEPT !.omits = {"usual", "other"}],
                [Described EXCEPT !.omits = {"other"}]>>

elbv2(level) == <<Tagged>>
lambda(level) == <<Tagged>>

\* The clusters that DescribeClusters reports as failures are recorded, but a
\* later failure returns without them.
ecs(level) == <<[Described EXCEPT !.stop = TRUE, !.forgets = TRUE]>>

\* Each page's clusters are described, and at the detailed level the steps of
\* those that have not terminated are listed.
emr(level) ==
    <<[Listed EXCEPT !.each = IF level = "minimal" THEN "none" ELSE "bare",
                     !.kin = IF level = "detailed" THEN "silent" ELSE "none"]>>

\* The rules of a bus are listed after the buses; the default bus itself is no
\* resource.
eventbridge(level) == <<[Held EXCEPT !.kin = "recorded", !.omits = {"other"}]>>

\* At the detailed level nothing is emitted: the buckets' details come last.
s3(level) ==
    IF level = "detailed" THEN <<[Listed EXCEPT !.each = "late", !.held = TRUE, !.emits = FALSE]>>
    ELSE <<Listed>>

Collector(service, level) ==
    [acm |-> acm(level), apigateway |-> apigateway(level), athena |-> athena(level),
     cloudformation |-> cloudformation(level), cloudfront |-> cloudfront(level),
     cloudwatch |-> cloudwatch(level), dynamodb |-> dynamodb(level), ec2 |-> ec2(level),
     ecr |-> ecr(level), ecs |-> ecs(level), efs |-> efs(level), eks |-> eks(level),
     elasticache |-> elasticache(level), elbv2 |-> elbv2(level), emr |-> emr(level),
     eventbridge |-> eventbridge(level), glue |-> glue(level), iam |-> iam(level),
     kinesis |-> kinesis(level), kms |-> kms(level), lambda |-> lambda(level), rds |-> rds(level),
     redshift |-> redshift(level), route53 |-> route53(level), s3 |-> s3(level),
     secretsmanager |-> secretsmanager(level), sns |-> sns(level), sqs |-> sqs(level),
     stepfunctions |-> stepfunctions(level)][service]

-------------------------------------------------------------------------------
Families == Collector(acct.service, acct.level)
Now == Families[snap.at]

Init ==
    \E a \in Accounts :
      Start({a}, [at |-> 1, left |-> a.rows[1], batch |-> {}, bare |-> {}, broken |-> FALSE,
                  got |-> {}, emitted |-> {}, kept |-> {}], "page")

Row(r) == [family |-> snap.at, id |-> r.id, under |-> None, whole |-> r \notin snap.bare]

\* The rows of the batch whose own resources are listed, and those resources.
Asked ==
    IF Now.kin = "none" THEN {}
    ELSE {r \in snap.batch : r.parent /\ (Now.kin = "silent" => r.kind = "usual")}
Below(R) == {[family |-> snap.at, id |-> r.id, under |-> r.id, whole |-> TRUE] : r \in R}

\* A page of the family's rows arrives and some of their further calls fail.
NextPage ==
    /\ pc = "page" /\ UNCHANGED <<acct, found>>
    /\ \E P \in SUBSET snap.left : \E F \in SUBSET P :
         LET rows == IF Now.each = "drop" THEN P \ F ELSE P
             left == snap.left \ P
         IN  /\ P = {} => snap.left = {}
             /\ Now.each \in {"none", "late"} => F = {}
             /\ snap' = [snap EXCEPT
                  !.left = left, !.batch = @ \union rows,
                  !.bare = IF Now.each = "bare" THEN @ \union F ELSE @,
                  !.got = @ \union ({snap.at} \X {r.id : r \in {q \in rows : q.kind \notin Now.omits}})]
             /\ errs' = errs \union (IF Now.each = "drop" /\ F # {} THEN {"row"} ELSE {})
             /\ pc' = IF Now.held /\ left # {} THEN "page" ELSE "deliver"

\* Mutant: a page that fails takes what its family has so far with it.
PageFails_Loses ==
    /\ pc = "page" /\ pc' = "deliver" /\ UNCHANGED <<acct, found>>
    /\ snap' = [snap EXCEPT !.left = {}, !.broken = TRUE, !.batch = {}]
    /\ errs' = (IF Now.forgets THEN {} ELSE errs) \union {"list"}

\* A page fails: the listing ends with what it has.
PageFails ==
    /\ pc = "page" /\ pc' = "deliver" /\ UNCHANGED <<acct, found>>
    /\ snap' = [snap EXCEPT !.left = {}, !.broken = TRUE]
    /\ errs' = (IF Now.forgets THEN {} ELSE errs) \union {"list"}

\* A batch goes to Emit, or is appended to what Collect returns.
EmitOrAppend(s, batch) ==
    IF acct.emit /\ Now.emits THEN [s EXCEPT !.emitted = @ \union batch]
    ELSE [s EXCEPT !.kept = @ \union batch]

\* The page, or the held family, is delivered with what is below its rows, as
\* far as those listings go.  Then comes the next page, the next family, or
\* the end.
Deliver ==
    LET over == snap.left = {}
        last == over /\ (snap.at = Len(Families) \/ (snap.broken /\ Now.stop))
        late == Now.each = "late"
        rows == {r \in snap.batch : r.kind \notin Now.omits}
    IN  /\ pc = "deliver" /\ UNCHANGED <<acct, found>>
        /\ \E failed \in SUBSET Asked, bare \in SUBSET rows :
             /\ bare = IF late /\ snap.broken THEN rows ELSE IF late THEN bare ELSE snap.bare \intersect rows
             /\ \E part \in SUBSET Below(failed) :
                  LET out == {[Row(r) EXCEPT !.whole = r \notin bare] : r \in rows}
                               \union Below(Asked \ failed) \union part
                      s == [EmitOrAppend(snap, out) EXCEPT !.batch = {}, !.bare = {}]
                  IN  snap' = IF over /\ ~last
                              THEN [s EXCEPT !.at = @ + 1, !.left = acct.rows[snap.at + 1], !.broken = FALSE]
                              ELSE s
             /\ errs' = errs \union (IF failed # {} /\ Now.kin = "recorded" THEN {"below"} ELSE {})
        /\ pc' = IF last THEN "done" ELSE "page"

Next == NextPage \/ PageFails \/ Deliver

-------------------------------------------------------------------------------
Delivered == snap.emitted \union snap.kept

\* Whatever fails, each row gathered is delivered, once: emitted if there is
\* an Emit, or else returned.
Sound ==
    /\ ~acct.emit => snap.emitted = {}
    /\ snap.emitted \intersect snap.kept = {}
    /\ Done => {<<d.family, d.id>> : d \in {e \in Delivered : e.under = None}} = snap.got

\* A collection without an error has delivered all there is, except that EMR
\* steps whose listing failed are missing in silence.
Accounted ==
    Done /\ errs = {} =>
      \A i \in DOMAIN Families : \A r \in acct.rows[i] :
        /\ r.kind \notin Families[i].omits => \E d \in Delivered : d.family = i /\ d.id = r.id /\ d.under = None
        /\ Families[i].kin = "recorded" /\ r.parent =>
             \E d \in Delivered : d.family = i /\ d.under = r.id
===============================================================================
