------------------------------ MODULE XrefCollect ------------------------------
(***************************************************************************)
(* The sweep behind "related": CollectWithStats reads the references       *)
(* between resources, service by service, and CheckedTypesFor says which   *)
(* kinds of them an answer covers.  A service's collector is the sequence  *)
(* of the families it lists.  An edge is <<service, family, row, call>>:   *)
(* call 0 is what the listing itself tells of the row, 1 and up are the    *)
(* further calls, listings included, that each row takes.                  *)
(***************************************************************************)
EXTENDS Collect

CONSTANTS Accounts

(***************************************************************************)
(* A family: whether the listing tells edges; how many further calls a row *)
(* takes; which of these are listings themselves, whose pages are kept if  *)
(* a later one fails; whether the others need the first; the rows that are *)
(* known without a listing; and what becomes of the collector when the     *)
(* listing fails: it keeps the rows it has, or loses all.                  *)
(***************************************************************************)
Listed == [own |-> TRUE, calls |-> 0, paged |-> {}, gate |-> FALSE, known |-> {}, loses |-> FALSE]
Described == [Listed EXCEPT !.own = FALSE, !.calls = 1]
ListedAnd(n) == [Listed EXCEPT !.calls = n]
Asked(n) == [Described EXCEPT !.calls = n]
Nested(f) == [f EXCEPT !.gate = TRUE]
Paged(f, calls) == [f EXCEPT !.paged = calls]

lambdaFunctionEdges == Listed
listEventSourceEdges == Listed
lambdaEdges == <<lambdaFunctionEdges, listEventSourceEdges>>
\* Instances (call 1: the roles of its profile, see ec2InstanceEdges),
\* addresses, volumes, network interfaces.
eipEdges == Listed
ebsVolumeEdges == Listed
ec2Edges == <<Listed, eipEdges, ebsVolumeEdges, Listed>>
\* Instances; clusters.
rdsEdges == <<Listed, Listed>>
secretsEdges == <<Listed>>
sqsEdges == <<Described>>
ecsTaskDefEdges == Described
ecsEdges == <<ecsTaskDefEdges>>
\* The cluster, then its node groups.
eksClusterEdges == Paged(Nested(Asked(2)), {2})
eksEdges == <<eksClusterEdges>>
\* Load balancers with their listeners; target groups with their targets.
elbLoadBalancerEdges == Paged(ListedAnd(1), {1})
elbTargetGroupEdges == ListedAnd(1)
elbv2Edges == <<elbLoadBalancerEdges, elbTargetGroupEdges>>
\* The mount targets, then their security groups.
efsEdges == <<Paged(Nested(ListedAnd(2)), {1, 2})>>
\* Subscriptions; topics.
snsEdges == <<Listed, Described>>
\* Buses, row 1 the default one: their rules, then the rules' targets.
eventBridgeEdges == <<[Paged(Nested(Asked(2)), {1, 2}) EXCEPT !.known = {1}]>>
sfnEdges == <<Described>>
\* The stream, then its consumers.
kinesisEdges == <<Paged(Nested(Asked(2)), {2})>>
\* HTTP APIs with integrations and authorizers; VPC links; REST APIs.
apiGatewayV2Edges == <<Paged(Asked(2), {1, 2}), Listed>>
apiGatewayV1Edges == <<Paged(Described, {1})>>
apiGatewayEdges == apiGatewayV2Edges \o apiGatewayV1Edges
vpcEndpointsEdges == <<Listed>>
\* Aliases; keys with their policy and grants.
kmsEdges == <<Listed, Paged(Asked(2), {2})>>
dynamodbEdges == <<Described>>
\* Clusters; replication groups.
elastiCacheEdges == <<Listed, Listed>>
redshiftEdges == <<Listed>>
cloudWatchAlarmEdges == <<Listed>>
\* Log groups with their subscription filters.
cwLogsEdges == <<ListedAnd(1)>>
\* Instance profiles, that only name roles; roles with their trust policies
\* and, if the query may land on a role, attached and inline policies.
rolePolicyEdges == Paged(ListedAnd(2), {1, 2})
collectIAM(includePolicies) ==
    <<[Listed EXCEPT !.own = FALSE], IF includePolicies THEN rolePolicyEdges ELSE Listed>>
\* Notifications, replication, logging, encryption.
s3BucketEdges == Asked(4)
collectS3 == <<[s3BucketEdges EXCEPT !.loses = TRUE]>>
\* Distributions; zones with their records.
cloudFrontEdges == Listed
route53Edges == Paged(Described, {1})
collectGlobalNetworking == <<cloudFrontEdges, route53Edges>>

Regional ==
    [lambda |-> lambdaEdges, ec2 |-> ec2Edges, rds |-> rdsEdges, secretsmanager |-> secretsEdges,
     sqs |-> sqsEdges, ecs |-> ecsEdges, eks |-> eksEdges, elbv2 |-> elbv2Edges, efs |-> efsEdges,
     sns |-> snsEdges, events |-> eventBridgeEdges, states |-> sfnEdges, kinesis |-> kinesisEdges,
     apigateway |-> apiGatewayEdges, ec2endpoints |-> vpcEndpointsEdges, kms |-> kmsEdges,
     dynamodb |-> dynamodbEdges, elasticache |-> elastiCacheEdges, redshift |-> redshiftEdges,
     cloudwatch |-> cloudWatchAlarmEdges, logs |-> cwLogsEdges]

validServices == DOMAIN Regional \union {"iam", "s3", "networking"}

Families(service) ==
    CASE service = "iam" -> collectIAM(acct.policies)
      [] service = "s3" -> collectS3
      [] service = "networking" -> collectGlobalNetworking
      [] OTHER -> Regional[service]

-------------------------------------------------------------------------------
(* ParseScan: the services a --scan names, by profile, by list or by what is *)
(* left out. *)

scanProfiles ==
    [fast |-> {"iam", "lambda", "ec2", "s3", "rds", "kms", "sqs", "sns"},
     security |-> {"iam", "kms", "ec2", "secretsmanager", "lambda", "ecs", "rds"},
     eventing |-> {"s3", "events", "sns", "sqs", "lambda", "states", "kinesis"},
     network |-> {"ec2", "elbv2", "apigateway", "networking", "ec2endpoints"}]

resolveServiceTokens(tokens) ==
    (tokens \ {"observability"})
      \union (IF "observability" \in tokens THEN {"cloudwatch", "logs"} ELSE {})

\* An empty list is everything, an empty exclusion an error.
ParseScan(scan) ==
    LET named == resolveServiceTokens(scan.tokens)
    IN  IF scan.exclude THEN validServices \ named
        ELSE IF scan.tokens = {} \/ scan.tokens = {"full"} THEN validServices
        ELSE IF \E p \in DOMAIN scanProfiles : scan.tokens = {p}
             THEN scanProfiles[CHOOSE p \in DOMAIN scanProfiles : scan.tokens = {p}]
        ELSE named

-------------------------------------------------------------------------------
(* What there is: acct.rows, by service and family, each row with the calls *)
(* that would tell an edge; acct.attached, the instances with a profile. *)

Wanted == ParseScan(acct.scan)

RowEdges(service, i, r, told) == {<<service, i, r.id, k>> : k \in told}

TrueEdges(service) ==
    UNION {RowEdges(service, i, r, r.tells) :
             <<i, r>> \in UNION {{i} \X acct.rows[service][i] : i \in DOMAIN acct.rows[service]}}

\* What the calls of a row come to: those that went well, and those that told
\* something, which a listing that failed may have done.
Answers(f) ==
    {a \in [good : SUBSET (1..f.calls), told : SUBSET (1..f.calls)] :
       /\ a.good \subseteq a.told /\ a.told \subseteq a.good \union f.paged
       /\ f.gate => /\ 1 \notin a.told => a.told = {}
                    /\ 1 \notin a.good => a.good = {}}

\* The outcomes of a family: [edges, read, ok].
Outcomes(service, i) ==
    LET f == Families(service)[i]
        rows == acct.rows[service][i]
        Told(r, calls) == RowEdges(service, i, r, r.tells \intersect (calls \union IF f.own THEN {0} ELSE {}))
        Kept(list) == IF ~list.ok /\ f.loses THEN {}
                      ELSE list.rows \union {r \in rows : r.id \in f.known}
    IN  UNION {{[edges |-> UNION {Told(r, a[r].told) : r \in Kept(list)}, read |-> Kept(list),
                 ok |-> list.ok /\ \A r \in Kept(list) : a[r].good = 1..f.calls] :
                  a \in [Kept(list) -> Answers(f)]} : list \in Listing(rows)}

\* A collector runs through its families, whatever fails.
Collector(service) ==
    LET rows == acct.rows[service]
        Each == {o \in [DOMAIN rows -> UNION {Outcomes(service, i) : i \in DOMAIN rows}] :
                   \A i \in DOMAIN rows : o[i] \in Outcomes(service, i)}
    IN  {[edges |-> UNION {o[i].edges : i \in DOMAIN rows}, ok |-> \A i \in DOMAIN rows : o[i].ok,
          first |-> IF 1 \in DOMAIN rows THEN o[1].read ELSE {}] : o \in Each}

-------------------------------------------------------------------------------
(* CollectWithStats. *)

Global == {"iam", "s3", "networking"}

Init ==
    \E a \in Accounts :
      Start({a}, [edges |-> {}, profiles |-> {}, left |-> DOMAIN a.rows \intersect ParseScan(a.scan)], "iam")

\* Mutant: what failed is not recorded.
Take_Silent(service, edges, o) ==
    /\ snap' = [snap EXCEPT !.edges = @ \union edges, !.left = @ \ {service},
                            !.profiles = IF service = "iam" THEN {r.id : r \in o.first} ELSE @]
    /\ UNCHANGED errs

\* The edges of a collector, the profiles of IAM, and its errors.
Take(service, edges, o) ==
    /\ snap' = [snap EXCEPT !.edges = @ \union edges, !.left = @ \ {service},
                            !.profiles = IF service = "iam" THEN {r.id : r \in o.first} ELSE @]
    /\ Record(service, {o.ok})

\* The services that are not regional: IAM first, S3 and the global networking
\* last.
CollectGlobal(service, to) ==
    /\ Step(service, to)
    /\ IF service \in snap.left THEN \E o \in Collector(service) : Take(service, o.edges, o)
       ELSE UNCHANGED <<snap, errs>>

\* The roles of the instances whose profile was read.
ec2InstanceEdges(instances) ==
    {<<"ec2", 1, r.id, 1>> : r \in {q \in instances : 1 \in q.tells /\ q.profile \in snap.profiles}}

\* collectRegion: the collectors run at once and end in any order.
CollectRegion ==
    /\ Step("regions", "regions")
    /\ \E service \in snap.left \ Global : \E o \in Collector(service) :
         Take(service, o.edges \union IF service = "ec2" THEN ec2InstanceEdges(o.first) ELSE {}, o)

RegionsDone == Step("regions", "s3") /\ snap.left \subseteq Global /\ UNCHANGED <<snap, errs>>

\* What the answer says it has searched for: per kind of target, the edges that
\* can name one.
checkedTypesByKind ==
    [role |-> {<<"lambda", 1, 0>>, <<"ec2", 1, 1>>, <<"ecs", 1, 1>>, <<"eks", 1, 1>>, <<"eks", 1, 2>>,
               <<"iam", 2, 0>>, <<"s3", 1, 2>>, <<"states", 1, 1>>, <<"kms", 2, 1>>, <<"kms", 2, 2>>,
               <<"rds", 1, 0>>, <<"rds", 2, 0>>, <<"redshift", 1, 0>>},
     key |-> {<<"ec2", 3, 0>>, <<"rds", 1, 0>>, <<"secretsmanager", 1, 0>>, <<"sqs", 1, 1>>,
              <<"lambda", 1, 0>>, <<"s3", 1, 4>>, <<"efs", 1, 0>>, <<"sns", 2, 1>>, <<"kinesis", 1, 1>>,
              <<"kms", 1, 0>>, <<"dynamodb", 1, 1>>, <<"elasticache", 2, 0>>, <<"redshift", 1, 0>>,
              <<"logs", 1, 0>>},
     certificate |-> {<<"elbv2", 1, 1>>, <<"networking", 1, 0>>},
     group |-> {<<"ec2", 4, 0>>, <<"efs", 1, 2>>, <<"lambda", 1, 0>>, <<"eks", 1, 1>>, <<"elbv2", 1, 0>>,
                <<"apigateway", 2, 0>>, <<"ec2endpoints", 1, 0>>, <<"rds", 1, 0>>, <<"elasticache", 1, 0>>,
                <<"redshift", 1, 0>>}]

\* Mutant: the scope of a narrowed scan is that of a full one.
CheckedTypesFor_Full(kind, services) == checkedTypesByKind[kind]

CheckedTypesFor(kind, services) == {t \in checkedTypesByKind[kind] : t[1] \in services}

Next ==
    \/ CollectGlobal("iam", "regions")
    \/ CollectRegion \/ RegionsDone
    \/ CollectGlobal("s3", "networking") \/ CollectGlobal("networking", "done")

-------------------------------------------------------------------------------
\* Whatever fails, an edge that was gathered is one the account has.
Sound == \A e \in snap.edges : e \in TrueEdges(e[1])

\* "never claim a type was checked when its service was skipped": a sweep
\* without an error has every edge of the types it says it searched for.  The
\* exception is "EC2 instance profiles", whose roles are known to the IAM part
\* alone: a --scan with ec2 and without iam claims them all the same.
Accounted ==
    Done /\ errs = {} =>
      \A kind \in DOMAIN checkedTypesByKind : \A t \in CheckedTypesFor(kind, Wanted) :
        \/ t[1] = "ec2" /\ t[3] = 1 /\ "iam" \notin Wanted
        \/ t[1] \notin DOMAIN acct.rows
        \/ {e \in TrueEdges(t[1]) : e[2] = t[2] /\ e[4] = t[3]} \subseteq snap.edges
===============================================================================
