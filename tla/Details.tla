-------------------------------- MODULE Details --------------------------------
(***************************************************************************)
(* The card of one resource, put together from several calls.              *)
(***************************************************************************)
EXTENDS Collect, TLC

CONSTANTS Accounts,      \* the cards that are asked for, and what is set
          None

-------------------------------------------------------------------------------
(***************************************************************************)
(* A fact is what one call says.  A card shows "set" for what is   *)
(* set, and for the rest: "none" (that it is not set), "denied", "unknown",*)
(* or "blank"; "hard" is an error instead of the card.  `told` are the     *)
(* answers that the card's note names.  If the call is paginated, the      *)
(* pages before the one that failed are kept.                              *)
(***************************************************************************)
Fact(no, denied, failed, told) ==
    [no |-> no, denied |-> denied, failed |-> failed, told |-> told, pages |-> FALSE]
Failures == {"denied", "failed", "cut"}
Paged(fact) == [fact EXCEPT !.pages = TRUE]
Hard == Fact("hard", "hard", "hard", {})
HardCall == [Hard EXCEPT !.no = "none"]

\* Mutant: what was denied is not configured.
bucketConfigSentinel_Denied(hasCode) == Fact("none", IF hasCode THEN "none" ELSE "denied", "unknown", {})

\* An absence has a code of its own, or else is an empty answer.
bucketConfigSentinel(hasCode) == Fact("none", "denied", "unknown", {})
\* Where only that code is looked for, denied reads as failed.
codeOrDash == [bucketConfigSentinel(TRUE) EXCEPT !.denied = "unknown"]

\* The settings of a bucket.
GetBucketRegion == Fact("none", "none", "none", {})
GetBucketVersioning == Fact("none", "blank", "blank", Failures)
GetBucketEncryption == Fact("none", "none", "none", Failures)
GetBucketTagging == Fact("none", "none", "none", {"failed"})
GetBucketPolicy == Fact("none", "denied", "unknown", {"failed"})
GetBucketLifecycleConfiguration == Fact("none", "none", "none", {"failed"})
GetPublicAccessBlock == Fact("none", "none", "none", {"failed"})
getBucketACLSummary == Fact("none", "denied", "unknown", {})
getBucketOwnershipControls == codeOrDash
getBucketCORS == Fact("none", "denied", "unknown", {})
getBucketWebsite == bucketConfigSentinel(TRUE)
getBucketLogging == codeOrDash
getBucketNotifications == codeOrDash
getBucketRequestPayment == codeOrDash
getBucketAcceleration == bucketConfigSentinel(FALSE)
getObjectLockConfig == codeOrDash
countMultipartUploads == Paged(Fact("none", "none", "none", {}))
getBucketReplication == bucketConfigSentinel(TRUE)
getIntelligentTiering == bucketConfigSentinel(FALSE)
getBucketPolicyStatus == codeOrDash
FetchBucketDetails ==
    <<[versioning |-> GetBucketVersioning, encryption |-> GetBucketEncryption, tags |-> GetBucketTagging,
       policy |-> GetBucketPolicy, lifecycle |-> GetBucketLifecycleConfiguration,
       publicAccess |-> GetPublicAccessBlock, acl |-> getBucketACLSummary,
       ownership |-> getBucketOwnershipControls, cors |-> getBucketCORS, website |-> getBucketWebsite,
       logging |-> getBucketLogging, notifications |-> getBucketNotifications,
       payer |-> getBucketRequestPayment, acceleration |-> getBucketAcceleration,
       lock |-> getObjectLockConfig, replication |-> getBucketReplication,
       multipart |-> countMultipartUploads, tiering |-> getIntelligentTiering,
       status |-> getBucketPolicyStatus]>>

\* An object: its head, tags, grants, retention and legal hold.
objectTags == Fact("none", "none", "none", Failures)
objectACL == Fact("none", "denied", "unknown", {"failed"})
objectLocks == Fact("none", "none", "none", {})
GetObjectDetails ==
    <<[head |-> Hard, objectTags |-> objectTags, objectACL |-> objectACL, retention |-> objectLocks,
       hold |-> objectLocks]>>

\* What Glue says of one resource, and the graph of a metric: one call.
CrawlerDetail == <<[crawler |-> Hard]>>
TriggerDetail == <<[trigger |-> Hard]>>
WorkflowDetail == <<[workflow |-> Hard]>>
ConnectionDetail == <<[connection |-> Hard]>>
DatabaseDetail == <<[database |-> Hard]>>
FetchMetricData == <<[graph |-> HardCall]>>

\* What the daemons of a cluster say.  Of HBase, `tables` asks each namespace
\* for its tables, and those that fail, or are more than the browser enriches,
\* are left out; `regions` and `schema` are asked of each table.
silent == Fact("none", "none", "none", {})
FetchYARN == <<[applications |-> HardCall], [clusterMetrics |-> silent]>>
FetchHDFS == <<[dump |-> HardCall]>>
FetchOozie == <<[workflows |-> HardCall], [coordinators |-> silent]>>
FetchEffectiveConfig == <<[configuration |-> HardCall]>>
enrichHBaseTables == [regions |-> silent, schema |-> silent]
FetchHBase == <<[namespaces |-> HardCall], [tables |-> Paged(silent)], enrichHBaseTables>>

\* A queue, its metrics, a function, a job, and a VPC's DNS.
FetchDetail ==
    LET own == Fact("none", "blank", "blank", Failures)
    IN  <<[attributes |-> own], [queueTags |-> own], [sources |-> Paged(own)]>>
FetchQueueMetrics == <<[metrics |-> HardCall]>>
FunctionDetail == <<[function |-> Hard], [resourcePolicy |-> Fact("none", "blank", "blank", Failures)]>>
JobDefinition == <<[job |-> Hard]>>
GetVPCDNSInfo ==
    <<[support |-> HardCall, hostnames |-> HardCall, options |-> HardCall],
      [dhcp |-> Fact("none", "none", "none", {})]>>

\* An EMR cluster: the call that names its primary node, its configurations or
\* applications; and its description, one call after the other.
clusterFromDescribe == [cluster |-> Hard]
MasterDNS == <<clusterFromDescribe>>
loadGroups == Paged(Fact("none", "none", "none", Failures))
resolveInstanceSpecs == Paged(Fact("unknown", "unknown", "unknown", Failures))
Instances == Fact("none", "none", "none", Failures)
fillSecurityGroupRules == Fact("unknown", "unknown", "unknown", Failures)
fillNetworkACL == Fact("none", "none", "none", Failures)
\* The subnet's own route table, or else the VPC's main one.
fillRouteTable == <<[table |-> Fact("none", "none", "none", Failures)], [main |-> Fact("none", "none", "none", {})]>>
loadNetwork ==
    <<[subnet |-> Fact("unknown", "unknown", "unknown", Failures)], [rules |-> fillSecurityGroupRules]>>
      \o fillRouteTable \o <<[nacl |-> fillNetworkACL]>>
Describe ==
    <<clusterFromDescribe, [groups |-> loadGroups], [specs |-> resolveInstanceSpecs], [instances |-> Instances]>>
      \o loadNetwork

Card ==
    CASE acct.ask = "bucket" -> FetchBucketDetails [] acct.ask = "region" -> <<[region |-> GetBucketRegion]>>
      [] acct.ask = "object" -> GetObjectDetails [] acct.ask = "queue" -> FetchDetail
      [] acct.ask = "metrics" -> FetchQueueMetrics [] acct.ask = "function" -> FunctionDetail
      [] acct.ask = "job" -> JobDefinition [] acct.ask = "dns" -> GetVPCDNSInfo
      [] acct.ask = "crawler" -> CrawlerDetail [] acct.ask = "trigger" -> TriggerDetail
      [] acct.ask = "workflow" -> WorkflowDetail [] acct.ask = "connection" -> ConnectionDetail
      [] acct.ask = "database" -> DatabaseDetail [] acct.ask = "graph" -> FetchMetricData
      [] acct.ask = "yarn" -> FetchYARN [] acct.ask = "hdfs" -> FetchHDFS
      [] acct.ask = "oozie" -> FetchOozie [] acct.ask = "hbase" -> FetchHBase
      [] acct.ask = "config" -> FetchEffectiveConfig
      [] acct.ask = "conn" -> MasterDNS [] acct.ask = "describe" -> Describe

\* What is set is what acct.set says.
Shows(fact, of) ==
    CASE snap.answers[of] = "ok" -> IF of \in acct.set THEN "set" ELSE fact.no
      [] snap.answers[of] = "denied" -> fact.denied
      [] snap.answers[of] = "failed" -> fact.failed
      [] snap.answers[of] = "cut" -> "part"
Reading == Card[snap.stage]
ReadOf(of) == IF of \notin DOMAIN snap.answers THEN None
              ELSE LET i == CHOOSE j \in DOMAIN Card : of \in DOMAIN Card[j] IN Shows(Card[i][of], of)

\* Whether the call is made: the facts that a run looks at, and the calls that
\* need what an earlier one said.
Asked(of) ==
    /\ of \in acct.facts
    /\ of = "specs" => ReadOf("groups") \in {"set", "part"} /\ ~acct.mixed
    /\ of = "main" => ReadOf("table") = "none" /\ snap.answers["table"] = "ok" /\ ReadOf("subnet") = "set"
    /\ of = "dhcp" => ReadOf("options") = "set"
    /\ of \in {"regions", "schema"} => ReadOf("tables") \in {"set", "part"}

Read(of) ==
    /\ pc = "card" /\ of \in DOMAIN Reading \ DOMAIN snap.answers /\ Asked(of)
    /\ \E answer \in {"ok", "denied", "failed"} \union (IF Reading[of].pages THEN {"cut"} ELSE {}) :
         /\ snap' = [snap EXCEPT !.answers = (of :> answer) @@ @]
         /\ errs' = IF answer \in Reading[of].told THEN errs \union {of} ELSE errs
    /\ UNCHANGED <<acct, pc, found>>

\* The calls of one stage run at the same time, and all end before the next.
Stage ==
    /\ pc = "card" /\ \A of \in DOMAIN Reading \ DOMAIN snap.answers : ~Asked(of)
    /\ LET hard == \E of \in DOMAIN Reading : ReadOf(of) = "hard"
           last == hard \/ snap.stage = Len(Card)
       IN  /\ snap' = [snap EXCEPT !.stage = IF last THEN @ ELSE @ + 1]
           /\ pc' = (IF last THEN "done" ELSE "card")
           /\ errs' = IF hard THEN {"error"} ELSE errs
           /\ found' = IF last /\ ~hard THEN {<<of, ReadOf(of)>> : of \in DOMAIN snap.answers} ELSE {}
    /\ UNCHANGED acct

-------------------------------------------------------------------------------
Init == Start(Accounts, [stage |-> 1, answers |-> <<>>], "card")

Next == (pc = "card" /\ \E of \in DOMAIN Reading : Read(of)) \/ Stage

-------------------------------------------------------------------------------
\* Denied readings that show as if nothing were set, and failed ones: of a
\* bucket's tags, rules and public access block when they are denied, of the
\* uploads in parts, the region, the locks of an object, the DHCP options, the
\* main route table, and the details of what a cluster's daemons run however
\* the call fails.
Assumed(of) ==
    IF of \in {"tags", "lifecycle", "publicAccess"} THEN {"denied"}
    ELSE IF of \in {"multipart", "region", "retention", "hold", "dhcp", "main", "clusterMetrics", "coordinators",
                    "tables", "regions", "schema"} THEN Failures ELSE {}
Unread(of) == of \notin DOMAIN snap.answers \/ snap.answers[of] # "ok"


\* What is shown as not configured is not, or the card says that the call
\* failed.  A cluster whose subnet and VPC have a route table has one on its
\* card, or the card says what could not be read.
Sound ==
    Done =>
      /\ \A f \in found :
           f[2] \in {"none", "part"} =>
             f[1] \notin acct.set \/ f[1] \in errs \/ snap.answers[f[1]] \in Assumed(f[1])
      /\ (acct.ask = "describe" /\ errs # {"error"} /\ {"table", "main", "subnet"} \subseteq acct.facts) =>
           \/ ReadOf("table") = "set" \/ ReadOf("main") = "set" \/ errs \intersect {"table", "subnet"} # {}
           \/ {"main", "subnet"} \ acct.set # {} \/ (ReadOf("main") # None /\ Unread("main"))
===============================================================================
