-------------------------------- MODULE GlueAudit --------------------------------
(***************************************************************************)
(* The Glue jobs, crawlers and connections of a region, and its queues and *)
(* topics: collectGlueRegion and AnalyzeGlue, collectMessagingRegion and   *)
(* AnalyzeMessaging.  A run has its state and whether it was billed; ages  *)
(* are old or not, and a run short or not.                                 *)
(***************************************************************************)
EXTENDS Collect

CONSTANTS
    Accounts, None,
    MaxJobs,    \* the cap of jobs, crawlers and connections
    MaxChecks,  \* the cap of queues and topics
    Streak, StreakCap, Waste, Fleet   \* the thresholds of the checks

Full ==
    [jobs |-> {[job |-> j, known |-> TRUE] : j \in acct.jobs}, crawlers |-> acct.crawlers,
     conns |-> acct.conns, refs |-> acct.nets, refsKnown |-> \E c \in acct.conns : c.nets # {}]

Init ==
    Start(Accounts, [jobs |-> {}, crawlers |-> {}, conns |-> {}, refs |-> {}, refsKnown |-> FALSE],
          "jobs")

\* The rows of a page are taken until the cap is reached.
Paged(rows, service, field) ==
    \E list \in Listing(rows) :
      \E some \in Capped(list.rows, MaxJobs) :
        /\ snap' = [snap EXCEPT ![field] = some]
        /\ Record(service, {list.ok, Cardinality(list.rows) < MaxJobs})

\* The runs of each job are read beside each other: any may fail.
collectGlueJobs ==
    /\ Step("jobs", "crawlers")
    /\ \E list \in Listing(acct.jobs) :
         \E some \in Capped(list.rows, MaxJobs) :
           \E failed \in SUBSET some :
             /\ snap' = [snap EXCEPT !.jobs = {[job |-> j, known |-> j \notin failed] : j \in some}]
             /\ Record("glue", {list.ok, failed = {}, Cardinality(list.rows) < MaxJobs})

collectGlueCrawlers ==
    /\ Step("crawlers", "connections")
    /\ Paged(acct.crawlers, "glue", "crawlers")

collectGlueConnections ==
    /\ Step("connections", "refs")
    /\ Paged(acct.conns, "glue", "conns")

\* Mutant: what could be read of the networks is taken for all.
collectGlueNetworkRefs_Partial ==
    /\ Step("refs", "analyze")
    /\ IF \A c \in snap.conns : c.nets = {} THEN UNCHANGED <<snap, errs>>
       ELSE \E subnets, sgs \in Listing(acct.nets) :
              /\ snap' = [snap EXCEPT !.refs = {n \in subnets.rows : n[1] = "subnet"}
                                        \union {n \in sgs.rows : n[1] = "sg"},
                                      !.refsKnown = TRUE]
              /\ Record("ec2", {subnets.ok, sgs.ok})

\* Asked only if a connection is in a network; known only if both listings are
\* complete.
collectGlueNetworkRefs ==
    /\ Step("refs", "analyze")
    /\ IF \A c \in snap.conns : c.nets = {} THEN UNCHANGED <<snap, errs>>
       ELSE \E subnets, sgs \in BOOLEAN :
              /\ snap' = [snap EXCEPT !.refs = IF subnets /\ sgs THEN acct.nets ELSE {},
                                      !.refsKnown = subnets /\ sgs]
              /\ Record("ec2", {subnets, sgs})

-------------------------------------------------------------------------------
isFailedRunState(state) == state \in {"FAILED", "TIMEOUT", "ERROR"}

MinOf(a, b) == IF a < b THEN a ELSE b

\* All of the latest runs failed, and there are enough of them.
failedStreak(runs) ==
    LET n == MinOf(Len(runs), StreakCap)
    IN  IF n >= Streak /\ \A i \in 1..n : isFailedRunState(runs[i].state) THEN n ELSE 0

failedRunWaste(runs) ==
    Cardinality({i \in 1..Len(runs) : isFailedRunState(runs[i].state) /\ runs[i].billed})

\* The latest run that succeeded was a short one.
shortSuccess(runs) ==
    \E i \in 1..Len(runs) :
        /\ runs[i].state = "SUCCEEDED" /\ runs[i].short
        /\ \A k \in 1..i - 1 : runs[k].state # "SUCCEEDED"

checkGlueRunHistory(j) ==
    IF j.runs = <<>> THEN {<<"stale", j.id>>}
    ELSE (IF j.runs[1].old THEN {<<"stale", j.id>>} ELSE {})
           \union (IF failedStreak(j.runs) >= Streak THEN {<<"all failed", j.id>>}
                   ELSE IF isFailedRunState(j.runs[1].state) THEN {<<"last failed", j.id>>} ELSE {})
           \union (IF failedRunWaste(j.runs) >= Waste THEN {<<"waste", j.id>>} ELSE {})
           \union (IF j.workers >= Fleet /\ shortSuccess(j.runs) THEN {<<"oversized", j.id>>} ELSE {})

checkGlueJob(x) ==
    (IF x.job.secured THEN {} ELSE {<<"unsecured", x.job.id>>})
      \union (IF x.known THEN checkGlueRunHistory(x.job) ELSE {})

checkGlueCrawler(c) ==
    (IF c.last = "FAILED" THEN {<<"crawl failed", c.id>>} ELSE {})
      \union (IF c.running /\ c.long THEN {<<"stuck", c.id>>} ELSE {})

checkGlueConnection(s, c) == IF c.nets \subseteq s.refs THEN {} ELSE {<<"missing", c.id>>}

AnalyzeGlue(s) ==
    UNION ({checkGlueJob(x) : x \in s.jobs} \union {checkGlueCrawler(c) : c \in s.crawlers}
             \union {checkGlueConnection(s, c) : c \in {d \in s.conns : s.refsKnown}})

Analyze == Report(AnalyzeGlue(snap))

Next ==
    \/ collectGlueJobs \/ collectGlueCrawlers \/ collectGlueConnections \/ collectGlueNetworkRefs
    \/ Analyze

-------------------------------------------------------------------------------
\* What is reported of the part that could be read is true of the whole account:
\* a job, crawler or connection that was not read makes no other look bad.
Sound == found \subseteq AnalyzeGlue(Full)

\* A scan that recorded no error reports what the whole account would.
Accounted == Done /\ errs = {} => found = AnalyzeGlue(Full)
-------------------------------------------------------------------------------
(* The queues and topics.  Counts are zero or one. *)

MessagingFull ==
    [queues |-> {[q |-> q, received |-> IF q.depth > 0 /\ q.inflight = 0 THEN q.received ELSE None]
                 : q \in acct.queues},
     complete |-> TRUE, topics |-> acct.topics]

MessagingInit == Start(Accounts, [queues |-> {}, complete |-> FALSE, topics |-> {}], "queues")

\* Mutant: reaching the cap leaves the listing complete.
collectQueuesMessaging_CapComplete ==
    /\ Step("queues", "activity")
    /\ \E list \in Listing(acct.queues) :
         \E some \in Capped(list.rows, MaxChecks) :
           \E asked \in SUBSET some :
             /\ ~list.ok => asked = {}
             /\ snap' = [snap EXCEPT
                  !.queues = {[q |-> q, received |-> None] : q \in asked},
                  !.complete = list.ok /\ asked = some]
             /\ Record("sqs", {list.ok, ~list.ok \/ asked = some,
                               ~list.ok \/ Cardinality(list.rows) < MaxChecks})

\* The queues are complete if none was cut off at the cap or failed.
collectQueuesMessaging ==
    /\ Step("queues", "activity")
    /\ \E list \in Listing(acct.queues) :
         \E some \in Capped(list.rows, MaxChecks) :
           \E asked \in SUBSET some :
             LET complete == asked = some /\ Cardinality(list.rows) < MaxChecks
             IN  /\ ~list.ok => asked = {}
                 /\ snap' = [snap EXCEPT
                      !.queues = {[q |-> q, received |-> None] : q \in asked},
                      !.complete = list.ok /\ complete]
                 /\ Record("sqs", {list.ok, ~list.ok \/ complete})

\* One batch of queries for the queues that may have no consumer; when it
\* fails the activity of none is known.
fetchQueueReceiveActivity ==
    LET candidates == {x \in snap.queues : x.q.depth > 0 /\ x.q.inflight = 0}
    IN  /\ Step("activity", "topics")
        /\ \E ok \in BOOLEAN :
             /\ candidates = {} => ok
             /\ snap' = [snap EXCEPT !.queues =
                  {[x EXCEPT !.received = IF ok /\ x \in candidates THEN x.q.received ELSE None]
                   : x \in @}]
             /\ Record("cloudwatch", {ok})

\* The topic whose attributes fail is kept without its counts, and is the last.
collectTopicsMessaging ==
    /\ Step("topics", "analyze")
    /\ \E list \in Listing(acct.topics) :
         \E some \in Capped(list.rows, MaxChecks) :
           \E asked \in SUBSET some, failed \in SUBSET some :
             /\ ~list.ok => asked = {}
             /\ failed = {} <=> ~list.ok \/ asked = some
             /\ Cardinality(failed) <= 1 /\ failed \intersect asked = {}
             /\ snap' = [snap EXCEPT !.topics =
                  asked \union {[t EXCEPT !.confirmed = None, !.pending = None] : t \in failed}]
             /\ Record("sns", {list.ok, failed = {},
                               ~list.ok \/ Cardinality(list.rows) < MaxChecks})

checkQueues(s) ==
    {<<"no consumers", x.q.id>> : x \in {y \in s.queues :
        y.q.depth > 0 /\ y.q.inflight = 0 /\ y.received = 0}}
      \union {<<"dangling redrive", x.q.id>> : x \in {y \in s.queues :
        y.q.redrive # None /\ s.complete /\ \A z \in s.queues : z.q.id # y.q.redrive}}
      \union {<<"dead letters", x.q.id>> : x \in {y \in s.queues :
        y.q.depth > 0 /\ \E z \in s.queues : z.q.redrive = y.q.id}}

checkTopics(s) ==
    {<<"pending", t.id>> : t \in {u \in s.topics : u.pending # None /\ u.pending # 0}}
      \union {<<"no subscriptions", t.id>> : t \in {u \in s.topics : u.confirmed = 0 /\ u.pending = 0}}

AnalyzeMessaging(s) == checkQueues(s) \union checkTopics(s)

ReportMessaging == Report(AnalyzeMessaging(snap))

MessagingNext ==
    \/ collectQueuesMessaging \/ fetchQueueReceiveActivity \/ collectTopicsMessaging
    \/ ReportMessaging

\* What is reported is true of the whole account: a queue whose messages were
\* not counted does not lack consumers, and a redrive whose target lies beyond
\* the cap or in a page that failed does not dangle.
MessagingSound == found \subseteq AnalyzeMessaging(MessagingFull)

\* A scan that recorded no error reports what the whole account would.
MessagingAccounted == Done /\ errs = {} => found = AnalyzeMessaging(MessagingFull)
==================================================================================
