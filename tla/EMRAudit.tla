--------------------------------- MODULE EMRAudit ---------------------------------
(***************************************************************************)
(* The EMR clusters and the functions of a region: collectEMRRegion and    *)
(* AnalyzeEMR, collectLambdaRegion and AnalyzeLambda.  The account is a    *)
(* set of clusters or a set of functions.  A cluster's age is 0 (new), 1   *)
(* (over a day) or 2 (over a week); a runtime is unknown (None),           *)
(* supported, deprecating or deprecated.                                   *)
(***************************************************************************)
EXTENDS Collect, Integers

CONSTANTS Accounts, None, MaxClusters, MaxFunctions

\* A cluster as the listing has it; its details are zero values until they
\* are read.
Listed(c) ==
    [id |-> c.id, state |-> c.state, age |-> None, auto |-> FALSE, logs |-> FALSE,
     secured |-> FALSE, connector |-> FALSE, consistent |-> FALSE, steps |-> FALSE, step |-> None]

isLiveEMRState(state) == state \notin {"TERMINATED", "TERMINATED_WITH_ERRORS", "TERMINATING"}

\* emrfs-site turns Consistent View on; the release and core-site do not
\* matter for it.
DeriveS3Connector(c) == [consistent |-> c.consistent]

\* A description that fails leaves the details at their zero values and the
\* steps unasked.
enrichEMRCluster(c, described, stepped) ==
    IF ~described THEN Listed(c)
    ELSE [Listed(c) EXCEPT
            !.age = c.age, !.auto = c.auto, !.logs = c.logs, !.secured = c.secured,
            !.connector = TRUE, !.consistent = DeriveS3Connector(c).consistent,
            !.steps = isLiveEMRState(c.state) /\ stepped,
            !.step = IF isLiveEMRState(c.state) /\ stepped THEN c.step ELSE None]

Full == {enrichEMRCluster(c, TRUE, TRUE) : c \in acct}

Init == Start(Accounts, {}, "clusters")

\* Mutant: a description that fails is not recorded.
collectEMRRegion_Silent ==
    /\ Step("clusters", "analyze")
    /\ \E list \in Listing(acct) :
         \E some \in Capped(list.rows, MaxClusters) :
           \E undescribed \in SUBSET some, unstepped \in SUBSET some :
             /\ unstepped \subseteq {c \in some \ undescribed : isLiveEMRState(c.state)}
             /\ snap' = {enrichEMRCluster(c, c \notin undescribed, c \notin unstepped) : c \in some}
             /\ Record("emr", {list.ok, Cardinality(list.rows) < MaxClusters, unstepped = {}})

\* Clusters are enriched beside each other: any call may fail.
collectEMRRegion ==
    /\ Step("clusters", "analyze")
    /\ \E list \in Listing(acct) :
         \E some \in Capped(list.rows, MaxClusters) :
           \E undescribed \in SUBSET some, unstepped \in SUBSET some :
             /\ unstepped \subseteq {c \in some \ undescribed : isLiveEMRState(c.state)}
             /\ snap' = {enrichEMRCluster(c, c \notin undescribed, c \notin unstepped) : c \in some}
             /\ Record("emr", {list.ok, Cardinality(list.rows) < MaxClusters,
                               undescribed = {}, unstepped = {}})

-------------------------------------------------------------------------------
isFailedStepState(state) == state \in {"FAILED", "CANCELLED", "INTERRUPTED"}

checkEMRFSConsistentView(c) == IF c.connector /\ c.consistent THEN {<<"consistent view", c.id>>} ELSE {}

\* A cluster that ended with errors is only that; one that ended is nothing.
checkEMRCluster(c) ==
    IF c.state = "TERMINATED_WITH_ERRORS" THEN {<<"ended with errors", c.id>>}
    ELSE IF ~isLiveEMRState(c.state) THEN {}
    ELSE (IF c.state = "WAITING" /\ c.age \in {1, 2} THEN {<<"idle", c.id>>} ELSE {})
           \union (IF ~c.auto /\ c.age = 2 THEN {<<"long running", c.id>>} ELSE {})
           \union (IF ~c.logs THEN {<<"no logs", c.id>>} ELSE {})
           \union (IF ~c.secured THEN {<<"unsecured", c.id>>} ELSE {})
           \union checkEMRFSConsistentView(c)
           \union (IF c.steps /\ isFailedStepState(c.step) THEN {<<"step failed", c.id>>} ELSE {})

AnalyzeEMR(s) == UNION {checkEMRCluster(c) : c \in s}

Analyze == Report(AnalyzeEMR(snap))

Next == collectEMRRegion \/ Analyze

-------------------------------------------------------------------------------
\* Except for the clusters whose description failed: they are said to have no
\* log destination and no security configuration.
Sound ==
    found \subseteq AnalyzeEMR(Full)
        \union {"no logs", "unsecured"} \X {c.id : c \in {d \in snap : ~d.connector}}

\* Without the exception.
UnderWarns == found \subseteq AnalyzeEMR(Full)

\* A scan that recorded no error reports what the whole account would, no more
\* and no less.
Accounted == Done /\ errs = {} => found = AnalyzeEMR(Full)
-------------------------------------------------------------------------------
(* The functions. *)

LambdaInit == Start(Accounts, {}, "functions")

\* Mutant: the cap is reached without a word.
collectLambdaRegion_Silent ==
    /\ Step("functions", "analyze")
    /\ \E list \in Listing(acct) :
         /\ snap' \in Capped(list.rows, MaxFunctions)
         /\ Record("lambda", {list.ok})

collectLambdaRegion ==
    /\ Step("functions", "analyze")
    /\ \E list \in Listing(acct) :
         /\ snap' \in Capped(list.rows, MaxFunctions)
         /\ Record("lambda", {list.ok, Cardinality(list.rows) < MaxFunctions})

checkLambdaRuntime(f) ==
    IF f.runtime \in {"deprecated", "deprecating"} THEN {<<f.runtime, f.id>>} ELSE {}

checkLambdaDLQ(f) == IF f.dlq THEN {} ELSE {<<"no dlq", f.id>>}

\* Without a state the update's status is not looked at either.
checkLambdaHealth(f) ==
    IF f.state # None /\ (f.state = "Failed" \/ f.update = "Failed") THEN {<<"failed", f.id>>} ELSE {}

AnalyzeLambda(s) ==
    UNION {checkLambdaRuntime(f) \union checkLambdaDLQ(f) \union checkLambdaHealth(f) : f \in s}

LambdaAnalyze == Report(AnalyzeLambda(snap))

LambdaNext == collectLambdaRegion \/ LambdaAnalyze

\* What is reported is true of the account, whatever page of its functions failed.
LambdaSound == found \subseteq AnalyzeLambda(acct)

\* A scan that recorded no error has looked at every function.
LambdaAccounted == Done /\ errs = {} => found = AnalyzeLambda(acct)
==================================================================================
