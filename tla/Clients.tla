-------------------------------- MODULE Clients --------------------------------
(***************************************************************************)
(* The lists that the dashboards and reports load from several regions at  *)
(* once: one load per region, each with its listings, merged when the last *)
(* region has answered.  The loads differ in what a failed page costs, in  *)
(* the calls made for each row, and in who is told; all of them are run by *)
(* the same steps.                                                         *)
(***************************************************************************)
EXTENDS Collect, Integers

CONSTANTS Accounts,    \* loads of an account: what it has, and what is asked
          Fallback,    \* the built-in list of regions
          Home,        \* the region when none is given
          MaxGroups,   \* log groups listed in a region, at least
          None

(***************************************************************************)
(* A listing: what a failed page may cost ("page": what was not listed     *)
(* yet; "list": the whole listing; "region": all of the region), and       *)
(* whether that is reported; the further calls for each row ("none";       *)
(* "flag": a row whose call failed says that it is not known; "blank": it  *)
(* does not; "late": blank, and not made when the listing failed; "drop":  *)
(* the row is dropped and the failure reported; "quota"); which rows are   *)
(* listed; from which number on it stops; whether what was denied reads as *)
(* empty.                                                                  *)
(***************************************************************************)
Listed == [costs |-> {"region"}, told |-> TRUE, each |-> "none", wants |-> "all", cap |-> None,
           hides |-> FALSE]
BestEffort == [Listed EXCEPT !.costs = {"page"}, !.told = FALSE]
Recorded == [Listed EXCEPT !.costs = {"page"}]

\* A load: the listings of each region, and those made once; whether a region
\* that fails is reported ("each"), or only all of them failing ("all").
Load(listings, once, reports) == [listings |-> listings, once |-> once, reports |-> reports]

\* Mutant: the pages before the one that failed are kept.
listRegion_KeepsPages(a) == [BestEffort EXCEPT !.wants = IF a.terminated THEN "all" ELSE "live"]

\* EMR's clusters: without the terminated ones, unless they are asked for.
listRegion(a) == [Listed EXCEPT !.wants = IF a.terminated THEN "all" ELSE "live"]
enrichClusters == "flag"
loadRegion(a) == [listRegion(a) EXCEPT !.each = enrichClusters]
emrListSkeleton(a) == Load(<<listRegion(a)>>, <<>>, "all")
emrLoadInventory(a) == Load(<<loadRegion(a)>>, <<>>, "all")

\* Glue's jobs, crawlers, triggers, workflows, connections and databases.
listJobs == BestEffort
enrichJobs == "blank"
loadJobs == [listJobs EXCEPT !.each = "late"]
loadCrawlers == BestEffort
loadTriggers == BestEffort
loadWorkflows == BestEffort
loadConnections == BestEffort
loadDatabases == BestEffort
loadRegionWith(jobs) == <<jobs, loadCrawlers, loadTriggers, loadWorkflows, loadConnections, loadDatabases>>
gather(listings) == Load(listings, <<>>, "all")
glueListSkeleton(a) == gather(loadRegionWith(listJobs))
glueLoadInventory(a) == gather(loadRegionWith(loadJobs))

\* Lambda's functions, layers and event sources.
loadFunctions == BestEffort
loadLayers == BestEffort
loadEventSources == BestEffort
lambdaLoadRegion == <<loadFunctions, loadLayers, loadEventSources>>
lambdaLoadInventory(a) == Load(lambdaLoadRegion, <<>>, "all")

\* Queues; log groups, of which a region shows a page more than MaxGroups at most.
listQueuesInRegion == Listed
ListQueues(a) == Load(<<listQueuesInRegion>>, <<>>, "all")
listLogGroupsInRegion == [Listed EXCEPT !.cap = MaxGroups]
ListLogGroups(a) == Load(<<listLogGroupsInRegion>>, <<>>, "all")

\* The Tagging API: keys, values and resources; one fan-out for each group of
\* filters, whose resources are those of any of them.
fanOutRegions(listings) == Load(listings, <<>>, "each")
TagKeys(a) == fanOutRegions(<<Listed>>)
TagValues(a) == fanOutRegions(<<Listed>>)
discoverRegion == Listed
Discover(a) == fanOutRegions(<<discoverRegion>>)
discoverGroup == [Listed EXCEPT !.costs = {"list"}]
DiscoverUnion(a) == fanOutRegions([g \in 1..a.groups |-> discoverGroup])

\* What expires: certificates, functions, clusters, instances and their
\* maintenance, secrets; and IAM's certificates once.
fetchACMCerts == Recorded
fetchFunctions == Recorded
fetchClusters == [Recorded EXCEPT !.costs = {"list"}, !.each = "drop"]
fetchRDS == <<Recorded, Recorded>>
fetchSecrets == Recorded
collectIAMServerCerts == Recorded
expiryCollectRegion == <<fetchACMCerts, fetchFunctions, fetchClusters>> \o fetchRDS \o <<fetchSecrets>>
expiryCollect(a) == Load(expiryCollectRegion, <<collectIAMServerCerts>>, "each")

\* The tasks that stopped: the clusters are listed, unless one is named, then
\* a cluster's tasks are listed and described in batches, with some of a batch
\* reported as failures.
collectCluster == [Recorded EXCEPT !.costs = {"list", "page"}, !.each = "drop"]
ecsCollectRegion(a) ==
    <<IF a.named THEN [Listed EXCEPT !.costs = {}] ELSE Listed>> \o [c \in 1..a.groups |-> collectCluster]
ecsCollect(a) == Load(ecsCollectRegion(a), <<>>, "each")

\* The quotas of the registry, by region and once.
collectQuotas == [Recorded EXCEPT !.costs = {}, !.each = "quota"]
quotasCollect(a) == Load(<<collectQuotas>>, <<collectQuotas>>, "each")

\* The VPCs of each region; a region that denies them has none.
ListVPCs == Listed
ListVPCsInRegion(a) == Load(<<[ListVPCs EXCEPT !.hides = TRUE]>>, <<>>, "each")

Loader(a) ==
    CASE a.load = "emr list" -> emrListSkeleton(a) [] a.load = "emr" -> emrLoadInventory(a)
      [] a.load = "glue list" -> glueListSkeleton(a) [] a.load = "glue" -> glueLoadInventory(a)
      [] a.load = "lambda" -> lambdaLoadInventory(a) [] a.load = "sqs" -> ListQueues(a)
      [] a.load = "logs" -> ListLogGroups(a) [] a.load = "keys" -> TagKeys(a)
      [] a.load = "values" -> TagValues(a) [] a.load = "sweep" -> Discover(a)
      [] a.load = "union" -> DiscoverUnion(a) [] a.load = "expiry" -> expiryCollect(a)
      [] a.load = "ecs" -> ecsCollect(a) [] a.load = "quotas" -> quotasCollect(a)
      [] a.load = "vpcs" -> ListVPCsInRegion(a)

-------------------------------------------------------------------------------
\* What has answered: the rows shown, and for the properties alone the areas
\* that failed, and the listings that were denied in silence.
Init == Start(Accounts, [regions |-> {}, left |-> {}, rows |-> {}, failed |-> {}, denied |-> {}], "client")

Now == Loader(acct)
Once == "once"
Listings(area) == IF area = Once THEN Now.once ELSE Now.listings
Areas(regions) == regions \union (IF Now.once = <<>> THEN {} ELSE {Once})

\* The regions that can be listed, or the built-in ones.
resolveRegions(answer) == IF answer = {} THEN Fallback ELSE answer

\* There are clients for the regions asked for, or for all of them.
NewClient ==
    /\ pc = "client" /\ UNCHANGED <<acct, found>>
    /\ \/ pc' = "done" /\ errs' = {"config"} /\ UNCHANGED snap
       \/ \E answer \in {{}, acct.enabled} :
            LET asked == IF acct.all THEN resolveRegions(answer) ELSE acct.asked
                regions == IF asked = {} THEN {Home} ELSE asked
            IN  /\ snap' = [snap EXCEPT !.regions = regions, !.left = Areas(regions)]
                /\ pc' = "regions" /\ UNCHANGED errs

Of(S, i) == {r \in S : r.list = i}

\* The rows of a listing l of all, and how it ended.
Ends(l, all, rows, end) ==
    CASE end = "ok" -> rows = all \/ (l.cap # None /\ rows \subseteq all /\ Cardinality(rows) >= l.cap)
      [] end = "denied" -> l.hides /\ rows = {}
      [] end = "failed" -> l.costs # {} /\ rows \subseteq all /\ (rows = {} \/ "page" \in l.costs)

\* The further calls of a listing's rows: the ones that are kept, the ones
\* whose facts are known, and the ones whose limit is the account's own.
Follows(l, rows, end, kept, known, own) ==
    /\ l.each \notin {"drop", "quota"} => kept = rows
    /\ l.each \in {"none", "drop"} => known = kept
    /\ l.each = "late" /\ end # "ok" => known = {}
    /\ IF l.each = "quota"
       THEN own \subseteq {r \in kept : r.adjusted} /\ known \in {{}, {r \in kept : r.metered}}
       ELSE own = kept

\* An area answers: its listings have ended, and it failed if one of them costs
\* it all.
Answer(area) ==
    LET ls == Listings(area)
        mine == {r \in acct.rows : r.area = area /\ (ls[r.list].wants = "live" => r.live)}
    IN  /\ pc = "regions" /\ area \in snap.left /\ UNCHANGED <<acct, pc, found>>
        /\ \E end \in [DOMAIN ls -> IF ls[1].hides THEN {"ok", "denied", "failed"} ELSE {"ok", "failed"}] :
           \E rows \in SUBSET mine :
             /\ \A i \in DOMAIN ls : Ends(ls[i], Of(mine, i), Of(rows, i), end[i])
             /\ \E kept \in SUBSET rows : \E known \in SUBSET kept, own \in SUBSET kept :
                  /\ \A i \in DOMAIN ls :
                       Follows(ls[i], Of(rows, i), end[i], Of(kept, i), Of(known, i), Of(own, i))
                  /\ LET bad == {i \in DOMAIN ls : end[i] = "failed"}
                         fails == \E i \in bad : ls[i].costs = {"region"}
                         told == kept # rows \/ \E i \in bad : ls[i].told
                         shown == {[row |-> r, known |-> r \in known, own |-> r \in own] : r \in kept}
                     IN  /\ snap' = [snap EXCEPT
                              !.left = @ \ {area}, !.rows = IF fails THEN @ ELSE @ \union shown,
                              !.failed = IF fails THEN @ \union {area} ELSE @,
                              !.denied = @ \union {<<area, i>> : i \in {j \in DOMAIN ls : end[j] = "denied"}}]
                         /\ errs' = IF told /\ Now.reports = "each" THEN errs \union {area} ELSE errs

\* Mutant: the regions that failed are not counted.
Merge_NeverFails ==
    /\ pc = "regions" /\ snap.left = {} /\ UNCHANGED <<acct, snap, found>>
    /\ pc' = (IF acct.load \in {"emr list", "glue list"} THEN "enrich" ELSE "show") /\ UNCHANGED errs

\* All have answered.  Where regions may fail in silence, all of them failing is
\* an error.
Merge ==
    /\ pc = "regions" /\ snap.left = {} /\ UNCHANGED <<acct, snap, found>>
    /\ IF Now.reports = "all" /\ snap.failed = snap.regions
       THEN pc' = "done" /\ errs' = {"error"}
       ELSE pc' = (IF acct.load \in {"emr list", "glue list"} THEN "enrich" ELSE "show") /\ UNCHANGED errs

\* The rows of the skeleton are looked at region by region, as far as that goes.
EnrichRegion ==
    /\ pc = "enrich" /\ UNCHANGED <<acct, errs, found>>
    /\ \E region \in snap.regions \ snap.left :
         LET rows == {s \in snap.rows : s.row.area = region /\ s.row.list = 1}
         IN  \E known \in SUBSET rows :
               snap' = [snap EXCEPT
                 !.left = @ \union {region},
                 !.rows = (@ \ rows) \union {[s EXCEPT !.known = s \in known] : s \in rows}]
    /\ pc' = IF snap'.left = snap.regions THEN "show" ELSE "enrich"

-------------------------------------------------------------------------------
\* The day on which a row expires, counted from today, is the first of its
\* dates that is set; a runtime, version or authority of no known date does not.
FirstDate(r) ==
    LET set == {i \in DOMAIN r.dates : r.dates[i] # None}
    IN  IF set = {} THEN None ELSE r.dates[CHOOSE i \in set : \A j \in set : i <= j]
Dated(rows) == {[row |-> r, day |-> FirstDate(r)] : r \in {q \in rows : FirstDate(q) # None}}
CertItems(rows) == Dated(rows)
LambdaItems(rows) == Dated(rows)
EKSItems(rows) == Dated(rows)
\* Of a maintenance the day it is forced, or else applied by itself, or else
\* the current one.
RDSItems(rows) == Dated(rows)
\* Rotations that are on and overdue.
SecretItems(rows) == {i \in Dated({r \in rows : r.live}) : i.day <= 0}
Items(rows) ==
    LET of == [i \in 1..6 |-> {r \in rows : r.area # Once /\ r.list = i}]
    IN  CertItems(of[1] \union {r \in rows : r.area = Once}) \union LambdaItems(of[2])
          \union EKSItems(of[3]) \union RDSItems(of[4] \union of[5]) \union SecretItems(of[6])
FilterDue(items) == {i \in items : i.day <= acct.least}

\* Mutant: the first container, whatever became of it.
culprit_First(containers) == IF containers = <<>> THEN None ELSE 1

\* The container that explains why a task stopped: the first that failed, or
\* else the first with a reason, or else the first.
culprit(containers) ==
    LET First(S) == CHOOSE i \in S : \A j \in S : i <= j
        failed == {i \in DOMAIN containers : containers[i].exit \notin {None, 0}}
        said == {i \in DOMAIN containers : containers[i].reason}
    IN  IF containers = <<>> THEN None
        ELSE First(IF failed # {} THEN failed ELSE IF said # {} THEN said ELSE DOMAIN containers)
Classify(rows) == {[row |-> r, culprit |-> culprit(r.containers)] : r \in rows}

\* How near a quota is to the limit that is shown with it: the account's own,
\* or else the default.  A limit of 0 is never near.
getQuota(s) == IF s.own THEN s.row.limit ELSE s.row.default
Percent(s) == IF getQuota(s) = 0 THEN 0 ELSE (s.row.used * 100) \div getQuota(s)
Evaluate(shown) ==
    {[row |-> s.row, own |-> s.own, percent |-> IF s.known THEN Percent(s) ELSE None,
      status |-> IF ~s.known THEN "unknown" ELSE IF Percent(s) >= 100 THEN "critical"
                 ELSE IF Percent(s) >= acct.least THEN "warn" ELSE "ok"] : s \in shown}
FilterNear(quotas) == {q \in quotas : acct.least = 0 \/ (q.percent # None /\ q.percent >= acct.least)}

Show ==
    /\ pc = "show" /\ pc' = "done" /\ UNCHANGED <<acct, snap, errs>>
    /\ found' = LET rows == {s.row : s \in snap.rows}
                IN  CASE acct.load = "expiry" -> FilterDue(Items(rows))
                      [] acct.load = "ecs" -> Classify(rows)
                      [] acct.load = "quotas" -> FilterNear(Evaluate(snap.rows))
                      [] OTHER -> snap.rows

Next == NewClient \/ (\E area \in snap.left : Answer(area)) \/ Merge \/ EnrichRegion \/ Show

-------------------------------------------------------------------------------
\* What there is to show of the areas that were asked.
Here == {r \in acct.rows : r.area \in Areas(snap.regions)}
HereIn(area) == {r \in Here : r.area = area /\ (Listings(area)[r.list].wants = "live" => r.live)}
FoundRows == {f.row : f \in found}
Costly(area) == \A i \in DOMAIN Listings(area) : Listings(area)[i].costs = {"region"}

\* A region whose listing failed midway shows nothing rather than a part, where
\* the load says so; the container shown for a stopped task is one that
\* failed, if any did; a quota is critical only if its usage has reached the
\* limit shown, and the limit is the account's own or called a default.
Sound ==
    Done =>
      /\ FoundRows \subseteq Here
      /\ acct.load \notin {"expiry", "ecs", "quotas"} =>
           \A area \in snap.regions : Costly(area) =>
             LET shown == {r \in FoundRows : r.area = area}
             IN  shown \in {{}, HereIn(area)} \/ Cardinality(shown) >= MaxGroups
      /\ acct.load = "ecs" =>
           \A f \in found : (\E i \in DOMAIN f.row.containers : f.row.containers[i].exit \notin {None, 0}) =>
             f.row.containers[f.culprit].exit \notin {None, 0}
      /\ acct.load = "quotas" =>
           \A f \in found : f.status = "critical" =>
             f.row.used >= (IF f.own THEN f.row.limit ELSE f.row.default)

\* Whose failures nobody is told of: Glue's and Lambda's listings end where they
\* fail, so that neither load ever fails.
Quiet == {"glue list", "glue", "lambda"}

\* A load without an error has shown all there is: of each region that
\* answered, if regions may fail in silence, and then one of them did.  It has
\* not shown what is beyond the cap of log groups, what was denied and reads as
\* empty, and quotas whose usage could not be read or whose limit could not,
\* if they have to be near it.
Accounted ==
    Done /\ errs = {} /\ acct.load \notin Quiet =>
      /\ Now.reports = "all" => snap.failed # snap.regions
      /\ \A area \in Areas(snap.regions) \ snap.failed :
           LET shown == {r \in FoundRows : r.area = area}
               told == {r \in HereIn(area) : <<area, r.list>> \notin snap.denied}
           IN  CASE acct.load = "expiry" -> \A i \in FilterDue(Items(HereIn(area))) : i \in found
                 [] acct.load = "quotas" ->
                      \A r \in told : r \in shown \/ (acct.least > 0 /\ ~\E s \in snap.rows :
                         s.row = r /\ s.known /\ Percent(s) >= acct.least)
                 [] OTHER -> told = shown \/ Cardinality(shown) >= MaxGroups

===============================================================================
