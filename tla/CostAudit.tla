-------------------------------- MODULE CostAudit --------------------------------
(***************************************************************************)
(* The cost audit of a region: collectCostRegion and AnalyzeCost.  Ages    *)
(* are old or not against the check's threshold, prices are left out; the  *)
(* load balancers have health and traffic, the tables a provision and a    *)
(* use of it.                                                              *)
(***************************************************************************)
EXTENDS Collect

CONSTANT Accounts

\* The whole account, read without a failure.
Full ==
    [vols |-> acct.vols, addrs |-> acct.addrs, nats |-> acct.nats,
     refs |-> UNION {t.nats : t \in acct.routes}, insts |-> acct.insts, instsComplete |-> TRUE,
     snaps |-> acct.snaps, images |-> acct.images,
     lbs |-> {[lb |-> l, known |-> TRUE,
               groups |-> {g.healthy : g \in {h \in acct.tgs : l.id \in h.lbs}},
               measured |-> l.type # "gateway"] : l \in acct.lbs},
     tables |-> {[table |-> t, measured |-> t.units > 0] : t \in acct.tables}]

Init ==
    Start(Accounts, [vols |-> {}, addrs |-> {}, nats |-> {}, refs |-> {}, insts |-> {},
                     instsComplete |-> FALSE, snaps |-> {}, images |-> {}, lbs |-> {},
                     tables |-> {}], "ec2")

\* Each listing keeps the pages it read.  Without all routes no gateway is
\* called idle, without all images no snapshot forgotten.
collectEC2Cost ==
    /\ Step("ec2", "elb")
    /\ \E vol \in Listing(acct.vols), addr \in Call(acct.addrs), nat \in Listing(acct.nats),
          rt \in Listing(acct.routes), inst \in Listing(acct.insts),
          es \in Listing(acct.snaps), img \in Listing(acct.images) :
         /\ snap' = [snap EXCEPT
              !.vols = vol.rows, !.addrs = addr.rows, !.nats = IF rt.ok THEN nat.rows ELSE {},
              !.refs = UNION {t.nats : t \in rt.rows},
              !.insts = inst.rows, !.instsComplete = inst.ok,
              !.snaps = IF img.ok THEN es.rows ELSE {}, !.images = img.rows]
         /\ Record("ec2", {vol.ok, addr.ok, nat.ok, rt.ok, inst.ok, es.ok, img.ok})

\* The target groups that serve l, as far as their health was read.
Served(l, tgs) == {g \in tgs : l.id \in g.lbs}

collectELBCost ==
    /\ Step("elb", "dynamodb")
    /\ \E lb \in Listing(acct.lbs), tg \in Listing(acct.tgs), failed \in SUBSET acct.tgs :
         LET asked == lb.ok /\ lb.rows # {}
         IN  /\ ~asked => tg.ok
             /\ failed \subseteq (IF asked /\ tg.ok THEN {g \in acct.tgs : g.lbs # {}} ELSE {})
             /\ snap' = [snap EXCEPT !.lbs =
                  {[lb |-> l, measured |-> FALSE,
                    known |-> asked /\ tg.ok /\ Served(l, failed) = {},
                    groups |-> IF asked /\ tg.ok
                               THEN {g.healthy : g \in Served(l, acct.tgs \ failed)} ELSE {}]
                   : l \in lb.rows}]
             /\ Record("elbv2", {lb.ok, tg.ok, failed = {}})

\* A table that cannot be described is left out; only the first is reported.
collectDynamoDBCost ==
    /\ Step("dynamodb", "metrics")
    /\ \E list \in Listing(acct.tables), failed \in SUBSET acct.tables :
         /\ ~list.ok => failed = {}
         /\ snap' = [snap EXCEPT !.tables = IF list.ok
              THEN {[table |-> t, measured |-> FALSE] : t \in list.rows \ failed} ELSE {}]
         /\ Record("dynamodb", {list.ok, failed = {}})

\* Gateway load balancers and on-demand tables have nothing to ask for.  A
\* metric without data points is zero; a failed call leaves all unknown.
fetchCostMetrics ==
    LET asked == {l \in snap.lbs : l.lb.type # "gateway"}
        tables == {t \in snap.tables : t.table.units > 0}
    IN  /\ Step("metrics", "analyze")
        /\ \E ok \in BOOLEAN :
             /\ asked = {} /\ tables = {} => ok
             /\ snap' = [snap EXCEPT
                  !.lbs = {[l EXCEPT !.measured = ok /\ l \in asked] : l \in @},
                  !.tables = {[t EXCEPT !.measured = ok /\ t \in tables] : t \in @}]
             /\ Record("cloudwatch", {ok})

-------------------------------------------------------------------------------
checkVolumes(s) ==
    LET loose == {v \in s.vols : v.available /\ ~v.attached}
    IN  {<<"unattached", v.id>> : v \in loose}
          \union {<<"gp2", v.id>> : v \in {w \in s.vols \ loose : w.type = "gp2"}}

checkAddresses(s) == {<<"eip", a.id>> : a \in {b \in s.addrs : ~b.associated}}

checkNATGateways(s) == {<<"nat", n.id>> : n \in {g \in s.nats : g.available /\ g.id \notin s.refs}}

\* A load balancer without a healthy target is not reported idle as well.
checkLoadBalancers(s) ==
    LET dead == {l \in s.lbs : l.known /\ l.groups = {FALSE}}
        idle == {l \in s.lbs \ dead : l.measured /\ l.lb.requests = 0 /\ l.lb.old}
    IN  {<<"unhealthy", l.lb.id>> : l \in dead} \union {<<"idle", l.lb.id>> : l \in idle}

\* At least one of the volumes must be known, or there is no cost to tell.
checkStoppedInstances(s) ==
    {<<"stopped", i.id>> : i \in {j \in s.insts :
        j.stopped /\ \E v \in s.vols : v.id \in j.vols}}

\* Mutant: an image is called unused from a part of the instances.
checkSnapshotsAndImages_Partial(s) ==
    {<<"snapshot", e.id>> : e \in {f \in s.snaps :
        f.old /\ \A i \in s.images : f.id \notin i.snaps}}
      \union {<<"ami", i.id>> : i \in {j \in s.images :
                  j.old /\ \A in \in s.insts : in.image # j.id}}

\* The snapshots of an image are the image's; an image is unused only if all
\* instances are known.
checkSnapshotsAndImages(s) ==
    {<<"snapshot", e.id>> : e \in {f \in s.snaps :
        f.old /\ \A i \in s.images : f.id \notin i.snaps}}
      \union {<<"ami", i.id>> : i \in {j \in s.images :
                  s.instsComplete /\ j.old /\ \A in \in s.insts : in.image # j.id}}

\* The estimate sizes the need from the peak: a table can be idle on average
\* and have nothing to save.
checkDynamoDBTables(s) ==
    {<<"overprovisioned", t.table.id>> : t \in {u \in s.tables :
        /\ u.table.units >= 10 /\ u.measured /\ u.table.old
        /\ u.table.idle /\ u.table.peak < u.table.units}}

AnalyzeCost(s) ==
    checkVolumes(s) \union checkAddresses(s) \union checkNATGateways(s)
      \union checkLoadBalancers(s) \union checkStoppedInstances(s)
      \union checkSnapshotsAndImages(s) \union checkDynamoDBTables(s)

Analyze == Report(AnalyzeCost(snap))

Next ==
    \/ collectEC2Cost \/ collectELBCost \/ collectDynamoDBCost \/ fetchCostMetrics
    \/ Analyze

-------------------------------------------------------------------------------
\* A load balancer none of whose targets is healthy has no traffic either, and
\* is reported idle when its health could not be read.
Sound ==
    found \subseteq AnalyzeCost(Full)
        \union {<<"idle", l.id>> : l \in {k \in acct.lbs : k.requests = 0 /\ k.old}}

\* A scan that recorded no error reports all that the whole account would.
Accounted == Done /\ errs = {} => found = AnalyzeCost(Full)
==================================================================================
