------------------------------ MODULE VpcFindings ------------------------------
(***************************************************************************)
(* What the VPC explorer computes from a snapshot of a VPC: its findings,  *)
(* what changed against a saved baseline, and what uses what.  The nine    *)
(* lists of the snapshot are read on their own; one that fails is empty,   *)
(* and nobody is told.  Port 1 is HTTPS, 2 to 4 are the ephemeral ports    *)
(* that are probed, 5 is for remote access; an ACL's are TCP's.  A block   *)
(* is v4 or v6, everything of a family, or some addresses.  One number     *)
(* stands for each limit that is checked.                                  *)
(***************************************************************************)
EXTENDS Collect

CONSTANTS Accounts, None,
    LowIPs,         \* fewer available addresses are low
    Near            \* from this number on a limit is near

Lists == {"subnets", "groups", "tables", "igws", "nats", "acls", "peerings", "endpoints", "enis"}
AllPorts == 1..5
Ephemeral == 2..4
Sensitive == {5}

Init == Start(Accounts, [l \in Lists |-> {}], "snapshot")

\* A list has all its pages, or it is empty.
Whole(list) == {acct[list], {}}
ListSubnets == Whole("subnets")
ListInternetGateways == Whole("igws")
ListNatGateways == Whole("nats")
ListVPCEndpoints == Whole("endpoints")
\* Those that the VPC requested and those that it accepted; each once.
ListPeeringConnections == Whole("peerings")

\* Any of the lists may have failed; only if all did there is no snapshot.
buildVPCSnapshot ==
    /\ pc = "snapshot" /\ UNCHANGED <<acct, found>>
    /\ \/ pc' = "done" /\ errs' = {"snapshot"} /\ UNCHANGED snap
       \/ \E subnets \in ListSubnets, igws \in ListInternetGateways, nats \in ListNatGateways,
             endpoints \in ListVPCEndpoints, peerings \in ListPeeringConnections,
             groups \in Whole("groups"), tables \in Whole("tables"), acls \in Whole("acls"),
             enis \in Whole("enis") :
            /\ pc' = "analyze" /\ UNCHANGED errs
            /\ snap' = [subnets |-> subnets, groups |-> groups, tables |-> tables, igws |-> igws,
                        nats |-> nats, acls |-> acls, peerings |-> peerings, endpoints |-> endpoints,
                        enis |-> enis]

-------------------------------------------------------------------------------
Ids(S) == {x.id : x \in S}

effectiveRouteTable(s, subnet) ==
    LET own == {t \in s.tables : subnet \in t.subnets}
        main == {t \in s.tables : t.main}
    IN  IF own # {} THEN own ELSE main

hasDefaultRoute(s, subnet, dest, kinds) ==
    \E t \in effectiveRouteTable(s, subnet) : \E r \in t.routes :
      r.dest = dest /\ r.active /\ r.kind \in kinds

\* All ports of any protocol are a risk, whether the protocol has ports or not.
exposureRisk(r) ==
    r.world /\ (r.proto = "all" \/ r.ports = AllPorts \/ r.ports \intersect Sensitive # {})

\* Outbound rules to everywhere are usual and no exposure.
checkSecurityGroups(s) ==
    {<<"exposed", g.id>> : g \in {h \in s.groups : \E r \in h.rules : r.dir = "in" /\ exposureRisk(r)}}
      \union {<<"unknown group", g.id>> : g \in {h \in s.groups :
                \E r \in h.rules : r.peer # None /\ r.peer \notin Ids(s.groups)}}

checkRouteTables(s) ==
    {<<"blackhole", t.id>> : t \in {u \in s.tables : \E r \in u.routes : ~r.active}}

checkSubnets(s) ==
    LET Routed(x, dest, kinds) == hasDefaultRoute(s, x.id, dest, kinds)
        Egress(x) ==
            \/ Routed(x, "v4", {"igw", "nat", "eigw", "tgw", "pcx", "vgw", "eni"})
            \/ Routed(x, "v6", {"igw", "eigw", "tgw", "pcx"})
    IN  {<<"few addresses", x.id>> : x \in {y \in s.subnets :
           y.free < LowIPs \/ (y.usable > 0 /\ 10 * (y.usable - y.free) >= 9 * y.usable)}}
          \union {<<"useless public", x.id>> : x \in {y \in s.subnets :
                     y.public /\ ~Routed(y, "v4", {"igw"})}}
          \union {<<"no egress", x.id>> : x \in {y \in s.subnets :
                     effectiveRouteTable(s, y.id) # {} /\ ~Egress(y)}}

checkNatGateways(s) ==
    {<<"unused nat", n.id>> : n \in {g \in s.nats : g.state = "available"
        /\ ~\E t \in s.tables : \E r \in t.routes : r.kind = "nat" /\ r.target = g.id}}
      \union {<<"nat down", n.id>> : n \in {g \in s.nats : g.state # "available"}}

checkInternetGateways(s) ==
    {<<"detached", i.id>> : i \in {g \in s.igws : g.state \notin {"available", "attached"}}}

\* A numeric range over all ephemeral ports is for the replies.
naclHasServiceAllow(acl, dir) ==
    \E r \in acl.rules : r.allow /\ r.dir = dir /\ (r.numeric => ~(Ephemeral \subseteq r.ports))

\* Mutant: every refusal counts, those of a few addresses too.
naclAllowsPort_AnyDeny(acl, dir, port) ==
    LET match == {r \in acl.rules : r.dir = dir /\ port \in r.ports}
    IN  \E r \in match : r.allow /\ ~\E q \in match : q.num < r.num /\ ~q.allow

\* The first rule that allows the port wins over refusals of a few addresses.
naclAllowsPort(acl, dir, port) ==
    LET match == {r \in acl.rules : r.dir = dir /\ port \in r.ports}
    IN  \E r \in match : r.allow /\ ~\E q \in match : q.num < r.num /\ ~q.allow /\ q.ips # "some"

naclAllowsEphemeral(acl, dir) == \A port \in Ephemeral : naclAllowsPort(acl, dir, port)

checkNACLs(s) ==
    {<<"replies", a.id>> : a \in {b \in s.acls :
        \/ naclHasServiceAllow(b, "in") /\ ~naclAllowsEphemeral(b, "out")
        \/ naclHasServiceAllow(b, "out") /\ ~naclAllowsEphemeral(b, "in")}}

\* Blocks are the sets of the addresses in them.
peeringOverlap(p) == \E a \in p.requester, b \in p.accepter : a \intersect b # {}

checkPeerings(s) ==
    {<<"overlap", p.id>> : p \in {q \in s.peerings : peeringOverlap(q)}}
      \union {<<"inactive peering", p.id>> : p \in {q \in s.peerings : ~q.active}}

endpointSGsAllowHTTPS(s, e) ==
    \E g \in s.groups : g.id \in e.groups /\ \E r \in g.rules :
      r.dir = "in" /\ r.proto \in {"all", "tcp"} /\ 1 \in r.ports

checkEndpoints(s) ==
    LET interfaces == {e \in s.endpoints : e.type = "interface"}
    IN  {<<"no tables", e.id>> : e \in {f \in s.endpoints : f.type = "gateway" /\ f.tables = {}}}
          \union {<<"https", e.id>> : e \in {f \in interfaces : ~endpointSGsAllowHTTPS(s, f)}}
          \union {<<"private dns", e.id>> : e \in {f \in interfaces : ~f.dns}}
          \union {<<"endpoint down", e.id>> : e \in {f \in s.endpoints : ~f.available}}

\* Without interfaces nothing is known to be unused.
checkOrphans(s) ==
    LET used == UNION {e.groups : e \in s.enis} \union {r.peer : r \in UNION {g.rules : g \in s.groups}}
    IN  IF s.enis = {} THEN {}
        ELSE {<<"unused group", g.id>> : g \in {h \in s.groups : ~h.default /\ h.id \notin used}}
               \union {<<"empty subnet", x.id>> : x \in {y \in s.subnets :
                          y.id \notin {e.subnet : e \in s.enis}}}

\* Rules count by direction, and the last rule of an ACL does not.
checkQuotas(s) ==
    LET Many(S) == Cardinality(S) >= Near
        Rules(x) == \E dir \in {"in", "out"} : Many({r \in x.rules : r.dir = dir})
    IN  {<<"full group", g.id>> : g \in {h \in s.groups : Rules(h)}}
          \union {<<"full table", t.id>> : t \in {u \in s.tables : Many(u.routes)}}
          \union {<<"full acl", a.id>> : a \in {b \in s.acls : Rules(b)}}
          \union {<<"full interface", e.id>> : e \in {i \in s.enis : Many(i.groups)}}
          \union (IF Many(s.subnets) THEN {<<"full", "vpc">>} ELSE {})

analyzeVPC(s) ==
    checkSecurityGroups(s) \union checkRouteTables(s) \union checkSubnets(s)
      \union checkNatGateways(s) \union checkInternetGateways(s) \union checkNACLs(s)
      \union checkPeerings(s) \union checkEndpoints(s) \union checkOrphans(s) \union checkQuotas(s)

-------------------------------------------------------------------------------
\* The facts of a resource that are compared; a subnet's free addresses and the
\* blocks of a peering are not.
Facts(list, x) ==
    CASE list = "subnets" -> {<<"public", x.public>>}
      [] list = "groups" -> x.rules
      [] list \in {"tables", "acls"} ->
           {<<"rule", r>> : r \in IF list = "tables" THEN x.routes ELSE x.rules}
             \union {<<"subnet", u>> : u \in x.subnets}
      [] list \in {"igws", "nats"} -> {<<"state", x.state>>}
      [] list = "peerings" -> {<<"active", x.active>>}
      [] list = "endpoints" ->
           {<<"available", x.available>>, <<"dns", x.dns>>}
             \union {<<"table", t>> : t \in x.tables} \union {<<"group", g>> : g \in x.groups}
             \union {<<"subnet", u>> : u \in x.subnets}
      [] list = "enis" -> {<<"subnet", x.subnet>>, <<"public", x.public>>, <<"groups", x.groups>>}

\* The changes of one kind of resource, as <<list, id, what>>.
diffOneSection(list, old, new) ==
    {<<list, i, "removed">> : i \in Ids(old) \ Ids(new)}
      \union {<<list, i, "added">> : i \in Ids(new) \ Ids(old)}
      \union {<<list, x.id, "modified">> : x \in {y \in old :
                \E z \in new : z.id = y.id /\ Facts(list, z) # Facts(list, y)}}

diffSnapshots(old, new) == UNION {diffOneSection(l, old[l], new[l]) : l \in Lists}

-------------------------------------------------------------------------------
routeTablesTargeting(s, id) ==
    {t.id : t \in {u \in s.tables : \E r \in u.routes : r.target = id}}

\* The main table and the default ACL serve the subnets that have no other.
xrefSubnet(s, x) ==
    LET acls == {a \in s.acls : x.id \in a.subnets}
    IN  Ids(effectiveRouteTable(s, x.id))
          \union Ids(IF acls # {} THEN acls ELSE {a \in s.acls : a.default})
          \union Ids({e \in s.enis : e.subnet = x.id}) \union Ids({n \in s.nats : n.subnet = x.id})

xrefSecurityGroup(s, g) ==
    Ids({e \in s.enis : g.id \in e.groups})
      \union Ids({h \in s.groups : h.id # g.id /\ \E r \in h.rules : r.peer = g.id})

xrefRouteTable(t) == t.subnets \union ({r.target : r \in t.routes} \ {None})

xrefENI(e) == {e.subnet} \union e.groups

\* What a resource is related to, as the ids that are listed for it.
crossReference(s, list, x) ==
    CASE list = "groups" -> xrefSecurityGroup(s, x)
      [] list = "subnets" -> xrefSubnet(s, x)
      [] list = "tables" -> xrefRouteTable(x)
      [] list = "enis" -> xrefENI(x)
      [] list = "nats" -> {x.subnet} \union routeTablesTargeting(s, x.id)
      [] list \in {"igws", "peerings"} -> routeTablesTargeting(s, x.id)
      [] list = "acls" -> x.subnets
      [] list = "endpoints" -> x.tables \union x.groups \union x.subnets \union routeTablesTargeting(s, x.id)

Analyze ==
    Report([findings |-> analyzeVPC(snap),
            changes |-> diffSnapshots(acct, snap),
            related |-> [l \in Lists |-> {<<x.id, crossReference(snap, l, x)>> : x \in snap[l]}]])

Next == buildVPCSnapshot \/ Analyze

-------------------------------------------------------------------------------
Analyzed == Done /\ errs = {}
Partial(list) == snap[list] # acct[list]

\* Replies on some port are refused: to all addresses, or to all addresses of
\* a family because a rule says so.
Refused(acl, dir) ==
    \E port \in Ephemeral :
      LET First(ips) == {r \in acl.rules : r.dir = dir /\ port \in r.ports /\ r.ips = ips
                           /\ ~\E q \in acl.rules : q.dir = dir /\ port \in q.ports /\ q.ips = ips
                                                     /\ q.num < r.num}
      IN  \/ \A ips \in {"v4", "v6"} : \A r \in First(ips) : ~r.allow
          \/ \E ips \in {"v4", "v6"} : \E r \in First(ips) : ~r.allow

\* The findings are true of the VPC, from a part of it too; only a gateway is
\* unused and public addresses are useless if the route tables failed, and an
\* endpoint has no HTTPS if the groups did.
FindingsTrue ==
    Analyzed => \A f \in found.findings :
      /\ f[1] = "unused nat" /\ ~Partial("tables") =>
           ~\E t \in acct.tables : \E r \in t.routes : r.target = f[2]
      /\ f[1] = "useless public" /\ ~Partial("tables") =>
           ~hasDefaultRoute(acct, f[2], "v4", {"igw"})
      /\ f[1] = "no egress" => ~hasDefaultRoute(acct, f[2], "v4", {"igw", "nat"})
      /\ f[1] = "https" /\ ~Partial("groups") =>
           \E e \in acct.endpoints : e.id = f[2] /\ ~endpointSGsAllowHTTPS(acct, e)
      /\ f[1] = "unused group" =>
           /\ ~\E e \in acct.enis : f[2] \in e.groups
           /\ ~\E g \in acct.groups : \E r \in g.rules : r.peer = f[2]
      /\ f[1] = "exposed" => \E g \in acct.groups : \E r \in g.rules :
           g.id = f[2] /\ r.dir = "in" /\ r.world /\ (5 \in r.ports \/ r.proto = "icmp")
      /\ f[1] = "empty subnet" => ~\E e \in acct.enis : e.subnet = f[2]
      /\ f[1] = "unknown group" => \E g \in acct.groups : \E r \in g.rules :
           g.id = f[2] /\ r.peer \notin Ids(acct.groups)
      /\ f[1] = "replies" => \E a \in acct.acls, dir \in {"in", "out"} :
           a.id = f[2] /\ Refused(a, dir) /\ \E r \in a.rules : r.allow /\ r.dir # dir

\* Against the VPC itself as its baseline nothing has changed, but for what a
\* list that failed did not show: that is reported as removed.
NothingChanged ==
    Analyzed => \A c \in found.changes : c[3] = "removed" /\ Partial(c[1])

\* What is related to something is listed where the other is shown, except for
\* the subnets a main table or a default ACL serves for want of another, the
\* groups a group refers to, and what an endpoint uses.
Symmetric ==
    Analyzed => \A l, k \in Lists : \A a \in found.related[l], b \in found.related[k] :
      b[1] \in a[2] =>
        \/ a[1] \in b[2]
        \/ l = "subnets" /\ k \in {"tables", "acls"} /\ ~\E x \in snap[k] : a[1] \in x.subnets
        \/ l = "groups" /\ k = "groups"
        \/ l = "endpoints" /\ k \in {"tables", "groups", "subnets"}

\* The findings hold in the VPC unless a list they rest on could not be read; a
\* baseline of the same VPC differs in nothing; and of two resources each names
\* the other.
Sound == FindingsTrue /\ NothingChanged /\ Symmetric
-------------------------------------------------------------------------------
(***************************************************************************)
(* The full report of a VPC: the resources of the other services that are  *)
(* in it, one listing per service beside the snapshot of its networking.   *)
(* A listing that fails is left out and named in the report; one that is   *)
(* denied is left out and not named.  acct is one service's resources and  *)
(* the subnets of the VPC; a resource is in the VPC if it says so, or if   *)
(* one of its subnets is the VPC's.                                        *)
(***************************************************************************)

\* Every failure of the first is recorded; the others are silent when denied.
Strict == {"flow logs", "ec2"}
ByVpc == {"lambda", "rds", "load balancers", "redshift", "transit gateway attachments", "elasticache",
          "eks", "efs"}
BySubnet == {"ecs", "emr"}
Vpn == {"vpn gateways", "vpn connections", "customer gateways"}

\* snap.denied and snap.lost say, for the properties alone, that a listing was
\* denied and which resources could not be described.
ExportInit == Start(Accounts, [subnets |-> {}, rows |-> {}, denied |-> FALSE, lost |-> {}], "snapshot")

\* The snapshot is best-effort: its subnets may be missing.
Snapshot ==
    /\ pc = "snapshot" /\ pc' = acct.family /\ UNCHANGED <<acct, errs, found>>
    /\ \E subnets \in {{}, acct.subnets} : snap' = [snap EXCEPT !.subnets = subnets]

\* A listing of the rows, all of them or none.
List(family, rows, to) ==
    /\ Step(family, to)
    /\ \E outcome \in {"ok", "failed", "denied"} :
         /\ snap' = [snap EXCEPT !.rows = @ \union (IF outcome = "ok" THEN rows ELSE {}),
                                 !.denied = @ \/ outcome = "denied"]
         /\ Record(family, {outcome = "ok" \/ (outcome = "denied" /\ family \notin Strict)})

ListPlain ==
    \E family \in (Strict \union ByVpc) \ {"eks", "efs", "load balancers"} :
      List(family, {r \in acct.rows : r.here}, "analyze")

\* The region's load balancers, of which the VPC's are kept.
ListLoadBalancers == List("load balancers", {r \in acct.rows : r.here}, "analyze")

\* What cannot be described is left out, and the report does not say so.
ListDescribed ==
    \E family \in {"eks", "efs"}, lost \in SUBSET acct.rows :
      /\ Step(family, "analyze")
      /\ \E outcome \in {"ok", "failed", "denied"} :
           /\ snap' = [snap EXCEPT !.rows = IF outcome = "ok" THEN {r \in acct.rows \ lost : r.here} ELSE {},
                                   !.denied = outcome = "denied", !.lost = lost]
           /\ Record(family, {outcome # "failed"})

\* Mutant: the resources of other VPCs are listed, too.
ListBySubnet_All ==
    \E family \in BySubnet :
      /\ Step(family, "analyze")
      /\ snap' = [snap EXCEPT !.rows = acct.rows]
      /\ UNCHANGED errs

\* A resource is in the VPC if one of its subnets is; with no subnets none is
\* looked for.
ListBySubnet ==
    \E family \in BySubnet, lost \in SUBSET acct.rows :
      /\ Step(family, "analyze")
      /\ \E outcome \in IF snap.subnets = {} THEN {"ok"} ELSE {"ok", "failed", "denied"} :
           /\ snap' = [snap EXCEPT
                !.rows = IF outcome = "ok"
                         THEN {r \in acct.rows \ lost : r.subnets \intersect snap.subnets # {}} ELSE {},
                !.denied = outcome = "denied", !.lost = lost]
           /\ Record(family, {outcome # "failed"})

\* The connections of the gateways that were listed, and the customers' ends of
\* those.
VpnRows(kind) == {r \in acct.rows : r.kind = kind}
Used == UNION {r.uses : r \in snap.rows}

Chain(family, rows, to) ==
    IF rows = {} THEN Step(family, to) /\ UNCHANGED <<snap, errs>> ELSE List(family, rows, to)

ListVPN ==
    /\ pc \in Vpn
    /\ \/ List("vpn gateways", {r \in VpnRows("gateway") : r.here}, "vpn connections")
       \/ Chain("vpn connections", {r \in VpnRows("connection") :
                   \E g \in snap.rows : r.gateway = g.id}, "customer gateways")
       \/ Chain("customer gateways", {r \in VpnRows("customer") : r.id \in Used}, "analyze")

Export == Report(snap.rows)

ExportNext == Snapshot \/ ListPlain \/ ListLoadBalancers \/ ListDescribed \/ ListBySubnet \/ ListVPN \/ Export

InVpc ==
    IF acct.family \in BySubnet THEN {r \in acct.rows : r.subnets \intersect acct.subnets # {}}
    ELSE IF acct.family \notin Vpn THEN {r \in acct.rows : r.here}
    ELSE LET near == {r \in acct.rows : r.kind = "gateway" /\ r.here}
             lines == {r \in acct.rows : r.kind = "connection" /\ \E g \in near : g.id = r.gateway}
         IN  near \union lines \union {r \in acct.rows : r.kind = "customer"
                                                   /\ r.id \in UNION {l.uses : l \in lines}}

\* The report lists nothing that is not in the VPC, and of the VPN nothing
\* whose nearer end is missing.
ExportSound ==
    /\ found \subseteq InVpc
    /\ \A r \in found : acct.family \in Vpn =>
         /\ r.kind = "connection" => \E g \in found : g.id = r.gateway
         /\ r.kind = "customer" => \E l \in found : r.id \in l.uses

\* A report without a load error is complete, unless a listing was denied, the
\* snapshot came without its subnets, or a resource could not be described.
ExportAccounted ==
    Done /\ errs = {} /\ ~snap.denied /\ snap.lost = {} /\ snap.subnets = acct.subnets => found = InVpc
================================================================================
