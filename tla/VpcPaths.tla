-------------------------------- MODULE VpcPaths --------------------------------
(***************************************************************************)
(* The connectivity answers of the VPC explorer: the path trace, the       *)
(* effective rules of an interface and the public exposure, computed from  *)
(* a snapshot of what the API returns.  A CIDR is the set of the addresses *)
(* it contains, a port range the set of its ports: 1 is a service port, 2  *)
(* the ephemeral port that is probed, 3 another ephemeral port.  A route   *)
(* says how long its prefix is.                                            *)
(***************************************************************************)
EXTENDS Collect, Integers

CONSTANTS Accounts, None,
    Everyone,    \* all addresses
    Internet     \* one outside the VPC

AnyPort == 0 - 1
AllPorts == 1..3
Probed == 2

Init == Start(Accounts, [enis |-> {}, groups |-> <<>>, nacls |-> {}, tables |-> {}, nats |-> {}], "snapshot")

\* A permission is a rule for each of its blocks and groups; one without any is
\* a rule that matches nobody.
permToRules(perm) ==
    LET Rule(ips, group) ==
            [dir |-> perm.dir, proto |-> perm.proto, group |-> group, ips |-> ips, public |-> ips = Everyone,
             ports |-> IF perm.ports = None THEN AllPorts ELSE perm.ports]
        rules == {Rule(b, None) : b \in perm.blocks} \union {Rule({}, g) : g \in perm.groups}
    IN  IF rules = {} THEN {Rule({}, None)} ELSE rules

ListSecurityGroups(groups) == [g \in DOMAIN groups |-> UNION {permToRules(perm) : perm \in groups[g]}]

\* The default rule at the end refuses everything; without a range all ports
\* are meant.
ListNetworkACLs(acls) ==
    {[subnets |-> a.subnets, default |-> a.default,
      rules |-> {[num |-> e.num, dir |-> IF e.egress THEN "out" ELSE "in", proto |-> e.proto, ips |-> e.ips,
                  allow |-> e.allow, ports |-> IF e.ports = None THEN AllPorts ELSE e.ports] :
                   e \in a.entries}] : a \in acls}

\* A gateway, the VPC itself included, comes before the other targets.
routeTarget(r) ==
    IF r.gateway # None THEN r.gateway ELSE IF r.nat # None THEN r.nat ELSE r.other

ListRouteTables(tables) ==
    {[main |-> TRUE \in {a.main : a \in t.associations},
      subnets |-> {a.subnet : a \in t.associations} \ {None},
      routes |-> {[ips |-> r.ips, len |-> r.len, target |-> routeTarget(r), active |-> r.active] :
                    r \in t.routes}] : t \in tables}

\* The addresses that are not primary are the secondary ones.
ListNetworkInterfaces(enis) ==
    {[id |-> e.id, subnet |-> e.subnet, groups |-> e.groups, public |-> e.association # None,
      ip |-> CHOOSE a \in e.addresses : a = e.primary, second |-> e.addresses \ {e.primary}] : e \in enis}

\* A snapshot all of whose lists were read; VpcFindings has those that were not.
Snapshot ==
    /\ Step("snapshot", "analyze") /\ UNCHANGED errs
    /\ snap' = [enis |-> ListNetworkInterfaces(acct.net.enis), groups |-> ListSecurityGroups(acct.net.groups),
                nacls |-> ListNetworkACLs(acct.net.acls), tables |-> ListRouteTables(acct.net.tables),
                nats |-> acct.net.nats]

-------------------------------------------------------------------------------
\* The snapshot: interfaces, groups, network ACLs, route tables, NAT gateways.
Source == CHOOSE e \in snap.enis : e.id = acct.req.from
Holders == {e \in snap.enis : acct.req.to \in {e.ip} \union e.second}
Target == IF Holders = {} THEN None ELSE CHOOSE e \in Holders : TRUE

naclForSubnet(s) ==
    LET own == {n \in snap.nacls : s \in n.subnets}
        default == {n \in snap.nacls : n.default}
    IN  IF own # {} THEN CHOOSE n \in own : TRUE
        ELSE IF default # {} THEN CHOOSE n \in default : TRUE ELSE None

effectiveRouteTable(s) ==
    LET own == {t \in snap.tables : s \in t.subnets}
        main == {t \in snap.tables : t.main}
    IN  IF own # {} THEN CHOOSE t \in own : TRUE
        ELSE IF main # {} THEN CHOOSE t \in main : TRUE ELSE None

\* Routes to prefix lists have no addresses and never match.
longestPrefixRoute(t, ip) ==
    LET match == IF t = None THEN {} ELSE {r \in t.routes : ip \in r.ips}
    IN  IF match = {} THEN None
        ELSE CHOOSE r \in match : \A q \in match : q.len <= r.len

protoMatch(r, proto) == r.proto \in {"all", proto}

\* Any port takes a rule for all ports.
portMatch(r, port) == IF port = AnyPort THEN r.ports = AllPorts ELSE port \in r.ports

\* A peer is a CIDR or a security group; a prefix list is neither.
sgPeerMatches(r, ip, eni) ==
    IF r.group # None THEN eni # None /\ r.group \in eni.groups ELSE ip \in r.ips

sgAllows(eni, dir, ip, peer, port) ==
    \E g \in eni.groups \intersect DOMAIN snap.groups :
      \E r \in snap.groups[g] :
        r.dir = dir /\ protoMatch(r, "tcp") /\ portMatch(r, port) /\ sgPeerMatches(r, ip, peer)

\* The rules of one direction in the order of their numbers.
rulesForDir(nacl, dir) ==
    LET of == {r \in nacl.rules : r.dir = dir}
    IN  [i \in 1..Cardinality(of) |->
           CHOOSE r \in of : Cardinality({q \in of : q.num < r.num}) = i - 1]

\* Mutant: every rule that matches must allow it.
naclAllows_Any(nacl, dir, port, ip) ==
    nacl # None =>
      LET rules == rulesForDir(nacl, dir)
          match == {i \in DOMAIN rules :
                      protoMatch(rules[i], "tcp") /\ portMatch(rules[i], port) /\ ip \in rules[i].ips}
      IN  match # {} /\ \E i \in match : rules[i].allow

\* The first rule that matches decides.
naclAllows(nacl, dir, port, ip) ==
    nacl # None =>
      LET rules == rulesForDir(nacl, dir)
          match == {i \in DOMAIN rules :
                      protoMatch(rules[i], "tcp") /\ portMatch(rules[i], port) /\ ip \in rules[i].ips}
      IN  match # {} /\ rules[CHOOSE i \in match : \A j \in match : i <= j].allow

naclAllowsEphemeralReturn(nacl, dir, ip) == naclAllows(nacl, dir, Probed, ip)

\* The hops of the trace in their order, as <<name, passes>>; the trace ends at
\* the first that does not.
Hops ==
    LET src == Source
        dst == Target
        to == acct.req.to
        port == acct.req.port
        same == dst # None /\ src.subnet = dst.subnet
        srcNacl == naclForSubnet(src.subnet)
        dstNacl == naclForSubnet(dst.subnet)
        route == longestPrefixRoute(effectiveRouteTable(src.subnet), to)
        target == IF route = None THEN None ELSE route.target
        gateway == {n \in snap.nats : n.id = target}
    IN  <<<<"group egress", sgAllows(src, "out", to, dst, port)>>,
          <<"acl egress", same \/ naclAllows(srcNacl, "out", port, to)>>,
          <<"route", route # None /\ route.active>>>>
        \o (CASE target = "local" /\ dst # None ->
                   <<<<"acl ingress", same \/ naclAllows(dstNacl, "in", port, src.ip)>>,
                     <<"group ingress", sgAllows(dst, "in", src.ip, src, port)>>,
                     <<"acl return", same \/ naclAllowsEphemeralReturn(dstNacl, "out", src.ip)>>,
                     <<"source return", same \/ naclAllowsEphemeralReturn(srcNacl, "in", dst.ip)>>>>
              [] target = "igw" ->
                   <<<<"public address", src.public>>,
                     <<"source return", naclAllowsEphemeralReturn(srcNacl, "in", to)>>>>
              [] target = "nat" ->
                   <<<<"nat", \A n \in gateway : n.available>>,
                     <<"source return", naclAllowsEphemeralReturn(srcNacl, "in", to)>>>>
              [] OTHER -> <<>>)

tracePath ==
    LET hops == Hops
        blocked == {i \in DOMAIN hops : ~hops[i][2]}
    IN  IF blocked = {} THEN "reachable"
        ELSE hops[CHOOSE i \in blocked : \A j \in blocked : i <= j][1]

\* The rules of all groups of an interface, each once, with the groups that
\* have it.
computeEffectiveRules(eni) ==
    LET groups == eni.groups \intersect DOMAIN snap.groups
    IN  {[rule |-> r, groups |-> {g \in groups : r \in snap.groups[g]}] :
           r \in UNION {snap.groups[g] : g \in groups}}

\* Inbound rules from everywhere.
publicInboundPorts(eni) ==
    UNION {r.ports : r \in {q \in UNION {snap.groups[g] : g \in eni.groups \intersect DOMAIN snap.groups} :
                              q.dir = "in" /\ q.group = None /\ q.public}}

\* An active default route to an internet gateway.
hasDefaultRoute(s) ==
    LET t == effectiveRouteTable(s)
    IN  t # None /\ \E r \in t.routes : r.len = 0 /\ r.active /\ r.target = "igw"

exposureReport ==
    {e.id : e \in {x \in snap.enis : x.public /\ hasDefaultRoute(x.subnet) /\ publicInboundPorts(x) # {}}}

Analyze ==
    Report([trace |-> tracePath, effective |-> computeEffectiveRules(Source),
            exposed |-> exposureReport])

Next == Snapshot \/ Analyze

-------------------------------------------------------------------------------
(***************************************************************************)
(* What AWS does, from what the API said.  A packet from or to ip passes a *)
(* network ACL if the entry with the lowest number that matches lets it,   *)
(* and a group if one of its permissions is for it.                        *)
(***************************************************************************)
Covers(x, port) == x.proto \in {"all", "tcp"} /\ (x.ports = None \/ port \in x.ports)

Acl(subnet) ==
    LET own == {a \in acct.net.acls : subnet \in a.subnets}
    IN  IF own # {} THEN own ELSE {a \in acct.net.acls : a.default}

Passes(subnet, egress, port, ip) ==
    \A a \in Acl(subnet) : \E e \in a.entries :
      /\ e.egress = egress /\ e.allow /\ Covers(e, port) /\ ip \in e.ips
      /\ \A q \in a.entries :
           q.egress = egress /\ q.num < e.num /\ ip \in q.ips => ~Covers(q, port)

GroupsPass(groups, dir, port, ip, peers) ==
    \E g \in groups \intersect DOMAIN acct.net.groups : \E perm \in acct.net.groups[g] :
      /\ perm.dir = dir /\ Covers(perm, port)
      /\ (\E b \in perm.blocks : ip \in b) \/ perm.groups \intersect peers # {}

\* The most specific routes to ip from a subnet.
Best(subnet, ip) ==
    LET own == {t \in acct.net.tables : \E a \in t.associations : a.subnet = subnet}
        main == {t \in acct.net.tables : \E a \in t.associations : a.main}
        routes == {r \in UNION {t.routes : t \in IF own # {} THEN own ELSE main} : ip \in r.ips}
    IN  {r \in routes : ~\E q \in routes : q.len > r.len}

\* A connection works if its packets pass the network ACL of every subnet they
\* leave or enter, in both directions, and the groups of both ends let it be
\* opened.  What is beyond another gateway is not asked.
Works(ephemeral) ==
    LET src == CHOOSE e \in acct.net.enis : e.id = acct.req.from
        to == acct.req.to
        port == acct.req.port
        ends == {e \in acct.net.enis : to \in e.addresses}
        crosses == \A e \in ends : e.subnet # src.subnet
    IN  /\ GroupsPass(src.groups, "out", port, to, UNION {e.groups : e \in ends})
        /\ crosses => Passes(src.subnet, TRUE, port, to)
        /\ \E r \in Best(src.subnet, to) :
             /\ r.active
             /\ crosses /\ (r.gateway = "local" => ends # {}) /\ r.other = None =>
                  Passes(src.subnet, FALSE, ephemeral, to)
             /\ r.gateway = "igw" => src.association # None
             /\ r.nat # None => \A n \in acct.net.nats : n.available
             /\ r.gateway = "local" => \A e \in ends :
                  /\ GroupsPass(e.groups, "in", port, src.primary, src.groups)
                  /\ crosses => /\ Passes(e.subnet, FALSE, port, src.primary)
                                /\ Passes(e.subnet, TRUE, ephemeral, src.primary)

\* A trace to one port says what AWS does with it if the client's ephemeral
\* port is the probed one; not, however, with a secondary address of the
\* destination, whose replies are looked up by its primary address.
TraceExact ==
    Done /\ acct.req.port # AnyPort /\ (\A e \in acct.net.enis : acct.req.to \in e.addresses => acct.req.to = e.primary) =>
        (found.trace = "reachable" <=> Works(Probed))

\* What is reported reachable from the internet is: it has a public address,
\* a way back, and a port open to everyone, unless a network ACL refuses it,
\* which the report does not look at, or a longer prefix leads elsewhere.
ExposedReachable ==
    Done => \A e \in acct.net.enis : e.id \in found.exposed =>
      /\ e.association # None
      /\ \E port \in AllPorts : GroupsPass(e.groups, "in", port, Internet, {})
      /\ \A r \in Best(e.subnet, Internet) : r.len = 0 => r.gateway = "igw" /\ r.active

\* What the merged rules of an interface let through is what its groups do, and
\* no rule is shown twice.
EffectiveExact ==
    Done =>
      LET src == CHOOSE e \in acct.net.enis : e.id = acct.req.from
      IN  /\ \A x, y \in found.effective : x.rule = y.rule => x = y
          /\ \A dir \in {"in", "out"}, port \in AllPorts, ip \in Everyone :
               GroupsPass(src.groups, dir, port, ip, {}) <=>
                 \E x \in found.effective : /\ x.rule.dir = dir /\ ip \in x.rule.ips
                                            /\ x.rule.proto \in {"all", "tcp"} /\ port \in x.rule.ports

\* What is said of paths, exposure and effective rules is what the tables, ACLs
\* and groups do to a packet.
Sound == TraceExact /\ ExposedReachable /\ EffectiveExact
==================================================================================
