--------------------------------- MODULE Reads ---------------------------------
(***************************************************************************)
(* The parts of the program that read an account call by call and report   *)
(* on what they got.  One of them runs, on a small account: the resources  *)
(* have the attributes the checks tell apart, and the families that no     *)
(* check relates are filled one at a time.                                 *)
(***************************************************************************)
EXTENDS Collect, Integers

CONSTANTS None, Max

VARIABLE app   \* the part that runs

\* The accounts in which the families of one group are filled and the others
\* have what is in empty.
Filled(empty, group) ==
    {[f \in DOMAIN empty |-> IF f \in DOMAIN x THEN x[f] ELSE empty[f]] : x \in group}

\* The sets of at most n \in {1, 2, 3} members of S.
SomeOf(S, n) ==
    {{}} \union (IF n = 1 THEN {{x} : x \in S}
                 ELSE IF n = 2 THEN {{x, y} : x, y \in S} ELSE {{x, y, z} : x, y, z \in S})

Unique(S) == {P \in S : \A x, y \in P : x.id = y.id => x = y}

Volumes == {[id |-> 1, available |-> TRUE, attached |-> FALSE, type |-> "gp2"],
            [id |-> 2, available |-> FALSE, attached |-> TRUE, type |-> "gp2"],
            [id |-> 3, available |-> FALSE, attached |-> TRUE, type |-> "gp3"]}
Instances == [id : {1, 2}, stopped : {TRUE}, image : {1}, vols : {{2}, {2, 3}}]
               \union [id : {3}, stopped : {FALSE}, image : {2}, vols : {{1}}]
Images == [id : {1, 2}, old : {TRUE}, snaps : {{1}}] \union [id : {3}, old : {FALSE}, snaps : {{}}]
LoadBalancers == [id : {1, 2}, type : {"application"}, old : BOOLEAN, requests : {0, 1}]
                   \union [id : {1, 2}, type : {"gateway"}, old : {TRUE}, requests : {0}]
CostAccounts ==
    LET E == [vols |-> {}, addrs |-> {}, nats |-> {}, routes |-> {}, insts |-> {}, snaps |-> {},
              images |-> {}, lbs |-> {}, tgs |-> {}, tables |-> {}]
    IN  Filled(E, [vols : SUBSET Volumes, insts : SomeOf(Instances, 1)])
          \union Filled(E, [insts : SomeOf(Instances, 2), images : SomeOf(Images, 2),
                            snaps : SUBSET [id : {1}, old : BOOLEAN]])
          \union Filled(E, [addrs : SUBSET [id : {1}, associated : BOOLEAN],
                            nats : SUBSET [id : {1, 2}, available : {TRUE}],
                            routes : SUBSET [nats : {{}, {1}, {2}}]])
          \union Filled(E, [lbs : {S \in SomeOf(LoadBalancers, 2) :
                                      \A k, l \in S : k.id = l.id => k = l},
                            tgs : SomeOf([lbs : {{}, {1}, {1, 2}}, healthy : BOOLEAN], 2)])
          \union Filled(E, [tables : SomeOf([id : {1}, units : {0, 5, 20}, old : BOOLEAN,
                                             idle : BOOLEAN, peak : {1, 20}], 1)])

Rule == [proto : {"tcp"}, from : {22}, to : {22, 3389}, world : BOOLEAN]
          \union {[proto |-> p, from |-> 0 - 1, to |-> 0 - 1, world |-> TRUE] : p \in {"-1", "udp"}}
Policy == SUBSET [allow : {TRUE}, condition : BOOLEAN, everyone : BOOLEAN]
SecurityAccounts ==
    LET E == [vols |-> {}, default |-> TRUE, shared |-> {}, insts |-> {}, groups |-> {}, dbs |-> {},
              dbsnaps |-> {}, functions |-> {}, queues |-> {}, topics |-> {}, alarms |-> {},
              buckets |-> {}]
    IN  Filled(E, [vols : SUBSET [id : {1}, encrypted : BOOLEAN], default : BOOLEAN,
                   shared : SUBSET {1}])
          \union Filled(E, [insts : SomeOf([id : {1}, terminated : BOOLEAN, endpoint : BOOLEAN,
                                            tokens : BOOLEAN], 1)])
          \union Filled(E, [groups : SomeOf([id : {1}, rules : SomeOf(Rule, 2)], 1)])
          \union Filled(E, [dbs : SUBSET [id : {1}, public : BOOLEAN, encrypted : BOOLEAN]])
          \union Filled(E, [dbsnaps : SUBSET [id : 1..Max, public : {TRUE}]])
          \union Filled(E, [functions : SUBSET [id : 1..Max, noauth : {TRUE}]])
          \union Filled(E, [queues : SomeOf([id : 1..Max, policy : Policy], 1)])
          \union Filled(E, [topics : SomeOf([id : 1..Max, policy : {{}}], Max)])
          \union Filled(E, [alarms : SUBSET [id : {1}, nodata : BOOLEAN, old : BOOLEAN]])
          \union Filled(E, [buckets : SomeOf([id : {1, 2, 3}, region : {"home", "far"}, public : {TRUE},
                                              blocked : {FALSE}, encrypted : {FALSE}], Max + 1)])

MessagingAccounts ==
    [queues : {S \in SomeOf([id : {1, 2}, depth : {0, 1}, inflight : {0}, received : {0, 1},
                             redrive : {None, 1, 2}], 2) : \A k, l \in S : k.id = l.id => k = l},
     topics : {{}}]
      \union [queues : {S \in SomeOf([id : {1, 2, 3}, depth : {0}, inflight : {0}, received : {0},
                                    redrive : {None, 3}], 3) : \A k, l \in S : k.id = l.id => k = l},
              topics : {{}}]
      \union [queues : {{}}, topics : SomeOf([id : {1}, confirmed : {0, 1}, pending : {0, 1}], 2)]

Run == [state : {"SUCCEEDED", "FAILED", "RUNNING"}, short : {TRUE}, billed : {TRUE}, old : {FALSE}]
Net == {<<"subnet", 1>>, <<"sg", 1>>}
GlueAccounts ==
    LET E == [jobs |-> {}, crawlers |-> {}, conns |-> {}, nets |-> {}]
    IN  Filled(E, [jobs : SomeOf([id : {1}, secured : BOOLEAN, workers : {1, 10},
                                  runs : UNION {[1..n -> Run] : n \in 0..3}], 1)])
          \union Filled(E, [jobs : SUBSET [id : 1..Max, secured : {FALSE}, workers : {1},
                                           runs : {<<>>}]])
          \union Filled(E, [crawlers : SomeOf([id : {1, 2}, last : {"FAILED", "SUCCEEDED"},
                                               running : BOOLEAN, long : BOOLEAN], 2)])
          \union Filled(E, [conns : SomeOf([id : {1, 2}, nets : SUBSET Net], 2), nets : SUBSET Net])

EMRAccounts ==
    {S \in SomeOf([id : {1, 2}, state : {"WAITING"}, age : {2}, auto : BOOLEAN, logs : BOOLEAN,
                   secured : {TRUE}, consistent : BOOLEAN, step : {"FAILED", "COMPLETED"}]
                  \union [id : {1}, state : {"RUNNING", "TERMINATED", "TERMINATED_WITH_ERRORS"},
                          age : {0, 1}, auto : {TRUE}, logs : {FALSE}, secured : {FALSE},
                          consistent : {FALSE}, step : {None}], 2) :
        \A k, l \in S : k.id = l.id => k = l}

Functions ==
    SomeOf([id : {1, 2}, runtime : {None, "deprecated", "deprecating"}, dlq : BOOLEAN,
            state : {None, "Failed", "Active"}, update : {"Failed", "Successful"}], 2)
      \union SUBSET [id : 1..(Max + 1), runtime : {None}, dlq : {FALSE}, state : {None}, update : {"Failed"}]
Trails ==
    [id : {1, 2}, multi : BOOLEAN, global : {TRUE}, validated : {FALSE}, kms : {TRUE}, logs : {FALSE},
     logging : BOOLEAN, classic : SUBSET [management : {TRUE}, all : BOOLEAN],
     advanced : SUBSET [management : {TRUE}, restricted : {TRUE}]]

Age == {None, "new", "old"}
IAMAccounts ==
    LET E == [users |-> {}, roles |-> {}, policies |-> {}]
    IN  Filled(E, [users : SomeOf([id : {1}, root : BOOLEAN, password : BOOLEAN, mfa : BOOLEAN,
                                   keys : SomeOf([active : BOOLEAN, rotated : Age, used : Age], 1)], 1)])
          \union Filled(E, [roles : SomeOf([id : 1..Max, service : BOOLEAN, open : {FALSE},
                                            created : Age, used : {None, "new"}], 2)])
          \union Filled(E, [policies : SomeOf([id : 1..Max, admin : BOOLEAN, users : SUBSET {1, 2}], 2)])

\* A collector's account has its rows spread over the families: the ones with
\* a single family have several rows.
Rows(n) == [id : 1..n, kind : {"usual", "other"}, parent : BOOLEAN]
SomeRows(n) == {S \in SomeOf(Rows(n), n) : \A r, s \in S : r.id = s.id => r = s}
Plain(n) == SUBSET [id : 1..n, kind : {"usual"}, parent : {FALSE}]
OneList == {"acm", "athena", "cloudformation", "cloudfront", "cloudwatch", "dynamodb", "ecr", "ecs",
            "efs", "eks", "elasticache", "elbv2", "kinesis", "lambda", "redshift", "route53", "s3",
            "secretsmanager", "sns", "sqs", "stepfunctions"}
CollectorAccounts ==
    [service : OneList, level : {"summary"}, emit : BOOLEAN, rows : [{1} -> Plain(3)]]
      \union [service : {"s3"}, level : {"detailed"}, emit : BOOLEAN, rows : [{1} -> Plain(3)]]
      \union [service : {"emr"}, level : {"minimal", "summary", "detailed"}, emit : BOOLEAN,
              rows : [{1} -> SomeRows(2)]]
      \union [service : {"eventbridge"}, level : {"summary"}, emit : BOOLEAN, rows : [{1} -> SomeRows(2)]]
      \union [service : {"kms"}, level : {"summary"}, emit : BOOLEAN,
              rows : {<<a, k>> : a \in Plain(1), k \in SomeRows(2)}]
      \union [service : {"rds", "apigateway"}, level : {"summary"}, emit : BOOLEAN,
              rows : [1..2 -> Plain(2)]]
      \union [service : {"iam"}, level : {"summary"}, emit : BOOLEAN, rows : [1..5 -> Plain(1)]]
      \union [service : {"ec2", "glue"}, level : {"summary"}, emit : BOOLEAN, rows : [1..6 -> Plain(1)]]

\* Two interfaces, the second with a secondary address 3; 1, 2 and 3 are the
\* addresses of the VPC, 9 is outside.
Everywhere == {1, 2, 3, 9}
Interface(i, subnet, addresses, groups, association) ==
    [id |-> i, primary |-> i, addresses |-> addresses, subnet |-> subnet, groups |-> groups,
     association |-> association]
Permission(dir, proto, ports, blocks, groups) ==
    [dir |-> dir, proto |-> proto, ports |-> ports, blocks |-> blocks, groups |-> groups]
Entry(num, egress, ports, ips, allow) ==
    [num |-> num, egress |-> egress, proto |-> "all", ports |-> ports, ips |-> ips, allow |-> allow]
Open == [g \in {"open"} |-> {Permission(d, "all", None, {Everywhere}, {}) : d \in {"in", "out"}}]
RouteTo(ips, len, gateway, nat, other, active) ==
    [ips |-> ips, len |-> len, gateway |-> gateway, nat |-> nat, other |-> other, active |-> active]
Routes == {RouteTo(Everywhere, 0, g[1], g[2], g[3], active) :
             g \in {<<"igw", None, None>>, <<None, "nat", None>>, <<None, None, "tgw">>}, active \in BOOLEAN}
            \union {RouteTo({9}, 8, g[1], g[2], None, TRUE) : g \in {<<"igw", None>>, <<None, "nat">>}}
Table(main, subnets, routes) ==
    [associations |-> {[main |-> FALSE, subnet |-> u] : u \in subnets}
                        \union {[main |-> TRUE, subnet |-> None] : m \in {main} \ {FALSE}},
     routes |-> {RouteTo({1, 2, 3}, 16, "local", None, None, TRUE)} \union routes]
Request(to, port) == [from |-> 1, to |-> to, port |-> port]
PathAccounts ==
    LET Pair(subnet, from, to) ==
            {Interface(1, "a", {1}, from, "eip"), Interface(2, subnet, {2, 3}, to, None)}
        Vpc(enis, groups, acls, tables, nats) ==
            [enis |-> enis, groups |-> groups, acls |-> acls, tables |-> tables, nats |-> nats]
        Inner == {Table(TRUE, {}, {})}
        Denied == SomeOf({Entry(1, d, p, {i}, FALSE) : d \in BOOLEAN, p \in {{1}, {2}}, i \in {1, 2, 3}}, 1)
        Allowed(in, out) == {Entry(2, FALSE, in, Everywhere, TRUE), Entry(2, TRUE, out, Everywhere, TRUE)}
        Acls(ins, outs) == {deny \union Allowed(in, out) : deny \in Denied, in \in ins, out \in outs}
        Permissions(dirs) ==
            {Permission(d, "tcp", p, b, {}) : d \in dirs, p \in {{1}, None},
                                              b \in {{}, {{1}}, {Everywhere}, {{1}, {2}}}}
              \union {Permission(d, "tcp", {1}, {}, {g}) : d \in dirs, g \in {"s", "d"}}
    IN  \* the groups of two interfaces in one subnet
        {[net |-> Vpc(Pair("a", {"s"}, to), [g \in {"s", "d"} |-> IF g = "s" THEN s ELSE d], {}, Inner, {}),
          req |-> Request(ip, port)] :
            to \in {{"d"}, {"s", "d"}}, s \in SomeOf(Permissions({"out"}), 1),
            d \in SomeOf(Permissions({"in", "out"}), 1), ip \in {2, 3}, port \in {1, 0 - 1}}
          \* the network ACLs between two subnets, or of the first and the internet
          \union
        {[net |-> Vpc(Pair("b", {"open"}, {"open"}), Open,
                      {[subnets |-> {"a"}, default |-> FALSE, entries |-> near],
                       [subnets |-> {}, default |-> TRUE, entries |-> far]},
                      {Table(TRUE, {}, {RouteTo(Everywhere, 0, "igw", None, None, TRUE)})}, {}),
          req |-> Request(ip, port)] :
            near \in Acls({{2}, None}, {{1}, None}), far \in {Allowed({1}, {2})} \union Acls({None}, {None}),
            ip \in {2, 3, 9}, port \in {1, 0 - 1}}
          \* the routes to the internet
          \union
        {[net |-> Vpc({Interface(1, "a", {1}, {"open"}, association)}, Open, {},
                      {Table(TRUE, {}, main), Table(FALSE, own, routes)}, [id : {"nat"}, available : {up}]),
          req |-> Request(ip, 1)] :
            association \in {None, "eip"}, main \in SomeOf(Routes, 1), own \in {{}, {"a"}},
            routes \in {S \in SomeOf(Routes, 2) : \A q, r \in S : q.ips = r.ips => q = r},
            up \in BOOLEAN, ip \in {3, 9}}

VpcGroups ==
    LET Rules(dirs, protos, ports, world, peers) ==
            [dir : dirs, proto : protos, ports : ports, world : world, peer : peers]
    IN  [id : {"g2"}, default : {TRUE}, rules : {{}}]
          \union [id : {"g1"}, default : {FALSE},
                  rules : SomeOf(Rules({"in", "out"}, {"tcp"}, {{1}, {5}, {1, 5}}, {TRUE}, {None})
                                   \union Rules({"in"}, {"icmp", "all"}, {1..5}, BOOLEAN, {None}), 1)]
          \union [id : {"g1", "g2"}, default : {FALSE},
                  rules : SomeOf(Rules({"in", "out"}, {"tcp"}, {{1}, {2}}, {FALSE}, {None, "g1", "g9"}), 1)]
VpcTables ==
    [id : {"t1", "t2"}, main : BOOLEAN, subnets : {{}, {"s1"}},
     routes : SomeOf([dest : {"v4"}, kind : {"igw"}, target : {"i1"}, active : BOOLEAN]
                       \union [dest : {"v4", "v6"}, kind : {"nat"}, target : {"n1"}, active : {TRUE}], 1)]
VpcAcls ==
    LET Ordered(d, n, r) ==
            {[num |-> 1, dir |-> d, allow |-> n.allow, ports |-> n.ports, numeric |-> TRUE, ips |-> n.ips],
             [num |-> 2, dir |-> d, allow |-> TRUE, ports |-> r, numeric |-> FALSE, ips |-> "v4"]}
        First == [allow : BOOLEAN, ports : {{1}, {2}, 2..4}, ips : {"v4", "v6", "some"}]
    IN  {[id |-> "a1", default |-> default, subnets |-> subnets,
          rules |-> Ordered("in", n, 1..4) \union Ordered("out", m, r)] :
            n, m \in First, r \in {{1}, 1..4}, default \in {TRUE}, subnets \in {{}}}
FindingsAccounts ==
    LET E == [subnets |-> {}, groups |-> {}, tables |-> {}, igws |-> {}, nats |-> {}, acls |-> {},
              peerings |-> {}, endpoints |-> {}, enis |-> {}]
        Eni == [id : {"e1"}, subnet : {"s1", "s2"}, groups : {{"g1"}, {"g1", "g2"}}, public : {FALSE}]
        Subnet(ids) == [id : ids, free : {3, 9}, usable : {30}, public : BOOLEAN]
    IN  Filled(E, [subnets : Unique(SomeOf([id : {"s1", "s2"}, free : {9}, usable : {30}, public : BOOLEAN], 2)),
                   tables : {S \in Unique(SomeOf(VpcTables, 2)) :
                               \A t, u \in S : t # u => t.subnets = {} \/ u.subnets = {}},
                   nats : SUBSET [id : {"n1"}, state : {"available"}, subnet : {"s1"}],
                   igws : {{[id |-> "i1", state |-> "available"]}}])
          \union Filled(E, [groups : Unique(SomeOf(VpcGroups, 2)), enis : SomeOf(Eni, 1),
                            endpoints : SUBSET [id : {"v1"}, type : {"interface"}, tables : {{}}, dns : {TRUE},
                                                groups : {{"g1"}}, subnets : {{}}, available : {TRUE}]])
          \union Filled(E, [acls : {{a} : a \in VpcAcls}])
          \union Filled(E, [subnets : Unique(SomeOf(Subnet({"s1", "s2"}), 2)),
                            acls : Unique(SomeOf([id : {"a1", "a2"}, default : BOOLEAN, rules : {{}},
                                                  subnets : {{}, {"s1"}}], 2)),
                            enis : SomeOf([id : {"e1"}, subnet : {"s1"}, groups : {{}}, public : {TRUE}], 1)])
          \union Filled(E, [peerings : SomeOf([id : {"p1"}, active : BOOLEAN, requester : {{{1}}, {{1}, {2}}},
                                               accepter : {{{2}}, {{3}}}], 1),
                            igws : SomeOf([id : {"i1"}, state : {"attached", "detached"}], 1),
                            nats : SomeOf([id : {"n1"}, state : {"available", "failed"}, subnet : {"s1"}], 1),
                            endpoints : SomeOf([id : {"v1"}, type : {"gateway"}, tables : {{}, {"t1"}},
                                                dns : {FALSE}, groups : {{}}, subnets : {{}},
                                                available : BOOLEAN], 1)])

ExportAccounts ==
    LET Vpc(families, rows) == [family : families, rows : rows, subnets : {{"s1"}}]
        Plain1 == SUBSET [id : {1, 2}, here : BOOLEAN]
    IN  Vpc({"flow logs", "ec2", "lambda", "rds", "load balancers", "redshift",
             "transit gateway attachments", "elasticache", "eks", "efs"}, Plain1)
          \union Vpc({"ecs", "emr"}, SUBSET [id : {1, 2}, subnets : {{"s1"}, {"s2"}, {"s1", "s2"}}])
          \union Vpc({"vpn gateways"},
                {{[id |-> 1, kind |-> "gateway", here |-> TRUE, gateway |-> None, uses |-> {}],
                  [id |-> 2, kind |-> "gateway", here |-> FALSE, gateway |-> None, uses |-> {}],
                  [id |-> 3, kind |-> "connection", here |-> FALSE, gateway |-> g, uses |-> u],
                  [id |-> 4, kind |-> "connection", here |-> FALSE, gateway |-> 2, uses |-> {6}],
                  [id |-> 5, kind |-> "customer", here |-> FALSE, gateway |-> None, uses |-> {}],
                  [id |-> 6, kind |-> "customer", here |-> FALSE, gateway |-> None, uses |-> {}]} :
                   g \in {1, 2}, u \in SUBSET {5, 6}})

XrefAccounts ==
    LET Row(ids, tells) == {[id |-> i, tells |-> t, profile |-> i] : i \in ids, t \in tells}
        Full == Row({1, 2}, {0..4})
        Scan(tokens, exclude) == [tokens |-> tokens, exclude |-> exclude]
        Of(services, families, rows) == [x \in services |-> [i \in families |-> rows]]
        Sweep(scans, policies, rows) == [scan : scans, policies : policies, rows : rows]
    IN  \* each family by itself, two of one collector, and two services under a --scan
        Sweep({Scan({"full"}, FALSE)}, {TRUE},
              {Of({s}, {i}, R) : s \in {"lambda", "rds", "sns", "elbv2", "kms", "elasticache",
                                        "apigateway", "networking"},
                                i \in 1..2, R \in Unique(SomeOf(Full, 2))}
                \union {Of({s}, {1}, R) : s \in {"secretsmanager", "sqs", "ecs", "eks", "efs", "events",
                                                "states", "kinesis", "ec2endpoints", "dynamodb", "redshift",
                                                "cloudwatch", "logs", "s3"},
                                          R \in Unique(SomeOf(Row({1, 2}, {{}, 0..4}), 2))}
                \union {Of({s}, {1, 2}, R) : s \in {"kms", "apigateway"}, R \in SomeOf(Full, 1)}
                \union {Of({"ec2"}, I, SomeR) : I \in {{1, 2}, {3, 4}}, SomeR \in SUBSET Row({1, 2}, {{0}})}
                \union {Of({"apigateway"}, {3}, R) : R \in SomeOf(Full, 1)})
          \union
        Sweep({Scan({"full"}, FALSE), Scan({"network"}, FALSE), Scan({"iam"}, TRUE), Scan({"ec2", "iam"}, FALSE)},
              BOOLEAN, {[x \in {"iam", "ec2"} |-> [i \in {1, 2} \ {IF x = "ec2" THEN 2 ELSE 0} |-> R]] :
                          R \in SomeOf(Full, 1)})
          \union
        Sweep({Scan({}, FALSE), Scan({"fast"}, FALSE), Scan({"observability"}, TRUE), Scan({"sqs", "logs"}, FALSE)},
              {FALSE}, {Of({"sqs", "logs", "s3"}, {1}, R) : R \in SomeOf(Row({1}, {0..4}), 1)})

\* "a1" and "a2" are ARNs of the name "a", "b1" and "c1" of "b" and "c".
Names == [id \in {"a1", "a2", "a", "b1", "b", "c1", "c"} |->
            CASE id \in {"a1", "a2"} -> "a" [] id = "b1" -> "b" [] id = "c1" -> "c" [] OTHER -> id]
RelatedAccounts ==
    LET Edge == [from : {"a1", "a2", "b1"}, via : {1}, to : {"a1", "a", "b1", "c1"}]
        More == [from : {"a1"}, via : {1, 2}, to : {"b1", "c1"}] \union [from : {"b1"}, via : {1}, to : {"c1"}]
        Scope(policies, scan, regions) ==
            [version : {1}, account : {1}, profile : {1}, regions : regions, policies : policies, scan : scan]
        Query(edges, inputs, depths, all, refresh, scopes, caches) ==
            [edges : edges, input : inputs, depth : depths, all : all, refresh : refresh, scope : scopes,
             cache : caches]
        Both(sets) == {[policies \in BOOLEAN |-> S] : S \in sets}
        Usual == Scope({FALSE}, {"full"}, {<<1>>})
        Old == [of : Scope(BOOLEAN, {"full", "fast"}, {<<2, 1>>, <<1>>}) \union
                     {[version |-> 0, account |-> 1, profile |-> 1, regions |-> <<1, 2>>, policies |-> TRUE,
                       scan |-> "full"]},
                age : {1, 2}, readable : BOOLEAN, errs : {{}, {"iam"}}]
    IN  Query(Both(SomeOf(Edge, 3)), {"a1", "a", "b1"}, {1, 2, 3}, {FALSE}, {TRUE}, Usual, {{}})
          \union Query(Both(SUBSET More), {"a1", "c"}, {0, 2}, BOOLEAN, {TRUE}, Usual, {{}})
          \union Query(Both({{[from |-> "a1", via |-> 1, to |-> "b1"]}}), {"a1"}, {1}, {FALSE}, BOOLEAN,
                     Scope(BOOLEAN, {"full", "fast"}, {<<1, 2>>}), {{}} \union {{e} : e \in Old})

\* Two regions of an account, and what is listed of them.  The fields that a
\* load looks at vary.
ClientAccounts ==
    LET Account(loads, rows) ==
            [load : loads, all : {FALSE}, enabled : {{}}, asked : {{"h", "r"}}, rows : rows,
             terminated : {FALSE}, groups : {2}, named : {FALSE}, least : {0}]
        With(A, f, values) == {[a EXCEPT ![f] = v] : a \in A, v \in values}
        In(areas, lists, ids) == [area : areas, list : lists, id : ids]
        Both == In({"h", "r"}, {1}, {1})
        Here(list) == [area : {"h"}, list : {list}, id : {1}]
        Dates(n) == [1..n -> {None, 0 - 1, 1}]
        Expiring(area, list, n, live) == [area : {area}, list : {list}, id : {1}, dates : Dates(n), live : live]
        Containers == UNION {[1..n -> [exit : {None, 0, 1}, reason : BOOLEAN]] : n \in 0..2}
    IN  With(With(With(Account({"sqs", "vpcs"}, SUBSET Both), "all", BOOLEAN),
                  "enabled", {{}, {"h", "r"}}), "asked", {{}, {"r"}})
          \union With(Account({"emr list", "emr"},
                              Unique(SomeOf([area : {"h", "r"}, list : {1}, id : {1, 2}, live : BOOLEAN], 2))),
                      "terminated", BOOLEAN)
          \union With(Account({"glue list", "glue"}, SomeOf(In({"h"}, {1, 2, 6}, {1, 2}), 2)), "asked", {{"h"}})
          \union Account({"lambda"}, SomeOf(In({"h", "r"}, {1, 3}, {1}), 2))
          \union Account({"logs"}, SUBSET In({"h"}, {1}, {1, 2, 3}))
          \union Account({"keys", "values", "sweep"}, SUBSET In({"h", "r"}, {1}, {1, 2}))
          \union Account({"union"}, SUBSET In({"h", "r"}, {1, 2}, {1}))
          \union With(Account({"expiry"},
                              {{x} : x \in Expiring("h", 5, 3, {TRUE}) \union Expiring("h", 6, 1, BOOLEAN)}
                                \union {{x, y} : x \in Expiring("h", 3, 1, {TRUE}),
                                               y \in Expiring("once", 1, 1, {TRUE})}), "asked", {{"h"}})
          \union With(Account({"ecs"}, {{[area |-> "h", list |-> 2, id |-> 1, containers |-> c]} : c \in Containers}
                                        \union {{}}), "named", BOOLEAN)
          \union With(Account({"quotas"},
                              SomeOf([area : {"h", "once"}, list : {1}, id : {1}, adjusted : BOOLEAN,
                                      metered : BOOLEAN, limit : {0, 10}, default : {5}, used : {4, 10}], 2)),
                      "least", {0, 80})

DetailAccounts ==
    LET Set(of, all) == [ask : {of}, facts : {all}, set : SUBSET all, mixed : {FALSE}]
        Pairs(of, facts) == UNION {Set(of, pair) : pair \in SomeOf(facts, 2)}
    IN  Pairs("bucket", {"versioning", "encryption", "tags", "policy", "lifecycle", "publicAccess", "acl",
                         "ownership", "cors", "website", "logging", "notifications", "payer", "acceleration",
                         "lock", "replication", "multipart", "tiering", "status"})
          \union Pairs("object", {"head", "objectTags", "objectACL", "retention", "hold"})
          \union Pairs("region", {"region"}) \union Pairs("metrics", {"metrics"})
          \union Pairs("job", {"job"}) \union Pairs("conn", {"cluster"})
          \union Set("queue", {"attributes", "queueTags", "sources"})
          \union Set("function", {"function", "resourcePolicy"})
          \union Set("dns", {"support", "options", "dhcp"}) \union Pairs("dns", {"hostnames"})
          \union UNION {{a, [a EXCEPT !.mixed = TRUE]} : a \in Set("describe", {"cluster", "groups", "specs"})}
          \union Set("describe", {"subnet", "table", "main"})
          \union Set("describe", {"instances", "nacl", "rules"})
          \union UNION {Pairs(of[1], {of[2]}) :
                     of \in {<<"crawler", "crawler">>, <<"trigger", "trigger">>, <<"workflow", "workflow">>,
                            <<"connection", "connection">>, <<"database", "database">>, <<"graph", "graph">>,
                            <<"hdfs", "dump">>, <<"config", "configuration">>}}
          \union Pairs("yarn", {"applications", "clusterMetrics"}) \union Pairs("oozie", {"workflows", "coordinators"})
          \union Set("hbase", {"namespaces", "tables", "regions", "schema"})

ListAccounts ==
    LET Ask(asks, n, limits) == [ask : asks, rows : {n}, match : {<<1..n>>}, limit : limits]
        Several(of, limits) == [ask : {of}, rows : {3}, match : [{1, 2} -> SUBSET (1..3)], limit : limits]
        Bill(of, amounts) ==
            [ask : {of}, rows : {2}, match : {<<{1, 2}>>},
             groups : [{1, 2} -> [key : {1, 2}, amount : amounts, used : {0, 1}]]]
    IN  UNION {Ask({"objects", "buckets", "streams", "runs", "steps", "instances", "consumers", "analyses",
                    "trail"}, n, {1, 2}) : n \in 0..4}
          \union Several("events", {1, 2}) \union Several("download", {None})
          \union {a \in Several("trail", {1, 2}) : a.match[1] \intersect a.match[2] = {}}
          \union [ask : {"recent"}, rows : {3}, match : [{1} -> SUBSET (1..3)], limit : {1, 2}]
          \union Bill("bill", {0 - 1, 0, 1}) \union Bill("resources", {0 - 1, 1})
          \union [ask : {"peek"}, messages : {1..n : n \in {0, 3, 6}}]
          \union [ask : {"preview", "range"}, size : 0..3, window : {2}, sized : BOOLEAN, binary : BOOLEAN]
          \union [ask : {"save"}, size : 0..2]

ClusterAccounts ==
    [ask : {"doctor"}, mode : {"off", "invalid", "direct", "socks", "tunnel"},
     cluster : {"failed", "no host", "down", "up"}, bridge : BOOLEAN,
     services : {<<"hive">>, <<"yarn", "hive">>}, open : SUBSET {"yarn", "hive"}, healthy : SUBSET {"yarn"}]
      \union [ask : {"appui"}, ready : [{"attach", "url"} -> 0..3]]
      \union [ask : {"count"}, size : 0..7]
      \union [ask : {"tunnel"}, hosts : {{1}, {1, 2}}, calls : {3}]

SnapshotAccounts ==
    LET Row(arns, regions, ids, names, states, facts, rich) ==
            [type : {1}, arn : arns, region : regions, id : ids, name : names, state : states, facts : facts,
             rich : rich]
        Resources == Row({1}, {1}, {1}, {1, 2}, {1, 2}, {1}, {1}) \union Row({1}, {1}, {1}, {1}, {1}, {2}, {2})
                       \union Row({None}, {1}, {None}, {1, 2}, {1}, {1}, {1})
                       \union Row({None}, {1}, {2}, {1}, {1, 2}, {1}, {1})
                       \union Row({None}, {2}, {2}, {1}, {1}, {1}, {1})
        Found == {S \in SomeOf(Resources, 2) :
                    \A r, t \in S : r.arn = None /\ r.id # None /\ r.id = t.id /\ r.region = t.region => r = t}
    IN  [ask : {"scans"}, old : Found, new : Found]
          \union [ask : {"baseline"}, old : Found, new : Found, scope : {{1}}, oldScope : {{1}}]
          \union [ask : {"baseline"}, old : SomeOf(Resources, 1), new : {{}}, scope : {{1, 2}}, oldScope : {{1}}]

-------------------------------------------------------------------------------
Cost == INSTANCE CostAudit WITH Accounts <- CostAccounts
Security == INSTANCE SecurityAudit WITH Accounts <- SecurityAccounts, Home <- "home", MaxChecks <- Max
Messaging == INSTANCE GlueAudit WITH Accounts <- MessagingAccounts, MaxJobs <- Max, MaxChecks <- Max,
    Streak <- 2, StreakCap <- 3, Waste <- 2, Fleet <- 10
Glue == INSTANCE GlueAudit WITH Accounts <- GlueAccounts, MaxJobs <- Max, MaxChecks <- Max,
    Streak <- 2, StreakCap <- 3, Waste <- 2, Fleet <- 10
EMR == INSTANCE EMRAudit WITH Accounts <- EMRAccounts, MaxClusters <- Max, MaxFunctions <- Max
Lambda == INSTANCE EMRAudit WITH Accounts <- Functions, MaxClusters <- Max, MaxFunctions <- Max
Trail == INSTANCE IAMAudit WITH Accounts <- SomeOf(Trails, 2), MaxPolls <- 2, MaxChecks <- Max
Services == INSTANCE Collectors WITH Accounts <- CollectorAccounts
Paths == INSTANCE VpcPaths WITH Accounts <- PathAccounts, Everyone <- Everywhere, Internet <- 9
Findings == INSTANCE VpcFindings WITH Accounts <- FindingsAccounts, LowIPs <- 2, Near <- 2
Export == INSTANCE VpcFindings WITH Accounts <- ExportAccounts, LowIPs <- 2, Near <- 2
IAM == INSTANCE IAMAudit WITH Accounts <- IAMAccounts, MaxPolls <- 2, MaxChecks <- Max
Xref == INSTANCE XrefCollect WITH Accounts <- XrefAccounts
Answers == INSTANCE Related WITH Accounts <- RelatedAccounts, Short <- Names, TTL <- 1
Loads == INSTANCE Clients WITH Accounts <- ClientAccounts, Fallback <- {"h", "r"}, Home <- "h", MaxGroups <- Max
Cards == INSTANCE Details WITH Accounts <- DetailAccounts
Listed == INSTANCE Lists WITH Accounts <- ListAccounts, Window <- 2, LogPages <- 2, MaxDownload <- 2,
    MaxPeek <- 5, Batch <- 4
Daemons == INSTANCE OnCluster WITH Accounts <- ClusterAccounts, Batch <- 4, MaxCount <- 5, Polls <- 2,
    Callers <- {1, 2}
Scans == INSTANCE Snapshots WITH Accounts <- SnapshotAccounts

Init ==
    \/ app = "cost" /\ Cost!Init
    \/ app = "security" /\ Security!Init
    \/ app = "messaging" /\ Messaging!MessagingInit
    \/ app = "glue" /\ Glue!Init
    \/ app = "emr" /\ EMR!Init
    \/ app = "lambda" /\ Lambda!LambdaInit
    \/ app = "trail" /\ Trail!TrailInit
    \/ app = "iam" /\ IAM!Init
    \/ app = "services" /\ Services!Init
    \/ app = "paths" /\ Paths!Init
    \/ app = "findings" /\ Findings!Init
    \/ app = "export" /\ Export!ExportInit
    \/ app = "xref" /\ Xref!Init
    \/ app = "related" /\ Answers!Init
    \/ app = "clients" /\ Loads!Init
    \/ app = "details" /\ Cards!Init
    \/ app = "lists" /\ Listed!Init
    \/ app = "cluster" /\ Daemons!Init
    \/ app = "snapshots" /\ Scans!Init

Next ==
    \/ app = "cost" /\ Cost!Next /\ UNCHANGED app
    \/ app = "security" /\ Security!Next /\ UNCHANGED app
    \/ app = "messaging" /\ Messaging!MessagingNext /\ UNCHANGED app
    \/ app = "glue" /\ Glue!Next /\ UNCHANGED app
    \/ app = "emr" /\ EMR!Next /\ UNCHANGED app
    \/ app = "lambda" /\ Lambda!LambdaNext /\ UNCHANGED app
    \/ app = "trail" /\ Trail!TrailNext /\ UNCHANGED app
    \/ app = "iam" /\ IAM!Next /\ UNCHANGED app
    \/ app = "services" /\ Services!Next /\ UNCHANGED app
    \/ app = "paths" /\ Paths!Next /\ UNCHANGED app
    \/ app = "findings" /\ Findings!Next /\ UNCHANGED app
    \/ app = "export" /\ Export!ExportNext /\ UNCHANGED app
    \/ app = "xref" /\ Xref!Next /\ UNCHANGED app
    \/ app = "related" /\ Answers!Next /\ UNCHANGED app
    \/ app = "clients" /\ Loads!Next /\ UNCHANGED app
    \/ app = "details" /\ Cards!Next /\ UNCHANGED app
    \/ app = "lists" /\ Listed!Next /\ UNCHANGED app
    \/ app = "cluster" /\ Daemons!Next /\ UNCHANGED app
    \/ app = "snapshots" /\ Scans!Next /\ UNCHANGED app

-------------------------------------------------------------------------------
\* The linters under-warn rather than mis-warn: a finding is true of the
\* account whatever calls failed, with the exceptions the audits' own Sound
\* name.
Sound ==
    /\ app = "cost" => Cost!Sound
    /\ app = "security" => Security!Sound
    /\ app = "messaging" => Messaging!MessagingSound
    /\ app = "glue" => Glue!Sound
    /\ app = "emr" => EMR!Sound
    /\ app = "lambda" => Lambda!LambdaSound
    /\ app = "trail" => Trail!TrailSound
    /\ app = "iam" => IAM!Sound
    /\ app = "services" => Services!Sound
    /\ app = "paths" => Paths!Sound
    /\ app = "findings" => Findings!Sound
    /\ app = "export" => Export!ExportSound
    /\ app = "xref" => Xref!Sound
    /\ app = "related" => Answers!Sound
    /\ app = "clients" => Loads!Sound
    /\ app = "details" => Cards!Sound
    /\ app = "lists" => Listed!Sound
    /\ app = "cluster" => Daemons!Sound
    /\ app = "snapshots" => Scans!Sound

\* An audit without an error has found everything: what was not looked at, a
\* cap that was reached included, is recorded.
Accounted ==
    /\ app = "cost" => Cost!Accounted
    /\ app = "security" => Security!Accounted
    /\ app = "messaging" => Messaging!MessagingAccounted
    /\ app = "glue" => Glue!Accounted
    /\ app = "emr" => EMR!Accounted
    /\ app = "lambda" => Lambda!LambdaAccounted
    /\ app = "trail" => Trail!TrailAccounted
    /\ app = "iam" => IAM!Accounted
    /\ app = "services" => Services!Accounted
    /\ app = "export" => Export!ExportAccounted
    /\ app = "xref" => Xref!Accounted
    /\ app = "clients" => Loads!Accounted
    /\ app = "lists" => Listed!Accounted
    /\ app = "cluster" => Daemons!Accounted
    /\ app = "snapshots" => Scans!Accounted

\* No finding rests on a call that failed: see EMRAudit and IAMAudit.
UnderWarns == (app = "emr" => EMR!UnderWarns) /\ (app = "trail" => Trail!TrailUnderWarns)

\* A full ARN stands for one resource: see Related.
FullArnIsOne == app = "related" => Answers!FullArnIsOne
===============================================================================
