------------------------------ MODULE MCInventory ------------------------------
(***************************************************************************)
(* The table in its three uses, each for itself: one scan from its first   *)
(* chunk to its last, watch mode without end, and the finder over any      *)
(* table the first two can leave; and, for itself, the plan of a scan.     *)
(***************************************************************************)
EXTENDS InventoryFinder, InventoryDedupe, ScanPlan

CONSTANTS noArn, Uses

VARIABLE use

Res(arn, id, svc, name, rich, state) ==
    [arn |-> arn, id |-> id, typ |-> "t", svc |-> svc, name |-> name, rich |-> rich,
     state |-> state, acct |-> "acct1"]

\* "a": the tag sweep's entry (no name, nothing but tags), the typed entry in
\* two states and the typed entry renamed.  "b" shares its service and one of
\* its names; "q" has no ARN and a service of its own.
MCResource ==
    { Res("a", "a", 1, 0, 0, "none"),
      Res("a", "a", 1, 2, 1, "run"),
      Res("a", "a", 1, 2, 1, "stop"),
      Res("a", "a", 1, 4, 1, "run"),
      Res("b", "b", 1, 2, 1, "run"),
      Res(noArn, "q", 2, 1, 0, "run") }

\* The rows the finder is opened over: one that is renamed, one that shares its
\* first name, one without an ARN.
FinderRows ==
    { Res("a", "a", 1, 2, 1, "run"),
      Res("a", "a", 1, 4, 1, "run"),
      Res("b", "b", 1, 2, 1, "run"),
      Res(noArn, "q", 2, 1, 0, "run") }

\* Queries: everything, the ids of two rows, best match "b", and a service.
MCQuery == {"", "ab", "q", "svc1"}

MCScore(typed, text) ==
    CASE typed = "" -> 1
      [] typed = "q" -> IF text[2] = "q" THEN 2 ELSE 0
      [] typed = "ab" -> IF text[2] = "b" THEN 2 ELSE IF text[2] = "a" THEN 1 ELSE 0
      [] typed = "svc1" -> IF text[1] = 1 THEN 1 ELSE 0

-------------------------------------------------------------------------------
\* Configurations of up to two accounts, two regions and three services.

Acc(name, profile, role) == [name |-> name, profile |-> profile, role |-> role]
Srv(name, global, enabled) == [name |-> name, global |-> global, enabled |-> enabled]

Config(accounts, broken, resolved, filter) ==
    [accounts |-> accounts, broken |-> broken, resolved |-> resolved, filter |-> filter,
     services |-> <<Srv("ec2", FALSE, TRUE), Srv("iam", TRUE, TRUE), Srv("sqs", FALSE, FALSE)>>]

\* No accounts; an account of the base credentials beside one with a profile;
\* a profile beside a role reached through it.
Accounts ==
    {<<>>,
     <<Acc("prod", noArn, noArn), Acc(noArn, "dev", noArn)>>,
     <<Acc(noArn, "dev", noArn), Acc("audit", "dev", "role1")>>}

Configs ==
    {Config(a, b, r, f) : a \in Accounts, b \in {{}, {"dev"}},
                          r \in {<<"us-east-1">>, <<"us-east-1", "eu-west-1">>},
                          f \in {{}, {"us-east-1"}}}

-------------------------------------------------------------------------------
\* The other uses plan no scan.
NoPlan ==
    /\ plan = <<>> /\ sweepCfgs = <<>> /\ phase = "done" /\ sweeps = <<>> /\ left = {}
    /\ tasksPending = {} /\ tasksDone = 0 /\ tasksTotal = 0 /\ rows = {}

MCInit ==
    /\ use \in Uses /\ FinderInit /\ DedupeInit
    /\ IF use = "plan" THEN PlanInit ELSE NoPlan

MCNext ==
    /\ UNCHANGED use
    /\ \/ use = "scan" /\ DedupeNext /\ UNCHANGED <<finderVars, planVars>>
       \/ use = "table" /\ Next /\ UNCHANGED <<finderVars, received, planVars>>
       \/ /\ use = "finder"
          /\ FinderNext
          /\ \A i \in DOMAIN sorted' : sorted'[i].res \in FinderRows
          /\ ~Streaming => ~watching' /\ prevStates' = <<>>
          /\ UNCHANGED <<received, planVars>>
       \/ use = "plan" /\ PlanNext /\ UNCHANGED <<allVars, received>>

MCSpec == MCInit /\ [][MCNext]_<<allVars, received, use, planVars>>
==============================================================================
