-------------------------------- MODULE ScanPlan --------------------------------
(***************************************************************************)
(* The plan of a scan: the regions in effect, the accounts, the tasks      *)
(* StreamRun launches for them and the keys by which the TUI's progress    *)
(* meter knows those tasks; and the credentials the debug panes look up by *)
(* the account a row is labelled with.                                     *)
(***************************************************************************)
EXTENDS Naturals, Sequences, FiniteSets

CONSTANTS
    Plan,      \* configurations: [accounts, broken, resolved, filter, services]
    Base,      \* the credentials of the engine, and the account they resolve to
    NoName     \* an empty Name, Profile or RoleARN

VARIABLES
    plan,                             \* Config and ResolvedRegions, from the start
    sweepCfgs,                        \* account name -> credentials
    phase,                            \* "resolving", "collecting" or "done"
    sweeps,                           \* the sweeps of the running scan
    left,                             \* tasks whose marker the TUI has not applied
    tasksPending, tasksDone, tasksTotal,
    rows                              \* rows of the table: [creds, label]

meterVars == <<tasksPending, tasksDone, tasksTotal>>
planVars == <<plan, sweepCfgs, phase, sweeps, left, meterVars, rows>>

-------------------------------------------------------------------------------
(* Engine.  A list that is only walked is the set of its positions.        *)

MultiAccount(p) == p.accounts # <<>>

accountName(acc) ==
    IF acc.name # NoName THEN acc.name
    ELSE IF acc.profile # NoName THEN acc.profile
    ELSE "default"

Regions(p) == IF p.resolved = <<>> THEN <<"us-east-1">> ELSE p.resolved

EffectiveRegions(p) == {i \in DOMAIN Regions(p) : p.filter = {} \/ Regions(p)[i] \in p.filter}

\* A global service runs once, in region "global".
RegionsOf(p, s) == IF s.global THEN {0} ELSE EffectiveRegions(p)

RegionName(p, s, r) == IF s.global THEN "global" ELSE Regions(p)[r]

\* What is run for each account: positions of an enabled service and a region.
Cells(p) ==
    {c \in (DOMAIN p.services) \X (DOMAIN Regions(p) \union {0}) :
       p.services[c[1]].enabled /\ c[2] \in RegionsOf(p, p.services[c[1]])}

CellKey(p, c) == <<p.services[c[1]].name, RegionName(p, p.services[c[1]], c[2])>>

\* "service@region", prefixed "account/" with config.accounts.
PlannedTaskKeys(p) ==
    IF MultiAccount(p)
    THEN [t \in (DOMAIN p.accounts) \X Cells(p) |->
            <<accountName(p.accounts[t[1]]), CellKey(p, t[2])>>]
    ELSE [t \in {1} \X Cells(p) |-> CellKey(p, t[2])]

\* The credentials of an account: its own with a profile or a role.
CredsOf(acc) ==
    IF acc.profile # NoName \/ acc.role # NoName THEN <<acc.profile, acc.role>> ELSE Base

\* The sweeps buildSweeps returns.  An account fails whose profile the shared
\* config does not hold; a role is assumed later, by the first call that needs it.
Sweeps(p) ==
    IF ~MultiAccount(p) THEN <<[name |-> NoName, creds |-> Base, failed |-> FALSE]>>
    ELSE [i \in DOMAIN p.accounts |->
            [name |-> accountName(p.accounts[i]), creds |-> CredsOf(p.accounts[i]),
             failed |-> p.accounts[i].profile \in p.broken]]

\* sweepCfgs as buildSweeps makes it anew, from the sweeps that resolved in the
\* order of the accounts.
CfgsOf(sws) ==
    LET good == {i \in DOMAIN sws : ~sws[i].failed}
        Newest(n) == CHOOSE i \in good : /\ sws[i].name = n
                                         /\ \A j \in good : sws[j].name = n => j <= i
    IN  [n \in {sws[i].name : i \in good} |-> sws[Newest(n)].creds]

AWSConfigFor(account) ==
    IF account \in DOMAIN sweepCfgs THEN sweepCfgs[account] ELSE Base

\* The tasks StreamRun launches.
TasksOf(p, sws) == (DOMAIN sws) \X Cells(p)

\* Mutant: the marker leaves out the account.
MarkerKey_NoAccount(p, sws, t) == CellKey(p, t[2])

\* The key of a task's progress marker.
MarkerKey(p, sws, t) ==
    IF MultiAccount(p) THEN <<sws[t[1]].name, CellKey(p, t[2])>> ELSE CellKey(p, t[2])

\* Mutant: rows are stamped with the resolved account in either mode.
Label_AccountID(p, sw) == sw.creds

\* The account label StreamRun stamps on the rows of a sweep.
Label(p, sw) == IF MultiAccount(p) THEN sw.name ELSE sw.creds

-------------------------------------------------------------------------------
(* Steps. *)

PendingKeys(p) == {PlannedTaskKeys(p)[t] : t \in DOMAIN PlannedTaskKeys(p)}

TaskCount(p) == Cardinality(DOMAIN PlannedTaskKeys(p))

\* Mutant: the meter counts on from the last scan.
ResetMeter_CountsOn ==
    /\ tasksPending' = PendingKeys(plan)
    /\ tasksTotal' = TaskCount(plan)
    /\ UNCHANGED tasksDone

\* resetTaskProgress, at the start of every scan.
ResetMeter ==
    /\ tasksPending' = PendingKeys(plan)
    /\ tasksDone' = 0
    /\ tasksTotal' = TaskCount(plan)

\* A new scan: the first, a watch refresh or a restart with the same engine.
StartScan ==
    /\ phase = "done"
    /\ ResetMeter
    /\ phase' = "resolving"
    /\ UNCHANGED <<plan, sweepCfgs, sweeps, left, rows>>

\* buildSweeps
BuildSweeps ==
    /\ phase = "resolving"
    /\ sweeps' = Sweeps(plan)
    /\ sweepCfgs' = IF MultiAccount(plan) THEN CfgsOf(sweeps') ELSE sweepCfgs
    /\ left' = TasksOf(plan, sweeps')
    /\ phase' = "collecting"
    /\ UNCHANGED <<plan, meterVars, rows>>

\* The last chunk of a task arrives: applyChunk.
TaskEnds(t) ==
    LET key == MarkerKey(plan, sweeps, t)
        sw == sweeps[t[1]]
    IN  /\ left' = left \ {t}
        /\ IF key \in tasksPending
           THEN tasksPending' = tasksPending \ {key} /\ tasksDone' = tasksDone + 1
           ELSE UNCHANGED <<tasksPending, tasksDone>>
        /\ rows' = IF sw.failed THEN rows
                   ELSE rows \union {[creds |-> sw.creds, label |-> Label(plan, sw)]}
        /\ UNCHANGED <<plan, sweepCfgs, phase, sweeps, tasksTotal>>

\* doneMsg
ScanEnds ==
    /\ phase = "collecting" /\ left = {}
    /\ phase' = "done"
    /\ UNCHANGED <<plan, sweepCfgs, sweeps, left, meterVars, rows>>

PlanInit ==
    /\ plan \in Plan
    /\ sweepCfgs = <<>>
    /\ phase = "resolving"
    /\ sweeps = <<>> /\ left = {}
    /\ tasksPending = PendingKeys(plan)
    /\ tasksDone = 0
    /\ tasksTotal = TaskCount(plan)
    /\ rows = {}

PlanNext ==
    \/ StartScan
    \/ BuildSweeps
    \/ \E t \in left : TaskEnds(t)
    \/ ScanEnds

PlanSpec == PlanInit /\ [][PlanNext]_planVars

-------------------------------------------------------------------------------
(* Properties. *)

\* The meter counts the tasks that are still running, whichever of them end
\* first and however often a scan is repeated: it reaches 100% with the last
\* marker and not before, and lists as pending exactly what is.
MeterExact ==
    /\ tasksDone \in 0..tasksTotal
    /\ phase = "collecting" =>
      /\ tasksDone + Cardinality(left) = tasksTotal
      /\ tasksPending = {MarkerKey(plan, sweeps, t) : t \in left}

\* "so the debug panes query the right account during multi-account sweeps":
\* the credentials found by a row's label are those the row was collected with.
CredsMatchAccount == \A row \in rows : AWSConfigFor(row.label) = row.creds
===============================================================================
