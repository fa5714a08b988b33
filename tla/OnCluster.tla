------------------------------- MODULE OnCluster -------------------------------
(***************************************************************************)
(* What reaches into a cluster: the connection check, the tunnel, the      *)
(* address of a persistent user interface, and the rows of a table.        *)
(***************************************************************************)
EXTENDS Collect, Integers

CONSTANTS Accounts,   \* what is asked, and what there is
          Batch,      \* rows of one page of a count
          MaxCount,   \* rows of a count
          Polls,      \* questions whether a user interface is ready
          Callers,    \* who dials through a tunnel at the same time
          None

-------------------------------------------------------------------------------
(***************************************************************************)
(* The check: configuration, cluster, bridge and each service in order, as *)
(* far as the layer below allows.  A line is <<subject, layer, status>>.   *)
(***************************************************************************)
Say(lines) == snap' = [snap EXCEPT !.checks = @ \union lines]
Failed == \E c \in snap.checks : c[3] = "fail"
New == acct.mode \notin {"off", "invalid"}
Host == acct.cluster \in {"up", "down"}

\* A proxy or an SSH connection, where the mode has one.
Bridge == acct.mode = "direct" \/ (acct.bridge /\ (acct.mode = "tunnel" => Host))

CheckConfig ==
    /\ pc = "doctor" /\ pc' = "cluster" /\ UNCHANGED <<acct, errs, found>>
    /\ Say({<<"config", "", IF New THEN "ok" ELSE "fail">>})
CheckCluster ==
    /\ pc = "cluster" /\ pc' = "bridge" /\ UNCHANGED <<acct, errs, found>>
    /\ Say({<<"cluster", "", IF ~Host THEN "fail" ELSE IF acct.cluster = "down" THEN "warn" ELSE "ok">>})
CheckBridge ==
    /\ pc = "bridge" /\ pc' = "services" /\ UNCHANGED <<acct, errs, found>>
    /\ Say({<<"bridge", "", IF ~New \/ (acct.mode = "tunnel" /\ ~Host) THEN "skip"
                            ELSE IF Bridge THEN "ok" ELSE "fail">>})

\* Mutant: the services are probed whatever the bridge said.
probeService_Always(s) ==
    IF s \notin acct.open THEN {<<s, "port", "fail">>} ELSE {<<s, "port", "ok">>}

\* The port first, then the daemon behind it; of Hive the port alone.
probeService(s) ==
    IF ~(New /\ Bridge /\ Host) THEN {<<s, "port", "skip">>}
    ELSE IF s \notin acct.open THEN {<<s, "port", "fail">>}
    ELSE IF s = "hive" THEN {<<s, "port", "warn">>}
    ELSE {<<s, "port", "ok">>, <<s, "daemon", IF s \in acct.healthy THEN "ok" ELSE "fail">>}
Probe ==
    /\ pc = "services" /\ UNCHANGED <<acct, errs>>
    /\ IF snap.calls = Len(acct.services) THEN pc' = "done" /\ found' = snap.checks /\ UNCHANGED snap
       ELSE /\ UNCHANGED <<pc, found>>
            /\ snap' = [snap EXCEPT !.calls = @ + 1,
                                    !.checks = @ \union probeService(acct.services[snap.calls + 1])]

-------------------------------------------------------------------------------
(***************************************************************************)
(* The tunnel keeps one SSH client for each host.  `at` is what a caller   *)
(* waits for, clients the cached ones, open the connections there are; a   *)
(* connection is <<host, number, caller>>.                                 *)
(***************************************************************************)
\* Mutant: the lock is not held while the host is dialled.
mu_Free(caller) == TRUE

\* The lock is held from the look into the cache until the client is in it.
mu(caller) == \A other \in Callers \ {caller} : snap.at[other] = None

Tunnelled == pc = "tunnel" /\ UNCHANGED <<acct, pc, errs, found>>

\* The cached client, or a new one.
clientFor(caller) ==
    /\ Tunnelled /\ snap.at[caller] = None /\ snap.calls < acct.calls /\ mu(caller)
    /\ \E host \in acct.hosts :
         snap' = [snap EXCEPT !.calls = @ + 1,
                              !.at[caller] = IF \E c \in snap.clients : c[1] = host THEN None ELSE host]

\* The host answers or not; a client replaces the one of the same host.
NewClientConn(caller) ==
    /\ Tunnelled /\ snap.at[caller] # None
    /\ LET host == snap.at[caller]
           new == <<host, snap.calls, caller>>
       IN  \/ snap' = [snap EXCEPT !.at[caller] = None]
           \/ snap' = [snap EXCEPT !.at[caller] = None, !.open = @ \union {new},
                                   !.clients = {c \in @ : c[1] # host} \union {new}]

\* The command has ended, and closes the clients of the cache.
Close ==
    /\ pc = "tunnel" /\ \A c \in Callers : snap.at[c] = None
    /\ pc' = "done" /\ UNCHANGED <<acct, errs, found>>
    /\ snap' = [snap EXCEPT !.open = @ \ snap.clients, !.clients = {}]

-------------------------------------------------------------------------------
\* Created, then asked until it is attached, then until its address is ready:
\* each call may fail, and of the questions there are only so many.
PersistentAppUIURL ==
    /\ pc \in {"appui", "attach", "url"} /\ UNCHANGED acct
    /\ LET ready == pc # "appui" => snap.calls >= acct.ready[pc]
       IN  \/ pc' = "done" /\ errs' = {pc} /\ UNCHANGED <<snap, found>>
           \/ /\ ready /\ snap' = [snap EXCEPT !.calls = 0] /\ UNCHANGED errs
              /\ pc' = (CASE pc = "appui" -> "attach" [] pc = "attach" -> "url" [] pc = "url" -> "done")
              /\ found' = IF pc = "url" THEN {"address"} ELSE {}
           \/ /\ ~ready /\ snap.calls + 1 < Polls /\ UNCHANGED <<pc, errs, found>>
              /\ snap' = [snap EXCEPT !.calls = @ + 1]

\* The scanner of a count.
CreateScanner ==
    /\ pc = "count" /\ UNCHANGED <<acct, found>>
    /\ \/ pc' = "done" /\ errs' = {"create"} /\ UNCHANGED snap
       \/ pc' = "page" /\ snap' = [snap EXCEPT !.open = TRUE] /\ UNCHANGED errs

\* The scanner is closed however the count ends, but the call may fail.
CloseScanner(counted) ==
    /\ pc' = "done"
    /\ \E open \in BOOLEAN : snap' = [snap EXCEPT !.counted = counted, !.open = open]

\* A page of rows.  A page that cannot be read ends the count; one without
\* rows is the last, or one that is not understood.
CountHBaseRows ==
    /\ pc = "page" /\ UNCHANGED acct
    /\ \/ CloseScanner(snap.counted) /\ errs' = {"page"} /\ UNCHANGED found
       \/ CloseScanner(snap.counted) /\ UNCHANGED errs
            /\ found' = {[rows |-> snap.counted, capped |-> FALSE]}
       \/ \E n \in 1..Batch :
            LET counted == snap.counted + n
            IN  /\ counted <= acct.size /\ UNCHANGED errs
                /\ IF counted >= MaxCount
                   THEN CloseScanner(counted) /\ found' = {[rows |-> counted, capped |-> TRUE]}
                   ELSE snap' = [snap EXCEPT !.counted = counted] /\ UNCHANGED <<pc, found>>

-------------------------------------------------------------------------------
Init ==
    /\ acct \in Accounts /\ errs = {} /\ found = {} /\ pc = acct.ask
    /\ snap = CASE acct.ask = "tunnel" -> [at |-> [c \in Callers |-> None], calls |-> 0, clients |-> {}, open |-> {}]
                [] acct.ask = "count" -> [counted |-> 0, open |-> FALSE]
                [] OTHER -> [calls |-> 0, checks |-> {}]

Next ==
    \/ CheckConfig \/ CheckCluster \/ CheckBridge \/ Probe
    \/ PersistentAppUIURL \/ CreateScanner \/ CountHBaseRows
    \/ pc = "tunnel" /\ \E caller \in Callers : clientFor(caller) \/ NewClientConn(caller)
    \/ Close

-------------------------------------------------------------------------------
\* A check has a line for each service, and one that is not skipped or failed
\* was reached through a bridge that works.  A count never counts more than
\* there is, and is capped at the cap.  A tunnel that was closed leaves no
\* connection open.
Sound ==
    Done =>
      /\ acct.ask = "doctor" =>
           LET services == {acct.services[i] : i \in DOMAIN acct.services}
           IN  /\ \A s \in services : \E c \in found : c[1] = s
               /\ \A c \in found : c[1] \in services /\ c[3] \in {"ok", "warn"} =>
                    c[1] \in acct.open /\ Host /\ <<"bridge", "", "ok">> \in found
      /\ acct.ask = "count" => \A f \in found : f.rows <= acct.size /\ (f.capped => f.rows >= MaxCount)
      /\ acct.ask = "tunnel" => snap.open = {}

\* A check that does not fail has reached every service; a user interface
\* without an error has an address.
Accounted ==
    Done /\ errs = {} =>
      /\ acct.ask = "doctor" /\ ~Failed =>
           New /\ Host /\ Bridge /\ \A i \in DOMAIN acct.services : acct.services[i] \in acct.open
      /\ acct.ask = "appui" => found = {"address"}
===============================================================================
