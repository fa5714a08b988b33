-------------------------------- MODULE FeedTUI --------------------------------
(***************************************************************************)
(* The CloudTrail feed: one bounded lookup per region, each of which sends *)
(* what it found to a channel that Update drains message by message, and   *)
(* the table of the newest events.  An event is its time; the trails do    *)
(* not change while the screen is open.  The text filter, the sort and the *)
(* overlays, which only look at the table, are left out.                   *)
(***************************************************************************)
EXTENDS Tea

CONSTANTS
    Regions, Failed,
    Times,        \* 1..n
    Limit,        \* events in the table, and at most asked of a region
    MaxPages,     \* pages, of one event, looked at in a region
    Rows,         \* the most rows a Lake query matches; a page is one row
    MaxRows,      \* bounds on the rows wanted of it to choose from, 0 for none
    Scanned,      \* the regions of an audit, 1..n; the account-global sweeps run in the first
    Pool,         \* maxConcurrency
    Buffer,       \* the capacity of its channel
    Service       \* what a bill has lines of

\* Where an event happened, and whether it is a failed call or one that
\* trail.hideEvents keeps out of the feed.
Logs == [Times -> [region : Regions, kind : {"done", "failed", "hidden"}]]
Newest(E, n) == {t \in E : Cardinality({u \in E : u > t}) < n}

TrailInit ==
    \E log \in Logs, errorsOnly \in BOOLEAN :
      /\ m = [log |-> log, errorsOnly |-> errorsOnly, loading |-> TRUE, loadErr |-> FALSE,
              truncated |-> FALSE, capped |-> FALSE, regionErrs |-> {}, regionsDone |-> 0,
              all |-> {}, visible |-> {}, regionCh |-> <<>>]
      /\ cmds = Batch({Cmd("lookup", 0, r) : r \in Regions} \union {Cmd("wait", 0, None)})

\* LookupFiltered, newest first: up to Limit events, whether failed or not, of
\* MaxPages pages; truncated if there are more pages then.
LookupFiltered(r) ==
    LET here == {t \in Times : m.log[t].region = r}
        seen == Newest(here, MaxPages)
        kept == {t \in seen : m.log[t].kind # "hidden"}
    IN  [region |-> r, events |-> Newest(kept, Limit), err |-> FALSE,
         truncated |-> Cardinality(kept) < Limit /\ seen # here]

\* A region's goroutine; an error (in any page) takes what was found with it.
RegionEnds(c) ==
    /\ c.kind = "lookup"
    /\ \E result \in {LookupFiltered(c.key),
                      [region |-> c.key, events |-> {}, err |-> TRUE, truncated |-> FALSE]} :
         /\ result.err => c.key \in Failed
         /\ m' = [m EXCEPT !.regionCh = Append(@, result)]
    /\ ReturnFrom(c, {})

rebuild(s) ==
    LET matching == {t \in s.all : s.errorsOnly => s.log[t].kind = "failed"}
    IN  [s EXCEPT !.visible = Newest(matching, Limit), !.capped = Cardinality(matching) > Limit]

\* Mutant: the last truncated flag counts.
regionMsg_LastTruncated(s, r) ==
    IF r.err THEN [s EXCEPT !.regionErrs = @ \union {r.region}]
    ELSE [s EXCEPT !.all = @ \union r.events, !.truncated = r.truncated]

regionMsg(s, r) ==
    IF r.err THEN [s EXCEPT !.regionErrs = @ \union {r.region}]
    ELSE [s EXCEPT !.all = @ \union r.events, !.truncated = @ \/ r.truncated]

\* waitRegion: the next result, and itself again; or, once every region has
\* sent, streamDoneMsg.
waitRegion(c) ==
    /\ c.kind = "wait"
    /\ \/ /\ m.regionCh # <<>>
          /\ m' = rebuild(regionMsg([m EXCEPT !.regionsDone = @ + 1, !.regionCh = Tail(@)],
                                    Head(m.regionCh)))
          /\ ReturnFrom(c, {c})
       \/ /\ m.regionCh = <<>> /\ Running("lookup") = {}
          /\ m' = rebuild([m EXCEPT !.loading = FALSE,
                             !.loadErr = m.all = {} /\ m.regionErrs = Regions])
          /\ ReturnFrom(c, {})

\* "x": failed calls only.
ToggleErrors ==
    m' = rebuild([m EXCEPT !.errorsOnly = ~@]) /\ UNCHANGED cmds

TrailNext == ToggleErrors \/ \E c \in UnderWay : RegionEnds(c) \/ waitRegion(c)

-------------------------------------------------------------------------------
TrailTypeOK ==
    /\ m.visible \subseteq m.all /\ m.all \subseteq Times
    /\ m.regionErrs \subseteq Failed /\ m.regionsDone \in 0..Cardinality(Regions)
    /\ Len(m.regionCh) <= Cardinality(Regions)

TrailSpinnerEnds == m.loading => Running("wait") # {}

\* The newest Limit events there are in the regions that answered.
Wanted ==
    Newest({t \in Times : /\ m.log[t].region \notin m.regionErrs
                          /\ m.log[t].kind # "hidden"
                          /\ m.errorsOnly => m.log[t].kind = "failed"}, Limit)

\* "the window is always the most recent `limit` events": what is missing from
\* it is missing because a region failed or its scan was cut off, and the header
\* says so; for failed calls only, the first Limit calls of a region may also
\* have kept older failed ones out.
TrailFeedComplete ==
    ~m.loading => m.visible = Wanted \/ m.truncated \/ m.errorsOnly
-------------------------------------------------------------------------------
(***************************************************************************)
(* A CloudTrail Lake query: started, polled until the service has finished *)
(* it or the wait is over, then read page by page, and shown at the end.   *)
(* The service's side of it is what GetQueryResults may answer.            *)
(***************************************************************************)

\* The goroutine's local state is in the key of its command: the rows it has
\* read and whether it may still wait.
Reader(n, patient) == Cmd("query", 0, <<n, patient>>)

LakeInit ==
    \E total \in 0..Rows, cap \in MaxRows :
      /\ m = [total |-> total, cap |-> cap, status |-> "queued", loading |-> TRUE,
              loadErr |-> FALSE, rows |-> 0]
      /\ cmds = Batch({Reader(0, TRUE)})

\* The service: queued, running, finished, or FAILED, CANCELLED or TIMED_OUT.
QueryRuns ==
    /\ m.status \in {"queued", "running"}
    /\ m' \in {[m EXCEPT !.status = x] : x \in {"running", "finished", "failed"}}
    /\ UNCHANGED cmds

loadedMsg(c, n, err) ==
    /\ m' = [m EXCEPT !.loading = FALSE, !.loadErr = err, !.rows = n]
    /\ ReturnFrom(c, {})

\* GetQueryResults of a query that has not finished: after the deadline the
\* query is given up (and runs on).
Poll(c) ==
    /\ c.kind = "query" /\ m.status \in {"queued", "running"}
    /\ \/ c.key[2] /\ ReturnFrom(c, {Reader(c.key[1], TRUE)}) /\ UNCHANGED m
       \/ c.key[2] /\ ReturnFrom(c, {Reader(c.key[1], FALSE)}) /\ UNCHANGED m
       \/ ~c.key[2] /\ loadedMsg(c, c.key[1], TRUE)

\* Mutant: a result ends where the deadline finds it.
ReadPage_Deadline(c) ==
    /\ c.kind = "query" /\ m.status = "finished"
    /\ LET n == IF c.key[1] < m.total THEN c.key[1] + 1 ELSE c.key[1]
       IN  IF n = m.total \/ (m.cap > 0 /\ n >= m.cap) \/ ~c.key[2] THEN loadedMsg(c, n, FALSE)
           ELSE ReturnFrom(c, {Reader(n, c.key[2])}) /\ UNCHANGED m

\* A page of a finished query, the deadline notwithstanding, until there is no
\* further one or there are MaxRows rows.
ReadPage(c) ==
    /\ c.kind = "query" /\ m.status = "finished"
    /\ LET n == IF c.key[1] < m.total THEN c.key[1] + 1 ELSE c.key[1]
       IN  IF n = m.total \/ (m.cap > 0 /\ n >= m.cap) THEN loadedMsg(c, n, FALSE)
           ELSE ReturnFrom(c, {Reader(n, c.key[2])}) /\ UNCHANGED m

\* A failed query, or a call that failed, which hands over what there was.
Fails(c) == c.kind = "query" /\ loadedMsg(c, c.key[1], TRUE)

LakeNext == QueryRuns \/ \E c \in UnderWay : Poll(c) \/ ReadPage(c) \/ Fails(c)

LakeTypeOK ==
    /\ m.total \in 0..Rows /\ m.rows \in 0..m.total /\ m.cap \in MaxRows
    /\ m.status \in {"queued", "running", "finished", "failed"}

LakeSpinnerEnds == m.loading => Running("query") # {}

\* A result without an error is a whole one, up to the bound asked for, whatever
\* the deadline did between its pages.
LakeFeedComplete ==
    ~m.loading /\ ~m.loadErr =>
      m.rows = IF m.cap > 0 /\ m.cap < m.total THEN m.cap ELSE m.total

-------------------------------------------------------------------------------
(***************************************************************************)
(* The cost audit: Stream audits the regions in a bounded pool, sends a    *)
(* chunk for each into a bounded channel and closes it; Update takes one   *)
(* chunk at a time.  A region has one finding, and an error if one of its  *)
(* collections failed.  The filter, the sort and the overlays only look at *)
(* the table and are left out.                                             *)
(***************************************************************************)

AuditInit ==
    /\ m = [next |-> 1, sending |-> {}, ch |-> <<>>, closed |-> FALSE, ctx |-> TRUE,
            scanning |-> TRUE, scanned |-> 0, all |-> {}, errs |-> {}, global |-> 0]
    /\ cmds = Batch({Cmd("wait", 0, None)})

Working == {c.key : c \in Running("region")} \union m.sending

\* g.Go: blocks while the pool is full.
Launch ==
    /\ m.next \in Scanned /\ Cardinality(Working) < Pool
    /\ m' = [m EXCEPT !.next = @ + 1]
    /\ cmds' = cmds (+) Batch({Cmd("region", 0, m.next)})

\* Mutant: the account-global sweeps run in every region.
Audit_EveryRegion(c) ==
    /\ c.kind = "region"
    /\ \E failed \in BOOLEAN :
         m' = [m EXCEPT !.sending = @ \union {c.key}, !.global = @ + 1,
                        !.errs = IF failed THEN @ \union {c.key} ELSE @]
    /\ ReturnFrom(c, {})

\* The categories of a region, one after the other; none stops the next.
Audit(c) ==
    /\ c.kind = "region"
    /\ \E failed \in BOOLEAN :
         m' = [m EXCEPT !.sending = @ \union {c.key}, !.global = IF c.key = 1 THEN @ + 1 ELSE @,
                        !.errs = IF failed THEN @ \union {c.key} ELSE @]
    /\ ReturnFrom(c, {})

\* The select: the channel has room, or the context is gone.
Send ==
    /\ \E r \in m.sending :
         \/ Len(m.ch) < Buffer /\ m' = [m EXCEPT !.sending = @ \ {r}, !.ch = Append(@, r)]
         \/ ~m.ctx /\ m' = [m EXCEPT !.sending = @ \ {r}]
    /\ UNCHANGED cmds

\* Mutant: the launched regions are not waited for.
Close_NoWait ==
    /\ m.next \notin Scanned /\ ~m.closed
    /\ m' = [m EXCEPT !.closed = TRUE] /\ UNCHANGED cmds

\* After g.Wait.
Close ==
    /\ m.next \notin Scanned /\ Working = {} /\ ~m.closed
    /\ m' = [m EXCEPT !.closed = TRUE] /\ UNCHANGED cmds

\* The command's context is cancelled, by a signal.
Cancel == m.ctx /\ m' = [m EXCEPT !.ctx = FALSE] /\ UNCHANGED cmds

\* chunkMsg.
waitForChunk(c) ==
    /\ c.kind = "wait"
    /\ \/ /\ m.ch # <<>>
          /\ m' = [m EXCEPT !.ch = Tail(@), !.scanned = @ + 1, !.all = @ \union {Head(m.ch)}]
          /\ ReturnFrom(c, {c})
       \/ m.ch = <<>> /\ m.closed /\ m' = [m EXCEPT !.scanning = FALSE] /\ ReturnFrom(c, {})

AuditNext ==
    \/ Launch \/ Send \/ Close \/ Cancel
    \/ \E c \in UnderWay : Audit(c) \/ waitForChunk(c)

-------------------------------------------------------------------------------
AuditTypeOK ==
    /\ m.all \subseteq Scanned /\ m.scanned = Cardinality(m.all)
    /\ Cardinality(Working) <= Pool /\ Len(m.ch) <= Buffer

\* The scan's spinner has a reader of the channel, which closes at the end.
AuditSpinnerEnds == m.scanning => Running("wait") # {} /\ (m.closed => Working = {})

\* At the end every region's findings are in the table, and the account-global
\* ones were looked for once, unless the scan was cancelled.
AuditFeedComplete ==
    ~m.scanning /\ m.ctx => m.all = Scanned /\ m.global = 1

-------------------------------------------------------------------------------
(***************************************************************************)
(* The live bill: fetched again by a timer and on request, every fetch     *)
(* being a paid one, and the breakdown of a service by resource.  Of a     *)
(* bill only its services matter.                                          *)
(***************************************************************************)

BillInit ==
    /\ m = [fetching |-> TRUE, fetchErr |-> FALSE, bill |-> {}, timerID |-> 0, filtering |-> FALSE,
            overlay |-> "none", resService |-> None, resRows |-> None, resFetching |-> FALSE,
            deserted |-> FALSE]
    /\ cmds = Batch({Cmd("fetch", 0, None)})

\* Mutant: the timer keeps its id.
billMsg_SameTimer(c) ==
    /\ c.kind = "fetch"
    /\ \E g \in Gen :
         /\ Fresh(g, m.timerID)
         /\ m' = [m EXCEPT !.fetching = FALSE, !.fetchErr = FALSE]
         /\ ReturnFrom(c, {Cmd("tick", g, None)})

\* billMsg: a bill, or an error that leaves the bill before on display; either
\* way a timer with an id of its own (scheduleTick).
billMsg(c) ==
    /\ c.kind = "fetch"
    /\ \E g \in Gen :
         /\ Fresh(g, m.timerID)
         /\ \/ m' = [m EXCEPT !.fetching = FALSE, !.fetchErr = TRUE, !.timerID = g]
            \/ \E S \in SUBSET Service :
                 m' = [m EXCEPT !.fetching = FALSE, !.fetchErr = FALSE, !.timerID = g, !.bill = S]
         /\ ReturnFrom(c, {Cmd("tick", g, None)})

\* Mutant: a tick of an old timer, or one during a fetch, fetches too.
tickMsg_Always(c) ==
    /\ c.kind = "tick"
    /\ m' = [m EXCEPT !.fetching = TRUE]
    /\ ReturnFrom(c, {Cmd("fetch", 0, None)})

tickMsg(c) ==
    /\ c.kind = "tick"
    /\ IF c.gen # m.timerID \/ m.fetching THEN m' = m /\ ReturnFrom(c, {})
       ELSE m' = [m EXCEPT !.fetching = TRUE] /\ ReturnFrom(c, {Cmd("fetch", 0, None)})

\* resourcesMsg: that of a breakdown which was closed is dropped, and with it
\* the end of resFetching.
resourcesMsg(c) ==
    /\ c.kind = "resources"
    /\ IF c.key # m.resService THEN m' = m
       ELSE m' \in {[m EXCEPT !.resFetching = FALSE, !.resRows = c.key],
                    [m EXCEPT !.resFetching = FALSE]}
    /\ ReturnFrom(c, {})

-------------------------------------------------------------------------------
Go(s) == m' = s /\ UNCHANGED cmds
Browsing == m.overlay = "none" /\ ~m.filtering

\* "u".
RefreshNow ==
    /\ Browsing /\ ~m.fetching
    /\ m' = [m EXCEPT !.fetching = TRUE] /\ Return({Cmd("fetch", 0, None)})

\* "x" on a line: not while a breakdown is fetched.
OpenResources ==
    /\ Browsing /\ ~m.resFetching
    /\ \E s \in m.bill :
         /\ m' = [m EXCEPT !.overlay = "resources", !.resService = s, !.resRows = None,
                           !.resFetching = TRUE]
         /\ Return({Cmd("resources", 0, s)})

\* Enter on a line, the help pages, "/" and its end.
OpenOther ==
    /\ Browsing
    /\ \/ Go([m EXCEPT !.overlay = "detail"])
       \/ Go([m EXCEPT !.filtering = TRUE])
CloseFilter == m.filtering /\ Go([m EXCEPT !.filtering = FALSE])

\* Esc.  deserted is history: a breakdown was closed before its answer.
CloseOverlay ==
    /\ m.overlay # "none"
    /\ Go([m EXCEPT !.overlay = "none", !.resService = None, !.deserted = @ \/ m.resFetching])

BillKeys == RefreshNow \/ OpenResources \/ OpenOther \/ CloseFilter \/ CloseOverlay
BillAnswer(c) == billMsg(c) \/ tickMsg(c) \/ resourcesMsg(c)
BillNext == BillKeys \/ \E c \in UnderWay : BillAnswer(c)

-------------------------------------------------------------------------------
BillTypeOK ==
    /\ m.bill \subseteq Service /\ m.resService \in Service \union {None}
    /\ m.overlay \in {"none", "detail", "resources"} /\ (m.overlay = "resources" <=> m.resService # None)
    /\ \A c \in UnderWay : c.kind \in {"fetch", "tick", "resources"}

\* "each refresh is one paid API request": never two at a time, whether they
\* come from the timer or from the user.
OneLoad == Copies(Cmd("fetch", 0, None)) = IF m.fetching THEN 1 ELSE 0

\* The breakdown's wait ends, unless one was closed before its answer.
BillSpinnerEnds ==
    m.resFetching => Cmd("resources", 0, m.resService) \in UnderWay \/ m.deserted

\* "re-fetches from Cost Explorer on a fixed interval": while nothing is
\* fetched, the timer runs whose tick will be heard, and only one.
KeepsTicking ==
    ~m.fetching => Copies(Cmd("tick", m.timerID, None)) = 1

-------------------------------------------------------------------------------
(***************************************************************************)
(* The feed is complete for every finite set of times, every log, limit    *)
(* and bound of pages.  The window of the whole is the window of what the  *)
(* regions sent, as long as none was cut off: an event that was not sent   *)
(* has Limit newer ones in its region, which were.                         *)
(***************************************************************************)
\* The times of the events there are: finitely many naturals.  What follows from it
\* for the sizes of their parts, and of naturals, is said here because no library is used.
FiniteTimes ==
    /\ Times \subseteq Nat
    /\ \A B \in SUBSET Times : \A A \in SUBSET B :
         /\ Cardinality(A) \in Nat /\ Cardinality(B) \in Nat /\ Cardinality(A) <= Cardinality(B)
         /\ A # B => Cardinality(A) < Cardinality(B)
    /\ \A T \in SUBSET Nat : T # {} => \E x \in T : \A y \in T : x <= y

\* A set of naturals has a least element.
LEMMA Least ==
    ASSUME FiniteTimes, NEW T, T \subseteq Nat, T # {}
    PROVE  \E x \in T : \A y \in T : x <= y
BY DEF FiniteTimes

\* Parts of the times have sizes, and a part of a part a smaller one.
LEMMA Sizes ==
    ASSUME FiniteTimes, NEW A, NEW B, A \subseteq B, B \subseteq Times
    PROVE  /\ Cardinality(A) \in Nat /\ Cardinality(B) \in Nat /\ Cardinality(A) <= Cardinality(B)
           /\ A # B => Cardinality(A) < Cardinality(B)
BY DEF FiniteTimes

\* Newest takes as many as it is asked for if there are as many.
LEMMA Enough ==
    ASSUME FiniteTimes, NEW k \in Nat, NEW D, D \subseteq Times, Cardinality(D) >= k
    PROVE  Cardinality(Newest(D, k)) >= k
<1>x. Times \subseteq Nat BY DEF FiniteTimes
<1> DEFINE Bad(E) == E \subseteq Times /\ Cardinality(E) >= k /\ ~(Cardinality(Newest(E, k)) >= k)
           T == {Cardinality(E) : E \in {E \in SUBSET Times : Bad(E)}}
<1>1. SUFFICES ASSUME Bad(D) PROVE FALSE OBVIOUS
<1>2. T \subseteq Nat BY Sizes
<1>3. T # {} BY <1>1
<1>4. PICK E \in SUBSET Times : /\ Bad(E)
                                /\ \A G \in SUBSET Times : Bad(G) => Cardinality(E) <= Cardinality(G)
  <2>1. PICK c \in T : \A y \in T : c <= y BY <1>2, <1>3, Least
  <2> HIDE DEF Bad
  <2>2. PICK E \in SUBSET Times : Bad(E) /\ c = Cardinality(E) OBVIOUS
  <2>3. \A G \in SUBSET Times : Bad(G) => Cardinality(G) \in T OBVIOUS
  <2> QED BY <2>1, <2>2, <2>3
<1>5. CASE E = {}
  <2>1. Newest(E, k) = E BY <1>5 DEF Newest
  <2> QED BY <1>4, <2>1
<1>6. CASE E # {}
  <2>0. E \subseteq Nat BY <1>4, <1>x
  <2>1. PICK x \in E : \A y \in E : x <= y BY <2>0, <1>6, Least
  <2> DEFINE F == E \ {x}
  <2>2. F \subseteq E /\ F # E /\ E \subseteq Times BY <1>4, <2>1
  <2>3. Cardinality(F) < Cardinality(E) /\ Cardinality(F) \in Nat /\ Cardinality(E) \in Nat
    BY <2>2, Sizes
  <2>4. ~Bad(F) BY <2>2, <2>3, <1>4
  <2>5. CASE Cardinality(F) >= k
    <3>1. Newest(F, k) \subseteq Newest(E, k)
      <4>1. \A t \in F : {u \in E : u > t} = {u \in F : u > t} BY <2>0, <2>1
      <4> QED BY <4>1, <2>2 DEF Newest
    <3>2. Newest(E, k) \subseteq Times BY <2>2 DEF Newest
    <3>3. Cardinality(Newest(F, k)) >= k BY <2>2, <2>4, <2>5
    <3>4. /\ Cardinality(Newest(F, k)) <= Cardinality(Newest(E, k))
          /\ Cardinality(Newest(F, k)) \in Nat
          /\ Cardinality(Newest(E, k)) \in Nat
      BY <3>1, <3>2, Sizes
    <3>5. Cardinality(Newest(E, k)) >= k BY <3>3, <3>4
    <3> QED BY <3>5, <1>4
  <2>6. CASE ~(Cardinality(F) >= k)
    <3>1. ASSUME NEW t \in E PROVE Cardinality({u \in E : u > t}) < k
      <4>2. {u \in E : u > t} \subseteq F BY <2>0, <2>1
      <4>3. F \subseteq Times BY <2>2
      <4>4. /\ Cardinality({u \in E : u > t}) <= Cardinality(F)
            /\ Cardinality({u \in E : u > t}) \in Nat
         BY <4>2, <4>3, Sizes
      <4> QED BY <4>4, <2>3, <2>6
    <3>2. Newest(E, k) = E BY <3>1 DEF Newest
    <3> QED BY <3>2, <1>4
  <2> QED BY <2>5, <2>6
<1> QED BY <1>5, <1>6

\* The newer events.
Above(E, t) == {u \in E : u > t}

\* A part of E that has enough newer ones for each element left out has the
\* same newest.
LEMMA NewestOfPart ==
    ASSUME FiniteTimes, NEW k \in Nat, NEW A, NEW E, A \subseteq E, E \subseteq Times,
           \A e \in E \ A : Cardinality(Above(A, e)) >= k
    PROVE  Newest(A, k) = Newest(E, k)
<1>x. Times \subseteq Nat BY DEF FiniteTimes
<1> USE DEF Above
<1>1. ASSUME NEW t \in Newest(E, k) PROVE t \in Newest(A, k)
  <2>1. t \in E /\ Cardinality({u \in E : u > t}) < k BY <1>1 DEF Newest
  <2>2. {u \in A : u > t} \subseteq {u \in E : u > t} /\ {u \in E : u > t} \subseteq Times
    OBVIOUS
  <2>3. /\ Cardinality({u \in A : u > t}) <= Cardinality({u \in E : u > t})
        /\ Cardinality({u \in A : u > t}) \in Nat /\ Cardinality({u \in E : u > t}) \in Nat BY <2>2, Sizes
  <2>4. t \in A BY <2>1, <2>3
  <2> QED BY <2>1, <2>3, <2>4 DEF Newest
<1>2. ASSUME NEW t \in Newest(A, k) PROVE t \in Newest(E, k)
  <2>1. t \in A /\ Cardinality({u \in A : u > t}) < k BY <1>2 DEF Newest
  <2>2. CASE {u \in A : u > t} = {u \in E : u > t} BY <2>1, <2>2 DEF Newest
  <2>3. CASE {u \in A : u > t} # {u \in E : u > t}
    <3>1. PICK e \in E \ A : e > t BY <2>3
    <3>a. t \in Nat /\ e \in Nat /\ e > t BY <1>x, <2>1, <3>1
    <3>b. \A u \in A : u \in Nat /\ (u > e => u > t) BY <1>x, <3>a
    <3>2. {u \in A : u > e} \subseteq {u \in A : u > t} /\ {u \in A : u > t} \subseteq Times
      BY <3>b
    <3>3. /\ Cardinality({u \in A : u > e}) <= Cardinality({u \in A : u > t})
          /\ Cardinality({u \in A : u > e}) \in Nat
          /\ Cardinality({u \in A : u > t}) \in Nat
      BY <3>2, Sizes
    <3> QED BY <2>1, <3>1, <3>3
  <2> QED BY <2>2, <2>3
<1>3. Newest(A, k) \subseteq Newest(E, k) BY <1>2
<1>4. Newest(E, k) \subseteq Newest(A, k) BY <1>1
<1> QED BY <1>3, <1>4

\* The newest of E are above each element of E left out.
LEMMA NewerInNewest ==
    ASSUME FiniteTimes, NEW k \in Nat, NEW E, E \subseteq Times, NEW e \in E \ Newest(E, k)
    PROVE  Cardinality(Above(Newest(E, k), e)) >= k
<1>x. Times \subseteq Nat BY DEF FiniteTimes
<1> USE DEF Above
<1> DEFINE Q == {u \in E : u > e}
<1>1. Cardinality(Q) >= k /\ Q \subseteq Times
  <2>1. Q \subseteq Times OBVIOUS
  <2>2. Cardinality(Q) \in Nat BY <2>1, Sizes
  <2> QED BY <2>1, <2>2 DEF Newest
<1>2. Cardinality(Newest(Q, k)) >= k BY <1>1, Enough
<1>3. ASSUME NEW t \in Q PROVE {u \in Q : u > t} = {u \in E : u > t}
  <2>1. t \in Nat /\ e \in Nat /\ t > e BY <1>x
  <2>2. \A u \in E : u \in Nat /\ (u > t => u > e) BY <1>x, <2>1
  <2> QED BY <2>2
<1>4. Newest(Q, k) = {u \in Newest(E, k) : u > e} BY <1>3 DEF Newest
<1> QED BY <1>2, <1>4

\* What a region has to show.
Shown(r) == {t \in Times : m.log[t].region = r /\ m.log[t].kind # "hidden"}

\* A lookup that is not cut off has the newest of its region's events.
LEMMA LookupWhole ==
    ASSUME FiniteTimes, Limit \in Nat, MaxPages \in Nat, NEW r
    PROVE  /\ LookupFiltered(r).events \subseteq Shown(r)
           /\ ~LookupFiltered(r).truncated => LookupFiltered(r).events = Newest(Shown(r), Limit)
<1>x. Times \subseteq Nat BY DEF FiniteTimes
<1> DEFINE here == {t \in Times : m.log[t].region = r}
           seen == Newest(here, MaxPages)
           kept == {t \in seen : m.log[t].kind # "hidden"}
<1>1. LookupFiltered(r) = [region |-> r, events |-> Newest(kept, Limit), err |-> FALSE,
                           truncated |-> Cardinality(kept) < Limit /\ seen # here]
  BY DEF LookupFiltered
<1>2. /\ kept \subseteq Shown(r)
      /\ Newest(kept, Limit) \subseteq kept
      /\ seen \subseteq here
      /\ here \subseteq Times
  BY DEF Newest, Shown
<1>3. ASSUME ~LookupFiltered(r).truncated, NEW e \in Shown(r) \ kept
      PROVE  Cardinality(Above(kept, e)) >= Limit
  <2>1. e \in here \ seen BY <1>3 DEF Shown
  <2>2. Cardinality(kept) \in Nat BY <1>2, Sizes
  <2>a. ~(Cardinality(kept) < Limit /\ seen # here)
    <3>1. \A x, y, z, b : ~[region |-> x, events |-> y, err |-> z, truncated |-> b].truncated => ~b
      OBVIOUS
    <3> HIDE DEF kept, seen, here
    <3> QED BY <1>1, <1>3, <3>1
  <2>3. Cardinality(kept) >= Limit BY <2>a, <2>1, <2>2
  <2>4. ASSUME NEW u \in kept PROVE u > e
    <3>1. u \in here /\ Cardinality({v \in here : v > u}) < MaxPages BY DEF Newest
    <3>2. SUFFICES ASSUME ~(u > e) PROVE FALSE OBVIOUS
    <3>a. u \in Nat /\ e \in Nat BY <3>1, <2>1, <1>x
    <3>3. u \in Nat /\ e \in Nat /\ u <= e BY <3>a, <3>2
    <3>4. \A v \in here : v \in Nat /\ (v > e => v > u)
      <4>1. \A v \in Nat : v > e => v > u BY <3>3
      <4>2. here \subseteq Nat BY <1>x
      <4> QED BY <4>1, <4>2
    <3>5. /\ {v \in here : v > e} \subseteq {v \in here : v > u}
          /\ {v \in here : v > u} \subseteq Times
      BY <3>4, <1>2
    <3>6. /\ Cardinality({v \in here : v > e}) <= Cardinality({v \in here : v > u})
          /\ Cardinality({v \in here : v > e}) \in Nat /\ Cardinality({v \in here : v > u}) \in Nat
      BY <3>5, Sizes
    <3>7. Cardinality({v \in here : v > e}) < MaxPages BY <3>1, <3>6
    <3> QED BY <3>7, <2>1 DEF Newest
  <2>5. Above(kept, e) = kept BY <2>4 DEF Above
  <2> QED BY <2>3, <2>5
<1>4. ASSUME ~LookupFiltered(r).truncated PROVE Newest(kept, Limit) = Newest(Shown(r), Limit)
  <2>1. Shown(r) \subseteq Times BY DEF Shown
  <2>2. \A e \in Shown(r) \ kept : Cardinality(Above(kept, e)) >= Limit BY <1>3, <1>4
  <2> HIDE DEF kept
  <2> QED BY <1>2, <2>1, <2>2, NewestOfPart
<1> HIDE DEF kept, seen, here
<1> QED BY <1>1, <1>2, <1>4

-------------------------------------------------------------------------------
TrailFields == {"log", "errorsOnly", "loading", "loadErr", "truncated", "capped", "regionErrs",
                "regionsDone", "all", "visible", "regionCh"}

\* The lookup of a region, its possible results, and whether it is under way,
\* has been sent or has been taken in.
Look(r) == Cmd("lookup", 0, r)
Failure(r) == [region |-> r, events |-> {}, err |-> TRUE, truncated |-> FALSE]
Results == UNION {{LookupFiltered(r), Failure(r)} : r \in Regions}
Sent(r) == \E i \in 1..Len(m.regionCh) : m.regionCh[i].region = r
Over(r) == Look(r) \notin UnderWay /\ ~Sent(r)

Matching == {t \in m.all : m.errorsOnly => m.log[t].kind = "failed"}

TrailType ==
    /\ IsABag(cmds) /\ DOMAIN m = TrailFields
    /\ m.log \in Logs /\ m.regionErrs \subseteq Regions /\ m.all \subseteq Times
    /\ m.regionCh \in Seq(Results)
    /\ m.loading \in BOOLEAN /\ m.truncated \in BOOLEAN /\ m.errorsOnly \in BOOLEAN
    /\ \A c \in UnderWay : c.kind = "lookup" => c = Look(c.key) /\ c.key \in Regions
\* A region is looked up once and answers once.
LookedUpOnce ==
    /\ \A r \in Regions : Look(r) \in UnderWay => Copies(Look(r)) = 1 /\ ~Sent(r)
    /\ \A i, j \in 1..Len(m.regionCh) : m.regionCh[i].region = m.regionCh[j].region => i = j
\* What has been taken in is what the regions that answered sent.
TakenIn ==
    /\ \A r \in m.regionErrs : Over(r)
    /\ \A t \in m.all : LET r == m.log[t].region
                        IN  Over(r) /\ r \notin m.regionErrs /\ t \in LookupFiltered(r).events
    /\ \A r \in Regions : Over(r) /\ r \notin m.regionErrs =>
         /\ LookupFiltered(r).events \subseteq m.all
         /\ LookupFiltered(r).truncated => m.truncated
\* The table is the window of what has been taken in.
Windowed == m.visible = Newest(Matching, Limit)
Ended == ~m.loading => \A r \in Regions : Over(r)

\* The inductive invariant.
TrailInv == TrailType /\ LookedUpOnce /\ TakenIn /\ Windowed /\ Ended

\* The invariant says that the feed is complete.
LEMMA TrailDone ==
    ASSUME FiniteTimes, Limit \in Nat, MaxPages \in Nat, TrailInv
    PROVE  TrailFeedComplete
<1>x. Times \subseteq Nat BY DEF FiniteTimes
<1>1. SUFFICES ASSUME ~m.loading, ~m.truncated, ~m.errorsOnly PROVE m.visible = Wanted
  BY DEF TrailFeedComplete
<1> DEFINE E == {t \in Times : m.log[t].region \notin m.regionErrs /\ m.log[t].kind # "hidden"}
<1>2. Wanted = Newest(E, Limit) BY <1>1 DEF Wanted
<1>3. m.visible = Newest(m.all, Limit)
  <2>1. Matching = m.all BY <1>1 DEF Matching
  <2> QED BY <2>1 DEF TrailInv, Windowed
<1>4. m.all \subseteq E
  <2>1. ASSUME NEW t \in m.all PROVE t \in E
    <3> DEFINE r == m.log[t].region
    <3>1. r \notin m.regionErrs /\ t \in LookupFiltered(r).events BY DEF TrailInv, TakenIn
    <3>2. t \in Shown(r) BY <3>1, LookupWhole
    <3> QED BY <3>1, <3>2 DEF Shown
  <2> QED BY <2>1
<1>5. ASSUME NEW e \in E \ m.all PROVE Cardinality(Above(m.all, e)) >= Limit
  <2> DEFINE r == m.log[e].region
             top == Newest(Shown(r), Limit)
  <2>1. r \in Regions /\ r \notin m.regionErrs /\ e \in Shown(r)
    BY <1>5 DEF TrailInv, TrailType, Logs, Shown
  <2>2. top \subseteq m.all
    <3>1. LookupFiltered(r).events \subseteq m.all /\ ~LookupFiltered(r).truncated
      BY <1>1, <2>1 DEF TrailInv, TakenIn, Ended
    <3> QED BY <3>1, LookupWhole
  <2>3. Shown(r) \subseteq Times /\ e \in Shown(r) \ top BY <2>1, <2>2, <1>5 DEF Shown
  <2>4. Cardinality(Above(top, e)) >= Limit
    <3> HIDE DEF r
    <3> QED BY <2>3, NewerInNewest
  <2>5. Above(top, e) \subseteq Above(m.all, e) /\ Above(m.all, e) \subseteq Times
    BY <2>2 DEF TrailInv, TrailType, Above
  <2>6. /\ Cardinality(Above(top, e)) <= Cardinality(Above(m.all, e))
        /\ Cardinality(Above(top, e)) \in Nat /\ Cardinality(Above(m.all, e)) \in Nat
    BY <2>5, Sizes
  <2> QED BY <2>4, <2>6
<1>6. E \subseteq Times OBVIOUS
<1>7. \A e \in E \ m.all : Cardinality(Above(m.all, e)) >= Limit BY <1>5
<1> HIDE DEF E
<1>8. Newest(m.all, Limit) = Newest(E, Limit)
  <2> PICK a : a = m.all OBVIOUS
  <2>1. a \subseteq E /\ \A e \in E \ a : Cardinality(Above(a, e)) >= Limit BY <1>4, <1>7
  <2>2. Newest(a, Limit) = Newest(E, Limit) BY <2>1, <1>6, NewestOfPart
  <2> QED BY <2>2
<1> QED BY <1>2, <1>3, <1>8

\* What a lookup finds only depends on where the events happened.
LEMMA SameLog ==
    ASSUME m'.log = m.log
    PROVE  (\A r : LookupFiltered(r)' = LookupFiltered(r)) /\ Results' = Results
<1>1. \A r : LookupFiltered(r)' = LookupFiltered(r) BY DEF LookupFiltered
<1> QED BY <1>1 DEF Results, Failure

\* rebuild sets the window and touches nothing the rest of the invariant is about.
LEMMA Rebuilt ==
    ASSUME NEW s, DOMAIN s = TrailFields, m' = rebuild(s)
    PROVE  /\ DOMAIN m' = TrailFields /\ Windowed'
           /\ m'.log = s.log /\ m'.errorsOnly = s.errorsOnly /\ m'.loading = s.loading
           /\ m'.truncated = s.truncated
           /\ m'.regionErrs = s.regionErrs /\ m'.all = s.all /\ m'.regionCh = s.regionCh
<1> DEFINE matching == {t \in s.all : s.errorsOnly => s.log[t].kind = "failed"}
<1>1. m' = [s EXCEPT !.visible = Newest(matching, Limit), !.capped = Cardinality(matching) > Limit]
  BY DEF rebuild
<1>2. /\ DOMAIN m' = TrailFields /\ m'.visible = Newest(matching, Limit)
      /\ m'.log = s.log /\ m'.errorsOnly = s.errorsOnly /\ m'.loading = s.loading
      /\ m'.truncated = s.truncated
      /\ m'.regionErrs = s.regionErrs /\ m'.all = s.all /\ m'.regionCh = s.regionCh
  <2> HIDE DEF matching
  <2> QED BY <1>1 DEF TrailFields
<1>3. Matching' = matching BY <1>2 DEF Matching
<1> QED BY <1>2, <1>3 DEF Windowed

\* "x" only changes the window.
LEMMA TrailToggles == ASSUME TrailInv, ToggleErrors PROVE TrailInv'
<1> DEFINE s == [m EXCEPT !.errorsOnly = ~@]
<1>1. m' = rebuild(s) /\ cmds' = cmds BY DEF ToggleErrors
<1>2. DOMAIN s = TrailFields /\ s.log = m.log /\ s.loading = m.loading /\ s.truncated = m.truncated
      /\ s.regionErrs = m.regionErrs /\ s.all = m.all /\ s.regionCh = m.regionCh
      /\ s.errorsOnly \in BOOLEAN
  BY DEF TrailInv, TrailType, TrailFields
<1>3. /\ DOMAIN m' = TrailFields /\ Windowed' /\ m'.log = m.log /\ m'.errorsOnly \in BOOLEAN
      /\ m'.loading = m.loading /\ m'.truncated = m.truncated /\ m'.regionErrs = m.regionErrs
      /\ m'.all = m.all /\ m'.regionCh = m.regionCh
  <2> HIDE DEF s
  <2> QED BY <1>1, <1>2, Rebuilt
<1>4. UnderWay' = UnderWay /\ IsABag(cmds') /\ \A r : Copies(Look(r))' = Copies(Look(r))
  BY <1>1 DEF TrailInv, TrailType, UnderWay, Copies, CopiesIn, Look
<1>5. \A r : (Over(r)' <=> Over(r)) /\ (Sent(r)' <=> Sent(r))
  BY <1>3, <1>4 DEF Over, Sent, Look
<1>6. (\A r : LookupFiltered(r)' = LookupFiltered(r)) /\ Results' = Results BY <1>3, SameLog
<1>7. TrailType' BY <1>3, <1>4, <1>6 DEF TrailInv, TrailType
<1>8. LookedUpOnce' BY <1>3, <1>4, <1>5 DEF TrailInv, LookedUpOnce
<1>9. TakenIn' BY <1>3, <1>5, <1>6 DEF TrailInv, TakenIn
<1>10. Ended' BY <1>3, <1>5 DEF TrailInv, Ended
<1> QED BY <1>3, <1>7, <1>8, <1>9, <1>10 DEF TrailInv

\* A lookup that ends moves its region from the commands to the channel.
LEMMA RegionSends == ASSUME TrailInv, NEW c \in UnderWay, RegionEnds(c) PROVE TrailInv'
<1>1. PICK r \in Regions : c = Look(r) /\ c.key = r
  BY DEF RegionEnds, TrailInv, TrailType, Look, Cmd
<1>2. PICK R \in {LookupFiltered(r), Failure(r)} : m' = [m EXCEPT !.regionCh = Append(@, R)]
  BY <1>1 DEF RegionEnds, Failure
<1>3. R.region = r /\ R \in Results
  <2>1. R.region = r BY <1>2 DEF LookupFiltered, Failure
  <2>2. R \in Results BY <1>2 DEF Results
  <2> QED BY <2>1, <2>2
<1>4. /\ DOMAIN m' = TrailFields /\ m'.log = m.log /\ m'.errorsOnly = m.errorsOnly
      /\ m'.loading = m.loading
      /\ m'.truncated = m.truncated /\ m'.regionErrs = m.regionErrs /\ m'.all = m.all
      /\ m'.visible = m.visible
      /\ m'.regionCh = Append(m.regionCh, R)
  BY <1>2 DEF TrailInv, TrailType, TrailFields
<1>5. /\ IsABag(cmds') /\ UnderWay' \subseteq UnderWay /\ UnderWay \ {c} \subseteq UnderWay'
      /\ \A x : Copies(x)' = (Copies(x) + 0) - (IF x = c THEN 1 ELSE 0)
  BY ReturnFromBag DEF RegionEnds, TrailInv, TrailType
<1>6. Copies(c) = 1 /\ ~Sent(r) BY <1>1 DEF TrailInv, LookedUpOnce
<1>7. c \notin UnderWay'
  <2>1. Copies(c)' = 0 BY <1>5, <1>6
  <2>2. \A x \in UnderWay' : cmds'[x] > 0 BY <1>5 DEF IsABag, UnderWay, BagToSet
  <2> QED BY <2>1, <2>2 DEF Copies, CopiesIn, UnderWay, BagToSet
<1>8. ASSUME NEW s \in Regions, s # r
      PROVE  Copies(Look(s))' = Copies(Look(s)) /\ (Look(s) \in UnderWay' <=> Look(s) \in UnderWay)
  <2>1. Look(s) # c BY <1>1, <1>8 DEF Look, Cmd
  <2>2. Copies(Look(s)) \in Nat
    BY DEF Copies, CopiesIn, TrailInv, TrailType, IsABag, UnderWay, BagToSet
  <2> QED BY <1>5, <2>1, <2>2
<1>9. m.regionCh \in Seq(Results) /\ Len(m.regionCh) \in Nat BY DEF TrailInv, TrailType
<1>10. /\ m'.regionCh \in Seq(Results) /\ Len(m'.regionCh) = Len(m.regionCh) + 1
       /\ \A i \in 1..Len(m.regionCh) : m'.regionCh[i] = m.regionCh[i]
       /\ m'.regionCh[Len(m.regionCh) + 1] = R
  BY <1>3, <1>4, <1>9
<1>11. \A i \in 1..Len(m'.regionCh) : i \in 1..Len(m.regionCh) \/ i = Len(m.regionCh) + 1
  BY <1>9, <1>10
<1>12. \A s : Sent(s)' <=> Sent(s) \/ s = r
  <2>1. ASSUME NEW s, Sent(s)' PROVE Sent(s) \/ s = r
    <3>1. PICK i \in 1..Len(m'.regionCh) : m'.regionCh[i].region = s BY <2>1 DEF Sent
    <3> QED BY <3>1, <1>3, <1>10, <1>11 DEF Sent
  <2>2. ASSUME NEW s, Sent(s) PROVE Sent(s)'
    <3>1. PICK i \in 1..Len(m.regionCh) : m.regionCh[i].region = s BY <2>2 DEF Sent
    <3>2. i \in 1..Len(m'.regionCh) BY <1>9, <1>10
    <3> QED BY <3>1, <3>2, <1>10 DEF Sent
  <2>3. Sent(r)'
    <3>1. Len(m.regionCh) + 1 \in 1..Len(m'.regionCh) BY <1>9, <1>10
    <3> QED BY <3>1, <1>3, <1>10 DEF Sent
  <2> QED BY <2>1, <2>2, <2>3
<1>13. \A s \in Regions : Over(s)' <=> Over(s)
  <2>1. ~Over(r) /\ ~Over(r)' BY <1>1, <1>12 DEF Over
  <2>2. ASSUME NEW s \in Regions, s # r PROVE Over(s)' <=> Over(s)
    BY <1>8, <1>12, <2>2 DEF Over
  <2> QED BY <2>1, <2>2
<1>14. (\A s : LookupFiltered(s)' = LookupFiltered(s)) /\ Results' = Results
  BY <1>4, SameLog
<1>15. TrailType' BY <1>4, <1>5, <1>10, <1>14 DEF TrailInv, TrailType
<1>16. LookedUpOnce'
  <2>1. ASSUME NEW s \in Regions, Look(s) \in UnderWay' PROVE Copies(Look(s))' = 1 /\ ~Sent(s)'
    <3>1. s # r BY <2>1, <1>1, <1>7
    <3> QED BY <3>1, <2>1, <1>8, <1>12 DEF TrailInv, LookedUpOnce
  <2>2. ASSUME NEW i \in 1..Len(m'.regionCh), NEW j \in 1..Len(m'.regionCh),
               m'.regionCh[i].region = m'.regionCh[j].region PROVE i = j
    <3>1. \A k \in 1..Len(m.regionCh) : m.regionCh[k].region # r BY <1>6 DEF Sent
    <3> QED BY <3>1, <2>2, <1>3, <1>10, <1>11 DEF TrailInv, LookedUpOnce
  <2> QED BY <2>1, <2>2 DEF LookedUpOnce
<1>17. TakenIn'
  <2>1. \A t \in m.all : m.log[t].region \in Regions BY DEF TrailInv, TrailType, Logs
  <2>2. m.regionErrs \subseteq Regions BY DEF TrailInv, TrailType
  <2> QED BY <1>4, <1>13, <1>14, <2>1, <2>2 DEF TrailInv, TakenIn
<1>18. Ended' BY <1>4, <1>13 DEF TrailInv, Ended
<1>19. Windowed' BY <1>4 DEF TrailInv, Windowed, Matching
<1> QED BY <1>15, <1>16, <1>17, <1>18, <1>19 DEF TrailInv

\* regionMsg takes in a result or an error.
LEMMA RegionTakenIn ==
    ASSUME TrailInv, NEW c \in UnderWay, c.kind = "wait", m.regionCh # <<>>, ReturnFrom(c, {c}),
           m' = rebuild(regionMsg([m EXCEPT !.regionsDone = @ + 1, !.regionCh = Tail(@)], Head(m.regionCh)))
    PROVE  TrailInv'
<1> DEFINE s == [m EXCEPT !.regionsDone = @ + 1, !.regionCh = Tail(@)]
           t == regionMsg(s, Head(m.regionCh))
<1>1. /\ m.regionCh \in Seq(Results) /\ Len(m.regionCh) \in Nat \ {0}
      /\ Head(m.regionCh) = m.regionCh[1]
      /\ Head(m.regionCh) \in Results
      /\ Tail(m.regionCh) \in Seq(Results) /\ Len(Tail(m.regionCh)) = Len(m.regionCh) - 1
      /\ \A i \in 1..(Len(m.regionCh) - 1) : Tail(m.regionCh)[i] = m.regionCh[i + 1]
  <2>1. \A q \in Seq(Results) : q # <<>> =>
          /\ Len(q) \in Nat \ {0} /\ Head(q) = q[1] /\ Head(q) \in Results
          /\ Tail(q) \in Seq(Results) /\ Len(Tail(q)) = Len(q) - 1
          /\ \A i \in 1..(Len(q) - 1) : Tail(q)[i] = q[i + 1]
    OBVIOUS
  <2> QED BY <2>1 DEF TrailInv, TrailType
<1>2. PICK R \in Results : R = m.regionCh[1] BY <1>1
<1>3. PICK r \in Regions : R \in {LookupFiltered(r), Failure(r)} BY <1>2 DEF Results
<1>4. /\ R.region = r
      /\ R.err => R = Failure(r)
      /\ ~R.err => R = LookupFiltered(r)
  <2>1. LookupFiltered(r).region = r /\ LookupFiltered(r).err = FALSE BY DEF LookupFiltered
  <2> QED BY <2>1, <1>3 DEF Failure
<1>5. /\ DOMAIN t = TrailFields /\ t.log = m.log /\ t.errorsOnly = m.errorsOnly
      /\ t.loading = m.loading
      /\ t.regionCh = Tail(m.regionCh)
      /\ R.err => t.regionErrs = m.regionErrs \union {r} /\ t.all = m.all /\ t.truncated = m.truncated
      /\ ~R.err => t.regionErrs = m.regionErrs /\ t.all = m.all \union R.events
                   /\ (t.truncated <=> m.truncated \/ R.truncated) /\ t.truncated \in BOOLEAN
  BY <1>1, <1>2, <1>4 DEF regionMsg, TrailInv, TrailType, TrailFields
<1>6. /\ DOMAIN m' = TrailFields /\ Windowed' /\ m'.log = m.log /\ m'.errorsOnly = m.errorsOnly
      /\ m'.loading = m.loading /\ m'.regionCh = Tail(m.regionCh)
      /\ R.err => m'.regionErrs = m.regionErrs \union {r} /\ m'.all = m.all /\ m'.truncated = m.truncated
      /\ ~R.err => m'.regionErrs = m.regionErrs /\ m'.all = m.all \union R.events
                   /\ (m'.truncated <=> m.truncated \/ R.truncated) /\ m'.truncated \in BOOLEAN
  <2>1. m' = rebuild(t) OBVIOUS
  <2> HIDE DEF t
  <2> QED BY <2>1, <1>5, Rebuilt
<1> HIDE DEF s, t
<1>7. /\ IsABag(cmds') /\ UnderWay' \subseteq UnderWay \union {c}
      /\ (UnderWay \ {c}) \union {c} \subseteq UnderWay'
      /\ \A x : Copies(x)' = (Copies(x) + (IF x \in {c} THEN 1 ELSE 0)) - (IF x = c THEN 1 ELSE 0)
  BY ReturnFromBag DEF TrailInv, TrailType
<1>8. UnderWay' = UnderWay /\ \A x : Copies(x)' = Copies(x)
  <2>1. \A x : Copies(x) \in Nat
    BY DEF Copies, CopiesIn, TrailInv, TrailType, IsABag, UnderWay, BagToSet
  <2>2. UnderWay' = UnderWay BY <1>7
  <2>3. ASSUME NEW x PROVE Copies(x)' = Copies(x) BY <1>7, <2>1
  <2> QED BY <2>2, <2>3
<1>9. Sent(r) /\ ~Over(r) /\ Look(r) \notin UnderWay
  <2>1. 1 \in 1..Len(m.regionCh) BY <1>1
  <2>2. Sent(r) BY <2>1, <1>2, <1>4 DEF Sent
  <2> QED BY <2>2 DEF Over, TrailInv, LookedUpOnce
<1>10. \A q : Sent(q)' <=> Sent(q) /\ q # r
  <2>0. /\ Len(m'.regionCh) = Len(m.regionCh) - 1
        /\ \A i \in 1..(Len(m.regionCh) - 1) : m'.regionCh[i] = m.regionCh[i + 1]
    BY <1>1, <1>6
  <2>1. ASSUME NEW q, Sent(q)' PROVE Sent(q) /\ q # r
    <3>1. PICK i \in 1..Len(m'.regionCh) : m'.regionCh[i].region = q BY <2>1 DEF Sent
    <3>2. /\ i + 1 \in 1..Len(m.regionCh)
          /\ i + 1 # 1
          /\ 1 \in 1..Len(m.regionCh)
          /\ m.regionCh[i + 1].region = q
      BY <3>1, <2>0, <1>1
    <3>3. q # r BY <3>2, <1>2, <1>4 DEF TrailInv, LookedUpOnce
    <3> QED BY <3>2, <3>3 DEF Sent
  <2>2. ASSUME NEW q, Sent(q), q # r PROVE Sent(q)'
    <3>1. PICK i \in 1..Len(m.regionCh) : m.regionCh[i].region = q BY <2>2 DEF Sent
    <3>2. i # 1 BY <3>1, <2>2, <1>2, <1>4
    <3>3. i - 1 \in 1..Len(m'.regionCh) /\ i - 1 \in 1..(Len(m.regionCh) - 1) /\ (i - 1) + 1 = i
      BY <3>1, <3>2, <2>0, <1>1
    <3>4. m'.regionCh[i - 1].region = q BY <3>1, <3>3, <2>0
    <3> QED BY <3>3, <3>4 DEF Sent
  <2> QED BY <2>1, <2>2
<1>11. \A q \in Regions : Over(q)' <=> Over(q) \/ q = r
  BY <1>8, <1>9, <1>10 DEF Over, Look
<1>12. (\A q : LookupFiltered(q)' = LookupFiltered(q)) /\ Results' = Results
  BY <1>6, SameLog
<1>13. ~R.err => \A u \in R.events : u \in Times /\ m.log[u].region = r
  <2>1. LookupFiltered(r).events \subseteq {u \in Times : m.log[u].region = r}
    BY DEF LookupFiltered, Newest
  <2> QED BY <1>4, <2>1
<1>14. TrailType'
  BY <1>1, <1>6, <1>7, <1>8, <1>12, <1>13 DEF TrailInv, TrailType
<1>15. LookedUpOnce'
  <2>1. ASSUME NEW q \in Regions, Look(q) \in UnderWay' PROVE Copies(Look(q))' = 1 /\ ~Sent(q)'
    BY <2>1, <1>8, <1>10 DEF TrailInv, LookedUpOnce
  <2>2. ASSUME NEW i \in 1..Len(m'.regionCh), NEW j \in 1..Len(m'.regionCh),
               m'.regionCh[i].region = m'.regionCh[j].region PROVE i = j
    <3>a. /\ Len(m'.regionCh) = Len(m.regionCh) - 1
          /\ \A k \in 1..(Len(m.regionCh) - 1) : m'.regionCh[k] = m.regionCh[k + 1]
      BY <1>1, <1>6
    <3>0. i \in 1..(Len(m.regionCh) - 1) /\ j \in 1..(Len(m.regionCh) - 1) BY <3>a
    <3>1. i + 1 \in 1..Len(m.regionCh) /\ j + 1 \in 1..Len(m.regionCh) BY <3>0, <1>1
    <3>2. m.regionCh[i + 1].region = m.regionCh[j + 1].region BY <3>0, <3>a, <2>2
    <3>3. i + 1 = j + 1 BY <3>1, <3>2 DEF TrailInv, LookedUpOnce
    <3> QED BY <3>0, <3>3
  <2> QED BY <2>1, <2>2 DEF LookedUpOnce
<1>16. TakenIn'
  <2>0. /\ \A u \in m.all : m.log[u].region \in Regions /\ m.log[u].region # r
        /\ m.regionErrs \subseteq Regions /\ r \notin m.regionErrs
    BY <1>9 DEF TrailInv, TrailType, TakenIn, Logs
  <2>1. \A q \in m'.regionErrs : Over(q)'
    BY <1>6, <1>11, <2>0 DEF TrailInv, TakenIn
  <2>2. ASSUME NEW u \in m'.all
        PROVE  \E q \in Regions : /\ q = m.log[u].region /\ Over(q)' /\ q \notin m'.regionErrs
                                  /\ u \in LookupFiltered(q).events
    <3> PICK q : q = m.log[u].region OBVIOUS
    <3>1. CASE u \in m.all
      <4>1. /\ q \in Regions
            /\ q # r
            /\ Over(q)
            /\ q \notin m.regionErrs
            /\ u \in LookupFiltered(q).events
        BY <2>0, <3>1 DEF TrailInv, TakenIn
      <4>2. m'.regionErrs \subseteq m.regionErrs \union {r} BY <1>6
      <4>3. Over(q)' BY <4>1, <1>11
      <4> QED BY <4>1, <4>2, <4>3
    <3>2. CASE u \notin m.all
      <4>1. ~R.err /\ u \in R.events BY <1>6, <3>2
      <4>2. q = r /\ u \in LookupFiltered(q).events BY <4>1, <1>4, <1>13
      <4>3. q \notin m'.regionErrs BY <4>1, <4>2, <2>0, <1>6
      <4>4. Over(q)' BY <4>2, <1>11
      <4> QED BY <4>2, <4>3, <4>4
    <3> QED BY <3>1, <3>2
  <2>3. ASSUME NEW q \in Regions, Over(q)', q \notin m'.regionErrs
        PROVE  LookupFiltered(q).events \subseteq m'.all /\ (LookupFiltered(q).truncated => m'.truncated)
    <3>1. CASE q = r
      <4>1. ~R.err BY <3>1, <2>3, <1>6
      <4> QED BY <4>1, <3>1, <1>4, <1>6
    <3>2. CASE q # r
      <4>1. Over(q) /\ q \notin m.regionErrs BY <3>2, <2>3, <1>6, <1>11
      <4>2. LookupFiltered(q).events \subseteq m.all /\ (LookupFiltered(q).truncated => m.truncated)
        BY <4>1 DEF TrailInv, TakenIn
      <4> QED BY <4>2, <1>6
    <3> QED BY <3>1, <3>2
  <2>4. m'.log = m.log BY <1>6
  <2> QED BY <2>1, <2>2, <2>3, <2>4, <1>12 DEF TakenIn
<1>17. Ended' BY <1>6, <1>9, <1>11 DEF TrailInv, Ended
<1> QED BY <1>6, <1>14, <1>15, <1>16, <1>17 DEF TrailInv

\* Every step keeps the invariant.
LEMMA TrailStep == ASSUME TrailInv, TrailNext \/ UNCHANGED vars PROVE TrailInv'
<1>1. ASSUME NEW c \in UnderWay, c.kind = "wait", m.regionCh = <<>>, Running("lookup") = {},
             m' = rebuild([m EXCEPT !.loading = FALSE, !.loadErr = m.all = {} /\ m.regionErrs = Regions]),
             ReturnFrom(c, {})
      PROVE  TrailInv'
  <2> DEFINE t == [m EXCEPT !.loading = FALSE, !.loadErr = m.all = {} /\ m.regionErrs = Regions]
  <2>1. /\ DOMAIN t = TrailFields /\ t.log = m.log /\ t.errorsOnly = m.errorsOnly
        /\ t.loading = FALSE
        /\ t.truncated = m.truncated /\ t.regionErrs = m.regionErrs /\ t.all = m.all
        /\ t.regionCh = m.regionCh
    BY DEF TrailInv, TrailType, TrailFields
  <2>2. /\ DOMAIN m' = TrailFields /\ Windowed' /\ m'.log = m.log /\ m'.errorsOnly = m.errorsOnly
        /\ m'.loading = FALSE /\ m'.truncated = m.truncated /\ m'.regionErrs = m.regionErrs
        /\ m'.all = m.all /\ m'.regionCh = m.regionCh
    <3>1. m' = rebuild(t) BY <1>1
    <3> HIDE DEF t
    <3> QED BY <3>1, <2>1, Rebuilt
  <2> HIDE DEF t
  <2>3. /\ IsABag(cmds') /\ UnderWay' \subseteq UnderWay /\ UnderWay \ {c} \subseteq UnderWay'
        /\ \A x : Copies(x)' = (Copies(x) + 0) - (IF x = c THEN 1 ELSE 0)
    BY <1>1, ReturnFromBag DEF TrailInv, TrailType
  <2>4. ASSUME NEW r
        PROVE  Copies(Look(r))' = Copies(Look(r)) /\ (Look(r) \in UnderWay' <=> Look(r) \in UnderWay)
    <3>1. Look(r) # c BY <1>1 DEF Look, Cmd
    <3>2. Copies(Look(r)) \in Nat
      BY DEF Copies, CopiesIn, TrailInv, TrailType, IsABag, UnderWay, BagToSet
    <3> QED BY <2>3, <3>1, <3>2
  <2>5. \A r : (Sent(r)' <=> Sent(r)) /\ (Over(r)' <=> Over(r)) BY <2>2, <2>4 DEF Sent, Over
  <2>6. \A r : Over(r) BY <1>1 DEF Over, Sent, Running, Look, Cmd
  <2>7. (\A r : LookupFiltered(r)' = LookupFiltered(r)) /\ Results' = Results
    BY <2>2, SameLog
  <2>8. TrailType' BY <2>2, <2>3, <2>7 DEF TrailInv, TrailType
  <2>9. LookedUpOnce' BY <2>2, <2>4, <2>5 DEF TrailInv, LookedUpOnce
  <2>10. TakenIn' BY <2>2, <2>5, <2>7 DEF TrailInv, TakenIn
  <2>11. Ended' BY <2>5, <2>6 DEF Ended
  <2> QED BY <2>2, <2>8, <2>9, <2>10, <2>11 DEF TrailInv
<1>2. CASE UNCHANGED vars
  <2>1. m' = m /\ cmds' = cmds BY <1>2 DEF vars
  <2>2. UnderWay' = UnderWay /\ (\A x : Copies(x)' = Copies(x)) BY <2>1 DEF UnderWay, Copies, CopiesIn
  <2>3. \A r : (Sent(r)' <=> Sent(r)) /\ (Over(r)' <=> Over(r))
    BY <2>1, <2>2 DEF Sent, Over, Look
  <2>4. (\A r : LookupFiltered(r)' = LookupFiltered(r)) /\ Results' = Results
    BY <2>1, SameLog
  <2> QED
    BY <2>1, <2>2, <2>3, <2>4 DEF TrailInv, TrailType, LookedUpOnce, TakenIn, Windowed, Matching,
       Ended
<1>3. ASSUME NEW c \in UnderWay, waitRegion(c) PROVE TrailInv'
  BY <1>1, <1>3, RegionTakenIn DEF waitRegion
<1> QED BY <1>2, <1>3, TrailToggles, RegionSends DEF TrailNext

\* It holds when the feed opens.
LEMMA TrailStart == ASSUME TrailInit, Limit \in Nat PROVE TrailInv
<1>1. PICK log \in Logs, errorsOnly \in BOOLEAN :
        /\ m = [log |-> log, errorsOnly |-> errorsOnly, loading |-> TRUE, loadErr |-> FALSE,
                truncated |-> FALSE, capped |-> FALSE, regionErrs |-> {}, regionsDone |-> 0,
                all |-> {}, visible |-> {}, regionCh |-> <<>>]
        /\ cmds = Batch({Cmd("lookup", 0, r) : r \in Regions} \union {Cmd("wait", 0, None)})
  BY DEF TrailInit
<1> DEFINE B == {Cmd("lookup", 0, r) : r \in Regions} \union {Cmd("wait", 0, None)}
<1>2. IsABag(cmds) /\ UnderWay = B /\ \A x : Copies(x) = IF x \in B THEN 1 ELSE 0
  BY <1>1, BatchBag
<1>3. \A r : ~Sent(r) BY <1>1 DEF Sent
<1>4. \A r \in Regions : Look(r) \in UnderWay /\ Copies(Look(r)) = 1 BY <1>2 DEF Look
<1>5. \A c \in UnderWay : c.kind = "lookup" => c = Look(c.key) /\ c.key \in Regions
  BY <1>2 DEF Look, Cmd
<1>6. \A r \in Regions : ~Over(r) BY <1>4 DEF Over
<1>7. TrailType BY <1>1, <1>2, <1>5 DEF TrailType, TrailFields
<1>8. LookedUpOnce BY <1>1, <1>3, <1>4 DEF LookedUpOnce
<1>9. TakenIn BY <1>1, <1>6 DEF TakenIn
<1>10. Windowed BY <1>1 DEF Windowed, Matching, Newest
<1>11. Ended BY <1>1 DEF Ended
<1> QED BY <1>7, <1>8, <1>9, <1>10, <1>11 DEF TrailInv

-------------------------------------------------------------------------------
LakeFields == {"total", "cap", "status", "loading", "loadErr", "rows"}

\* What a reader that goes on may have read, and what a whole result has.
Within(n) == n \in Nat /\ n <= m.total /\ (m.cap > 0 => n < m.cap)
Whole(n) == n = IF m.cap > 0 /\ m.cap < m.total THEN m.cap ELSE m.total

\* The inductive invariant of a query.
LakeInv ==
    /\ IsABag(cmds) /\ DOMAIN m = LakeFields /\ m.total \in Nat /\ m.cap \in Nat
    /\ \A c \in UnderWay : c.kind = "query" => Within(c.key[1])
    /\ LakeFeedComplete

\* Every step keeps it.
LEMMA LakeStep == ASSUME LakeInv, LakeNext \/ UNCHANGED vars PROVE LakeInv'
<1>0. DOMAIN m = LakeFields BY DEF LakeInv
<1>1. CASE QueryRuns
  BY <1>1, <1>0 DEF QueryRuns, LakeInv, LakeFields, LakeFeedComplete, Within, UnderWay
<1>l. ASSUME NEW c \in UnderWay, NEW n, NEW err \in BOOLEAN, loadedMsg(c, n, err), err \/ Whole(n)
      PROVE  LakeInv'
  <2>1. m' = [m EXCEPT !.loading = FALSE, !.loadErr = err, !.rows = n] /\ ReturnFrom(c, {})
    BY <1>l DEF loadedMsg
  <2>2. IsABag(cmds') /\ UnderWay' \subseteq UnderWay BY <2>1, ReturnFromBag DEF LakeInv
  <2> QED BY <1>l, <2>1, <2>2, <1>0 DEF LakeInv, LakeFields, LakeFeedComplete, Within, Whole
<1>r. ASSUME NEW c \in UnderWay, NEW n, NEW p, ReturnFrom(c, {Reader(n, p)}), Within(n), m' = m
      PROVE  LakeInv'
  <2>2. IsABag(cmds') /\ UnderWay' \subseteq UnderWay \union {Reader(n, p)}
    BY <1>r, ReturnFromBag DEF LakeInv
  <2> QED BY <1>r, <2>2 DEF LakeInv, LakeFeedComplete, Within, Reader, Cmd
<1>2. ASSUME NEW c \in UnderWay, Poll(c) PROVE LakeInv'
  <2>1. Within(c.key[1]) BY <1>2 DEF LakeInv, Poll
  <2> QED BY <2>1, <1>2, <1>l, <1>r DEF Poll
<1>3. ASSUME NEW c \in UnderWay, ReadPage(c) PROVE LakeInv'
  <2> DEFINE n == IF c.key[1] < m.total THEN c.key[1] + 1 ELSE c.key[1]
  <2>1. Within(c.key[1]) BY <1>3 DEF LakeInv, ReadPage
  <2>2. CASE n = m.total \/ (m.cap > 0 /\ n >= m.cap)
    <3>1. loadedMsg(c, n, FALSE) BY <1>3, <2>2 DEF ReadPage
    <3>2. Whole(n) BY <2>1, <2>2 DEF Within, Whole, LakeInv
    <3> QED BY <3>1, <3>2, <1>l
  <2>3. CASE ~(n = m.total \/ (m.cap > 0 /\ n >= m.cap))
    <3>1. ReturnFrom(c, {Reader(n, c.key[2])}) /\ m' = m BY <1>3, <2>3 DEF ReadPage
    <3>2. Within(n) BY <2>1, <2>3 DEF Within, LakeInv
    <3> QED BY <3>1, <3>2, <1>r
  <2> QED BY <2>2, <2>3
<1>4. ASSUME NEW c \in UnderWay, Fails(c) PROVE LakeInv'
  BY <1>4, <1>l DEF Fails
<1>5. CASE UNCHANGED vars BY <1>5 DEF vars, LakeInv, LakeFeedComplete, Within, UnderWay
<1> QED BY <1>1, <1>2, <1>3, <1>4, <1>5 DEF LakeNext

\* It holds when the query is started.
LEMMA LakeStart == ASSUME LakeInit, Rows \in Nat, MaxRows \subseteq Nat PROVE LakeInv
<1>1. IsABag(cmds) /\ UnderWay = {Reader(0, TRUE)} BY BatchBag DEF LakeInit
<1> QED BY <1>1 DEF LakeInit, LakeInv, LakeFields, LakeFeedComplete, Within, Reader, Cmd

-------------------------------------------------------------------------------
(***************************************************************************)
(* Proof that an audit that was not cancelled has every region's findings, *)
(* for any number of regions, any pool and any buffer.  A region is in one *)
(* of four places, in this order: not launched, audited now, on its way to *)
(* the screen (blocked on the channel or in it), shown; the closer waits   *)
(* until the first two are empty.  The account-global sweeps are counted   *)
(* where region 1 leaves the second place.                                 *)
(***************************************************************************)

AuditFields == {"next", "sending", "ch", "closed", "ctx", "scanning", "scanned", "all", "errs", "global"}
AuditOf(r) == Cmd("region", 0, r)
InCh == {m.ch[i] : i \in 1..Len(m.ch)}
\* The regions whose audit is over, and their findings are not lost.
Audited == m.sending \union InCh \union m.all

AuditType ==
    /\ IsABag(cmds) /\ DOMAIN m = AuditFields
    /\ m.next \in Nat \ {0} /\ m.next - 1 \in Scanned \union {0}
    /\ m.sending \subseteq Scanned /\ m.all \subseteq Scanned /\ m.ch \in Seq(Scanned)
    /\ m.global \in Nat /\ m.closed \in BOOLEAN /\ m.ctx \in BOOLEAN /\ m.scanning \in BOOLEAN
    /\ \A c \in UnderWay : c.kind = "region" => c = AuditOf(c.key) /\ c.key \in Scanned
\* A region that runs runs once, was launched and has not been audited yet.
AuditedOnce ==
    \A r \in Scanned :
      /\ AuditOf(r) \in UnderWay => Copies(AuditOf(r)) = 1 /\ r < m.next /\ r \notin Audited
      /\ r \in Audited => r < m.next
\* Until the scan is cancelled no region is lost.
NoneLost == m.ctx => \A r \in Scanned : r < m.next => AuditOf(r) \in UnderWay \/ r \in Audited
ClosesLast ==
    /\ m.closed => m.next \notin Scanned /\ m.sending = {} /\ \A r \in Scanned : AuditOf(r) \notin UnderWay
    /\ ~m.scanning => m.closed /\ m.ch = <<>>
\* The account-global sweeps are those of region 1.
GlobalOnce == m.ctx => m.global = IF 1 \in Audited THEN 1 ELSE 0
AuditInv == AuditType /\ AuditedOnce /\ NoneLost /\ ClosesLast /\ GlobalOnce

\* When the channel has been drained after the close, what was audited is shown.
LEMMA AuditDone ==
    ASSUME AuditInv, NEW n \in Nat \ {0}, Scanned = 1..n
    PROVE  AuditFeedComplete
<1>1. SUFFICES ASSUME ~m.scanning, m.ctx PROVE m.all = Scanned /\ m.global = 1
  BY DEF AuditFeedComplete
<1>2. /\ m.closed
      /\ m.ch = <<>>
      /\ m.sending = {}
      /\ m.next \notin Scanned
      /\ \A r \in Scanned : AuditOf(r) \notin UnderWay
  BY <1>1 DEF AuditInv, ClosesLast
<1>3. Audited = m.all BY <1>2 DEF Audited, InCh
<1>4. m.next = n + 1 BY <1>2 DEF AuditInv, AuditType
<1>5. Scanned \subseteq m.all BY <1>1, <1>2, <1>3, <1>4 DEF AuditInv, NoneLost
<1>6. m.all = Scanned BY <1>5 DEF AuditInv, AuditType
<1>7. 1 \in Audited BY <1>3, <1>6
<1> QED BY <1>1, <1>6, <1>7 DEF AuditInv, GlobalOnce

\* The producer's steps keep it: a region is launched, hands its findings over,
\* the channel is closed, or the scan is cancelled.
LEMMA AuditRuns ==
    ASSUME AuditInv, NEW n \in Nat \ {0}, Scanned = 1..n, Launch \/ Send \/ Close \/ Cancel
    PROVE  AuditInv'
<1>0. DOMAIN m = AuditFields BY DEF AuditInv, AuditType
<1>w. Working = {r \in Scanned : AuditOf(r) \in UnderWay} \union m.sending
  <2>1. \A c \in Running("region") : c = AuditOf(c.key) /\ c.key \in Scanned /\ c \in UnderWay
    BY DEF AuditInv, AuditType, Running
  <2>2. \A r \in Scanned : AuditOf(r) \in UnderWay => AuditOf(r) \in Running("region") /\ AuditOf(r).key = r
    BY DEF Running, AuditOf, Cmd
  <2> QED BY <2>1, <2>2 DEF Working
<1>1. CASE Launch
  <2> PICK k : k = m.next OBVIOUS
  <2>1. m' = [m EXCEPT !.next = @ + 1] /\ m.next \in Scanned /\ cmds' = cmds (+) Batch({AuditOf(k)})
    BY <1>1 DEF Launch, AuditOf
  <2> DEFINE R == AuditOf(k)
  <2>2. /\ IsABag(cmds') /\ UnderWay' = UnderWay \union {R}
        /\ \A x : Copies(x)' = Copies(x) + (IF x \in {R} THEN 1 ELSE 0)
    BY <2>1, AddBag DEF AuditInv, AuditType
  <2>3. R \notin UnderWay /\ m.next \notin Audited
    BY <2>1 DEF AuditInv, AuditedOnce, AuditType
  <2>4. Copies(R)' = 1
    <3>1. Copies(R) = 0 BY <2>3 DEF Copies, CopiesIn, UnderWay, BagToSet
    <3> QED BY <2>2, <3>1
  <2>5. /\ m'.next = m.next + 1 /\ m'.sending = m.sending /\ m'.all = m.all /\ m'.ch = m.ch
        /\ m'.closed = m.closed /\ m'.ctx = m.ctx
        /\ m'.scanning = m.scanning /\ m'.global = m.global /\ DOMAIN m' = AuditFields
    BY <2>1, <1>0 DEF AuditFields
  <2>6. Audited' = Audited BY <2>5 DEF Audited, InCh
  <2>7. \A r \in Scanned : r # k => AuditOf(r) # R BY DEF AuditOf, Cmd
  <2>8. \A r \in Scanned : r # k => /\ Copies(AuditOf(r))' = Copies(AuditOf(r)) /\ (AuditOf(r) \in UnderWay' <=> AuditOf(r) \in UnderWay)
    <3>1. SUFFICES ASSUME NEW r \in Scanned, r # k
                   PROVE  Copies(AuditOf(r))' = Copies(AuditOf(r)) /\ (AuditOf(r) \in UnderWay' <=> AuditOf(r) \in UnderWay)
      OBVIOUS
    <3>2. AuditOf(r) \notin {R} BY <3>1, <2>7
    <3>3. Copies(AuditOf(r)) \in Nat
      BY DEF Copies, CopiesIn, AuditInv, AuditType, IsABag, UnderWay, BagToSet
    <3> QED BY <2>2, <3>2, <3>3
  <2>9. AuditType'
    <3>1. \A c \in UnderWay' : c.kind = "region" => c = AuditOf(c.key) /\ c.key \in Scanned
      BY <2>1, <2>2 DEF AuditInv, AuditType, AuditOf, Cmd
    <3> QED BY <3>1, <2>1, <2>2, <2>5 DEF AuditInv, AuditType
  <2>10. AuditedOnce'
    <3>1. SUFFICES ASSUME NEW r \in Scanned
                   PROVE  /\ AuditOf(r) \in UnderWay' => /\ Copies(AuditOf(r))' = 1 /\ r < m'.next
                                                         /\ r \notin Audited'
                          /\ r \in Audited' => r < m'.next
      BY DEF AuditedOnce
    <3>2. CASE r = k BY <3>2, <2>3, <2>4, <2>5, <2>6 DEF AuditInv, AuditType
    <3>3. CASE r # k
      <4>1. r < m.next => r < m'.next BY <2>5 DEF AuditInv, AuditType
      <4> QED BY <3>3, <4>1, <2>6, <2>8 DEF AuditInv, AuditedOnce
    <3> QED BY <3>2, <3>3
  <2>11. NoneLost'
    <3>1. SUFFICES ASSUME m'.ctx, NEW r \in Scanned, r < m'.next
                   PROVE  AuditOf(r) \in UnderWay' \/ r \in Audited'
      BY DEF NoneLost
    <3>2. CASE r = k BY <3>2, <2>2
    <3>3. CASE r # k
      <4>1. r < m.next BY <3>1, <3>3, <2>5 DEF AuditInv, AuditType
      <4> QED BY <4>1, <3>1, <2>2, <2>5, <2>6 DEF AuditInv, NoneLost
    <3> QED BY <3>2, <3>3
  <2>12. ClosesLast' /\ GlobalOnce' BY <2>1, <2>5, <2>6 DEF AuditInv, ClosesLast, GlobalOnce
  <2> QED BY <2>9, <2>10, <2>11, <2>12 DEF AuditInv
<1>2. CASE Send
  <2>0. /\ UnderWay' = UnderWay /\ IsABag(cmds') /\ \A r : Copies(AuditOf(r))' = Copies(AuditOf(r))
    BY <1>2 DEF Send, UnderWay, Copies, CopiesIn, AuditInv, AuditType
  <2>1. PICK r \in m.sending :
         \/ m' = [m EXCEPT !.sending = @ \ {r}, !.ch = Append(@, r)]
         \/ ~m.ctx /\ m' = [m EXCEPT !.sending = @ \ {r}] BY <1>2 DEF Send
  <2>2. r \in Scanned BY DEF AuditInv, AuditType
  <2>3. m.sending # {} /\ ~m.closed BY DEF AuditInv, ClosesLast, AuditType
  <2>4. /\ m'.next = m.next /\ m'.sending = m.sending \ {r} /\ m'.all = m.all
        /\ m'.closed = m.closed /\ m'.ctx = m.ctx
        /\ m'.scanning = m.scanning /\ m'.global = m.global /\ DOMAIN m' = AuditFields
    BY <2>1, <1>0 DEF AuditFields
  <2>5. CASE m' = [m EXCEPT !.sending = @ \ {r}, !.ch = Append(@, r)]
    <3>1. m'.ch = Append(m.ch, r) /\ m.ch \in Seq(Scanned)
      BY <2>5, <1>0 DEF AuditFields, AuditInv, AuditType
    <3>2. InCh' = InCh \union {r} /\ m'.ch \in Seq(Scanned) BY <3>1, <2>2 DEF InCh
    <3>3. Audited' = Audited BY <3>2, <2>4 DEF Audited
    <3> QED
      BY <2>0, <2>3, <2>4, <3>2, <3>3 DEF AuditInv, AuditType, AuditedOnce, NoneLost, ClosesLast,
         GlobalOnce
  <2>6. CASE ~m.ctx /\ m' = [m EXCEPT !.sending = @ \ {r}]
    <3>1. m'.ch = m.ch BY <2>6, <1>0 DEF AuditFields
    <3>3. Audited' \subseteq Audited BY <3>1, <2>4 DEF Audited, InCh
    <3> QED
      BY <2>0, <2>3, <2>4, <2>6, <3>1, <3>3 DEF AuditInv, AuditType, AuditedOnce, NoneLost,
         ClosesLast, GlobalOnce
  <2> QED BY <2>1, <2>5, <2>6
<1>3. CASE Close
  <2>1. /\ m' = [m EXCEPT !.closed = TRUE] /\ cmds' = cmds /\ m.next \notin Scanned
        /\ Working = {} BY <1>3 DEF Close
  <2>2. m.sending = {} /\ \A r \in Scanned : AuditOf(r) \notin UnderWay BY <2>1, <1>w
  <2>3. /\ UnderWay' = UnderWay
        /\ IsABag(cmds')
        /\ (\A r : Copies(AuditOf(r))' = Copies(AuditOf(r)))
        /\ Audited' = Audited
    BY <2>1, <1>0 DEF UnderWay, Copies, CopiesIn, AuditInv, AuditType, Audited, InCh, AuditFields
  <2> QED
    BY <2>1, <2>2, <2>3, <1>0 DEF AuditInv, AuditType, AuditedOnce, NoneLost, ClosesLast, GlobalOnce,
       AuditFields
<1>4. CASE Cancel
  <2>1. m' = [m EXCEPT !.ctx = FALSE] /\ cmds' = cmds BY <1>4 DEF Cancel
  <2>3. /\ UnderWay' = UnderWay
        /\ IsABag(cmds')
        /\ (\A r : Copies(AuditOf(r))' = Copies(AuditOf(r)))
        /\ Audited' = Audited
    BY <2>1, <1>0 DEF UnderWay, Copies, CopiesIn, AuditInv, AuditType, Audited, InCh, AuditFields
  <2> QED
    BY <2>1, <2>3, <1>0 DEF AuditInv, AuditType, AuditedOnce, NoneLost, ClosesLast, GlobalOnce,
       AuditFields
<1> QED BY <1>1, <1>2, <1>3, <1>4

\* So do the answers: a region's audit ends, and Update takes a chunk.
LEMMA AuditAnswers ==
    ASSUME AuditInv, NEW n \in Nat \ {0}, Scanned = 1..n, NEW c \in UnderWay, Audit(c) \/ waitForChunk(c)
    PROVE  AuditInv'
<1>0. DOMAIN m = AuditFields BY DEF AuditInv, AuditType
<1>1. CASE Audit(c)
  <2> DEFINE r == c.key
  <2>0. c = AuditOf(r) /\ r \in Scanned BY <1>1 DEF Audit, AuditInv, AuditType
  <2>1. /\ m'.next = m.next /\ m'.sending = m.sending \union {r} /\ m'.all = m.all /\ m'.ch = m.ch
        /\ m'.closed = m.closed /\ m'.ctx = m.ctx
        /\ m'.scanning = m.scanning /\ DOMAIN m' = AuditFields
        /\ m'.global = IF r = 1 THEN m.global + 1 ELSE m.global
        /\ ReturnFrom(c, {})
    BY <1>1, <1>0 DEF AuditFields, Audit
  <2>2. /\ IsABag(cmds') /\ UnderWay' \subseteq UnderWay /\ UnderWay \ {c} \subseteq UnderWay'
        /\ \A x : Copies(x)' = (Copies(x) + 0) - (IF x = c THEN 1 ELSE 0)
    BY <2>1, ReturnFromBag DEF AuditInv, AuditType
  <2>3. Copies(c) = 1 /\ r < m.next /\ r \notin Audited BY <2>0 DEF AuditInv, AuditedOnce
  <2>4. c \notin UnderWay'
    <3>1. Copies(c)' = 0 BY <2>2, <2>3
    <3>2. \A x \in UnderWay' : cmds'[x] > 0 BY <2>2 DEF IsABag, UnderWay, BagToSet
    <3> QED BY <3>1, <3>2 DEF Copies, CopiesIn, UnderWay, BagToSet
  <2>5. Audited' = Audited \union {r} BY <2>1 DEF Audited, InCh
  <2>6. ASSUME NEW s \in Scanned, s # r
        PROVE  Copies(AuditOf(s))' = Copies(AuditOf(s)) /\ (AuditOf(s) \in UnderWay' <=> AuditOf(s) \in UnderWay)
    <3>1. AuditOf(s) # c BY <2>0, <2>6 DEF AuditOf, Cmd
    <3>2. Copies(AuditOf(s)) \in Nat
      BY DEF Copies, CopiesIn, AuditInv, AuditType, IsABag, UnderWay, BagToSet
    <3> QED BY <2>2, <3>1, <3>2
  <2>7. AuditType' BY <2>0, <2>1, <2>2 DEF AuditInv, AuditType
  <2>8. AuditedOnce' /\ NoneLost'
    BY <2>0, <2>1, <2>3, <2>4, <2>5, <2>6 DEF AuditInv, AuditedOnce, NoneLost
  <2>9. ClosesLast' BY <2>0, <2>1, <2>2 DEF AuditInv, ClosesLast
  <2>10. GlobalOnce' BY <2>1, <2>3, <2>5 DEF AuditInv, GlobalOnce, AuditType
  <2> QED BY <2>7, <2>8, <2>9, <2>10 DEF AuditInv
<1>2. CASE waitForChunk(c)
  <2>0. \A r \in Scanned : c # AuditOf(r) BY <1>2 DEF waitForChunk, AuditOf, Cmd
  <2>1. CASE /\ m.ch # <<>>
             /\ m' = [m EXCEPT !.ch = Tail(@), !.scanned = @ + 1, !.all = @ \union {Head(m.ch)}]
          /\ ReturnFrom(c, {c})
    <3>1. /\ m'.next = m.next /\ m'.sending = m.sending /\ m'.all = m.all \union {Head(m.ch)}
          /\ m'.ch = Tail(m.ch) /\ m'.closed = m.closed /\ m'.ctx = m.ctx
        /\ m'.scanning = m.scanning /\ DOMAIN m' = AuditFields /\ m'.global = m.global
      BY <2>1, <1>0 DEF AuditFields
    <3>2. m.ch \in Seq(Scanned) /\ m.ch # <<>> BY <2>1 DEF AuditInv, AuditType
    <3>3. InCh = {Head(m.ch)} \union InCh' /\ m'.ch \in Seq(Scanned) /\ Head(m.ch) \in Scanned
       <4>1. InCh' = {m.ch[i] : i \in 2..Len(m.ch)}
         <5>1. InCh' = {m.ch[i + 1] : i \in 1..(Len(m.ch) - 1)} BY <3>1, <3>2 DEF InCh
         <5>2. \A i \in 2..Len(m.ch) : i - 1 \in 1..(Len(m.ch) - 1) /\ i = (i - 1) + 1
           BY <3>2
         <5>3. \A i \in 1..(Len(m.ch) - 1) : i + 1 \in 2..Len(m.ch) BY <3>2
         <5> QED BY <5>1, <5>2, <5>3
       <4>2. Head(m.ch) = m.ch[1] /\ Len(m.ch) \in Nat /\ Len(m.ch) >= 1 BY <3>2
       <4>3. 1..Len(m.ch) = {1} \union 2..Len(m.ch) BY <4>2
       <4>4. InCh = {m.ch[i] : i \in {1} \union 2..Len(m.ch)} BY <4>3 DEF InCh
       <4>5. InCh = {m.ch[1]} \union {m.ch[i] : i \in 2..Len(m.ch)} BY <4>4
       <4>6. Head(m.ch) \in Scanned /\ m'.ch \in Seq(Scanned)
         <5>1. \A q \in Seq(Scanned) : q # <<>> => Head(q) \in Scanned /\ Tail(q) \in Seq(Scanned)
           OBVIOUS
         <5> QED BY <5>1, <3>1, <3>2
       <4>7. InCh = {Head(m.ch)} \union InCh'
         <5> HIDE DEF InCh
         <5> QED BY <4>1, <4>2, <4>5
       <4> QED BY <4>6, <4>7
    <3>4. Audited' = Audited BY <3>1, <3>3 DEF Audited
    <3>0. /\ IsABag(cmds') /\ UnderWay' \subseteq UnderWay \union {c}
          /\ (UnderWay \ {c}) \union {c} \subseteq UnderWay'
          /\ \A x : Copies(x)' = (Copies(x) + (IF x \in {c} THEN 1 ELSE 0)) - (IF x = c THEN 1 ELSE 0)
      BY <2>1, ReturnFromBag DEF AuditInv, AuditType
    <3>5. UnderWay' = UnderWay BY <3>0
    <3>6. \A r \in Scanned : Copies(AuditOf(r))' = Copies(AuditOf(r))
      <4>1. \A x : Copies(x) \in Nat
        BY DEF Copies, CopiesIn, AuditInv, AuditType, IsABag, UnderWay, BagToSet
      <4> QED BY <3>0, <4>1
    <3>7. ~m.scanning => m.ch = <<>> BY DEF AuditInv, ClosesLast
    <3> QED
      BY <2>1, <3>0, <3>1, <3>3, <3>4, <3>5, <3>6, <3>7 DEF AuditInv, AuditType, AuditedOnce,
         NoneLost, ClosesLast, GlobalOnce
  <2>2. CASE m.ch = <<>> /\ m.closed /\ m' = [m EXCEPT !.scanning = FALSE] /\ ReturnFrom(c, {})
    <3>1. /\ m'.next = m.next /\ m'.sending = m.sending /\ m'.all = m.all /\ m'.ch = m.ch
          /\ m'.closed = m.closed /\ m'.ctx = m.ctx
        /\ m'.scanning = FALSE /\ DOMAIN m' = AuditFields /\ m'.global = m.global
      BY <2>2, <1>0 DEF AuditFields
    <3>2. /\ IsABag(cmds') /\ UnderWay' \subseteq UnderWay /\ UnderWay \ {c} \subseteq UnderWay'
          /\ \A x : Copies(x)' = (Copies(x) + 0) - (IF x = c THEN 1 ELSE 0)
      BY <2>2, ReturnFromBag DEF AuditInv, AuditType
    <3>3. \A r \in Scanned : Copies(AuditOf(r))' = Copies(AuditOf(r)) /\ (AuditOf(r) \in UnderWay' <=> AuditOf(r) \in UnderWay)
      <4>1. \A x : Copies(x) \in Nat
        BY DEF Copies, CopiesIn, AuditInv, AuditType, IsABag, UnderWay, BagToSet
      <4> QED BY <3>2, <4>1, <2>0
    <3>4. Audited' = Audited BY <3>1 DEF Audited, InCh
    <3> QED
      BY <2>2, <3>1, <3>2, <3>3, <3>4 DEF AuditInv, AuditType, AuditedOnce, NoneLost, ClosesLast,
         GlobalOnce
  <2> QED BY <1>2, <2>1, <2>2 DEF waitForChunk
<1> QED BY <1>1, <1>2

\* Every step of the audit keeps it.
LEMMA AuditStep ==
    ASSUME AuditInv, NEW n \in Nat \ {0}, Scanned = 1..n, AuditNext \/ UNCHANGED vars
    PROVE  AuditInv'
<1>1. CASE UNCHANGED vars
  BY <1>1 DEF vars, AuditInv, AuditType, AuditedOnce, NoneLost, ClosesLast, GlobalOnce, UnderWay,
     Copies, Audited, InCh, AuditOf
<1> QED BY <1>1, AuditRuns, AuditAnswers DEF AuditNext

\* It holds before the first region is launched.
LEMMA AuditStart == ASSUME AuditInit, NEW n \in Nat \ {0}, Scanned = 1..n PROVE AuditInv
<1>1. IsABag(cmds) /\ UnderWay = {Cmd("wait", 0, None)} BY BatchBag DEF AuditInit
<1>2. \A r : AuditOf(r) \notin UnderWay BY <1>1 DEF AuditOf, Cmd
<1>3. Audited = {} /\ DOMAIN m = AuditFields BY DEF Audited, InCh, AuditInit, AuditFields
<1> QED
  BY <1>1, <1>2, <1>3 DEF AuditInit, AuditInv, AuditType, AuditedOnce, NoneLost, ClosesLast,
     GlobalOnce, Cmd

-------------------------------------------------------------------------------
(***************************************************************************)
(* Proof that the live bill is fetched once at a time and never stops      *)
(* being fetched: between fetches the timer that starts the next one is    *)
(* under way in one copy, whose id no key and no late tick can take over.  *)
(***************************************************************************)

BillFields == {"fetching", "fetchErr", "bill", "timerID", "filtering", "overlay", "resService",
               "resRows", "resFetching", "deserted"}
Paid == Cmd("fetch", 0, None)
BillTimer(g) == Cmd("tick", g, None)

\* The inductive invariant.
BillInv ==
    /\ IsABag(cmds) /\ DOMAIN m = BillFields /\ m.fetching \in BOOLEAN
    /\ \A c \in UnderWay : /\ c.kind = "fetch" => c = Paid
                           /\ c.kind = "tick" => c = BillTimer(c.gen)
    /\ OneLoad /\ KeepsTicking

\* Keys keep it: one fetch at a time, and the filter and the breakdown pay none.
LEMMA BillPressed == ASSUME BillInv, BillKeys PROVE BillInv'
<1>0. DOMAIN m = BillFields /\ m.fetching \in BOOLEAN BY DEF BillInv
<1>a. ASSUME NEW new, Return(new), \A c \in new : c.kind \notin {"fetch", "tick"},
             DOMAIN m' = BillFields,
        m'.fetching = m.fetching, m'.timerID = m.timerID PROVE BillInv'
  <2>1. /\ IsABag(cmds')
        /\ UnderWay' = UnderWay \union new
        /\ \A x : Copies(x)' = Copies(x) + (IF x \in new THEN 1 ELSE 0)
    BY <1>a, ReturnBag DEF BillInv
  <2>2. Copies(Paid)' = Copies(Paid) + 0 /\ \A g : Copies(BillTimer(g))' = Copies(BillTimer(g)) + 0
    BY <2>1, <1>a DEF Paid, BillTimer, Cmd
  <2>3. Copies(Paid) \in Nat /\ Copies(BillTimer(m.timerID)) \in Nat
    BY DEF Copies, CopiesIn, BillInv, IsABag, UnderWay, BagToSet
  <2> QED
    BY <1>a, <1>0, <2>1, <2>2, <2>3 DEF BillInv, OneLoad, KeepsTicking, Paid, BillTimer
<1>b. ASSUME NEW s, Go(s), DOMAIN s = BillFields, s.fetching = m.fetching, s.timerID = m.timerID
      PROVE  BillInv'
  BY <1>b, <1>0 DEF BillInv, Go, OneLoad, KeepsTicking, Copies, CopiesIn, UnderWay, Paid, BillTimer
<1>1. CASE RefreshNow
  <2>1. Return({Paid}) /\ m' = [m EXCEPT !.fetching = TRUE] /\ ~m.fetching
    BY <1>1 DEF RefreshNow, Paid
  <2>2. /\ IsABag(cmds')
        /\ UnderWay' = UnderWay \union {Paid}
        /\ \A x : Copies(x)' = Copies(x) + (IF x \in {Paid} THEN 1 ELSE 0)
    BY <2>1, ReturnBag DEF BillInv
  <2>3. Copies(Paid)' = 1 BY <2>1, <2>2 DEF BillInv, OneLoad, Paid
  <2> QED
    BY <2>1, <2>2, <2>3, <1>0 DEF BillInv, OneLoad, KeepsTicking, Paid, BillFields, Cmd
<1>2. CASE OpenResources
  BY <1>2, <1>0, <1>a DEF OpenResources, BillFields, Cmd
<1>3. CASE OpenOther
  BY <1>3, <1>0, <1>b DEF OpenOther, BillFields
<1>4. CASE CloseFilter
  BY <1>4, <1>0, <1>b DEF CloseFilter, BillFields
<1>5. CASE CloseOverlay
  BY <1>5, <1>0, <1>b DEF CloseOverlay, BillFields
<1> QED BY <1>1, <1>2, <1>3, <1>4, <1>5 DEF BillKeys

\* So do the answers: the bill starts the next timer, the timer the next fetch.
LEMMA BillAnswered == ASSUME BillInv, NEW c \in UnderWay, BillAnswer(c) PROVE BillInv'
<1>0. DOMAIN m = BillFields /\ m.fetching \in BOOLEAN BY DEF BillInv
<1>f. /\ Copies(Paid) = IF m.fetching THEN 1 ELSE 0
      /\ ~m.fetching => Copies(BillTimer(m.timerID)) = 1
  BY DEF BillInv, OneLoad, KeepsTicking, Paid, BillTimer
<1>g. \A x : Copies(x) \in Nat /\ (x \in UnderWay => Copies(x) > 0)
  BY DEF Copies, CopiesIn, BillInv, IsABag, UnderWay, BagToSet
<1>1. CASE billMsg(c)
  <2>1. PICK g \in Gen : /\ Fresh(g, m.timerID)
                         /\ ReturnFrom(c, {BillTimer(g)})
                         /\ DOMAIN m' = BillFields
                         /\ m'.fetching = FALSE
                         /\ m'.timerID = g
    BY <1>1, <1>0 DEF billMsg, BillTimer, BillFields
  <2>2. IsABag(cmds') /\ UnderWay' \subseteq UnderWay \union {BillTimer(g)}
        /\ \A x : Copies(x)' = (Copies(x) + (IF x \in {BillTimer(g)} THEN 1 ELSE 0)) - (IF x = c THEN 1 ELSE 0)
    BY <2>1, ReturnFromBag DEF BillInv
  <2>3. c = Paid BY <1>1 DEF BillInv, billMsg
  <2>4. Paid # BillTimer(g) BY DEF Paid, BillTimer, Cmd
  <2>5. Copies(Paid)' = 0 BY <2>2, <2>3, <2>4, <1>f, <1>g
  <2>6. Copies(BillTimer(g)) = 0 BY <2>1 DEF Fresh, Copies, CopiesIn, UnderWay, BagToSet, BillTimer, Cmd
  <2>7. Copies(BillTimer(g))' = 1 BY <2>2, <2>3, <2>4, <2>6
  <2>8. \A d \in UnderWay' : (d.kind = "fetch" => d = Paid) /\ (d.kind = "tick" => d = BillTimer(d.gen))
    BY <2>2 DEF BillInv, BillTimer, Paid, Cmd
  <2>9. Copies(BillTimer(m.timerID))' = 1 BY <2>1, <2>7
  <2> QED
    BY <2>1, <2>2, <2>5, <2>8, <2>9 DEF BillInv, OneLoad, KeepsTicking, Paid, BillTimer
<1>2. CASE tickMsg(c)
  <2>1. c = BillTimer(c.gen) BY <1>2 DEF BillInv, tickMsg
  <2>2. CASE c.gen # m.timerID \/ m.fetching
    <3>1. m' = m /\ ReturnFrom(c, {}) BY <1>2, <2>2 DEF tickMsg
    <3>2. /\ IsABag(cmds')
          /\ UnderWay' \subseteq UnderWay
          /\ \A x : Copies(x)' = (Copies(x) + 0) - (IF x = c THEN 1 ELSE 0)
      BY <3>1, ReturnFromBag DEF BillInv
    <3>3. Paid # c /\ (~m.fetching => c # BillTimer(m.timerID))
      BY <2>1, <2>2 DEF Paid, BillTimer, Cmd
    <3>4. /\ Copies(Paid)' = Copies(Paid)
          /\ (~m.fetching => Copies(BillTimer(m.timerID))' = Copies(BillTimer(m.timerID)))
      BY <3>1, <3>2, <3>3, <1>g
    <3> QED
      BY <3>1, <3>2, <3>4, <1>0, <1>f DEF BillInv, OneLoad, KeepsTicking, Paid, BillTimer
  <2>3. CASE ~(c.gen # m.timerID \/ m.fetching)
    <3>1. m' = [m EXCEPT !.fetching = TRUE] /\ ReturnFrom(c, {Paid}) /\ ~m.fetching
      BY <1>2, <2>3 DEF tickMsg, Paid
    <3>2. IsABag(cmds') /\ UnderWay' \subseteq UnderWay \union {Paid}
         /\ \A x : Copies(x)' = (Copies(x) + (IF x \in {Paid} THEN 1 ELSE 0)) - (IF x = c THEN 1 ELSE 0)
      BY <3>1, ReturnFromBag DEF BillInv
    <3>3. Paid # c BY <2>1 DEF Paid, BillTimer, Cmd
    <3>4. Copies(Paid)' = 1 BY <3>1, <3>2, <3>3, <1>f
    <3> QED
      BY <3>1, <3>2, <3>4, <1>0 DEF BillInv, OneLoad, KeepsTicking, Paid, BillTimer, BillFields, Cmd
  <2> QED BY <2>2, <2>3
<1>3. CASE resourcesMsg(c)
  <2>1. /\ ReturnFrom(c, {})
        /\ c.kind = "resources"
        /\ DOMAIN m' = BillFields
        /\ m'.fetching = m.fetching
        /\ m'.timerID = m.timerID
    BY <1>3, <1>0 DEF resourcesMsg, BillFields
  <2>2. /\ IsABag(cmds')
        /\ UnderWay' \subseteq UnderWay
        /\ \A x : Copies(x)' = (Copies(x) + 0) - (IF x = c THEN 1 ELSE 0)
    BY <2>1, ReturnFromBag DEF BillInv
  <2>3. Paid # c /\ c # BillTimer(m.timerID) BY <2>1 DEF Paid, BillTimer, Cmd
  <2>4. Copies(Paid)' = Copies(Paid) /\ Copies(BillTimer(m.timerID))' = Copies(BillTimer(m.timerID))
     BY <2>1, <2>2, <2>3, <1>g
  <2> QED
    BY <2>1, <2>2, <2>4, <1>0, <1>f DEF BillInv, OneLoad, KeepsTicking, Paid, BillTimer
<1> QED BY <1>1, <1>2, <1>3 DEF BillAnswer

\* Every step of the live bill keeps it.
LEMMA BillStep == ASSUME BillInv, BillNext \/ UNCHANGED vars PROVE BillInv'
<1>1. CASE UNCHANGED vars
  BY <1>1 DEF vars, BillInv, OneLoad, KeepsTicking, UnderWay, Copies, CopiesIn, Paid, BillTimer
<1> QED BY <1>1, BillPressed, BillAnswered DEF BillNext

\* It holds when the bill is opened.
LEMMA BillStart == ASSUME BillInit PROVE BillInv
<1>1. IsABag(cmds) /\ UnderWay = {Paid} /\ Copies(Paid) = 1 BY BatchBag DEF BillInit, Paid
<1> QED BY <1>1 DEF BillInit, BillInv, OneLoad, KeepsTicking, BillFields, Paid, Cmd

===============================================================================
