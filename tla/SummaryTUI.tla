------------------------------ MODULE SummaryTUI ------------------------------
(***************************************************************************)
(* The Summary TUI's event loop around a scan: the pull loop of            *)
(* waitForChunk commands, scan generations, watch mode's timer chain, the  *)
(* profile/region switch and the overlays that come first in Update.       *)
(*                                                                         *)
(* A scan is what ScanStream promises, with one chunk per collector.  A    *)
(* collector reports one resource, which stands for its rows.              *)
(***************************************************************************)
EXTENDS Naturals, FiniteSets

CONSTANTS
    Collector,  \* resources the typed collectors report, one collector each
    Seed,       \* resources only the Tagging API sweep before the TUI found
    Overlay,    \* overlays the user opens: "passive", "settings", "filter", "switcher"
    MayFail,    \* whether a collector may end with an error
    MayWatch,   \* whether the user turns watch mode on
    Gen         \* scan generations (and timer ids) alive at the same time

ASSUME TUIAssumption ==
    /\ Collector \intersect Seed = {}
    /\ Overlay \subseteq {"passive", "settings", "filter", "switcher"}
    /\ MayFail \in BOOLEAN /\ MayWatch \in BOOLEAN
    /\ Gen \subseteq Nat /\ IsFiniteSet(Gen) /\ 1 \in Gen

VARIABLES
    scanGen, engine,           \* current generation; the engine it scans with
    unsent, buffered, closed,  \* the current scan: collectors running, channel
    waits,                     \* blocked waitForChunk commands: <<generation, engine>>
    inbox,                     \* messages the runtime has yet to hand to Update
    done,
    rows,                      \* <<engine, resource>> shown
    watchMode, watchTimerID,
    ticks,                     \* ticks[id]: pending watch ticks with that id
    watchSeen,                 \* rows seen by the running watch sweep, or NoSweep
    overlay, switching,
    alive,                     \* resources that exist in AWS
    aliveAtStart,              \* history: alive when the current scan started
    lost                       \* history: live messages an overlay swallowed

scanVars  == <<scanGen, engine, unsent, buffered, closed, waits>>
viewVars  == <<done, rows>>
watchVars == <<watchMode, watchTimerID, ticks, watchSeen>>
uiVars    == <<overlay, switching>>
awsVars   == <<alive, aliveAtStart>>
vars == <<scanVars, inbox, viewVars, watchVars, uiVars, awsVars, lost>>

Resource == Collector \union Seed

\* No sweep is running; sweeps see rows, which are pairs.
NoSweep == {<<>>}
Sweeping == watchSeen # NoSweep

ChunkMsg(g, c) == [kind |-> "chunk", gen |-> g, chunk |-> c]
DoneMsg(g)     == [kind |-> "done", gen |-> g]
SwitchMsg      == [kind |-> "switched"]

IsScanMsg(m) == m.kind \in {"chunk", "done"}

\* What a collector's chunk holds: its rows, or nothing when it failed.
Chunks == [eng : {0, 1}, row : Collector, ok : BOOLEAN]
RowsOf(cs) == {<<c.eng, c.row>> : c \in {d \in cs : d.ok}}

Init ==
    /\ scanGen = 1
    /\ engine = 0
    /\ unsent = Collector /\ buffered = {} /\ closed = FALSE
    /\ waits = {<<1, 0>>}
    /\ inbox = {}
    /\ done = FALSE
    /\ rows = {<<0, s>> : s \in Seed}
    /\ watchMode = FALSE /\ watchTimerID = 1
    /\ ticks = [id \in Gen |-> 0]
    /\ watchSeen = NoSweep
    /\ overlay = "none" /\ switching = FALSE
    /\ alive = Resource /\ aliveAtStart = Resource
    /\ lost = {}

-------------------------------------------------------------------------------
(* The scan of the current generation and AWS behind it. *)

Delete(r) ==
    /\ r \in alive
    /\ alive' = alive \ {r}
    /\ UNCHANGED <<scanVars, inbox, viewVars, watchVars, uiVars, aliveAtStart, lost>>

\* A collector ends: its chunk holds the resource if it still exists.
CollectorEnds(r) ==
    /\ r \in unsent
    /\ unsent' = unsent \ {r}
    /\ \E fails \in {FALSE, MayFail} :
         buffered' = buffered \union
            {[eng |-> engine, row |-> r, ok |-> r \in alive /\ ~fails]}
    /\ UNCHANGED <<scanGen, engine, closed, waits, inbox, viewVars, watchVars, uiVars,
                   awsVars, lost>>

ScanCloses ==
    /\ unsent = {} /\ ~closed
    /\ closed' = TRUE
    /\ UNCHANGED <<scanGen, engine, unsent, buffered, waits, inbox, viewVars, watchVars,
                   uiVars, awsVars, lost>>

\* waitForChunk on the current channel.
WaitEnds ==
    /\ <<scanGen, engine>> \in waits
    /\ \/ \E c \in buffered :
            /\ buffered' = buffered \ {c}
            /\ inbox' = inbox \union {ChunkMsg(scanGen, c)}
       \/ /\ closed /\ buffered = {}
          /\ inbox' = inbox \union {DoneMsg(scanGen)}
          /\ UNCHANGED buffered
    /\ waits' = waits \ {<<scanGen, engine>>}
    /\ UNCHANGED <<scanGen, engine, unsent, closed, viewVars, watchVars, uiVars, awsVars, lost>>

\* waitForChunk on the channel of a cancelled scan: a chunk that was on its
\* way, or the end of the stream.
StaleWaitEnds(w) ==
    /\ w[1] # scanGen
    /\ waits' = waits \ {w}
    /\ \/ inbox' = inbox \union {DoneMsg(w[1])}
       \/ \E r \in Collector :
            inbox' = inbox \union {ChunkMsg(w[1], [eng |-> w[2], row |-> r, ok |-> TRUE])}
    /\ UNCHANGED <<scanGen, engine, unsent, buffered, closed, viewVars, watchVars, uiVars,
                   awsVars, lost>>

-------------------------------------------------------------------------------
(* Handlers of Update. *)

\* Generations are compared for equality only, so a number nothing refers to
\* any more is as good as a new one.
Fresh(g) ==
    /\ g \in Gen \ {scanGen}
    /\ \A w \in waits : w[1] # g
    /\ \A m \in inbox : IsScanMsg(m) => m.gen # g

\* Cancel the running scan and start another with its own channel.
StartScan(g, eng) ==
    /\ Fresh(g)
    /\ scanGen' = g
    /\ engine' = eng
    /\ unsent' = Collector /\ buffered' = {} /\ closed' = FALSE
    /\ waits' = waits \union {<<g, eng>>}
    /\ done' = FALSE
    /\ aliveAtStart' = alive
    /\ lost' = lost \ {"scan"}

\* Mutant: the sweep ends and drops nothing.
EndScan_DropsNothing(newRows, newSeen, ended) ==
    /\ rows' = newRows
    /\ watchSeen' = IF ended THEN NoSweep ELSE newSeen

\* The rows and the sweep after the scan has ended (or not): finishWatchSweep
\* drops the rows the sweep has not seen.
EndScan(newRows, newSeen, ended) ==
    IF ended /\ newSeen # NoSweep
    THEN rows' = newRows \intersect newSeen /\ watchSeen' = NoSweep
    ELSE rows' = newRows /\ watchSeen' = newSeen

\* Mutant: a chunk of a cancelled scan is applied.
HandleChunk_AnyGen(m) ==
    /\ m.kind = "chunk"
    /\ EndScan(rows \union RowsOf({m.chunk} \union buffered), watchSeen, closed)
    /\ buffered' = {}
    /\ done' = closed
    /\ waits' = IF closed THEN waits ELSE waits \union {<<scanGen, engine>>}
    /\ UNCHANGED <<scanGen, engine, unsent, closed, watchMode, watchTimerID, ticks, uiVars,
                   awsVars, lost>>

\* Mutant: the last collector's end is taken for the end of the stream.
HandleChunk_NoPull(m) ==
    /\ m.kind = "chunk" /\ m.gen = scanGen
    /\ EndScan(rows \union RowsOf({m.chunk} \union buffered), watchSeen, closed)
    /\ buffered' = {}
    /\ done' = closed
    /\ waits' = IF closed \/ unsent = {} THEN waits ELSE waits \union {<<scanGen, engine>>}
    /\ UNCHANGED <<scanGen, engine, unsent, closed, watchMode, watchTimerID, ticks, uiVars,
                   awsVars, lost>>

\* chunkMsg: apply the chunk and whatever is buffered, then pull again unless
\* the drain found the channel closed.
HandleChunk(m) ==
    /\ m.kind = "chunk" /\ m.gen = scanGen
    /\ LET new == RowsOf({m.chunk} \union buffered)
           seen == IF Sweeping THEN watchSeen \union new ELSE watchSeen
       IN  EndScan(rows \union new, seen, closed)
    /\ buffered' = {}
    /\ done' = closed
    /\ waits' = IF closed THEN waits ELSE waits \union {<<scanGen, engine>>}
    /\ UNCHANGED <<scanGen, engine, unsent, closed, watchMode, watchTimerID, ticks, uiVars,
                   awsVars, lost>>

\* Mutant: the end of a cancelled scan ends the current one.
HandleDone_AnyGen(m) ==
    /\ m.kind = "done"
    /\ EndScan(rows, watchSeen, TRUE)
    /\ done' = TRUE
    /\ UNCHANGED <<scanVars, watchMode, watchTimerID, ticks, uiVars, awsVars, lost>>

HandleDone(m) ==
    /\ m.kind = "done" /\ m.gen = scanGen
    /\ EndScan(rows, watchSeen, TRUE)
    /\ done' = TRUE
    /\ UNCHANGED <<scanVars, watchMode, watchTimerID, ticks, uiVars, awsVars, lost>>

\* A message of a cancelled scan is dropped.
HandleStale(m) ==
    /\ IsScanMsg(m) /\ m.gen # scanGen
    /\ UNCHANGED <<scanVars, viewVars, watchVars, uiVars, awsVars, lost>>

\* engineSwitchedMsg with an error: the old engine and its scan go on.
HandleSwitchFailed(m) ==
    /\ m.kind = "switched"
    /\ switching' = FALSE
    /\ UNCHANGED <<scanVars, viewVars, watchVars, overlay, awsVars, lost>>

\* engineSwitchedMsg with a new engine: restartScan.  The watch sweep's
\* bookkeeping stays.
HandleSwitched(m) ==
    /\ m.kind = "switched"
    /\ switching' = FALSE
    /\ \E g \in Gen : StartScan(g, 1 - engine)
    /\ rows' = {}
    /\ UNCHANGED <<watchVars, overlay, alive>>

\* The overlays that hand every message to their own Update.
Captures == overlay \in {"settings", "filter", "switcher"}

\* ... which knows none of the scan's messages.
Swallow(m) ==
    /\ lost' = lost \union (IF IsScanMsg(m)
                            THEN IF m.gen = scanGen THEN {"scan"} ELSE {}
                            ELSE {"switch"})
    /\ UNCHANGED <<scanVars, viewVars, watchVars, uiVars, awsVars>>

Update(m) ==
    /\ m \in inbox
    /\ inbox' = inbox \ {m}
    /\ IF Captures THEN Swallow(m)
       ELSE \/ HandleChunk(m)
            \/ HandleDone(m)
            \/ HandleStale(m)
            \/ HandleSwitchFailed(m)
            \/ HandleSwitched(m)

-------------------------------------------------------------------------------
(* Watch mode. *)

\* Mutant: a new chain with the id of the last one.
ToggleWatch_SameId ==
    /\ MayWatch
    /\ overlay = "none"
    /\ watchMode' = ~watchMode
    /\ ticks' = IF watchMode THEN ticks ELSE [ticks EXCEPT ![watchTimerID] = @ + 1]
    /\ ticks[watchTimerID] < 2
    /\ lost' = lost \ {"tick"}
    /\ UNCHANGED <<scanVars, inbox, viewVars, watchTimerID, watchSeen, uiVars, awsVars>>

\* "W": a new timer id on the way in; the pending tick dies on the way out.
ToggleWatch ==
    /\ MayWatch
    /\ overlay = "none"
    /\ watchMode' = ~watchMode
    /\ IF watchMode THEN UNCHANGED <<watchTimerID, ticks, lost>>
       ELSE \E id \in Gen :
              /\ ticks[id] = 0
              /\ watchTimerID' = id
              /\ ticks' = [ticks EXCEPT ![id] = 1]
              /\ lost' = lost \ {"tick"}
    /\ UNCHANGED <<scanVars, inbox, viewVars, watchSeen, uiVars, awsVars>>

\* watchTickMsg, five seconds after the last one of its chain.
Tick(id) ==
    /\ ticks[id] > 0
    /\ IF Captures THEN
          /\ lost' = lost \union (IF watchMode /\ id = watchTimerID THEN {"tick"} ELSE {})
          /\ ticks' = [ticks EXCEPT ![id] = @ - 1]
          /\ UNCHANGED <<scanVars, viewVars, watchSeen, awsVars>>
       ELSE IF watchMode /\ id = watchTimerID THEN
          /\ \E g \in Gen : StartScan(g, engine)
          /\ watchSeen' = {}
          /\ UNCHANGED <<rows, ticks, alive>>
       ELSE
          /\ ticks' = [ticks EXCEPT ![id] = @ - 1]
          /\ UNCHANGED <<scanVars, viewVars, watchSeen, awsVars, lost>>
    /\ UNCHANGED <<inbox, watchMode, watchTimerID, uiVars>>

-------------------------------------------------------------------------------
(* Overlays. *)

Open(o) ==
    /\ overlay = "none"
    /\ o = "switcher" => ~switching
    /\ overlay' = o
    /\ UNCHANGED <<scanVars, inbox, viewVars, watchVars, switching, awsVars, lost>>

Close ==
    /\ overlay # "none"
    /\ overlay' = "none"
    /\ UNCHANGED <<scanVars, inbox, viewVars, watchVars, switching, awsVars, lost>>

\* applySwitcher: NewEngine runs off the loop and answers in its own time.
Submit ==
    /\ overlay = "switcher"
    /\ overlay' = "none"
    /\ switching' = TRUE
    /\ inbox' = inbox \union {SwitchMsg}
    /\ UNCHANGED <<scanVars, viewVars, watchVars, awsVars, lost>>

-------------------------------------------------------------------------------
Next ==
    \/ \E r \in Resource : Delete(r)
    \/ \E r \in Collector : CollectorEnds(r)
    \/ ScanCloses
    \/ WaitEnds
    \/ \E w \in waits : StaleWaitEnds(w)
    \/ \E m \in inbox : Update(m)
    \/ ToggleWatch
    \/ \E id \in Gen : Tick(id)
    \/ \E o \in Overlay : Open(o)
    \/ Close
    \/ Submit

Spec == Init /\ [][Next]_vars

\* The scan's goroutines, the commands' goroutines, the event loop and the
\* timers make progress; the user need not do anything.
Fairness ==
    /\ \A r \in Collector : WF_vars(CollectorEnds(r))
    /\ WF_vars(ScanCloses)
    /\ WF_vars(WaitEnds)
    /\ WF_vars(\E w \in waits : StaleWaitEnds(w))
    /\ WF_vars(\E m \in inbox : Update(m))
    /\ \A id \in Gen : WF_vars(Tick(id))

FairSpec == Spec /\ Fairness

-------------------------------------------------------------------------------
(* Properties. *)

TypeOK ==
    /\ scanGen \in Gen /\ engine \in {0, 1}
    /\ unsent \subseteq Collector /\ buffered \subseteq Chunks /\ closed \in BOOLEAN
    /\ waits \subseteq Gen \X {0, 1}
    /\ \A m \in inbox :
         \/ m = SwitchMsg
         \/ \E g \in Gen : m = DoneMsg(g) \/ \E c \in Chunks : m = ChunkMsg(g, c)
    /\ done \in BOOLEAN
    /\ rows \subseteq {0, 1} \X Resource
    /\ watchMode \in BOOLEAN /\ watchTimerID \in Gen /\ ticks \in [Gen -> 0..1]
    /\ watchSeen = NoSweep \/ watchSeen \subseteq {0, 1} \X Resource
    /\ overlay \in Overlay \union {"none"} /\ switching \in BOOLEAN
    /\ alive \subseteq aliveAtStart /\ aliveAtStart \subseteq Resource
    /\ lost \subseteq {"scan", "tick", "switch"}

\* What will make Update handle the current scan next.
Pulls == {w \in waits : w[1] = scanGen} \union {m \in inbox : IsScanMsg(m) /\ m.gen = scanGen}

\* The pull loop never forks: while a scan runs, exactly one waitForChunk or one
\* message of its generation is under way, through restarts, watch refreshes and
\* stragglers; none is once it is done.
OnePull == Cardinality(Pulls) = IF done \/ "scan" \in lost THEN 0 ELSE 1

\* One timer chain at most keeps watch mode going, however often W is pressed.
OneTimer == watchMode => ticks[watchTimerID] = IF "tick" \in lost THEN 0 ELSE 1

\* After a switch no row of the old engine shows up, whatever chunks of its
\* cancelled scan were still under way.
OnlyCurrentEngine == \A row \in rows : row[1] = engine

\* A finished watch sweep leaves no row of a resource that was gone before it
\* started.
DeletedDropOut ==
    [][(Sweeping /\ watchSeen' = NoSweep) =>
         \A row \in rows' : row[2] \in aliveAtStart]_vars

\* A row leaves the table only because its resource is gone, or because the
\* user switched to another profile or region.
OnlyDeletedDropOut ==
    [][engine' = engine => \A row \in rows \ rows' : row[2] \notin alive]_vars

\* The scan on the screen ends, whatever passive overlays the user opens, unless
\* watch mode or a switch starts another or another overlay swallows a chunk.
ScanCompletes == ~done ~> (done \/ watchMode \/ switching \/ "scan" \in lost)

\* "swallowing a chunkMsg here would stall collection and freeze the inventory"
KeepsPulling == ~done => Pulls # {}

\* In watch mode a deleted resource's row goes away, unless the user leaves it.
DeletedRowsGo ==
    \A r \in Collector : (watchMode /\ r \notin alive) ~> (~watchMode \/ <<engine, r>> \notin rows)
===============================================================================
