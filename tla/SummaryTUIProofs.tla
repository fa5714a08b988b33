---------------------------- MODULE SummaryTUIProofs ----------------------------
(***************************************************************************)
(* Theorems about SummaryTUI, for every set of collectors, of resources    *)
(* seen before, of overlays and of generations.                            *)
(***************************************************************************)
EXTENDS SummaryTUI, FiniteSetTheorems, TLAPS

USE TUIAssumption

Rows == {0, 1} \X Resource

-------------------------------------------------------------------------------
(* Type correctness. *)

\* The conjunct of TypeOK about messages.
InboxOK ==
    \A m \in inbox :
      \/ m = SwitchMsg
      \/ \E g \in Gen : m = DoneMsg(g) \/ \E c \in Chunks : m = ChunkMsg(g, c)

LEMMA Messages ==
    ASSUME TypeOK, NEW m \in inbox
    PROVE  /\ m.kind \in {"switched", "done", "chunk"}
           /\ m.kind = "switched" <=> m = SwitchMsg
           /\ m.kind = "done" => m.gen \in Gen /\ m = DoneMsg(m.gen)
           /\ m.kind = "chunk" => /\ m.gen \in Gen /\ m.chunk \in Chunks
                                  /\ m = ChunkMsg(m.gen, m.chunk)
  BY DEF TypeOK, SwitchMsg, DoneMsg, ChunkMsg

LEMMA ChunkMsgFields ==
    ASSUME NEW g, NEW c
    PROVE  /\ ChunkMsg(g, c).kind = "chunk" /\ ChunkMsg(g, c).gen = g
           /\ ChunkMsg(g, c).chunk = c /\ IsScanMsg(ChunkMsg(g, c))
  BY DEF ChunkMsg, IsScanMsg

LEMMA DoneMsgFields ==
    ASSUME NEW g
    PROVE  /\ DoneMsg(g).kind = "done" /\ DoneMsg(g).gen = g /\ IsScanMsg(DoneMsg(g))
  BY DEF DoneMsg, IsScanMsg

LEMMA SwitchMsgFields == SwitchMsg.kind = "switched" /\ ~IsScanMsg(SwitchMsg)
  BY DEF SwitchMsg, IsScanMsg

LEMMA RowsOfType ==
    ASSUME NEW cs \in SUBSET Chunks
    PROVE  RowsOf(cs) \subseteq Rows
<1>1. \A c \in Chunks : c.eng \in {0, 1} /\ c.row \in Resource
  BY DEF Chunks, Resource
<1> QED
  BY <1>1 DEF RowsOf, Rows

\* A sweep that has seen something is not taken for none.
LEMMA SweepIsNotNoSweep ==
    ASSUME NEW S \in SUBSET Rows
    PROVE  S # NoSweep
  BY DEF NoSweep, Rows

LEMMA TypeInit == Init => TypeOK
<1> SUFFICES ASSUME Init PROVE TypeOK
  OBVIOUS
<1>1. waits \subseteq Gen \X {0, 1} /\ rows \subseteq {0, 1} \X Resource
  BY DEF Init, Resource
<1>2. ticks \in [Gen -> 0..1]
  BY DEF Init
<1> QED
  BY <1>1, <1>2 DEF Init, TypeOK

LEMMA StartScanType ==
    ASSUME TypeOK, NEW g \in Gen, NEW eng \in {0, 1}, StartScan(g, eng)
    PROVE  /\ scanGen' \in Gen /\ engine' \in {0, 1}
           /\ unsent' \subseteq Collector /\ buffered' \subseteq Chunks
           /\ closed' \in BOOLEAN /\ waits' \subseteq Gen \X {0, 1}
           /\ done' \in BOOLEAN
           /\ aliveAtStart' = alive
           /\ lost' \subseteq {"scan", "tick", "switch"}
<1>1. <<g, eng>> \in Gen \X {0, 1}
  OBVIOUS
<1> QED
  BY <1>1 DEF StartScan, TypeOK

LEMMA EndScanType ==
    ASSUME NEW newRows \in SUBSET Rows, NEW newSeen, NEW ended,
           newSeen = NoSweep \/ newSeen \subseteq Rows,
           EndScan(newRows, newSeen, ended)
    PROVE  /\ rows' \subseteq Rows
           /\ watchSeen' = NoSweep \/ watchSeen' \subseteq Rows
  BY DEF EndScan

LEMMA TypeUpdate ==
    ASSUME TypeOK, NEW m \in inbox, Update(m)
    PROVE  TypeOK'
<1>0. inbox' = inbox \ {m} /\ InboxOK'
  BY DEF Update, TypeOK, InboxOK
<1>1. CASE Captures /\ Swallow(m)
  BY <1>0, <1>1 DEF Swallow, TypeOK, InboxOK, scanVars, viewVars, watchVars, uiVars, awsVars
<1>2. CASE HandleChunk(m)
  <2> DEFINE new == RowsOf({m.chunk} \union buffered)
             seen == IF Sweeping THEN watchSeen \union new ELSE watchSeen
  <2>1. new \subseteq Rows
    <3>1. {m.chunk} \union buffered \subseteq Chunks
      BY <1>2, Messages DEF HandleChunk, TypeOK
    <3> QED
      BY <3>1, RowsOfType
  <2>2. EndScan(rows \union new, seen, closed)
    BY <1>2 DEF HandleChunk
  <2>3. rows \union new \subseteq Rows /\ (seen = NoSweep \/ seen \subseteq Rows)
    BY <2>1 DEF TypeOK, Rows, Sweeping
  <2> HIDE DEF new, seen
  <2>4. rows' \subseteq Rows /\ (watchSeen' = NoSweep \/ watchSeen' \subseteq Rows)
    BY <2>2, <2>3, EndScanType
  <2>5. waits' \subseteq Gen \X {0, 1}
    BY <1>2 DEF HandleChunk, TypeOK
  <2> QED
    BY <1>0, <1>2, <2>4, <2>5
    DEF HandleChunk, TypeOK, InboxOK, Rows, uiVars, awsVars
<1>3. CASE HandleDone(m)
  <2>1. EndScan(rows, watchSeen, TRUE)
    BY <1>3 DEF HandleDone
  <2>2. rows' \subseteq Rows /\ (watchSeen' = NoSweep \/ watchSeen' \subseteq Rows)
    BY <2>1, EndScanType DEF TypeOK, Rows
  <2> QED
    BY <1>0, <1>3, <2>2 DEF HandleDone, TypeOK, InboxOK, Rows, scanVars, uiVars, awsVars
<1>4. CASE HandleStale(m) \/ HandleSwitchFailed(m)
  BY <1>0, <1>4 DEF HandleStale, HandleSwitchFailed, TypeOK, InboxOK,
                    scanVars, viewVars, watchVars, uiVars, awsVars
<1>5. CASE HandleSwitched(m)
  <2>1. PICK g \in Gen : StartScan(g, 1 - engine)
    BY <1>5 DEF HandleSwitched
  <2>2. 1 - engine \in {0, 1}
    BY DEF TypeOK
  <2>3. /\ scanGen' \in Gen /\ engine' \in {0, 1}
        /\ unsent' \subseteq Collector /\ buffered' \subseteq Chunks
        /\ closed' \in BOOLEAN /\ waits' \subseteq Gen \X {0, 1}
        /\ done' \in BOOLEAN
        /\ aliveAtStart' = alive
        /\ lost' \subseteq {"scan", "tick", "switch"}
    BY <2>1, <2>2, StartScanType
  <2> QED
    BY <1>0, <1>5, <2>3 DEF HandleSwitched, TypeOK, InboxOK, watchVars
<1> QED
  BY <1>1, <1>2, <1>3, <1>4, <1>5 DEF Update

LEMMA TypeTick ==
    ASSUME TypeOK, NEW id \in Gen, Tick(id)
    PROVE  TypeOK'
<1>1. ticks[id] \in 0..1 /\ ticks[id] > 0
  BY DEF Tick, TypeOK
<1>2. CASE UNCHANGED scanVars
  <2>1. ticks' = [ticks EXCEPT ![id] = @ - 1]
    BY <1>2 DEF Tick, StartScan, Fresh, scanVars
  <2>2. ticks' \in [Gen -> 0..1]
    BY <1>1, <2>1 DEF TypeOK
  <2>3. lost' \subseteq {"scan", "tick", "switch"}
    BY DEF Tick, TypeOK, StartScan
  <2>4. UNCHANGED <<viewVars, watchSeen, awsVars>>
    BY <1>2 DEF Tick, StartScan, Fresh, scanVars
  <2> QED
    BY <1>2, <2>2, <2>3, <2>4
    DEF Tick, TypeOK, scanVars, viewVars, uiVars, awsVars
<1>3. CASE ~UNCHANGED scanVars
  <2>1. /\ \E g \in Gen : StartScan(g, engine)
        /\ watchSeen' = {}
        /\ UNCHANGED <<rows, ticks, alive>>
        /\ UNCHANGED <<inbox, watchMode, watchTimerID, uiVars>>
    BY <1>3 DEF Tick
  <2>2. PICK g \in Gen : StartScan(g, engine)
    BY <2>1
  <2>3. /\ scanGen' \in Gen /\ engine' \in {0, 1}
        /\ unsent' \subseteq Collector /\ buffered' \subseteq Chunks
        /\ closed' \in BOOLEAN /\ waits' \subseteq Gen \X {0, 1}
        /\ done' \in BOOLEAN
        /\ aliveAtStart' = alive
        /\ lost' \subseteq {"scan", "tick", "switch"}
    BY <2>2, StartScanType DEF TypeOK
  <2> QED
    BY <2>1, <2>3 DEF TypeOK, uiVars
<1> QED
  BY <1>2, <1>3

LEMMA TypeNext == TypeOK /\ [Next]_vars => TypeOK'
<1> SUFFICES ASSUME TypeOK, [Next]_vars PROVE TypeOK'
  OBVIOUS
<1>1. ASSUME NEW r \in Resource, Delete(r) PROVE TypeOK'
  BY <1>1 DEF Delete, TypeOK, scanVars, viewVars, watchVars, uiVars
<1>2. ASSUME NEW r \in Collector, CollectorEnds(r) PROVE TypeOK'
  <2>1. PICK fails \in {FALSE, MayFail} :
          buffered' = buffered \union
            {[eng |-> engine, row |-> r, ok |-> r \in alive /\ ~fails]}
    BY <1>2 DEF CollectorEnds
  <2>2. (r \in alive /\ ~fails) \in BOOLEAN
    OBVIOUS
  <2>3. [eng |-> engine, row |-> r, ok |-> r \in alive /\ ~fails] \in Chunks
    BY <2>2 DEF Chunks, TypeOK
  <2> QED
    BY <1>2, <2>1, <2>3 DEF CollectorEnds, TypeOK, viewVars, watchVars, uiVars, awsVars
<1>3. CASE ScanCloses
  BY <1>3 DEF ScanCloses, TypeOK, viewVars, watchVars, uiVars, awsVars
<1>4. CASE WaitEnds
  <2>1. InboxOK'
    BY <1>4 DEF WaitEnds, TypeOK, InboxOK
  <2> QED
    BY <1>4, <2>1 DEF WaitEnds, TypeOK, InboxOK, viewVars, watchVars, uiVars, awsVars
<1>5. ASSUME NEW w \in waits, StaleWaitEnds(w) PROVE TypeOK'
  <2>1. w[1] \in Gen /\ w[2] \in {0, 1}
    BY DEF TypeOK
  <2>2. \A r \in Collector : [eng |-> w[2], row |-> r, ok |-> TRUE] \in Chunks
    BY <2>1 DEF Chunks
  <2>3. InboxOK'
    BY <1>5, <2>1, <2>2 DEF StaleWaitEnds, TypeOK, InboxOK
  <2> QED
    BY <1>5, <2>3 DEF StaleWaitEnds, TypeOK, InboxOK, viewVars, watchVars, uiVars, awsVars
<1>6. ASSUME NEW m \in inbox, Update(m) PROVE TypeOK'
  BY <1>6, TypeUpdate
<1>7. CASE ToggleWatch
  <2>1. ticks' \in [Gen -> 0..1] /\ watchTimerID' \in Gen
    BY <1>7 DEF ToggleWatch, TypeOK
  <2>2. lost' \subseteq {"scan", "tick", "switch"}
    BY <1>7 DEF ToggleWatch, TypeOK
  <2> QED
    BY <1>7, <2>1, <2>2 DEF ToggleWatch, TypeOK, scanVars, viewVars, uiVars, awsVars
<1>8. ASSUME NEW id \in Gen, Tick(id) PROVE TypeOK'
  BY <1>8, TypeTick
<1>9. ASSUME NEW o \in Overlay, Open(o) PROVE TypeOK'
  BY <1>9 DEF Open, TypeOK, scanVars, viewVars, watchVars, awsVars
<1>10. CASE Close
  BY <1>10 DEF Close, TypeOK, scanVars, viewVars, watchVars, awsVars
<1>11. CASE Submit
  BY <1>11 DEF Submit, TypeOK, scanVars, viewVars, watchVars, awsVars
<1>12. CASE UNCHANGED vars
  BY <1>12 DEF vars, TypeOK, scanVars, viewVars, watchVars, uiVars, awsVars
<1> QED
  BY <1>1, <1>2, <1>3, <1>4, <1>5, <1>6, <1>7, <1>8, <1>9, <1>10, <1>11, <1>12 DEF Next

\* Messages, chunks, rows and timers keep their types whatever arrives in
\* whatever order.
THEOREM TypeCorrect == Spec => []TypeOK
  BY TypeInit, TypeNext, PTL DEF Spec

-------------------------------------------------------------------------------
(* The pull loop. *)

OwnWaits == {w \in waits : w[1] = scanGen}
OwnMsgs  == {m \in inbox : IsScanMsg(m) /\ m.gen = scanGen}

\* What OnePull counts, and where it is: one command on the current channel, or
\* one message of the current generation.
PullInv ==
    IF done \/ "scan" \in lost THEN OwnWaits = {} /\ OwnMsgs = {}
    ELSE \/ OwnWaits = {<<scanGen, engine>>} /\ OwnMsgs = {}
         \/ OwnWaits = {} /\ \E m \in inbox : OwnMsgs = {m}

\* A new scan begins with one pull, and what is left of any other belongs to
\* other generations.
LEMMA PullStart ==
    ASSUME NEW g \in Gen, NEW eng, StartScan(g, eng), inbox' \subseteq inbox
    PROVE  PullInv'
<1>1. OwnWaits' = {<<g, eng>>} /\ OwnMsgs' = {}
  BY DEF StartScan, Fresh, OwnWaits, OwnMsgs
<1> QED
  BY <1>1 DEF StartScan, PullInv

\* Steps that leave the current generation's commands and messages alone.
LEMMA PullFrame ==
    ASSUME PullInv, UNCHANGED <<scanGen, engine, done>>, OwnWaits' = OwnWaits,
           OwnMsgs' = OwnMsgs, "scan" \in lost' <=> "scan" \in lost
    PROVE  PullInv'
<1>1. \A m : OwnMsgs' = {m} => m \in inbox'
  BY DEF OwnMsgs
<1> QED
  BY <1>1 DEF PullInv

LEMMA PullUpdate ==
    ASSUME TypeOK, PullInv, NEW m \in inbox, Update(m)
    PROVE  PullInv'
<1>0. inbox' = inbox \ {m}
  BY DEF Update
<1>1. CASE m \notin OwnMsgs
  <2>0. OwnMsgs' = OwnMsgs \/ ~UNCHANGED scanGen
    BY <1>0, <1>1 DEF OwnMsgs
  <2>1. CASE Captures /\ Swallow(m)
    <3>1. "scan" \in lost' <=> "scan" \in lost
      BY <1>1, <2>1 DEF Swallow, OwnMsgs
    <3> QED
      BY <2>0, <2>1, <3>1, PullFrame DEF Swallow, scanVars, viewVars, OwnWaits
  <2>2. CASE HandleChunk(m) \/ HandleDone(m)
    BY <1>1, <2>2 DEF HandleChunk, HandleDone, OwnMsgs, IsScanMsg
  <2>3. CASE HandleStale(m) \/ HandleSwitchFailed(m)
    BY <2>0, <2>3, PullFrame DEF HandleStale, HandleSwitchFailed, scanVars, viewVars, OwnWaits
  <2>4. CASE HandleSwitched(m)
    BY <1>0, <2>4, PullStart DEF HandleSwitched
  <2> QED
    BY <2>1, <2>2, <2>3, <2>4 DEF Update
<1>2. CASE m \in OwnMsgs
  <2>1. ~done /\ "scan" \notin lost /\ OwnWaits = {} /\ OwnMsgs = {m}
    BY <1>2 DEF PullInv
  <2>2. ASSUME UNCHANGED scanGen PROVE OwnMsgs' = {}
    BY <1>0, <2>1, <2>2 DEF OwnMsgs
  <2>3. IsScanMsg(m) /\ m.gen = scanGen
    BY <1>2 DEF OwnMsgs
  <2>4. CASE Captures /\ Swallow(m)
    BY <2>1, <2>2, <2>3, <2>4 DEF Swallow, scanVars, viewVars, PullInv, OwnWaits
  <2>5. CASE HandleChunk(m)
    <3>1. UNCHANGED <<scanGen, engine, closed, lost>> /\ done' = closed
      BY <2>5 DEF HandleChunk
    <3>2. waits' = IF closed THEN waits ELSE waits \union {<<scanGen, engine>>}
      BY <2>5 DEF HandleChunk
    <3>3. OwnWaits' = IF closed THEN {} ELSE {<<scanGen, engine>>}
      BY <2>1, <3>1, <3>2 DEF OwnWaits
    <3> QED
      BY <2>1, <2>2, <3>1, <3>3 DEF PullInv, TypeOK
  <2>6. CASE HandleDone(m)
    BY <2>1, <2>2, <2>6 DEF HandleDone, scanVars, PullInv, OwnWaits
  <2>7. ~HandleStale(m) /\ ~HandleSwitchFailed(m) /\ ~HandleSwitched(m)
    BY <2>3, SwitchMsgFields DEF HandleStale, HandleSwitchFailed, HandleSwitched, IsScanMsg
  <2> QED
    BY <2>4, <2>5, <2>6, <2>7 DEF Update
<1> QED
  BY <1>1, <1>2

LEMMA PullNext == TypeOK /\ PullInv /\ [Next]_vars => PullInv'
<1> SUFFICES ASSUME TypeOK, PullInv, [Next]_vars PROVE PullInv'
  OBVIOUS
<1>1. ASSUME UNCHANGED <<scanGen, engine, done, waits, inbox>>,
             "scan" \in lost' <=> "scan" \in lost
      PROVE  PullInv'
  BY <1>1, PullFrame DEF OwnWaits, OwnMsgs
<1>2. ASSUME NEW r \in Resource, Delete(r) PROVE PullInv'
  BY <1>1, <1>2 DEF Delete, scanVars, viewVars
<1>3. ASSUME NEW r \in Collector, CollectorEnds(r) PROVE PullInv'
  BY <1>1, <1>3 DEF CollectorEnds, viewVars
<1>4. CASE WaitEnds
  <2>1. <<scanGen, engine>> \in OwnWaits
    BY <1>4 DEF WaitEnds, OwnWaits
  <2>2. /\ ~done /\ "scan" \notin lost
        /\ OwnWaits = {<<scanGen, engine>>} /\ OwnMsgs = {}
    BY <2>1 DEF PullInv
  <2>3. PICK m : /\ inbox' = inbox \union {m}
                 /\ IsScanMsg(m) /\ m.gen = scanGen
    BY <1>4, ChunkMsgFields, DoneMsgFields DEF WaitEnds
  <2>4. OwnMsgs' = {m}
    BY <1>4, <2>2, <2>3 DEF WaitEnds, OwnMsgs
  <2>5. OwnWaits' = {}
    BY <1>4, <2>2 DEF WaitEnds, OwnWaits
  <2>6. UNCHANGED <<scanGen, engine, done, lost>>
    BY <1>4 DEF WaitEnds, viewVars
  <2> QED
    BY <2>2, <2>3, <2>4, <2>5, <2>6 DEF PullInv
<1>5. ASSUME NEW w \in waits, StaleWaitEnds(w) PROVE PullInv'
  <2>0. \E m : inbox' = inbox \union {m} /\ m.gen = w[1]
    <3>1. CASE inbox' = inbox \union {DoneMsg(w[1])}
      BY <3>1, DoneMsgFields
    <3>2. ASSUME NEW c, inbox' = inbox \union {ChunkMsg(w[1], c)}
          PROVE  \E m : inbox' = inbox \union {m} /\ m.gen = w[1]
      BY <3>2, ChunkMsgFields
    <3> QED
      BY <1>5, <3>1, <3>2 DEF StaleWaitEnds
  <2>1. PICK m : inbox' = inbox \union {m} /\ m.gen = w[1]
    BY <2>0
  <2>2. OwnMsgs' = OwnMsgs /\ OwnWaits' = OwnWaits
    BY <1>5, <2>1 DEF StaleWaitEnds, OwnMsgs, OwnWaits
  <2> QED
    BY <1>5, <2>2, PullFrame DEF StaleWaitEnds, viewVars
<1>6. ASSUME NEW m \in inbox, Update(m) PROVE PullInv'
  BY <1>6, PullUpdate
<1>7. CASE ToggleWatch
  BY <1>1, <1>7 DEF ToggleWatch, scanVars, viewVars
<1>8. ASSUME NEW id \in Gen, Tick(id) PROVE PullInv'
  <2>1. CASE \E g \in Gen : StartScan(g, engine)
    BY <1>8, <2>1, PullStart DEF Tick
  <2>2. CASE ~\E g \in Gen : StartScan(g, engine)
    BY <1>1, <1>8, <2>2 DEF Tick, scanVars, viewVars
  <2> QED
    BY <2>1, <2>2
<1>9. CASE ScanCloses \/ Close \/ \E o \in Overlay : Open(o)
  BY <1>1, <1>9 DEF ScanCloses, Close, Open, scanVars, viewVars
<1>10. CASE Submit
  <2>1. inbox' = inbox \union {SwitchMsg}
    BY <1>10 DEF Submit
  <2>2. OwnMsgs' = OwnMsgs /\ OwnWaits' = OwnWaits
    BY <1>10, <2>1, SwitchMsgFields DEF Submit, scanVars, OwnMsgs, OwnWaits
  <2> QED
    BY <1>10, <2>2, PullFrame DEF Submit, scanVars, viewVars
<1>11. CASE UNCHANGED vars
  BY <1>1, <1>11 DEF vars, scanVars, viewVars
<1> QED
  BY <1>2, <1>3, <1>4, <1>5, <1>6, <1>7, <1>8, <1>9, <1>10, <1>11 DEF Next

LEMMA PullInit == Init => PullInv
<1> SUFFICES ASSUME Init PROVE PullInv
  OBVIOUS
<1>1. OwnWaits = {<<1, 0>>} /\ OwnMsgs = {}
  BY DEF Init, OwnWaits, OwnMsgs
<1> QED
  BY <1>1 DEF Init, PullInv

LEMMA PullInvariant == Spec => []PullInv
  BY PullInit, PullNext, TypeCorrect, PTL DEF Spec

\* While a scan runs exactly one waitForChunk or one message of its generation
\* is under way, whatever restarts, watch refreshes and stragglers come between:
\* the loop neither forks nor stops, unless an overlay has swallowed its message.
THEOREM PullLoopNeverForks == Spec => []OnePull
<1>1. PullInv => OnePull
  <2> SUFFICES ASSUME PullInv PROVE OnePull
    OBVIOUS
  <2>1. Pulls = OwnWaits \union OwnMsgs
    BY DEF Pulls, OwnWaits, OwnMsgs
  <2>2. CASE done \/ "scan" \in lost
    BY <2>1, <2>2, FS_EmptySet DEF PullInv, OnePull
  <2>3. CASE ~(done \/ "scan" \in lost)
    <3>1. PICK x : Pulls = {x}
      BY <2>1, <2>3 DEF PullInv
    <3>2. Cardinality({x}) = 1
      BY FS_Singleton
    <3> QED
      BY <2>3, <3>1, <3>2 DEF OnePull
  <2> QED
    BY <2>2, <2>3
<1> QED
  BY <1>1, PullInvariant, PTL

-------------------------------------------------------------------------------
(* The timer chain of watch mode. *)

LEMMA TimerNext == TypeOK /\ OneTimer /\ [Next]_vars => OneTimer'
<1> SUFFICES ASSUME TypeOK, OneTimer, [Next]_vars PROVE OneTimer'
  OBVIOUS
<1>1. ASSUME UNCHANGED <<watchMode, watchTimerID, ticks>>,
             "tick" \in lost' <=> "tick" \in lost
      PROVE  OneTimer'
  BY <1>1 DEF OneTimer
<1>2. ASSUME NEW g, NEW eng, StartScan(g, eng)
      PROVE  "tick" \in lost' <=> "tick" \in lost
  BY <1>2 DEF StartScan
<1>3. ASSUME NEW m \in inbox, Update(m) PROVE OneTimer'
  <2>1. UNCHANGED <<watchMode, watchTimerID, ticks>>
    BY <1>3 DEF Update, Swallow, HandleChunk, HandleDone, HandleStale, HandleSwitchFailed,
                HandleSwitched, watchVars
  <2>2. "tick" \in lost' <=> "tick" \in lost
    <3>1. CASE Swallow(m)
      BY <3>1 DEF Swallow
    <3>2. CASE HandleSwitched(m)
      BY <1>2, <3>2 DEF HandleSwitched
    <3>3. CASE HandleChunk(m) \/ HandleDone(m) \/ HandleStale(m) \/ HandleSwitchFailed(m)
      BY <3>3 DEF HandleChunk, HandleDone, HandleStale, HandleSwitchFailed
    <3> QED
      BY <1>3, <3>1, <3>2, <3>3 DEF Update
  <2> QED
    BY <1>1, <2>1, <2>2
<1>4. CASE ToggleWatch
  BY <1>4 DEF ToggleWatch, OneTimer, TypeOK
<1>5. ASSUME NEW id \in Gen, Tick(id) PROVE OneTimer'
  <2>1. CASE Captures
    BY <1>5, <2>1 DEF Tick, OneTimer, TypeOK
  <2>2. CASE ~Captures /\ watchMode /\ id = watchTimerID
    BY <1>1, <1>2, <1>5, <2>2 DEF Tick
  <2>3. CASE ~Captures /\ ~(watchMode /\ id = watchTimerID)
    BY <1>5, <2>3 DEF Tick, OneTimer, TypeOK
  <2> QED
    BY <2>1, <2>2, <2>3
<1>6. CASE \/ \E r \in Resource : Delete(r)
           \/ \E r \in Collector : CollectorEnds(r)
           \/ ScanCloses \/ WaitEnds
           \/ \E w \in waits : StaleWaitEnds(w)
           \/ \E o \in Overlay : Open(o)
           \/ Close \/ Submit
  BY <1>1, <1>6 DEF Delete, CollectorEnds, ScanCloses, WaitEnds, StaleWaitEnds, Open,
                    Close, Submit, watchVars
<1>7. CASE UNCHANGED vars
  BY <1>1, <1>7 DEF vars, watchVars
<1> QED
  BY <1>3, <1>4, <1>5, <1>6, <1>7 DEF Next

\* However often W is pressed, watch mode is driven by one chain of ticks: a
\* chain left over from an earlier W has another id and dies with its tick.
THEOREM OneTimerChain == Spec => []OneTimer
<1>1. Init => OneTimer
  BY DEF Init, OneTimer
<1> QED
  BY <1>1, TimerNext, TypeCorrect, PTL DEF Spec

-------------------------------------------------------------------------------
(* Chunks of the running scan: their engine, and what they say of AWS. *)

\* Chunks that Update will still apply.
OwnChunks == buffered \union {m.chunk : m \in {n \in inbox : n.kind = "chunk" /\ n.gen = scanGen}}

\* A chunk of the running scan comes from the current engine and from a resource
\* there was when the scan started.
ChunkInv ==
    \A c \in OwnChunks : c.eng = engine /\ (c.ok => c.row \in aliveAtStart)

\* Nothing the running watch sweep has seen and the table shows was gone before
\* the scan of the sweep started.
SeenInv ==
    Sweeping => \A row \in rows \intersect watchSeen : row[2] \in aliveAtStart

RowInv == ChunkInv /\ OnlyCurrentEngine /\ SeenInv

LEMMA RowsOfOwn ==
    ASSUME ChunkInv, NEW cs \in SUBSET OwnChunks, NEW row \in RowsOf(cs)
    PROVE  row[1] = engine /\ row[2] \in aliveAtStart
  BY DEF RowsOf, ChunkInv

\* A new scan has no chunks under way.
LEMMA ChunksStart ==
    ASSUME NEW g \in Gen, NEW eng, StartScan(g, eng), inbox' \subseteq inbox
    PROVE  OwnChunks' = {}
  BY DEF StartScan, Fresh, OwnChunks, IsScanMsg

LEMMA RowFrame ==
    ASSUME RowInv, OwnChunks' \subseteq OwnChunks,
           UNCHANGED <<engine, aliveAtStart, rows, watchSeen>>
    PROVE  RowInv'
  BY DEF RowInv, ChunkInv, OnlyCurrentEngine, SeenInv, Sweeping

\* The end of a scan, or a chunk, takes rows of the running scan only.
LEMMA EndScanRows ==
    ASSUME TypeOK, RowInv, NEW new \in SUBSET Rows, NEW ended,
           \A row \in new : row[1] = engine /\ row[2] \in aliveAtStart,
           EndScan(rows \union new,
                   IF Sweeping THEN watchSeen \union new ELSE watchSeen, ended),
           UNCHANGED <<engine, aliveAtStart>>
    PROVE  /\ OnlyCurrentEngine' /\ SeenInv'
           /\ (Sweeping /\ watchSeen' = NoSweep) =>
                \A row \in rows' : row[2] \in aliveAtStart
<1> DEFINE seen == IF Sweeping THEN watchSeen \union new ELSE watchSeen
<1>1. rows' \subseteq rows \union new
  BY DEF EndScan
<1>2. OnlyCurrentEngine'
  BY <1>1 DEF RowInv, OnlyCurrentEngine
<1>3. Sweeping => seen \subseteq Rows /\ seen # NoSweep
  <2>1. Sweeping => seen \in SUBSET Rows
    BY DEF TypeOK, Sweeping, Rows
  <2> QED
    BY <2>1, SweepIsNotNoSweep
<1>4. Sweeping => \A row \in (rows \union new) \intersect seen : row[2] \in aliveAtStart
  BY DEF RowInv, SeenInv
<1>5. Sweeping' => Sweeping /\ rows' = rows \union new /\ watchSeen' = seen
  BY DEF EndScan, Sweeping
<1>6. SeenInv'
  BY <1>4, <1>5 DEF SeenInv
<1>7. (Sweeping /\ watchSeen' = NoSweep) => rows' = (rows \union new) \intersect seen
  BY <1>3 DEF EndScan
<1> QED
  BY <1>2, <1>4, <1>6, <1>7

\* What a handler of Update does to the rows.
LEMMA RowUpdate ==
    ASSUME TypeOK, RowInv, NEW m \in inbox, Update(m)
    PROVE  /\ RowInv'
           /\ (Sweeping /\ watchSeen' = NoSweep) =>
                \A row \in rows' : row[2] \in aliveAtStart
<1>0. inbox' = inbox \ {m}
  BY DEF Update
<1>1. ASSUME UNCHANGED <<scanGen, buffered>> PROVE OwnChunks' \subseteq OwnChunks
  BY <1>0, <1>1 DEF OwnChunks
<1>2. CASE (Captures /\ Swallow(m)) \/ HandleStale(m) \/ HandleSwitchFailed(m)
  <2>1. UNCHANGED <<scanGen, engine, buffered, aliveAtStart, rows, watchSeen>>
    BY <1>2 DEF Swallow, HandleStale, HandleSwitchFailed, scanVars, viewVars, watchVars, awsVars
  <2> QED
    BY <1>1, <2>1, RowFrame DEF Sweeping
<1>3. CASE HandleChunk(m)
  <2> DEFINE new == RowsOf({m.chunk} \union buffered)
  <2>1. m.kind = "chunk" /\ m.gen = scanGen /\ m.chunk \in Chunks
    BY <1>3, Messages DEF HandleChunk
  <2>2. {m.chunk} \union buffered \subseteq OwnChunks
    BY <2>1 DEF OwnChunks
  <2>3. \A row \in new : row[1] = engine /\ row[2] \in aliveAtStart
    BY <2>2, RowsOfOwn DEF RowInv
  <2>4. new \in SUBSET Rows
    BY <2>1, RowsOfType DEF TypeOK
  <2>5. /\ EndScan(rows \union new,
                   IF Sweeping THEN watchSeen \union new ELSE watchSeen, closed)
        /\ buffered' = {} /\ UNCHANGED <<scanGen, engine, aliveAtStart>>
    BY <1>3 DEF HandleChunk, awsVars
  <2> HIDE DEF new
  <2>6. OwnChunks' \subseteq OwnChunks
    BY <1>0, <2>5 DEF OwnChunks
  <2>7. ChunkInv'
    BY <2>5, <2>6 DEF RowInv, ChunkInv
  <2> QED
    BY <2>3, <2>4, <2>5, <2>7, EndScanRows DEF RowInv
<1>4. CASE HandleDone(m)
  <2>1. /\ EndScan(rows, watchSeen, TRUE)
        /\ UNCHANGED <<scanGen, engine, buffered, aliveAtStart>>
    BY <1>4 DEF HandleDone, scanVars, awsVars
  <2>2. /\ rows \union {} = rows
        /\ (IF Sweeping THEN watchSeen \union {} ELSE watchSeen) = watchSeen
    OBVIOUS
  <2>3. EndScan(rows \union {}, IF Sweeping THEN watchSeen \union {} ELSE watchSeen, TRUE)
    BY <2>1, <2>2
  <2>4. ChunkInv'
    BY <1>1, <2>1 DEF RowInv, ChunkInv
  <2> QED
    BY <2>1, <2>3, <2>4, EndScanRows DEF RowInv
<1>5. CASE HandleSwitched(m)
  <2>1. OwnChunks' = {}
    BY <1>0, <1>5, ChunksStart DEF HandleSwitched
  <2> QED
    BY <1>5, <2>1 DEF HandleSwitched, RowInv, ChunkInv, OnlyCurrentEngine, SeenInv
<1> QED
  BY <1>2, <1>3, <1>4, <1>5 DEF Update

\* What any other step does to them.
LEMMA RowOther ==
    ASSUME TypeOK, RowInv, [Next]_vars, \A m \in inbox : ~Update(m)
    PROVE  RowInv' /\ (Sweeping => watchSeen' # NoSweep)
<1>1. ASSUME OwnChunks' \subseteq OwnChunks,
             UNCHANGED <<engine, aliveAtStart, rows, watchSeen>>
      PROVE  RowInv' /\ (Sweeping => watchSeen' # NoSweep)
  BY <1>1, RowFrame DEF Sweeping
<1>2. ASSUME UNCHANGED <<scanGen, inbox, buffered>> PROVE OwnChunks' = OwnChunks
  BY <1>2 DEF OwnChunks
<1>3. CASE \/ \E r \in Resource : Delete(r)
           \/ ScanCloses \/ ToggleWatch \/ Close
           \/ \E o \in Overlay : Open(o)
           \/ UNCHANGED vars
  BY <1>1, <1>2, <1>3 DEF Delete, ScanCloses, ToggleWatch, Close, Open, vars, scanVars,
                          viewVars, watchVars, awsVars
<1>4. ASSUME NEW r \in Collector, CollectorEnds(r)
      PROVE  RowInv' /\ (Sweeping => watchSeen' # NoSweep)
  <2>0. PICK fails \in {FALSE, MayFail} :
          buffered' = buffered \union
            {[eng |-> engine, row |-> r, ok |-> r \in alive /\ ~fails]}
    BY <1>4 DEF CollectorEnds
  <2> DEFINE c == [eng |-> engine, row |-> r, ok |-> r \in alive /\ ~fails]
  <2>1. buffered' = buffered \union {c} /\ c.eng = engine /\ (c.ok => c.row \in alive)
    BY <2>0
  <2> HIDE DEF c
  <2>2. /\ UNCHANGED <<scanGen, engine, inbox, aliveAtStart, rows, watchSeen>>
        /\ alive \subseteq aliveAtStart
    BY <1>4 DEF CollectorEnds, viewVars, watchVars, awsVars, TypeOK
  <2>3. OwnChunks' = OwnChunks \union {c}
    BY <2>1, <2>2 DEF OwnChunks
  <2> QED
    BY <2>1, <2>2, <2>3 DEF RowInv, ChunkInv, OnlyCurrentEngine, SeenInv, Sweeping
<1>5. CASE WaitEnds
  <2>1. UNCHANGED <<scanGen, engine, aliveAtStart, rows, watchSeen>>
    BY <1>5 DEF WaitEnds, viewVars, watchVars, awsVars
  <2>2. OwnChunks' \subseteq OwnChunks
    <3>1. ASSUME NEW c \in buffered, buffered' = buffered \ {c},
                 inbox' = inbox \union {ChunkMsg(scanGen, c)}
          PROVE  OwnChunks' \subseteq OwnChunks
      BY <2>1, <3>1, ChunkMsgFields DEF OwnChunks
    <3>2. ASSUME inbox' = inbox \union {DoneMsg(scanGen)}, buffered' = buffered
          PROVE  OwnChunks' \subseteq OwnChunks
      BY <2>1, <3>2, DoneMsgFields DEF OwnChunks
    <3> QED
      BY <1>5, <3>1, <3>2 DEF WaitEnds
  <2> QED
    BY <1>1, <2>1, <2>2
<1>6. ASSUME NEW w \in waits, StaleWaitEnds(w)
      PROVE  RowInv' /\ (Sweeping => watchSeen' # NoSweep)
  <2>1. UNCHANGED <<scanGen, engine, buffered, aliveAtStart, rows, watchSeen>>
    BY <1>6 DEF StaleWaitEnds, viewVars, watchVars, awsVars
  <2>2. OwnChunks' = OwnChunks
    <3>1. ASSUME NEW n, inbox' = inbox \union {n}, n.gen = w[1]
          PROVE  OwnChunks' = OwnChunks
      BY <1>6, <2>1, <3>1 DEF StaleWaitEnds, OwnChunks
    <3>2. CASE inbox' = inbox \union {DoneMsg(w[1])}
      BY <3>1, <3>2, DoneMsgFields
    <3>3. ASSUME NEW c, inbox' = inbox \union {ChunkMsg(w[1], c)}
          PROVE  OwnChunks' = OwnChunks
      BY <3>1, <3>3, ChunkMsgFields
    <3> QED
      BY <1>6, <3>2, <3>3 DEF StaleWaitEnds
  <2> QED
    BY <1>1, <2>1, <2>2
<1>7. ASSUME NEW id \in Gen, Tick(id)
      PROVE  RowInv' /\ (Sweeping => watchSeen' # NoSweep)
  <2>1. CASE UNCHANGED scanVars /\ UNCHANGED <<viewVars, watchSeen, awsVars>>
    BY <1>1, <1>2, <1>7, <2>1 DEF Tick, scanVars, viewVars, awsVars
  <2>2. CASE \E g \in Gen : StartScan(g, engine) /\ watchSeen' = {} /\ UNCHANGED rows
    <3>1. OwnChunks' = {}
      BY <1>7, <2>2, ChunksStart DEF Tick
    <3>2. engine' = engine /\ {} # NoSweep
      BY <2>2 DEF StartScan, NoSweep
    <3> QED
      BY <2>2, <3>1, <3>2 DEF RowInv, ChunkInv, OnlyCurrentEngine, SeenInv
  <2> QED
    BY <1>7, <2>1, <2>2 DEF Tick
<1>8. CASE Submit
  <2>1. UNCHANGED <<scanGen, engine, buffered, aliveAtStart, rows, watchSeen>>
    BY <1>8 DEF Submit, scanVars, viewVars, watchVars, awsVars
  <2>2. OwnChunks' = OwnChunks
    BY <1>8, <2>1, SwitchMsgFields DEF Submit, OwnChunks
  <2> QED
    BY <1>1, <2>1, <2>2
<1> QED
  BY <1>3, <1>4, <1>5, <1>6, <1>7, <1>8 DEF Next

LEMMA RowNext == TypeOK /\ RowInv /\ [Next]_vars => RowInv'
  BY RowUpdate, RowOther

LEMMA RowInit == Init => RowInv
<1> SUFFICES ASSUME Init PROVE RowInv
  OBVIOUS
<1>1. OwnChunks = {}
  BY DEF Init, OwnChunks
<1>2. \A row \in rows : row[1] = engine
  BY DEF Init
<1> QED
  BY <1>1, <1>2 DEF Init, RowInv, ChunkInv, OnlyCurrentEngine, SeenInv, Sweeping

LEMMA RowInvariant == Spec => []RowInv
  BY RowInit, RowNext, TypeCorrect, PTL DEF Spec

\* After a switch of profile or region no row of the old one comes back, however
\* late the chunks of its cancelled scan arrive.
THEOREM NoRowOfOldEngine == Spec => []OnlyCurrentEngine
  BY RowInvariant, PTL DEF RowInv

\* A watch sweep that ends leaves no row of a resource that was gone when it
\* started, whatever the restarts in between.
THEOREM SweepDropsDeleted == Spec => DeletedDropOut
<1>1. TypeOK /\ RowInv /\ [Next]_vars =>
        [(Sweeping /\ watchSeen' = NoSweep) => \A row \in rows' : row[2] \in aliveAtStart]_vars
  BY RowUpdate, RowOther
<1> QED
  BY <1>1, RowInvariant, TypeCorrect, PTL DEF Spec, DeletedDropOut

-------------------------------------------------------------------------------
(* Rows that a sweep keeps. *)

\* A watch sweep has news of r, or will have.
Reported(r) ==
    \/ r \in unsent
    \/ \E c \in OwnChunks : c.row = r /\ c.ok
    \/ <<engine, r>> \in watchSeen
    \/ r \notin alive

\* The end of the stream is behind every chunk, and what a running sweep has not
\* seen yet is still under way.
SweepInv ==
    /\ closed => unsent = {}
    /\ DoneMsg(scanGen) \in inbox => closed /\ buffered = {}
    /\ (Sweeping /\ "scan" \notin lost) => \A r \in Collector : Reported(r)

LEMMA SweepInit == Init => SweepInv
  BY DEF Init, SweepInv, Sweeping

\* A new scan has news of everything to come.
LEMMA SweepStart ==
    ASSUME NEW g \in Gen, NEW eng, StartScan(g, eng), inbox' \subseteq inbox
    PROVE  SweepInv'
<1>1. DoneMsg(g) \notin inbox'
  BY DoneMsgFields DEF StartScan, Fresh
<1> QED
  BY <1>1 DEF StartScan, SweepInv, Reported

LEMMA SweepFrame ==
    ASSUME SweepInv, UNCHANGED <<scanGen, engine, unsent, buffered, closed, watchSeen>>,
           OwnChunks' = OwnChunks, alive' \subseteq alive,
           DoneMsg(scanGen) \in inbox' => DoneMsg(scanGen) \in inbox,
           "scan" \in lost => "scan" \in lost'
    PROVE  SweepInv'
  BY DEF SweepInv, Reported, Sweeping

\* The last message of a scan: nothing else of the scan is under way.
LEMMA LastMessage ==
    ASSUME TypeOK, PullInv, NEW m \in inbox, IsScanMsg(m), m.gen = scanGen
    PROVE  /\ "scan" \notin lost
           /\ \A c \in OwnChunks : c \in buffered \/ (m.kind = "chunk" /\ c = m.chunk)
<1>1. m \in OwnMsgs
  BY DEF OwnMsgs
<1>2. "scan" \notin lost /\ OwnMsgs = {m}
  BY <1>1 DEF PullInv
<1>3. \A n \in inbox : n.kind = "chunk" /\ n.gen = scanGen => n = m
  BY <1>2 DEF OwnMsgs, IsScanMsg
<1> QED
  BY <1>2, <1>3 DEF OwnChunks

\* When the scan ends, the sweep has seen every resource there is.
LEMMA AllSeenChunk ==
    ASSUME TypeOK, PullInv, RowInv, SweepInv, NEW m \in inbox, HandleChunk(m),
           Sweeping, NEW r \in Collector, r \in alive, r \notin unsent
    PROVE  <<engine, r>> \in watchSeen \union RowsOf({m.chunk} \union buffered)
<1>1. m.kind = "chunk" /\ m.gen = scanGen /\ IsScanMsg(m)
  BY DEF HandleChunk, IsScanMsg
<1>2. "scan" \notin lost /\ \A c \in OwnChunks : c \in {m.chunk} \union buffered
  BY <1>1, LastMessage
<1>3. Reported(r)
  BY <1>2 DEF SweepInv
<1>4. ASSUME NEW c \in OwnChunks, c.row = r, c.ok
      PROVE  <<engine, r>> \in RowsOf({m.chunk} \union buffered)
  <2>1. c.eng = engine /\ c \in {m.chunk} \union buffered
    BY <1>2 DEF RowInv, ChunkInv
  <2> QED
    BY <1>4, <2>1 DEF RowsOf
<1> QED
  BY <1>3, <1>4 DEF Reported

LEMMA AllSeenDone ==
    ASSUME TypeOK, PullInv, SweepInv, NEW m \in inbox, HandleDone(m),
           Sweeping, NEW r \in Collector, r \in alive
    PROVE  <<engine, r>> \in watchSeen
<1>1. m.kind = "done" /\ m.gen = scanGen /\ IsScanMsg(m)
  BY DEF HandleDone, IsScanMsg
<1>2. DoneMsg(scanGen) \in inbox
  BY <1>1, Messages
<1>3. "scan" \notin lost /\ OwnChunks = {}
  BY <1>1, <1>2, LastMessage DEF SweepInv
<1> QED
  BY <1>2, <1>3 DEF SweepInv, Reported

LEMMA SweepUpdate ==
    ASSUME TypeOK, PullInv, RowInv, SweepInv, NEW m \in inbox, Update(m)
    PROVE  SweepInv'
<1>0. inbox' = inbox \ {m}
  BY DEF Update
<1>1. ASSUME UNCHANGED <<scanGen, buffered>>, ~(m.kind = "chunk" /\ m.gen = scanGen)
      PROVE  OwnChunks' = OwnChunks
  BY <1>0, <1>1 DEF OwnChunks
<1>2. CASE Captures /\ Swallow(m)
  <2>1. UNCHANGED <<scanGen, engine, unsent, buffered, closed, watchSeen, alive>>
    BY <1>2 DEF Swallow, scanVars, watchVars, awsVars
  <2>2. CASE IsScanMsg(m) /\ m.gen = scanGen
    BY <1>0, <1>2, <2>1, <2>2 DEF Swallow, SweepInv
  <2>3. CASE ~(IsScanMsg(m) /\ m.gen = scanGen)
    <3>1. OwnChunks' = OwnChunks
      BY <1>1, <2>1, <2>3 DEF IsScanMsg
    <3> QED
      BY <1>0, <1>2, <2>1, <3>1, SweepFrame DEF Swallow
  <2> QED
    BY <2>2, <2>3
<1>3. CASE HandleStale(m) \/ HandleSwitchFailed(m)
  <2>1. UNCHANGED <<scanGen, engine, unsent, buffered, closed, watchSeen, alive, lost>>
    BY <1>3 DEF HandleStale, HandleSwitchFailed, scanVars, watchVars, awsVars
  <2>2. OwnChunks' = OwnChunks
    BY <1>1, <1>3, <2>1 DEF HandleStale, HandleSwitchFailed
  <2> QED
    BY <1>0, <2>1, <2>2, SweepFrame
<1>4. CASE HandleChunk(m)
  <2> DEFINE new == RowsOf({m.chunk} \union buffered)
  <2>1. /\ UNCHANGED <<scanGen, engine, unsent, closed, alive, lost>> /\ buffered' = {}
        /\ EndScan(rows \union new,
                   IF Sweeping THEN watchSeen \union new ELSE watchSeen, closed)
    BY <1>4 DEF HandleChunk, awsVars
  <2>2. Sweeping' => Sweeping /\ watchSeen' = watchSeen \union new
    BY <2>1 DEF EndScan, Sweeping
  <2>3. \A r \in Collector : (Sweeping' /\ r \in alive /\ r \notin unsent) =>
                               <<engine, r>> \in watchSeen'
    BY <1>4, <2>2, AllSeenChunk
  <2>4. DoneMsg(scanGen) \in inbox' => DoneMsg(scanGen) \in inbox
    BY <1>0
  <2> QED
    BY <2>1, <2>3, <2>4 DEF SweepInv, Reported
<1>5. CASE HandleDone(m)
  <2>1. /\ EndScan(rows, watchSeen, TRUE)
        /\ UNCHANGED <<scanGen, engine, unsent, buffered, closed, lost>>
    BY <1>5 DEF HandleDone, scanVars
  <2>2. ~Sweeping'
    BY <2>1 DEF EndScan, Sweeping
  <2> QED
    BY <1>0, <2>1, <2>2 DEF SweepInv
<1>6. CASE HandleSwitched(m)
  BY <1>0, <1>6, SweepStart DEF HandleSwitched
<1> QED
  BY <1>2, <1>3, <1>4, <1>5, <1>6 DEF Update

\* The step of a collector that does not fail: what it does not report is gone.
LEMMA SweepCollector ==
    ASSUME MayFail = FALSE, TypeOK, SweepInv, NEW r \in Collector, CollectorEnds(r)
    PROVE  SweepInv'
<1>1. PICK c : /\ buffered' = buffered \union {c}
               /\ c.row = r /\ (r \in alive => c.ok)
  <2>1. PICK fails \in {FALSE, MayFail} :
          buffered' = buffered \union
            {[eng |-> engine, row |-> r, ok |-> r \in alive /\ ~fails]}
    BY DEF CollectorEnds
  <2> DEFINE c == [eng |-> engine, row |-> r, ok |-> r \in alive /\ ~fails]
  <2>2. c.row = r /\ (r \in alive => c.ok)
    OBVIOUS
  <2>3. buffered' = buffered \union {c}
    BY <2>1
  <2> QED
    BY <2>2, <2>3
<1>2. /\ unsent' = unsent \ {r} /\ r \in unsent
      /\ UNCHANGED <<scanGen, engine, closed, inbox, watchSeen, alive, lost>>
  BY DEF CollectorEnds, watchVars, awsVars
<1>3. OwnChunks' = OwnChunks \union {c}
  BY <1>1, <1>2 DEF OwnChunks
<1>4. \A u \in Collector : Reported(u) => Reported(u)'
  BY <1>1, <1>2, <1>3 DEF Reported
<1> QED
  BY <1>1, <1>2, <1>4 DEF SweepInv, Sweeping

LEMMA SweepOther ==
    ASSUME MayFail = FALSE, TypeOK, SweepInv, [Next]_vars, \A m \in inbox : ~Update(m)
    PROVE  SweepInv'
<1>1. ASSUME UNCHANGED <<scanGen, engine, unsent, buffered, closed, inbox, watchSeen>>,
             alive' \subseteq alive, "scan" \in lost => "scan" \in lost'
      PROVE  SweepInv'
  BY <1>1, SweepFrame DEF OwnChunks
<1>2. ASSUME NEW r \in Collector, CollectorEnds(r) PROVE SweepInv'
  BY <1>2, SweepCollector
<1>3. CASE ScanCloses
  <2>1. UNCHANGED <<scanGen, engine, unsent, buffered, inbox, watchSeen, alive, lost>>
    BY <1>3 DEF ScanCloses, watchVars, awsVars
  <2>2. OwnChunks' = OwnChunks
    BY <2>1 DEF OwnChunks
  <2> QED
    BY <1>3, <2>1, <2>2 DEF ScanCloses, SweepInv, Reported, Sweeping
<1>4. CASE WaitEnds
  <2>1. UNCHANGED <<scanGen, engine, unsent, closed, watchSeen, alive, lost>>
    BY <1>4 DEF WaitEnds, viewVars, watchVars, awsVars
  <2>2. ASSUME NEW c \in buffered, buffered' = buffered \ {c},
               inbox' = inbox \union {ChunkMsg(scanGen, c)}
        PROVE  SweepInv'
    <3>1. OwnChunks' = OwnChunks
      BY <2>1, <2>2, ChunkMsgFields DEF OwnChunks
    <3>2. DoneMsg(scanGen) \in inbox' => DoneMsg(scanGen) \in inbox
      BY <2>2, ChunkMsgFields, DoneMsgFields
    <3> QED
      BY <2>1, <2>2, <3>1, <3>2 DEF SweepInv, Reported, Sweeping
  <2>3. ASSUME closed, buffered = {}, buffered' = buffered,
               inbox' = inbox \union {DoneMsg(scanGen)}
        PROVE  SweepInv'
    <3>1. OwnChunks' = OwnChunks
      BY <2>1, <2>3, DoneMsgFields DEF OwnChunks
    <3> QED
      BY <2>1, <2>3, <3>1 DEF SweepInv, Reported, Sweeping
  <2> QED
    BY <1>4, <2>2, <2>3 DEF WaitEnds
<1>5. ASSUME NEW w \in waits, StaleWaitEnds(w) PROVE SweepInv'
  <2>1. /\ UNCHANGED <<scanGen, engine, unsent, buffered, closed, watchSeen, alive, lost>>
        /\ w[1] # scanGen
    BY <1>5 DEF StaleWaitEnds, watchVars, awsVars
  <2>2. ASSUME NEW n, inbox' = inbox \union {n}, n.gen = w[1] PROVE SweepInv'
    <3>1. OwnChunks' = OwnChunks
      BY <2>1, <2>2 DEF OwnChunks
    <3>2. DoneMsg(scanGen) \in inbox' => DoneMsg(scanGen) \in inbox
      BY <2>1, <2>2, DoneMsgFields
    <3> QED
      BY <2>1, <3>1, <3>2, SweepFrame
  <2>3. CASE inbox' = inbox \union {DoneMsg(w[1])}
    BY <2>2, <2>3, DoneMsgFields
  <2>4. ASSUME NEW c, inbox' = inbox \union {ChunkMsg(w[1], c)} PROVE SweepInv'
    BY <2>2, <2>4, ChunkMsgFields
  <2> QED
    BY <1>5, <2>3, <2>4 DEF StaleWaitEnds
<1>6. ASSUME NEW id \in Gen, Tick(id) PROVE SweepInv'
  <2>1. CASE UNCHANGED scanVars /\ UNCHANGED <<watchSeen, awsVars>>
             /\ ("scan" \in lost => "scan" \in lost')
    BY <1>1, <1>6, <2>1 DEF Tick, scanVars, awsVars
  <2>2. CASE \E g \in Gen : StartScan(g, engine)
    BY <1>6, <2>2, SweepStart DEF Tick
  <2> QED
    BY <1>6, <2>1, <2>2 DEF Tick
<1>7. CASE Submit
  <2>1. UNCHANGED <<scanGen, engine, unsent, buffered, closed, watchSeen, alive, lost>>
    BY <1>7 DEF Submit, scanVars, watchVars, awsVars
  <2>2. OwnChunks' = OwnChunks
    BY <1>7, <2>1, SwitchMsgFields DEF Submit, OwnChunks
  <2>3. DoneMsg(scanGen) \in inbox' => DoneMsg(scanGen) \in inbox
    BY <1>7, SwitchMsgFields, DoneMsgFields DEF Submit
  <2> QED
    BY <2>1, <2>2, <2>3, SweepFrame
<1>8. CASE \/ \E r \in Resource : Delete(r)
           \/ ToggleWatch \/ Close
           \/ \E o \in Overlay : Open(o)
           \/ UNCHANGED vars
  BY <1>1, <1>8 DEF Delete, ToggleWatch, Close, Open, vars, scanVars, watchVars, awsVars
<1> QED
  BY <1>2, <1>3, <1>4, <1>5, <1>6, <1>7, <1>8 DEF Next

\* Rows that leave the table in a step that does not switch are of resources
\* that are gone.
LEMMA DropsOnlyDeleted ==
    ASSUME Seed = {}, TypeOK, PullInv, RowInv, SweepInv, [Next]_vars, engine' = engine,
           NEW row \in rows \ rows'
    PROVE  row[2] \notin alive
<1>1. row[1] = engine /\ row[2] \in Collector /\ row = <<engine, row[2]>>
  BY DEF TypeOK, RowInv, OnlyCurrentEngine, Resource
<1>2. PICK m \in inbox : ~Captures /\ (HandleChunk(m) \/ HandleDone(m))
  <2>1. rows' # rows
    OBVIOUS
  <2>2. PICK m \in inbox : Update(m)
    BY <2>1 DEF Next, Delete, CollectorEnds, ScanCloses, WaitEnds, StaleWaitEnds, ToggleWatch,
                Tick, Open, Close, Submit, vars, viewVars
  <2>3. ~HandleSwitched(m)
    BY DEF HandleSwitched, StartScan, TypeOK
  <2> QED
    BY <2>1, <2>2, <2>3 DEF Update, Swallow, HandleStale, HandleSwitchFailed, viewVars
<1>3. CASE HandleChunk(m)
  <2> DEFINE new == RowsOf({m.chunk} \union buffered)
  <2>1. EndScan(rows \union new,
                IF Sweeping THEN watchSeen \union new ELSE watchSeen, closed)
    BY <1>3 DEF HandleChunk
  <2>2. closed /\ Sweeping /\ row \notin watchSeen \union new
    BY <2>1 DEF EndScan, Sweeping
  <2> QED
    BY <1>1, <1>3, <2>2, AllSeenChunk DEF SweepInv
<1>4. CASE HandleDone(m)
  <2>1. EndScan(rows, watchSeen, TRUE)
    BY <1>4 DEF HandleDone
  <2>2. Sweeping /\ row \notin watchSeen
    BY <2>1 DEF EndScan, Sweeping
  <2> QED
    BY <1>1, <1>4, <2>2, AllSeenDone
<1> QED
  BY <1>2, <1>3, <1>4

\* As long as no collector fails and the table shows nothing only the Tagging API
\* knows, a sweep drops no row of a resource that still exists: the chunks that
\* are under way when the stream ends are applied first.  Without the first
\* assumption it may (SummaryTUIFailedDropped.cfg).
THEOREM SweepDropsOnlyDeleted ==
    ASSUME MayFail = FALSE, Seed = {}
    PROVE  Spec => OnlyDeletedDropOut
<1>1. TypeOK /\ PullInv /\ RowInv /\ SweepInv /\ [Next]_vars => SweepInv'
  BY SweepUpdate, SweepOther
<1>2. Spec => []SweepInv
  BY <1>1, SweepInit, TypeCorrect, PullInvariant, RowInvariant, PTL DEF Spec
<1>3. TypeOK /\ PullInv /\ RowInv /\ SweepInv /\ [Next]_vars =>
        [engine' = engine => \A row \in rows \ rows' : row[2] \notin alive]_vars
  BY DropsOnlyDeleted
<1> QED
  BY <1>2, <1>3, TypeCorrect, PullInvariant, RowInvariant, PTL DEF Spec, OnlyDeletedDropOut
===============================================================================
