--------------------------- MODULE ScanEngineProofs ---------------------------
(***************************************************************************)
(* Theorems about ScanEngine, for every number of tasks, set of accounts,  *)
(* pool size, channel capacity and page bound; and about ScanPlan, for     *)
(* every configuration.                                                    *)
(***************************************************************************)
EXTENDS ScanEngine, ScanPlan, FiniteSetTheorems, SequenceTheorems, TLAPS

USE EngineAssumption

-------------------------------------------------------------------------------
(* Type correctness. *)

LEMMA PageIsChunk ==
    ASSUME NEW t \in Task, NEW n \in Nat
    PROVE  Page(t, n) \in Chunk
  BY DEF Page, Chunk

LEMMA MarkerIsChunk ==
    ASSUME NEW t \in Task, NEW n \in Nat, NEW data \in BOOLEAN,
           NEW err \in {"none", "account", "collect"}, NEW partial \in BOOLEAN
    PROVE  Marker(t, n, data, err, partial) \in Chunk
  BY DEF Marker, Chunk

LEMMA TypeInit == Init => TypeOK
<1> SUFFICES ASSUME Init PROVE TypeOK
  OBVIOUS
<1>1. outbox \in [Task -> Chunk]
  BY PageIsChunk DEF Init, NoChunk
<1>2. next \in 1..(N + 1)
  BY DEF Init
<1>3. chan \in Seq(Chunk) /\ got \in [Task -> Seq(Chunk)]
  BY DEF Init
<1> QED
  BY <1>1, <1>2, <1>3 DEF Init, TypeOK

\* Building a chunk keeps the types of the three variables it changes.
LEMMA OfferType ==
    ASSUME TypeOK, NEW t \in Task, NEW c \in Chunk, Offer(t, c)
    PROVE  /\ outbox' \in [Task -> Chunk]
           /\ made' \in [Task -> Nat]
           /\ worker' \in [Task -> {"idle", "running", "sending", "finished"}]
  BY DEF Offer, TypeOK

LEMMA ResumeType ==
    ASSUME TypeOK, NEW t \in Task, Resume(t)
    PROVE  /\ outbox' \in [Task -> Chunk]
           /\ worker' \in [Task -> {"idle", "running", "sending", "finished"}]
  BY PageIsChunk DEF Resume, TypeOK, NoChunk

LEMMA TypeWorker ==
    ASSUME TypeOK, NEW t \in Task, Worker(t)
    PROVE  TypeOK'
<1>0. made[t] + 1 \in Nat
  BY DEF TypeOK
<1>1. CASE SkipFailedAccount(t)
  <2> DEFINE c == Marker(t, made[t] + 1, FALSE,
                         IF Owner[t] \in reported THEN "none" ELSE "account", FALSE)
  <2>1. c \in Chunk
    BY <1>0, MarkerIsChunk
  <2>2. Offer(t, c)
    BY <1>1 DEF SkipFailedAccount
  <2>3. /\ outbox' \in [Task -> Chunk]
        /\ made' \in [Task -> Nat]
        /\ worker' \in [Task -> {"idle", "running", "sending", "finished"}]
    BY <2>1, <2>2, OfferType
  <2>4. reported' \subseteq Account
    BY <1>1 DEF SkipFailedAccount, TypeOK, Task
  <2>5. UNCHANGED <<cred, next, closed, emitted, chan, cancelled, reader, got>>
    BY <1>1 DEF SkipFailedAccount, launcherVars, consumerVars
  <2> QED
    BY <2>3, <2>4, <2>5 DEF TypeOK
<1>2. CASE EmitPage(t)
  <2>1. Page(t, made[t] + 1) \in Chunk
    BY PageIsChunk DEF TypeOK
  <2>2. Offer(t, Page(t, made[t] + 1))
    BY <1>2 DEF EmitPage
  <2> QED
    BY <1>2, <2>1, <2>2, OfferType DEF EmitPage, TypeOK, launcherVars, consumerVars
<1>3. CASE CollectSucceeds(t)
  <2>1. PICK data \in BOOLEAN : Offer(t, Marker(t, made[t] + 1, data, "none", FALSE))
    BY <1>3 DEF CollectSucceeds
  <2>2. Marker(t, made[t] + 1, data, "none", FALSE) \in Chunk
    BY <1>0, MarkerIsChunk
  <2>4. /\ outbox' \in [Task -> Chunk]
        /\ made' \in [Task -> Nat]
        /\ worker' \in [Task -> {"idle", "running", "sending", "finished"}]
    BY <2>1, <2>2, OfferType
  <2>5. UNCHANGED <<cred, next, closed, emitted, reported, chan, cancelled, reader, got>>
    BY <1>3 DEF CollectSucceeds, launcherVars, consumerVars
  <2> QED
    BY <2>4, <2>5 DEF TypeOK
<1>4. CASE CollectFails(t)
  <2>1. PICK data \in BOOLEAN :
          Offer(t, Marker(t, made[t] + 1, data, "collect", data \/ emitted[t] > 0))
    BY <1>4 DEF CollectFails
  <2>3. Marker(t, made[t] + 1, data, "collect", data \/ emitted[t] > 0) \in Chunk
    BY <1>0 DEF Marker, Chunk
  <2>4. /\ outbox' \in [Task -> Chunk]
        /\ made' \in [Task -> Nat]
        /\ worker' \in [Task -> {"idle", "running", "sending", "finished"}]
    BY <2>1, <2>3, OfferType
  <2>5. UNCHANGED <<cred, next, closed, emitted, reported, chan, cancelled, reader, got>>
    BY <1>4 DEF CollectFails, launcherVars, consumerVars
  <2> QED
    BY <2>4, <2>5 DEF TypeOK
<1>5. CASE Send(t)
  <2>1. outbox[t] \in Chunk
    BY DEF TypeOK
  <2> QED
    BY <1>5, <2>1, ResumeType DEF Send, TypeOK, launcherVars, consumerVars
<1>6. CASE Drop(t)
  BY <1>6, ResumeType DEF Drop, TypeOK, launcherVars, consumerVars
<1> QED
  BY <1>1, <1>2, <1>3, <1>4, <1>5, <1>6 DEF Worker

LEMMA TypeNext == TypeOK /\ [Next]_vars => TypeOK'
<1> SUFFICES ASSUME TypeOK, [Next]_vars PROVE TypeOK'
  OBVIOUS
<1>1. ASSUME NEW a \in Account, ResolveAccount(a) PROVE TypeOK'
  BY <1>1 DEF ResolveAccount, TypeOK, workerVars, consumerVars
<1>2. CASE Launch
  <2>1. next' \in 1..(N + 1)
    BY <1>2 DEF Launch, TypeOK, Task
  <2>2. worker' \in [Task -> {"idle", "running", "sending", "finished"}]
    BY <1>2 DEF Launch, TypeOK
  <2>3. UNCHANGED <<cred, closed, outbox, made, emitted, reported, chan,
                    cancelled, reader, got>>
    BY <1>2 DEF Launch, consumerVars
  <2> QED
    BY <2>1, <2>2, <2>3 DEF TypeOK
<1>3. CASE Close
  BY <1>3 DEF Close, TypeOK, workerVars, consumerVars
<1>4. ASSUME NEW t \in Task, Worker(t) PROVE TypeOK'
  BY <1>4, TypeWorker
<1>5. CASE Receive
  <2>1. Head(chan) \in Chunk /\ Tail(chan) \in Seq(Chunk)
    BY <1>5 DEF Receive, TypeOK
  <2>2. got' \in [Task -> Seq(Chunk)]
    <3>1. Head(chan).task \in Task
      BY <2>1 DEF Chunk
    <3>2. Append(got[Head(chan).task], Head(chan)) \in Seq(Chunk)
      BY <2>1, <3>1 DEF TypeOK
    <3> QED
      BY <1>5, <3>1, <3>2 DEF Receive, TypeOK
  <2> QED
    BY <1>5, <2>1, <2>2 DEF Receive, TypeOK, launcherVars, workerVars
<1>6. CASE ReceiveClosed
  BY <1>6 DEF ReceiveClosed, TypeOK, launcherVars, workerVars
<1>7. CASE Cancel
  BY <1>7 DEF Cancel, TypeOK, launcherVars, workerVars
<1>8. CASE Abandon
  BY <1>8 DEF Abandon, TypeOK, launcherVars, workerVars
<1>9. CASE UNCHANGED vars
  BY <1>9 DEF TypeOK, vars, launcherVars, workerVars, consumerVars
<1> QED
  BY <1>1, <1>2, <1>3, <1>4, <1>5, <1>6, <1>7, <1>8, <1>9 DEF Next, Finished

\* Every variable of the scan keeps its type, whatever the workers, the
\* consumer and the context do.
THEOREM TypeCorrect == Spec => []TypeOK
  BY TypeInit, TypeNext, PTL DEF Spec

-------------------------------------------------------------------------------
(* The channel is closed last. *)

\* The tasks launched are those before next.
LaunchedInOrder == \A t \in Task : worker[t] = "idle" <=> t >= next

\* close(chunks) runs behind the barrier of g.Wait.
ClosedBehindBarrier == closed => next = N + 1 /\ Active = {}

CloseInv == LaunchedInOrder /\ ClosedBehindBarrier

LEMMA CloseInit == Init => CloseInv
  BY DEF Init, CloseInv, LaunchedInOrder, ClosedBehindBarrier, Task

\* A worker's step moves no other worker, starts none and needs an active one.
LEMMA WorkerStep ==
    ASSUME TypeOK, NEW t \in Task, Worker(t)
    PROVE  /\ worker[t] \in {"running", "sending"}
           /\ worker'[t] \in {"running", "sending", "finished"}
           /\ \A u \in Task \ {t} : worker'[u] = worker[u]
           /\ UNCHANGED <<cred, next, closed>>
<1>1. CASE SkipFailedAccount(t)
  BY <1>1 DEF SkipFailedAccount, Offer, TypeOK, launcherVars
<1>2. CASE EmitPage(t)
  BY <1>2 DEF EmitPage, Offer, TypeOK, launcherVars
<1>3. CASE CollectSucceeds(t)
  BY <1>3 DEF CollectSucceeds, Offer, TypeOK, launcherVars
<1>4. CASE CollectFails(t)
  BY <1>4 DEF CollectFails, Offer, TypeOK, launcherVars
<1>5. CASE Send(t)
  BY <1>5 DEF Send, Resume, TypeOK, launcherVars
<1>6. CASE Drop(t)
  BY <1>6 DEF Drop, Resume, TypeOK, launcherVars
<1> QED
  BY <1>1, <1>2, <1>3, <1>4, <1>5, <1>6 DEF Worker

LEMMA CloseNext == TypeOK /\ CloseInv /\ [Next]_vars => CloseInv'
<1> SUFFICES ASSUME TypeOK, CloseInv, [Next]_vars PROVE CloseInv'
  OBVIOUS
<1> USE DEF CloseInv
<1>1. ASSUME NEW a \in Account, ResolveAccount(a) PROVE CloseInv'
  BY <1>1 DEF ResolveAccount, workerVars, LaunchedInOrder, ClosedBehindBarrier, Active
<1>2. CASE Launch
  <2>1. LaunchedInOrder'
    BY <1>2 DEF Launch, LaunchedInOrder, TypeOK, Task
  <2>2. ~closed'
    BY <1>2 DEF Launch, ClosedBehindBarrier, Task
  <2> QED
    BY <2>1, <2>2 DEF ClosedBehindBarrier
<1>3. CASE Close
  <2>1. next = N + 1
    BY <1>3 DEF Close, TypeOK, Task
  <2> QED
    BY <1>3, <2>1 DEF Close, workerVars, LaunchedInOrder, ClosedBehindBarrier, Active
<1>4. ASSUME NEW t \in Task, Worker(t) PROVE CloseInv'
  <2>1. LaunchedInOrder'
    BY <1>4, WorkerStep DEF LaunchedInOrder
  <2>2. ~closed'
    BY <1>4, WorkerStep DEF ClosedBehindBarrier, Active
  <2> QED
    BY <2>1, <2>2 DEF ClosedBehindBarrier
<1>5. CASE Receive \/ ReceiveClosed \/ Cancel \/ Abandon
  BY <1>5 DEF Receive, ReceiveClosed, Cancel, Abandon, launcherVars, workerVars,
              LaunchedInOrder, ClosedBehindBarrier, Active
<1>6. CASE UNCHANGED vars
  BY <1>6 DEF vars, launcherVars, workerVars, LaunchedInOrder, ClosedBehindBarrier, Active
<1> QED
  BY <1>1, <1>2, <1>3, <1>4, <1>5, <1>6 DEF Next, Finished

LEMMA CloseInvariant == Spec => []CloseInv
  BY CloseInit, CloseNext, TypeCorrect, PTL DEF Spec

\* StreamRun never closes the channel under a worker that could still send on
\* it, and never launches a worker afterwards.
THEOREM NoSendAfterClose == Spec => []CloseIsLast
<1>1. TypeOK /\ CloseInv => CloseIsLast
  <2> SUFFICES ASSUME TypeOK, CloseInv, closed, NEW t \in Task
               PROVE  worker[t] = "finished"
    BY DEF CloseIsLast
  <2>1. next = N + 1 /\ t \notin Active
    BY DEF CloseInv, ClosedBehindBarrier
  <2>2. worker[t] # "idle"
    BY <2>1 DEF CloseInv, LaunchedInOrder, Task
  <2> QED
    BY <2>1, <2>2 DEF Active, TypeOK
<1> QED
  BY <1>1, CloseInvariant, TypeCorrect, PTL

-------------------------------------------------------------------------------
(* Delivery: nothing is lost, duplicated or reordered within a task. *)

\* The chunk in send is the last one the worker built.
OutboxIsLast ==
    \A t \in Task : worker[t] = "sending" =>
      outbox[t].task = t /\ outbox[t].seq = made[t] /\ made[t] > 0

DeliveryInv == OutboxIsLast /\ NothingLost

LEMMA SentType == TypeOK /\ OutboxIsLast => \A t \in Task : Sent(t) \in Nat
  BY DEF TypeOK, OutboxIsLast, Sent

LEMMA DeliveryInit == Init => DeliveryInv
<1> SUFFICES ASSUME Init PROVE DeliveryInv
  OBVIOUS
<1>1. OutboxIsLast
  BY DEF Init, OutboxIsLast
<1>2. chan = <<>> /\ Len(chan) = 0
  BY DEF Init
<1>3. \A t \in Task : got[t] = <<>> /\ Len(got[t]) = 0 /\ Sent(t) = 0
  BY DEF Init, Sent
<1>4. NothingLost
  BY <1>2, <1>3 DEF NothingLost, GotIsPrefix, RestInChannel, RestInOrder
<1> QED
  BY <1>1, <1>4 DEF DeliveryInv

\* Steps that touch neither end of the channel preserve delivery.
LEMMA DeliveryFrame ==
    ASSUME DeliveryInv, UNCHANGED <<chan, got>>, cancelled => cancelled',
           OutboxIsLast', \A t \in Task : Sent(t)' = Sent(t)
    PROVE  DeliveryInv'
  BY DEF DeliveryInv, NothingLost, GotIsPrefix, RestInChannel, RestInOrder

\* Building a chunk: made grows and the chunk is in send, so Sent stays.
LEMMA DeliveryOffer ==
    ASSUME TypeOK, DeliveryInv, NEW t \in Task, NEW c,
           worker[t] = "running", Offer(t, c), c.task = t, c.seq = made[t] + 1,
           UNCHANGED <<chan, got, cancelled>>
    PROVE  DeliveryInv'
<1>1. OutboxIsLast'
  BY DEF DeliveryInv, OutboxIsLast, Offer, TypeOK
<1>2. \A u \in Task : Sent(u)' = Sent(u)
  BY DEF Sent, Offer, TypeOK
<1> QED
  BY <1>1, <1>2, DeliveryFrame

\* The end of send changes Sent of its task only.
LEMMA ResumeSent ==
    ASSUME TypeOK, OutboxIsLast, NEW t \in Task, worker[t] = "sending", Resume(t),
           made' = made
    PROVE  /\ OutboxIsLast'
           /\ Sent(t) = made[t] - 1 /\ Sent(t)' = made[t]
           /\ \A u \in Task \ {t} : Sent(u)' = Sent(u)
<1>1. OutboxIsLast'
  BY DEF OutboxIsLast, Resume, TypeOK
<1>2. Sent(t) = made[t] - 1 /\ Sent(t)' = made[t]
  BY DEF Sent, Resume, TypeOK
<1>3. \A u \in Task \ {t} : Sent(u)' = Sent(u)
  BY DEF Sent, Resume, TypeOK
<1> QED
  BY <1>1, <1>2, <1>3

LEMMA DeliverySend ==
    ASSUME TypeOK, DeliveryInv, NEW t \in Task, Send(t)
    PROVE  DeliveryInv'
<1> DEFINE c == outbox[t]
<1>1. /\ worker[t] = "sending" /\ Resume(t) /\ chan' = Append(chan, c)
      /\ UNCHANGED <<made, got, cancelled>>
  BY DEF Send, consumerVars
<1>2. c \in Chunk /\ c.task = t /\ c.seq = made[t] /\ made[t] \in Nat \ {0}
  BY <1>1 DEF TypeOK, DeliveryInv, OutboxIsLast
<1>3. /\ OutboxIsLast'
      /\ Sent(t) = made[t] - 1 /\ Sent(t)' = made[t]
      /\ \A u \in Task \ {t} : Sent(u)' = Sent(u)
  BY <1>1, ResumeSent DEF DeliveryInv
<1>4. /\ Len(chan) \in Nat /\ Len(chan') = Len(chan) + 1
      /\ \A i \in 1..Len(chan) : chan'[i] = chan[i]
      /\ chan'[Len(chan) + 1] = c
  BY <1>1, <1>2 DEF TypeOK
<1>5. \A u \in Task : Sent(u) \in Nat /\ Len(got[u]) \in Nat
  BY SentType DEF DeliveryInv, TypeOK
<1>6. ASSUME ~cancelled', NEW u \in Task
      PROVE  GotIsPrefix(u)' /\ RestInChannel(u)' /\ RestInOrder(u)'
  <2>1. GotIsPrefix(u) /\ RestInChannel(u) /\ RestInOrder(u)
    BY <1>1, <1>6 DEF DeliveryInv, NothingLost
  <2> HIDE DEF c
  <2>2. CASE u # t
    <3>1. Sent(u)' = Sent(u) /\ got' = got
      BY <1>1, <1>3, <2>2
    <3>2. GotIsPrefix(u)'
      BY <2>1, <3>1 DEF GotIsPrefix
    <3>0. \A i \in 1..Len(chan') :
            chan'[i].task = u => i \in 1..Len(chan) /\ chan'[i] = chan[i]
      BY <1>2, <1>4, <2>2
    <3>3. RestInChannel(u)'
      <4>1. \A n \in (Len(got[u]) + 1)..Sent(u) :
              \E i \in 1..Len(chan') : chan'[i].task = u /\ chan'[i].seq = n
        <5> TAKE n \in (Len(got[u]) + 1)..Sent(u)
        <5>1. PICK i \in 1..Len(chan) : chan[i].task = u /\ chan[i].seq = n
          BY <2>1 DEF RestInChannel
        <5> QED
          BY <1>4, <5>1
      <4>2. \A i \in 1..Len(chan') :
              chan'[i].task = u => chan'[i].seq \in (Len(got[u]) + 1)..Sent(u)
        BY <2>1, <3>0 DEF RestInChannel
      <4> QED
        BY <3>1, <4>1, <4>2 DEF RestInChannel
    <3>4. RestInOrder(u)'
      BY <2>1, <3>0 DEF RestInOrder
    <3> QED
      BY <3>2, <3>3, <3>4
  <2>3. CASE u = t
    <3>1. Sent(u) = made[t] - 1 /\ Sent(u)' = made[t] /\ got' = got
      BY <1>1, <1>3, <2>3
    <3>2. GotIsPrefix(u)'
      BY <1>2, <1>5, <2>1, <3>1 DEF GotIsPrefix
    <3>3. \A n \in (Len(got'[u]) + 1)..Sent(u)' :
             \E i \in 1..Len(chan') : chan'[i].task = u /\ chan'[i].seq = n
      <4> TAKE n \in (Len(got'[u]) + 1)..Sent(u)'
      <4>1. CASE n = made[t]
        BY <1>2, <1>4, <2>3, <4>1
      <4>2. CASE n # made[t]
        <5>1. n \in (Len(got[u]) + 1)..Sent(u)
          BY <1>2, <1>5, <3>1, <4>2
        <5>2. PICK i \in 1..Len(chan) : chan[i].task = u /\ chan[i].seq = n
          BY <2>1, <5>1 DEF RestInChannel
        <5> QED
          BY <1>4, <5>2
      <4> QED
        BY <4>1, <4>2
    <3>4. \A i \in 1..Len(chan') :
             chan'[i].task = u => chan'[i].seq \in (Len(got'[u]) + 1)..Sent(u)'
      <4> TAKE i \in 1..Len(chan')
      <4>1. CASE i = Len(chan) + 1
        BY <1>2, <1>4, <1>5, <2>1, <3>1, <4>1 DEF GotIsPrefix
      <4>2. CASE i # Len(chan) + 1
        <5>1. i \in 1..Len(chan) /\ chan'[i] = chan[i]
          BY <1>4, <4>2
        <5> QED
          BY <1>2, <1>5, <2>1, <3>1, <5>1 DEF RestInChannel
      <4> QED
        BY <4>1, <4>2
    <3>5. RestInOrder(u)'
      <4> SUFFICES ASSUME NEW i \in 1..Len(chan'), NEW j \in 1..Len(chan'),
                          i < j, chan'[i].task = u, chan'[j].task = u
                   PROVE  chan'[i].seq < chan'[j].seq
        BY DEF RestInOrder
      <4>1. i \in 1..Len(chan) /\ chan'[i] = chan[i]
        BY <1>4
      <4>2. CASE j = Len(chan) + 1
        <5>1. chan[i].seq \in (Len(got[u]) + 1)..Sent(u)
          BY <2>1, <4>1 DEF RestInChannel
        <5> QED
          BY <1>2, <1>4, <1>5, <3>1, <4>1, <4>2, <5>1
      <4>3. CASE j # Len(chan) + 1
        <5>1. j \in 1..Len(chan) /\ chan'[j] = chan[j]
          BY <1>4, <4>3
        <5> QED
          BY <2>1, <4>1, <5>1 DEF RestInOrder
      <4> QED
        BY <4>2, <4>3
    <3> QED
      BY <3>2, <3>3, <3>4, <3>5 DEF RestInChannel
  <2> QED
    BY <2>2, <2>3
<1> QED
  BY <1>3, <1>6 DEF DeliveryInv, NothingLost

\* The head of the channel is the next chunk of its task: an earlier one would
\* be somewhere behind it, against the order.
LEMMA HeadIsNext ==
    ASSUME TypeOK, DeliveryInv, ~cancelled, chan # <<>>
    PROVE  /\ Head(chan).task \in Task
           /\ Head(chan).seq = Len(got[Head(chan).task]) + 1
           /\ Head(chan).seq <= Sent(Head(chan).task)
<1> DEFINE h == Head(chan)  u == h.task
<1>1. h \in Chunk /\ h = chan[1] /\ 1 \in 1..Len(chan) /\ Len(chan) \in Nat
  BY DEF TypeOK
<1>2. u \in Task /\ h.seq \in Nat
  BY <1>1 DEF Chunk
<1>3. RestInChannel(u) /\ RestInOrder(u)
  BY <1>2 DEF DeliveryInv, NothingLost
<1>4. Sent(u) \in Nat /\ Len(got[u]) \in Nat
  BY <1>2, SentType DEF DeliveryInv, TypeOK
<1>5. h.seq \in (Len(got[u]) + 1)..Sent(u)
  BY <1>1, <1>3 DEF RestInChannel
<1>6. ASSUME h.seq # Len(got[u]) + 1 PROVE FALSE
  <2>1. Len(got[u]) + 1 \in (Len(got[u]) + 1)..Sent(u)
    BY <1>4, <1>5
  <2>2. PICK i \in 1..Len(chan) : chan[i].task = u /\ chan[i].seq = Len(got[u]) + 1
    BY <1>3, <2>1 DEF RestInChannel
  <2>3. i # 1
    BY <1>1, <1>6, <2>2
  <2>4. chan[1].seq < chan[i].seq
    BY <1>1, <1>3, <2>2, <2>3 DEF RestInOrder
  <2> QED
    BY <1>1, <1>4, <1>5, <2>2, <2>4
<1> QED
  BY <1>2, <1>4, <1>5, <1>6

LEMMA DeliveryReceive ==
    ASSUME TypeOK, DeliveryInv, Receive
    PROVE  DeliveryInv'
<1> DEFINE h == Head(chan)
<1>1. /\ chan # <<>> /\ chan' = Tail(chan)
      /\ got' = [got EXCEPT ![h.task] = Append(@, h)]
      /\ UNCHANGED <<worker, outbox, made, cancelled>>
  BY DEF Receive, workerVars
<1>2. OutboxIsLast' /\ \A u \in Task : Sent(u)' = Sent(u)
  BY <1>1 DEF DeliveryInv, OutboxIsLast, Sent
<1>3. /\ Len(chan) \in Nat \ {0} /\ Len(chan') = Len(chan) - 1
      /\ \A i \in 1..Len(chan') : i + 1 \in 1..Len(chan) /\ chan'[i] = chan[i + 1]
      /\ h = chan[1] /\ h \in Chunk
  BY <1>1 DEF TypeOK
<1>4. \A u \in Task : Sent(u) \in Nat /\ Len(got[u]) \in Nat
  BY SentType DEF DeliveryInv, TypeOK
<1>5. ASSUME ~cancelled', NEW u \in Task
      PROVE  GotIsPrefix(u)' /\ RestInChannel(u)' /\ RestInOrder(u)'
  <2>1. GotIsPrefix(u) /\ RestInChannel(u) /\ RestInOrder(u)
    BY <1>1, <1>5 DEF DeliveryInv, NothingLost
  <2>2. h.task \in Task /\ h.seq = Len(got[h.task]) + 1 /\ h.seq <= Sent(h.task)
    BY <1>1, <1>5, HeadIsNext
  <2> HIDE DEF h
  <2>3. RestInOrder(u)'
    <3> SUFFICES ASSUME NEW i \in 1..Len(chan'), NEW j \in 1..Len(chan'),
                        i < j, chan'[i].task = u, chan'[j].task = u
                 PROVE  chan'[i].seq < chan'[j].seq
      BY DEF RestInOrder
    <3>1. i + 1 \in 1..Len(chan) /\ j + 1 \in 1..Len(chan) /\ i + 1 < j + 1
      BY <1>3
    <3>2. chan'[i] = chan[i + 1] /\ chan'[j] = chan[j + 1]
      BY <1>3
    <3> QED
      BY <2>1, <3>1, <3>2 DEF RestInOrder
  <2>4. CASE u # h.task
    <3>1. got'[u] = got[u] /\ Sent(u)' = Sent(u)
      BY <1>1, <1>2, <2>4 DEF TypeOK
    <3>2. GotIsPrefix(u)'
      BY <2>1, <3>1 DEF GotIsPrefix
    <3>3. \A n \in (Len(got[u]) + 1)..Sent(u) :
            \E i \in 1..Len(chan') : chan'[i].task = u /\ chan'[i].seq = n
      <4> TAKE n \in (Len(got[u]) + 1)..Sent(u)
      <4>1. PICK i \in 1..Len(chan) : chan[i].task = u /\ chan[i].seq = n
        BY <2>1 DEF RestInChannel
      <4>2. i # 1
        BY <1>3, <2>4, <4>1
      <4>3. i - 1 \in 1..Len(chan') /\ chan'[i - 1] = chan[i]
        BY <1>3, <4>1, <4>2
      <4> QED
        BY <4>1, <4>3
    <3>4. \A i \in 1..Len(chan') :
            chan'[i].task = u => chan'[i].seq \in (Len(got[u]) + 1)..Sent(u)
      BY <1>3, <2>1 DEF RestInChannel
    <3> QED
      BY <2>3, <3>1, <3>2, <3>3, <3>4 DEF RestInChannel
  <2>5. CASE u = h.task
    <3>1. /\ got[u] \in Seq(Chunk) /\ got'[u] = Append(got[u], h)
          /\ Sent(u)' = Sent(u)
      BY <1>1, <1>2, <2>5 DEF TypeOK
    <3>2. /\ Len(got'[u]) = Len(got[u]) + 1
          /\ \A i \in 1..Len(got[u]) : got'[u][i] = got[u][i]
          /\ got'[u][Len(got[u]) + 1] = h
      BY <1>3, <3>1
    <3>3. GotIsPrefix(u)'
      BY <1>4, <2>1, <2>2, <2>5, <3>1, <3>2 DEF GotIsPrefix
    <3>4. \A n \in (Len(got'[u]) + 1)..Sent(u) :
            \E i \in 1..Len(chan') : chan'[i].task = u /\ chan'[i].seq = n
      <4> TAKE n \in (Len(got'[u]) + 1)..Sent(u)
      <4>1. n \in (Len(got[u]) + 1)..Sent(u) /\ n # Len(got[u]) + 1
        BY <1>4, <3>2
      <4>2. PICK i \in 1..Len(chan) : chan[i].task = u /\ chan[i].seq = n
        BY <2>1, <4>1 DEF RestInChannel
      <4>3. i # 1
        BY <1>3, <2>2, <2>5, <4>1, <4>2
      <4>4. i - 1 \in 1..Len(chan') /\ chan'[i - 1] = chan[i]
        BY <1>3, <4>2, <4>3
      <4> QED
        BY <4>2, <4>4
    <3>5. \A i \in 1..Len(chan') :
            chan'[i].task = u => chan'[i].seq \in (Len(got'[u]) + 1)..Sent(u)
      <4> SUFFICES ASSUME NEW i \in 1..Len(chan'), chan'[i].task = u
                   PROVE  chan'[i].seq \in (Len(got'[u]) + 1)..Sent(u)
        OBVIOUS
      <4>1. i + 1 \in 1..Len(chan) /\ chan'[i] = chan[i + 1] /\ 1 < i + 1
        BY <1>3
      <4>2. chan[i + 1].seq \in (Len(got[u]) + 1)..Sent(u)
        BY <2>1, <4>1 DEF RestInChannel
      <4>3. 1 \in 1..Len(chan) /\ chan[1].seq < chan[i + 1].seq
        BY <1>3, <2>1, <2>5, <4>1 DEF RestInOrder
      <4> QED
        BY <1>3, <1>4, <2>2, <2>5, <3>2, <4>1, <4>2, <4>3
    <3> QED
      BY <2>3, <3>1, <3>3, <3>4, <3>5 DEF RestInChannel
  <2> QED
    BY <2>4, <2>5
<1> QED
  BY <1>2, <1>5 DEF DeliveryInv, NothingLost

LEMMA DeliveryNext == TypeOK /\ CloseInv /\ DeliveryInv /\ [Next]_vars => DeliveryInv'
<1> SUFFICES ASSUME TypeOK, CloseInv, DeliveryInv, [Next]_vars PROVE DeliveryInv'
  OBVIOUS
<1>1. ASSUME UNCHANGED <<worker, outbox, made, chan, got>>, cancelled => cancelled'
      PROVE  DeliveryInv'
  BY <1>1, DeliveryFrame DEF DeliveryInv, OutboxIsLast, Sent
<1>2. ASSUME NEW a \in Account, ResolveAccount(a) PROVE DeliveryInv'
  BY <1>1, <1>2 DEF ResolveAccount, workerVars, consumerVars
<1>3. CASE Launch
  <2>1. next \in Task /\ UNCHANGED <<outbox, made, chan, got, cancelled>>
    BY <1>3 DEF Launch, consumerVars
  <2>2. worker' = [worker EXCEPT ![next] = "running"]
    BY <1>3 DEF Launch
  <2>3. worker[next] = "idle"
    BY <2>1 DEF CloseInv, LaunchedInOrder, Task
  <2>4. OutboxIsLast'
    BY <2>1, <2>2 DEF DeliveryInv, OutboxIsLast, TypeOK
  <2>5. \A t \in Task : Sent(t)' = Sent(t)
    BY <2>1, <2>2, <2>3 DEF Sent, TypeOK
  <2> QED
    BY <2>1, <2>4, <2>5, DeliveryFrame
<1>4. ASSUME NEW t \in Task, Worker(t) PROVE DeliveryInv'
  <2>1. CASE SkipFailedAccount(t)
    <3> DEFINE c == Marker(t, made[t] + 1, FALSE,
                           IF Owner[t] \in reported THEN "none" ELSE "account", FALSE)
    <3>1. /\ worker[t] = "running" /\ Offer(t, c)
          /\ UNCHANGED <<chan, got, cancelled>>
      BY <2>1 DEF SkipFailedAccount, consumerVars
    <3>2. c.task = t /\ c.seq = made[t] + 1
      BY DEF Marker
    <3> QED
      BY <3>1, <3>2, DeliveryOffer
  <2>2. CASE EmitPage(t)
    <3>1. /\ worker[t] = "running" /\ Offer(t, Page(t, made[t] + 1))
          /\ UNCHANGED <<chan, got, cancelled>>
      BY <2>2 DEF EmitPage, consumerVars
    <3>2. Page(t, made[t] + 1).task = t /\ Page(t, made[t] + 1).seq = made[t] + 1
      BY DEF Page
    <3> QED
      BY <3>1, <3>2, DeliveryOffer
  <2>3. CASE CollectSucceeds(t)
    <3>1. PICK data \in BOOLEAN : Offer(t, Marker(t, made[t] + 1, data, "none", FALSE))
      BY <2>3 DEF CollectSucceeds
    <3> DEFINE c == Marker(t, made[t] + 1, data, "none", FALSE)
    <3>2. worker[t] = "running" /\ UNCHANGED <<chan, got, cancelled>>
      BY <2>3 DEF CollectSucceeds, consumerVars
    <3>3. c.task = t /\ c.seq = made[t] + 1
      BY DEF Marker
    <3> QED
      BY <3>1, <3>2, <3>3, DeliveryOffer
  <2>4. CASE CollectFails(t)
    <3>1. PICK data \in BOOLEAN :
            Offer(t, Marker(t, made[t] + 1, data, "collect", data \/ emitted[t] > 0))
      BY <2>4 DEF CollectFails
    <3> DEFINE c == Marker(t, made[t] + 1, data, "collect", data \/ emitted[t] > 0)
    <3>2. worker[t] = "running" /\ UNCHANGED <<chan, got, cancelled>>
      BY <2>4 DEF CollectFails, consumerVars
    <3>3. c.task = t /\ c.seq = made[t] + 1
      BY DEF Marker
    <3> QED
      BY <3>1, <3>2, <3>3, DeliveryOffer
  <2>5. CASE Send(t)
    BY <2>5, DeliverySend
  <2>6. CASE Drop(t)
    <3>1. worker[t] = "sending" /\ cancelled' /\ Resume(t) /\ made' = made
      BY <2>6 DEF Drop, consumerVars
    <3>2. OutboxIsLast'
      BY <3>1, ResumeSent DEF DeliveryInv
    <3> QED
      BY <3>1, <3>2 DEF DeliveryInv, NothingLost
  <2> QED
    BY <1>4, <2>1, <2>2, <2>3, <2>4, <2>5, <2>6 DEF Worker
<1>5. CASE Receive
  BY <1>5, DeliveryReceive
<1>6. CASE Close \/ ReceiveClosed \/ Cancel \/ Abandon \/ UNCHANGED vars
  BY <1>1, <1>6 DEF Close, ReceiveClosed, Cancel, Abandon, vars, workerVars, consumerVars
<1> QED
  BY <1>2, <1>3, <1>4, <1>5, <1>6 DEF Next, Finished

\* Every chunk a worker hands over reaches the consumer once, in the order it
\* was built, unless the scan is cancelled.
THEOREM DeliveryIsExact == Spec => []NothingLost
<1>1. Spec => []DeliveryInv
  BY DeliveryInit, DeliveryNext, TypeCorrect, CloseInvariant, PTL DEF Spec
<1> QED
  BY <1>1, PTL DEF DeliveryInv

-------------------------------------------------------------------------------
(* Chunks on their way. *)

InChan(t) == {chan[i] : i \in {j \in 1..Len(chan) : chan[j].task = t}}
Received(t) == {got[t][i] : i \in 1..Len(got[t])}

\* The chunks of task t that are not dropped: in send, in the channel, received.
Held(t) ==
    (IF worker[t] = "sending" THEN {outbox[t]} ELSE {}) \union InChan(t) \union Received(t)

LEMMA HeldType ==
    ASSUME TypeOK, NEW t \in Task
    PROVE  Held(t) \subseteq Chunk
<1>1. \A i \in 1..Len(chan) : chan[i] \in Chunk
  BY DEF TypeOK
<1>2. got[t] \in Seq(Chunk)
  BY DEF TypeOK
<1>3. \A i \in 1..Len(got[t]) : got[t][i] \in Chunk
  BY <1>2
<1> QED
  BY <1>1, <1>3 DEF Held, InChan, Received, TypeOK

LEMMA HeldFrame ==
    ASSUME UNCHANGED <<worker, outbox, chan, got>>, NEW t \in Task
    PROVE  Held(t)' = Held(t)
  BY DEF Held, InChan, Received

LEMMA HeldOffer ==
    ASSUME TypeOK, NEW t \in Task, NEW c, worker[t] = "running", Offer(t, c),
           UNCHANGED <<chan, got>>
    PROVE  /\ Held(t)' = Held(t) \union {c}
           /\ \A u \in Task \ {t} : Held(u)' = Held(u)
<1>1. worker'[t] = "sending" /\ outbox'[t] = c
  BY DEF Offer, TypeOK
<1>2. \A u \in Task \ {t} : worker'[u] = worker[u] /\ outbox'[u] = outbox[u]
  BY DEF Offer, TypeOK
<1>3. \A u \in Task : InChan(u)' = InChan(u) /\ Received(u)' = Received(u)
  BY DEF InChan, Received
<1> QED
  BY <1>1, <1>2, <1>3 DEF Held

LEMMA ResumeWorker ==
    ASSUME TypeOK, NEW t \in Task, worker[t] = "sending", Resume(t)
    PROVE  /\ worker'[t] = IF outbox[t].final THEN "finished" ELSE "running"
           /\ \A u \in Task \ {t} : worker'[u] = worker[u] /\ outbox'[u] = outbox[u]
  BY DEF Resume, TypeOK

LEMMA HeldSend ==
    ASSUME TypeOK, DeliveryInv, NEW t \in Task, Send(t), NEW u \in Task
    PROVE  Held(u)' = Held(u)
<1> DEFINE c == outbox[t]
<1>1. worker[t] = "sending" /\ Resume(t) /\ chan' = Append(chan, c) /\ got' = got
  BY DEF Send, consumerVars
<1>2. c \in Chunk /\ c.task = t
  BY <1>1 DEF TypeOK, DeliveryInv, OutboxIsLast
<1>3. /\ Len(chan) \in Nat /\ Len(chan') = Len(chan) + 1
      /\ \A i \in 1..Len(chan) : chan'[i] = chan[i]
      /\ chan'[Len(chan) + 1] = c
  BY <1>1, <1>2 DEF TypeOK
<1> HIDE DEF c
<1>4. Received(u)' = Received(u)
  BY <1>1 DEF Received
<1>5. InChan(u)' = InChan(u) \union (IF u = t THEN {c} ELSE {})
  <2>1. \A i \in 1..Len(chan') : i \in 1..Len(chan) \/ i = Len(chan) + 1
    BY <1>3
  <2>2. \A i \in 1..Len(chan) : i \in 1..Len(chan')
    BY <1>3
  <2>3. Len(chan) + 1 \in 1..Len(chan')
    BY <1>3
  <2>4. ASSUME NEW x \in InChan(u)' PROVE x \in InChan(u) \union (IF u = t THEN {c} ELSE {})
    <3>1. PICK i \in 1..Len(chan') : chan'[i].task = u /\ x = chan'[i]
      BY <2>4 DEF InChan
    <3>2. CASE i \in 1..Len(chan)
      BY <1>3, <3>1, <3>2 DEF InChan
    <3>3. CASE i = Len(chan) + 1
      BY <1>2, <1>3, <3>1, <3>3
    <3> QED
      BY <2>1, <3>2, <3>3
  <2>5. ASSUME NEW x \in InChan(u) PROVE x \in InChan(u)'
    BY <1>3, <2>2, <2>5 DEF InChan
  <2>6. u = t => c \in InChan(u)'
    BY <1>2, <1>3, <2>3 DEF InChan
  <2> QED
    BY <2>4, <2>5, <2>6
<1>6. worker'[t] # "sending"
  BY <1>1, ResumeWorker
<1>7. u # t => worker'[u] = worker[u] /\ outbox'[u] = outbox[u]
  BY <1>1, ResumeWorker
<1> QED
  BY <1>1, <1>4, <1>5, <1>6, <1>7 DEF Held, c

LEMMA HeldDrop ==
    ASSUME TypeOK, NEW t \in Task, Drop(t), NEW u \in Task
    PROVE  Held(u)' \subseteq Held(u)
<1>1. worker[t] = "sending" /\ Resume(t) /\ chan' = chan /\ got' = got
  BY DEF Drop, consumerVars
<1>2. InChan(u)' = InChan(u) /\ Received(u)' = Received(u)
  BY <1>1 DEF InChan, Received
<1>3. worker'[t] # "sending"
  BY <1>1, ResumeWorker
<1>4. u # t => worker'[u] = worker[u] /\ outbox'[u] = outbox[u]
  BY <1>1, ResumeWorker
<1> QED
  BY <1>2, <1>3, <1>4 DEF Held

\* The chunk that is received.
LEMMA ReceiveHead ==
    ASSUME TypeOK, Receive
    PROVE  LET h == Head(chan) IN
           /\ h \in Chunk /\ h.task \in Task
           /\ Len(chan) \in Nat \ {0} /\ h = chan[1] /\ Len(chan') = Len(chan) - 1
           /\ \A i \in 1..Len(chan') : i + 1 \in 1..Len(chan) /\ chan'[i] = chan[i + 1]
           /\ \A u \in Task \ {h.task} : got'[u] = got[u]
           /\ Len(got[h.task]) \in Nat
           /\ got'[h.task] = Append(got[h.task], h)
           /\ Len(got'[h.task]) = Len(got[h.task]) + 1
           /\ \A i \in 1..Len(got[h.task]) : got'[h.task][i] = got[h.task][i]
           /\ got'[h.task][Len(got[h.task]) + 1] = h
<1> DEFINE h == Head(chan)
<1>1. /\ chan # <<>> /\ chan' = Tail(chan)
      /\ got' = [got EXCEPT ![h.task] = Append(@, h)]
  BY DEF Receive
<1>2. /\ Len(chan) \in Nat \ {0} /\ Len(chan') = Len(chan) - 1
      /\ \A i \in 1..Len(chan') : i + 1 \in 1..Len(chan) /\ chan'[i] = chan[i + 1]
      /\ h = chan[1] /\ h \in Chunk
  BY <1>1 DEF TypeOK
<1>3. h.task \in Task
  BY <1>2 DEF Chunk
<1> HIDE DEF h
<1>4. /\ \A u \in Task \ {h.task} : got'[u] = got[u]
      /\ got[h.task] \in Seq(Chunk)
      /\ got'[h.task] = Append(got[h.task], h)
  BY <1>1, <1>3 DEF TypeOK
<1>5. /\ Len(got[h.task]) \in Nat
      /\ Len(got'[h.task]) = Len(got[h.task]) + 1
      /\ \A i \in 1..Len(got[h.task]) : got'[h.task][i] = got[h.task][i]
      /\ got'[h.task][Len(got[h.task]) + 1] = h
  BY <1>2, <1>4
<1> QED
  BY <1>2, <1>3, <1>4, <1>5 DEF h

LEMMA HeldReceive ==
    ASSUME TypeOK, Receive, NEW u \in Task
    PROVE  Held(u)' = Held(u)
<1> DEFINE h == Head(chan)
<1>1. /\ h \in Chunk /\ h.task \in Task
      /\ Len(chan) \in Nat \ {0} /\ h = chan[1] /\ Len(chan') = Len(chan) - 1
      /\ \A i \in 1..Len(chan') : i + 1 \in 1..Len(chan) /\ chan'[i] = chan[i + 1]
      /\ \A v \in Task \ {h.task} : got'[v] = got[v]
      /\ Len(got[h.task]) \in Nat
      /\ Len(got'[h.task]) = Len(got[h.task]) + 1
      /\ \A i \in 1..Len(got[h.task]) : got'[h.task][i] = got[h.task][i]
      /\ got'[h.task][Len(got[h.task]) + 1] = h
  BY ReceiveHead
<1>2. UNCHANGED <<worker, outbox>>
  BY DEF Receive, workerVars
<1> HIDE DEF h
<1>3. Received(u)' = Received(u) \union (IF u = h.task THEN {h} ELSE {})
  <2>1. CASE u # h.task
    BY <1>1, <2>1 DEF Received
  <2>2. CASE u = h.task
    <3>0. /\ Len(got[u]) \in Nat
          /\ Len(got'[u]) = Len(got[u]) + 1
          /\ \A i \in 1..Len(got[u]) : got'[u][i] = got[u][i]
          /\ got'[u][Len(got[u]) + 1] = h
      BY <1>1, <2>2
    <3>1. \A i \in 1..Len(got'[u]) : i \in 1..Len(got[u]) \/ i = Len(got[u]) + 1
      BY <1>1, <2>2
    <3>2. \A i \in 1..Len(got[u]) : i \in 1..Len(got'[u])
      BY <1>1, <2>2
    <3>3. Len(got[u]) + 1 \in 1..Len(got'[u])
      BY <1>1, <2>2
    <3>4. Received(u)' \subseteq Received(u) \union {h}
      BY <3>0, <3>1 DEF Received
    <3>5. Received(u) \subseteq Received(u)'
      BY <3>0, <3>2 DEF Received
    <3>6. h \in Received(u)'
      BY <3>0, <3>3 DEF Received
    <3> QED
      BY <2>2, <3>4, <3>5, <3>6
  <2> QED
    BY <2>1, <2>2
<1>4. InChan(u) = InChan(u)' \union (IF u = h.task THEN {h} ELSE {})
  <2>1. 1 \in 1..Len(chan)
    BY <1>1
  <2>2. \A i \in 1..Len(chan) : i = 1 \/ (i - 1 \in 1..Len(chan') /\ chan'[i - 1] = chan[i])
    BY <1>1
  <2>3. InChan(u)' \subseteq InChan(u)
    BY <1>1 DEF InChan
  <2>4. u = h.task => h \in InChan(u)
    BY <1>1, <2>1 DEF InChan
  <2>5. ASSUME NEW x \in InChan(u) PROVE x \in InChan(u)' \/ (u = h.task /\ x = h)
    <3>1. PICK i \in 1..Len(chan) : chan[i].task = u /\ x = chan[i]
      BY DEF InChan
    <3>2. CASE i = 1
      BY <1>1, <3>1, <3>2
    <3>3. CASE i # 1
      BY <2>2, <3>1, <3>3 DEF InChan
    <3> QED
      BY <3>2, <3>3
  <2> QED
    BY <2>3, <2>4, <2>5
<1> QED
  BY <1>2, <1>3, <1>4 DEF Held

-------------------------------------------------------------------------------
(* Order, also of a cancelled scan. *)

\* Whatever was dropped, the chunks of a task arrive in the order they were built.
InOrder(t) ==
    /\ \A i \in 1..Len(got[t]) : got[t][i].seq \in 1..Sent(t)
    /\ \A i \in 1..Len(chan) : chan[i].task = t => chan[i].seq \in 1..Sent(t)
    /\ RestInOrder(t)
    /\ \A i \in 1..Len(got[t]), j \in 1..Len(chan) :
         chan[j].task = t => got[t][i].seq < chan[j].seq

OrderInv == \A t \in Task : InOrder(t)

LEMMA OrderInit == Init => OrderInv
<1> SUFFICES ASSUME Init, NEW t \in Task PROVE InOrder(t)
  BY DEF OrderInv
<1>1. Len(chan) = 0 /\ Len(got[t]) = 0
  BY DEF Init
<1> QED
  BY <1>1 DEF InOrder, RestInOrder

LEMMA OrderFrame ==
    ASSUME OrderInv, UNCHANGED <<chan, got>>,
           \A t \in Task : Sent(t) \in Nat /\ Sent(t)' \in Nat /\ Sent(t) <= Sent(t)'
    PROVE  OrderInv'
<1> SUFFICES ASSUME NEW t \in Task PROVE InOrder(t)'
  BY DEF OrderInv
<1>1. InOrder(t) /\ 1..Sent(t) \subseteq 1..Sent(t)'
  BY DEF OrderInv
<1> QED
  BY <1>1 DEF InOrder, RestInOrder

LEMMA OrderSend ==
    ASSUME TypeOK, DeliveryInv, OrderInv, NEW t \in Task, Send(t)
    PROVE  OrderInv'
<1> DEFINE c == outbox[t]
<1>1. worker[t] = "sending" /\ Resume(t) /\ chan' = Append(chan, c) /\ UNCHANGED <<made, got>>
  BY DEF Send, consumerVars
<1>2. c \in Chunk /\ c.task = t /\ c.seq = made[t] /\ made[t] \in Nat \ {0}
  BY <1>1 DEF TypeOK, DeliveryInv, OutboxIsLast
<1>3. /\ Sent(t) = made[t] - 1 /\ Sent(t)' = made[t]
      /\ \A u \in Task \ {t} : Sent(u)' = Sent(u)
  BY <1>1, ResumeSent DEF DeliveryInv
<1>4. /\ Len(chan) \in Nat /\ Len(chan') = Len(chan) + 1
      /\ \A i \in 1..Len(chan) : chan'[i] = chan[i]
      /\ chan'[Len(chan) + 1] = c
  BY <1>1, <1>2 DEF TypeOK
<1>5. \A i \in 1..Len(chan') :
        \/ i \in 1..Len(chan) /\ chan'[i] = chan[i]
        \/ i = Len(chan) + 1 /\ chan'[i] = c
  BY <1>4
<1> SUFFICES ASSUME NEW u \in Task PROVE InOrder(u)'
  BY DEF OrderInv
<1>6. InOrder(u) /\ Sent(u) \in Nat
  BY SentType DEF OrderInv, DeliveryInv
<1> HIDE DEF c
<1>7. CASE u # t
  <2>1. /\ Sent(u)' = Sent(u)
        /\ \A i \in 1..Len(chan') : chan'[i].task = u => i \in 1..Len(chan) /\ chan'[i] = chan[i]
    BY <1>2, <1>3, <1>5, <1>7
  <2> QED
    BY <1>1, <1>6, <2>1 DEF InOrder, RestInOrder
<1>8. CASE u = t
  <2>1. /\ Sent(u)' = made[t] /\ Sent(u) = made[t] - 1
        /\ \A n \in 1..Sent(u) : n \in 1..Sent(u)' /\ n < made[t]
    BY <1>2, <1>3, <1>8
  <2>2. \A i \in 1..Len(got'[u]) : got'[u][i].seq \in 1..Sent(u)' /\ got'[u][i].seq < made[t]
    BY <1>1, <1>6, <2>1 DEF InOrder
  <2>3. \A i \in 1..Len(chan) : chan[i].task = u =>
          chan[i].seq \in 1..Sent(u)' /\ chan[i].seq < made[t]
    BY <1>6, <2>1 DEF InOrder
  <2>4. \A i \in 1..Len(chan') : chan'[i].task = u => chan'[i].seq \in 1..Sent(u)'
    <3>1. made[t] \in 1..Sent(u)'
      BY <1>2, <2>1
    <3> QED
      BY <1>2, <1>5, <2>3, <3>1
  <2>5. RestInOrder(u)'
    <3> SUFFICES ASSUME NEW i \in 1..Len(chan'), NEW j \in 1..Len(chan'),
                        i < j, chan'[i].task = u, chan'[j].task = u
                 PROVE  chan'[i].seq < chan'[j].seq
      BY DEF RestInOrder
    <3>1. i \in 1..Len(chan) /\ chan'[i] = chan[i]
      BY <1>4
    <3>2. CASE j \in 1..Len(chan) /\ chan'[j] = chan[j]
      BY <1>6, <3>1, <3>2 DEF InOrder, RestInOrder
    <3>3. CASE j = Len(chan) + 1 /\ chan'[j] = c
      BY <1>2, <2>3, <3>1, <3>3
    <3> QED
      BY <1>5, <3>2, <3>3
  <2>6. \A i \in 1..Len(got'[u]), j \in 1..Len(chan') :
          chan'[j].task = u => got'[u][i].seq < chan'[j].seq
    BY <1>1, <1>2, <1>5, <1>6, <2>2 DEF InOrder
  <2> QED
    BY <2>2, <2>4, <2>5, <2>6 DEF InOrder
<1> QED
  BY <1>7, <1>8

LEMMA OrderReceive ==
    ASSUME TypeOK, OrderInv, Receive
    PROVE  OrderInv'
<1> DEFINE h == Head(chan)
<1>1. /\ h \in Chunk /\ h.task \in Task
      /\ Len(chan) \in Nat \ {0} /\ h = chan[1] /\ Len(chan') = Len(chan) - 1
      /\ \A i \in 1..Len(chan') : i + 1 \in 1..Len(chan) /\ chan'[i] = chan[i + 1]
      /\ \A v \in Task \ {h.task} : got'[v] = got[v]
      /\ Len(got[h.task]) \in Nat
      /\ Len(got'[h.task]) = Len(got[h.task]) + 1
      /\ \A i \in 1..Len(got[h.task]) : got'[h.task][i] = got[h.task][i]
      /\ got'[h.task][Len(got[h.task]) + 1] = h
  BY ReceiveHead
<1> HIDE DEF h
<1> SUFFICES ASSUME NEW u \in Task PROVE InOrder(u)'
  BY DEF OrderInv
<1>2. InOrder(u) /\ Sent(u)' = Sent(u)
  BY DEF OrderInv, Receive, workerVars, Sent
<1>3. RestInOrder(u)'
  <2> SUFFICES ASSUME NEW i \in 1..Len(chan'), NEW j \in 1..Len(chan'),
                      i < j, chan'[i].task = u, chan'[j].task = u
               PROVE  chan'[i].seq < chan'[j].seq
    BY DEF RestInOrder
  <2>1. i + 1 \in 1..Len(chan) /\ j + 1 \in 1..Len(chan) /\ i + 1 < j + 1
    BY <1>1
  <2>2. chan'[i] = chan[i + 1] /\ chan'[j] = chan[j + 1]
    BY <1>1
  <2> QED
    BY <1>2, <2>1, <2>2 DEF InOrder, RestInOrder
<1>4. \A i \in 1..Len(chan') : chan'[i].task = u => chan'[i].seq \in 1..Sent(u)'
  BY <1>1, <1>2 DEF InOrder
<1>5. 1 \in 1..Len(chan)
  BY <1>1
<1>6. CASE u # h.task
  <2>1. got'[u] = got[u]
    BY <1>1, <1>6
  <2>2. ASSUME NEW i \in 1..Len(got[u]), NEW j \in 1..Len(chan'), chan'[j].task = u
        PROVE  got[u][i].seq < chan'[j].seq
    <3>1. j + 1 \in 1..Len(chan) /\ chan'[j] = chan[j + 1]
      BY <1>1
    <3> QED
      BY <1>2, <2>2, <3>1 DEF InOrder
  <2> QED
    BY <1>2, <1>3, <1>4, <2>1, <2>2 DEF InOrder
<1>7. CASE u = h.task
  <2>1. \A i \in 1..Len(got'[u]) : \/ i \in 1..Len(got[u]) /\ got'[u][i] = got[u][i]
                                   \/ got'[u][i] = h
    BY <1>1, <1>7
  <2>2. h.seq \in 1..Sent(u)
    BY <1>1, <1>2, <1>5, <1>7 DEF InOrder
  <2>3. \A i \in 1..Len(got'[u]) : got'[u][i].seq \in 1..Sent(u)'
    BY <1>2, <2>1, <2>2 DEF InOrder
  <2>4. ASSUME NEW i \in 1..Len(got'[u]), NEW j \in 1..Len(chan'), chan'[j].task = u
        PROVE  got'[u][i].seq < chan'[j].seq
    <3>1. /\ j + 1 \in 1..Len(chan) /\ chan'[j] = chan[j + 1] /\ 1 < j + 1
      BY <1>1
    <3>2. h.seq < chan[j + 1].seq
      BY <1>1, <1>2, <1>5, <1>7, <2>4, <3>1 DEF InOrder, RestInOrder
    <3> QED
      BY <1>2, <2>1, <2>4, <3>1, <3>2 DEF InOrder
  <2> QED
    BY <1>3, <1>4, <2>3, <2>4 DEF InOrder
<1> QED
  BY <1>6, <1>7

\* Steps other than the two ends of the channel do not take Sent back.
LEMMA SentGrows ==
    ASSUME TypeOK, CloseInv, DeliveryInv, [Next]_vars, ~Receive, \A t \in Task : ~Send(t),
           NEW u \in Task
    PROVE  UNCHANGED <<chan, got>> /\ Sent(u) <= Sent(u)'
<1>0. Sent(u) \in Nat
  BY SentType DEF DeliveryInv
<1>1. CASE UNCHANGED <<worker, made, chan, got>>
  BY <1>0, <1>1 DEF Sent
<1>2. CASE Launch
  <2>1. next \in Task /\ worker[next] = "idle"
    BY <1>2 DEF Launch, CloseInv, LaunchedInOrder, Task
  <2> QED
    BY <1>0, <1>2, <2>1 DEF Launch, consumerVars, Sent, TypeOK
<1>3. ASSUME NEW t \in Task, NEW c, worker[t] = "running", Offer(t, c), UNCHANGED <<chan, got>>
      PROVE  Sent(u) <= Sent(u)'
  <2>1. Sent(u)' = Sent(u)
    BY <1>3 DEF Sent, Offer, TypeOK
  <2> QED
    BY <1>0, <2>1
<1>4. ASSUME NEW t \in Task, Worker(t) PROVE UNCHANGED <<chan, got>> /\ Sent(u) <= Sent(u)'
  <2>1. CASE Drop(t)
    <3>1. /\ Sent(t) = made[t] - 1 /\ Sent(t)' = made[t] /\ made[t] \in Nat
          /\ \A v \in Task \ {t} : Sent(v)' = Sent(v)
      BY <2>1, ResumeSent DEF Drop, DeliveryInv, TypeOK
    <3> QED
      BY <1>0, <2>1, <3>1 DEF Drop, consumerVars
  <2>2. CASE SkipFailedAccount(t)
    BY <1>3, <2>2 DEF SkipFailedAccount, consumerVars
  <2>3. CASE EmitPage(t)
    BY <1>3, <2>3 DEF EmitPage, consumerVars
  <2>4. CASE CollectSucceeds(t)
    BY <1>3, <2>4 DEF CollectSucceeds, consumerVars
  <2>5. CASE CollectFails(t)
    BY <1>3, <2>5 DEF CollectFails, consumerVars
  <2> QED
    BY <1>4, <2>1, <2>2, <2>3, <2>4, <2>5 DEF Worker
<1>5. CASE \/ \E a \in Account : ResolveAccount(a)
           \/ Close \/ ReceiveClosed \/ Cancel \/ Abandon
           \/ UNCHANGED vars
  BY <1>1, <1>5 DEF ResolveAccount, Close, ReceiveClosed, Cancel, Abandon, vars,
                    workerVars, consumerVars
<1> QED
  BY <1>2, <1>4, <1>5 DEF Next, Finished

LEMMA OrderNext == TypeOK /\ CloseInv /\ DeliveryInv /\ DeliveryInv' /\ TypeOK' /\ OrderInv
                     /\ [Next]_vars => OrderInv'
<1> SUFFICES ASSUME TypeOK, CloseInv, DeliveryInv, DeliveryInv', TypeOK', OrderInv, [Next]_vars
             PROVE  OrderInv'
  OBVIOUS
<1>1. CASE Receive
  BY <1>1, OrderReceive
<1>2. ASSUME NEW t \in Task, Send(t) PROVE OrderInv'
  BY <1>2, OrderSend
<1>3. CASE ~Receive /\ \A t \in Task : ~Send(t)
  <2>1. UNCHANGED <<chan, got>>
    <3>1. CASE Task = {}
      BY <1>3, <3>1 DEF Next, ResolveAccount, Launch, Close, ReceiveClosed, Cancel, Abandon,
                        Finished, vars, consumerVars
    <3> QED
      BY <1>3, <3>1, SentGrows
  <2>2. \A u \in Task : Sent(u) <= Sent(u)'
    BY <1>3, SentGrows
  <2>3. \A u \in Task : Sent(u) \in Nat
    BY SentType DEF DeliveryInv
  <2>4. \A u \in Task : Sent(u)' \in Nat
    BY DEF DeliveryInv, OutboxIsLast, TypeOK, Sent
  <2> QED
    BY <2>1, <2>2, <2>3, <2>4, OrderFrame
<1> QED
  BY <1>1, <1>2, <1>3

LEMMA OrderInvariant == Spec => [](DeliveryInv /\ OrderInv)
<1>1. Spec => []DeliveryInv
  BY DeliveryInit, DeliveryNext, TypeCorrect, CloseInvariant, PTL DEF Spec
<1> QED
  BY <1>1, OrderInit, OrderNext, TypeCorrect, CloseInvariant, PTL DEF Spec

-------------------------------------------------------------------------------
(* What a chunk says of its task. *)

\* How far a worker has got.
WorkerOK(t) ==
    /\ worker[t] = "idle" => made[t] = 0 /\ emitted[t] = 0
    /\ worker[t] # "idle" => \A a \in Account : cred[a] # "pending"
    /\ worker[t] = "running" => made[t] = emitted[t]
    /\ (worker[t] = "sending" /\ ~outbox[t].final) => made[t] = emitted[t]
    /\ worker[t] \in {"sending", "finished"} => made[t] > 0
    /\ emitted[t] > 0 => cred[Owner[t]] = "ok"
    /\ (worker[t] \in {"sending", "finished"} /\ cred[Owner[t]] = "failed") =>
         Owner[t] \in reported

\* Where a chunk stands among those of its task: the final one is the last.
PlaceOK(t, c) ==
    /\ c.task = t /\ c.seq \in 1..made[t]
    /\ (worker[t] = "sending" /\ c.seq = made[t]) => c = outbox[t]
    /\ c.final => c.seq = made[t] /\ worker[t] \in {"sending", "finished"}
    /\ (worker[t] = "finished" /\ c.seq = made[t]) => c.final

\* What it carries: rows only of an account that resolved, an account's error only
\* of one that did not, and a Partial flag that counts the pages before it.
SaysOK(t, c) ==
    /\ c.data => cred[Owner[t]] = "ok"
    /\ ~c.final => c.data /\ c.err = "none"
    /\ c.err = "account" => cred[Owner[t]] = "failed" /\ Owner[t] \in reported
    /\ cred[Owner[t]] = "failed" => c.final /\ c.seq = 1 /\ c.err # "collect"
    /\ c.err = "collect" => (c.partial <=> c.data \/ c.seq > 1)
    /\ c.err # "collect" => ~c.partial

\* Of every worker, and of every chunk of its task wherever it is.
ContentInv ==
    \A t \in Task : WorkerOK(t) /\ \A c \in Held(t) : PlaceOK(t, c) /\ SaysOK(t, c)

LEMMA ContentInit == Init => ContentInv
<1> SUFFICES ASSUME Init, NEW t \in Task
             PROVE  WorkerOK(t) /\ \A c \in Held(t) : PlaceOK(t, c) /\ SaysOK(t, c)
  BY DEF ContentInv
<1>1. Len(chan) = 0 /\ Len(got[t]) = 0 /\ worker[t] = "idle"
  BY DEF Init
<1>2. Held(t) = {}
  BY <1>1 DEF Held, InChan, Received
<1>3. WorkerOK(t)
  BY <1>1 DEF Init, WorkerOK
<1> QED
  BY <1>2, <1>3

\* A worker builds a chunk c.
LEMMA ContentOffer ==
    ASSUME TypeOK, ContentInv, NEW t \in Task, NEW c \in Chunk,
           worker[t] = "running", Offer(t, c), c.task = t, c.seq = made[t] + 1,
           UNCHANGED <<cred, chan, got>>, reported \subseteq reported',
           \A u \in Task \ {t} : emitted'[u] = emitted[u],
           emitted'[t] = IF c.final THEN emitted[t] ELSE emitted[t] + 1,
           c.data => cred[Owner[t]] = "ok",
           ~c.final => c.data /\ c.err = "none",
           c.err = "account" => cred[Owner[t]] = "failed",
           cred[Owner[t]] = "failed" => c.final /\ c.err # "collect" /\ Owner[t] \in reported',
           c.err = "collect" => (c.partial <=> c.data \/ emitted[t] > 0),
           c.err # "collect" => ~c.partial
    PROVE  ContentInv'
<1>1. /\ Held(t)' = Held(t) \union {c}
      /\ \A u \in Task \ {t} : Held(u)' = Held(u)
  BY HeldOffer
<1>2. /\ worker'[t] = "sending" /\ outbox'[t] = c /\ made'[t] = made[t] + 1
      /\ \A u \in Task \ {t} :
           worker'[u] = worker[u] /\ outbox'[u] = outbox[u] /\ made'[u] = made[u]
  BY DEF Offer, TypeOK
<1>3. WorkerOK(t) /\ made[t] = emitted[t] /\ made[t] \in Nat /\ emitted[t] \in Nat
  BY DEF ContentInv, WorkerOK, TypeOK
<1>4. Owner[t] \in Account /\ cred[Owner[t]] \in {"ok", "failed"}
  BY <1>3 DEF WorkerOK, Task, TypeOK
<1> SUFFICES ASSUME NEW u \in Task
             PROVE  WorkerOK(u)' /\ \A d \in Held(u)' : PlaceOK(u, d)' /\ SaysOK(u, d)'
  BY DEF ContentInv
<1>5. CASE u # t
  <2>1. WorkerOK(u) /\ \A d \in Held(u) : PlaceOK(u, d) /\ SaysOK(u, d)
    BY DEF ContentInv
  <2>2. WorkerOK(u)'
    BY <1>2, <1>5, <2>1 DEF WorkerOK
  <2>3. \A d \in Held(u) : PlaceOK(u, d)'
    BY <1>2, <1>5, <2>1 DEF PlaceOK
  <2>4. \A d \in Held(u) : SaysOK(u, d)'
    BY <2>1 DEF SaysOK
  <2> QED
    BY <1>1, <1>5, <2>2, <2>3, <2>4
<1>6. CASE u = t
  <2>1. WorkerOK(u)'
    BY <1>2, <1>3, <1>4, <1>6 DEF WorkerOK
  <2>2. ASSUME NEW d \in Held(t) PROVE PlaceOK(t, d)' /\ SaysOK(t, d)'
    <3>1. PlaceOK(t, d) /\ SaysOK(t, d)
      BY DEF ContentInv
    <3>2. d.seq \in 1..made[t] /\ ~d.final
      BY <3>1 DEF PlaceOK
    <3>3. d.seq \in 1..made'[t] /\ d.seq # made'[t]
      BY <1>2, <1>3, <3>2
    <3>4. PlaceOK(t, d)'
      BY <1>2, <3>1, <3>2, <3>3 DEF PlaceOK
    <3>5. SaysOK(t, d)'
      BY <3>1 DEF SaysOK
    <3> QED
      BY <3>4, <3>5
  <2>3. PlaceOK(t, c)'
    <3>1. c.seq \in 1..made'[t] /\ c.seq = made'[t]
      BY <1>2, <1>3
    <3> QED
      BY <1>2, <3>1 DEF PlaceOK
  <2>4. SaysOK(t, c)'
    <3>1. cred[Owner[t]] = "failed" => c.seq = 1
      BY <1>3 DEF WorkerOK
    <3>2. c.seq > 1 <=> emitted[t] > 0
      BY <1>3
    <3> QED
      BY <3>1, <3>2 DEF SaysOK
  <2> QED
    BY <1>1, <1>6, <2>1, <2>2, <2>3, <2>4
<1> QED
  BY <1>5, <1>6

\* A worker is done with its chunk, which was sent or dropped.
LEMMA ContentResume ==
    ASSUME TypeOK, ContentInv, NEW t \in Task, worker[t] = "sending", Resume(t),
           UNCHANGED <<cred, made, emitted, reported>>,
           \A u \in Task : Held(u)' \subseteq Held(u)
    PROVE  ContentInv'
<1> SUFFICES ASSUME NEW u \in Task
             PROVE  WorkerOK(u)' /\ \A d \in Held(u)' : PlaceOK(u, d)' /\ SaysOK(u, d)'
  BY DEF ContentInv
<1>1. WorkerOK(u) /\ \A d \in Held(u)' : PlaceOK(u, d) /\ SaysOK(u, d)
  BY DEF ContentInv
<1>2. \A d \in Held(u)' : SaysOK(u, d)'
  BY <1>1 DEF SaysOK
<1>3. CASE u # t
  <2>1. worker'[u] = worker[u] /\ outbox'[u] = outbox[u]
    BY <1>3, ResumeWorker
  <2> QED
    BY <1>1, <1>2, <2>1 DEF WorkerOK, PlaceOK
<1>4. CASE u = t
  <2>1. worker'[u] = IF outbox[u].final THEN "finished" ELSE "running"
    BY <1>4, ResumeWorker
  <2>2. outbox[u].final \in BOOLEAN
    BY DEF TypeOK, Chunk
  <2>3. WorkerOK(u)'
    BY <1>1, <1>4, <2>1, <2>2 DEF WorkerOK
  <2>4. \A d \in Held(u)' : PlaceOK(u, d)'
    BY <1>1, <1>4, <2>1, <2>2 DEF PlaceOK
  <2> QED
    BY <1>2, <2>3, <2>4
<1> QED
  BY <1>3, <1>4

LEMMA ContentFrame ==
    ASSUME ContentInv, UNCHANGED <<cred, worker, outbox, made, emitted, reported>>,
           \A u \in Task : Held(u)' = Held(u)
    PROVE  ContentInv'
<1> SUFFICES ASSUME NEW u \in Task
             PROVE  WorkerOK(u)' /\ \A d \in Held(u)' : PlaceOK(u, d)' /\ SaysOK(u, d)'
  BY DEF ContentInv
<1>1. WorkerOK(u) /\ \A d \in Held(u) : PlaceOK(u, d) /\ SaysOK(u, d)
  BY DEF ContentInv
<1>2. WorkerOK(u)'
  BY <1>1 DEF WorkerOK
<1>3. \A d \in Held(u) : PlaceOK(u, d)' /\ SaysOK(u, d)'
  BY <1>1 DEF PlaceOK, SaysOK
<1> QED
  BY <1>2, <1>3

LEMMA ContentWorker ==
    ASSUME TypeOK, DeliveryInv, ContentInv, NEW t \in Task, Worker(t)
    PROVE  ContentInv'
<1>0. made[t] + 1 \in Nat /\ Owner[t] \in Account
  BY DEF TypeOK, Task
<1>1. CASE SkipFailedAccount(t)
  <2> DEFINE e == IF Owner[t] \in reported THEN "none" ELSE "account"
             c == Marker(t, made[t] + 1, FALSE, e, FALSE)
  <2>1. e \in {"none", "account", "collect"} /\ e # "collect"
    OBVIOUS
  <2> HIDE DEF e
  <2>2. c \in Chunk
    BY <1>0, <2>1, MarkerIsChunk
  <2>3. /\ c.task = t /\ c.seq = made[t] + 1 /\ c.data = FALSE /\ c.final = TRUE
        /\ c.err = e /\ c.partial = FALSE
    BY DEF Marker
  <2>4. Offer(t, c)
    BY <1>1 DEF SkipFailedAccount, e
  <2>5. /\ worker[t] = "running" /\ cred[Owner[t]] = "failed"
        /\ reported' = reported \union {Owner[t]}
        /\ UNCHANGED <<cred, chan, got, emitted>>
    BY <1>1 DEF SkipFailedAccount, launcherVars, consumerVars
  <2> HIDE DEF c
  <2> QED
    BY <2>1, <2>2, <2>3, <2>4, <2>5, ContentOffer
<1>2. CASE EmitPage(t)
  <2> DEFINE c == Page(t, made[t] + 1)
  <2>1. c \in Chunk
    BY <1>0, PageIsChunk
  <2>2. /\ c.task = t /\ c.seq = made[t] + 1 /\ c.data = TRUE /\ c.final = FALSE
        /\ c.err = "none" /\ c.partial = FALSE
    BY DEF Page
  <2>3. /\ worker[t] = "running" /\ cred[Owner[t]] = "ok" /\ Offer(t, c)
        /\ UNCHANGED <<cred, chan, got, reported>>
    BY <1>2 DEF EmitPage, launcherVars, consumerVars
  <2>4. emitted'[t] = emitted[t] + 1 /\ \A u \in Task \ {t} : emitted'[u] = emitted[u]
    BY <1>2 DEF EmitPage, TypeOK
  <2> HIDE DEF c
  <2> QED
    BY <2>1, <2>2, <2>3, <2>4, ContentOffer
<1>3. CASE CollectSucceeds(t)
  <2>1. PICK data \in BOOLEAN : Offer(t, Marker(t, made[t] + 1, data, "none", FALSE))
    BY <1>3 DEF CollectSucceeds
  <2> DEFINE c == Marker(t, made[t] + 1, data, "none", FALSE)
  <2>2. c \in Chunk
    BY <1>0, MarkerIsChunk
  <2>3. /\ c.task = t /\ c.seq = made[t] + 1 /\ c.data = data /\ c.final = TRUE
        /\ c.err = "none" /\ c.partial = FALSE
    BY DEF Marker
  <2>4. /\ worker[t] = "running" /\ cred[Owner[t]] = "ok"
        /\ UNCHANGED <<cred, chan, got, reported, emitted>>
    BY <1>3 DEF CollectSucceeds, launcherVars, consumerVars
  <2>5. Offer(t, c)
    BY <2>1
  <2> HIDE DEF c
  <2> QED
    BY <2>2, <2>3, <2>4, <2>5, ContentOffer
<1>4. CASE CollectFails(t)
  <2>1. PICK data \in BOOLEAN :
          Offer(t, Marker(t, made[t] + 1, data, "collect", data \/ emitted[t] > 0))
    BY <1>4 DEF CollectFails
  <2> DEFINE p == data \/ emitted[t] > 0
             c == Marker(t, made[t] + 1, data, "collect", p)
  <2>2. p \in BOOLEAN
    OBVIOUS
  <2>3. Offer(t, c)
    BY <2>1
  <2>4. p <=> (data \/ emitted[t] > 0)
    OBVIOUS
  <2> HIDE DEF p
  <2>5. c \in Chunk
    BY <1>0, <2>2, MarkerIsChunk
  <2>6. /\ c.task = t /\ c.seq = made[t] + 1 /\ c.data = data /\ c.final = TRUE
        /\ c.err = "collect" /\ c.partial = p
    BY DEF Marker
  <2>7. /\ worker[t] = "running" /\ cred[Owner[t]] = "ok"
        /\ UNCHANGED <<cred, chan, got, reported, emitted>>
    BY <1>4 DEF CollectFails, launcherVars, consumerVars
  <2> HIDE DEF c
  <2> QED
    BY <2>2, <2>3, <2>4, <2>5, <2>6, <2>7, ContentOffer
<1>5. CASE Send(t)
  <2>1. \A u \in Task : Held(u)' = Held(u)
    BY <1>5, HeldSend
  <2> QED
    BY <1>5, <2>1, ContentResume DEF Send, launcherVars
<1>6. CASE Drop(t)
  <2>1. \A u \in Task : Held(u)' \subseteq Held(u)
    BY <1>6, HeldDrop
  <2> QED
    BY <1>6, <2>1, ContentResume DEF Drop, launcherVars
<1> QED
  BY <1>1, <1>2, <1>3, <1>4, <1>5, <1>6 DEF Worker

LEMMA ContentNext == TypeOK /\ CloseInv /\ DeliveryInv /\ ContentInv /\ [Next]_vars
                       => ContentInv'
<1> SUFFICES ASSUME TypeOK, CloseInv, DeliveryInv, ContentInv, [Next]_vars
             PROVE  ContentInv'
  OBVIOUS
<1>1. ASSUME NEW a \in Account, ResolveAccount(a) PROVE ContentInv'
  <2>1. /\ cred[a] = "pending" /\ \A b \in Account \ {a} : cred'[b] = cred[b]
        /\ UNCHANGED <<worker, outbox, made, emitted, reported, chan, got>>
    BY <1>1 DEF ResolveAccount, TypeOK, workerVars, consumerVars
  <2>2. \A t \in Task : worker[t] = "idle" /\ made[t] = 0 /\ emitted[t] = 0
    BY <2>1 DEF ContentInv, WorkerOK, TypeOK, Task
  <2> SUFFICES ASSUME NEW u \in Task
               PROVE  WorkerOK(u)' /\ \A d \in Held(u)' : PlaceOK(u, d)' /\ SaysOK(u, d)'
    BY DEF ContentInv
  <2>3. WorkerOK(u)'
    BY <2>1, <2>2 DEF WorkerOK
  <2>4. Held(u)' = Held(u)
    BY <2>1, HeldFrame
  <2>5. \A d \in Held(u) : d.seq \in 1..0
    BY <2>2 DEF ContentInv, PlaceOK
  <2> QED
    BY <2>3, <2>4, <2>5
<1>2. CASE Launch
  <2>1. /\ next \in Task /\ worker[next] = "idle"
        /\ worker' = [worker EXCEPT ![next] = "running"]
        /\ \A a \in Account : cred[a] # "pending"
        /\ UNCHANGED <<cred, outbox, made, emitted, reported, chan, got>>
    BY <1>2 DEF Launch, CloseInv, LaunchedInOrder, Task, consumerVars
  <2> SUFFICES ASSUME NEW u \in Task
               PROVE  WorkerOK(u)' /\ \A d \in Held(u)' : PlaceOK(u, d)' /\ SaysOK(u, d)'
    BY DEF ContentInv
  <2>2. WorkerOK(u) /\ \A d \in Held(u) : PlaceOK(u, d) /\ SaysOK(u, d)
    BY DEF ContentInv
  <2>3. worker'[u] = "sending" <=> worker[u] = "sending"
    BY <2>1 DEF TypeOK
  <2>4. Held(u)' = Held(u)
    BY <2>1, <2>3 DEF Held, InChan, Received
  <2>5. CASE u # next
    BY <2>1, <2>2, <2>4, <2>5 DEF WorkerOK, PlaceOK, SaysOK, TypeOK
  <2>6. CASE u = next
    <3>1. worker'[u] = "running" /\ worker[u] = "idle" /\ made[u] = 0 /\ emitted[u] = 0
      BY <2>1, <2>2, <2>6 DEF TypeOK, WorkerOK
    <3>3. WorkerOK(u)'
      BY <2>1, <3>1 DEF WorkerOK
    <3>4. \A d \in Held(u) : d.seq \in 1..0
      BY <2>2, <3>1 DEF PlaceOK
    <3> QED
      BY <2>4, <3>3, <3>4
  <2> QED
    BY <2>5, <2>6
<1>3. ASSUME NEW t \in Task, Worker(t) PROVE ContentInv'
  BY <1>3, ContentWorker
<1>4. CASE Receive
  <2>1. \A u \in Task : Held(u)' = Held(u)
    BY <1>4, HeldReceive
  <2> QED
    BY <1>4, <2>1, ContentFrame DEF Receive, launcherVars, workerVars
<1>5. CASE Close \/ ReceiveClosed \/ Cancel \/ Abandon \/ UNCHANGED vars
  <2>1. UNCHANGED <<cred, worker, outbox, made, emitted, reported, chan, got>>
    BY <1>5 DEF Close, ReceiveClosed, Cancel, Abandon, vars, launcherVars, workerVars,
                consumerVars
  <2>2. \A u \in Task : Held(u)' = Held(u)
    BY <2>1, HeldFrame
  <2> QED
    BY <2>1, <2>2, ContentFrame
<1> QED
  BY <1>1, <1>2, <1>3, <1>4, <1>5 DEF Next, Finished

LEMMA ContentInvariant == Spec => []ContentInv
  BY ContentInit, ContentNext, TypeCorrect, CloseInvariant, OrderInvariant, PTL DEF Spec

-------------------------------------------------------------------------------
(* The error of an account. *)

\* No two chunks report the same account: errOnce is one for all the copies of a
\* sweep.
OneReport ==
    \A t, u \in Task : \A c \in Held(t), d \in Held(u) :
      (c.err = "account" /\ d.err = "account" /\ Owner[t] = Owner[u]) => t = u

\* A fired errOnce means that the chunk is on its way, until the scan is cancelled.
ReportKept ==
    ~cancelled => \A a \in reported :
                    \E t \in Task : Owner[t] = a /\ \E c \in Held(t) : c.err = "account"

ReportInv == OneReport /\ ReportKept

LEMMA ReportInit == Init => ReportInv
<1> SUFFICES ASSUME Init PROVE ReportInv
  OBVIOUS
<1>1. \A t \in Task : Len(chan) = 0 /\ Len(got[t]) = 0 /\ worker[t] = "idle"
  BY DEF Init
<1>2. \A t \in Task : Held(t) = {}
  BY <1>1 DEF Held, InChan, Received
<1>3. reported = {}
  BY DEF Init
<1> QED
  BY <1>2, <1>3 DEF ReportInv, OneReport, ReportKept

LEMMA ReportFrame ==
    ASSUME ReportInv, reported' = reported,
           \A u \in Task : Held(u)' \subseteq Held(u),
           cancelled' \/ (~cancelled /\ \A u \in Task : Held(u)' = Held(u))
    PROVE  ReportInv'
<1>1. OneReport'
  BY DEF ReportInv, OneReport
<1>2. ReportKept'
  BY DEF ReportInv, ReportKept
<1> QED
  BY <1>1, <1>2 DEF ReportInv

\* A chunk that reports no account.
LEMMA ReportOffer ==
    ASSUME TypeOK, ReportInv, NEW t \in Task, NEW c, worker[t] = "running", Offer(t, c),
           c.err # "account", UNCHANGED <<reported, chan, got, cancelled>>
    PROVE  ReportInv'
<1>1. /\ Held(t)' = Held(t) \union {c}
      /\ \A u \in Task \ {t} : Held(u)' = Held(u)
  BY HeldOffer
<1>2. \A u \in Task : \A d : (d \in Held(u)' /\ d.err = "account") <=>
                              (d \in Held(u) /\ d.err = "account")
  BY <1>1
<1>3. OneReport'
  BY <1>2 DEF ReportInv, OneReport
<1>4. ReportKept'
  BY <1>2 DEF ReportInv, ReportKept
<1> QED
  BY <1>3, <1>4 DEF ReportInv

LEMMA ReportSkip ==
    ASSUME TypeOK, ContentInv, ReportInv, NEW t \in Task, SkipFailedAccount(t)
    PROVE  ReportInv'
<1> DEFINE e == IF Owner[t] \in reported THEN "none" ELSE "account"
           c == Marker(t, made[t] + 1, FALSE, e, FALSE)
<1>1. c.err = e
  BY DEF Marker
<1>2. /\ worker[t] = "running" /\ Offer(t, c)
      /\ reported' = reported \union {Owner[t]}
      /\ UNCHANGED <<chan, got, cancelled>>
  BY DEF SkipFailedAccount, consumerVars
<1>3. CASE Owner[t] \in reported
  <2>1. c.err # "account"
    BY <1>1, <1>3
  <2>2. reported' = reported
    BY <1>2, <1>3
  <2> HIDE DEF c
  <2> QED
    BY <1>2, <2>1, <2>2, ReportOffer
<1>4. CASE Owner[t] \notin reported
  <2>1. c.err = "account"
    BY <1>1, <1>4
  <2> HIDE DEF c
  <2>2. /\ Held(t)' = Held(t) \union {c}
        /\ \A u \in Task \ {t} : Held(u)' = Held(u)
    BY <1>2, HeldOffer
  <2>3. \A u \in Task : \A d \in Held(u) : d.err = "account" => Owner[u] # Owner[t]
    BY <1>4 DEF ContentInv, SaysOK
  <2>4. OneReport'
    <3> SUFFICES ASSUME NEW u \in Task, NEW v \in Task, NEW d \in Held(u)', NEW f \in Held(v)',
                        d.err = "account", f.err = "account", Owner[u] = Owner[v]
                 PROVE  u = v
      BY DEF OneReport
    <3>1. CASE d \in Held(u) /\ f \in Held(v)
      BY <3>1 DEF ReportInv, OneReport
    <3>2. CASE d \notin Held(u)
      <4>1. u = t
        BY <2>2, <3>2
      <4> QED
        BY <2>2, <2>3, <4>1
    <3>3. CASE f \notin Held(v)
      <4>1. v = t
        BY <2>2, <3>3
      <4> QED
        BY <2>2, <2>3, <4>1
    <3> QED
      BY <3>1, <3>2, <3>3
  <2>5. ReportKept'
    <3> SUFFICES ASSUME ~cancelled', NEW a \in reported'
                 PROVE  \E u \in Task : Owner[u] = a /\ \E d \in Held(u)' : d.err = "account"
      BY DEF ReportKept
    <3>1. CASE a = Owner[t]
      BY <2>1, <2>2, <3>1
    <3>2. CASE a # Owner[t]
      <4>1. a \in reported /\ ~cancelled
        BY <1>2, <3>2
      <4>2. PICK u \in Task : Owner[u] = a /\ \E d \in Held(u) : d.err = "account"
        BY <4>1 DEF ReportInv, ReportKept
      <4> QED
        BY <2>2, <4>2
    <3> QED
      BY <3>1, <3>2
  <2> QED
    BY <2>4, <2>5 DEF ReportInv
<1> QED
  BY <1>3, <1>4

LEMMA ReportNext == TypeOK /\ CloseInv /\ DeliveryInv /\ ContentInv /\ ReportInv /\ [Next]_vars
                      => ReportInv'
<1> SUFFICES ASSUME TypeOK, CloseInv, DeliveryInv, ContentInv, ReportInv, [Next]_vars
             PROVE  ReportInv'
  OBVIOUS
<1>0. cancelled \in BOOLEAN
  BY DEF TypeOK
<1>1. ASSUME UNCHANGED <<worker, outbox, reported, chan, got>>, cancelled => cancelled'
      PROVE  ReportInv'
  <2>1. \A u \in Task : Held(u)' = Held(u)
    BY <1>1, HeldFrame
  <2> QED
    BY <1>0, <1>1, <2>1, ReportFrame
<1>2. CASE Launch
  <2>1. /\ next \in Task /\ worker[next] = "idle"
        /\ worker' = [worker EXCEPT ![next] = "running"]
        /\ UNCHANGED <<outbox, reported, chan, got, cancelled>>
    BY <1>2 DEF Launch, CloseInv, LaunchedInOrder, Task, consumerVars
  <2>2. \A u \in Task : worker'[u] = "sending" <=> worker[u] = "sending"
    BY <2>1 DEF TypeOK
  <2>3. \A u \in Task : Held(u)' = Held(u)
    BY <2>1, <2>2 DEF Held, InChan, Received
  <2> QED
    BY <1>0, <2>1, <2>3, ReportFrame
<1>3. ASSUME NEW t \in Task, Worker(t) PROVE ReportInv'
  <2>1. CASE SkipFailedAccount(t)
    BY <2>1, ReportSkip
  <2>2. CASE EmitPage(t)
    <3>1. Page(t, made[t] + 1).err # "account"
      BY DEF Page
    <3> QED
      BY <2>2, <3>1, ReportOffer DEF EmitPage, consumerVars
  <2>3. CASE CollectSucceeds(t)
    <3>1. PICK data \in BOOLEAN : Offer(t, Marker(t, made[t] + 1, data, "none", FALSE))
      BY <2>3 DEF CollectSucceeds
    <3>2. Marker(t, made[t] + 1, data, "none", FALSE).err # "account"
      BY DEF Marker
    <3> QED
      BY <2>3, <3>1, <3>2, ReportOffer DEF CollectSucceeds, consumerVars
  <2>4. CASE CollectFails(t)
    <3>1. PICK data \in BOOLEAN :
            Offer(t, Marker(t, made[t] + 1, data, "collect", data \/ emitted[t] > 0))
      BY <2>4 DEF CollectFails
    <3>2. Marker(t, made[t] + 1, data, "collect", data \/ emitted[t] > 0).err # "account"
      BY DEF Marker
    <3> QED
      BY <2>4, <3>1, <3>2, ReportOffer DEF CollectFails, consumerVars
  <2>5. CASE Send(t)
    <3>1. \A u \in Task : Held(u)' = Held(u)
      BY <2>5, HeldSend
    <3> QED
      BY <1>0, <2>5, <3>1, ReportFrame DEF Send, consumerVars
  <2>6. CASE Drop(t)
    <3>1. \A u \in Task : Held(u)' \subseteq Held(u)
      BY <2>6, HeldDrop
    <3> QED
      BY <2>6, <3>1, ReportFrame DEF Drop, consumerVars
  <2> QED
    BY <1>3, <2>1, <2>2, <2>3, <2>4, <2>5, <2>6 DEF Worker
<1>4. CASE Receive
  <2>1. \A u \in Task : Held(u)' = Held(u)
    BY <1>4, HeldReceive
  <2> QED
    BY <1>0, <1>4, <2>1, ReportFrame DEF Receive, workerVars
<1>5. CASE \/ \E a \in Account : ResolveAccount(a)
           \/ Close \/ ReceiveClosed \/ Cancel \/ Abandon
           \/ UNCHANGED vars
  BY <1>1, <1>5 DEF ResolveAccount, Close, ReceiveClosed, Cancel, Abandon, vars,
                    workerVars, consumerVars
<1> QED
  BY <1>2, <1>3, <1>4, <1>5 DEF Next, Finished

LEMMA ReportInvariant == Spec => []ReportInv
  BY ReportInit, ReportNext, TypeCorrect, CloseInvariant, OrderInvariant, ContentInvariant,
     PTL DEF Spec

-------------------------------------------------------------------------------
(* The end of the stream. *)

\* A consumer that saw the end saw the channel closed and empty, and it stays so.
EndedIsDrained == reader = "ended" => closed /\ chan = <<>>

LEMMA DrainedNext == TypeOK /\ CloseInv /\ CloseIsLast /\ EndedIsDrained /\ [Next]_vars
                       => EndedIsDrained'
<1> SUFFICES ASSUME TypeOK, CloseInv, CloseIsLast, EndedIsDrained, [Next]_vars
             PROVE  EndedIsDrained'
  OBVIOUS
<1>1. ASSUME NEW t \in Task, Worker(t) PROVE EndedIsDrained'
  <2>1. ~closed /\ closed' = closed
    BY <1>1, WorkerStep DEF CloseIsLast
  <2>2. reader' = reader
    BY <1>1 DEF Worker, SkipFailedAccount, EmitPage, CollectSucceeds, CollectFails, Send, Drop,
                consumerVars
  <2> QED
    BY <2>1, <2>2 DEF EndedIsDrained
<1>2. CASE Receive \/ ReceiveClosed \/ Cancel \/ Abandon
  BY <1>2 DEF Receive, ReceiveClosed, Cancel, Abandon, launcherVars, EndedIsDrained
<1>3. CASE \/ \E a \in Account : ResolveAccount(a)
           \/ Launch \/ Close \/ UNCHANGED vars
  BY <1>3 DEF ResolveAccount, Launch, Close, vars, launcherVars, consumerVars, EndedIsDrained
<1> QED
  BY <1>1, <1>2, <1>3 DEF Next, Finished

LEMMA Drained == Spec => []EndedIsDrained
<1>1. Init => EndedIsDrained
  BY DEF Init, EndedIsDrained
<1> QED
  BY <1>1, DrainedNext, TypeCorrect, CloseInvariant, NoSendAfterClose, PTL DEF Spec

\* Everything about a scan at once.
ScanInv ==
    /\ TypeOK /\ CloseInv /\ CloseIsLast /\ DeliveryInv /\ OrderInv
    /\ ContentInv /\ ReportInv /\ EndedIsDrained

LEMMA ScanInvariant == Spec => []ScanInv
  BY TypeCorrect, CloseInvariant, NoSendAfterClose, OrderInvariant, ContentInvariant,
     ReportInvariant, Drained, PTL DEF ScanInv

\* What the consumer holds of a task is what its chunks say.
LEMMA GotOK ==
    ASSUME ScanInv, NEW t \in Task, NEW i \in 1..Len(got[t])
    PROVE  /\ got[t][i] \in Held(t) /\ got[t][i] \in Chunk
           /\ PlaceOK(t, got[t][i]) /\ SaysOK(t, got[t][i])
<1>1. got[t][i] \in Held(t)
  BY DEF Held, Received
<1> QED
  BY <1>1, HeldType DEF ScanInv, ContentInv

LEMMA GotDomain ==
    ASSUME TypeOK, NEW t \in Task
    PROVE  DOMAIN got[t] = 1..Len(got[t]) /\ Len(got[t]) \in Nat
  BY DEF TypeOK

\* A closed channel that is empty has given the consumer of an uncancelled scan
\* every chunk of every task, the final one included.
LEMMA DrainedIsComplete ==
    ASSUME ScanInv, closed, chan = <<>>, ~cancelled, NEW t \in Task
    PROVE  /\ Len(got[t]) = made[t] /\ made[t] \in Nat \ {0}
           /\ \A i \in 1..Len(got[t]) : got[t][i].seq = i /\ (got[t][i].final <=> i = Len(got[t]))
<1>1. worker[t] = "finished" /\ made[t] \in Nat \ {0}
  BY DEF ScanInv, CloseIsLast, ContentInv, WorkerOK, TypeOK
<1>2. Sent(t) = made[t]
  BY <1>1 DEF Sent
<1>3. GotIsPrefix(t) /\ RestInChannel(t) /\ Len(got[t]) \in Nat
  BY GotDomain DEF ScanInv, DeliveryInv, NothingLost
<1>4. Len(got[t]) = made[t]
  <2>1. Len(chan) = 0
    OBVIOUS
  <2>2. (Len(got[t]) + 1)..Sent(t) = {}
    BY <1>3, <2>1 DEF RestInChannel
  <2>3. Len(got[t]) <= made[t]
    BY <1>2, <1>3 DEF GotIsPrefix
  <2> QED
    BY <1>1, <1>2, <1>3, <2>2, <2>3
<1>5. \A i \in 1..Len(got[t]) : got[t][i].seq = i
  BY <1>3 DEF GotIsPrefix
<1>6. \A i \in 1..Len(got[t]) : got[t][i].final <=> i = Len(got[t])
  <2> TAKE i \in 1..Len(got[t])
  <2>1. PlaceOK(t, got[t][i]) /\ got[t][i].seq = i
    BY <1>5, GotOK
  <2> QED
    BY <1>1, <1>4, <2>1 DEF PlaceOK
<1> QED
  BY <1>1, <1>4, <1>5, <1>6

\* A scan that is not cancelled ends with exactly one progress marker of every
\* task, the task's last chunk, whatever failed and however full the channel was.
THEOREM EveryTaskIsAccounted == Spec => []EveryTaskEnds
<1>1. ScanInv => EveryTaskEnds
  <2> SUFFICES ASSUME ScanInv, reader = "ended", ~cancelled, NEW t \in Task
               PROVE  /\ got[t] # <<>>
                      /\ \A i \in DOMAIN got[t] : got[t][i].final <=> i = Len(got[t])
    BY DEF EveryTaskEnds
  <2>1. closed /\ chan = <<>>
    BY DEF ScanInv, EndedIsDrained
  <2>2. /\ Len(got[t]) # 0
        /\ \A i \in 1..Len(got[t]) : got[t][i].final <=> i = Len(got[t])
    BY <2>1, DrainedIsComplete
  <2>3. DOMAIN got[t] = 1..Len(got[t]) /\ got[t] # <<>>
    BY <2>2, GotDomain DEF ScanInv
  <2> QED
    BY <2>2, <2>3
<1> QED
  BY <1>1, ScanInvariant, PTL

\* The Partial flag of a collector's error tells the consumer the truth about the
\* rows it holds, up to a cancellation.
THEOREM PartialFlagIsHonest == Spec => []PartialIsHonest
<1>1. ScanInv => PartialIsHonest
  <2> SUFFICES ASSUME ScanInv, ~cancelled, NEW t \in Task, NEW i \in 1..Len(got[t]),
                      got[t][i].err = "collect"
               PROVE  got[t][i].partial <=> \E j \in 1..i : got[t][j].data
    BY GotDomain DEF PartialIsHonest, ScanInv
  <2>1. GotIsPrefix(t) /\ Len(got[t]) \in Nat
    BY GotDomain DEF ScanInv, DeliveryInv, NothingLost
  <2>2. \A j \in 1..i : j \in 1..Len(got[t]) /\ got[t][j].seq = j
    BY <2>1 DEF GotIsPrefix
  <2>3. i \in 1..i
    BY <2>1
  <2>4. SaysOK(t, got[t][i]) /\ PlaceOK(t, got[t][i]) /\ made[t] \in Nat
    BY GotOK DEF ScanInv, TypeOK
  <2>5. got[t][i].partial <=> got[t][i].data \/ i > 1
    BY <2>2, <2>3, <2>4 DEF SaysOK
  <2>6. \A j \in 1..i : j < i => got[t][j].data
    <3> SUFFICES ASSUME NEW j \in 1..i, j < i PROVE got[t][j].data
      OBVIOUS
    <3>1. PlaceOK(t, got[t][j]) /\ SaysOK(t, got[t][j]) /\ got[t][j].seq = j
      BY <2>2, GotOK
    <3>2. j < made[t]
      BY <2>2, <2>3, <2>4 DEF PlaceOK
    <3>3. ~got[t][j].final
      BY <3>1, <3>2 DEF PlaceOK
    <3> QED
      BY <3>1, <3>3 DEF SaysOK
  <2>7. i > 1 => 1 \in 1..i /\ 1 < i
    BY <2>1
  <2>8. i = 1 => \A j \in 1..i : j = i
    OBVIOUS
  <2>9. i = 1 \/ i > 1
    BY <2>1
  <2> QED
    BY <2>3, <2>5, <2>6, <2>7, <2>8, <2>9
<1> QED
  BY <1>1, ScanInvariant, PTL

LEMMA SingletonOrEmpty ==
    ASSUME NEW S, \A x, y \in S : x = y
    PROVE  Cardinality(S) <= 1 /\ (S # {} => Cardinality(S) = 1)
<1>1. CASE S = {}
  BY <1>1, FS_EmptySet
<1>2. CASE S # {}
  <2>1. PICK x \in S : TRUE
    BY <1>2
  <2>2. S = {x}
    BY <2>1
  <2>3. Cardinality({x}) = 1
    BY FS_Singleton
  <2> QED
    BY <2>2, <2>3
<1> QED
  BY <1>1, <1>2

\* Once an uncancelled scan's channel is closed and empty, the chunk that reports a
\* failed account has arrived.
LEMMA ReportArrives ==
    ASSUME ScanInv, closed, chan = <<>>, ~cancelled,
           NEW t \in Task, cred[Owner[t]] = "failed"
    PROVE  AccountReports(Owner[t]) # {}
<1>1. \A u \in Task : worker[u] = "finished"
  BY DEF ScanInv, CloseIsLast
<1>2. Owner[t] \in reported
  BY <1>1 DEF ScanInv, ContentInv, WorkerOK
<1>3. PICK u \in Task : Owner[u] = Owner[t] /\ \E c \in Held(u) : c.err = "account"
  BY <1>2 DEF ScanInv, ReportInv, ReportKept
<1>4. Len(chan) = 0
  OBVIOUS
<1>5. Held(u) = Received(u)
  BY <1>1, <1>4 DEF Held, InChan
<1>6. DOMAIN got[u] = 1..Len(got[u])
  BY GotDomain DEF ScanInv
<1> QED
  BY <1>3, <1>5, <1>6 DEF Received, AccountReports

\* A failed account that has a task is reported by exactly one of its workers,
\* and none of them delivers a row.
THEOREM AccountErrorExactlyOnce == Spec => []AccountErrorOnce
<1>1. ScanInv => AccountErrorOnce
  <2> SUFFICES ASSUME ScanInv, NEW a \in Account
               PROVE  /\ Cardinality(AccountReports(a)) <= 1
                      /\ (/\ reader = "ended" /\ ~cancelled /\ cred[a] = "failed"
                          /\ \E t \in Task : Owner[t] = a)
                           => Cardinality(AccountReports(a)) = 1
                      /\ cred[a] = "failed" =>
                           \A t \in Task : Owner[t] = a =>
                             \A i \in DOMAIN got[t] : ~got[t][i].data
    BY DEF AccountErrorOnce
  <2>0. \A t \in Task : DOMAIN got[t] = 1..Len(got[t])
    BY GotDomain DEF ScanInv
  <2>1. \A t, u \in AccountReports(a) : t = u
    <3> SUFFICES ASSUME NEW t \in AccountReports(a), NEW u \in AccountReports(a) PROVE t = u
      OBVIOUS
    <3>1. /\ t \in Task /\ Owner[t] = a /\ u \in Task /\ Owner[u] = a
          /\ \E i \in 1..Len(got[t]) : got[t][i].err = "account"
          /\ \E j \in 1..Len(got[u]) : got[u][j].err = "account"
      BY <2>0 DEF AccountReports
    <3>2. /\ \E c \in Held(t) : c.err = "account"
          /\ \E d \in Held(u) : d.err = "account"
      BY <3>1, GotOK
    <3> QED
      BY <3>1, <3>2 DEF ScanInv, ReportInv, OneReport
  <2>2. ASSUME reader = "ended", ~cancelled, cred[a] = "failed", NEW t \in Task, Owner[t] = a
        PROVE  AccountReports(a) # {}
    BY <2>2, ReportArrives DEF ScanInv, EndedIsDrained
  <2>3. ASSUME cred[a] = "failed", NEW t \in Task, Owner[t] = a, NEW i \in 1..Len(got[t])
        PROVE  ~got[t][i].data
    BY <2>3, GotOK DEF SaysOK
  <2> QED
    BY <2>0, <2>1, <2>2, <2>3, SingletonOrEmpty
<1> QED
  BY <1>1, ScanInvariant, PTL

-------------------------------------------------------------------------------
(* ScanEngine implements ScanStream. *)

\* The stream's view of the consumer, as the refinement mapping has it.
GotBar == [t \in Task |-> [i \in DOMAIN got[t] |-> Strip(got[t][i])]]
FailedBar == {a \in Account : cred[a] = "failed"}

LEMMA BarOf ==
    ASSUME TypeOK, NEW t \in Task
    PROVE  /\ DOMAIN GotBar[t] = 1..Len(got[t]) /\ Len(got[t]) \in Nat
           /\ \A i \in 1..Len(got[t]) : GotBar[t][i] = Strip(got[t][i])
           /\ GotBar[t] = <<>> <=> Len(got[t]) = 0
           /\ Len(got[t]) = 0 <=> got[t] = <<>>
<1>1. DOMAIN got[t] = 1..Len(got[t]) /\ Len(got[t]) \in Nat
  BY GotDomain
<1>2. GotBar[t] = [i \in 1..Len(got[t]) |-> Strip(got[t][i])]
  BY <1>1 DEF GotBar
<1>3. got[t] \in Seq(Chunk)
  BY DEF TypeOK
<1>4. Len(got[t]) = 0 <=> got[t] = <<>>
  BY <1>3
<1>5. GotBar[t] = <<>> <=> Len(got[t]) = 0
  <2>1. CASE Len(got[t]) = 0
    BY <1>2, <2>1
  <2>2. CASE Len(got[t]) # 0
    <3>1. 1 \in 1..Len(got[t])
      BY <1>1, <2>2
    <3>2. 1 \in DOMAIN GotBar[t]
      BY <1>2, <3>1
    <3> QED
      BY <2>2, <3>2
  <2> QED
    BY <2>1, <2>2
<1> QED
  BY <1>1, <1>2, <1>4, <1>5

LEMMA StripIsChunk ==
    ASSUME NEW c \in Chunk
    PROVE  /\ Strip(c) \in Stream!Chunk
           /\ Strip(c).data = c.data /\ Strip(c).final = c.final
           /\ Strip(c).err = c.err /\ Strip(c).partial = c.partial
  BY DEF Chunk, Strip, Stream!Chunk

LEMMA BarEnded ==
    ASSUME TypeOK, NEW t \in Task
    PROVE  Stream!Ended(t) <=> \E i \in 1..Len(got[t]) : got[t][i].final
<1>1. Stream!Ended(t) <=> \E i \in DOMAIN GotBar[t] : GotBar[t][i].final
  BY DEF Stream!Ended, GotBar
<1>2. \A i \in 1..Len(got[t]) : GotBar[t][i] = Strip(got[t][i])
  BY BarOf
<1>3. \A c : Strip(c).final = c.final
  BY DEF Strip
<1> QED
  BY <1>1, <1>2, <1>3, BarOf

LEMMA BarReported ==
    ASSUME TypeOK, NEW a \in Account
    PROVE  Stream!Reported(a) = AccountReports(a)
<1>1. Stream!Reported(a) =
        {t \in Task : Owner[t] = a /\ \E i \in DOMAIN GotBar[t] : GotBar[t][i].err = "account"}
  BY DEF Stream!Reported, Stream!Task, Task, GotBar
<1>2. ASSUME NEW t \in Task
      PROVE  (\E i \in DOMAIN GotBar[t] : GotBar[t][i].err = "account")
               <=> \E i \in DOMAIN got[t] : got[t][i].err = "account"
  <2>1. \A i \in 1..Len(got[t]) : GotBar[t][i] = Strip(got[t][i])
    BY BarOf
  <2>2. \A c : Strip(c).err = c.err
    BY DEF Strip
  <2> QED
    BY <2>1, <2>2, BarOf, GotDomain
<1> QED
  BY <1>1, <1>2 DEF AccountReports

LEMMA AppendIsFunction ==
    ASSUME NEW S, NEW s \in Seq(S), NEW e \in S
    PROVE  Append(s, e) = [i \in 1..(Len(s) + 1) |-> IF i = Len(s) + 1 THEN e ELSE s[i]]
<1> DEFINE f == Append(s, e)
<1>1. /\ f \in Seq(S) /\ Len(f) = Len(s) + 1 /\ Len(s) \in Nat
      /\ \A i \in 1..Len(s) : f[i] = s[i]
      /\ f[Len(s) + 1] = e
  BY AppendProperties
<1> HIDE DEF f
<1>2. f = [i \in 1..(Len(s) + 1) |-> f[i]]
  BY <1>1
<1>3. \A i \in 1..(Len(s) + 1) : f[i] = IF i = Len(s) + 1 THEN e ELSE s[i]
  BY <1>1
<1>4. f = [i \in 1..(Len(s) + 1) |-> IF i = Len(s) + 1 THEN e ELSE s[i]]
  BY <1>2, <1>3
<1> QED
  BY <1>4 DEF f

\* A received chunk is appended to what the stream has delivered.
LEMMA BarAppend ==
    ASSUME TypeOK, NEW t \in Task, NEW c \in Chunk,
           got' = [got EXCEPT ![t] = Append(@, c)]
    PROVE  GotBar' = [GotBar EXCEPT ![t] = Append(@, Strip(c))]
<1> DEFINE n == Len(got[t])
<1>1. got[t] \in Seq(Chunk) /\ n \in Nat
  BY DEF TypeOK
<1>2. /\ got'[t] = Append(got[t], c)
      /\ \A u \in Task \ {t} : got'[u] = got[u]
  BY DEF TypeOK
<1>3. /\ DOMAIN got'[t] = 1..(n + 1)
      /\ \A i \in 1..n : got'[t][i] = got[t][i]
      /\ got'[t][n + 1] = c
  BY <1>1, <1>2
<1>4. GotBar'[t] = [i \in 1..(n + 1) |-> Strip(got'[t][i])]
  BY <1>3 DEF GotBar
<1>5. GotBar[t] = [i \in 1..n |-> Strip(got[t][i])]
  BY <1>1, GotDomain DEF GotBar
<1>6. GotBar[t] \in Seq(Stream!Chunk) /\ Len(GotBar[t]) = n
  <2>1. \A i \in 1..n : got[t][i] \in Chunk
    BY <1>1
  <2>2. \A i \in 1..n : Strip(got[t][i]) \in Stream!Chunk
    BY <2>1, StripIsChunk
  <2> QED
    BY <1>1, <1>5, <2>2
<1>7. GotBar'[t] = Append(GotBar[t], Strip(c))
  <2>1. Strip(c) \in Stream!Chunk
    BY StripIsChunk
  <2>2. Append(GotBar[t], Strip(c)) =
          [i \in 1..(n + 1) |-> IF i = n + 1 THEN Strip(c) ELSE GotBar[t][i]]
    BY <1>6, <2>1, AppendIsFunction
  <2>3. \A i \in 1..(n + 1) :
          Strip(got'[t][i]) = IF i = n + 1 THEN Strip(c) ELSE GotBar[t][i]
    BY <1>1, <1>3, <1>5
  <2> QED
    BY <1>4, <2>2, <2>3
<1>8. \A u \in Task \ {t} : GotBar'[u] = GotBar[u]
  BY <1>2 DEF GotBar
<1> QED
  BY <1>7, <1>8 DEF GotBar

\* Receiving is delivering: the chunk at the head of the channel is one the
\* stream may deliver now.
LEMMA ReceiveDelivers ==
    ASSUME ScanInv, Receive
    PROVE  \E t \in Stream!Task, c \in Stream!Chunk : Stream!Deliver(t, c)
<1> DEFINE h == Head(chan)  t == h.task
<1>1. /\ chan # <<>> /\ reader = "reading"
      /\ got' = [got EXCEPT ![t] = Append(@, h)]
      /\ UNCHANGED <<cred, cancelled, reader>>
  BY DEF Receive, launcherVars
<1>2. h \in Chunk /\ h = chan[1] /\ 1 \in 1..Len(chan)
  BY <1>1 DEF ScanInv, TypeOK
<1>3. t \in Task
  BY <1>2 DEF Chunk
<1>4. h \in Held(t)
  BY <1>2 DEF Held, InChan
<1>5. PlaceOK(t, h) /\ SaysOK(t, h)
  BY <1>3, <1>4 DEF ScanInv, ContentInv
<1>6. /\ Len(got[t]) \in Nat /\ made[t] \in Nat
      /\ \A i \in 1..Len(got[t]) : got[t][i].seq \in Nat \ {0} /\ got[t][i].seq < h.seq
  <2>1. Len(got[t]) \in Nat /\ made[t] \in Nat
    BY <1>3, GotDomain DEF ScanInv, TypeOK
  <2>2. InOrder(t)
    BY <1>3 DEF ScanInv, OrderInv
  <2>3. \A i \in 1..Len(got[t]) : got[t][i].seq \in 1..Sent(t) /\ got[t][i].seq < h.seq
    BY <1>2, <2>2 DEF InOrder
  <2>4. Sent(t) \in Int
    BY <2>1 DEF Sent
  <2> QED
    BY <2>1, <2>3, <2>4
<1>7. ~cancelled => h.seq = Len(got[t]) + 1
  BY <1>1, HeadIsNext DEF ScanInv
<1>8. h.seq \in 1..made[t]
  BY <1>5 DEF PlaceOK
<1>9. Len(got[t]) > 0 => h.seq > 1
  <2> SUFFICES ASSUME Len(got[t]) > 0 PROVE h.seq > 1
    OBVIOUS
  <2>1. 1 \in 1..Len(got[t])
    BY <1>6
  <2> QED
    BY <1>6, <1>8, <2>1
<1>10. ~Stream!Ended(t)
  <2> SUFFICES ASSUME NEW i \in 1..Len(got[t]), got[t][i].final PROVE FALSE
    BY <1>3, BarEnded DEF ScanInv
  <2>1. got[t][i].seq = made[t]
    BY <1>3, GotOK DEF PlaceOK
  <2> QED
    BY <1>6, <1>8, <2>1
<1>11. /\ Strip(h) \in Stream!Chunk
       /\ Strip(h).data = h.data /\ Strip(h).final = h.final
       /\ Strip(h).err = h.err /\ Strip(h).partial = h.partial
  BY <1>2, StripIsChunk
<1>12. /\ h.data \in BOOLEAN /\ h.final \in BOOLEAN /\ h.partial \in BOOLEAN
       /\ h.err \in {"none", "account", "collect"}
  BY <1>2 DEF Chunk
<1>13. Owner[t] \in Account /\ (Owner[t] \in FailedBar <=> cred[Owner[t]] = "failed")
  BY <1>3 DEF Task, FailedBar
<1>14. GotBar[t] = <<>> <=> Len(got[t]) = 0
  BY <1>3, BarOf DEF ScanInv
<1>15. AccountReports(Owner[t]) = Stream!Reported(Owner[t])
  BY <1>13, BarReported DEF ScanInv
<1>16. \A u \in Task : DOMAIN got[u] = 1..Len(got[u])
  BY GotDomain DEF ScanInv
<1> HIDE DEF h, t
<1>17. Stream!IsPage(t, Strip(h)) \/ Stream!IsResult(t, Strip(h)) \/ Stream!IsSkipped(t, Strip(h))
  <2>1. CASE ~h.final
    <3>1. Stream!IsPage(t, Strip(h))
      BY <1>5, <1>11, <1>12, <1>13, <2>1 DEF SaysOK, Stream!IsPage, FailedBar
    <3> QED
      BY <3>1
  <2>2. CASE h.final /\ cred[Owner[t]] = "failed"
    <3>1. h.seq = 1 /\ ~h.data /\ ~h.partial /\ h.err \in {"none", "account"}
      BY <1>5, <1>12, <2>2 DEF SaysOK
    <3>2. Len(got[t]) = 0
      BY <1>6, <1>9, <3>1
    <3>3. h.err = "account" => AccountReports(Owner[t]) = {}
      <4> SUFFICES ASSUME h.err = "account", NEW u \in AccountReports(Owner[t]) PROVE FALSE
        OBVIOUS
      <4>1. u \in Task /\ Owner[u] = Owner[t] /\ \E i \in 1..Len(got[u]) : got[u][i].err = "account"
        BY <1>16 DEF AccountReports
      <4>2. PICK i \in 1..Len(got[u]) : got[u][i].err = "account"
        BY <4>1
      <4>3. got[u][i] \in Held(u)
        BY <4>1, GotOK
      <4>4. u = t
        BY <1>3, <1>4, <4>1, <4>2, <4>3 DEF ScanInv, ReportInv, OneReport
      <4> QED
        BY <3>2, <4>2, <4>4
    <3>4. Stream!IsSkipped(t, Strip(h))
      BY <1>11, <1>13, <1>14, <1>15, <2>2, <3>1, <3>2, <3>3
         DEF Stream!IsSkipped, FailedBar, GotBar
    <3> QED
      BY <3>4
  <2>3. CASE h.final /\ cred[Owner[t]] # "failed"
    <3>1. h.err # "account" /\ (h.err = "none" => ~h.partial)
      BY <1>5, <2>3 DEF SaysOK
    <3>2. h.err = "collect" => (h.partial <=> h.data \/ h.seq > 1)
      BY <1>5 DEF SaysOK
    <3>3. h.err = "collect" =>
            /\ (h.data \/ Len(got[t]) # 0) => h.partial
            /\ (~cancelled /\ h.partial) => (h.data \/ Len(got[t]) # 0)
      BY <1>6, <1>7, <1>9, <3>2
    <3>4. Stream!IsResult(t, Strip(h))
      BY <1>11, <1>13, <1>14, <2>3, <3>1, <3>3 DEF Stream!IsResult, FailedBar, GotBar
    <3> QED
      BY <3>4
  <2> QED
    BY <1>12, <2>1, <2>2, <2>3
<1>18. GotBar' = [GotBar EXCEPT ![t] = Append(@, Strip(h))]
  BY <1>1, <1>2, <1>3, BarAppend DEF ScanInv, h, t
<1>19. FailedBar' = FailedBar
  BY <1>1 DEF FailedBar
<1>20. t \in Stream!Task
  BY <1>3 DEF Task, Stream!Task
<1>21. PICK u \in Stream!Task, c \in Stream!Chunk : u = t /\ c = Strip(h)
  BY <1>11, <1>20
<1>22. Stream!IsPage(u, c) \/ Stream!IsResult(u, c) \/ Stream!IsSkipped(u, c)
  BY <1>17, <1>21
<1>23. ~Stream!Ended(u)
  BY <1>10, <1>21
<1>24. Stream!Deliver(u, c)
  BY <1>1, <1>18, <1>19, <1>21, <1>22, <1>23 DEF Stream!Deliver, GotBar, FailedBar
<1> QED
  BY <1>24

\* Credentials are resolved before anything was received.
LEMMA ResolveFails ==
    ASSUME ScanInv, NEW a \in Account, ResolveAccount(a)
    PROVE  Stream!Fail(a) \/ UNCHANGED Stream!vars
<1>1. /\ cred[a] = "pending" /\ cred'[a] \in {"ok", "failed"}
      /\ \A b \in Account \ {a} : cred'[b] = cred[b]
      /\ UNCHANGED <<cancelled, reader, got>>
  BY DEF ResolveAccount, consumerVars, ScanInv, TypeOK
<1>2. GotBar' = GotBar
  BY <1>1 DEF GotBar
<1>3. CASE cred'[a] = "ok"
  <2>1. FailedBar' = FailedBar
    BY <1>1, <1>3 DEF FailedBar
  <2> QED
    BY <1>1, <1>2, <2>1 DEF Stream!vars, GotBar, FailedBar
<1>4. CASE cred'[a] = "failed"
  <2>1. FailedBar' = FailedBar \union {a} /\ a \notin FailedBar
    BY <1>1, <1>4 DEF FailedBar
  <2>2. \A t \in Task : GotBar[t] = <<>>
    <3> SUFFICES ASSUME NEW t \in Task PROVE GotBar[t] = <<>>
      OBVIOUS
    <3>1. worker[t] = "idle" /\ made[t] = 0
      BY <1>1 DEF ScanInv, ContentInv, WorkerOK
    <3>2. Sent(t) = 0
      BY <3>1 DEF Sent
    <3>3. \A i \in 1..Len(got[t]) : FALSE
      BY <3>2 DEF ScanInv, OrderInv, InOrder
    <3> QED
      BY <3>3, BarOf DEF ScanInv
  <2> QED
    BY <1>1, <1>2, <2>1, <2>2 DEF Stream!Fail, Stream!Task, Task, GotBar, FailedBar
<1> QED
  BY <1>1, <1>3, <1>4

\* The end of the channel is the end of the stream.
LEMMA ReceiveClosedEnds ==
    ASSUME ScanInv, ReceiveClosed
    PROVE  Stream!End
<1>1. /\ reader = "reading" /\ closed /\ chan = <<>> /\ reader' = "ended"
      /\ UNCHANGED <<cred, cancelled, got>>
  BY DEF ReceiveClosed, launcherVars
<1>2. GotBar' = GotBar /\ FailedBar' = FailedBar
  BY <1>1 DEF GotBar, FailedBar
<1>3. ASSUME ~cancelled, NEW t \in Task
      PROVE  Stream!Ended(t) /\ (Owner[t] \in FailedBar => Stream!Reported(Owner[t]) # {})
  <2>1. Stream!Ended(t)
    <3>1. /\ Len(got[t]) = made[t] /\ made[t] \in Nat \ {0}
          /\ \A i \in 1..Len(got[t]) : got[t][i].final <=> i = Len(got[t])
      BY <1>1, <1>3, DrainedIsComplete
    <3>2. made[t] \in 1..Len(got[t])
      BY <3>1
    <3> QED
      BY <3>1, <3>2, BarEnded DEF ScanInv
  <2>2. ASSUME Owner[t] \in FailedBar PROVE Stream!Reported(Owner[t]) # {}
    <3>1. Owner[t] \in Account /\ cred[Owner[t]] = "failed"
      BY <2>2 DEF FailedBar
    <3> QED
      BY <1>1, <1>3, <3>1, ReportArrives, BarReported DEF ScanInv
  <2> QED
    BY <2>1, <2>2
<1> QED
  BY <1>1, <1>2, <1>3 DEF Stream!End, Stream!Task, Task, GotBar, FailedBar

LEMMA StreamInit == Init => Stream!Init
<1> SUFFICES ASSUME Init PROVE Stream!Init
  OBVIOUS
<1>1. TypeOK
  BY TypeInit
<1>2. \A t \in Task : got[t] = <<>>
  BY DEF Init
<1>3. \A t \in Task : GotBar[t] = <<>>
  BY <1>1, <1>2, BarOf
<1>4. GotBar = [t \in Task |-> <<>>]
  BY <1>3 DEF GotBar
<1>5. FailedBar = {}
  BY DEF Init, FailedBar
<1> QED
  BY <1>4, <1>5 DEF Init, Stream!Init, Stream!Task, Task, GotBar, FailedBar

LEMMA StreamNext == ScanInv /\ [Next]_vars => [Stream!Next]_(Stream!vars)
<1> SUFFICES ASSUME ScanInv, [Next]_vars PROVE [Stream!Next]_(Stream!vars)
  OBVIOUS
<1>1. ASSUME UNCHANGED <<cred, cancelled, reader, got>> PROVE UNCHANGED Stream!vars
  BY <1>1 DEF Stream!vars
<1>2. ASSUME NEW a \in Account, ResolveAccount(a) PROVE [Stream!Next]_(Stream!vars)
  BY <1>2, ResolveFails DEF Stream!Next
<1>3. CASE Receive
  BY <1>3, ReceiveDelivers DEF Stream!Next
<1>4. CASE ReceiveClosed
  BY <1>4, ReceiveClosedEnds DEF Stream!Next
<1>5. CASE Cancel
  <2>1. Stream!Cancel
    BY <1>5 DEF Cancel, Stream!Cancel, launcherVars
  <2> QED
    BY <2>1 DEF Stream!Next
<1>6. CASE Abandon
  <2>1. Stream!Leave
    BY <1>6 DEF Abandon, Stream!Leave, launcherVars
  <2> QED
    BY <2>1 DEF Stream!Next
<1>7. ASSUME NEW t \in Task, Worker(t) PROVE UNCHANGED Stream!vars
  <2>1. UNCHANGED <<cred, cancelled, reader, got>>
    BY <1>7 DEF Worker, SkipFailedAccount, EmitPage, CollectSucceeds, CollectFails, Send, Drop,
                launcherVars, consumerVars
  <2> QED
    BY <1>1, <2>1
<1>8. CASE Launch \/ Close \/ UNCHANGED vars
  <2>1. UNCHANGED <<cred, cancelled, reader, got>>
    BY <1>8 DEF Launch, Close, vars, launcherVars, consumerVars
  <2> QED
    BY <1>1, <2>1
<1> QED
  BY <1>2, <1>3, <1>4, <1>5, <1>6, <1>7, <1>8 DEF Next, Finished

\* A consumer cannot tell the engine, with its pool and its channel, from the
\* stream it is promised.
THEOREM StreamIsImplemented == Spec => ImplementsStream
  BY StreamInit, StreamNext, ScanInvariant, PTL DEF Spec, ImplementsStream, Stream!Spec
-------------------------------------------------------------------------------
(***************************************************************************)
(* The plan.                                                               *)
(***************************************************************************)

\* No two accounts, services or regions of one name.  The registry holds one
\* service for a name; the configuration is not checked for the rest.
NamesDistinct(p) ==
    /\ \A i, j \in DOMAIN p.accounts :
         accountName(p.accounts[i]) = accountName(p.accounts[j]) => i = j
    /\ \A i, j \in DOMAIN p.services : p.services[i].name = p.services[j].name => i = j
    /\ \A i, j \in DOMAIN Regions(p) : Regions(p)[i] = Regions(p)[j] => i = j

FiniteLists(p) ==
    /\ IsFiniteSet(DOMAIN p.accounts)
    /\ IsFiniteSet(DOMAIN p.services)
    /\ IsFiniteSet(DOMAIN Regions(p))

LEMMA CellsFinite ==
    ASSUME NEW p, FiniteLists(p)
    PROVE  IsFiniteSet(Cells(p))
<1>1. IsFiniteSet((DOMAIN Regions(p)) \union {0})
  BY FS_AddElement DEF FiniteLists
<1>2. IsFiniteSet((DOMAIN p.services) \X ((DOMAIN Regions(p)) \union {0}))
  BY <1>1, FS_Product DEF FiniteLists
<1>3. Cells(p) \in SUBSET ((DOMAIN p.services) \X ((DOMAIN Regions(p)) \union {0}))
  BY DEF Cells
<1> QED
  BY <1>2, <1>3, FS_Subset

LEMMA SweepsOfAccounts ==
    ASSUME NEW p
    PROVE  /\ MultiAccount(p) =>
                /\ DOMAIN Sweeps(p) = DOMAIN p.accounts
                /\ \A i \in DOMAIN p.accounts :
                     /\ Sweeps(p)[i].name = accountName(p.accounts[i])
                     /\ Sweeps(p)[i].creds = CredsOf(p.accounts[i])
           /\ ~MultiAccount(p) =>
                DOMAIN Sweeps(p) = {1} /\ Sweeps(p)[1].creds = Base
  BY DEF Sweeps

\* The tasks the TUI plans are those StreamRun launches, by the keys of their
\* markers.
LEMMA PlanIsRun ==
    ASSUME NEW p
    PROVE  /\ DOMAIN PlannedTaskKeys(p) = TasksOf(p, Sweeps(p))
           /\ \A t \in TasksOf(p, Sweeps(p)) :
                PlannedTaskKeys(p)[t] = MarkerKey(p, Sweeps(p), t)
<1>1. CASE MultiAccount(p)
  BY <1>1, SweepsOfAccounts DEF PlannedTaskKeys, TasksOf, MarkerKey
<1>2. CASE ~MultiAccount(p)
  BY <1>2, SweepsOfAccounts DEF PlannedTaskKeys, TasksOf, MarkerKey
<1> QED
  BY <1>1, <1>2

LEMMA CellKeysDistinct ==
    ASSUME NEW p, NamesDistinct(p), NEW c \in Cells(p), NEW d \in Cells(p),
           CellKey(p, c) = CellKey(p, d)
    PROVE  c = d
<1>1. /\ c[1] \in DOMAIN p.services /\ d[1] \in DOMAIN p.services
      /\ c = <<c[1], c[2]>> /\ d = <<d[1], d[2]>>
      /\ c[2] \in RegionsOf(p, p.services[c[1]]) /\ d[2] \in RegionsOf(p, p.services[d[1]])
  BY DEF Cells
<1>2. /\ p.services[c[1]].name = p.services[d[1]].name
      /\ RegionName(p, p.services[c[1]], c[2]) = RegionName(p, p.services[d[1]], d[2])
  BY DEF CellKey
<1>3. c[1] = d[1]
  BY <1>1, <1>2 DEF NamesDistinct
<1>4. CASE p.services[c[1]].global
  BY <1>1, <1>3, <1>4 DEF RegionsOf
<1>5. CASE ~p.services[c[1]].global
  <2>1. c[2] \in DOMAIN Regions(p) /\ d[2] \in DOMAIN Regions(p)
    BY <1>1, <1>3, <1>5 DEF RegionsOf, EffectiveRegions
  <2>2. Regions(p)[c[2]] = Regions(p)[d[2]]
    BY <1>2, <1>3, <1>5 DEF RegionName
  <2> QED
    BY <1>1, <1>3, <2>1, <2>2 DEF NamesDistinct
<1> QED
  BY <1>4, <1>5

LEMMA MarkerKeysDistinct ==
    ASSUME NEW p, NamesDistinct(p),
           NEW t \in TasksOf(p, Sweeps(p)), NEW u \in TasksOf(p, Sweeps(p)),
           MarkerKey(p, Sweeps(p), t) = MarkerKey(p, Sweeps(p), u)
    PROVE  t = u
<1>1. /\ t = <<t[1], t[2]>> /\ u = <<u[1], u[2]>>
      /\ t[1] \in DOMAIN Sweeps(p) /\ u[1] \in DOMAIN Sweeps(p)
      /\ t[2] \in Cells(p) /\ u[2] \in Cells(p)
  BY DEF TasksOf
<1>2. CellKey(p, t[2]) = CellKey(p, u[2])
  BY DEF MarkerKey
<1>3. t[2] = u[2]
  BY <1>1, <1>2, CellKeysDistinct
<1>4. t[1] = u[1]
  <2>1. CASE MultiAccount(p)
    <3>1. Sweeps(p)[t[1]].name = Sweeps(p)[u[1]].name
      BY <2>1 DEF MarkerKey
    <3> QED
      BY <1>1, <2>1, <3>1, SweepsOfAccounts DEF NamesDistinct
  <2>2. CASE ~MultiAccount(p)
    BY <1>1, <2>2, SweepsOfAccounts
  <2> QED
    BY <2>1, <2>2
<1> QED
  BY <1>1, <1>3, <1>4

LEMMA TasksFinite ==
    ASSUME NEW p, FiniteLists(p)
    PROVE  IsFiniteSet(TasksOf(p, Sweeps(p)))
<1>1. IsFiniteSet(DOMAIN Sweeps(p))
  <2>1. IsFiniteSet({1})
    BY FS_Singleton
  <2> QED
    BY <2>1, SweepsOfAccounts DEF FiniteLists
<1> QED
  BY <1>1, CellsFinite, FS_Product DEF TasksOf

\* While markers are under way the meter has counted those that have come.
MeterInv ==
    /\ plan \in Plan
    /\ tasksTotal = TaskCount(plan) /\ tasksTotal \in Nat
    /\ tasksDone \in 0..tasksTotal
    /\ phase = "resolving" => tasksDone = 0 /\ tasksPending = PendingKeys(plan)
    /\ phase = "collecting" =>
         /\ sweeps = Sweeps(plan)
         /\ left \subseteq TasksOf(plan, sweeps)
         /\ tasksDone + Cardinality(left) = tasksTotal
         /\ tasksPending = {MarkerKey(plan, sweeps, t) : t \in left}
    /\ phase # "collecting" => left = {}

LEMMA CountFinite ==
    ASSUME NEW p, FiniteLists(p)
    PROVE  /\ TaskCount(p) = Cardinality(TasksOf(p, Sweeps(p)))
           /\ TaskCount(p) \in Nat
           /\ PendingKeys(p) = {MarkerKey(p, Sweeps(p), t) : t \in TasksOf(p, Sweeps(p))}
<1>1. TaskCount(p) = Cardinality(TasksOf(p, Sweeps(p)))
  BY PlanIsRun DEF TaskCount
<1>2. TaskCount(p) \in Nat
  BY <1>1, TasksFinite, FS_CardinalityType
<1>3. PendingKeys(p) = {MarkerKey(p, Sweeps(p), t) : t \in TasksOf(p, Sweeps(p))}
  BY PlanIsRun DEF PendingKeys
<1> QED
  BY <1>1, <1>2, <1>3

\* A marker takes its own key off the meter and no other task's.
LEMMA MarkerCounts ==
    ASSUME NEW p, FiniteLists(p), NamesDistinct(p),
           NEW S \in SUBSET TasksOf(p, Sweeps(p)), NEW t \in S
    PROVE  LET Key(u) == MarkerKey(p, Sweeps(p), u) IN
           /\ Cardinality(S) \in Nat /\ Cardinality(S) > 0
           /\ Cardinality(S \ {t}) = Cardinality(S) - 1
           /\ Key(t) \in {Key(u) : u \in S}
           /\ {Key(u) : u \in S \ {t}} = {Key(u) : u \in S} \ {Key(t)}
<1> DEFINE Key(u) == MarkerKey(p, Sweeps(p), u)
<1>1. IsFiniteSet(S)
  BY TasksFinite, FS_Subset
<1>2. Cardinality(S) \in Nat /\ Cardinality(S \ {t}) = Cardinality(S) - 1
  BY <1>1, FS_CardinalityType, FS_RemoveElement
<1>3. Cardinality(S) # 0
  BY <1>1, FS_EmptySet
<1>4. \A u \in S : Key(u) = Key(t) => u = t
  BY MarkerKeysDistinct
<1> HIDE DEF Key
<1>5. {Key(u) : u \in S \ {t}} = {Key(u) : u \in S} \ {Key(t)}
  BY <1>4
<1> QED
  BY <1>2, <1>3, <1>5 DEF Key

\* In configurations without twins of a name the meter counts exactly the tasks
\* that are still running and lists them as pending, in any order they end in and
\* however often the scan is repeated.
THEOREM MeterStaysExact ==
    ASSUME \A p \in Plan : FiniteLists(p) /\ NamesDistinct(p)
    PROVE  PlanSpec => []MeterExact
<1>1. PlanInit => MeterInv
  <2> SUFFICES ASSUME PlanInit PROVE MeterInv
    OBVIOUS
  <2>1. plan \in Plan /\ TaskCount(plan) \in Nat
    BY CountFinite DEF PlanInit
  <2> QED
    BY <2>1 DEF PlanInit, MeterInv
<1>2. MeterInv /\ [PlanNext]_planVars => MeterInv'
  <2> SUFFICES ASSUME MeterInv, [PlanNext]_planVars PROVE MeterInv'
    OBVIOUS
  <2>0. FiniteLists(plan) /\ NamesDistinct(plan)
    BY DEF MeterInv
  <2>1. CASE StartScan
    <3>1. TaskCount(plan) \in Nat
      BY <2>0, CountFinite
    <3> QED
      BY <2>1, <3>1 DEF StartScan, ResetMeter, MeterInv
  <2>2. CASE BuildSweeps
    <3>1. /\ plan' = plan /\ tasksTotal' = tasksTotal /\ tasksDone' = 0
          /\ tasksPending' = PendingKeys(plan)
          /\ sweeps' = Sweeps(plan) /\ left' = TasksOf(plan, Sweeps(plan))
          /\ phase' = "collecting"
      BY <2>2 DEF BuildSweeps, MeterInv, meterVars
    <3>2. /\ TaskCount(plan) = Cardinality(TasksOf(plan, Sweeps(plan)))
          /\ PendingKeys(plan) =
               {MarkerKey(plan, Sweeps(plan), t) : t \in TasksOf(plan, Sweeps(plan))}
      BY <2>0, CountFinite
    <3> QED
      BY <3>1, <3>2 DEF MeterInv
  <2>3. ASSUME NEW t \in left, TaskEnds(t) PROVE MeterInv'
    <3> DEFINE key == MarkerKey(plan, Sweeps(plan), t)
    <3>1. /\ phase = "collecting" /\ sweeps = Sweeps(plan)
          /\ left \in SUBSET TasksOf(plan, Sweeps(plan))
          /\ tasksDone + Cardinality(left) = tasksTotal
          /\ tasksPending = {MarkerKey(plan, Sweeps(plan), u) : u \in left}
      BY <2>3 DEF MeterInv
    <3>2. /\ Cardinality(left) \in Nat /\ Cardinality(left) > 0
          /\ Cardinality(left \ {t}) = Cardinality(left) - 1
          /\ key \in {MarkerKey(plan, Sweeps(plan), u) : u \in left}
          /\ {MarkerKey(plan, Sweeps(plan), u) : u \in left \ {t}} =
               {MarkerKey(plan, Sweeps(plan), u) : u \in left} \ {key}
      BY <2>0, <2>3, <3>1, MarkerCounts
    <3> HIDE DEF key
    <3>3. key = MarkerKey(plan, sweeps, t)
      BY <3>1 DEF key
    <3>4. /\ left' = left \ {t} /\ tasksPending' = tasksPending \ {key}
          /\ tasksDone' = tasksDone + 1
          /\ UNCHANGED <<plan, sweepCfgs, phase, sweeps, tasksTotal>>
      BY <2>3, <3>1, <3>2, <3>3 DEF TaskEnds
    <3>5. tasksDone \in Nat /\ tasksTotal \in Nat
      BY DEF MeterInv
    <3>6. tasksDone' \in 0..tasksTotal /\ tasksDone' + Cardinality(left') = tasksTotal
      BY <3>1, <3>2, <3>4, <3>5
    <3>7. tasksPending' = {MarkerKey(plan, Sweeps(plan), u) : u \in left'}
      BY <3>1, <3>2, <3>4
    <3>8. left' \subseteq TasksOf(plan, Sweeps(plan))
      BY <3>1, <3>4
    <3> QED
      BY <3>1, <3>4, <3>6, <3>7, <3>8 DEF MeterInv
  <2>4. CASE ScanEnds
    BY <2>4 DEF ScanEnds, MeterInv, meterVars
  <2>5. CASE UNCHANGED planVars
    BY <2>5 DEF planVars, meterVars, MeterInv
  <2> QED
    BY <2>1, <2>2, <2>3, <2>4, <2>5 DEF PlanNext
<1>3. MeterInv => MeterExact
  BY DEF MeterInv, MeterExact
<1> QED
  BY <1>1, <1>2, <1>3, PTL DEF PlanSpec

\* Every row was collected by a sweep whose credentials AWSConfigFor still finds.
CredsInv ==
    /\ plan \in Plan
    /\ phase = "collecting" => sweeps = Sweeps(plan) /\ left \subseteq TasksOf(plan, sweeps)
    /\ phase # "collecting" => left = {}
    /\ MultiAccount(plan) =>
         /\ \A row \in rows : \E i \in DOMAIN Sweeps(plan) :
              /\ ~Sweeps(plan)[i].failed
              /\ row.label = Sweeps(plan)[i].name /\ row.creds = Sweeps(plan)[i].creds
         /\ rows # {} \/ phase = "collecting" => sweepCfgs = CfgsOf(Sweeps(plan))
    /\ ~MultiAccount(plan) =>
         /\ \A row \in rows : row.label = Base /\ row.creds = Base
         /\ DOMAIN sweepCfgs = {}

\* A resolved account's name finds its own credentials.
LEMMA CfgOfName ==
    ASSUME NEW p, MultiAccount(p), NamesDistinct(p), DOMAIN p.accounts \subseteq Nat,
           NEW i \in DOMAIN Sweeps(p), ~Sweeps(p)[i].failed
    PROVE  /\ Sweeps(p)[i].name \in DOMAIN CfgsOf(Sweeps(p))
           /\ CfgsOf(Sweeps(p))[Sweeps(p)[i].name] = Sweeps(p)[i].creds
<1> DEFINE sws == Sweeps(p)
           good == {j \in DOMAIN sws : ~sws[j].failed}
           n == sws[i].name
           Newest(m) == CHOOSE k \in good : /\ sws[k].name = m
                                            /\ \A j \in good : sws[j].name = m => j <= k
<1>1. DOMAIN sws \subseteq Nat
  BY SweepsOfAccounts
<1>2. \A j \in good : sws[j].name = n => j = i
  BY SweepsOfAccounts DEF NamesDistinct
<1>3. i \in good /\ i <= i
  BY <1>1
<1>4. CfgsOf(sws) = [m \in {sws[j].name : j \in good} |-> sws[Newest(m)].creds]
  BY DEF CfgsOf
<1> HIDE DEF sws, good
<1>5. Newest(n) = i
  BY <1>2, <1>3
<1> HIDE DEF Newest
<1> QED
  BY <1>3, <1>4, <1>5 DEF sws

\* The debug panes find by a row's account label the credentials the row was
\* collected with, through failed accounts and repeated scans, in configurations
\* without twins of a name.
THEOREM CredsStayMatched ==
    ASSUME \A p \in Plan : NamesDistinct(p) /\ DOMAIN p.accounts \subseteq Nat
    PROVE  PlanSpec => []CredsMatchAccount
<1>1. PlanInit => CredsInv
  <2> SUFFICES ASSUME PlanInit PROVE CredsInv
    OBVIOUS
  <2>1. DOMAIN sweepCfgs = {}
    BY DEF PlanInit
  <2> QED
    BY <2>1 DEF PlanInit, CredsInv
<1>2. CredsInv /\ [PlanNext]_planVars => CredsInv'
  <2> SUFFICES ASSUME CredsInv, [PlanNext]_planVars PROVE CredsInv'
    OBVIOUS
  <2>1. CASE StartScan
    BY <2>1 DEF StartScan, CredsInv
  <2>2. CASE BuildSweeps
    BY <2>2 DEF BuildSweeps, CredsInv
  <2>3. ASSUME NEW t \in left, TaskEnds(t) PROVE CredsInv'
    <3> DEFINE sw == sweeps[t[1]]
               row == [creds |-> sw.creds, label |-> Label(plan, sw)]
    <3>1. /\ phase = "collecting" /\ sweeps = Sweeps(plan)
          /\ left \subseteq TasksOf(plan, Sweeps(plan))
      BY <2>3 DEF CredsInv
    <3>2. t[1] \in DOMAIN Sweeps(plan)
      BY <2>3, <3>1 DEF TasksOf
    <3>3. /\ left' = left \ {t}
          /\ UNCHANGED <<plan, sweepCfgs, phase, sweeps>>
          /\ rows' = rows \/ (~sw.failed /\ rows' = rows \union {row})
      BY <2>3 DEF TaskEnds
    <3>4. MultiAccount(plan) =>
            row.label = Sweeps(plan)[t[1]].name /\ row.creds = Sweeps(plan)[t[1]].creds
      BY <3>1 DEF Label
    <3>5. ~MultiAccount(plan) => row.label = Base /\ row.creds = Base
      BY <3>1, <3>2, SweepsOfAccounts DEF Label
    <3>6. sw = Sweeps(plan)[t[1]]
      BY <3>1
    <3> HIDE DEF row, sw
    <3>7. CASE MultiAccount(plan)
      BY <3>1, <3>2, <3>3, <3>4, <3>6, <3>7 DEF CredsInv
    <3>8. CASE ~MultiAccount(plan)
      BY <3>1, <3>2, <3>3, <3>5, <3>8 DEF CredsInv
    <3> QED
      BY <3>7, <3>8
  <2>4. CASE ScanEnds
    BY <2>4 DEF ScanEnds, CredsInv
  <2>5. CASE UNCHANGED planVars
    BY <2>5 DEF planVars, CredsInv
  <2> QED
    BY <2>1, <2>2, <2>3, <2>4, <2>5 DEF PlanNext
<1>3. CredsInv => CredsMatchAccount
  <2> SUFFICES ASSUME CredsInv, NEW row \in rows PROVE AWSConfigFor(row.label) = row.creds
    BY DEF CredsMatchAccount
  <2>1. CASE MultiAccount(plan)
    <3>1. PICK i \in DOMAIN Sweeps(plan) :
            /\ ~Sweeps(plan)[i].failed
            /\ row.label = Sweeps(plan)[i].name /\ row.creds = Sweeps(plan)[i].creds
      BY <2>1 DEF CredsInv
    <3>2. sweepCfgs = CfgsOf(Sweeps(plan))
      BY <2>1 DEF CredsInv
    <3> QED
      BY <2>1, <3>1, <3>2, CfgOfName DEF CredsInv, AWSConfigFor
  <2>2. CASE ~MultiAccount(plan)
    BY <2>2 DEF CredsInv, AWSConfigFor
  <2> QED
    BY <2>1, <2>2
<1> QED
  BY <1>1, <1>2, <1>3, PTL DEF PlanSpec
===============================================================================
