------------------------------ MODULE ScanEngine ------------------------------
(***************************************************************************)
(* engine.StreamRun: one launcher, one worker goroutine per planned task   *)
(* in a pool of Limit, a buffered channel of Cap chunks, one consumer.     *)
(*                                                                         *)
(* Tasks are numbered in launch order (account sweep, then service, then   *)
(* region), so a task stands for one iteration of the innermost loop.      *)
(***************************************************************************)
EXTENDS Naturals, Sequences, FiniteSets

CONSTANTS N,         \* number of planned tasks
          Account,   \* account sweeps (a single one without config.accounts)
          Owner,     \* Owner[t]: the sweep of task t
          MayFail,   \* sweeps that name a profile or a role, which can be unusable
          Limit,     \* App.MaxConcurrency, 8 when unset
          Cap,       \* capacity of the chunk channel
          MaxPages   \* bound: pages a collector emits before it returns

ASSUME EngineAssumption ==
    /\ N \in Nat
    /\ Owner \in [1..N -> Account]
    /\ MayFail \subseteq Account
    /\ Limit \in Nat \ {0}
    /\ Cap \in Nat \ {0}
    /\ MaxPages \in Nat

VARIABLES
    cred,       \* cred[a]: "pending", "ok" or "failed"
    next,       \* the task the launcher launches next
    closed,     \* close(chunks) has run
    worker,     \* worker[t]: "idle", "running", "sending" or "finished"
    outbox,     \* outbox[t]: the chunk the worker is sending
    made,       \* made[t]: chunks the worker has built so far
    emitted,    \* emitted[t]: pages kept by the filter so far
    reported,   \* accounts whose errOnce has fired
    chan,       \* the buffered channel
    cancelled,  \* the scan's context is done
    reader,     \* the consumer: "reading", "gone" or "ended"
    got         \* got[t]: the chunks of task t the consumer has received

launcherVars == <<cred, next, closed>>
workerVars   == <<worker, outbox, made, emitted, reported>>
consumerVars == <<cancelled, reader, got>>
vars == <<launcherVars, workerVars, chan, consumerVars>>

Task == 1..N

\* model.ResultChunk, by what its consumers branch on.  task and seq are
\* history: which worker built it, and its place among the worker's chunks.
Chunk == [task : Task, seq : Nat, data : BOOLEAN, final : BOOLEAN,
          err : {"none", "account", "collect"}, partial : BOOLEAN]

Page(t, n) ==
    [task |-> t, seq |-> n, data |-> TRUE, final |-> FALSE,
     err |-> "none", partial |-> FALSE]

Marker(t, n, data, err, partial) ==
    [task |-> t, seq |-> n, data |-> data, final |-> TRUE,
     err |-> err, partial |-> partial]

\* The value of outbox[t] while no chunk is being sent.
NoChunk(t) == Page(t, 0)

Active == {t \in Task : worker[t] \in {"running", "sending"}}

Init ==
    /\ cred = [a \in Account |-> "pending"]
    /\ next = 1
    /\ closed = FALSE
    /\ worker = [t \in Task |-> "idle"]
    /\ outbox = [t \in Task |-> NoChunk(t)]
    /\ made = [t \in Task |-> 0]
    /\ emitted = [t \in Task |-> 0]
    /\ reported = {}
    /\ chan = <<>>
    /\ cancelled = FALSE
    /\ reader = "reading"
    /\ got = [t \in Task |-> <<>>]

-------------------------------------------------------------------------------
(* The launcher. *)

\* One goroutine of buildSweeps: the sweep gets its config or an Err.
ResolveAccount(a) ==
    /\ cred[a] = "pending"
    /\ \E outcome \in {"ok"} \union (IF a \in MayFail THEN {"failed"} ELSE {}) :
         cred' = [cred EXCEPT ![a] = outcome]
    /\ UNCHANGED <<next, closed, workerVars, chan, consumerVars>>

\* Mutant: one iteration too many.
Launch_OffByOne ==
    /\ \A a \in Account : cred[a] # "pending"
    /\ next <= N + 1
    /\ Cardinality(Active) < Limit
    /\ worker' = [t \in Task |-> IF t = next THEN "running" ELSE worker[t]]
    /\ next' = next + 1
    /\ UNCHANGED <<cred, closed, outbox, made, emitted, reported, chan, consumerVars>>

\* g.Go: waits for every sweep (wg.Wait) and for a free slot (SetLimit).
\* A cancelled context does not stop the loop.
Launch ==
    /\ \A a \in Account : cred[a] # "pending"
    /\ next \in Task
    /\ Cardinality(Active) < Limit
    /\ worker' = [worker EXCEPT ![next] = "running"]
    /\ next' = next + 1
    /\ UNCHANGED <<cred, closed, outbox, made, emitted, reported, chan, consumerVars>>

\* Mutant: no g.Wait.
Close_NoWait ==
    /\ \A a \in Account : cred[a] # "pending"
    /\ next \notin Task
    /\ ~closed
    /\ closed' = TRUE
    /\ UNCHANGED <<cred, next, workerVars, chan, consumerVars>>

\* g.Wait, then the deferred close(chunks).
Close ==
    /\ \A a \in Account : cred[a] # "pending"
    /\ next \notin Task
    /\ Active = {}
    /\ ~closed
    /\ closed' = TRUE
    /\ UNCHANGED <<cred, next, workerVars, chan, consumerVars>>

-------------------------------------------------------------------------------
(* A worker. *)

\* The worker has built a chunk and blocks in send.
Offer(t, c) ==
    /\ outbox' = [outbox EXCEPT ![t] = c]
    /\ made' = [made EXCEPT ![t] = @ + 1]
    /\ worker' = [worker EXCEPT ![t] = "sending"]

\* Mutant: every task of the account reports its error.
SkipFailedAccount_NoOnce(t) ==
    /\ worker[t] = "running"
    /\ cred[Owner[t]] = "failed"
    /\ Offer(t, Marker(t, made[t] + 1, FALSE, "account", FALSE))
    /\ UNCHANGED <<launcherVars, emitted, reported, chan, consumerVars>>

\* sw.Err # nil: a marker for the meter; the first one carries the error.
SkipFailedAccount(t) ==
    LET a == Owner[t] IN
    /\ worker[t] = "running"
    /\ cred[a] = "failed"
    /\ Offer(t, Marker(t, made[t] + 1, FALSE,
                       IF a \in reported THEN "none" ELSE "account", FALSE))
    /\ reported' = reported \union {a}
    /\ UNCHANGED <<launcherVars, emitted, chan, consumerVars>>

\* input.Emit with a batch of which the filter keeps something.
EmitPage(t) ==
    /\ worker[t] = "running"
    /\ cred[Owner[t]] = "ok"
    /\ emitted[t] < MaxPages
    /\ emitted' = [emitted EXCEPT ![t] = @ + 1]
    /\ Offer(t, Page(t, made[t] + 1))
    /\ UNCHANGED <<launcherVars, reported, chan, consumerVars>>

\* Collect returns without an error; the rows it still holds may be none.
CollectSucceeds(t) ==
    /\ worker[t] = "running"
    /\ cred[Owner[t]] = "ok"
    /\ \E data \in BOOLEAN : Offer(t, Marker(t, made[t] + 1, data, "none", FALSE))
    /\ UNCHANGED <<launcherVars, emitted, reported, chan, consumerVars>>

\* Mutant: only rows that come with the error count as kept.
CollectFails_ForgetsPages(t) ==
    /\ worker[t] = "running"
    /\ cred[Owner[t]] = "ok"
    /\ \E data \in BOOLEAN : Offer(t, Marker(t, made[t] + 1, data, "collect", data))
    /\ UNCHANGED <<launcherVars, emitted, reported, chan, consumerVars>>

\* Mutant: no chunk, and so no progress marker, for an error without rows.
CollectFails_NoMarker(t) ==
    /\ worker[t] = "running"
    /\ cred[Owner[t]] = "ok"
    /\ worker' = [worker EXCEPT ![t] = "finished"]
    /\ UNCHANGED <<launcherVars, outbox, made, emitted, reported, chan, consumerVars>>

\* Collect returns an error (refused, expired, timed out, cancelled, other),
\* possibly with rows gathered before it.
CollectFails(t) ==
    /\ worker[t] = "running"
    /\ cred[Owner[t]] = "ok"
    /\ \E data \in BOOLEAN :
         Offer(t, Marker(t, made[t] + 1, data, "collect", data \/ emitted[t] > 0))
    /\ UNCHANGED <<launcherVars, emitted, reported, chan, consumerVars>>

\* send is over: Collect goes on after a page, the goroutine returns (and
\* frees its slot) after its final chunk.
Resume(t) ==
    /\ worker' = [worker EXCEPT ![t] = IF outbox[t].final THEN "finished" ELSE "running"]
    /\ outbox' = [outbox EXCEPT ![t] = NoChunk(t)]

\* case chunks <- chunk
Send(t) ==
    /\ worker[t] = "sending"
    /\ Len(chan) < Cap
    /\ chan' = Append(chan, outbox[t])
    /\ Resume(t)
    /\ UNCHANGED <<launcherVars, made, emitted, reported, consumerVars>>

\* Mutant: send gives up on the collector's timeout.
Drop_OnTimeout(t) ==
    /\ worker[t] = "sending"
    /\ Resume(t)
    /\ UNCHANGED <<launcherVars, made, emitted, reported, chan, consumerVars>>

\* Mutant: send tries again after the scan is torn down.
Drop_Retries(t) ==
    /\ worker[t] = "sending"
    /\ cancelled
    /\ UNCHANGED vars

\* case <-gCtx.Done(): only the scan's own context, never the collector timeout
Drop(t) ==
    /\ worker[t] = "sending"
    /\ cancelled
    /\ Resume(t)
    /\ UNCHANGED <<launcherVars, made, emitted, reported, chan, consumerVars>>

-------------------------------------------------------------------------------
(* The consumer: Run, the CLI's streams, the TUI's waitForChunk. *)

Receive ==
    /\ reader = "reading"
    /\ chan # <<>>
    /\ got' = [got EXCEPT ![Head(chan).task] = Append(@, Head(chan))]
    /\ chan' = Tail(chan)
    /\ UNCHANGED <<launcherVars, workerVars, cancelled, reader>>

\* Mutant: the consumer does not look whether the channel is closed.
ReceiveClosed_Spins ==
    /\ reader = "reading"
    /\ closed
    /\ chan = <<>>
    /\ UNCHANGED vars

\* Receiving from the closed, drained channel ends the range loop.
ReceiveClosed ==
    /\ reader = "reading"
    /\ closed
    /\ chan = <<>>
    /\ reader' = "ended"
    /\ UNCHANGED <<launcherVars, workerVars, chan, cancelled, got>>

Cancel ==
    /\ ~cancelled
    /\ cancelled' = TRUE
    /\ UNCHANGED <<launcherVars, workerVars, chan, reader, got>>

\* A TUI that cancelled a scan stops reading its channel (the new scan has
\* another one); no consumer stops reading a scan it has not cancelled.
Abandon ==
    /\ cancelled
    /\ reader = "reading"
    /\ reader' = "gone"
    /\ UNCHANGED <<launcherVars, workerVars, chan, cancelled, got>>

-------------------------------------------------------------------------------
Worker(t) ==
    \/ SkipFailedAccount(t)
    \/ EmitPage(t)
    \/ CollectSucceeds(t)
    \/ CollectFails(t)
    \/ Send(t)
    \/ Drop(t)

\* Everything that will ever happen has.
Finished == closed /\ reader # "reading" /\ UNCHANGED vars

Next ==
    \/ \E a \in Account : ResolveAccount(a)
    \/ Launch
    \/ Close
    \/ \E t \in Task : Worker(t)
    \/ Receive
    \/ ReceiveClosed
    \/ Cancel
    \/ Abandon
    \/ Finished

Spec == Init /\ [][Next]_vars

\* Goroutines are scheduled, credentials resolve or fail, Collect returns (its
\* context has a deadline or the SDK's own), and a consumer that has not
\* cancelled keeps reading.  Nothing makes a user cancel.
Fairness ==
    /\ \A a \in Account : WF_vars(ResolveAccount(a))
    /\ WF_vars(Launch)
    /\ WF_vars(Close)
    /\ \A t \in Task : WF_vars(Worker(t))
    /\ WF_vars(Receive)
    /\ WF_vars(ReceiveClosed)

FairSpec == Spec /\ Fairness

-------------------------------------------------------------------------------
(* Properties. *)

TypeOK ==
    /\ cred \in [Account -> {"pending", "ok", "failed"}]
    /\ next \in 1..(N + 1)
    /\ closed \in BOOLEAN
    /\ worker \in [Task -> {"idle", "running", "sending", "finished"}]
    /\ outbox \in [Task -> Chunk]
    /\ made \in [Task -> Nat]
    /\ emitted \in [Task -> Nat]
    /\ reported \subseteq Account
    /\ chan \in Seq(Chunk)
    /\ cancelled \in BOOLEAN
    /\ reader \in {"reading", "gone", "ended"}
    /\ got \in [Task -> Seq(Chunk)]

\* No worker can still send once the channel is closed (a send on a closed
\* channel panics), and none can start any more: the deferred close in
\* StreamRun comes after g.Wait has seen every launched worker return.
CloseIsLast ==
    closed => \A t \in Task : worker[t] = "finished"

\* The chunks of task t its worker has handed over (the last one built may
\* still be in send).
Sent(t) == IF worker[t] = "sending" THEN made[t] - 1 ELSE made[t]

\* What the consumer holds of task t is the beginning of what was sent ...
GotIsPrefix(t) ==
    /\ Len(got[t]) <= Sent(t)
    /\ \A i \in 1..Len(got[t]) : got[t][i].seq = i

\* ... and the channel holds the rest of it ...
RestInChannel(t) ==
    /\ \A n \in (Len(got[t]) + 1)..Sent(t) :
         \E i \in 1..Len(chan) : chan[i].task = t /\ chan[i].seq = n
    /\ \A i \in 1..Len(chan) :
         chan[i].task = t => chan[i].seq \in (Len(got[t]) + 1)..Sent(t)

\* ... in order.
RestInOrder(t) ==
    \A i, j \in 1..Len(chan) :
      (i < j /\ chan[i].task = t /\ chan[j].task = t) => chan[i].seq < chan[j].seq

\* Until the scan is cancelled no chunk is lost, duplicated or overtaken by
\* another chunk of its task on the way from the worker to the consumer, with
\* or without a collector timeout and however full the channel is.
NothingLost ==
    ~cancelled => \A t \in Task : GotIsPrefix(t) /\ RestInChannel(t) /\ RestInOrder(t)

\* A scan that was not cancelled ends with every task accounted for: one
\* progress marker each, the last chunk of the task, so the meter reaches 100%.
EveryTaskEnds ==
    (reader = "ended" /\ ~cancelled) =>
      \A t \in Task :
        /\ got[t] # <<>>
        /\ \A i \in DOMAIN got[t] : got[t][i].final <=> i = Len(got[t])

\* Tasks whose chunks told the consumer that their account failed.
AccountReports(a) ==
    {t \in Task : Owner[t] = a /\ \E i \in DOMAIN got[t] : got[t][i].err = "account"}

\* A failed account is reported exactly once by an uncancelled scan however its
\* workers interleave (errOnce is shared by the copies of the sweep), provided
\* it has a task to report it; it never contributes a row.
AccountErrorOnce ==
    \A a \in Account :
      /\ Cardinality(AccountReports(a)) <= 1
      /\ (reader = "ended" /\ ~cancelled /\ cred[a] = "failed" /\ \E t \in Task : Owner[t] = a)
           => Cardinality(AccountReports(a)) = 1
      /\ cred[a] = "failed" =>
           \A t \in Task : Owner[t] = a => \A i \in DOMAIN got[t] : ~got[t][i].data

\* The Partial flag of an error is true exactly when the consumer holds rows
\* of that task, whether they came in pages or with the error.
PartialIsHonest ==
    ~cancelled =>
      \A t \in Task : \A i \in DOMAIN got[t] :
        got[t][i].err = "collect" =>
          (got[t][i].partial <=> \E j \in 1..i : got[t][j].data)

\* What StreamRun promises, as a state machine of its own.
Strip(c) == [data |-> c.data, final |-> c.final, err |-> c.err, partial |-> c.partial]

Stream == INSTANCE ScanStream WITH
    got    <- [t \in Task |-> [i \in DOMAIN got[t] |-> Strip(got[t][i])]],
    failed <- {a \in Account : cred[a] = "failed"}

ImplementsStream == Stream!Spec

\* Every scan closes its channel, also when its consumer has gone: cancelled
\* workers drop their chunks instead of blocking forever.
ScanCloses == <>closed

\* A consumer that stays sees the end of the stream.
ConsumerSeesEnd == <>(reader # "reading")
===============================================================================
