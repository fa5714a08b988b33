------------------------------ MODULE ScanStream ------------------------------
(***************************************************************************)
(* What a consumer of engine.StreamRun is promised, without workers, pool  *)
(* or channel: for every planned task a stream of non-empty pages that     *)
(* ends in exactly one final chunk (the one with the progress marker), and *)
(* then the end of the stream.  A cancelled scan may leave chunks out, and *)
(* that is all it may do.  ScanEngine is shown to implement this module.   *)
(***************************************************************************)
EXTENDS Naturals, Sequences

CONSTANTS N,        \* number of planned tasks, numbered in launch order
          Account,  \* account sweeps
          Owner     \* Owner[t]: the account sweep task t belongs to

VARIABLES got,        \* got[t]: the chunks of task t received, in order
          failed,     \* accounts whose credentials could not be resolved
          cancelled,  \* the scan's context is done
          reader      \* the consumer: "reading", "gone", or "ended"

vars == <<got, failed, cancelled, reader>>

Task == 1..N

\* A chunk as a consumer tells them apart: data (Resources is not empty),
\* final (Progress is set), err (no error, the account's, or the collector's),
\* partial (the error's Partial flag).
Chunk == [data : BOOLEAN, final : BOOLEAN,
          err : {"none", "account", "collect"}, partial : BOOLEAN]

Ended(t) == \E i \in DOMAIN got[t] : got[t][i].final

Reported(a) == {t \in Task : /\ Owner[t] = a
                             /\ \E i \in DOMAIN got[t] : got[t][i].err = "account"}

Init ==
    /\ got = [t \in Task |-> <<>>]
    /\ failed = {}
    /\ cancelled = FALSE
    /\ reader = "reading"

\* Credentials are all resolved before the first chunk.
Fail(a) ==
    /\ a \notin failed
    /\ \A t \in Task : got[t] = <<>>
    /\ failed' = failed \union {a}
    /\ UNCHANGED <<got, cancelled, reader>>

\* A page: resources and nothing else, only from an account that resolved.
IsPage(t, c) ==
    /\ Owner[t] \notin failed
    /\ c.data /\ ~c.final /\ c.err = "none" /\ ~c.partial

\* The final chunk of a task that collected.  "partial" must say whether the
\* consumer holds rows of this task: it is exact unless the scan was cancelled.
IsResult(t, c) ==
    /\ Owner[t] \notin failed
    /\ c.final /\ c.err # "account"
    /\ c.err = "none" => ~c.partial
    /\ c.err = "collect" =>
         /\ (c.data \/ got[t] # <<>>) => c.partial
         /\ (~cancelled /\ c.partial) => (c.data \/ got[t] # <<>>)

\* The marker of a task of a failed account: no rows, and the account's error
\* in one of them only.
IsSkipped(t, c) ==
    /\ Owner[t] \in failed
    /\ got[t] = <<>>
    /\ ~c.data /\ c.final /\ ~c.partial
    /\ c.err \in {"none", "account"}
    /\ c.err = "account" => Reported(Owner[t]) = {}

Deliver(t, c) ==
    /\ reader = "reading"
    /\ ~Ended(t)
    /\ IsPage(t, c) \/ IsResult(t, c) \/ IsSkipped(t, c)
    /\ got' = [got EXCEPT ![t] = Append(@, c)]
    /\ UNCHANGED <<failed, cancelled, reader>>

Cancel ==
    /\ ~cancelled
    /\ cancelled' = TRUE
    /\ UNCHANGED <<got, failed, reader>>

Leave ==
    /\ cancelled
    /\ reader = "reading"
    /\ reader' = "gone"
    /\ UNCHANGED <<got, failed, cancelled>>

\* The stream ends only when every task has ended and every failed account
\* with a planned task was reported, or the scan was cancelled.
End ==
    /\ reader = "reading"
    /\ \/ cancelled
       \/ /\ \A t \in Task : Ended(t)
          /\ \A t \in Task : Owner[t] \in failed => Reported(Owner[t]) # {}
    /\ reader' = "ended"
    /\ UNCHANGED <<got, failed, cancelled>>

Next ==
    \/ \E a \in Account : Fail(a)
    \/ \E t \in Task, c \in Chunk : Deliver(t, c)
    \/ Cancel
    \/ Leave
    \/ End

Spec == Init /\ [][Next]_vars
===============================================================================
