-------------------------------- MODULE SqsTUI --------------------------------
(***************************************************************************)
(* The SQS explorer: a filtered list of queues, the detail of the selected *)
(* one (cached by key), a peek at its messages behind a consent prompt,    *)
(* its metrics and the jump to its consumer's logs.  Selection is a        *)
(* position, so a list that arrives changes what is selected.              *)
(***************************************************************************)
EXTENDS Tea

CONSTANTS
    Queue,    \* queues, numbered in the order of the list
    QMatch,   \* those the search term matches
    DLQ       \* the dead-letter queue of each, None without one

\* filterQueues: the selected position stays inside the list.
filterQueues(s) ==
    LET f == {q \in s.queues : s.search => q \in QMatch}
    IN  [s EXCEPT !.filtered = f,
                  !.selectedIdx = IF @ < Cardinality(f) \/ @ = 0 THEN @
                                  ELSE IF f = {} THEN 0 ELSE Cardinality(f) - 1]

Position(q, S) == Cardinality({p \in S : p < q})

selectedQueue(s) ==
    IF s.selectedIdx >= Cardinality(s.filtered) THEN None
    ELSE CHOOSE q \in s.filtered : Position(q, s.filtered) = s.selectedIdx

Selected == selectedQueue(m)

\* View: the about and help texts, the overlays, then the panel; the search
\* line stands in the sidebar.
Drawn(s) ==
    IF s.err THEN "error" ELSE IF s.overlay THEN "text" ELSE
    IF s.recordActive THEN "record" ELSE IF s.peekConfirm THEN "confirm" ELSE
    IF s.searchActive THEN "search" ELSE s.view

\* Mutant: the consent prompt takes no precedence over the messages.
Routed_ViewFirst(s) ==
    IF s.err THEN "error" ELSE IF s.overlay THEN "text" ELSE
    IF s.recordActive THEN "record" ELSE IF s.view = "messages" THEN "messages" ELSE
    IF s.peekConfirm THEN "confirm" ELSE IF s.searchActive THEN "search" ELSE s.view

\* Update: the page a key goes to.
Routed(s) ==
    IF s.err THEN "error" ELSE IF s.overlay THEN "text" ELSE
    IF s.recordActive THEN "record" ELSE IF s.peekConfirm THEN "confirm" ELSE
    IF s.searchActive THEN "search" ELSE IF s.view = "messages" THEN "messages" ELSE
    "overview"

Page == Routed(m)

Init ==
    /\ m = [queues |-> {}, filtered |-> {}, selectedIdx |-> 0, search |-> FALSE,
            searchActive |-> FALSE, queuesLoading |-> TRUE, err |-> FALSE,
            details |-> {}, detailLoading |-> FALSE, view |-> "overview",
            peekConfirm |-> FALSE, peekLoading |-> FALSE, peekQueue |-> None,
            messages |-> None, recordActive |-> FALSE,
            metrics |-> {}, metricsVisible |-> FALSE, metricsLoading |-> FALSE,
            jumpLoading |-> FALSE, overlay |-> FALSE,
            over |-> None]   \* history: the sample over which another peek was confirmed
    /\ cmds = Batch({Cmd("queues", 0, None)})

\* Mutant: the queue that a search has come to rest on is not loaded.
eagerDetailCmd_OnlyCached(s) == m' = s /\ UNCHANGED cmds

\* eagerDetailCmd: the selected queue's detail, unless it is cached.
eagerDetailCmd(s) ==
    LET q == selectedQueue(s)
    IN  \/ (q = None /\ m' = s /\ UNCHANGED cmds)
        \/ /\ q \in s.details
           /\ m' = [s EXCEPT !.detailLoading = FALSE] /\ UNCHANGED cmds
        \/ /\ q \in Queue \ s.details
           /\ m' = [s EXCEPT !.detailLoading = TRUE] /\ Return({Cmd("detail", 0, q)})

\* queuesMsg: whatever list arrives replaces the one there is.
queuesMsg(c) ==
    /\ c.kind = "queues"
    /\ \/ /\ m' = [m EXCEPT !.queuesLoading = FALSE, !.err = TRUE]
          /\ ReturnFrom(c, {})
       \/ \E qs \in SUBSET Queue :
            LET s == filterQueues([m EXCEPT !.queuesLoading = FALSE, !.queues = qs])
                q == selectedQueue(s)
            IN  IF q = None THEN m' = s /\ ReturnFrom(c, {})
                ELSE /\ m' = [s EXCEPT !.detailLoading = TRUE]
                     /\ ReturnFrom(c, {Cmd("detail", 0, q)})

\* detailMsg: cached under its key, a detail whose calls failed as well.
detailMsg(c) ==
    /\ c.kind = "detail"
    /\ m' = [m EXCEPT !.details = @ \union {c.key},
                      !.detailLoading = @ /\ Selected # c.key]
    /\ ReturnFrom(c, {})

\* Mutant: the sample of whichever queue is shown.
peekMsg_AnyQueue(c) ==
    /\ c.kind = "peek"
    /\ \/ m' = [m EXCEPT !.peekLoading = FALSE]
       \/ m' = [m EXCEPT !.peekLoading = FALSE, !.messages = c.key, !.over = None,
                         !.view = "messages"]
    /\ ReturnFrom(c, {})

\* peekMsg: dropped unless it is of the queue peeked last; otherwise the
\* sample takes over the panel, wherever the selection is by now.
peekMsg(c) ==
    /\ c.kind = "peek"
    /\ IF c.key # m.peekQueue THEN m' = m
       ELSE \/ m' = [m EXCEPT !.peekLoading = FALSE]
            \/ m' = [m EXCEPT !.peekLoading = FALSE, !.messages = c.key, !.over = None,
                              !.view = "messages"]
    /\ ReturnFrom(c, {})

metricsMsg(c) ==
    /\ c.kind = "metrics"
    /\ m' = [m EXCEPT !.metricsLoading = FALSE, !.metrics = @ \union {c.key}]
    /\ ReturnFrom(c, {})

\* consumersMsg: a jump only for the queue that is still selected.
consumersMsg(c) ==
    /\ c.kind = "consumers"
    /\ m' = [m EXCEPT !.jumpLoading = FALSE] /\ ReturnFrom(c, {})

\* Enter on the error screen loads again only if there is no list at all.
ClearError ==
    /\ Page = "error"
    /\ IF m.queues # {} THEN m' = [m EXCEPT !.err = FALSE] /\ UNCHANGED cmds
       ELSE /\ m' = [m EXCEPT !.err = FALSE, !.queuesLoading = TRUE]
            /\ Return({Cmd("queues", 0, None)})

\* About and help, and the key that closes them.
OverlayKeys ==
    /\ Page \in {"text", "overview", "messages", "record"}
    /\ m' = [m EXCEPT !.overlay = ~@]
    /\ UNCHANGED cmds

\* "P", also from the messages of the last peek.
Peek ==
    /\ Page = "messages" \/ (Page = "overview" /\ Selected # None)
    /\ m' = [m EXCEPT !.view = "overview", !.messages = None, !.over = None, !.peekConfirm = TRUE]
    /\ UNCHANGED cmds

\* The consent prompt peeks at the queue that is selected when "y" is pressed; the
\* sample that an earlier peek has put under the prompt stays on display.
Confirm ==
    /\ Page = "confirm"
    /\ \/ (m' = [m EXCEPT !.peekConfirm = FALSE] /\ UNCHANGED cmds)
       \/ /\ Selected # None
          /\ m' = [m EXCEPT !.peekConfirm = FALSE, !.peekQueue = Selected, !.peekLoading = TRUE,
                            !.over = IF m.view = "messages" /\ m.messages # Selected
                                       THEN m.messages ELSE None]
          /\ Return({Cmd("peek", 0, Selected)})

\* The search line: typing filters, Enter and Esc also load the detail.
Search ==
    \/ /\ Page = "overview"
       /\ m' = [m EXCEPT !.searchActive = TRUE] /\ UNCHANGED cmds
    \/ /\ Page = "search"
       /\ \/ /\ \E t \in BOOLEAN : m' = filterQueues([m EXCEPT !.search = t])
             /\ UNCHANGED cmds
          \/ \E t \in {m.search, FALSE} :
               eagerDetailCmd(filterQueues([m EXCEPT !.searchActive = FALSE, !.search = t]))

\* Up and down wrap around; "d" goes to the dead-letter queue when listed.
moveSelection ==
    LET n == Cardinality(m.filtered)
    IN  /\ Page = "overview" /\ n > 0
        /\ \E d \in {1, n - 1} :
             eagerDetailCmd([m EXCEPT !.selectedIdx = (@ + d) % n])

jumpToDLQ ==
    /\ Page = "overview" /\ Selected \in m.details /\ DLQ[Selected] \in m.filtered
    /\ eagerDetailCmd([m EXCEPT !.selectedIdx = Position(DLQ[Selected], m.filtered)])

\* "m": the cached series serve until the floor has passed, at some moment.
toggleMetrics ==
    /\ Page = "overview" /\ Selected # None
    /\ \/ /\ m.metricsVisible \/ Selected \in m.metrics
          /\ m' = [m EXCEPT !.metricsVisible = ~@] /\ UNCHANGED cmds
       \/ /\ ~m.metricsVisible
          /\ m' = [m EXCEPT !.metricsVisible = TRUE, !.metricsLoading = TRUE]
          /\ Return({Cmd("metrics", 0, Selected)})

startConsumerJump ==
    /\ Page = "overview" /\ Selected # None /\ ~m.jumpLoading
    /\ m' = [m EXCEPT !.jumpLoading = TRUE] /\ Return({Cmd("consumers", 0, Selected)})

\* "r" and "R".
Refresh ==
    /\ Page = "overview"
    /\ \/ /\ Selected # None
          /\ m' = [m EXCEPT !.detailLoading = TRUE, !.metrics = @ \ {Selected},
                            !.metricsLoading = @ \/ m.metricsVisible]
          /\ Return({Cmd("detail", 0, Selected)}
                    \union {Cmd("metrics", 0, q) : q \in {Selected} \intersect
                              (IF m.metricsVisible THEN Queue ELSE {})})
       \/ /\ m' = [m EXCEPT !.queuesLoading = TRUE]
          /\ Return({Cmd("queues", 0, None)})

\* The messages view and the record of one message.  Messages of a view that was
\* left are not shown again: only a new sample opens it.
handleMessagesKeys ==
    /\ Page = "messages"
    /\ \/ m' = [m EXCEPT !.view = "overview", !.messages = None, !.over = None]
       \/ m' = [m EXCEPT !.recordActive = TRUE]
    /\ UNCHANGED cmds

handleRecordKeys ==
    /\ Page = "record"
    /\ m' = [m EXCEPT !.recordActive = FALSE] /\ UNCHANGED cmds

handleOverviewKeys ==
    \/ Peek \/ moveSelection \/ jumpToDLQ \/ toggleMetrics \/ startConsumerJump \/ Refresh

Keys ==
    \/ ClearError \/ OverlayKeys \/ Confirm \/ Search \/ handleOverviewKeys
    \/ handleMessagesKeys \/ handleRecordKeys

Answer(c) ==
    queuesMsg(c) \/ detailMsg(c) \/ peekMsg(c) \/ metricsMsg(c) \/ consumersMsg(c)

Next == Keys \/ \E c \in UnderWay : Answer(c)

-------------------------------------------------------------------------------
TypeOK ==
    /\ m.queues \subseteq Queue /\ m.filtered \subseteq m.queues
    /\ m.details \subseteq Queue /\ m.metrics \subseteq Queue
    /\ {m.peekQueue, m.messages, m.over} \subseteq Queue \union {None}
    /\ m.view \in {"overview", "messages"} /\ m.overlay \in BOOLEAN
    /\ \A c \in UnderWay :
         c.kind \in {"queues", "detail", "peek", "metrics", "consumers"}

\* Whenever a spinner is on, the command whose answer ends it is under way;
\* while the search line is open the selection moves without a load.
SpinnerEnds ==
    /\ m.queuesLoading => Running("queues") # {}
    /\ m.detailLoading /\ Selected # None /\ ~m.searchActive =>
         Cmd("detail", 0, Selected) \in UnderWay
    /\ m.peekLoading => Cmd("peek", 0, m.peekQueue) \in UnderWay
    /\ m.metricsLoading => Running("metrics") # {}
    /\ m.jumpLoading => Running("consumers") # {}

\* The queue a search, a jump or a move has come to rest on is loaded or
\* loading.  The messages on display are of the queue in their title, the one
\* peeked last, or else lay under the prompt when that peek was confirmed: then
\* they stand under the other queue's title until it answers, for good when its
\* peek fails.  A record is open over the messages only.
ShowsSubject ==
    /\ Selected # None /\ ~m.searchActive =>
         Selected \in m.details \/ Cmd("detail", 0, Selected) \in UnderWay
    /\ m.view = "messages" =>
         m.messages # None /\ m.messages \in {m.peekQueue, m.over}
    /\ m.recordActive => m.view = "messages"

TableCurrent == m.filtered = filterQueues(m).filtered

KeysReachDrawn == Routed(m) = Drawn(m)

===============================================================================
