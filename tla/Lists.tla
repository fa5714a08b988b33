--------------------------------- MODULE Lists ---------------------------------
(***************************************************************************)
(* A window, a tail or a sample of a long list: the objects of a bucket,   *)
(* the events of a log, the messages of a queue, the bytes of an object.   *)
(***************************************************************************)
EXTENDS Collect, Integers, FiniteSetsExt

CONSTANTS Accounts,      \* what is asked, and what there is
          Window,        \* pages of a listing that are fetched at once
          LogPages,      \* pages of a log query
          MaxDownload,   \* events of a download
          MaxPeek,       \* messages of a peek
          Batch,         \* messages of one call
          None

-------------------------------------------------------------------------------
(***************************************************************************)
(* One query, or one for each pattern or region, walks through the rows    *)
(* 1..acct.rows page by page, and takes those that match.  It ends where   *)
(* the rows do, after so many pages, or when it has enough: of these it    *)
(* keeps the first or the last.  A page that fails costs what was fetched  *)
(* ("all"), or only the rest ("part").  `snap.state` remembers which query *)
(* was cut; the callers of objects, download and trail alone are told.     *)
(***************************************************************************)
List(pages, limit, keeps, fails) ==
    [pages |-> pages, limit |-> limit, keeps |-> keeps, fails |-> fails]

listWindow == List(Window, None, "first", "all")
ListBuckets == List(None, None, "first", "all")
ListLogStreams == List(1, acct.limit, "first", "all")
JobRuns == List(1, acct.limit, "first", "all")
Steps == List(None, acct.limit, "first", "part")
Instances == List(None, acct.limit, "first", "part")
ListConsumers == List(None, None, "first", "part")
\* The paths, and then the analyses with the path each is of.
ListReachabilityAnalyses == List(None, None, "first", "all")
GetLogEventsSince == List(LogPages, acct.limit, "last", "all")
downloadPattern == List(None, MaxDownload, "first", "all")
Fetch == List(None, None, "first", "all")
FetchResources == List(None, None, "first", "all")
FetchRecentLogs == List(LogPages, acct.limit, "last", "all")

\* The newest events of one region: rows count from the newest.
LookupFiltered == List(LogPages, acct.limit, "first", "part")

Query ==
    CASE acct.ask = "objects" -> listWindow [] acct.ask = "buckets" -> ListBuckets
      [] acct.ask = "streams" -> ListLogStreams [] acct.ask = "runs" -> JobRuns
      [] acct.ask = "steps" -> Steps [] acct.ask = "instances" -> Instances
      [] acct.ask = "consumers" -> ListConsumers [] acct.ask = "analyses" -> ListReachabilityAnalyses
      [] acct.ask = "events" -> GetLogEventsSince [] acct.ask = "download" -> downloadPattern
      [] acct.ask = "bill" -> Fetch [] acct.ask = "resources" -> FetchResources
      [] acct.ask = "recent" -> FetchRecentLogs [] acct.ask = "trail" -> LookupFiltered

Queries == DOMAIN acct.match

\* The n first or last of a set of rows; all of it if n is None.
Kept(S, n, keeps) ==
    LET before(r) == {s \in S : IF keeps = "first" THEN s < r ELSE s > r}
    IN  IF n = None THEN S ELSE {r \in S : Cardinality(before(r)) < n}

\* A page holds the matches among the next rows; it may be empty, and there may
\* be another one when there are no more rows.
Page(q) ==
    LET l == Query
        at == snap.at[q]
        Enough(S) == l.keeps = "first" /\ l.limit # None /\ Cardinality(S) >= l.limit
    IN  /\ pc = "list" /\ snap.state[q] = "more" /\ UNCHANGED <<acct, pc, found>>
        /\ \/ /\ snap' = [snap EXCEPT !.state[q] = "failed",
                                      !.kept[q] = IF l.fails = "all" THEN {} ELSE @]
              /\ errs' = errs \union {q}
           \/ \E to \in at..acct.rows, token \in BOOLEAN :
                LET got == snap.kept[q] \union {r \in acct.match[q] : at < r /\ r <= to}
                    kept == Kept(got, l.limit, l.keeps)
                    pages == IF l.pages = None THEN 0 ELSE snap.pages[q] + 1
                    over == Enough(got) \/ (token /\ l.pages = pages)
                IN  /\ to < acct.rows => token
                    /\ UNCHANGED errs
                    /\ snap' = [snap EXCEPT
                         !.at[q] = to, !.pages[q] = pages, !.kept[q] = kept,
                         !.state[q] = IF ~over THEN IF token THEN "more" ELSE "end"
                                      ELSE IF acct.ask = "trail" /\ Enough(got) THEN "end"
                                      ELSE IF token \/ kept # got THEN "cut" ELSE "end"]

\* Mutant: an event that several patterns match counts for each of them.
mergeDedupeSort_First(kept, n) == Kept(UNION {kept[q] : q \in DOMAIN kept}, n, "first")

\* The events of all patterns, each once, in the order of time.
mergeDedupeSort(kept, n) == Kept(UNION {kept[q] : q \in DOMAIN kept}, n, "last")

GetLogEventsSinceMulti == [rows |-> mergeDedupeSort(snap.kept, acct.limit)]

DownloadLogEvents ==
    LET all == mergeDedupeSort(snap.kept, None)
        rows == mergeDedupeSort(snap.kept, MaxDownload)
    IN  IF errs # {} THEN [rows |-> {}, cut |-> FALSE]
        ELSE [rows |-> rows, cut |-> rows # all \/ \E q \in Queries : snap.state[q] = "cut"]

\* The newest events of all regions but those that failed; of a single region,
\* what there is.
LookupFilteredRegions ==
    LET read == IF Cardinality(Queries) = 1 THEN Queries ELSE {q \in Queries : snap.state[q] # "failed"}
        all == UNION {snap.kept[q] : q \in read}
        rows == Kept(all, acct.limit, "first")
    IN  [rows |-> rows, cut |-> rows # all \/ \E q \in read : snap.state[q] = "cut"]

\* The bill, or the cost of the resources of one service: a line for each key
\* of the groups that were fetched, without those that neither cost nor used
\* anything.
Lines(groups) ==
    LET Of(k) == {i \in groups : acct.groups[i].key = k}
        line(k) == [key |-> k, amount |-> MapThenSumSet(LAMBDA i : acct.groups[i].amount, Of(k)),
                    used |-> MapThenSumSet(LAMBDA i : acct.groups[i].used, Of(k))]
    IN  {l \in {line(acct.groups[i].key) : i \in groups} : l.amount # 0 \/ l.used # 0}

\* All queries have ended.  Several regions fail if all of them did.
Merge ==
    /\ pc = "list" /\ \A q \in Queries : snap.state[q] # "more"
    /\ pc' = "done" /\ UNCHANGED <<acct, snap>>
    /\ errs' = IF acct.ask = "trail" /\ errs # Queries THEN {} ELSE errs
    /\ found' = CASE acct.ask = "trail" -> {LookupFilteredRegions}
                  [] acct.ask = "events" -> {GetLogEventsSinceMulti}
                  [] acct.ask = "download" -> {DownloadLogEvents}
                  [] acct.ask \in {"bill", "resources"} -> Lines(snap.kept[1])
                  [] acct.ask = "objects" -> {[rows |-> snap.kept[1], cut |-> snap.state[1] = "cut"]}
                  [] OTHER -> {[rows |-> snap.kept[1]]}

-------------------------------------------------------------------------------
\* A peek: each call returns some of the messages, which stay visible, until it
\* returns nothing new, there are enough, or that was the last call.
PeekMessages ==
    /\ pc = "peek" /\ UNCHANGED acct
    /\ \/ pc' = "done" /\ errs' = {"peek"} /\ found' = snap.messages /\ UNCHANGED snap
       \/ \E got \in {S \in SUBSET acct.messages : Cardinality(S) <= Batch} :
          \E new \in SUBSET (got \ snap.messages) :
            LET messages == snap.messages \union new
                calls == snap.calls + 1
                last == new = {} \/ Cardinality(messages) >= MaxPeek \/ calls = (MaxPeek \div Batch) + 3
            IN  /\ new = got \ snap.messages \/ Cardinality(messages) = MaxPeek
                /\ Cardinality(messages) <= MaxPeek
                /\ snap' = [snap EXCEPT !.messages = messages, !.calls = calls]
                /\ pc' = (IF last THEN "done" ELSE "peek")
                /\ found' = IF last THEN messages ELSE {}
                /\ UNCHANGED errs

\* Mutant: the beginning is cut only if the answer says how long the object is.
GetObjectRange_Sized(got) == [got |-> got, cut |-> acct.sized /\ acct.size > got]

\* The beginning of an object, and whether it is cut: by the length that the
\* answer gives, or else if it fills the window.
GetObjectRange(got) ==
    [got |-> got, cut |-> got # 0 /\ (IF acct.sized THEN acct.size > got ELSE got = acct.window)]

\* The same as text: what is binary is not shown.
GetObjectPreview(got) == IF acct.binary THEN [got |-> None, cut |-> FALSE] ELSE GetObjectRange(got)
Preview ==
    /\ pc \in {"preview", "range"} /\ pc' = "done" /\ UNCHANGED <<acct, snap>>
    /\ \/ errs' = {"object"} /\ found' = {}
       \/ LET got == IF acct.size < acct.window THEN acct.size ELSE acct.window
          IN  errs' = {} /\ found' = {IF pc = "range" \/ got = 0 THEN GetObjectRange(got)
                                     ELSE GetObjectPreview(got)}

\* A download writes the file as the bytes arrive, and removes it when they
\* stop; a file that cannot be closed is left.
DownloadObject ==
    /\ pc = "save" /\ pc' = "done" /\ UNCHANGED <<acct, snap>>
    /\ \E fails \in {"get", "create", "copy", "close", None} :
         /\ errs' = IF fails = None THEN {} ELSE {fails}
         /\ \E bytes \in 0..acct.size :
              /\ bytes = acct.size \/ fails = "close"
              /\ found' = IF fails \in {"close", None} THEN {bytes} ELSE {}

-------------------------------------------------------------------------------
Init ==
    /\ acct \in Accounts /\ errs = {} /\ found = {}
    /\ IF acct.ask \in {"peek", "preview", "range", "save"}
       THEN pc = acct.ask /\ snap = [messages |-> {}, calls |-> 0]
       ELSE /\ pc = "list"
            /\ snap = [at |-> [q \in Queries |-> 0], kept |-> [q \in Queries |-> {}],
                       pages |-> [q \in Queries |-> 0], state |-> [q \in Queries |-> "more"]]

Next ==
    \/ pc = "list" /\ \E q \in Queries : Page(q)
    \/ Merge \/ PeekMessages \/ Preview \/ DownloadObject

-------------------------------------------------------------------------------
Whole == {"buckets", "consumers", "analyses"}
Billed == {"bill", "resources"}
Tails == {"events", "download", "recent", "trail"}
Others == {"objects", "streams", "runs", "steps", "instances"}
IsListed == acct.ask \in Whole \union Tails \union Others

\* What the rows of the queries have in common with what there is.
Matches == UNION {acct.match[q] : q \in Queries}

\* Rows are shown where they are: a window from the start, the newest events
\* that match any pattern.  A peek shows messages of the queue, and a preview
\* that is not cut is the whole object.
Sound ==
    Done =>
      /\ IsListed => \A f \in found :
           /\ f.rows \subseteq Matches
           /\ acct.ask \notin Tails => \A r \in Matches, s \in f.rows : r < s => r \in f.rows
      /\ acct.ask = "peek" => found \subseteq acct.messages /\ Cardinality(found) <= MaxPeek
      /\ acct.ask \in {"preview", "range"} => \A f \in found : f.got # None /\ ~f.cut => f.got = acct.size

\* Without an error, a list is whole, or says that it goes on, or has as many
\* rows as were asked for, or is a single page of a longer list: of events the
\* newest, if the query's pages reached the end and no region was left out.  A
\* bill has the cost of everything, and a file all bytes of its object.
Accounted ==
    Done /\ errs = {} =>
      /\ acct.ask \in Whole => \A f \in found : f.rows = Matches
      /\ acct.ask \in {"objects", "download"} => \A f \in found : f.cut \/ f.rows = Matches
      /\ acct.ask \in {"steps", "instances"} =>
           \A f \in found : f.rows = Matches \/ Cardinality(f.rows) = acct.limit
      /\ acct.ask \in {"streams", "runs"} => \A f \in found : f.rows = Matches \/ snap.state[1] = "cut"
      /\ acct.ask \in {"events", "recent", "trail"} =>
           \/ \E q \in Queries : snap.state[q] \in {"cut", "failed"}
           \/ \A f \in found : f.rows = Kept(Matches, acct.limit, Query.keeps)
      /\ acct.ask = "trail" => \A f \in found :
           \/ f.cut \/ Cardinality(f.rows) = acct.limit
           \/ f.rows = UNION {snap.kept[q] : q \in {x \in Queries : snap.state[x] # "failed"}}
      /\ acct.ask \in Billed =>
           MapThenSumSet(LAMBDA l : l.amount, found) = MapThenSumSet(LAMBDA i : acct.groups[i].amount, Matches)
      /\ acct.ask = "save" => found = {acct.size}
===============================================================================
