------------------------------- MODULE S3Buckets -------------------------------
(***************************************************************************)
(* The S3 explorer's bucket list: its search, the regions that a listing   *)
(* of a non-AWS endpoint leaves out and that are looked up one by one, and *)
(* a bucket's detail page.  Buckets are numbered in list order.  Of the    *)
(* object list (S3Objects) only that it is open, with a listing under way, *)
(* matters here.                                                           *)
(***************************************************************************)
EXTENDS Tea

CONSTANTS
    Bucket, BMatch,  \* buckets, 1..n, and those the search's text matches
    Silent           \* buckets the listing tells no region of

Init ==
    /\ m = [state |-> "list", bucket |-> None, region |-> None, rows |-> <<>>, allRows |-> <<>>,
            cursor |-> 1, search |-> FALSE, loading |-> TRUE, err |-> FALSE,
            regionCache |-> {}, detailBucket |-> None, bdetails |-> None, bcache |-> {},
            detailsLoading |-> FALSE, misfiled |-> FALSE, unasked |-> FALSE, strayed |-> FALSE]
    /\ cmds = Batch({Cmd("buckets", 0, None)})

\* A row: the bucket, and the bucket whose region it says (None: pending).
Row(b, known) == [name |-> b, region |-> IF known THEN b ELSE None]
SetRows(s, rs) ==
    [s EXCEPT !.rows = rs,
              !.cursor = IF @ <= Len(rs) THEN @ ELSE IF rs = <<>> THEN 1 ELSE Len(rs)]

\* What Update does last with every message that does not return early: the
\* bucket is that of the row under the cursor.
Follow(s) ==
    IF s.state = "list" /\ ~s.search /\ s.rows # <<>> /\ s.rows[s.cursor].name # s.bucket
    THEN LET b == s.rows[s.cursor].name
         IN  [s EXCEPT !.bucket = b, !.bdetails = IF b \in s.bcache THEN b ELSE None,
                       !.strayed = FALSE]
    ELSE s

loadBuckets(s) ==
    [SetRows(s, <<>>) EXCEPT !.loading = TRUE, !.allRows = <<>>]

\* fetchBucketRegions: cached ones at once, the others one command each.
Cached(s, rs) == [i \in DOMAIN rs |->
    IF rs[i].region = None /\ rs[i].name \in s.regionCache THEN Row(rs[i].name, TRUE) ELSE rs[i]]
regionCmds(rs) == {Cmd("region", i, rs[i].name) : i \in {j \in DOMAIN rs : rs[j].region = None}}

-------------------------------------------------------------------------------
bucketsScannedMsg(c) ==
    /\ c.kind = "buckets"
    /\ \/ m' = Follow([m EXCEPT !.loading = FALSE]) /\ ReturnFrom(c, {})
       \/ \E n \in 0..Cardinality(Bucket) :
            LET listed == [i \in 1..n |-> Row(i, i \notin Silent)]
                cache == m.regionCache \union {i \in 1..n : i \notin Silent}
                rs == Cached([m EXCEPT !.regionCache = cache], listed)
            IN  /\ BagCardinality(cmds) + Cardinality(regionCmds(rs)) <= MaxCmds + 1
                /\ m' = Follow([SetRows(m, rs) EXCEPT !.loading = FALSE, !.regionCache = cache, !.allRows = rs,
                                  !.misfiled = @ /\ m.state = "objects",
                                  !.bucket = IF @ = None /\ n > 0 THEN 1 ELSE @,
                                  !.bdetails = IF m.bucket # None \/ n = 0 THEN @
                                               ELSE IF 1 \in m.bcache THEN 1 ELSE None])
                /\ ReturnFrom(c, regionCmds(rs))

\* Mutant: the lookup of a region remembers the row's bucket, not its own.
bucketRegionMsg_ByRow(c) ==
    /\ c.kind = "region"
    /\ LET Put(rs) == [rs EXCEPT ![c.gen].region = c.key]
           name == IF c.gen <= Len(m.rows) THEN m.rows[c.gen].name ELSE c.key
       IN  m' = Follow([m EXCEPT !.regionCache = @ \union {name},
                  !.rows = IF c.gen <= Len(@) THEN Put(@) ELSE @,
                  !.allRows = IF c.gen <= Len(@) THEN Put(@) ELSE @])
    /\ ReturnFrom(c, {})

\* bucketRegionMsg writes by row number (gen), also into rows that a search or
\* another listing has put there since.  misfiled is history: it did.
bucketRegionMsg(c) ==
    /\ c.kind = "region"
    /\ LET Put(rs) == IF c.gen <= Len(rs) THEN [rs EXCEPT ![c.gen].region = c.key] ELSE rs
       IN  m' = Follow([m EXCEPT !.regionCache = @ \union {c.key},
                  !.rows = Put(@), !.allRows = Put(@),
                  !.misfiled = @ \/ \E rs \in {m.rows, m.allRows} :
                                      c.gen <= Len(rs) /\ rs[c.gen].name # c.key])
    /\ ReturnFrom(c, {})

\* Mutant: the details of any bucket are shown.
bucketDetailsMsg_Any(c) ==
    /\ c.kind = "bdetails"
    /\ m' = Follow([m EXCEPT !.bcache = @ \union {c.key}, !.detailsLoading = FALSE, !.bdetails = c.key])
    /\ ReturnFrom(c, {})

\* bucketDetailsMsg: cached; shown if its bucket is the selected one or the one
\* last opened, be the cursor on another by now.  strayed is history: it is.
bucketDetailsMsg(c) ==
    /\ c.kind = "bdetails"
    /\ m' = LET s == [m EXCEPT !.bcache = @ \union {c.key}]
            IN  Follow(IF c.key \in {m.bucket, m.detailBucket}
                       THEN [s EXCEPT !.detailsLoading = FALSE, !.bdetails = c.key,
                                      !.strayed = c.key # m.bucket] ELSE s)
    /\ ReturnFrom(c, {})

\* The listing of an object list that is or was open.
Listing(c) ==
    /\ c.kind = "objects"
    /\ \/ m' = Follow([m EXCEPT !.loading = FALSE, !.err = FALSE])
       \/ m' = Follow([m EXCEPT !.loading = FALSE, !.detailsLoading = FALSE, !.err = TRUE])
    /\ ReturnFrom(c, {})

-------------------------------------------------------------------------------
Go(s) == m' = s /\ UNCHANGED cmds
Listed == m.state = "list" /\ ~m.search

\* Enter: into the bucket of a row, with the region the row says or, if that is
\* pending, the cached one.
Enter(i) ==
    /\ Return({Cmd("objects", 0, None)})
    /\ LET r == m.rows[i]
       IN  m' = [m EXCEPT !.state = "objects", !.search = FALSE, !.bucket = r.name,
                   !.region = IF r.region = None /\ r.name \in m.regionCache THEN r.name ELSE r.region,
                   !.loading = TRUE]

EnterRow == Listed /\ m.rows # <<>> /\ Enter(m.cursor)

\* Esc at the root of a bucket.
LeaveBucket ==
    /\ m.state = "objects"
    /\ m' = loadBuckets([m EXCEPT !.state = "list", !.bucket = None, !.err = FALSE])
    /\ Return({Cmd("buckets", 0, None)})

MoveCursor ==
    \E i \in DOMAIN m.rows : Listed /\ Go(Follow([m EXCEPT !.cursor = i]))

\* "/", typing, Enter (the first row) and Esc.  Typing filters the rows there
\* were when the search began.
Search ==
    \/ Listed /\ Go([m EXCEPT !.search = TRUE, !.allRows = m.rows])
    \/ /\ m.search
       /\ \/ \E S \in {Bucket, BMatch, {}} :
               Go(SetRows(m, SelectSeq(m.allRows, LAMBDA r : r.name \in S)))
          \/ m.rows # <<>> /\ Enter(1)
          \/ m.rows = <<>> /\ Go([m EXCEPT !.search = FALSE])
          \/ Go([SetRows(m, IF m.allRows # <<>> THEN m.allRows ELSE m.rows) EXCEPT !.search = FALSE])

fetchBucketDetails(s, b) ==
    /\ m' = [s EXCEPT !.detailsLoading = TRUE, !.bdetails = None, !.unasked = FALSE,
                   !.strayed = FALSE]
    /\ Return({Cmd("bdetails", 0, b)})

\* ensureBucketDetails, once m.bucket is the bucket already: the guard for "the
\* same fetch is already in flight" is true of any fetch in flight.
ensureBucketDetails(s, b) ==
    IF b \in s.bcache THEN Go([s EXCEPT !.bdetails = b, !.detailsLoading = FALSE])
    ELSE IF s.detailsLoading THEN Go([s EXCEPT !.strayed = @ \/ s.bdetails \notin {b, None}])
    ELSE fetchBucketDetails(s, b)

\* "d": the detail page of the row under the cursor.  unasked is history: only
\* the fetch of another bucket was under way, and no other was started.
OpenDetail ==
    /\ Listed /\ m.rows # <<>>
    /\ LET b == m.rows[m.cursor].name
           s == [m EXCEPT !.detailBucket = b, !.state = "detail", !.bucket = b,
                           !.unasked = m.detailsLoading /\ Cmd("bdetails", 0, b) \notin UnderWay]
       IN  IF m.bdetails = None \/ m.bucket # b THEN ensureBucketDetails(s, b) ELSE Go(s)

\* Esc, which leaves the cursor where it is, and "r" on the detail page.
DetailKeys ==
    /\ m.state = "detail"
    /\ \/ Go([m EXCEPT !.state = "list"])
       \/ fetchBucketDetails([m EXCEPT !.bcache = @ \ {m.detailBucket}], m.detailBucket)

\* "r" on the list, and Esc, which takes an error away.
ListKeys ==
    /\ Listed
    /\ \/ /\ m' = loadBuckets([m EXCEPT !.bcache = {}, !.bdetails = None])
          /\ Return({Cmd("buckets", 0, None)})
       \/ Go(Follow([m EXCEPT !.err = FALSE]))

Keys == EnterRow \/ LeaveBucket \/ MoveCursor \/ Search \/ OpenDetail \/ DetailKeys \/ ListKeys
Answer(c) == bucketsScannedMsg(c) \/ bucketRegionMsg(c) \/ bucketDetailsMsg(c) \/ Listing(c)
Next == Keys \/ \E c \in UnderWay : Answer(c)

-------------------------------------------------------------------------------
TypeOK ==
    /\ m.state \in {"list", "objects", "detail"} /\ (m.search => m.state = "list")
    /\ m.bucket \in Bucket \union {None} /\ m.bcache \subseteq Bucket /\ m.regionCache \subseteq Bucket
    /\ \A rs \in {m.rows, m.allRows} : \A i \in DOMAIN rs : rs[i].region \in Bucket \union {None}
    /\ (m.state = "objects") => m.bucket # None

\* A spinner has a command under way; that of a detail page may have only the
\* fetch of another bucket.
SpinnerEnds ==
    /\ m.loading => Running("buckets") \union Running("objects") # {}
    /\ m.detailsLoading => Running("bdetails") # {} \/ m.unasked

\* A detail page shows the bucket in its title, unless details that strayed to
\* its row were there before, and a bucket is opened with its own region, unless
\* that went to another row.
ShowsSubject ==
    /\ m.state = "detail" /\ ~m.detailsLoading => m.bdetails \in {m.detailBucket, None} \/ m.strayed
    /\ m.state = "objects" => m.region \in {m.bucket, None} \/ m.misfiled
===============================================================================
