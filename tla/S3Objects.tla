------------------------------- MODULE S3Objects -------------------------------
(***************************************************************************)
(* The S3 explorer's object list: folders entered and left, the "/" path   *)
(* prompt with its fallback, listings that are cut off and continued, the  *)
(* metadata of an object, and its deletion.  Every folder has one folder   *)
(* in it, so a prefix is its depth, and one file, so the depth is also the *)
(* file's key.  The rows are told by the question their first page         *)
(* answers.  Of the bucket list (S3Buckets) only that it can be open       *)
(* matters here.                                                           *)
(***************************************************************************)
EXTENDS Tea

CONSTANTS
    Bucket,
    Depth     \* the deepest prefix

Init ==
    /\ m = [open |-> FALSE, bucket |-> None, prefix |-> 0, flatMode |-> FALSE,
            loading |-> FALSE, err |-> FALSE, rows |-> None, more |-> FALSE,
            fallback |-> FALSE, jump |-> FALSE, sel |-> FALSE, details |-> None,
            cache |-> {}, detailsLoading |-> FALSE, late |-> FALSE, deaf |-> FALSE]
    /\ cmds = EmptyBag

Question(s) == <<s.bucket, s.prefix, s.flatMode>>

\* selectedObjectKey: the prefix of now and the name under the cursor.
selectedObjectKey(s) == IF s.sel THEN s.prefix ELSE None

syncSelectionDetails(s) ==
    [s EXCEPT !.details = IF s.sel /\ s.prefix \in s.cache THEN s.prefix ELSE None, !.deaf = FALSE]

loadObjects(s) == [s EXCEPT !.loading = TRUE, !.more = FALSE]
List(s) == m' = loadObjects(s) /\ Return({Cmd("list", 0, Question(s))})

-------------------------------------------------------------------------------
\* objectsLoadedMsg carries no key.  A first page replaces the rows and uses up
\* the fallback of the path prompt: if the listing is empty, the path is taken
\* for an object's key, its parent is listed and the object selected there.
\* late is history: an answer to another question than the screen's was taken.
\* (The cursor is kept, so what it is on changes with the rows.)
objectsLoadedMsg(c) ==
    /\ c.kind = "list"
    /\ \E empty, more \in BOOLEAN : \E sel \in {FALSE, ~empty} :
         LET s == [m EXCEPT !.loading = FALSE, !.err = FALSE, !.more = more, !.rows = c.key,
                     !.late = c.key # Question(m), !.fallback = FALSE, !.sel = sel]
             up == [s EXCEPT !.prefix = IF @ > 0 THEN @ - 1 ELSE 0, !.jump = TRUE]
         IN  IF m.fallback /\ empty
             THEN m' = loadObjects(up) /\ ReturnFrom(c, {Cmd("list", 0, Question(up))})
             ELSE m' = syncSelectionDetails([s EXCEPT !.jump = FALSE]) /\ ReturnFrom(c, {})

\* Mutant: a continuation replaces the rows there are.
appendedMsg_Replaces(c) ==
    /\ c.kind = "more"
    /\ \E more, sel \in BOOLEAN :
         m' = [m EXCEPT !.loading = FALSE, !.err = FALSE, !.more = more, !.rows = c.key,
                        !.sel = sel]
    /\ ReturnFrom(c, {})

\* A continuation extends and sorts the rows, whatever they are of by now; the
\* details panel is not told (deaf, history: what the cursor is on has changed).
appendedMsg(c) ==
    /\ c.kind = "more"
    /\ \E more, sel \in BOOLEAN :
         m' = [m EXCEPT !.loading = FALSE, !.err = FALSE, !.more = more, !.sel = sel,
                        !.deaf = TRUE, !.late = @ \/ c.key # m.rows \/ c.key # Question(m)]
    /\ ReturnFrom(c, {})

\* errMsg, of a listing: no fallback may stay armed for another one.
errMsg(c) ==
    /\ c.kind \in {"list", "more"}
    /\ m' = [m EXCEPT !.loading = FALSE, !.detailsLoading = FALSE, !.fallback = FALSE,
                      !.jump = FALSE, !.err = TRUE]
    /\ ReturnFrom(c, {})

\* Mutant: metadata is shown whatever is selected.
objectDetailsMsg_AnyKey(c) ==
    /\ c.kind = "details"
    /\ m' = [m EXCEPT !.detailsLoading = FALSE, !.cache = @ \union {c.key[1]},
                      !.details = c.key[1]]
    /\ ReturnFrom(c, {})

\* objectDetailsMsg: cached by key, without the bucket, and shown if that is
\* the key under the cursor.
objectDetailsMsg(c) ==
    /\ c.kind = "details"
    /\ \/ m' = [m EXCEPT !.detailsLoading = FALSE]
       \/ m' = [m EXCEPT !.detailsLoading = FALSE, !.cache = @ \union {c.key[1]},
                         !.details = IF selectedObjectKey(m) = c.key[1] THEN c.key[1] ELSE @]
    /\ ReturnFrom(c, {})

\* deleteObjectDoneMsg: lists again what is open by now.
deleteObjectDoneMsg(c) ==
    /\ c.kind = "delete"
    /\ \/ m' = m /\ ReturnFrom(c, {})
       \/ m' = loadObjects(m) /\ ReturnFrom(c, {Cmd("list", 0, Question(m))})

-------------------------------------------------------------------------------
Go(s) == m' = s /\ UNCHANGED cmds
Browsing == m.open

\* Enter on a row of the bucket list (EnterRow of S3Buckets).
EnterBucket ==
    /\ ~m.open
    /\ \E b \in Bucket : List([m EXCEPT !.open = TRUE, !.bucket = b, !.prefix = 0])

\* Enter on a folder: the prefix is the new one at once, the rows are not.
EnterFolder == Browsing /\ m.rows # None /\ m.prefix < Depth /\ List([m EXCEPT !.prefix = @ + 1])

\* Esc: to the parent, or to the bucket list.
Esc ==
    /\ Browsing
    /\ LET s == [m EXCEPT !.err = FALSE]
       IN  IF m.prefix > 0 THEN List([s EXCEPT !.prefix = @ - 1])
           ELSE m' = [s EXCEPT !.open = FALSE, !.bucket = None] /\ UNCHANGED cmds

\* "/" and a path: a folder's ends in "/", another one is first tried as one.
PathPrompt ==
    /\ Browsing
    /\ \E d \in 0..Depth, slash \in BOOLEAN :
         List([m EXCEPT !.prefix = d, !.fallback = d > 0 /\ ~slash /\ ~m.flatMode, !.jump = FALSE])

\* "f" and "r".
ToggleFlat == Browsing /\ List([m EXCEPT !.flatMode = ~@])
Refresh == Browsing /\ List(m)

\* "L": only of a listing that was cut off, and not while one is under way.
LoadMore ==
    /\ Browsing /\ m.more /\ ~m.loading
    /\ m' = [m EXCEPT !.loading = TRUE] /\ Return({Cmd("more", 0, Question(m))})

\* Mutant: a new order is not told to the details panel.
MoveSelection_Silent == Browsing /\ m.rows # None /\ Go([m EXCEPT !.sel = ~@])

\* The cursor moves, or the rows under it are sorted.
MoveSelection == Browsing /\ m.rows # None /\ Go(syncSelectionDetails([m EXCEPT !.sel = ~@]))

\* "d" on an object without cached metadata.
FetchDetails ==
    /\ Browsing /\ m.sel /\ m.prefix \notin m.cache /\ ~m.detailsLoading
    /\ m' = [m EXCEPT !.detailsLoading = TRUE]
    /\ Return({Cmd("details", 0, <<m.prefix>>)})

\* "x" and the confirmation, which takes the keys and fixes the object's.
Delete == Browsing /\ m.sel /\ Return({Cmd("delete", 0, None)}) /\ UNCHANGED m

Keys ==
    \/ EnterBucket \/ EnterFolder \/ Esc \/ PathPrompt \/ ToggleFlat \/ Refresh \/ LoadMore
    \/ MoveSelection \/ FetchDetails \/ Delete
Answer(c) ==
    \/ objectsLoadedMsg(c) \/ appendedMsg(c) \/ errMsg(c) \/ objectDetailsMsg(c)
    \/ deleteObjectDoneMsg(c)
Next == Keys \/ \E c \in UnderWay : Answer(c)

-------------------------------------------------------------------------------
TypeOK ==
    /\ m.bucket \in Bucket \union {None} /\ (m.open <=> m.bucket # None) /\ m.prefix \in 0..Depth
    /\ m.cache \subseteq 0..Depth
    /\ m.rows \in ((Bucket \union {None}) \X (0..Depth) \X BOOLEAN) \union {None}

\* Spinners end; and the fallback and the jump of a typed path are armed only
\* while a listing is under way that will use them up.
SpinnerEnds ==
    /\ m.loading => Running("list") \union Running("more") # {}
    /\ m.detailsLoading => Running("details") # {}
    /\ m.fallback \/ m.jump => Running("list") # {}

\* The rows are those of the bucket, prefix and mode in the title, and the
\* details those of the object under the cursor, unless an answer came late or
\* a continuation was sorted in.
ShowsSubject ==
    m.open /\ ~m.loading /\ ~m.err =>
      /\ m.rows = Question(m) \/ m.late
      /\ m.details # None => m.details = selectedObjectKey(m) \/ m.deaf
===============================================================================
