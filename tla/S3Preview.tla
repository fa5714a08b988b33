------------------------------- MODULE S3Preview -------------------------------
(***************************************************************************)
(* The S3 explorer's previews over the object list (S3Objects): text, a    *)
(* table of CSV text or of Parquet rows, and the members of an archive,    *)
(* each of which opens as a preview of its own.  An object is told by its  *)
(* key <<k>>, a member of its archive by <<k, 1>>; what a view holds, by   *)
(* the key (and, of Parquet, the number of rows) it was read for.  Search  *)
(* and filter of the text, the window of rows and the columns shown, and   *)
(* the prompts, which only take keys, are left out.                        *)
(***************************************************************************)
EXTENDS Tea

CONSTANTS
    Text, Csv, Parquet, Tar,  \* keys by the view they open, gzipped or not
    Window                    \* how many rows of a Parquet file to read

Object == Text \union Csv \union Parquet \union Tar

Init ==
    /\ m = [previewKey |-> None, showCSV |-> FALSE, showPreview |-> FALSE, showArchive |-> FALSE,
            loading |-> FALSE, err |-> FALSE, content |-> None, table |-> None,
            isParquet |-> FALSE, rows |-> CHOOSE n \in Window : TRUE, record |-> FALSE,
            fromArchive |-> FALSE, archiveKey |-> None, archiveLoading |-> FALSE,
            archiveErr |-> FALSE, archive |-> None, cut |-> FALSE, overtaken |-> FALSE]
    /\ cmds = EmptyBag

\* A fetch, in a step that also leaves the model at s.  cut and overtaken are
\* history: errMsg ended the spinner; a read of other rows is still under way.
Fetch(s, kind, n) ==
    /\ m' = [s EXCEPT !.loading = TRUE, !.err = FALSE, !.content = None, !.cut = FALSE,
                      !.overtaken = \E c \in UnderWay : c.key = s.previewKey /\ c.gen # n]
    /\ Return({Cmd(kind, n, s.previewKey)})

\* openPreview.  The table of the preview before is kept.
openPreview ==
    /\ ~m.showCSV /\ ~m.showPreview /\ ~m.showArchive
    /\ \E k \in Object :
         LET s == [m EXCEPT !.previewKey = <<k>>, !.fromArchive = FALSE, !.isParquet = k \in Parquet,
                            !.showCSV = k \in Csv \union Parquet, !.showPreview = k \in Text]
         IN  IF k \in Tar
             THEN /\ m' = [s EXCEPT !.showArchive = TRUE, !.archiveKey = <<k>>, !.archiveLoading = TRUE,
                                    !.archiveErr = FALSE, !.archive = None]
                  /\ Return({Cmd("archive", 0, <<k>>)})
             ELSE Fetch(s, IF k \in Parquet THEN "parquet" ELSE "object", IF k \in Parquet THEN m.rows ELSE 0)

\* initCSV, of text that is a table.
initCSV(s) == [s EXCEPT !.isParquet = FALSE, !.table = <<s.previewKey, 0>>, !.record = FALSE]

-------------------------------------------------------------------------------
\* Mutant: the content of any key is taken.
objectPreviewMsg_AnyKey(c) ==
    /\ c.kind = "object"
    /\ LET s == [m EXCEPT !.loading = FALSE, !.content = c.key]
       IN  \/ m.showCSV /\ m' = [initCSV(s) EXCEPT !.table = <<c.key, 0>>]
           \/ m' = [s EXCEPT !.showCSV = FALSE, !.showPreview = @ \/ m.showCSV]
    /\ ReturnFrom(c, {})

\* objectPreviewMsg: what is no table falls back to text.
objectPreviewMsg(c) ==
    /\ c.kind = "object"
    /\ IF c.key # m.previewKey THEN m' = m
       ELSE \E ok, parses \in BOOLEAN :
              LET s == [m EXCEPT !.loading = FALSE, !.err = ~ok, !.content = IF ok THEN c.key ELSE None]
              IN  m' = IF m.showCSV /\ ok /\ parses THEN initCSV(s)
                       ELSE [s EXCEPT !.showCSV = FALSE, !.showPreview = @ \/ m.showCSV]
    /\ ReturnFrom(c, {})

\* parquetPreviewMsg: by key, whatever number of rows was asked for since.
parquetPreviewMsg(c) ==
    /\ c.kind = "parquet"
    /\ IF c.key # m.previewKey THEN m' = m
       ELSE \/ m' = [m EXCEPT !.loading = FALSE, !.err = TRUE]
            \/ m' = [m EXCEPT !.loading = FALSE, !.err = FALSE, !.table = <<c.key, c.gen>>, !.record = FALSE]
    /\ ReturnFrom(c, {})

\* Mutant: the members of any archive are taken.
archiveLoadedMsg_AnyKey(c) ==
    /\ c.kind = "archive"
    /\ m' = [m EXCEPT !.archiveLoading = FALSE, !.archive = c.key]
    /\ ReturnFrom(c, {})

\* archiveLoadedMsg: also for an archive that was closed; it then stays in memory.
archiveLoadedMsg(c) ==
    /\ c.kind = "archive"
    /\ IF c.key # m.archiveKey THEN m' = m
       ELSE \/ m' = [m EXCEPT !.archiveLoading = FALSE, !.archiveErr = TRUE]
            \/ m' = [m EXCEPT !.archiveLoading = FALSE, !.archiveErr = FALSE, !.archive = c.key]
    /\ ReturnFrom(c, {})

\* errMsg, of a listing that was under way when the preview was opened.
Listing(c) ==
    /\ c.kind = "list"
    /\ m' \in {m, [m EXCEPT !.loading = FALSE, !.cut = @ \/ m.loading]}
    /\ ReturnFrom(c, {})

-------------------------------------------------------------------------------
Go(s) == m' = s /\ UNCHANGED cmds

\* "r" in the list below.
Refresh ==
    /\ ~m.showCSV /\ ~m.showPreview /\ ~m.showArchive /\ Running("list") = {}
    /\ Return({Cmd("list", 0, None)}) /\ UNCHANGED m

\* Esc, "t" (as a table) and "L" (by a layout file) in the text.
TextKeys ==
    /\ m.showPreview /\ ~m.showCSV /\ ~m.showArchive
    /\ \/ Go(IF m.fromArchive THEN [m EXCEPT !.fromArchive = FALSE, !.showPreview = FALSE, !.showArchive = TRUE]
             ELSE [m EXCEPT !.showPreview = FALSE, !.loading = FALSE])
       \/ /\ ~m.loading /\ ~m.err /\ m.content # None
          /\ Go([initCSV(m) EXCEPT !.showPreview = FALSE, !.showCSV = TRUE])

\* Mutant: closing a table of a member forgets the archive it came from.
TableKeys_ForgetsArchive ==
    /\ m.showCSV
    /\ \/ ~m.record /\ Go([m EXCEPT !.showCSV = FALSE, !.isParquet = FALSE, !.archive = None,
                                    !.fromArchive = FALSE, !.showArchive = m.fromArchive])
       \/ ~m.record /\ ~m.isParquet /\ Go([m EXCEPT !.showCSV = FALSE, !.showPreview = TRUE])

\* Esc, "t" (as text), "S" and "L" (parsed anew), "n" (more Parquet rows) and
\* Enter (a record) in the table.
TableKeys ==
    /\ m.showCSV
    /\ \/ m.record /\ Go([m EXCEPT !.record = FALSE])
       \/ ~m.record /\ m.table # None /\ Go([m EXCEPT !.record = TRUE])
       \/ ~m.record /\ Go([m EXCEPT !.showCSV = FALSE, !.isParquet = FALSE,
                                    !.fromArchive = FALSE, !.showArchive = m.fromArchive])
       \/ ~m.record /\ ~m.isParquet /\ Go([m EXCEPT !.showCSV = FALSE, !.showPreview = TRUE])
       \/ ~m.record /\ ~m.isParquet /\ m.content # None /\ Go([m EXCEPT !.table = <<m.previewKey, 0>>])
       \/ /\ ~m.record /\ m.isParquet
          /\ \E n \in Window : Fetch([m EXCEPT !.rows = n], "parquet", n)

\* Esc in the archive, and Enter on a member (openArchiveMember).
ArchiveKeys ==
    /\ m.showArchive
    /\ \/ Go([m EXCEPT !.showArchive = FALSE, !.archive = None])
       \/ /\ m.archive # None
          /\ LET s == [m EXCEPT !.previewKey = Append(m.archiveKey, 1), !.fromArchive = TRUE,
                                !.loading = FALSE, !.showArchive = FALSE, !.err = FALSE,
                                !.content = Append(m.archiveKey, 1)]
             IN  \/ Go([initCSV(s) EXCEPT !.showCSV = TRUE])
                 \/ Go([s EXCEPT !.showPreview = TRUE])
                 \/ Go([s EXCEPT !.showPreview = TRUE, !.err = TRUE, !.content = m.content])

Keys == openPreview \/ Refresh \/ TextKeys \/ TableKeys \/ ArchiveKeys
Answer(c) ==
    objectPreviewMsg(c) \/ parquetPreviewMsg(c) \/ archiveLoadedMsg(c) \/ Listing(c)
Next == Keys \/ \E c \in UnderWay : Answer(c)

-------------------------------------------------------------------------------
\* One view at a time, and a member's preview has its archive to go back to.
TypeOK ==
    /\ m.archiveKey \in {<<k>> : k \in Tar} \union {None} /\ m.rows \in Window
    /\ Cardinality({v \in {"showCSV", "showPreview", "showArchive"} : m[v]}) <= 1
    /\ m.fromArchive => m.archive = m.archiveKey /\ m.previewKey = Append(m.archiveKey, 1)

SpinnerEnds ==
    /\ (m.showCSV \/ m.showPreview) /\ m.loading =>
         \E c \in Running("object") \union Running("parquet") : c.key = m.previewKey
    /\ m.showArchive /\ m.archiveLoading => Cmd("archive", 0, m.archiveKey) \in UnderWay

\* A view holds what it was opened for, unless the failure of a listing ended
\* the wait for it; a Parquet table has the rows last asked for, unless two
\* reads of the file were under way at once.
ShowsSubject ==
    /\ m.showPreview /\ ~m.loading /\ ~m.err => m.content = m.previewKey \/ m.cut
    /\ m.showCSV /\ ~m.loading /\ ~m.err =>
         \/ m.table = <<m.previewKey, IF m.isParquet THEN m.rows ELSE 0>>
         \/ m.cut \/ m.overtaken
    /\ m.showArchive /\ ~m.archiveLoading /\ ~m.archiveErr => m.archive = m.archiveKey
===============================================================================
