------------------------------- MODULE SharedUI -------------------------------
(***************************************************************************)
(* Parts that screens share: the panel of settings, which edits the themes *)
(* while they are in use and has a command write them to the configuration *)
(* file; the table widget, whose rows are rendered round the cursor into a *)
(* viewport that scrolls by itself; the page of results of the audit, the  *)
(* trail and the lake, while results still come; and the explorer, which   *)
(* walks from a resource to those it is related to.                        *)
(***************************************************************************)
EXTENDS Tea, Integers

CONSTANTS
    Sections,  \* settingsGroups: for each section the sequence of its roles
    Fallback,  \* what an "auto" role follows (None: the terminal's default)
    Builtin,   \* themes.yaml: theme -> role -> color, None for "auto"
    Wheel,     \* the colors every palette ends with
    Amber,     \* where the knobs start for a color that is not a hex color
    Tall, Height, Spans, Width,  \* of tables: rows, and what is given to show them
    Entry,     \* results, numbered in their natural order
    EMatch, Errored,   \* those that match what is typed, and the failed calls
    Cells,     \* what each shows in the columns
    Limit,     \* --limit, of the trail
    Edge, Hops \* references there may be, and steps to walk along them

Theme == DOMAIN Builtin
Role == DOMAIN Fallback
Go(s) == m' = s /\ UNCHANGED cmds

\* Hex colors are numbered from 1; 0 stands for a color with a name.
Hex == DOMAIN Wheel

-------------------------------------------------------------------------------
(* Settings. *)

\* ResolveRoleAt: down the chain to the first role that has a color.
ResolveRoleAt(colors, t, r) ==
    LET of[q \in Role] == IF colors[t][q] # None THEN colors[t][q]
                          ELSE IF Fallback[q] = None THEN None ELSE of[Fallback[q]]
    IN  of[r]

\* quickPalette: the theme's own hex colors, then the wheel's, each once.
quickPalette(colors, t) ==
    LET all == [i \in 1..Cardinality(Role) |-> colors[t][i]] \o Wheel
        first == {i \in DOMAIN all : all[i] \in Hex /\ \A j \in 1..i - 1 : all[j] # all[i]}
    IN  [k \in 1..Cardinality(first) |->
           all[CHOOSE i \in first : Cardinality({j \in first : j < i}) = k - 1]]

\* NewSettingsModel, on the theme in use.
Panel(s) ==
    [s EXCEPT !.open = TRUE, !.themeIdx = s.active, !.fieldIdx = 1, !.groupIdx = 1,
              !.onTheme = FALSE, !.palette = quickPalette(s.colors, s.active),
              !.tune = None, !.late = FALSE]

\* History.  late: a save has put back a theme that was left since.  changed:
\* what the file says is not what was on display when "save" was pressed last.
\* restarted: the colors were read from the file.
SettingsInit ==
    /\ m = [open |-> FALSE, themeIdx |-> 1, fieldIdx |-> 1, groupIdx |-> 1, onTheme |-> FALSE,
            palette |-> <<>>, tune |-> None, colors |-> Builtin, active |-> 1,
            file |-> None, late |-> FALSE, changed |-> FALSE, restarted |-> FALSE]
    /\ cmds = EmptyBag

Roles(s) == Sections[s.groupIdx]
rowInGroup(s) == CHOOSE i \in DOMAIN Roles(s) : Roles(s)[i] = s.fieldIdx

OpenSettings == ~m.open /\ Go(Panel(m))
CloseSettings == m.open /\ m.tune = None /\ Go([m EXCEPT !.open = FALSE])

Nav == m.open /\ m.tune = None

\* Mutant: tab leaves the role where it was.
selectGroup_KeepsField ==
    Nav /\ \E g \in DOMAIN Sections \ {m.groupIdx} : Go([m EXCEPT !.groupIdx = g])

\* Tab and the digits.
selectGroup ==
    Nav /\ \E g \in DOMAIN Sections \ {m.groupIdx} :
             Go([m EXCEPT !.groupIdx = g, !.fieldIdx = Sections[g][1]])

\* Up from the first role leads to the row of the theme, down and Enter from
\* there to the first role.
moveRow ==
    /\ Nav
    /\ \/ m.onTheme /\ Go([m EXCEPT !.onTheme = FALSE, !.fieldIdx = Roles(m)[1]])
       \/ /\ ~m.onTheme
          /\ \/ rowInGroup(m) = 1 /\ Go([m EXCEPT !.onTheme = TRUE])
             \/ \E i \in {rowInGroup(m) - 1, rowInGroup(m) + 1} \intersect DOMAIN Roles(m) :
                  Go([m EXCEPT !.fieldIdx = Roles(m)[i]])

\* Mutant: a theme is shown and is not applied.
selectTheme_ShowsOnly ==
    /\ Nav /\ m.onTheme
    /\ \E t \in {m.themeIdx - 1, m.themeIdx + 1} \intersect Theme :
         Go([m EXCEPT !.themeIdx = t, !.palette = quickPalette(m.colors, t),
                      !.late = FALSE, !.changed = TRUE])

\* The theme is in use at once.
selectTheme ==
    /\ Nav /\ m.onTheme
    /\ \E t \in {m.themeIdx - 1, m.themeIdx + 1} \intersect Theme :
         Go([m EXCEPT !.themeIdx = t, !.palette = quickPalette(m.colors, t), !.active = t,
                      !.late = FALSE, !.changed = TRUE])

setColorForField(s, c) == [s EXCEPT !.colors[s.themeIdx][s.fieldIdx] = c, !.changed = TRUE]

\* nearestSwatch: the first of those that differ least.
nearestSwatch(palette, c) ==
    LET Off(i) == IF c \notin Hex THEN 0 ELSE IF palette[i] < c THEN c - palette[i] ELSE palette[i] - c
    IN  CHOOSE i \in DOMAIN palette :
          \A j \in DOMAIN palette : Off(i) < Off(j) \/ (Off(i) = Off(j) /\ i <= j)

\* Left and right on a role: round the palette there was when the panel was
\* opened, from the color the role shows, or to the one nearest to it.
cycleSwatch ==
    /\ Nav /\ ~m.onTheme
    /\ \E dir \in {-1, 1} :
         LET cur == ResolveRoleAt(m.colors, m.themeIdx, m.fieldIdx)
             n == Len(m.palette)
             at == {i \in DOMAIN m.palette : m.palette[i] = cur}
             i == IF at = {} THEN nearestSwatch(m.palette, cur)
                  ELSE (((CHOOSE k \in at : TRUE) - 1 + dir + n) % n) + 1
         IN  Go(setColorForField(m, m.palette[i]))

setAuto == Nav /\ ~m.onTheme /\ Go(setColorForField(m, None))

\* startTune.  What is staged: the knobs' color, what is typed (None as long as
\* that is no hex color), and whether the role is to be "auto".
startTune ==
    /\ Nav /\ ~m.onTheme
    /\ LET val == m.colors[m.themeIdx][m.fieldIdx]
           seed == ResolveRoleAt(m.colors, m.themeIdx, m.fieldIdx)
           knobs == IF seed \in Hex THEN seed ELSE Amber
       IN  Go([m EXCEPT !.tune = [auto |-> val = None, knobs |-> knobs,
                                  hex |-> IF val = None THEN knobs
                                          ELSE IF val \in Hex THEN val ELSE None]])

stagedHex(tune) == IF tune.hex # None THEN tune.hex ELSE tune.knobs

Tuning == m.open /\ m.tune # None

\* adjust turns a knob, typeHex and backspace edit the text, "a" toggles.
adjust == Tuning /\ \E c \in Hex : Go([m EXCEPT !.tune = [auto |-> FALSE, knobs |-> c, hex |-> c]])
typeHex ==
    /\ Tuning
    /\ \/ \E c \in Hex : Go([m EXCEPT !.tune = [auto |-> FALSE, knobs |-> c, hex |-> c]])
       \/ Go([m EXCEPT !.tune.hex = None])
toggleAuto == Tuning /\ Go([m EXCEPT !.tune.auto = ~@])

\* Enter applies what is staged, esc drops it.
applyTune ==
    /\ Tuning
    /\ Go([setColorForField(m, IF m.tune.auto THEN None ELSE stagedHex(m.tune)) EXCEPT !.tune = None])
cancelTune == Tuning /\ Go([m EXCEPT !.tune = None])

\* ctrl+s: the command has a copy of the panel, with the theme, and reads the
\* colors when it runs.
saveCmd ==
    /\ Nav /\ Return({Cmd("save", 0, m.themeIdx)})
    /\ m' = [m EXCEPT !.changed = Running("save") # {}]

\* Mutant: roles left on "auto" are written with the color they resolve to.
saveRuns_Resolved(c) ==
    /\ c.kind = "save" /\ ReturnFrom(c, {Cmd("saved", 0, None)})
    /\ m' = [m EXCEPT !.file = [theme |-> c.key,
                                colors |-> [t \in Theme |-> [r \in Role |-> ResolveRoleAt(m.colors, t, r)]]],
                      !.active = c.key, !.late = @ \/ c.key # m.active, !.restarted = FALSE]

\* The command runs beside Update: it fails, or it writes the file and puts the
\* theme it knows into use.  Its message follows.
saveRuns(c) ==
    /\ c.kind = "save" /\ ReturnFrom(c, {Cmd("saved", 0, None)})
    /\ \/ m' = [m EXCEPT !.changed = TRUE]
       \/ m' = [m EXCEPT !.file = [theme |-> c.key, colors |-> m.colors], !.active = c.key,
                         !.late = @ \/ c.key # m.active, !.restarted = FALSE]

\* SettingsSavedMsg and SettingsErrMsg close whatever panel is open, one opened
\* since or one whose tuner is on.
SettingsSavedMsg(c) ==
    c.kind = "saved" /\ m' = [m EXCEPT !.open = FALSE] /\ ReturnFrom(c, {})

\* The next process: InitFromConfig lays the colors of the file over those of
\* themes.yaml.  A role the file leaves out is not "auto" again.
InitFromConfig ==
    /\ m.file # None /\ Idle
    /\ Go([m EXCEPT !.open = FALSE, !.active = m.file.theme, !.late = FALSE, !.restarted = TRUE,
                    !.changed = FALSE, !.tune = None,
                    !.colors = [t \in Theme |-> [r \in Role |->
                      IF m.file.colors[t][r] # None THEN m.file.colors[t][r] ELSE Builtin[t][r]]]])

SettingsNext ==
    \/ OpenSettings \/ CloseSettings \/ selectGroup \/ moveRow \/ selectTheme \/ cycleSwatch
    \/ setAuto \/ startTune \/ adjust \/ typeHex \/ toggleAuto \/ applyTune \/ cancelTune
    \/ saveCmd \/ InitFromConfig
    \/ \E c \in UnderWay : saveRuns(c) \/ SettingsSavedMsg(c)

\* The selected role is a row of the section on display, and no swatch is twice
\* in the ring, so that each color has one place there.
SettingsTypeOK ==
    /\ m.colors \in [Theme -> [Role -> Hex \union {None, 0}]]
    /\ m.open => /\ \E i \in DOMAIN Roles(m) : Roles(m)[i] = m.fieldIdx
                 /\ m.onTheme => m.tune = None
    /\ \A i, j \in DOMAIN m.palette : m.palette[i] = m.palette[j] => i = j

\* The theme in the panel is the one in use, unless a save put another back;
\* and what was saved is what was on display, as long as nothing has changed
\* since, but for the colors of themes.yaml that come back at the next start.
SettingsShowSubject ==
    /\ m.open => m.active = m.themeIdx \/ m.late
    /\ m.file # None /\ Running("save") = {} /\ ~m.changed =>
         /\ m.file.theme = m.active
         /\ \A t \in Theme, r \in Role :
              m.colors[t][r] = m.file.colors[t][r] \/ (m.restarted /\ m.file.colors[t][r] = None)

-------------------------------------------------------------------------------
(* The table widget.  The rows from start up to end are in the viewport,     *)
(* which draws Height of its lines from YOffset (y) on.  Of a column only    *)
(* the span it takes matters; the first is pinned.                           *)

clamp(v, low, high) ==
    LET up == IF v < low THEN low ELSE v IN IF up > high THEN high ELSE up

lines(s) == IF s.end > s.start THEN s.end - s.start ELSE 1

\* The viewport's own: its last line is drawn at the bottom at most.
SetYOffset(s, y) ==
    [s EXCEPT !.y = clamp(y, 0, IF lines(s) > s.height THEN lines(s) - s.height ELSE 0)]

\* UpdateViewport: the rows a viewport's height above and below the cursor.  An
\* offset behind them goes to the bottom.
UpdateViewport(s) ==
    LET t == [s EXCEPT !.start = IF s.cursor >= 0 THEN clamp(s.cursor - s.height, 0, s.cursor) ELSE 0,
                       !.end = clamp(s.cursor + s.height, s.cursor, s.n)]
    IN  IF t.y > lines(t) - 1 THEN SetYOffset(t, lines(t)) ELSE t

\* Mutant: the viewport is not scrolled.
MoveUp_Unscrolled(s, k) == UpdateViewport([s EXCEPT !.cursor = clamp(s.cursor - k, 0, s.n - 1)])

MoveUp(s, k) ==
    LET t == [s EXCEPT !.cursor = clamp(s.cursor - k, 0, s.n - 1)]
    IN  UpdateViewport(
          IF s.start = 0 THEN SetYOffset(t, clamp(s.y, 0, t.cursor))
          ELSE IF s.start < s.height THEN [t EXCEPT !.y = clamp(clamp(s.y + k, 0, t.cursor), 0, s.height)]
          ELSE IF s.y >= 1 THEN [t EXCEPT !.y = clamp(s.y + k, 1, s.height)]
          ELSE t)

MoveDown(s, k) ==
    LET t == UpdateViewport([s EXCEPT !.cursor = clamp(s.cursor + k, 0, s.n - 1)])
    IN  IF t.end = t.n /\ t.y > 0 THEN SetYOffset(t, clamp(t.y - k, 1, t.height))
        ELSE IF t.cursor > (t.end - t.start) \div 2 /\ t.y > 0
             THEN SetYOffset(t, clamp(t.y - k, 1, t.cursor))
        ELSE IF t.y <= 1 /\ t.cursor > t.y + t.height - 1 THEN SetYOffset(t, clamp(t.y + 1, 0, 1))
        ELSE t

\* The row under the cursor is drawn.
InView(s) == s.cursor - s.start \in s.y..(s.y + s.height - 1)

\* A scrollbar takes two cells of the columns' width.
contentWidth(s) == IF s.width > 0 /\ s.height > 0 /\ s.n > s.height THEN s.width - 2 ELSE s.width

Sum(spans, a, b) ==
    LET upTo[i \in (a - 1)..b] == IF i < a THEN 0 ELSE upTo[i - 1] + spans[i] IN upTo[b]

\* Columns that may be scrolled are those behind the first.
Behind(s) == Len(s.spans) - 1

\* How many are drawn from the k-th on: one at least.
visibleCols(s, k) ==
    LET fits == {j \in k..Behind(s) : Sum(s.spans, k + 1, j + 1) <= contentWidth(s) - s.spans[1]}
    IN  IF contentWidth(s) <= 0 THEN Behind(s)
        ELSE IF fits # {} THEN Cardinality(fits) ELSE IF k <= Behind(s) THEN 1 ELSE 0

\* The least offset with the last column in view, from the right edge.
maxColOffset(s) ==
    IF contentWidth(s) <= 0 \/ Behind(s) = 0 THEN 0
    ELSE CHOOSE o \in 0..Behind(s) - 1 :
           /\ o = Behind(s) - 1 \/ Sum(s.spans, o + 2, Behind(s) + 1) <= contentWidth(s) - s.spans[1]
           /\ o > 0 => Sum(s.spans, o + 1, Behind(s) + 1) > contentWidth(s) - s.spans[1]

\* History.  lost: the cursor was set to a row, or the height to one, with which
\* it is not drawn, and has not been since.  gap: a height without scrollbar
\* leaves the columns scrolled farther than need be.
Put(s) == Go([s EXCEPT !.lost = @ /\ ~InView(s), !.gap = @ /\ s.colOffset > maxColOffset(s)])

\* New, with rows or without.
TableInit ==
    /\ \E h \in Height, n \in 0..Tall, spans \in Spans, w \in Width :
         m = UpdateViewport([n |-> n, cursor |-> 0, start |-> 0, end |-> 0, y |-> 0, height |-> h,
                             focus |-> TRUE, spans |-> spans, colOffset |-> 0, width |-> w,
                             lost |-> FALSE, gap |-> FALSE])
    /\ cmds = EmptyBag

\* Update: keys move by a row, a page or half of one, or to an end; a table
\* without the focus has none.
Update ==
    /\ m.focus
    /\ \/ \E k \in {1, m.height, m.height \div 2, m.cursor} : Put(MoveUp(m, k))
       \/ \E k \in {1, m.height, m.height \div 2, m.n} : Put(MoveDown(m, k))

FocusBlur == Put(UpdateViewport([m EXCEPT !.focus = ~@]))

\* A click on a row that is drawn.
ClickRow ==
    \E i \in m.start..m.end - 1 :
      /\ i - m.start \in m.y..(m.y + m.height - 1)
      /\ Put(UpdateViewport([m EXCEPT !.cursor = i]))

\* SetCursor, when a screen puts the cursor on a row it looked for.
SetCursor ==
    \E i \in 0..m.n - 1 :
      LET t == UpdateViewport([m EXCEPT !.cursor = i]) IN Put([t EXCEPT !.lost = ~InView(t)])

\* Mutant: the cursor stays behind the last row.
SetRows_KeepsCursor ==
    \E n \in 0..Tall : Put(UpdateViewport([m EXCEPT !.n = n]))

\* fitColumns grows the columns to what the rows show.
SetRows ==
    \E n \in 0..Tall, spans \in {p \in Spans : Len(p) = Len(m.spans)} :
      LET c == IF m.cursor > n - 1 THEN n - 1 ELSE m.cursor
          t == [m EXCEPT !.n = n, !.cursor = IF c < 0 /\ n > 0 THEN 0 ELSE c, !.spans = spans]
      IN  Put(UpdateViewport([t EXCEPT !.colOffset = clamp(@, 0, maxColOffset(t))]))

SetColumns == \E spans \in Spans : Put(UpdateViewport([m EXCEPT !.spans = spans, !.colOffset = 0]))

SetWidth ==
    \E w \in Width :
      LET t == [m EXCEPT !.width = w]
      IN  Put(UpdateViewport([t EXCEPT !.colOffset = clamp(@, 0, maxColOffset(t))]))

SetHeight ==
    \E h \in Height :
      LET t == UpdateViewport([m EXCEPT !.height = h])
      IN  Put([t EXCEPT !.lost = t.n > 0 /\ ~InView(t), !.gap = t.colOffset > maxColOffset(t)])

\* Mutant: columns are scrolled as long as there are any.
ScrollColumns_ToLast ==
    \/ m.colOffset < Behind(m) /\ Put(UpdateViewport([m EXCEPT !.colOffset = @ + 1]))
    \/ m.colOffset > 0 /\ Put(UpdateViewport([m EXCEPT !.colOffset = @ - 1]))

\* ScrollRight and ScrollLeft.
ScrollColumns ==
    \/ m.colOffset < maxColOffset(m) /\ Put(UpdateViewport([m EXCEPT !.colOffset = @ + 1]))
    \/ m.colOffset > 0 /\ Put(UpdateViewport([m EXCEPT !.colOffset = @ - 1]))

TableNext ==
    \/ Update \/ FocusBlur \/ ClickRow \/ SetCursor \/ SetRows \/ SetColumns \/ SetWidth
    \/ SetHeight \/ ScrollColumns

\* The cursor is on a row, as long as there is one, and in what is rendered;
\* every column can be scrolled into view, and no further than to the last,
\* unless a height left a gap.
TableTypeOK ==
    /\ m.n > 0 => m.cursor \in 0..m.n - 1 /\ m.cursor \in m.start..m.end - 1
    /\ m.n = 0 => m.cursor \in {-1, 0} /\ m.end <= m.start
    /\ m.colOffset <= maxColOffset(m) \/ m.gap
    /\ maxColOffset(m) + visibleCols(m, maxColOffset(m) + 1) = Behind(m)

\* The row that Enter opens is one of those drawn: keys, clicks, new rows and
\* new columns keep it there, though each scrolls in its own way.  Only a
\* cursor or a height that is set loses it.
TableShowsSubject == m.n > 0 => InView(m) \/ m.lost

-------------------------------------------------------------------------------
(* Pages of results: the rows on display are the results that the filters    *)
(* let through, in natural order or sorted; an overlay is drawn instead.     *)

\* What is typed, which is looked for in all that a finding says.
filterFindings(s) == {e \in s.all : s.filter => e \in EMatch}

\* The trail: failed calls only, if so toggled, and the Limit newest of them
\* before they are sorted.
filterEvents(s) ==
    LET found == {e \in filterFindings(s) : s.errorsOnly => e \in Errored}
    IN  IF s.kind = "trail" /\ Limit > 0
        THEN {e \in found : Cardinality({d \in found : d < e}) < Limit}
        ELSE found

\* sortFindings, sortEvents and sortRows are stable.
Ahead(s, d, e) ==
    IF s.sortCol = 0 \/ Cells[d][s.sortCol] = Cells[e][s.sortCol] THEN d < e
    ELSE (Cells[d][s.sortCol] < Cells[e][s.sortCol]) = s.sortAsc
sortEvents(s, found) ==
    [i \in 1..Cardinality(found) |->
       CHOOSE e \in found : Cardinality({d \in found : Ahead(s, d, e)}) = i - 1]

\* What the rows are made of.
View(s) ==
    [kind |-> s.kind, all |-> s.all, filter |-> s.filter, errorsOnly |-> s.errorsOnly,
     sortCol |-> s.sortCol, sortAsc |-> s.sortAsc]
Visible(v) == sortEvents(v, filterEvents(v))

\* SetRows leaves the cursor where it is, on whatever is there then.
rebuild(s) ==
    LET rows == Visible(View(s))
    IN  [s EXCEPT !.visible = rows,
                  !.cursor = IF @ > Len(rows) THEN Len(rows) ELSE IF @ = 0 /\ rows # <<>> THEN 1 ELSE @]
selected(s) == IF s.cursor \in DOMAIN s.visible THEN s.visible[s.cursor] ELSE None

\* History: subject, what the detail was opened on; moved, results came since.
ResultsInit ==
    /\ \E kind \in {"audit", "trail", "lake"}, failed \in BOOLEAN :
         /\ failed => kind = "trail"
         /\ m = [kind |-> kind, loading |-> TRUE, all |-> {}, errs |-> FALSE, filter |-> FALSE,
                 filtering |-> FALSE, errorsOnly |-> failed, sortCol |-> 0, sortAsc |-> FALSE,
                 overlay |-> "none", visible |-> <<>>, cursor |-> 0, subject |-> None,
                 moved |-> FALSE]
    /\ cmds = EmptyBag

\* Mutant: what came is listed when the user presses a key.
Arrive_NoRebuild(new, err, last) ==
    m' = [m EXCEPT !.all = @ \union new, !.errs = @ \/ err, !.loading = ~last,
                   !.moved = @ \/ (m.overlay = "detail" /\ new # {})]

Arrive(new, err, last) ==
    m' = rebuild([m EXCEPT !.all = @ \union new, !.errs = @ \/ err, !.loading = ~last,
                           !.moved = @ \/ (m.overlay = "detail" /\ new # {})])

\* A region's chunk, with findings and errors, or the end of the channel; the
\* events of a region, or none; and the answer to a query.
Findings ==
    /\ m.kind = "audit" /\ m.loading
    /\ \/ \E new \in SUBSET (Entry \ m.all), err \in BOOLEAN : Arrive(new, err, FALSE)
       \/ Arrive({}, FALSE, TRUE)
    /\ UNCHANGED cmds
Events ==
    /\ m.kind = "trail" /\ m.loading
    /\ \/ \E new \in SUBSET (Entry \ m.all) : Arrive(new, FALSE, FALSE)
       \/ Arrive({}, FALSE, TRUE)
    /\ UNCHANGED cmds
QueryRows ==
    /\ m.kind = "lake" /\ m.loading
    /\ \E new \in SUBSET Entry : Arrive(new, FALSE, TRUE)
    /\ UNCHANGED cmds

\* Keys, in handleKey's order: while a filter is typed, in an overlay, and on
\* the page.
typeResults ==
    /\ m.filtering
    /\ \/ \E on \in BOOLEAN : Go(rebuild([m EXCEPT !.filter = on]))
       \/ Go([m EXCEPT !.filtering = FALSE])
       \/ Go(rebuild([m EXCEPT !.filtering = FALSE, !.filter = FALSE]))
inOverlay == ~m.filtering /\ m.overlay # "none" /\ Go([m EXCEPT !.overlay = "none"])

OnPage == ~m.filtering /\ m.overlay = "none"

\* "/", Enter, "?", "i", "~", and "e", of the audit.
openOverlay ==
    /\ OnPage
    /\ \/ Go([m EXCEPT !.filtering = TRUE])
       \/ /\ selected(m) # None
          /\ Go([m EXCEPT !.overlay = "detail", !.subject = selected(m), !.moved = FALSE])
       \/ \E o \in {"help", "about", "debug", "errors"} :
            /\ o = "errors" => m.kind = "audit" /\ m.errs
            /\ Go([m EXCEPT !.overlay = o])

\* "s" and "R".  The worst and the most expensive come first; a lake's columns
\* come with its rows.
sortResults ==
    /\ OnPage
    /\ \/ LET c == IF m.sortCol + 1 \in 1..Len(Cells[1]) /\ ~(m.kind = "lake" /\ m.loading)
                   THEN m.sortCol + 1 ELSE 0
          IN  Go(rebuild([m EXCEPT !.sortCol = c, !.sortAsc = m.kind # "audit" \/ c # 1]))
       \/ m.sortCol > 0 /\ Go(rebuild([m EXCEPT !.sortAsc = ~@]))

\* "r", and "x" of the trail.
resetResults == OnPage /\ Go(rebuild([m EXCEPT !.filter = FALSE, !.sortCol = 0, !.errorsOnly = FALSE]))
failedOnly == OnPage /\ Go(rebuild([m EXCEPT !.errorsOnly = ~@]))

moveOnPage == OnPage /\ \E i \in DOMAIN m.visible : Go([m EXCEPT !.cursor = i])

ResultsKeys ==
    typeResults \/ inOverlay \/ openOverlay \/ sortResults \/ resetResults \/ moveOnPage
AuditKeys == m.kind = "audit" /\ ResultsKeys
TrailKeys == m.kind = "trail" /\ (ResultsKeys \/ failedOnly)
LakeKeys == m.kind = "lake" /\ ResultsKeys

ResultsNext == AuditKeys \/ TrailKeys \/ LakeKeys \/ Findings \/ Events \/ QueryRows

\* The detail is of a row there is, and one part of the screen has the keys.
ResultsTypeOK ==
    /\ m.cursor \in (IF m.visible = <<>> THEN {0} ELSE DOMAIN m.visible)
    /\ m.overlay = "detail" => selected(m) # None
    /\ m.filtering => m.overlay = "none"

\* The rows, which the cursor points into, "y" copies from and "C" exports, are
\* those of the results so far; the cap takes the newest, however they are sorted.
ResultsCurrent == m.visible = Visible(View(m))

\* The detail is of the result it was opened on, unless results came since: they
\* are put before and between the others, and the cursor stays.
ResultsShowSubject == m.overlay = "detail" => selected(m) = m.subject \/ m.moved

-------------------------------------------------------------------------------
(* The explorer.                                                             *)

current(s) == s.stack[Len(s.stack)]

\* Related, one hop, through both indexes.
Related(edges, at) ==
    [uses |-> {e[2] : e \in {d \in edges : d[1] = at}},
     usedBy |-> {e[1] : e \in {d \in edges : d[2] = at}}]

\* What is typed selects a resource here, None for nothing typed.
filterLinks(links, filter) == {l \in links : filter = None \/ l = filter}

applyFilter(s) ==
    [s EXCEPT !.viewUses = filterLinks(s.result.uses, s.filter),
              !.viewUsedBy = filterLinks(s.result.usedBy, s.filter)]

recompute(s) == applyFilter([s EXCEPT !.result = Related(s.edges, current(s))])

Ends == {e[1] : e \in Edge} \union {e[2] : e \in Edge}

ExplorerInit ==
    /\ \E input \in Ends :
         m = [loading |-> TRUE, edges |-> {}, stack |-> <<input>>, focus |-> "uses",
              result |-> Related({}, input), viewUses |-> {}, viewUsedBy |-> {},
              filtering |-> FALSE, filter |-> None, help |-> FALSE]
    /\ cmds = Batch({Cmd("collect", 0, None)})

\* The answer: other references than the last time, maybe none of the resource
\* in the centre.
edgesMsg(c) ==
    /\ c.kind = "collect" /\ ReturnFrom(c, {})
    /\ \E edges \in SUBSET Edge : m' = recompute([m EXCEPT !.loading = FALSE, !.edges = edges])

\* Keys: the help takes them, and there are none while loading.
helpKey == m.help /\ Go([m EXCEPT !.help = FALSE])
Exploring == ~m.help /\ ~m.loading /\ ~m.filtering

typeLinks ==
    /\ m.filtering /\ ~m.help /\ ~m.loading
    /\ \/ Go([m EXCEPT !.filtering = FALSE])
       \/ Go(applyFilter([m EXCEPT !.filtering = FALSE, !.filter = None]))
       \/ \E f \in Ends \union {None} : Go(applyFilter([m EXCEPT !.filter = f]))

\* "r".
collectCmd ==
    /\ Exploring /\ m' = [m EXCEPT !.loading = TRUE] /\ Return({Cmd("collect", 0, None)})

\* "/", "i" and the keys of the two panes.
openBox ==
    Exploring /\ \/ Go([m EXCEPT !.filtering = TRUE]) \/ Go([m EXCEPT !.help = TRUE])
                 \/ \E pane \in {"uses", "usedBy"} : Go([m EXCEPT !.focus = pane])

links(s) == IF s.focus = "usedBy" THEN s.viewUsedBy ELSE s.viewUses

\* Mutant: the panes keep what they show.
descend_NoRecompute ==
    /\ Exploring /\ Len(m.stack) < Hops
    /\ \E l \in links(m) : Go([m EXCEPT !.stack = Append(@, l), !.focus = "uses"])

\* Enter.  The filter stays.
descend ==
    /\ Exploring /\ Len(m.stack) < Hops
    /\ \E l \in links(m) : Go(recompute([m EXCEPT !.stack = Append(@, l), !.focus = "uses"]))

\* Esc and backspace, filter or not.
back ==
    /\ Exploring /\ Len(m.stack) > 1
    /\ Go(recompute([m EXCEPT !.stack = SubSeq(@, 1, Len(@) - 1), !.focus = "uses"]))

ExplorerNext ==
    \/ helpKey \/ typeLinks \/ collectCmd \/ openBox \/ descend \/ back
    \/ \E c \in UnderWay : edgesMsg(c)

\* Typed text goes to the box on display, and the path begins somewhere.
ExplorerTypeOK ==
    /\ m.stack # <<>> /\ m.filter \in Ends \union {None}
    /\ m.filtering => ~m.help /\ ~m.loading

\* Both panes are what the references read last say of the resource at the end
\* of the path in the header, under the filter there is: Enter walks along one
\* of these.
ExplorerCurrent ==
    /\ m.result = Related(m.edges, current(m))
    /\ m.viewUses = filterLinks(m.result.uses, m.filter)
    /\ m.viewUsedBy = filterLinks(m.result.usedBy, m.filter)

\* One collection at a time, and none lost.
ExplorerSpinnerEnds == Copies(Cmd("collect", 0, None)) = IF m.loading THEN 1 ELSE 0
===============================================================================
