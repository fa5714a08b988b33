--------------------------------- MODULE CwTUI ---------------------------------
(***************************************************************************)
(* The CloudWatch Logs explorer: groups, streams of the selected group,    *)
(* events of the selected stream (0: of the whole group), watch mode that  *)
(* asks for them every three seconds, and the log viewer with a timer of   *)
(* its own.  Groups are numbered in list order.  Of a pattern only whether *)
(* there is one matters; of the stream filter, how many streams it leaves. *)
(* Overlays over the browser only take keys, and a download of a stream    *)
(* locks only other downloads: both are left out.                          *)
(***************************************************************************)
EXTENDS Tea

CONSTANTS
    Groups, GMatch,  \* log groups, and those the group filter's term matches
    Streams,         \* the most streams a group has
    Viewed           \* groups whose events are opened in the viewer

Shut == [active |-> FALSE, key |-> None, loading |-> FALSE, shown |-> None]

Init ==
    /\ m = [err |-> FALSE, groups |-> {}, groupFilter |-> FALSE, selectedGroupIdx |-> 0,
            groupsLoading |-> TRUE, streamsOf |-> None, streams |-> 0,
            selectedStreamIdx |-> 0, streamsLoading |-> FALSE,
            events |-> None, eventsLoading |-> FALSE, pattern |-> FALSE,
            groupLevelSearch |-> FALSE, typing |-> FALSE,
            view |-> "streams", focus |-> "groups", watchMode |-> FALSE,
            viewer |-> Shut,
            asked |-> None, overtaken |-> FALSE, moved |-> FALSE]
    /\ cmds = Batch({Cmd("groups", 0, None)})

filteredGroups(s) == IF s.groupFilter THEN s.groups \intersect GMatch ELSE s.groups
Clamp(i, n) == IF i >= n THEN (IF n = 0 THEN 0 ELSE n - 1) ELSE i

\* selectedGroup: the group at the selected index, None of an empty list.
selectedGroup(s) ==
    LET gs == filteredGroups(s)
    IN  IF s.selectedGroupIdx >= Cardinality(gs) THEN None
        ELSE CHOOSE g \in gs : Cardinality({h \in gs : h < g}) = s.selectedGroupIdx

\* The stream events are asked of.
Target(s) ==
    <<selectedGroup(s),
      IF ~s.groupLevelSearch /\ s.streams > 0 THEN s.selectedStreamIdx + 1 ELSE 0>>

\* filterGroups.  moved is history: the selection changed without a load.
filterGroups(s) ==
    LET t == [s EXCEPT !.selectedGroupIdx = Clamp(@, Cardinality(filteredGroups(s)))]
    IN  [t EXCEPT !.moved = @ \/ selectedGroup(t) # selectedGroup(m)]

loadStreamsCmd(s) ==
    LET g == selectedGroup(s) IN IF g = None THEN {} ELSE {Cmd("streams", 0, <<g>>)}

\* loadEventsCmd, in a step that also leaves the model at s.  asked and
\* overtaken are history: an answer to another query was still under way.
loadEventsCmd(s) ==
    LET t == Target(s) IN IF t[1] = None THEN {} ELSE {Cmd("events", 0, t)}
LoadEvents(s) ==
    /\ Return(loadEventsCmd(s))
    /\ LET t == Target(s)
       IN  m' = [s EXCEPT !.eventsLoading = TRUE, !.asked = t,
                         !.overtaken = \E c \in Running("events") : c.key # t]

-------------------------------------------------------------------------------
groupsMsg(c) ==
    /\ c.kind = "groups"
    /\ \/ m' = [m EXCEPT !.groupsLoading = FALSE, !.err = TRUE]
       \/ \E gs \in {{}, Groups} :
            m' = filterGroups([m EXCEPT !.groupsLoading = FALSE, !.groups = gs])
    /\ ReturnFrom(c, {})

\* Mutant: the streams of any group are taken.
streamsMsg_AnyGroup(c) ==
    /\ c.kind = "streams"
    /\ \/ m' = [m EXCEPT !.streamsLoading = FALSE, !.err = TRUE]
       \/ \E n \in 0..Streams :
            m' = [m EXCEPT !.streamsLoading = FALSE, !.streamsOf = c.key[1], !.streams = n,
                           !.selectedStreamIdx = Clamp(@, n), !.moved = FALSE]
    /\ ReturnFrom(c, {})

\* streamsMsg, dropped unless it is of the selected group.
streamsMsg(c) ==
    /\ c.kind = "streams"
    /\ \/ c.key # <<selectedGroup(m)>> /\ m' = m
       \/ /\ c.key = <<selectedGroup(m)>>
          /\ \/ m' = [m EXCEPT !.streamsLoading = FALSE, !.err = TRUE]
             \/ \E n \in 0..Streams :
                  m' = [m EXCEPT !.streamsLoading = FALSE, !.streamsOf = c.key[1], !.streams = n,
                                 !.selectedStreamIdx = Clamp(@, n), !.moved = FALSE]
    /\ ReturnFrom(c, {})

\* eventsMsg carries no key: it is shown whatever is selected by now.  A query
\* that failed leaves the events of the one before behind the error screen.
eventsMsg(c) ==
    /\ c.kind = "events"
    /\ \/ m' = [m EXCEPT !.eventsLoading = FALSE, !.err = TRUE, !.overtaken = TRUE]
       \/ m' = [m EXCEPT !.eventsLoading = FALSE, !.events = c.key]
    /\ ReturnFrom(c, {})

\* watchTickMsg: the events again, and the next tick.  The events on display
\* stay until the answer, those of a group the filter moved away from too.
watchTickMsg(c) ==
    /\ c.kind = "watchTick"
    /\ LET on == m.watchMode /\ m.view = "events"
       IN  /\ BagCardinality(cmds) < MaxCmds \/ ~on
           /\ m' = [m EXCEPT !.asked = IF on THEN Target(m) ELSE @,
                             !.overtaken = @ \/ (on /\ m.asked # Target(m))]
           /\ ReturnFrom(c, IF on THEN loadEventsCmd(m) \union {c} ELSE {})

\* Mutant: the viewer takes the events of any viewer.
handleViewerEvents_AnyKey(c) ==
    /\ c.kind = "viewerEvents"
    /\ m' = IF m.viewer.active
            THEN [m EXCEPT !.viewer.loading = @ /\ c.gen = 0, !.viewer.shown = c.key] ELSE m
    /\ ReturnFrom(c, {})

\* handleViewerEvents: the initial load (gen 1) ends the spinner.
handleViewerEvents(c) ==
    /\ c.kind = "viewerEvents"
    /\ m' = IF m.viewer.active /\ c.key = m.viewer.key
            THEN [m EXCEPT !.viewer.loading = @ /\ c.gen = 0, !.viewer.shown = c.key] ELSE m
    /\ ReturnFrom(c, {})

viewerTickMsg(c) ==
    /\ c.kind = "viewerTick"
    /\ LET on == m.viewer.active /\ c.key = m.viewer.key
       IN  /\ BagCardinality(cmds) < MaxCmds \/ ~on
           /\ ReturnFrom(c, IF on THEN {c, Cmd("viewerEvents", 0, c.key)} ELSE {})
    /\ UNCHANGED m

-------------------------------------------------------------------------------
Browsing == ~m.typing /\ ~m.err /\ ~m.viewer.active
Set(s) == m' = s /\ UNCHANGED cmds

\* Enter or Esc on the error screen: the groups again if there are none.
Retry ==
    /\ m.err
    /\ m' = [m EXCEPT !.err = FALSE, !.groupsLoading = @ \/ m.groups = {}]
    /\ Return(IF m.groups = {} THEN {Cmd("groups", 0, None)} ELSE {})

\* Typing in the group filter, which loads nothing, and in the stream filter.
FilterLists ==
    /\ Browsing
    /\ \/ m.focus = "groups" /\ Set(filterGroups([m EXCEPT !.groupFilter = ~@]))
       \/ /\ m.focus = "streams" /\ m.streamsOf # None
          /\ \E n \in 0..Streams :
               Set([m EXCEPT !.streams = n, !.selectedStreamIdx = Clamp(@, n)])

cycleFocus ==
    /\ Browsing
    /\ Set([m EXCEPT !.focus = IF @ = "groups" THEN m.view ELSE "groups"])

\* navigateList: another group has its streams loaded at once.
navigateList ==
    /\ Browsing
    /\ \/ /\ m.focus = "groups" /\ filteredGroups(m) # {}
          /\ \E i \in 0..(Cardinality(filteredGroups(m)) - 1) :
               LET s == [m EXCEPT !.selectedGroupIdx = i, !.streamsLoading = TRUE,
                           !.streamsOf = None, !.streams = 0, !.selectedStreamIdx = 0,
                           !.events = None, !.view = "streams", !.moved = FALSE,
                           !.asked = None, !.overtaken = FALSE]
               IN  m' = s /\ Return(loadStreamsCmd(s))
       \/ /\ m.focus = "streams" /\ m.streams > 0
          /\ Set([m EXCEPT !.selectedStreamIdx = (@ + 1) % m.streams])

\* Mutant: a stream opened from the list keeps the watch mode of the last one.
handleSelection_KeepsWatch ==
    /\ Browsing
    /\ \/ /\ m.focus = "groups" /\ filteredGroups(m) # {}
          /\ LET s == [m EXCEPT !.streamsLoading = TRUE, !.view = "streams",
                          !.focus = "streams", !.asked = None, !.overtaken = FALSE]
             IN  m' = s /\ Return(loadStreamsCmd(s))
       \/ /\ m.focus = "streams" /\ m.streams > 0
          /\ LoadEvents([m EXCEPT !.view = "events", !.focus = "events",
                                  !.groupLevelSearch = FALSE])

\* Enter on a group, on a stream, on an event (openViewer).
handleSelection ==
    /\ Browsing
    /\ \/ /\ m.focus = "groups" /\ filteredGroups(m) # {}
          /\ LET s == [m EXCEPT !.streamsLoading = TRUE, !.view = "streams",
                          !.focus = "streams", !.asked = None, !.overtaken = FALSE]
             IN  m' = s /\ Return(loadStreamsCmd(s))
       \/ /\ m.focus = "streams" /\ m.streams > 0
          /\ LoadEvents([m EXCEPT !.view = "events", !.focus = "events",
                                  !.groupLevelSearch = FALSE, !.watchMode = FALSE])

\* Mutant: the first load of the viewer is not marked as such.
openViewer_NotInitial ==
    /\ Browsing /\ m.focus = "events" /\ m.events # None /\ selectedGroup(m) \in Viewed
    /\ LET k == Append(Target(m), m.pattern)
       IN  /\ m' = [m EXCEPT !.watchMode = FALSE,
                      !.viewer = [active |-> TRUE, key |-> k, loading |-> TRUE, shown |-> None]]
           /\ Return({Cmd("viewerEvents", 0, k), Cmd("viewerTick", 0, k)})

openViewer ==
    /\ Browsing /\ m.focus = "events" /\ m.events # None /\ selectedGroup(m) \in Viewed
    /\ LET k == Append(Target(m), m.pattern)
       IN  /\ m' = [m EXCEPT !.watchMode = FALSE,
                      !.viewer = [active |-> TRUE, key |-> k, loading |-> TRUE, shown |-> None]]
           /\ Return({Cmd("viewerEvents", 1, k), Cmd("viewerTick", 0, k)})

CloseViewer == m.viewer.active /\ ~m.err /\ Set([m EXCEPT !.viewer = Shut])

\* Mutant: a whole group's events leave the focus on the panel they close.
Back_KeepsFocus(s) ==
    [s EXCEPT !.watchMode = FALSE,
              !.view = IF m.focus = "groups" THEN @ ELSE "streams",
              !.focus = IF m.focus = "events" /\ ~m.groupLevelSearch THEN "streams"
                        ELSE @,
              !.groupLevelSearch = @ /\ m.focus # "events"]

\* handleBack from s.
Back(s) ==
    [s EXCEPT !.watchMode = FALSE,
              !.view = IF m.focus = "groups" THEN @ ELSE "streams",
              !.focus = IF m.focus = "events" /\ ~m.groupLevelSearch THEN "streams"
                        ELSE "groups",
              !.groupLevelSearch = @ /\ m.focus # "events",
              !.asked = IF m.focus = "groups" THEN @ ELSE None,
              !.overtaken = @ /\ m.focus = "groups"]
handleBack == Browsing /\ Set(Back(m))

\* "/" in the events panel, Enter and Esc.
EventSearch ==
    \/ Browsing /\ m.focus = "events" /\ Set([m EXCEPT !.typing = TRUE])
    \/ /\ m.typing /\ ~m.err
       /\ \/ Set([m EXCEPT !.pattern = ~@])
          \/ LoadEvents([m EXCEPT !.typing = FALSE])
          \/ IF ~m.pattern /\ m.events = None /\ ~m.eventsLoading
             THEN Set([Back(m) EXCEPT !.typing = FALSE])
             ELSE LoadEvents([m EXCEPT !.typing = FALSE, !.pattern = FALSE])

\* "C": the selection stays on the same group and stream.
clearAllFilters ==
    /\ Browsing
    /\ m.groupFilter \/ m.pattern
    /\ LET t == [m EXCEPT !.groupFilter = FALSE, !.pattern = FALSE]
           at == IF selectedGroup(m) = None THEN Clamp(m.selectedGroupIdx, Cardinality(m.groups))
                 ELSE Cardinality({h \in m.groups : h < selectedGroup(m)})
           u == [t EXCEPT !.selectedGroupIdx = at]
           v == [u EXCEPT !.moved = @ \/ selectedGroup(u) # selectedGroup(m)]
       IN  IF m.view = "events" THEN LoadEvents(v) ELSE Set(v)

\* "W": nothing tells the timer it starts from one it had before.
ToggleWatch ==
    /\ Browsing /\ m.view = "events"
    /\ m' = [m EXCEPT !.watchMode = ~@]
    /\ Return(IF m.watchMode THEN {} ELSE {Cmd("watchTick", 0, None)})

\* "G": the whole group; without a pattern it asks for one first.
ToggleGroupSearch ==
    /\ Browsing /\ filteredGroups(m) # {}
    /\ LET s == [m EXCEPT !.groupLevelSearch = ~@, !.view = "events", !.focus = "events",
                          !.watchMode = FALSE]
       IN  IF s.groupLevelSearch /\ ~m.pattern
           THEN Set([s EXCEPT !.events = None, !.eventsLoading = FALSE, !.typing = TRUE,
                              !.overtaken = Running("events") # {}])
           ELSE LoadEvents(s)

\* "p": another window.
CycleLookback == Browsing /\ m.view = "events" /\ LoadEvents(m)

Keys ==
    \/ Retry \/ FilterLists \/ cycleFocus \/ navigateList \/ handleSelection \/ openViewer
    \/ CloseViewer \/ handleBack \/ EventSearch \/ clearAllFilters
    \/ ToggleWatch \/ ToggleGroupSearch \/ CycleLookback

Answer(c) ==
    \/ groupsMsg(c) \/ streamsMsg(c) \/ eventsMsg(c) \/ watchTickMsg(c)
    \/ handleViewerEvents(c) \/ viewerTickMsg(c)

Next == Keys \/ \E c \in UnderWay : Answer(c)

-------------------------------------------------------------------------------
TypeOK ==
    /\ m.groups \subseteq Groups /\ m.streamsOf \in Groups \union {None}
    /\ m.selectedGroupIdx \in 0..Cardinality(Groups) /\ m.streams \in 0..Streams
    /\ m.view \in {"streams", "events"} /\ m.focus \in {"groups", m.view}
    /\ \A c \in UnderWay : c.kind \in {"groups", "streams", "events", "watchTick", "viewerEvents", "viewerTick"}

\* Every spinner has a command under way that will end it.  The streams' has
\* none once the group filter moved the selection, the events' none when it
\* left no group to ask.
SpinnerEnds ==
    /\ m.groupsLoading => Running("groups") # {}
    /\ m.streamsLoading => m.moved \/ Cmd("streams", 0, <<selectedGroup(m)>>) \in UnderWay
    /\ m.view = "events" /\ m.eventsLoading =>
         Running("events") # {} \/ (m.asked # None /\ m.asked[1] = None)
    /\ m.viewer.active /\ m.viewer.loading => Cmd("viewerEvents", 1, m.viewer.key) \in UnderWay

\* "Drop responses for groups no longer selected"; "responses for a viewer that
\* has since been closed or re-opened on another stream are dropped"; and the
\* events are those last asked for, unless that query failed or an older one was
\* still under way.
ShowsSubject ==
    /\ m.moved \/ m.streamsOf = None \/ m.streamsOf = selectedGroup(m)
    /\ m.viewer.active => m.viewer.shown \in {m.viewer.key, None}
    /\ m.view = "events" /\ ~m.eventsLoading => m.events \in {m.asked, None} \/ m.overtaken

\* Watch mode and an open viewer have a timer running.
KeepsTicking ==
    /\ m.watchMode /\ m.view = "events" => Running("watchTick") # {}
    /\ m.viewer.active => Cmd("viewerTick", 0, m.viewer.key) \in UnderWay

\* The selected stream is one of the list.
SelectionInRange ==
    /\ m.streams > 0 => m.selectedStreamIdx < m.streams
    /\ filteredGroups(m) # {} => selectedGroup(m) # None
-------------------------------------------------------------------------------
(***************************************************************************)
(* KeepsTicking holds for every list of groups and streams.  The timers    *)
(* are never counted by the code; what keeps them is that the events panel *)
(* is entered with watch mode off, that a tick which is heard leaves the   *)
(* next one behind, and that an open viewer keeps its key.                 *)
(***************************************************************************)
\* The fields of the model, and those of the viewer.
Fields == {"err", "groups", "groupFilter", "selectedGroupIdx", "groupsLoading", "streamsOf", "streams",
           "selectedStreamIdx", "streamsLoading", "events", "eventsLoading", "pattern",
           "groupLevelSearch", "typing", "view", "focus", "watchMode", "viewer",
           "asked", "overtaken", "moved"}
ViewerFields == {"active", "key", "loading", "shown"}

\* A command is what Cmd builds, and the ticks of the viewer carry no generation.
Formed(c) == c = Cmd(c.kind, c.gen, c.key) /\ (c.kind = "viewerTick" => c.gen = 0)

\* The inductive invariant.
Ticking ==
    /\ IsABag(cmds)
    /\ DOMAIN m = Fields /\ DOMAIN m.viewer = ViewerFields
    /\ \A c \in UnderWay : Formed(c)
    /\ KeepsTicking

\* The change to s opens no viewer and starts no watching of events.
QuietTo(s) ==
    /\ DOMAIN s = Fields /\ s.viewer = m.viewer
    /\ s.watchMode /\ s.view = "events" => m.watchMode /\ m.view = "events"

\* Such a step needs no timer it did not have.
LEMMA QuietTick ==
    ASSUME NEW new, Ticking, \A c \in new : Formed(c), QuietTo(m'),
           Return(new) \/ (new = {} /\ UNCHANGED cmds)
    PROVE  Ticking'
<1>1. IsABag(cmds') /\ UnderWay' = UnderWay \union new
   BY ReturnBag DEF Ticking, UnderWay
<1> QED BY <1>1 DEF Ticking, QuietTo, KeepsTicking, Running

\* The group filter and Esc are such changes.
LEMMA FilterQuiet ==
    ASSUME DOMAIN m = Fields, NEW s, QuietTo(s)
    PROVE  QuietTo(filterGroups(s)) /\ QuietTo(Back(s))
BY DEF filterGroups, QuietTo, Fields, Back

\* So is a step that also asks for the events.
LEMMA QuietLoad == ASSUME Ticking, NEW s, LoadEvents(s), QuietTo(s) PROVE Ticking'
<1>1. QuietTo(m') BY DEF LoadEvents, QuietTo, Fields, Ticking
<1>2. \A c \in loadEventsCmd(s) : Formed(c) BY DEF loadEventsCmd, Formed, Cmd
<1> QED BY <1>1, <1>2, QuietTick DEF LoadEvents

\* And one that starts no command.
LEMMA QuietSet == ASSUME Ticking, NEW s, Set(s), QuietTo(s) PROVE Ticking'
<1>1. m' = s /\ cmds' = cmds /\ QuietTo(m') BY DEF Set
<1> QED BY <1>1 DEF Ticking, QuietTo, KeepsTicking, Running, UnderWay

\* No key stops a timer that is needed: ToggleWatch and openViewer start theirs.
LEMMA KeysTick == ASSUME Ticking, Keys PROVE Ticking'
<1> USE DEF Browsing
<1>0. DOMAIN m = Fields BY DEF Ticking
<1>1. CASE Retry
  BY <1>1, <1>0, QuietTick DEF Retry, QuietTo, Formed, Cmd, Fields
<1>2. CASE FilterLists
  BY <1>2, <1>0, QuietSet, FilterQuiet DEF FilterLists, QuietTo, Fields
<1>3. CASE cycleFocus
  BY <1>3, <1>0, QuietSet DEF cycleFocus, QuietTo, Fields
<1>5. ASSUME NEW s, m' = s, Return(loadStreamsCmd(s)), QuietTo(s) PROVE Ticking'
  <2>1. \A c \in loadStreamsCmd(s) : Formed(c) BY DEF loadStreamsCmd, Formed, Cmd
  <2> QED BY <2>1, <1>5, QuietTick
<1>4. CASE navigateList
  BY <1>4, <1>0, <1>5, QuietSet DEF navigateList, QuietTo, Fields
<1>6. CASE handleSelection
  BY <1>6, <1>5, <1>0, QuietLoad DEF handleSelection, QuietTo, Fields
<1>7. CASE openViewer
  <2> DEFINE k == Append(Target(m), m.pattern)
             new == {Cmd("viewerEvents", 1, k), Cmd("viewerTick", 0, k)}
  <2>1. Return(new) /\ DOMAIN m' = Fields /\ m'.watchMode = FALSE
       /\ m'.viewer = [active |-> TRUE, key |-> k, loading |-> TRUE, shown |-> None]
     BY <1>7, <1>0 DEF openViewer, Fields
  <2>2. \A c \in new : Formed(c) BY DEF Formed, Cmd
  <2>3. IsABag(cmds') /\ UnderWay' = UnderWay \union new BY <2>1, ReturnBag DEF Ticking
  <2> QED BY <2>1, <2>2, <2>3 DEF Ticking, KeepsTicking, ViewerFields
<1>8. CASE CloseViewer
  <2>1. /\ DOMAIN m' = Fields
        /\ m'.viewer = Shut
        /\ m'.watchMode = m.watchMode
        /\ m'.view = m.view
        /\ cmds' = cmds
    BY <1>8, <1>0 DEF CloseViewer, Set, Fields
  <2> QED BY <2>1 DEF Ticking, KeepsTicking, Shut, ViewerFields, UnderWay, Running
<1>9. QuietTo(m) BY <1>0 DEF QuietTo
<1>10. CASE handleBack
  BY <1>10, <1>0, <1>9, FilterQuiet, QuietSet DEF handleBack
<1>11. CASE EventSearch
  <2> QuietTo(Back(m)) BY <1>9, <1>0, FilterQuiet
  <2> QED BY <1>11, <1>0, <1>9, QuietSet, QuietLoad DEF EventSearch, QuietTo, Fields
<1>12. CASE clearAllFilters
  BY <1>12, <1>0, QuietSet, QuietLoad DEF clearAllFilters, QuietTo, Fields
<1>13. CASE ToggleWatch
  <2> DEFINE new == IF m.watchMode THEN {} ELSE {Cmd("watchTick", 0, None)}
  <2>1. Return(new) /\ DOMAIN m' = Fields /\ m'.viewer = m.viewer /\ m'.watchMode = ~m.watchMode
     BY <1>13, <1>0 DEF ToggleWatch, Fields
  <2>2. \A c \in new : Formed(c) BY DEF Formed, Cmd
  <2>3. IsABag(cmds') /\ UnderWay' = UnderWay \union new BY <2>1, ReturnBag DEF Ticking
  <2>4. m'.watchMode => Running("watchTick")' # {}
    <3>1. SUFFICES ASSUME m'.watchMode PROVE Cmd("watchTick", 0, None) \in Running("watchTick")'
      OBVIOUS
    <3> QED BY <3>1, <2>1, <2>3 DEF Running, Cmd
  <2> QED BY <2>1, <2>2, <2>3, <2>4 DEF Ticking, KeepsTicking
<1>14. CASE ToggleGroupSearch
  BY <1>14, <1>0, QuietSet, QuietLoad DEF ToggleGroupSearch, QuietTo, Fields
<1>15. CASE CycleLookback
  BY <1>15, <1>0, <1>9, QuietLoad DEF CycleLookback
<1> QED BY <1>1,<1>2,<1>3,<1>4,<1>6,<1>7,<1>8,<1>10,<1>11,<1>12,<1>13,<1>14,<1>15 DEF Keys

\* An answer leaves what the timers are needed for alone.
QuietFrom ==
    /\ DOMAIN m' = Fields /\ DOMAIN m'.viewer = ViewerFields
    /\ m'.viewer.active = m.viewer.active /\ m'.viewer.key = m.viewer.key
    /\ m'.watchMode = m.watchMode /\ m'.view = m.view

\* The answers keep the timers if a tick that is heard comes again.
LEMMA AnswersQuietly ==
   ASSUME Ticking, NEW c \in UnderWay, NEW new, ReturnFrom(c, new), \A d \in new : Formed(d), QuietFrom,
     c.kind = "watchTick" /\ m.watchMode /\ m.view = "events" => c \in new,
     c.kind = "viewerTick" /\ m.viewer.active /\ m.viewer.key = c.key => c \in new
   PROVE Ticking'
<1>1. /\ IsABag(cmds')
      /\ UnderWay' \subseteq UnderWay \union new
      /\ (UnderWay \ {c}) \union new \subseteq UnderWay'
  BY ReturnFromBag DEF Ticking
<1>2. \A d \in UnderWay' : Formed(d) BY <1>1 DEF Ticking
<1>3. m'.watchMode /\ m'.view = "events" => Running("watchTick")' # {}
  <2>1. SUFFICES ASSUME m'.watchMode /\ m'.view = "events"
                 PROVE  \E d \in UnderWay' : d.kind = "watchTick"
    BY DEF Running
  <2>2. PICK d \in UnderWay : d.kind = "watchTick"
    BY <2>1 DEF Ticking, KeepsTicking, Running, QuietFrom
  <2> QED BY <1>1, <2>1, <2>2 DEF QuietFrom
<1>4. m'.viewer.active => Cmd("viewerTick", 0, m'.viewer.key) \in UnderWay'
  <2>1. SUFFICES ASSUME m.viewer.active PROVE Cmd("viewerTick", 0, m.viewer.key) \in UnderWay'
    BY DEF QuietFrom
  <2>2. Cmd("viewerTick", 0, m.viewer.key) \in UnderWay BY <2>1 DEF Ticking, KeepsTicking
  <2>3. CASE Cmd("viewerTick", 0, m.viewer.key) = c
    <3>1. c.kind = "viewerTick" /\ c.key = m.viewer.key BY <2>3 DEF Cmd
    <3> QED BY <3>1, <2>1, <2>3, <1>1
  <2> QED BY <2>2, <2>3, <1>1
<1> QED BY <1>1, <1>2, <1>3, <1>4 DEF Ticking, QuietFrom, KeepsTicking

\* Every handler of an answer does so.
LEMMA AnswerTicks == ASSUME Ticking, NEW c \in UnderWay, Answer(c) PROVE Ticking'
<1>0. DOMAIN m = Fields /\ DOMAIN m.viewer = ViewerFields /\ Formed(c) BY DEF Ticking
<1>e. \A d \in {} : Formed(d) OBVIOUS
<1>1. CASE groupsMsg(c)
  <2>1. ReturnFrom(c, {}) /\ c.kind \notin {"watchTick", "viewerTick"} BY <1>1 DEF groupsMsg
  <2>2. QuietFrom BY <1>1, <1>0 DEF groupsMsg, QuietFrom, Fields, filterGroups
  <2> QED BY <2>1, <2>2, <1>e, AnswersQuietly
<1>2. CASE streamsMsg(c)
  <2>1. ReturnFrom(c, {}) /\ c.kind \notin {"watchTick", "viewerTick"}
    BY <1>2 DEF streamsMsg
  <2>2. QuietFrom BY <1>2, <1>0 DEF streamsMsg, QuietFrom, Fields
  <2> QED BY <2>1, <2>2, <1>e, AnswersQuietly
<1>3. CASE eventsMsg(c)
  <2>1. ReturnFrom(c, {}) /\ c.kind \notin {"watchTick", "viewerTick"} BY <1>3 DEF eventsMsg
  <2>2. QuietFrom BY <1>3, <1>0 DEF eventsMsg, QuietFrom, Fields
  <2> QED BY <2>1, <2>2, <1>e, AnswersQuietly
<1>4. CASE watchTickMsg(c)
  <2> DEFINE on == m.watchMode /\ m.view = "events"
             new == IF on THEN loadEventsCmd(m) \union {c} ELSE {}
  <2>1. ReturnFrom(c, new) /\ QuietFrom BY <1>4, <1>0 DEF watchTickMsg, QuietFrom, Fields
  <2>2. \A d \in new : Formed(d) BY <1>0 DEF Formed, loadEventsCmd, Cmd
  <2>3. c.kind = "watchTick" /\ (on => c \in new) BY <1>4 DEF watchTickMsg
  <2> QED BY <2>1, <2>2, <2>3, AnswersQuietly
<1>5. CASE handleViewerEvents(c)
  BY <1>5, <1>0, <1>e, AnswersQuietly DEF handleViewerEvents, QuietFrom, Fields
<1>6. CASE viewerTickMsg(c)
  <2> DEFINE on == m.viewer.active /\ c.key = m.viewer.key
             new == IF on THEN {c, Cmd("viewerEvents", 0, c.key)} ELSE {}
  <2>1. ReturnFrom(c, new) /\ QuietFrom BY <1>6, <1>0 DEF viewerTickMsg, QuietFrom, Fields
  <2>2. \A d \in new : Formed(d) BY <1>0 DEF Formed, Cmd
  <2>3. c.kind = "viewerTick" /\ (on => c \in new) BY <1>6 DEF viewerTickMsg
  <2> QED BY <2>1, <2>2, <2>3, AnswersQuietly
<1> QED BY <1>1, <1>2, <1>3, <1>4, <1>5, <1>6 DEF Answer

\* Ticking is an invariant of the explorer.
LEMMA TickingInit == ASSUME Init PROVE Ticking
<1>1. IsABag(cmds) /\ UnderWay = {Cmd("groups", 0, None)} BY BatchBag DEF Init
<1> QED BY <1>1 DEF Init, Ticking, Fields, ViewerFields, Shut, KeepsTicking, Formed, Cmd

\* The step of TickingInit.
LEMMA TickingNext == ASSUME Ticking, Next \/ UNCHANGED vars PROVE Ticking'
<1>1. CASE UNCHANGED vars BY <1>1 DEF vars, Ticking, KeepsTicking, UnderWay, Running
<1> QED BY <1>1, KeysTick, AnswerTicks DEF Next
===============================================================================
