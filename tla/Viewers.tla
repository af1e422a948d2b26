------------------------------- MODULE Viewers -------------------------------
(***************************************************************************)
(* The two pages that search while one types: the log viewer, which writes *)
(* whatever answer comes into its own state and asks again every two       *)
(* seconds, and the activity list, whose answers are kept by the query     *)
(* client under the parameters they belong to. The router mounts one of    *)
(* them at a time.                                                         *)
(***************************************************************************)
EXTENDS Naturals, FiniteSets

CONSTANTS
  Texts,         \* what can stand in the search field, trimmed
  NoText,        \* the empty field
  LogFilters,    \* source and level chosen in the log viewer
  NoFilter,      \* its choice at first
  Tabs,          \* status, sort and order chosen in the activity list
  FirstTab,      \* its choice at first
  Levels,        \* the server's log levels
  FirstLevel,    \* "info", what the viewer shows until it knows better
  FirstPages,    \* FirstPages[q]: pages of rows that match text and tab q
  MaxMoves,      \* bounds what the user does
  MaxFaults,     \* bounds failures, and rows that disappear
  MaxCalls       \* bounds the log viewer's requests under way

ASSUME ViewersAssumption ==
  /\ NoText \in Texts /\ NoFilter \in LogFilters /\ FirstTab \in Tabs /\ FirstLevel \in Levels
  /\ FirstPages \in [Texts \X Tabs -> Nat]

VARIABLES
  route,                   \* the page mounted: "logs" or "activity"
  text, timers, search,    \* the search field, its timers, the debounced text
  filter, liveTail, tail,  \* log viewer: filter, Live, what the interval asks for
  calls, loading, entries, error,  \* requests under way, the parameters of the entries
  level, serverLevel, levelCalls, crossed,  \* runtime level: shown, real, requests
  tab, offset, early,      \* activity list: filter, page, and whether it was left early
  cache, fetches, failed, shown,  \* the query client
  pages, moves, faults

logVars == <<filter, liveTail, tail, calls, loading, entries, error>>
levelVars == <<level, serverLevel, levelCalls, crossed>>
listVars == <<tab, offset, early>>
queryVars == <<cache, fetches, failed, shown>>
searchVars == <<text, timers, search>>
bounds == <<moves, faults>>
vars == <<route, searchVars, logVars, levelVars, listVars, queryVars, pages, bounds>>

None == [of |-> {}]
Params == [q |-> search, f |-> filter]
Key(s, t, n) == [q |-> <<s, t>>, page |-> n]
Current == Key(search, tab, offset)

TypeOK ==
  /\ route \in {"logs", "activity"}
  /\ text \in Texts /\ search \in Texts /\ timers \subseteq Texts /\ Cardinality(timers) <= 1
  /\ filter \in LogFilters /\ liveTail \in BOOLEAN
  /\ loading \in BOOLEAN /\ error \in BOOLEAN
  /\ route = "logs" => (liveTail <=> tail # None)
  /\ level \in Levels /\ serverLevel \in Levels /\ tab \in Tabs
  /\ \A c, d \in cache : c.key = d.key => c = d
  /\ route = "activity" => (timers = {} => text = search)

Move == moves < MaxMoves /\ moves' = moves + 1 /\ UNCHANGED faults
Fault == faults < MaxFaults /\ faults' = faults + 1 /\ UNCHANGED moves

------------------------------------------------------------------------------
(* The log viewer. *)

Slots == 1..MaxCalls
Free == Slots \ {c.slot : c \in calls}
Ask(p) ==
  /\ Free # {} /\ calls' = calls \cup {[slot |-> CHOOSE s \in Free : TRUE, params |-> p]}
  /\ loading' = TRUE /\ error' = FALSE

\* (mutant) The interval keeps asking for what it was started with.
TailKeeps(p) == UNCHANGED tail

\* The interval is started again with the new parameters.
Tail(p) == tail' = IF liveTail THEN p ELSE None

\* A new text, source or level: ask, and start the interval again.
LogsRefetch(s, f) ==
  /\ Ask([q |-> s, f |-> f])
  /\ Tail([q |-> s, f |-> f])
  /\ UNCHANGED entries

AtLogs == route = "logs" /\ UNCHANGED <<route, listVars, queryVars, pages>>

SetFilter(f) ==
  /\ AtLogs /\ Move
  /\ f # filter /\ filter' = f
  /\ LogsRefetch(search, f)
  /\ UNCHANGED <<searchVars, liveTail, levelVars>>

ToggleLive ==
  /\ AtLogs /\ Move
  /\ liveTail' = ~liveTail
  /\ tail' = IF liveTail THEN None ELSE Params
  /\ UNCHANGED <<searchVars, filter, calls, loading, entries, error, levelVars>>

\* Every two seconds, whatever is still under way.
TailTick ==
  /\ AtLogs
  /\ tail # None
  /\ Ask(tail)
  /\ UNCHANGED <<searchVars, filter, liveTail, tail, entries, levelVars, bounds>>

\* The Refresh button; the first of several answers enables it again.
Refresh ==
  /\ AtLogs /\ Move
  /\ ~loading
  /\ Ask(Params)
  /\ UNCHANGED <<searchVars, filter, liveTail, tail, entries, levelVars>>

\* An answer is shown though it may be to an older question.
LogsAnswer(c) ==
  /\ AtLogs
  /\ entries' = c.params /\ calls' = calls \ {c} /\ loading' = FALSE
  /\ UNCHANGED <<searchVars, filter, liveTail, tail, error, levelVars, bounds>>

LogsFail(c) ==
  /\ AtLogs /\ Fault
  /\ error' = TRUE /\ calls' = calls \ {c} /\ loading' = FALSE
  /\ UNCHANGED <<searchVars, filter, liveTail, tail, entries, levelVars>>

------------------------------------------------------------------------------
(* The runtime level. *)

SendLevel(v, put) ==
  /\ Cardinality(levelCalls) < MaxCalls
  /\ levelCalls' = levelCalls \cup {[slot |-> CHOOSE s \in Slots \ {c.slot : c \in levelCalls} : TRUE,
                                     want |-> v, put |-> put, mine |-> TRUE, stage |-> "sent"]}

\* setRuntime: nothing is shown before the answer.
SetRuntime(v) ==
  /\ AtLogs /\ Move
  /\ v # level
  /\ SendLevel(v, TRUE)
  /\ crossed' = (crossed \/ levelCalls # {})
  /\ UNCHANGED <<searchVars, logVars, level, serverLevel>>

\* PUT sets the level and answers with it; GET only answers.
ServeLevel(c) ==
  /\ c.stage = "sent"
  /\ LET v == IF c.put THEN c.want ELSE serverLevel IN
       /\ serverLevel' = v
       /\ levelCalls' = (levelCalls \ {c}) \cup {[c EXCEPT !.want = v, !.stage = "served"]}
  /\ UNCHANGED <<route, searchVars, logVars, level, crossed, listVars, queryVars, pages, bounds>>

\* (mutant) What was asked for is not what was answered: the first is shown.
LevelShownKeeps(c) == UNCHANGED level

\* A viewer that is gone shows nothing.
LevelShown(c) == level' = IF c.mine THEN c.want ELSE level

LevelAnswer(c) ==
  /\ c.stage = "served"
  /\ LevelShown(c)
  /\ levelCalls' = levelCalls \ {c}
  /\ UNCHANGED <<route, searchVars, logVars, serverLevel, crossed, listVars, queryVars, pages,
                 bounds>>

\* The request is lost on its way, or its answer is; only a PUT reports it.
LevelFails(c) ==
  /\ Fault
  /\ levelCalls' = levelCalls \ {c} /\ crossed' = TRUE
  /\ error' = (error \/ (c.mine /\ c.put))
  /\ UNCHANGED <<route, searchVars, filter, liveTail, tail, calls, loading, entries, level,
                 serverLevel, listVars, queryVars, pages>>

------------------------------------------------------------------------------
(* The activity list. *)

Cached(k, c) == \E d \in c : d.key = k
Entry(k, c) == CHOOSE d \in c : d.key = k

\* What the list shows: the data of its key, or else what it showed before.
Showing(k, c) == IF Cached(k, c) THEN Entry(k, c) ELSE shown

\* The list's parameters change: what is cached is shown, and fetched again
\* only when it is stale; between two renders the old page is asked for too.
Go(k, passing) ==
  /\ shown' = Showing(k, cache)
  /\ failed' = failed \ {k}
  /\ \/ fetches' = fetches \cup {k} \cup passing
     \/ Cached(k, cache) /\ fetches' = fetches \cup {p \in passing : ~Cached(p, cache)}
  /\ UNCHANGED cache

\* (mutant) The effect that resets the page does not depend on the tab.
FilteredKeepsPage(s, t) ==
  /\ offset' = IF s = search THEN offset ELSE 0
  /\ early' = FALSE
  /\ Go(Key(s, t, offset'), {})

\* A new text or tab: the page is rendered with the old offset first.
Filtered(s, t) ==
  /\ offset' = 0 /\ early' = FALSE
  /\ Go(Key(s, t, 0), {Key(s, t, offset)} \ {Key(s, t, 0)})

AtList == route = "activity" /\ UNCHANGED <<route, logVars, levelVars, pages>>

\* A status tab, or a column's header: another column or the other order.
SetTab(t) ==
  /\ AtList /\ Move
  /\ t # tab /\ tab' = t
  /\ Filtered(search, t)
  /\ UNCHANGED searchVars

\* Next and Prev trust the total on the screen, also while it is the one of the
\* parameters before.
NextPage ==
  /\ AtList /\ Move
  /\ shown # None /\ Current \notin failed
  /\ offset + 1 < shown.pages
  /\ offset' = offset + 1
  /\ early' = (early \/ ~Cached(Current, cache))
  /\ Go(Key(search, tab, offset'), {})
  /\ UNCHANGED <<searchVars, tab>>

PrevPage ==
  /\ AtList /\ Move
  /\ shown # None /\ shown.pages > 1 /\ Current \notin failed
  /\ offset > 0 /\ offset' = offset - 1
  /\ early' = (early /\ offset' > 0)
  /\ Go(Key(search, tab, offset'), {})
  /\ UNCHANGED <<searchVars, tab>>

\* The window has the focus again.
Refocus ==
  /\ AtList /\ Move
  /\ fetches' = fetches \cup {Current} /\ failed' = failed \ {Current}
  /\ UNCHANGED <<searchVars, listVars, cache, shown>>

\* (mutant) The parameters are no part of the query's key.
StoreForAll(k, d) == {[key |-> c.key, pages |-> d] : c \in cache \cup {[key |-> Current, pages |-> 0],
                                                             [key |-> k, pages |-> 0]}}

Store(k, d) == {c \in cache : c.key # k} \cup {[key |-> k, pages |-> d]}

\* An answer goes to the data of its own key.
ListAnswer(k) ==
  /\ k \in fetches
  /\ fetches' = fetches \ {k} /\ failed' = failed \ {k}
  /\ cache' = Store(k, pages[k.q])
  /\ shown' = IF route = "activity" THEN Showing(Current, cache') ELSE shown
  /\ UNCHANGED <<route, searchVars, logVars, levelVars, listVars, pages, bounds>>

\* After its retry; data it had are kept.
ListFails(k) ==
  /\ Fault
  /\ k \in fetches
  /\ fetches' = fetches \ {k}
  /\ failed' = IF Cached(k, cache) THEN failed ELSE failed \cup {k}
  /\ UNCHANGED <<route, searchVars, logVars, levelVars, listVars, cache, shown, pages>>

\* Rows are cleaned up or edited elsewhere: fewer pages match.
Shrink(q) ==
  /\ Fault
  /\ pages[q] > 0 /\ pages' = [pages EXCEPT ![q] = @ - 1]
  /\ UNCHANGED <<route, searchVars, logVars, levelVars, listVars, queryVars>>

------------------------------------------------------------------------------
(* Both. *)

\* (mutant) The timer of the text before is not cleared.
TypedKeepsTimer(v) == timers' = timers \cup {v}

\* Each key stroke starts the quarter of a second again.
Typed(v) == timers' = {v}

Type(v) ==
  /\ Move
  /\ v # text /\ text' = v
  /\ Typed(v)
  /\ UNCHANGED <<route, search, logVars, levelVars, listVars, queryVars, pages>>

Debounced(v) ==
  /\ v \in timers /\ timers' = timers \ {v}
  /\ search' = v
  /\ \/ v = search /\ UNCHANGED <<logVars, listVars, queryVars>>
     \/ /\ v # search /\ route = "logs"
        /\ LogsRefetch(v, filter)
        /\ UNCHANGED <<filter, liveTail, listVars, queryVars>>
     \/ /\ v # search /\ route = "activity"
        /\ Filtered(v, tab)
        /\ UNCHANGED <<logVars, tab>>
  /\ UNCHANGED <<route, text, levelVars, pages, bounds>>

Blank == text' = NoText /\ search' = NoText /\ timers' = {}
NoLogs ==
  /\ filter' = NoFilter /\ liveTail' = TRUE /\ entries' = None /\ error' = FALSE
NoList == tab' = FirstTab /\ offset' = 0 /\ early' = FALSE

\* The log viewer is mounted: it asks for the entries and for the level.
ToLogs ==
  /\ Move
  /\ route = "activity" /\ route' = "logs"
  /\ Blank /\ NoLogs /\ NoList
  /\ tail' = [q |-> NoText, f |-> NoFilter]
  /\ calls' = {[slot |-> 1, params |-> tail']} /\ loading' = TRUE
  /\ level' = FirstLevel
  /\ SendLevel(FirstLevel, FALSE)
  /\ crossed' = (levelCalls # {})
  /\ shown' = None /\ UNCHANGED <<serverLevel, cache, fetches, failed, pages>>

\* The interval is cleared; answers that are still under way change nothing.
ToActivity ==
  /\ Move
  /\ route = "logs" /\ route' = "activity"
  /\ Blank /\ NoLogs /\ NoList
  /\ tail' = None /\ calls' = {} /\ loading' = FALSE
  /\ levelCalls' = {[c EXCEPT !.mine = FALSE] : c \in levelCalls}
  /\ Go(Key(NoText, FirstTab, 0), {})
  /\ UNCHANGED <<level, serverLevel, crossed, pages>>

Init ==
  /\ route = "activity"
  /\ text = NoText /\ search = NoText /\ timers = {}
  /\ filter = NoFilter /\ liveTail = TRUE /\ tail = None /\ calls = {} /\ loading = FALSE
  /\ entries = None /\ error = FALSE
  /\ level = FirstLevel /\ serverLevel \in Levels /\ levelCalls = {} /\ crossed = FALSE
  /\ tab = FirstTab /\ offset = 0 /\ early = FALSE
  /\ cache = {} /\ fetches = {Key(NoText, FirstTab, 0)} /\ failed = {} /\ shown = None
  /\ pages = FirstPages /\ moves = 0 /\ faults = 0

LogAnswers == \E c \in calls : LogsAnswer(c)
LevelSteps == \E c \in levelCalls : ServeLevel(c) \/ LevelAnswer(c)
ListAnswers == \E k \in fetches : ListAnswer(k)
Timers == \E v \in timers : Debounced(v)

Next ==
  \/ \E v \in Texts : Type(v)
  \/ \E f \in LogFilters : SetFilter(f)
  \/ \E t \in Tabs : SetTab(t)
  \/ \E v \in Levels : SetRuntime(v)
  \/ ToggleLive \/ TailTick \/ Refresh \/ NextPage \/ PrevPage \/ Refocus \/ ToLogs \/ ToActivity
  \/ LogAnswers \/ LevelSteps \/ ListAnswers \/ Timers
  \/ \E c \in calls : LogsFail(c)
  \/ \E c \in levelCalls : LevelFails(c)
  \/ \E k \in fetches : ListFails(k)
  \/ \E q \in Texts \X Tabs : Shrink(q)

Spec == Init /\ [][Next]_vars

\* Timers run and requests are answered in the end. Strong for the field's
\* timer, which MaxCalls holds up here and nothing in the code.
Fairness == WF_vars(TailTick) /\ WF_vars(LogAnswers) /\ SF_vars(Timers) /\ WF_vars(ListAnswers)

LiveSpec == Spec /\ Fairness

------------------------------------------------------------------------------
(* Properties. *)

\* While Live is on, the entries are in the end those of the text, level and
\* source that stand in the tool bar, though answers overtake each other and
\* the last to come wins (LogViewer.tsx 103-167).
LogsCatchUp == <>[](route = "logs" /\ liveTail) => <>[](entries = Params /\ search = text)

\* With no level request under way the select shows the server's level, unless
\* two requests were under way at once or one was lost (LogViewer.tsx 90-100,
\* 170-180).
LevelAgrees == route = "logs" /\ levelCalls = {} /\ ~crossed => level = serverLevel

\* The list shows the data of its own parameters as soon as it has them, never
\* those of an answer that comes late (api/activity.ts 60-68).
ListShowsItsOwn ==
  route = "activity" /\ Cached(Current, cache) =>
    shown.key = Current /\ (pages = FirstPages => shown.pages = pages[Current.q])

\* The page stands on rows, whatever filters were set and pages turned, unless
\* Next was clicked before the new total had come or rows disappeared
\* (ActivityPage.tsx 62-67, 270-295).
PageHasRows ==
  route = "activity" /\ Cached(Current, cache) /\ ~early /\ pages = FirstPages =>
    offset = 0 \/ offset < shown.pages
==============================================================================
