----------------------------- MODULE ViewersProofs -----------------------------
(***************************************************************************)
(* Proofs about the log level and the activity list, for any texts, tabs   *)
(* and levels and any number of moves, faults and requests under way.      *)
(***************************************************************************)
EXTENDS Viewers, FiniteSetTheorems, TLAPS

\* The actions of the log viewer, and what they leave to the others.
LogStep ==
  \/ \E f \in LogFilters : SetFilter(f)
  \/ ToggleLive \/ TailTick \/ Refresh \/ LogAnswers
  \/ \E c \in calls : LogsFail(c)

LEMMA LogStepFrame ==
  ASSUME LogStep
  PROVE  UNCHANGED <<route, searchVars, levelVars, listVars, queryVars, pages>>
BY DEF LogStep, SetFilter, ToggleLive, TailTick, Refresh, LogAnswers, LogsAnswer, LogsFail, AtLogs,
       searchVars, levelVars, listVars, queryVars

\* The actions of the level, and what they leave to the others.
LevelStep ==
  \/ \E v \in Levels : SetRuntime(v)
  \/ LevelSteps
  \/ \E c \in levelCalls : LevelFails(c)

LEMMA LevelStepFrame ==
  ASSUME LevelStep
  PROVE  UNCHANGED <<route, searchVars, listVars, queryVars, pages>>
BY DEF LevelStep, SetRuntime, LevelSteps, ServeLevel, LevelAnswer, LevelFails, AtLogs,
       searchVars, listVars, queryVars

\* The actions of the list, and what they leave to the others.
ListStep ==
  \/ \E t \in Tabs : SetTab(t)
  \/ NextPage \/ PrevPage \/ Refocus \/ ListAnswers
  \/ \E k \in fetches : ListFails(k)
  \/ \E q \in Texts \X Tabs : Shrink(q)

LEMMA ListStepFrame ==
  ASSUME ListStep
  PROVE  UNCHANGED <<route, searchVars, logVars, levelVars>>
BY DEF ListStep, SetTab, NextPage, PrevPage, Refocus, ListAnswers, ListAnswer, ListFails, Shrink,
       AtList, searchVars, logVars, levelVars

LEMMA NextSplits ==
  Next <=> \/ \E v \in Texts : Type(v)
           \/ ToLogs \/ ToActivity \/ Timers
           \/ LogStep \/ LevelStep \/ ListStep
BY DEF Next, LogStep, LevelStep, ListStep

------------------------------------------------------------------------------
(* The level *)

\* With the log viewer mounted, and no two requests under way at once, the one
\* there is carries the level to be shown: it will be the server's when it is
\* served, and nothing else changes the server's until it is answered.
LevelInv ==
  route = "logs" /\ ~crossed =>
    /\ levelCalls = {} => level = serverLevel
    /\ \A c, d \in levelCalls : c = d
    /\ \A c \in levelCalls : c.mine /\ (c.stage = "served" => c.want = serverLevel)

LEMMA SendLevelOne ==
  ASSUME NEW v, NEW put, SendLevel(v, put), levelCalls = {}
  PROVE  \E c : levelCalls' = {c} /\ c.mine /\ c.stage = "sent"
<1>. DEFINE c == [slot |-> CHOOSE s \in Slots \ {d.slot : d \in levelCalls} : TRUE,
                  want |-> v, put |-> put, mine |-> TRUE, stage |-> "sent"]
<1>1. levelCalls' = {c}
  BY DEF SendLevel
<1>2. c.mine /\ c.stage = "sent"
  OBVIOUS
<1>. HIDE DEF c
<1>. QED
  BY <1>1, <1>2

LEMMA StepLevel == LevelInv /\ [Next]_vars => LevelInv'
<1>. SUFFICES ASSUME LevelInv, [Next]_vars, route' = "logs", ~crossed' PROVE LevelInv'
  BY DEF LevelInv
<1>1. UNCHANGED <<route, levelVars>> => LevelInv'
  BY DEF LevelInv, levelVars
<1>2. ASSUME NEW v \in Texts, Type(v) PROVE LevelInv'
  BY <1>1, <1>2 DEF Type
<1>3. CASE ToLogs
  <2>1. levelCalls = {} /\ SendLevel(FirstLevel, FALSE)
    BY <1>3 DEF ToLogs
  <2>. QED
    BY <2>1, SendLevelOne DEF LevelInv
<1>4. CASE ToActivity
  BY <1>4 DEF ToActivity
<1>5. CASE Timers
  BY <1>1, <1>5 DEF Timers, Debounced
<1>6. CASE LogStep
  BY <1>1, <1>6, LogStepFrame
<1>7. ASSUME NEW v \in Levels, SetRuntime(v) PROVE LevelInv'
  <2>1. levelCalls = {} /\ SendLevel(v, TRUE)
    BY <1>7 DEF SetRuntime
  <2>. QED
    BY <2>1, SendLevelOne DEF LevelInv
<1>8. ASSUME NEW c \in levelCalls, ServeLevel(c) PROVE LevelInv'
  <2>. DEFINE v == IF c.put THEN c.want ELSE serverLevel
              d == [c EXCEPT !.want = v, !.stage = "served"]
  <2>1. /\ serverLevel' = v /\ levelCalls' = (levelCalls \ {c}) \cup {d}
        /\ route = "logs" /\ ~crossed
    BY <1>8 DEF ServeLevel
  <2>2. levelCalls' = {d} /\ c.mine
    BY <2>1 DEF LevelInv
  <2>3. d.mine /\ d.want = v
    BY <2>2
  <2>. HIDE DEF d, v
  <2>. QED
    BY <2>1, <2>2, <2>3 DEF LevelInv
<1>9. ASSUME NEW c \in levelCalls, LevelAnswer(c) PROVE LevelInv'
  <2>1. /\ c.stage = "served" /\ levelCalls' = levelCalls \ {c} /\ serverLevel' = serverLevel
        /\ level' = (IF c.mine THEN c.want ELSE level)
        /\ route = "logs" /\ ~crossed
    BY <1>9 DEF LevelAnswer, LevelShown
  <2>2. level' = serverLevel' /\ levelCalls' = {}
    BY <2>1 DEF LevelInv
  <2>. QED
    BY <2>2 DEF LevelInv
<1>10. ASSUME NEW c \in levelCalls, LevelFails(c) PROVE LevelInv'
  BY <1>10 DEF LevelFails
<1>11. CASE ListStep
  BY <1>1, <1>11, ListStepFrame
<1>12. CASE UNCHANGED vars
  BY <1>1, <1>12 DEF vars
<1>. QED
  BY <1>2, <1>3, <1>4, <1>5, <1>6, <1>7, <1>8, <1>9, <1>10, <1>11, <1>12, NextSplits
     DEF LevelStep, LevelSteps

\* The select shows the server's level whenever no request for it is under way,
\* unless two of them were at once or one was lost.
THEOREM LevelIsServers == Spec => []LevelAgrees
<1>1. Init => LevelInv
  BY DEF Init, LevelInv
<1>2. LevelInv => LevelAgrees
  BY DEF LevelInv, LevelAgrees
<1>. QED
  BY <1>1, <1>2, StepLevel, PTL DEF Spec

------------------------------------------------------------------------------
(* The list *)

ListTypes ==
  /\ search \in Texts /\ timers \subseteq Texts /\ tab \in Tabs
  /\ offset \in Nat /\ early \in BOOLEAN
  /\ pages \in [Texts \X Tabs -> Nat]
  /\ \A q \in Texts \X Tabs : pages[q] <= FirstPages[q]

\* The query client keeps one set of data per key, of the rows of that key.
CacheInv ==
  /\ \A c, d \in cache : c.key = d.key => c = d
  /\ pages = FirstPages => \A d \in cache : d.pages = pages[d.key.q]

\* The list shows the data of its parameters once they are there.
ShownInv == route = "activity" /\ Cached(Current, cache) => shown \in cache /\ shown.key = Current

\* The page stands on rows, for the parameters it has.
OffsetInv ==
  route = "activity" /\ ~early /\ pages = FirstPages => offset = 0 \/ offset < pages[<<search, tab>>]

ListInv == ListTypes /\ CacheInv /\ ShownInv /\ OffsetInv

LEMMA EntryIsCached ==
  ASSUME NEW k, NEW c, Cached(k, c)
  PROVE  Entry(k, c) \in c /\ Entry(k, c).key = k
BY DEF Cached, Entry

\* Other parameters: their data, if they are there.
LEMMA GoShows ==
  ASSUME NEW k, NEW passing, Go(k, passing), CacheInv, pages' = pages, Current' = k
  PROVE  CacheInv' /\ ShownInv'
<1>1. cache' = cache /\ shown' = Showing(k, cache)
  BY DEF Go
<1>2. Cached(k, cache) => shown' \in cache /\ shown'.key = k
  BY <1>1, EntryIsCached DEF Showing
<1>3. ShownInv'
  BY <1>1, <1>2 DEF ShownInv, Cached
<1>. QED
  BY <1>1, <1>3 DEF CacheInv

LEMMA FilteredKeeps ==
  ASSUME ListInv, NEW s \in Texts, NEW t \in Tabs, Filtered(s, t),
         search' = s, tab' = t, pages' = pages
  PROVE  offset' = 0 /\ early' = FALSE /\ CacheInv' /\ ShownInv'
<1>1. offset' = 0 /\ early' = FALSE /\ Go(Key(s, t, 0), {Key(s, t, offset)} \ {Key(s, t, 0)})
  BY DEF Filtered
<1>2. Current' = Key(s, t, 0)
  BY <1>1 DEF Current, Key
<1>. QED
  BY <1>1, <1>2, GoShows DEF ListInv

LEMMA OtherStepsKeepList ==
  ASSUME ListInv, UNCHANGED <<route, search, timers, listVars, cache, shown, pages>>
  PROVE  ListInv'
BY DEF ListInv, ListTypes, CacheInv, ShownInv, OffsetInv, Current, Key, Cached, listVars

LEMMA StepList == ListInv /\ [Next]_vars => ListInv'
<1>. SUFFICES ASSUME ListInv, [Next]_vars PROVE ListInv'
  OBVIOUS
<1>. USE DEF searchVars, listVars, queryVars
<1>1. ASSUME NEW v \in Texts, Type(v) PROVE ListInv'
  <2>1. timers' \subseteq Texts /\ UNCHANGED <<route, search, listVars, queryVars, pages>>
    BY <1>1 DEF Type, Typed
  <2>. QED
    BY <2>1 DEF ListInv, ListTypes, CacheInv, ShownInv, OffsetInv, Current, Key, Cached
<1>2. CASE ToLogs
  <2>1. route' = "logs" /\ cache' = cache /\ pages' = pages
    BY <1>2 DEF ToLogs
  <2>2. search' = NoText /\ timers' = {} /\ tab' = FirstTab /\ offset' = 0 /\ early' = FALSE
    BY <1>2 DEF ToLogs, Blank, NoList
  <2>3. ListTypes'
    BY <2>1, <2>2, ViewersAssumption DEF ListInv, ListTypes
  <2>. QED
    BY <2>1, <2>3 DEF ListInv, CacheInv, ShownInv, OffsetInv
<1>3. CASE ToActivity
  <2>1. pages' = pages /\ Go(Key(NoText, FirstTab, 0), {})
    BY <1>3 DEF ToActivity
  <2>2. search' = NoText /\ timers' = {} /\ tab' = FirstTab /\ offset' = 0 /\ early' = FALSE
    BY <1>3 DEF ToActivity, Blank, NoList
  <2>3. ListTypes'
    BY <2>1, <2>2, ViewersAssumption DEF ListInv, ListTypes
  <2>4. Current' = Key(NoText, FirstTab, 0)
    BY <2>2 DEF Current, Key
  <2>5. CacheInv' /\ ShownInv'
    BY <2>1, <2>4, GoShows DEF ListInv
  <2>. QED
    BY <2>2, <2>3, <2>5 DEF ListInv, OffsetInv
<1>4. ASSUME NEW v \in timers, Debounced(v) PROVE ListInv'
  <2>1. /\ v \in Texts /\ search' = v /\ timers' \subseteq timers /\ route' = route /\ pages' = pages
        /\ tab' = tab
    BY <1>4 DEF Debounced, ListInv, ListTypes
  <2>2. CASE v = search /\ UNCHANGED <<logVars, listVars, queryVars>>
    BY <2>1, <2>2 DEF ListInv, ListTypes, CacheInv, ShownInv, OffsetInv, Current, Key, Cached
  <2>3. CASE route = "logs" /\ UNCHANGED <<listVars, queryVars>>
    BY <2>1, <2>3 DEF ListInv, ListTypes, CacheInv, ShownInv, OffsetInv
  <2>4. CASE Filtered(v, tab)
    <3>1. tab \in Tabs
      BY DEF ListInv, ListTypes
    <3>2. offset' = 0 /\ early' = FALSE /\ CacheInv' /\ ShownInv'
      BY <2>1, <2>4, <3>1, FilteredKeeps
    <3>. QED
      BY <2>1, <3>2 DEF ListInv, ListTypes, OffsetInv
  <2>. QED
    BY <1>4, <2>2, <2>3, <2>4 DEF Debounced
<1>5. CASE LogStep
  BY <1>5, LogStepFrame, OtherStepsKeepList
<1>6. CASE LevelStep
  BY <1>6, LevelStepFrame, OtherStepsKeepList
<1>7. ASSUME NEW t \in Tabs, SetTab(t) PROVE ListInv'
  <2>1. /\ tab' = t /\ search' = search /\ timers' = timers /\ pages' = pages /\ search \in Texts
        /\ Filtered(search, t)
    BY <1>7 DEF SetTab, AtList, ListInv, ListTypes
  <2>2. offset' = 0 /\ early' = FALSE /\ CacheInv' /\ ShownInv'
    BY <2>1, FilteredKeeps
  <2>. QED
    BY <2>1, <2>2 DEF ListInv, ListTypes, OffsetInv
<1>8. CASE NextPage
  <2>1. /\ route = "activity" /\ route' = route /\ search' = search /\ timers' = timers /\ tab' = tab
        /\ pages' = pages /\ offset' = offset + 1 /\ offset + 1 < shown.pages
        /\ Go(Key(search, tab, offset'), {})
    BY <1>8 DEF NextPage, AtList
  <2>2. early' = (early \/ ~Cached(Current, cache))
    BY <1>8 DEF NextPage
  <2>3. Current' = Key(search, tab, offset')
    BY <2>1 DEF Current, Key
  <2>4. CacheInv' /\ ShownInv'
    BY <2>1, <2>3, GoShows DEF ListInv
  <2>5. early' \in BOOLEAN /\ offset' \in Nat
    BY <2>1, <2>2 DEF ListInv, ListTypes
  <2>6. ListTypes'
    BY <2>1, <2>5 DEF ListInv, ListTypes
  <2>7. ASSUME ~early', pages = FirstPages PROVE offset' < pages[<<search, tab>>]
    <3>1. Cached(Current, cache)
      BY <2>2, <2>7
    <3>2. shown \in cache /\ shown.key = Current
      BY <2>1, <3>1 DEF ListInv, ShownInv
    <3>3. shown.pages = pages[Current.q] /\ Current.q = <<search, tab>>
      BY <2>7, <3>2 DEF ListInv, CacheInv, Current, Key
    <3>. QED
      BY <2>1, <3>3
  <2>8. OffsetInv'
    BY <2>1, <2>7 DEF OffsetInv
  <2>. QED
    BY <2>4, <2>6, <2>8 DEF ListInv
<1>9. CASE PrevPage
  <2>1. /\ route' = route /\ search' = search /\ timers' = timers /\ tab' = tab
        /\ pages' = pages /\ offset > 0 /\ offset' = offset - 1
        /\ Go(Key(search, tab, offset'), {})
    BY <1>9 DEF PrevPage, AtList
  <2>2. early' = (early /\ offset' > 0)
    BY <1>9 DEF PrevPage
  <2>3. Current' = Key(search, tab, offset')
    BY <2>1 DEF Current, Key
  <2>4. CacheInv' /\ ShownInv'
    BY <2>1, <2>3, GoShows DEF ListInv
  <2>5. offset \in Nat /\ offset' \in Nat /\ (offset' = 0 \/ offset' > 0)
    BY <2>1 DEF ListInv, ListTypes
  <2>6. early' \in BOOLEAN
    BY <2>2 DEF ListInv, ListTypes
  <2>7. ListTypes'
    BY <2>1, <2>5, <2>6 DEF ListInv, ListTypes
  <2>8. ASSUME route = "activity", ~early', pages = FirstPages, offset' # 0
        PROVE  offset' < pages[<<search, tab>>]
    <3>1. ~early
      BY <2>2, <2>5, <2>8
    <3>2. offset < pages[<<search, tab>>] /\ <<search, tab>> \in Texts \X Tabs
      BY <2>1, <2>5, <2>8, <3>1 DEF ListInv, ListTypes, OffsetInv
    <3>3. pages[<<search, tab>>] \in Nat
      BY <3>2 DEF ListInv, ListTypes
    <3>. QED
      BY <2>1, <2>5, <3>2, <3>3
  <2>9. OffsetInv'
    BY <2>1, <2>8 DEF OffsetInv
  <2>. QED
    BY <2>4, <2>7, <2>9 DEF ListInv
<1>10. CASE Refocus
  BY <1>10, OtherStepsKeepList DEF Refocus, AtList
<1>11. ASSUME NEW k \in fetches, ListAnswer(k) PROVE ListInv'
  <2>1. UNCHANGED <<route, search, timers, listVars, pages>>
    BY <1>11 DEF ListAnswer
  <2>. DEFINE e == [key |-> k, pages |-> pages[k.q]]
  <2>2. e.key = k /\ e.pages = pages[k.q]
    OBVIOUS
  <2>3. cache' = {c \in cache : c.key # k} \cup {e}
    BY <1>11 DEF ListAnswer, Store
  <2>. HIDE DEF e
  <2>4. CacheInv'
    BY <2>1, <2>2, <2>3 DEF ListInv, CacheInv
  <2>5. ShownInv'
    <3>. SUFFICES ASSUME route = "activity", Cached(Current', cache')
                  PROVE  shown' \in cache' /\ shown'.key = Current'
      BY <2>1 DEF ShownInv, Cached
    <3>1. Current' = Current
      BY <2>1 DEF Current, Key
    <3>2. shown' = Entry(Current, cache')
      BY <1>11, <3>1 DEF ListAnswer, Showing
    <3>. QED
      BY <3>1, <3>2, EntryIsCached
  <2>6. ListTypes' /\ OffsetInv'
    BY <2>1 DEF ListInv, ListTypes, OffsetInv
  <2>. QED
    BY <2>4, <2>5, <2>6 DEF ListInv
<1>12. ASSUME NEW k \in fetches, ListFails(k) PROVE ListInv'
  BY <1>12, OtherStepsKeepList DEF ListFails
<1>13. ASSUME NEW q \in Texts \X Tabs, Shrink(q) PROVE ListInv'
  <2>1. /\ pages[q] > 0 /\ pages' = [pages EXCEPT ![q] = @ - 1]
        /\ UNCHANGED <<route, search, timers, listVars, cache, shown>>
    BY <1>13 DEF Shrink
  <2>2. pages[q] \in Nat /\ FirstPages[q] \in Nat /\ pages[q] <= FirstPages[q]
    BY ViewersAssumption DEF ListInv, ListTypes
  <2>3. pages'[q] = pages[q] - 1 /\ pages[q] - 1 \in Nat /\ pages[q] - 1 < FirstPages[q]
    BY <2>1, <2>2 DEF ListInv, ListTypes
  <2>4. pages' # FirstPages
    BY <2>2, <2>3
  <2>5. pages' \in [Texts \X Tabs -> Nat]
    BY <2>1, <2>3 DEF ListInv, ListTypes
  <2>6. ASSUME NEW p \in Texts \X Tabs PROVE pages'[p] <= FirstPages[p]
    <3>1. CASE p = q
      BY <2>2, <2>3, <3>1
    <3>2. CASE p # q
      BY <2>1, <3>2 DEF ListInv, ListTypes
    <3>. QED
      BY <3>1, <3>2
  <2>7. ListTypes'
    BY <2>1, <2>5, <2>6 DEF ListInv, ListTypes
  <2>. QED
    BY <2>1, <2>4, <2>7 DEF ListInv, CacheInv, ShownInv, OffsetInv, Current, Key, Cached
<1>14. CASE UNCHANGED vars
  BY <1>14, OtherStepsKeepList DEF vars
<1>. QED
  BY <1>1, <1>2, <1>3, <1>4, <1>5, <1>6, <1>7, <1>8, <1>9, <1>10, <1>11, <1>12, <1>13, <1>14,
     NextSplits DEF Timers, ListStep, ListAnswers

LEMMA InitList == Init => ListInv
<1>. SUFFICES ASSUME Init PROVE ListInv
  OBVIOUS
<1>1. \A q \in Texts \X Tabs : FirstPages[q] \in Nat
  BY ViewersAssumption
<1>2. search \in Texts /\ timers \subseteq Texts /\ tab \in Tabs /\ offset \in Nat
  BY ViewersAssumption DEF Init
<1>3. early \in BOOLEAN
  BY DEF Init
<1>4. pages = FirstPages
  BY DEF Init
<1>5. pages \in [Texts \X Tabs -> Nat]
  BY <1>4, ViewersAssumption
<1>6. \A q \in Texts \X Tabs : pages[q] <= FirstPages[q]
  BY <1>1, <1>4
<1>7. ListTypes
  BY <1>2, <1>3, <1>5, <1>6 DEF ListTypes
<1>. QED
  BY <1>7 DEF Init, ListInv, CacheInv, ShownInv, OffsetInv, Cached

\* What the list shows belongs to the parameters in the tool bar as soon as
\* their data are there, in whatever order the answers come.
THEOREM ListIsItsOwn == Spec => []ListShowsItsOwn
<1>1. ListInv => ListShowsItsOwn
  BY DEF ListInv, CacheInv, ShownInv, ListShowsItsOwn
<1>. QED
  BY <1>1, InitList, StepList, PTL DEF Spec

\* The page stands on rows, unless Next was clicked too early or rows went.
THEOREM PageStandsOnRows == Spec => []PageHasRows
<1>1. ListInv => PageHasRows
  <2>. SUFFICES ASSUME ListInv, route = "activity", Cached(Current, cache), ~early,
                       pages = FirstPages
                PROVE  offset = 0 \/ offset < shown.pages
    BY DEF PageHasRows
  <2>1. shown \in cache /\ shown.key = Current
    BY DEF ListInv, ShownInv
  <2>2. shown.pages = pages[<<search, tab>>]
    BY <2>1 DEF ListInv, CacheInv, Current, Key
  <2>. QED
    BY <2>2 DEF ListInv, OffsetInv
<1>. QED
  BY <1>1, InitList, StepList, PTL DEF Spec
------------------------------------------------------------------------------
(* Types *)

\* The timer that runs is the one of the text that stands in the field: each
\* key stroke clears the one before (ActivityPage.tsx 52-55, LogViewer.tsx
\* 83-87).
SearchInv ==
  /\ route \in {"logs", "activity"}
  /\ text \in Texts /\ search \in Texts
  /\ timers = {text} \/ (timers = {} /\ text = search)

LEMMA StepSearch == SearchInv /\ [Next]_vars => SearchInv'
<1>. SUFFICES ASSUME SearchInv, [Next]_vars PROVE SearchInv'
  OBVIOUS
<1>. USE DEF SearchInv, searchVars
<1>1. ASSUME NEW v \in Texts, Type(v) PROVE SearchInv'
  BY <1>1 DEF Type, Typed
<1>2. CASE ToLogs \/ ToActivity
  BY <1>2, ViewersAssumption DEF ToLogs, ToActivity, Blank
<1>3. ASSUME NEW v \in timers, Debounced(v) PROVE SearchInv'
  BY <1>3 DEF Debounced
<1>4. CASE LogStep \/ LevelStep \/ ListStep
  BY <1>4, LogStepFrame, LevelStepFrame, ListStepFrame
<1>5. CASE UNCHANGED vars
  BY <1>5 DEF vars
<1>. QED
  BY <1>1, <1>2, <1>3, <1>4, <1>5, NextSplits DEF Timers

\* While Live is on the interval has something to ask for.
LogTypes ==
  /\ filter \in LogFilters
  /\ liveTail \in BOOLEAN /\ loading \in BOOLEAN
  /\ route = "logs" => (liveTail <=> tail # None)

LEMMA ParametersAreSome ==
  ASSUME NEW s, NEW f
  PROVE  [q |-> s, f |-> f] # None
<1>1. "q" \in DOMAIN [q |-> s, f |-> f] /\ "q" \notin DOMAIN None
  BY DEF None
<1>. QED
  BY <1>1

LEMMA RefetchKeepsLogTypes ==
  ASSUME LogTypes, NEW s, NEW f \in LogFilters, LogsRefetch(s, f), filter' = f,
         UNCHANGED <<route, liveTail>>
  PROVE  LogTypes'
<1>1. loading' = TRUE /\ tail' = IF liveTail THEN [q |-> s, f |-> f] ELSE None
  BY DEF LogsRefetch, Ask, Tail
<1>2. loading' \in BOOLEAN
  BY <1>1
<1>3. liveTail <=> tail' # None
  BY <1>1, ParametersAreSome
<1>. QED
  BY <1>2, <1>3 DEF LogTypes

LEMMA StepLog == LogTypes /\ [Next]_vars => LogTypes'
<1>. SUFFICES ASSUME LogTypes, [Next]_vars PROVE LogTypes'
  OBVIOUS
<1>1. ASSUME UNCHANGED <<route, logVars>> PROVE LogTypes'
  BY <1>1 DEF LogTypes, logVars
<1>2. ASSUME UNCHANGED <<route, filter, liveTail, tail>>, loading' \in BOOLEAN PROVE LogTypes'
  BY <1>2 DEF LogTypes
<1>3. ASSUME NEW v \in Texts, Type(v) PROVE LogTypes'
  BY <1>1, <1>3 DEF Type
<1>4. CASE ToLogs
  <2>1. filter' = NoFilter /\ liveTail' = TRUE /\ loading' = TRUE
    BY <1>4 DEF ToLogs, NoLogs
  <2>2. tail' # None
    BY <1>4, ParametersAreSome DEF ToLogs
  <2>. QED
    BY <2>1, <2>2, ViewersAssumption DEF LogTypes
<1>5. CASE ToActivity
  BY <1>5, ViewersAssumption DEF ToActivity, NoLogs, LogTypes
<1>6. ASSUME NEW v \in timers, Debounced(v) PROVE LogTypes'
  <2>1. CASE v # search /\ route = "logs"
    BY <1>6, <2>1, RefetchKeepsLogTypes DEF Debounced, LogTypes
  <2>2. CASE ~(v # search /\ route = "logs")
    BY <1>1, <1>6, <2>2 DEF Debounced
  <2>. QED
    BY <2>1, <2>2
<1>7. ASSUME NEW f \in LogFilters, SetFilter(f) PROVE LogTypes'
  BY <1>7, RefetchKeepsLogTypes DEF SetFilter, AtLogs
<1>8. CASE ToggleLive
  <2>1. /\ liveTail' = ~liveTail
        /\ tail' = (IF liveTail THEN None ELSE Params)
        /\ UNCHANGED <<route, filter, loading>>
    BY <1>8 DEF ToggleLive, AtLogs
  <2>2. liveTail' \in BOOLEAN
    BY <2>1
  <2>3. liveTail' <=> tail' # None
    BY <2>1, ParametersAreSome DEF Params
  <2>. QED
    BY <2>1, <2>2, <2>3 DEF LogTypes
<1>9. CASE TailTick \/ Refresh
  <2>1. UNCHANGED <<route, filter, liveTail, tail>> /\ loading' = TRUE
    BY <1>9 DEF TailTick, Refresh, AtLogs, Ask
  <2>. QED
    BY <1>2, <2>1
<1>10. ASSUME NEW c \in calls, LogsAnswer(c) \/ LogsFail(c) PROVE LogTypes'
  <2>1. UNCHANGED <<route, filter, liveTail, tail>> /\ loading' = FALSE
    BY <1>10 DEF LogsAnswer, LogsFail, AtLogs
  <2>. QED
    BY <1>2, <2>1
<1>11. ASSUME NEW v \in Levels, SetRuntime(v) PROVE LogTypes'
  BY <1>1, <1>11 DEF SetRuntime, AtLogs
<1>12. ASSUME NEW c \in levelCalls, ServeLevel(c) \/ LevelAnswer(c) PROVE LogTypes'
  BY <1>1, <1>12 DEF ServeLevel, LevelAnswer
<1>13. ASSUME NEW c \in levelCalls, LevelFails(c) PROVE LogTypes'
  BY <1>13 DEF LevelFails, LogTypes
<1>14. CASE ListStep
  BY <1>1, <1>14, ListStepFrame
<1>15. CASE UNCHANGED vars
  BY <1>1, <1>15 DEF vars
<1>. QED
  BY <1>3, <1>4, <1>5, <1>6, <1>7, <1>8, <1>9, <1>10, <1>11, <1>12, <1>13, <1>14, <1>15, NextSplits
     DEF LogStep, LogAnswers, LevelStep, LevelSteps, Timers

\* A request for the level carries one of the server's levels.
LevelTypes ==
  /\ level \in Levels /\ serverLevel \in Levels
  /\ \A c \in levelCalls : "want" \in DOMAIN c /\ c.want \in Levels

LEMMA SendLevelKeeps ==
  ASSUME LevelTypes, NEW v \in Levels, NEW put, SendLevel(v, put)
  PROVE  \A c \in levelCalls' : "want" \in DOMAIN c /\ c.want \in Levels
<1>. DEFINE new == [slot |-> CHOOSE s \in Slots \ {c.slot : c \in levelCalls} : TRUE,
                    want |-> v, put |-> put, mine |-> TRUE, stage |-> "sent"]
<1>1. levelCalls' = levelCalls \cup {new}
  BY DEF SendLevel
<1>2. "want" \in DOMAIN new /\ new.want = v
  OBVIOUS
<1>. HIDE DEF new
<1>. QED
  BY <1>1, <1>2 DEF LevelTypes

LEMMA StepLevelTypes == LevelTypes /\ [Next]_vars => LevelTypes'
<1>. SUFFICES ASSUME LevelTypes, [Next]_vars PROVE LevelTypes'
  OBVIOUS
<1>1. ASSUME UNCHANGED levelVars PROVE LevelTypes'
  BY <1>1 DEF LevelTypes, levelVars
<1>2. ASSUME NEW v \in Texts, Type(v) PROVE LevelTypes'
  BY <1>1, <1>2 DEF Type
<1>3. CASE ToLogs
  <2>1. level' = FirstLevel /\ serverLevel' = serverLevel /\ SendLevel(FirstLevel, FALSE)
    BY <1>3 DEF ToLogs
  <2>. QED
    BY <2>1, SendLevelKeeps, ViewersAssumption DEF LevelTypes
<1>4. CASE ToActivity
  <2>1. /\ UNCHANGED <<level, serverLevel>>
        /\ levelCalls' = {[c EXCEPT !.mine = FALSE] : c \in levelCalls}
    BY <1>4 DEF ToActivity
  <2>2. ASSUME NEW c \in levelCalls 
               PROVE  /\ "want" \in DOMAIN [c EXCEPT !.mine = FALSE]
                      /\ [c EXCEPT !.mine = FALSE].want \in Levels
    <3>1. "want" \in DOMAIN c /\ c.want \in Levels
      BY DEF LevelTypes
    <3>. QED
      BY <3>1
  <2>. QED
    BY <2>1, <2>2 DEF LevelTypes
<1>5. CASE Timers
  BY <1>1, <1>5 DEF Timers, Debounced
<1>6. CASE LogStep
  BY <1>1, <1>6, LogStepFrame
<1>7. ASSUME NEW v \in Levels, SetRuntime(v) PROVE LevelTypes'
  BY <1>7, SendLevelKeeps DEF SetRuntime, LevelTypes
<1>8. ASSUME NEW c \in levelCalls, ServeLevel(c) PROVE LevelTypes'
  <2>. DEFINE v == IF c.put THEN c.want ELSE serverLevel
              d == [c EXCEPT !.want = v, !.stage = "served"]
  <2>1. serverLevel' = v /\ levelCalls' = (levelCalls \ {c}) \cup {d} /\ level' = level
    BY <1>8 DEF ServeLevel
  <2>2. v \in Levels
    BY DEF LevelTypes
  <2>3. \A e \in levelCalls' : e \in levelCalls \/ e = d
    BY <2>1
  <2>4. "want" \in DOMAIN d /\ d.want = v
    BY DEF LevelTypes
  <2>. HIDE DEF d, v
  <2>. QED
    BY <2>1, <2>2, <2>3, <2>4 DEF LevelTypes
<1>9. ASSUME NEW c \in levelCalls, LevelAnswer(c) PROVE LevelTypes'
  BY <1>9 DEF LevelAnswer, LevelShown, LevelTypes
<1>10. ASSUME NEW c \in levelCalls, LevelFails(c) PROVE LevelTypes'
  BY <1>10 DEF LevelFails, LevelTypes
<1>11. CASE ListStep
  BY <1>1, <1>11, ListStepFrame
<1>12. CASE UNCHANGED vars
  BY <1>1, <1>12 DEF vars
<1>. QED
  BY <1>2, <1>3, <1>4, <1>5, <1>6, <1>7, <1>8, <1>9, <1>10, <1>11, <1>12, NextSplits
     DEF LevelStep, LevelSteps


LEMMA StepError == error \in BOOLEAN /\ [Next]_vars => error' \in BOOLEAN
<1>. SUFFICES ASSUME error \in BOOLEAN, [Next]_vars PROVE error' \in BOOLEAN
  OBVIOUS
<1>1. ASSUME NEW c \in levelCalls, LevelFails(c) PROVE error' \in BOOLEAN
  <2>1. error' = (error \/ (c.mine /\ c.put))
    BY <1>1 DEF LevelFails
  <2>. QED
    BY <2>1
<1>2. ASSUME error' = error \/ error' = TRUE \/ error' = FALSE PROVE error' \in BOOLEAN
  BY <1>2
<1>3. CASE \/ \E v \in Texts : Type(v)
           \/ ToLogs \/ ToActivity \/ Timers
  <2>1. error' = error \/ error' = FALSE
    BY Zenon, <1>3 DEF Type, ToLogs, ToActivity, NoLogs, Timers, Debounced, LogsRefetch, Ask, logVars
  <2>. QED
    BY <1>2, <2>1
<1>4. CASE LogStep
  <2>1. error' = error \/ error' = TRUE \/ error' = FALSE
    BY Zenon, <1>4 DEF LogStep, SetFilter, ToggleLive, TailTick, Refresh, LogAnswers, LogsAnswer,
       LogsFail, LogsRefetch, Ask
  <2>. QED
    BY <1>2, <2>1
<1>5. ASSUME NEW c \in levelCalls, ServeLevel(c) \/ LevelAnswer(c) PROVE error' \in BOOLEAN
  <2>1. error' = error
    BY Zenon, <1>5 DEF ServeLevel, LevelAnswer, logVars
  <2>. QED
    BY <2>1
<1>6. CASE \E v \in Levels : SetRuntime(v)
  <2>1. error' = error
    BY Zenon, <1>6 DEF SetRuntime, logVars
  <2>. QED
    BY <2>1
<1>7. CASE ListStep \/ UNCHANGED vars
  <2>1. error' = error
    BY Zenon, <1>7, ListStepFrame DEF vars, logVars
  <2>. QED
    BY <2>1
<1>. QED
  BY <1>1, <1>3, <1>4, <1>5, <1>6, <1>7, NextSplits DEF LevelStep, LevelSteps

FlagTypes == error \in BOOLEAN
ViewerTypes == SearchInv /\ LogTypes /\ LevelTypes /\ FlagTypes

LEMMA InitTypes == Init => ViewerTypes
<1>. SUFFICES ASSUME Init PROVE ViewerTypes
  OBVIOUS
<1>1. SearchInv
  BY ViewersAssumption DEF Init, SearchInv
<1>2. filter \in LogFilters /\ route = "activity"
  BY ViewersAssumption DEF Init
<1>3. liveTail \in BOOLEAN /\ loading \in BOOLEAN /\ error \in BOOLEAN
  BY DEF Init
<1>4. LevelTypes
  BY ViewersAssumption DEF Init, LevelTypes
<1>. QED
  BY <1>1, <1>2, <1>3, <1>4 DEF LogTypes, FlagTypes, ViewerTypes

\* At most one timer runs, for the text that stands in the field; the list's
\* text is the field's when none does; and the interval of the log viewer asks
\* for something exactly while Live is on.
THEOREM TypesHold == Spec => []TypeOK
<1>1. ViewerTypes /\ [Next]_vars => ViewerTypes'
  BY StepSearch, StepLog, StepLevelTypes, StepError DEF ViewerTypes, FlagTypes
<1>2. ViewerTypes /\ ListInv => TypeOK
  <2>. SUFFICES ASSUME ViewerTypes, ListInv PROVE TypeOK
    OBVIOUS
  <2>1. timers \subseteq Texts /\ Cardinality(timers) <= 1
    <3>1. text \in Texts /\ (timers = {text} \/ timers = {})
      BY DEF ViewerTypes, SearchInv
    <3>2. Cardinality({}) = 0 /\ Cardinality({text}) = 1
      BY FS_Singleton, FS_EmptySet
    <3>. QED
      BY <3>1, <3>2
  <2>2. /\ route \in {"logs", "activity"} /\ text \in Texts /\ search \in Texts
        /\ timers = {} => text = search
    BY DEF ViewerTypes, SearchInv
  <2>3. /\ filter \in LogFilters /\ liveTail \in BOOLEAN /\ loading \in BOOLEAN
        /\ error \in BOOLEAN
        /\ route = "logs" => (liveTail <=> tail # None)
    BY DEF ViewerTypes, LogTypes, FlagTypes
  <2>4. level \in Levels /\ serverLevel \in Levels
    BY DEF ViewerTypes, LevelTypes
  <2>5. tab \in Tabs /\ \A c, d \in cache : c.key = d.key => c = d
    BY DEF ListInv, ListTypes, CacheInv
  <2>. QED
    BY <2>1, <2>2, <2>3, <2>4, <2>5 DEF TypeOK
<1>. QED
  BY <1>1, <1>2, InitTypes, InitList, StepList, PTL DEF Spec
==============================================================================
