# Haul: a verification project

Haul is a BitTorrent client: a session over the `anacrolix/torrent` engine, a
SQLite database, an HTTP and WebSocket API in Go, and a web interface in React.
This directory holds TLA+ models of the parts of it that are hard to test, the
TLC configurations that check them on small instances, and proofs, checked by
TLAPS, that hold for every size.  Paths below are relative to the repository's
root; `session.go`, `control.go` and `stall.go` are in `internal/core/torrent/`,
the files of the web interface in `web/ui/src/`.

Run a check with `tlc -config QueueSerial.cfg MCQueueGate`, a proof with
`tlapm QueueGateProofs.tla`.  `PROJECT.json` lists runs, properties, mutants,
findings, hazards, theorems, and the source lines of every definition.

## 1. Inventory

### The parts and their state

| Part | State | Operations | Correct when |
|---|---|---|---|
| Session core (`session.go`) | map of managed torrents under `Session.mu`; one engine handle and two goroutines per torrent | Add, Remove, Pause, Resume, List, Get | memory, engine and table agree when nobody is at work |
| Queue gate (`session.go` 1182-1329) | `paused`, `queuePaused` of each torrent, `priority` column, `max_active_downloads` | a pass after every operation that may free or take a slot | the top N candidates run, user pauses stick, no slot idles |
| Stall classifier and watcher (`session.go` 1575-1697, `stall.go`) | `addedAt`, `firstPeerAt`, `lastActivityAt`, `stalledAt`, the `stalled_at` column, the 'stalled' tag | CheckStalls every 30 s, ListStalled | stopped transfers are paused and marked once, dead ones reported |
| Persistence and restore (`session.go` 1822-2100) | `torrents`, `torrent_tags` | persistTorrent, saveTorrentData, markCompleted, deleteTorrent, restoreFromDB | a restart brings back what the user had, and nothing else |
| Event bus and WebSocket hub (`events/bus.go`, `api/ws/hub.go`) | goroutines under way; a bounded channel per client | Publish, HandleEvent, register, leave | no send on a closed channel, no block, losses made good by the page |
| Live list (`api/websocket.ts`, `api/torrents.ts`, `App.tsx`, error boundary) | one socket, a delay, a timer; the query cache | connect, onmessage, onclose, poll, mutate, navigate, crash | the page shows the server's state in the end, and the user's own change at once |
| Dashboard (`pages/torrents/TorrentList.tsx`, `lib/torrentStatus.ts`) | pills, chips, search, sort, dragged order | clicks, drag and drop with its two requests | the rows are the matches, badges and pills agree, a drop lands where it fell |
| Dialogs and actions (`TorrentContextMenu`, `ConfirmDialog`, `TorrentDetail`, `TrackerList`, `CategoriesPage`) | menu, submodal, add modal, one shared confirmation | open, confirm, submit, answers | what is sent is what was confirmed; late answers touch nobody else |
| Runtime settings (`SettingsForm.tsx`, both pages, `api/v1/settings.go`, `NewSession`) | form per tab, settings table, the session's values | edit, save, refetch, store and apply by key, restart | table and session agree; edits are neither lost nor mixed with old values |
| Admin diagnostics (`internal/db/admin`, `pages/system/Diagnostics.tsx`) | rows, selection, dialog, two queries | detect, re-check, delete, poll | no live torrent loses its row; the page does not keep what is gone |
| Log viewer, activity list (`LogViewer.tsx`, `ActivityPage.tsx`) | search text and its timer, filters, page, answers under way | type, filter, page, tail, level | what is shown belongs to what is asked for |
| Control operations (`control.go`) | flags, tags, paths, priorities in memory and table | ForceStart, SetPriority, SetLocation, Recheck, tags | both copies change together |
| Seed limits, schedule, rate tracker, webhooks, watch directory, renamer, history, VPN probe | limits, limiter, samples, timers, files | tickers, events | see section 8 |
| HTTP API, middleware, configuration, main, Pulse, layout and detail views | none of their own, or read once | routing, wiring, presentation | |

### How they interact

An HTTP handler calls a session method, which changes the map under the lock,
lets go of it, calls the engine or the database, and mostly ends with a pass of
the queue gate.  Each Add spawns `waitAndStart`, which waits for metadata, runs a
pass, writes resume data and spawns `monitorCompletion`, which polls every five
seconds, marks completion, perhaps pauses, and runs a pass.  One goroutine of
`main` serves four tickers (seed limits, stalls, health, schedule), so these
never overlap each other but do overlap everything else.  Every event starts one
goroutine per subscriber.  The database pool has one connection: statements
are atomic and ordered, sequences of statements are not.

The hub is one subscriber.  The browser hears of an event, invalidates its
cached list and fetches it; it also polls, and its own mutations invalidate.
Requests of one browser overlap each other and those of other browsers.  Late
answers come to components that have gone, or that were replaced.

### What is hard

* The lock covers single writes.  Between a gate pass's snapshot and its writes,
  between the watcher's verdict and its pause, between a change in memory and
  its UPDATE, anything may happen.
* Arguments and snapshots outlive the state they were taken from.
* A crash, or a recovered panic of the engine, falls between any two steps.
* Events are dropped, connections break, answers overtake each other, and the
  component that asked may be gone, or another one may be in its place.
* What must happen in the end: a queued torrent gets the free slot, a dead one
  is reported, a stopped one is marked, the page shows what the server has.

`PROJECT.json` lists each of these hazards at its line, with the properties that
cover it or the reason why none does.

## 2. Plan

In the order it was carried out:

1. `QueueDecision`, `QueueGate` (the core): the gate and all that feeds it.
2. `StallDecision`, `StallWatch`: the classifier as a pure module, the watcher.
3. `Lifecycle`: memory, engine, goroutines and table under crashes.
4. `FreshView`, `LiveFeed`: what the page promises, and bus, hub, socket and
   query cache that implement it.
5. `TorrentView`, `TorrentBoard`, `TorrentActions`: the dashboard and everything
   its user does.
6. `SettingsForm`: from the field to the session and back.
7. `Diagnostics`: detector and clean-up beside adds and removes, and the page.
8. `Viewers`: log viewer and activity list.

What would come next, were it extended: the copies of a tag and of a save path
in memory, table and disk; a watched file's way to Add; an abstract slot
allocator that QueueGate implements when operations do not overlap.

## 3. The modules

### QueueDecision, QueueGate
`QueueDecision` has the pure part: `queueGateDecision` and the orders in which
the candidates may be ranked (rows of equal priority come in any order).
`QueueGate` has the session's map (`torrents`, `paused`, `queuePaused`), the
table (`rows`, `prio`), the engine (`ready`, `complete`, `fetching`: DownloadAll
was called last, or CancelPieces), the progress of `waitAndStart` and
`monitorCompletion` (`phase`), and workers.  A worker is a goroutine inside one
operation; `pc` says where.  An operation is split where the code lets go of the
lock: the change of the flags (`Pause`, `Resume`, `Add`, ...), the engine call
(`EngineCall`), and a pass in five reads and writes (`GateReadsCap`,
`GateReadsPriorities`, `GateSnapshots`, `GateDecides`, `GateApplies` with
`GateCallsEngine`, one torrent at a time).  `GateDecides` reads the flags without the
lock, as the code does: each read returns the value at the snapshot or the
present one.

Left out: the text of events, the `db == nil` variant of the tests, a failing
priority query.  A hash is added once here; re-adds are Lifecycle's.
Observers (`intent`, `forced`, `frozen`, `disturbed`, `settled`) are read by
no guard; `issued` bounds the operations.

### StallDecision, StallWatch

`classifyStall` over ages instead of time stamps; an age stops at five
timeouts, beyond which nothing changes.  `StallWatch` has one watcher whose pass
is split into `StartPass`, `Observe`, the verdict (`ClassifyMild`, `Escalate`,
`AlreadyStalled`), `PauseStalled`, `Stamp` and `PersistStall`, which also
publishes the event, and a user whose Resume clears memory first and the row later;
users may come between any two of these steps.  Gate passes appear by what they
do to a torrent (`GateQueues`, `GatePromotes`).  `Init` is a process that
has just started, with torrents restored or just added.  It includes
torrents restored with their stall mark: what a restart yields when the stamp
is read back.

### Lifecycle

Sets say where a torrent is: `managed`, `ready`, `paused`, `stalledAt` in
memory, `engine`, the goroutines that wait for metadata (`starting`), that have
it (`saving`) and that poll for completion (`monitors`), the files
(`downloaded`), and the row (`present`, `removed`, `torrentData`, `completedAt`,
`rowStalledAt`).  The stamps have a format: `DriverFormats` says how the driver
may write a `time.Time`, and `Parses` what restoreFromDB reads.  Add is split
at persistTorrent, Remove at Drop and at the deferred deleteTorrent.  `Crash`
may happen at any point, and `CleanUp`, `SkipCompleted`, `Restore` treat the rows
one by one in any order, while goroutines of restored torrents already run.

Simplified: goroutines of one hash are merged; the queue flag, priorities
and the gate are QueueGate's; the steps of the watcher are StallWatch's; a write
to the database succeeds.

### FreshView, LiveFeed

`FreshView` says what a reader of the list may rely on: it shows states the server
was in, never an older one after a newer one, and it catches up while somebody
looks.  `LiveFeed` is the way there.  `pending` is the bag of events whose
goroutine has not run, so they reach the hub in any order.  Per connection there
are the place of ServeHTTP (`srv`), the channel (`channels`, `buffer`), its entry in
the hub's map (`clients`) and the browser's end (`sock`).  `OnClose`, `Reconnect`,
`Crash` and `TryAgain` are the effect of `useWebSocket` with its cleanup, which
stops reconnections but does not close the socket.  `fetch` is the list's one
request with its retry, `Invalidate` what `invalidateQueries` makes of it,
`mutation` the user's last change and the promise it waits for.  The query
library is external: it is modelled from the options and calls of the code.

The list is a version number: two lists differ as the server's history does.

### TorrentView, TorrentBoard

`TorrentView` has the pure part: the status the server reports (`StatusOf`), badge
and pills, filters, stable sorting, the move of an array element.  Sorting is said
once, by where a row goes: `Place` counts the rows that come before it by key and
index, `Arrange` puts each at its place, and filter, sort, the server's ORDER BY and the
dragged order are its uses.  `TorrentBoard`
puts them on a list that is refetched at any time, and follows the two requests a
drag sends: `RankArrives` for the one rank, `OrderStep` for the order, one UPDATE
after the other, so that two drags mix.  Names are what they are compared by:
`Matches` says which torrents a query finds, `SortKey` how a field ranks them.
A hash that is added again keeps the priority its row had (`Added`), and a torrent may
carry any combination of marks the session can give it (`StatusChange`).

### TorrentActions

Components are numbered as they are mounted (`id`).  A request remembers who sent
it (`from`), because the callbacks given to `mutate()` run only while that component
is mounted and has sent nothing since (`Answered`); a request that was followed by
another of its hook is dropped for good (`Dropped`).  The submodals have no key, so one
opened over another of its kind is the same component (`ReplacesSubmodal`, `over`).  `dialog` is what the shared
confirmation shows, `waiter` the promise its buttons resolve.  A file is read
before it is sent (`reads`); while it is, nothing is pending, and two files are sent in
the order they were read.  `Escape` closes every
open modal, because each listens on the document.

### SettingsForm

Both settings pages use one hook and one settings map; `mount` says which page a
tab shows.  A save is a request that writes key by key (`WriteKey`), then applies
key by key (`ApplyKey`), then is answered, or its answer is lost although all is done
(`AnswerLost`), and waits for the refetch.  `Lands` is the
effect that fills the form, with the library's structural sharing: equal data
is the same object.  `Restart` may fall between any two steps.  `download_rate_limit` and
`upload_rate_limit`, second names of the two global limits that no page sends, are left
out: the keys of the model each drive a value of their own (an assumption).

### Diagnostics

The session appears as far as it moves rows: Add and Remove with the gap between
map and table, an INSERT that fails (`PersistTorrentFails`), restart.  A detection reads
the live hashes first and the rows later (`Detect` and `DetectRows`, `LookSummary` and
`ServeSummary`, `LookDetail` and `ServeDetail`), and a session that moves in between
gives it rows that are no orphans any more; one that fails is skipped (`SkipDetection`).
A clean-up is a request with its own stages, the detection for "all", `ReconfirmStep`,
`Delete`.  The page has both queries, the card's open, selected
and dialog state, and a number for the card, which unmounts when the list
fails or comes back empty.  Soft clean-ups fail as they do in the code (`Refused`).

### Viewers

Two pages of which the router mounts one.  The log viewer takes any answer it gets
(`LogsAnswer`); the activity list keeps answers under their key (`Store`), shows the
former data until the new ones come (`Showing`) and resets its page in an effect,
so that one render asks for the old page under the new filter (`Filtered`).

## 4. The runs

| Run | Instance | What it shows |
|---|---|---|
| `queue_overlap` | two torrents, two workers, one user operation, passes overlap freely | an undisturbed pass leaves exactly the top N downloading; no pass touches a pause its snapshot saw |
| `queue_serial` | one operation at a time, two of all kinds, caps 0 and 1, fairness | between operations exactly the top N download, and never more than N even before a completion is noticed; pauses stick; no queued torrent waits beside a free slot for ever |
| `queue_sticky_race` | the same module, overlapping | counterexample, section 6 |
| `stall_watch` | one torrent, all operations, fairness | one announcement per mark, however late a Resume comes; dead torrents reported; stopped ones marked |
| `lifecycle` | two torrents, two handlers, three adds, two crashes | removed stays removed, saved comes back, memory and table agree |
| `lifecycle_overlap` | one torrent, handlers of one hash overlap | counterexample |
| `live_feed` | two connections, buffers of one, two changes, a health event, one fault, one navigation, crash or hidden tab, fairness | no send on a closed channel, one feed, the settling list shows the mutation, `FreshView` is implemented |
| `torrent_board` | three torrents, two clicks or drags, one change by others | badges and pills agree, rows are the matches, a drop lands at its place or next to it |
| `torrent_actions` | two torrents, two categories, three requests or openings, every answer late or lost | confirmed is sent, answers close only their own modal or page, or what took over their component |
| `settings_form` | two tabs, two runtime keys (one read back at start), a key of the other page, three actions, one failure or restart | table and session agree, edits survive refetches, saves send only what was typed |
| `diagnostics` | one live torrent and one orphan, five actions, one failure or restart, fairness | rows of live torrents, rows that leave the page, the badge |
| `viewers` | two texts, filters, tabs and levels, two pages, three actions, one fault, two requests at once, fairness | level, own data, page with rows, logs that catch up |

The bounds and why they are enough.  The gate's difficulties need a slot, a
candidate beyond it and a second pass.  Two torrents, two workers and a cap of 1
give that: `queue_overlap` allows one user operation (`MaxOps`: a pause, a remove whose
Drop may panic, or a recheck; a resume differs only in its flags) beside the passes
that the goroutines of both torrents run of their own accord, and every
interleaving of their steps; what it shows is proved for all sizes.
The watcher treats torrents one after another and shares no state between them,
so one torrent meets every order of watcher and user; the thresholds keep the
order and the ratios of the real ones as far as the rules compare them.  Lifecycle
needs one torrent removed and added again after a crash, beside another: three
adds and two crashes.

`live_feed` needs a socket left behind by a crashed shell beside the new one, an
event that meets a full buffer (`BufferSize` 1, a health event in it), and a change
after the one that was lost; the safety part is proved for all sizes.
`torrent_board` needs a torrent the drag did not show or that came later, hence
three, and two moves, so that one drag can meet another; what it shows is proved for any number.  `torrent_actions` needs a request, the modal that sent it gone or
handed another torrent, and another in its place.  Its bound counts what opens a page, a menu
or the add modal, what sends, what asks, and what others change; typing, closing, choosing
from an open menu and confirming are free.  The add modal is opened, submitted and
opened again within three; a submodal likewise, by a menu, a submission and another
menu, with or without a Cancel in between.  One more would let the second modal send
too, which no property needs: answers are compared with what is open, not with each other.  `settings_form` needs a save under
way, a page change or an edit, and another tab.  `diagnostics` needs open, select,
clean up, confirm, and an add behind it: five.  `viewers` needs an old answer beside a
newer one, and a page that is not the first.

`CHECK_DEADLOCK FALSE` is set where a behaviour may really end: nothing
is left to do once the users are silent, and the bounds on operations, adds,
faults and moves stand for that silence.

Conditions of the properties.  The passing runs of Lifecycle take `Overlap =
FALSE`: a client waits for the answer to its Add or Remove of a hash before it sends
the next for the same hash.  The code does not enforce this; `lifecycle_overlap` shows
what happens without it.  `queue_serial` likewise runs one operation at a time, and
`queue_sticky_race` shows why; it leaves out a recheck that finds bad data and a panic
in Drop, after which the code runs no pass.  `IdleIsBalanced` excepts torrents that
were forced (ForceStart runs no pass) and completions that `monitorCompletion` has yet
to notice.  `EngineFollowsTable` excepts saves that overlapped and
saves cut short by an error (`mixed`), and `SavesOnlyWhatWasTyped` a second tab that
saves: in both cases the code ends in a mixture, which the module reaches.  `EditsSurviveRefetch` is about
a tab without a save of its own under way, while no other saves and nothing fails.
`DragLandsNearby` is about a drag that nothing else disturbed (`alone`),
`LevelAgrees` about level requests that did not cross (`crossed`), `PageHasRows` about
a total that was the current one when Next was clicked (`early`), `LiveHasRow` about
torrents that did not come back between the last check and the DELETE (`back`) and
whose INSERT did not fail (`unsaved`).  `SettledIsBalanced` is about a pass that nothing
disturbed, another pass included.  `AnswersCloseTheirOwn` allows a submodal that took
over the component of the one that asked.
These ghosts are read by no guard.

## 5. Fairness

QueueGate: weak fairness for every worker inside an operation (the Go scheduler
runs every runnable goroutine, and every lock is released) and for the polling
of monitorCompletion.  Metadata, pieces and users owe nothing.  StallWatch: time
passes, the ticker fires, a handler that has begun goes on.  Tick is strongly fair
because it pauses while the watcher uses the time it has read.

LiveFeed: goroutines of the hub run, connections are answered and reconnection
timers fire, requests are answered, and the poll's interval fires in a tab that
has the focus; changes, mutations, faults and the user owe nothing.  Diagnostics:
the poll and both queries go on, a clean-up that was begun is answered.  Viewers:
the two-second interval, the timers of the search field and the answers come; the
field's timer is strongly fair because the bound on requests under way, which the
code does not have, may hold it up.  Lifecycle, TorrentBoard, TorrentActions and
SettingsForm have safety properties only.

## 6. What the code does otherwise than its text says

Each of these two is a run of its own, with the counterexample it finds.

* `PauseIsSticky` (`session.go` 219-221, 1222): a Pause that falls between a
  pass's snapshot and its writes becomes a queue pause, or is undone.
* `ManagedHasLiveRow` (`session.go` 1931-1934): the late UPDATE of a Remove is not a
  no-op after a re-add; it stamps the live row.

Read in the code while modelling, and in the modules as the code has them,
without a run of their own:

* Two overlapping gate passes can leave too many torrents downloading, or too few, until
  something runs the gate again (`session.go` 1214, 1303).  A recheck that finds bad data
  makes a finished torrent a candidate and runs no pass (`control.go` 229).  A force-started torrent is
  queued by the next pass (`control.go` 338).  A Pause while metadata is awaited is
  shown but not carried out (`session.go` 1739).
* A torrent resumed between the watcher's verdict and its pause is paused and announced
  on the old verdict (`stall.go` 262-296).
* Resume between the watcher's stamp and its UPDATE leaves the row marked for good
  (`session.go` 239-241).  A complete torrent no peer was seen for is called stalled,
  because that rule comes first (`session.go` 1651).
* Times are bound as `time.Time`, which the driver writes as `time.Time.String()`
  does; restoreFromDB parses RFC 3339 and drops the error (`session.go` 1977,
  2053-2055).
* A failing INSERT is logged and the torrent stays managed, until a restart, without a
  row (`session.go` 1848-1850).
* A soft clean-up always fails: the INSERT gives no `deleted_at`, which the table
  requires (`cleanup_history.go` 60).  An orphan added back between the last check and the
  DELETE loses its row, though the comment at `orphan_torrents.go` 109 says the check
  prevents it.  A failing detection is skipped, and the page may say "All clean"
  (`admin_diagnostics.go` 74).
* Settings "take effect immediately" (`SettingsPage.tsx` 449) holds for the four keys
  `applyRuntimeSettings` passes on; `global_download_limit` is not read back at start
  (`session.go` 513-528).  Edits made while a save is under way, or after
  one that failed, may be overwritten by the next fetch, and two tabs write their old values over each other's.
* The two requests of a drag number the rows from 1 and from 0, so neighbours may
  end up swapped (`TorrentList.tsx` 653).  The queue-limit line is drawn by index in
  the filtered list, not at the gate's real boundary (1027-1031).
* The menu's toasts never appear, since the menu is unmounted before the answer
  (`TorrentContextMenu.tsx` 121-124).  An add can be submitted twice while the file is
  read (131-143), the Enter key does not wait for a pending request
  (`TorrentList.tsx` 1176), and Escape closes all stacked modals.  A submodal opened over
  another of its kind shows the first torrent's typed text, and is closed by the answer
  about the first torrent (1082-1090).
* With Live off, an answer of the log viewer that was overtaken stays on screen.
  Two level changes at once may leave the select wrong.  Next clicked on the former
  data's total, or a total that shrinks, leaves an empty page without buttons
  (`ActivityPage.tsx` 263).

In no module, and read in the code only: the list of the clean-up history passes four
arguments to six placeholders (`cleanup_history.go` 79-91).  The typed text of a submodal
is not part of TorrentActions, only that the component stays.  The queue-limit line
and the toasts are described above and are no state of the modules.

## 7. Proofs

| Theorem | For every | Argument |
|---|---|---|
| `QueueGateProofs!TypeCorrect` | set of torrents, goroutines, priorities, caps | inductive as it stands |
| `QueueGateProofs!SettledBalanced` | the same | `PassInv` |
| `QueueGateProofs!SnapshotPausesKept` | the same | `FrozenInv` |
| `QueueGateProofs!PausesStick` | the same, one worker at a time | `FrozenInv`, `StickyInv` |
| `QueueGateProofs!CapHolds` | the same, one worker at a time, without recheck | `CapInv` |
| `QueueGateProofs!IdleBalanced`, `SlotsAreOwed` | the same, without a panic in Drop either | `PassInv`, `BalanceInv` |
| `StallWatchProofs!LevelFollowsInactivity` | thresholds with FirstPeerTimeout below five timeouts | the ages are bounded by `Horizon` |
| `StallWatchProofs!CompleteStalledAreUnseen` | state | the order of the rules |
| `StallWatchProofs!WatchTypeCorrect`, `AnnouncesOnce` | set of torrents, thresholds | see below |
| `LifecycleProofs!TypeCorrect` | set of torrents, handlers, bounds | inductive with "no handler before restore is over" |
| `LifecycleProofs!RemovedIsGone`, `MemoryIsTable`, `SavedSurvives` | the same, when Overlap is FALSE | `GoneInv`, `PlacesInv`, `KeptInv` |
| `DashboardProofs!FeedIsTyped` | set of connections, buffer size, delays, bounds | one part of the state at a time; `CacheInv` |
| `DashboardProofs!HubIsSafe`, `FeedIsSingle`, `MutationsAreShown` | the same | `HubInv`, `FeedInv`, `CacheInv` |
| `DashboardProofs!ImplementsFreshView` | the same | every step is a step of FreshView or leaves its variables alone |
| `DashboardProofs!BoardIsTyped`, `BadgesHavePills` | finite set of torrents, categories, tags, searches, sort keys, number of moves | `BoardTypes` |
| `DashboardProofs!RowsMatch` | the same | `Rearranges` |
| `DashboardProofs!DragsLandNearby` | the same | `BoardTypes`, `DragInv`, `OnePlaceAway` |
| `DiagnosticsProofs!CardsAreTyped`, `LiveRowsAreSafe`, `CleanedRowsLeave` | finite set of torrents, bounds | `CheckedInv`, `GoneInv` |
| `TorrentActionsProofs!ActionsTypes`, `SendsShown`, `AnswersOwn` | set of torrents and categories, number of moves | `Shapes`, `OwnInv` |
| `SettingsFormProofs!SettingsTypes`, `EngineFollows`, `EditsSurvive`, `SavesTyped` | set of tabs, keys and values, number of moves and faults | `Shapes`, `EngineInv`, `SoleSaverInv`, `FormInv`, `OneSaverInv` |
| `ViewersProofs!TypesHold` | set of texts, tabs and levels, number of moves, faults and requests | `ViewerTypes`, `ListInv` |
| `ViewersProofs!LevelIsServers` | set of levels, number of moves and requests | `LevelInv` |
| `ViewersProofs!ListIsItsOwn`, `PageStandsOnRows` | set of texts and tabs, length of each list | `ListInv` |

`SettledIsBalanced` is not inductive: it speaks of the end of a pass.  `PassInv`
says of every point inside an undisturbed pass what it already knows (`Knows`):
the cap it read is the cap, the priorities it read are the priorities, its
entries are a ranking of the candidates, its decisions lead from the present
flags to the balanced ones, and each write takes one of them off the list.  A step of
anybody else that would spoil this marks the pass as disturbed.
`SnapshotPausesAreKept` needs `FrozenInv`: the torrents user-paused at the
snapshot are not among the entries of the pass.

`PauseIsSticky` is false when operations overlap (section 6).  With one at a time a
torrent asked to pause is in the snapshot's frozen set for the rest of the pass
(`StickyInv`).  `CapWhenIdle` needs more than balance, because a torrent may complete in the
middle of a pass and disturb it.  `Holds` says what the pass knows nevertheless: every
candidate is among its entries, and an entry beyond the cap is paused or still to
be queued.  `CapInv` adds what an operation may do before its pass: it exceeds the cap by
its own torrent at most, and one that runs no pass has forced it or has no metadata for it.

`IdleIsBalanced` says what all the operations of the gate achieve together: one that
forgets its pass breaks it, whatever the cap says.  It is `PassInv` at the end of the
last pass, carried over the time without a pass.  `BalanceInv` has the reasons:
with one operation at a time only a completion disturbs a pass, and its monitor is
there to notice it and run another (`Owed`); an operation that returns without a pass has
forced its torrent or has no metadata for it, and `CandidatesDecide` and
`NoCandidate` show that a torrent without metadata does not matter to the balance.
`MonitorInv` says how far the goroutines of a torrent are.  `SlotsAreOwed` follows by
counting: a ranking whose first `cap` entries all download leaves no free slot.  It is the
safe half of `NoIdleSlot`; that the monitor ticks is the live half, and TLC's.

`AnnouncedOncePerMark` counts an announcement where it is published and takes one back
where a Resume clears a mark; the watcher's verdict, pause, stamp and publish are four
steps, and a Resume may fall between any of them.  `AnnouncementInv` counts what is owed,
an announcement decided and not yet published included (`Owed`): it is never more than
one, and nothing is owed for a torrent that the watcher could still decide about
(`Escalable`).  So a Resume between stamp and publish makes the count negative
before the late event brings it back to zero, and the stall after it adds the one its own
mark stands for.

`RemovedStaysRemoved` needs that a gone torrent has no live row, is in no
handler's hands and is not about to be restored (`GoneInv`).  `MemoryMatchesTable`
needs the places of a torrent to agree up to the handler or the restore at work on
it, and that a live row nobody manages reads as completed and has no
goroutine left which could write its completion in another format (`PlacesInv`).
`SavedSurvivesRestart` adds that a saved torrent's row stays live and keeps its resume
data until a Remove takes hold of it (`KeptInv`); where such a row's torrent is, through
a crash and the restore after it, `PlacesInv` says.

`HubSendsOnOpenChannels` needs where each ServeHTTP is (`HubInv`): a channel in the map
belongs to one that serves, and only one that has left closes.  `OneFeed` needs that
a socket left behind is marked as stopped, which a new socket never is
(`FeedInv`).  `MutationIsShown` and the refinement need `CacheInv`: no version is ahead
of the server's, an answer on its way is not behind the cache, and one that a
settling mutation waits for was asked for after it.

The dashboard's list is argued from what arranging does.  `PlacesAreOrdered`: places are
numbered from 1 without gap or tie, because the rows before one row are a strict
subset of those before the next; so `Arrange` is the rows composed with a bijection
(`ArrangeMoves`).  Such rearrangements compose (`Rearranges`), so filter, sort
and dragged order together lose no row and show none twice.  `BoardTypes` strengthens the
type invariant by what the page relies on: a torrent has one row of the list, and orders
and ranks name known torrents.  `DragLandsNearby` speaks of the end of two requests.  `DragInv`
says where they are: the order is written from the top down to `done`, one rank after
the other from 0, the row that was moved may have the rank of the other request instead,
its place counted from 1.  `OnePlaceAway` draws the
conclusion from ranks alone, and `ServerOrderRanks` ties it to the order the server lists in.

`LiveHasRow` needs that every hash of a confirmed clean-up that is in memory came
back behind the check (`CheckedInv`), and that nothing is in memory and being
removed at once.  `GoneRowsLeave` needs that a fetch that has been served does not bring
rows that are gone: a clean-up on an open card replaces the fetch under way
(`GoneInv`).

`SendsWhatWasShown` holds because the call that waits is the one that is shown
(`waiter = dialog`, part of `Shapes`): confirm() replaces both and every way out clears
both.  `AnswersCloseTheirOwn` needs that no two mounted components share a number, that
a new one gets a number never used (`Ids`, `Layout`), and that every request, file being
read and open question comes from a component that may have asked it (`Asker`):
nobody else is mounted under that number any more.

`EngineFollowsTable`: unless saves were mixed there is one at most, and a key that the
session does not follow is on that save's way to it, stored and not yet applied
(`EngineInv`, `Behind`); a restart in between applies the keys it reads back.
`EditsSurviveRefetch` is about every fetch that may land, from before a save, from inside
it or from after it.  As long as one tab alone saves and nothing fails, every answer
under way that a form still waits for has the table as the last save left it, and
with no save left the form has shown that table (`SoleSaverInv`): so the effect finds
equal data and leaves the form alone.
`SavesOnlyWhatWasTyped` needs that a form holds what was fetched last or typed since
(`FormInv`), and that a tab alone in saving has caught up with the table whenever
no save is under way (`OneSaverInv`).

`LevelAgrees` needs that a request alone under way carries the level to be shown,
from the moment it was served the server's too (`LevelInv`).  The list's two
properties need that the cache has one entry per key, of that key's rows, that what
is shown is the entry of the present key once there is one, and that the offset
was computed from the present filter's total (`CacheInv`, `ShownInv`, `OffsetInv`).

Assumptions: only the named ASSUMEs of the modules, which TLC evaluates in every
run.  They ask that the placeholder for "no torrent" is not one, that caps and
priorities are integers and 0 is a priority, that the first-peer timeout
(180 s) is below five stall timeouts (600 s by default), that no info hash is the word
"list" or "categories", that the keys read back at start are among those the
session is told of and the others have no value at first, that a row of the table is of one
torrent, that sort keys are integers and "manual" is not one of them, and that what the
models start from is of its type.

Every invariant of a passing run is proved, and so is every action property.
Model-checked only: liveness (`NoIdleSlot`, `DeadIsReported`, `StoppedTransferIsMarked`,
`BadgeCatchesUp`, `LogsCatchUp`, the fair part of `IsFresh`), which is outside the
prover's reach.
No module declares a RECURSIVE operator.

## 8. Not modelled

`PROJECT.json` gives the reason for each part.  In short: seed limits and the watch
directory call operations the models let anyone call at any time; schedule and
rate tracker are functions of the clock, the tracker of real numbers; webhooks,
hooks and Pulse are clients of outside programs; the renamer parses names and
moves files; tags, paths and limits are single writes that no other part reads;
the HTTP layer converts requests; configuration is read once; the main program is
wiring.  Of the web interface the shell's layout, the theme, the detail views and
piece bars are presentation, and the clean-up history page cannot show an entry,
because none can be made and its list statement fails.  The wire protocol, piece
selection and storage belong to the engine, the query cache and drag and drop to
their libraries; the models take from them what the code uses.
