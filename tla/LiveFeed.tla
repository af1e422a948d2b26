------------------------------ MODULE LiveFeed -------------------------------
(***************************************************************************)
(* How a change of the torrents reaches the open page: the bus starts a    *)
(* goroutine per event, the hub copies the event into the bounded buffer   *)
(* of every client or drops it, useWebSocket invalidates the cached list   *)
(* for a "torrent_" message and reconnects with a doubling delay, and      *)
(* useTorrents polls.  The query cache is the library's (TanStack Query),  *)
(* modelled from the options the code gives it.                            *)
(***************************************************************************)
EXTENDS Integers, Sequences, FiniteSets

CONSTANTS
  Sockets,        \* connections that may exist at once, dead ones are reused
  BufferSize,     \* sendBufSize
  FirstDelay,     \* 1000 ms, the delay before the first reconnection
  MaxDelay,       \* 30_000 ms
  Retries,        \* retries of a failed query, 1 in App.tsx
  MaxVersion,     \* bounds the changes of the torrents
  MaxHealth,      \* bounds the health_update events waiting for the hub
  MaxFaults,      \* bounds broken connections and failed requests
  MaxMoves        \* bounds navigation, crashes of the page and hidden tabs

ASSUME LiveFeedAssumption ==
  /\ Sockets # {}
  /\ BufferSize \in Nat \ {0}
  /\ FirstDelay \in Nat \ {0} /\ MaxDelay \in Nat /\ FirstDelay <= MaxDelay
  /\ Retries \in Nat /\ MaxVersion \in Nat /\ MaxHealth \in Nat
  /\ MaxFaults \in Nat /\ MaxMoves \in Nat

VARIABLES
  server,       \* version of the torrents, counts the changes
  pending,      \* events published, their hub goroutine has not run: a bag
  clients,      \* Hub.clients, the channels the hub sends on
  channels,     \* send channels made and not yet closed
  srv,          \* where ServeHTTP is, per connection
  buffer,       \* what waits in the send channel
  up,           \* the connection still carries data
  sock,         \* the browser's socket: none, connecting or open
  stopped,      \* the effect that made the socket was cleaned up
  timer,        \* a reconnection is scheduled
  delay,        \* retryDelay.current
  page,         \* list, other, or crashed (the shell is not mounted)
  visible,      \* the tab has the focus
  cached,       \* version of the list in the cache
  invalidated,  \* the cache entry was invalidated since its last answer
  fetch,        \* the request for the list
  mutation,     \* the user's last mutation
  faults, moves

serverVars == <<server, pending>>
hubVars    == <<clients, channels, srv, buffer, up>>
feedVars   == <<sock, stopped, timer, delay>>
cacheVars  == <<cached, invalidated, fetch, mutation>>
pageVars   == <<page, visible>>
vars == <<serverVars, hubVars, feedVars, cacheVars, pageVars, faults, moves>>

Kinds == {"torrent", "health"}   \* torrent_added, ... and health_update
Nothing == -1                    \* the cache holds no list yet
Smaller(a, b) == IF a < b THEN a ELSE b

Idle == [st |-> "idle", ver |-> Nothing, tries |-> 0]
Sent == [st |-> "sent", ver |-> Nothing, tries |-> 0]
NoMutation == [st |-> "idle", ver |-> 0, had |-> Nothing]

TypeOK ==
  /\ server \in 0 .. MaxVersion
  /\ pending \in [Kinds -> Nat]
  /\ clients \subseteq Sockets /\ channels \subseteq Sockets
  /\ srv \in [Sockets -> {"none", "accepted", "serving", "deleted"}]
  /\ buffer \in [Sockets -> Seq(Kinds)]
  /\ \A s \in Sockets : Len(buffer[s]) <= BufferSize
  /\ up \in [Sockets -> BOOLEAN]
  /\ sock \in [Sockets -> {"none", "connecting", "open"}]
  /\ stopped \in [Sockets -> BOOLEAN]
  /\ timer \in BOOLEAN /\ delay \in FirstDelay .. MaxDelay
  /\ page \in {"list", "other", "crashed"} /\ visible \in BOOLEAN
  /\ cached \in Nothing .. MaxVersion /\ invalidated \in BOOLEAN
  /\ fetch \in [st : {"idle", "sent", "answered", "waiting"},
                ver : Nothing .. MaxVersion, tries : 0 .. Retries]
  /\ mutation \in [st : {"idle", "applied", "settling"},
                   ver : 0 .. MaxVersion, had : Nothing .. MaxVersion]
  /\ faults \in 0 .. MaxFaults /\ moves \in 0 .. MaxMoves

Mounted == page # "crashed"
Observed == page = "list"

------------------------------------------------------------------------------
(* The query cache. *)

\* fetch without cancelRefetch: a request in flight is joined.
Refetch == IF fetch.st = "idle" THEN Sent ELSE fetch

\* invalidateQueries: a list that is shown is fetched again, and a request in
\* flight is dropped for the new one, unless it is the very first.
Invalidate ==
  /\ invalidated' = TRUE
  /\ fetch' = IF ~Observed THEN fetch
              ELSE IF cached # Nothing THEN Sent ELSE Refetch

\* A mutation that waited for the dropped request is settled with it.
DropWaiter ==
  IF mutation.st = "settling" /\ Observed /\ cached # Nothing
  THEN NoMutation ELSE mutation

\* (mutant) The list is polled only while no socket is open.
PollWithoutFeed ==
  /\ Observed /\ visible
  /\ fetch.st = "idle" /\ \A s \in Sockets : sock[s] # "open"
  /\ fetch' = Sent
  /\ UNCHANGED <<serverVars, hubVars, feedVars, cached, invalidated, mutation,
                 pageVars, faults, moves>>

\* The interval of useTorrents fires, in a tab that has the focus.
Poll ==
  /\ Observed /\ visible
  /\ fetch.st = "idle"
  /\ fetch' = Sent
  /\ UNCHANGED <<serverVars, hubVars, feedVars, cached, invalidated, mutation,
                 pageVars, faults, moves>>

\* GET /torrents is answered from the session's map.
ServerAnswers ==
  /\ fetch.st = "sent"
  /\ fetch' = [st |-> "answered", ver |-> server, tries |-> fetch.tries]
  /\ UNCHANGED <<serverVars, hubVars, feedVars, cached, invalidated, mutation,
                 pageVars, faults, moves>>

FetchLands ==
  /\ fetch.st = "answered"
  /\ cached' = fetch.ver /\ invalidated' = FALSE
  /\ fetch' = Idle
  /\ mutation' = IF mutation.st = "settling" THEN NoMutation ELSE mutation
  /\ UNCHANGED <<serverVars, hubVars, feedVars, pageVars, faults, moves>>

\* A request fails on its way there or back: one retry while the list is
\* shown, then the error stands and the old list stays.
FetchFails ==
  /\ fetch.st \in {"sent", "answered"}
  /\ faults < MaxFaults /\ faults' = faults + 1
  /\ \/ /\ fetch.tries < Retries /\ Observed
        /\ fetch' = [st |-> "waiting", ver |-> Nothing, tries |-> fetch.tries + 1]
        /\ UNCHANGED <<invalidated, mutation>>
     \/ /\ ~(fetch.tries < Retries /\ Observed)
        /\ fetch' = Idle /\ invalidated' = TRUE
        /\ mutation' = IF mutation.st = "settling" THEN NoMutation ELSE mutation
  /\ UNCHANGED <<serverVars, hubVars, feedVars, cached, pageVars, moves>>

FetchRetries ==
  /\ fetch.st = "waiting" /\ visible
  /\ fetch' = [fetch EXCEPT !.st = "sent"]
  /\ UNCHANGED <<serverVars, hubVars, feedVars, cached, invalidated, mutation,
                 pageVars, faults, moves>>

------------------------------------------------------------------------------
(* The server: changes, the bus, and the hub. *)

Publish(k) == pending' = [pending EXCEPT ![k] = @ + 1]

\* A change of some torrent; progress and the like publish no event.
Change ==
  /\ server < MaxVersion /\ server' = server + 1
  /\ Publish("torrent") \/ UNCHANGED pending
  /\ UNCHANGED <<hubVars, feedVars, cacheVars, pageVars, faults, moves>>

HealthUpdate ==
  /\ pending["health"] < MaxHealth
  /\ Publish("health")
  /\ UNCHANGED <<server, hubVars, feedVars, cacheVars, pageVars, faults, moves>>

\* (mutant) The hub does not look whether the buffer is full.
HandleEventBlocks(k) ==
  /\ pending[k] > 0
  /\ pending' = [pending EXCEPT ![k] = @ - 1]
  /\ buffer' = [s \in Sockets |-> IF s \in clients THEN Append(buffer[s], k) ELSE buffer[s]]
  /\ UNCHANGED <<server, clients, channels, srv, up, feedVars, cacheVars, pageVars,
                 faults, moves>>

\* The hub's handler, in its own goroutine, under the hub's mutex.
HandleEvent(k) ==
  /\ pending[k] > 0
  /\ pending' = [pending EXCEPT ![k] = @ - 1]
  /\ buffer' = [s \in Sockets |->
       IF s \in clients /\ Len(buffer[s]) < BufferSize
       THEN Append(buffer[s], k) ELSE buffer[s]]
  /\ UNCHANGED <<server, clients, channels, srv, up, feedVars, cacheVars,
                 pageVars, faults, moves>>

\* ServeHTTP accepts the upgrade and makes the channel; the browser's onopen
\* resets the delay.
Handshake(s) ==
  /\ sock[s] = "connecting" /\ up[s]
  /\ srv' = [srv EXCEPT ![s] = "accepted"]
  /\ channels' = channels \cup {s}
  /\ sock' = [sock EXCEPT ![s] = "open"]
  /\ delay' = IF stopped[s] THEN delay ELSE FirstDelay
  /\ UNCHANGED <<serverVars, clients, buffer, up, stopped, timer, cacheVars, pageVars,
                 faults, moves>>

\* From here on the channel is in the hub's map.
Register(s) ==
  /\ srv[s] = "accepted"
  /\ srv' = [srv EXCEPT ![s] = "serving"]
  /\ clients' = clients \cup {s}
  /\ UNCHANGED <<serverVars, channels, buffer, up, feedVars, cacheVars, pageVars,
                 faults, moves>>

\* The write loop takes one message; the browser's onmessage runs.
Deliver(s) ==
  /\ srv[s] = "serving" /\ up[s] /\ buffer[s] # <<>>
  /\ sock[s] = "open"
  /\ buffer' = [buffer EXCEPT ![s] = Tail(@)]
  /\ \/ Head(buffer[s]) = "torrent" /\ Invalidate /\ mutation' = DropWaiter
     \/ Head(buffer[s]) # "torrent" /\ UNCHANGED <<invalidated, fetch, mutation>>
  /\ UNCHANGED <<serverVars, clients, channels, srv, up, feedVars, cached, pageVars,
                 faults, moves>>

\* (mutant) The channel is closed before it is taken out of the map.
LeaveClosesFirst(s) ==
  /\ srv[s] = "serving" /\ ~up[s]
  /\ srv' = [srv EXCEPT ![s] = "deleted"]
  /\ channels' = channels \ {s}
  /\ UNCHANGED <<serverVars, clients, buffer, up, feedVars, cacheVars, pageVars,
                 faults, moves>>

\* The read loop or a write fails: the deferred function takes the channel out
\* of the map under the mutex, and closes it afterwards.
Leave(s) ==
  /\ srv[s] = "serving" /\ ~up[s]
  /\ srv' = [srv EXCEPT ![s] = "deleted"]
  /\ clients' = clients \ {s}
  /\ UNCHANGED <<serverVars, channels, buffer, up, feedVars, cacheVars, pageVars,
                 faults, moves>>

CloseChannel(s) ==
  /\ srv[s] = "deleted"
  /\ srv' = [srv EXCEPT ![s] = "none"]
  /\ channels' = channels \ {s}
  /\ buffer' = [buffer EXCEPT ![s] = <<>>]
  /\ UNCHANGED <<serverVars, clients, up, feedVars, cacheVars, pageVars,
                 faults, moves>>

\* The network, the server's shutdown or its write timeout ends a connection.
Break(s) ==
  /\ sock[s] # "none" /\ up[s]
  /\ faults < MaxFaults /\ faults' = faults + 1
  /\ up' = [up EXCEPT ![s] = FALSE]
  /\ UNCHANGED <<serverVars, clients, channels, srv, buffer, feedVars, cacheVars,
                 pageVars, moves>>

------------------------------------------------------------------------------
(* useWebSocket. *)

\* connect(): a new socket of the running effect.
Unused(s) == sock[s] = "none" /\ srv[s] = "none"

Connect(s) ==
  /\ Unused(s) /\ s = CHOOSE t \in Sockets : Unused(t)
  /\ sock' = [sock EXCEPT ![s] = "connecting"]
  /\ up' = [up EXCEPT ![s] = TRUE]

\* (mutant) onclose does not ask whether the effect was cleaned up.
OnCloseAlways(s) ==
  /\ sock[s] # "none" /\ ~up[s]
  /\ sock' = [sock EXCEPT ![s] = "none"]
  /\ stopped' = [stopped EXCEPT ![s] = FALSE]
  /\ timer' = TRUE /\ delay' = Smaller(delay * 2, MaxDelay)
  /\ UNCHANGED <<serverVars, hubVars, cacheVars, pageVars, faults, moves>>

OnClose(s) ==
  /\ sock[s] # "none" /\ ~up[s]
  /\ sock' = [sock EXCEPT ![s] = "none"]
  /\ \/ ~stopped[s] /\ timer' = TRUE /\ delay' = Smaller(delay * 2, MaxDelay)
     \/ stopped[s] /\ UNCHANGED <<timer, delay>>
  /\ stopped' = [stopped EXCEPT ![s] = FALSE]
  /\ UNCHANGED <<serverVars, hubVars, cacheVars, pageVars, faults, moves>>

Reconnect(s) ==
  /\ timer /\ timer' = FALSE
  /\ Connect(s)
  /\ UNCHANGED <<serverVars, clients, channels, srv, buffer, stopped, delay, cacheVars, pageVars,
                 faults, moves>>

------------------------------------------------------------------------------
(* The page: navigation, the error boundary, the tab's focus. *)

\* A page that shows the list is mounted: fetched when the cache is stale,
\* which it is when invalidated and may be by age.
MountList == fetch' = Refetch \/ (cached # Nothing /\ ~invalidated /\ fetch' = fetch)

Navigate ==
  /\ moves < MaxMoves /\ moves' = moves + 1
  /\ \/ page = "list" /\ page' = "other" /\ UNCHANGED fetch
     \/ page = "other" /\ page' = "list" /\ MountList
  /\ UNCHANGED <<serverVars, hubVars, feedVars, cached, invalidated, mutation, visible,
                 faults>>

\* The error boundary replaces the shell: the effect's cleanup stops the
\* reconnections and leaves the socket open.
Crash ==
  /\ Mounted /\ moves < MaxMoves /\ moves' = moves + 1
  /\ page' = "crashed"
  /\ stopped' = [s \in Sockets |-> sock[s] # "none"]
  /\ timer' = FALSE
  /\ UNCHANGED <<serverVars, hubVars, sock, delay, cacheVars, visible, faults>>

\* "Try again" mounts the shell anew, with fresh refs.
TryAgain(s) ==
  /\ page = "crashed" /\ page' = "list" /\ MountList
  /\ Connect(s)
  /\ delay' = FirstDelay
  /\ UNCHANGED <<serverVars, clients, channels, srv, buffer, stopped, timer, cached, invalidated,
                 mutation, visible, faults, moves>>

\* Coming back refetches a stale list.
SetVisible ==
  /\ \/ visible /\ moves < MaxMoves /\ moves' = moves + 1 /\ visible' = FALSE
        /\ UNCHANGED fetch
     \/ ~visible /\ UNCHANGED moves /\ visible' = TRUE
        /\ IF Observed THEN MountList ELSE UNCHANGED fetch
  /\ UNCHANGED <<serverVars, hubVars, feedVars, cached, invalidated, mutation, page,
                 faults>>

------------------------------------------------------------------------------
(* A mutation of the list: pause, resume, add, remove, reorder, ... *)

\* One the server refuses, or that never gets there, leaves no trace here.
Mutate ==
  /\ Observed /\ mutation.st = "idle"
  /\ server < MaxVersion /\ server' = server + 1
  /\ Publish("torrent") \/ UNCHANGED pending
  /\ mutation' = [st |-> "applied", ver |-> server + 1, had |-> Nothing]
  /\ UNCHANGED <<hubVars, feedVars, cached, invalidated, fetch, pageVars, faults, moves>>

\* The answer is lost: mutations are not retried, and an error invalidates
\* nothing.
MutationFails ==
  /\ mutation.st = "applied"
  /\ faults < MaxFaults /\ faults' = faults + 1
  /\ mutation' = NoMutation
  /\ UNCHANGED <<serverVars, hubVars, feedVars, cached, invalidated, fetch, pageVars, moves>>

\* (mutant) onSuccess waits for a request without asking for a new one.
OnSuccessKeeps ==
  /\ mutation.st = "applied"
  /\ invalidated' = TRUE /\ fetch' = IF Observed THEN Refetch ELSE fetch
  /\ mutation' = IF Observed
                 THEN [st |-> "settling", ver |-> mutation.ver, had |-> cached]
                 ELSE NoMutation
  /\ UNCHANGED <<serverVars, hubVars, feedVars, cached, pageVars, faults, moves>>

\* onSuccess returns the promise of invalidateQueries: the mutation is pending
\* until the list it asked for has come, or its request is gone.
OnSuccess ==
  /\ mutation.st = "applied"
  /\ Invalidate
  /\ mutation' = IF Observed
                 THEN [st |-> "settling", ver |-> mutation.ver, had |-> cached]
                 ELSE NoMutation
  /\ UNCHANGED <<serverVars, hubVars, feedVars, cached, pageVars, faults, moves>>

------------------------------------------------------------------------------
Init ==
  /\ server = 0 /\ pending = [k \in Kinds |-> 0]
  /\ clients = {} /\ channels = {} /\ srv = [s \in Sockets |-> "none"]
  /\ buffer = [s \in Sockets |-> <<>>]
  /\ LET s == CHOOSE t \in Sockets : TRUE IN
       /\ sock = [t \in Sockets |-> IF t = s THEN "connecting" ELSE "none"]
       /\ up = [t \in Sockets |-> t = s]
  /\ stopped = [s \in Sockets |-> FALSE]
  /\ timer = FALSE /\ delay = FirstDelay
  /\ page = "list" /\ visible = TRUE
  /\ cached = Nothing /\ invalidated = FALSE
  /\ fetch = Sent /\ mutation = NoMutation
  /\ faults = 0 /\ moves = 0

HubStep ==
  \/ \E k \in Kinds : HandleEvent(k)
  \/ \E s \in Sockets : Register(s) \/ Deliver(s) \/ Leave(s) \/ CloseChannel(s)

FeedStep == \E s \in Sockets : Handshake(s) \/ OnClose(s) \/ Reconnect(s)

CacheStep == ServerAnswers \/ FetchLands \/ FetchRetries

Next ==
  \/ Change \/ HealthUpdate \/ HubStep \/ FeedStep
  \/ \E s \in Sockets : Break(s) \/ TryAgain(s)
  \/ Poll \/ CacheStep \/ FetchFails
  \/ Navigate \/ Crash \/ SetVisible
  \/ Mutate \/ MutationFails \/ OnSuccess

Spec ==
  /\ Init /\ [][Next]_vars
  /\ WF_vars(HubStep) /\ WF_vars(FeedStep) /\ WF_vars(CacheStep) /\ WF_vars(Poll)

------------------------------------------------------------------------------
(* Properties. *)

\* The hub sends under its mutex on every channel of its map; ServeHTTP closes
\* a channel only after taking it out, so no event is sent on a closed one,
\* which would panic (hub.go 47-53, 83-89).
HubSendsOnOpenChannels == clients \subseteq channels

\* A mounted shell has exactly one way to hear of changes: one socket of its
\* own that is connecting or open, or one scheduled reconnection; sockets an
\* earlier shell left behind never schedule another (websocket.ts 15-49).
OneFeed ==
  LET own == {s \in Sockets : sock[s] # "none" /\ ~stopped[s]}
  IN  /\ Mounted => IF timer THEN own = {} ELSE \E s \in own : own = {s}
      /\ ~Mounted => own = {} /\ ~timer

\* When the list a mutation asked for arrives, it shows that mutation; an
\* answer the server gave earlier is never taken for it (torrents.ts 198-362).
MutationIsShown ==
  [][(mutation.st = "settling" /\ mutation.had # Nothing /\ FetchLands) => cached' >= mutation.ver]_vars

\* What the page promises its reader.
View == INSTANCE FreshView WITH view <- cached, watched <- Observed /\ visible
IsFresh == View!Spec
==============================================================================
