-------------------------- MODULE DashboardProofs ---------------------------
(***************************************************************************)
(* The two halves of the dashboard.  First the feed: what LiveFeed keeps   *)
(* for every number of connections, every buffer size and every number of  *)
(* faults, and that it implements FreshView's safety.  Then the list: what *)
(* TorrentBoard shows and where a drag ends, for every set of torrents,    *)
(* every sort key and any number of clicks.                                *)
(***************************************************************************)
EXTENDS LiveFeed, TorrentBoard, FiniteSetTheorems, FunctionTheorems, SequenceTheorems, TLAPS


------------------------------------------------------------------------------
(* Types and bounds, one part of the state at a time. *)

HubTypes ==
  /\ pending \in [Kinds -> Nat]
  /\ clients \subseteq Sockets /\ channels \subseteq Sockets
  /\ srv \in [Sockets -> {"none", "accepted", "serving", "deleted"}]
  /\ buffer \in [Sockets -> Seq(Kinds)]
  /\ \A s \in Sockets : Len(buffer[s]) <= BufferSize
  /\ up \in [Sockets -> BOOLEAN]

FeedTypes ==
  /\ sock \in [Sockets -> {"none", "connecting", "open"}]
  /\ stopped \in [Sockets -> BOOLEAN]
  /\ timer \in BOOLEAN /\ delay \in FirstDelay .. MaxDelay
  /\ page \in {"list", "other", "crashed"} /\ visible \in BOOLEAN

CacheTypes ==
  /\ server \in 0 .. MaxVersion
  /\ cached \in Nothing .. MaxVersion
  /\ fetch \in [st : {"idle", "sent", "answered", "waiting"},
                ver : Nothing .. MaxVersion, tries : 0 .. Retries]
  /\ mutation \in [st : {"idle", "applied", "settling"},
                   ver : 0 .. MaxVersion, had : Nothing .. MaxVersion]

\* Publishing an event leaves the queue of events well formed.
LEMMA PublishKeepsTypes ==
  ASSUME pending \in [Kinds -> Nat], NEW k \in Kinds, Publish(k)
  PROVE  pending' \in [Kinds -> Nat]
  BY DEF Publish

\* The hub drops what does not fit: no buffer grows past sendBufSize (hub.go
\* 47-53).
LEMMA HubTypesHold == Spec => []HubTypes
<1>1. Init => HubTypes
  BY LiveFeedAssumption DEF Init, HubTypes
<1>2. HubTypes /\ [Next]_vars => HubTypes'
  <2> SUFFICES ASSUME HubTypes, [Next]_vars PROVE HubTypes'
    OBVIOUS
  <2> USE DEF HubTypes
  <2>1. ASSUME NEW k \in Kinds, HandleEvent(k) PROVE HubTypes'
    <3>1. /\ pending' = [pending EXCEPT ![k] = @ - 1] /\ pending[k] > 0
          /\ UNCHANGED <<clients, channels, srv, up>>
      BY <2>1 DEF HandleEvent
    <3>2. pending' \in [Kinds -> Nat]
      BY <3>1
    <3>3. buffer' = [s \in Sockets |-> IF s \in clients /\ Len(buffer[s]) < BufferSize
                                       THEN Append(buffer[s], k) ELSE buffer[s]]
      BY <2>1 DEF HandleEvent
    <3>4. ASSUME NEW s \in Sockets
          PROVE  buffer'[s] \in Seq(Kinds) /\ Len(buffer'[s]) <= BufferSize
      <4>1. buffer[s] \in Seq(Kinds) /\ Len(buffer[s]) <= BufferSize /\ Len(buffer[s]) \in Nat
        OBVIOUS
      <4>2. CASE s \in clients /\ Len(buffer[s]) < BufferSize
        <5>1. buffer'[s] = Append(buffer[s], k)
          BY <3>3, <4>2
        <5>2. buffer'[s] \in Seq(Kinds) /\ Len(buffer'[s]) = Len(buffer[s]) + 1
          BY <4>1, <5>1
        <5> QED BY <4>1, <4>2, <5>2, LiveFeedAssumption
      <4>3. CASE ~(s \in clients /\ Len(buffer[s]) < BufferSize)
        BY <3>3, <4>1, <4>3
      <4> QED BY <4>2, <4>3
    <3>5. buffer' \in [Sockets -> Seq(Kinds)]
      BY <3>3, <3>4
    <3> QED BY <3>1, <3>2, <3>4, <3>5
  <2>2. ASSUME NEW s \in Sockets, Deliver(s) PROVE HubTypes'
    <3>1. buffer' = [buffer EXCEPT ![s] = Tail(@)] /\ buffer[s] # <<>>
      BY <2>2 DEF Deliver
    <3>2. Tail(buffer[s]) \in Seq(Kinds) /\ Len(Tail(buffer[s])) <= BufferSize
      BY <3>1, LiveFeedAssumption
    <3>3. /\ buffer' \in [Sockets -> Seq(Kinds)]
          /\ \A t \in Sockets : Len(buffer'[t]) <= BufferSize
      BY <3>1, <3>2
    <3> QED BY <2>2, <3>3 DEF Deliver, serverVars
  <2>3. ASSUME NEW s \in Sockets, CloseChannel(s) PROVE HubTypes'
    BY <2>3, LiveFeedAssumption DEF CloseChannel, serverVars
  <2>4. ASSUME NEW s \in Sockets,
               Register(s) \/ Leave(s) \/ Handshake(s) \/ Break(s)
        PROVE  HubTypes'
    BY <2>4 DEF Register, Leave, Handshake, Break, serverVars
  <2>5. ASSUME NEW s \in Sockets, Reconnect(s) \/ TryAgain(s) PROVE HubTypes'
    BY <2>5 DEF Reconnect, TryAgain, Connect, serverVars
  <2>6. ASSUME Change \/ HealthUpdate \/ Mutate PROVE HubTypes'
    <3>1. Publish("torrent") \/ Publish("health") \/ UNCHANGED pending
      BY <2>6 DEF Change, HealthUpdate, Mutate
    <3>2. pending' \in [Kinds -> Nat]
      BY <3>1, PublishKeepsTypes DEF Kinds
    <3>3. UNCHANGED hubVars
      BY <2>6 DEF Change, HealthUpdate, Mutate
    <3> QED BY <3>2, <3>3 DEF hubVars
  <2>7. CASE UNCHANGED <<pending, hubVars>>
    BY <2>7 DEF hubVars
  <2>8. CASE \/ Poll \/ CacheStep \/ FetchFails \/ Navigate \/ Crash \/ SetVisible
             \/ MutationFails \/ OnSuccess \/ UNCHANGED vars
             \/ \E s \in Sockets : OnClose(s)
    <3>1. UNCHANGED <<pending, hubVars>>
      BY <2>8 DEF Poll, CacheStep, ServerAnswers, FetchLands, FetchRetries, FetchFails, Navigate,
         Crash, SetVisible, MutationFails, OnSuccess, OnClose, vars, serverVars
    <3> QED BY <3>1, <2>7
  <2> QED
    BY <2>1, <2>2, <2>3, <2>4, <2>5, <2>6, <2>8 DEF Next, HubStep, FeedStep
<1> QED BY <1>1, <1>2, PTL DEF Spec

\* The delay doubles up to 30 seconds and starts again at one (websocket.ts
\* 15-49).
LEMMA FeedTypesHold == Spec => []FeedTypes
<1>1. Init => FeedTypes
  <2> SUFFICES ASSUME Init PROVE FeedTypes
    OBVIOUS
  <2>1. PICK s \in Sockets : sock = [t \in Sockets |-> IF t = s THEN "connecting" ELSE "none"]
    BY LiveFeedAssumption DEF Init
  <2>2. sock \in [Sockets -> {"none", "connecting", "open"}]
    BY <2>1
  <2>3. stopped \in [Sockets -> BOOLEAN] /\ timer \in BOOLEAN /\ visible \in BOOLEAN
    BY DEF Init
  <2>4. delay \in FirstDelay .. MaxDelay /\ page = "list"
    BY LiveFeedAssumption DEF Init
  <2> QED BY <2>2, <2>3, <2>4 DEF FeedTypes
<1>2. FeedTypes /\ [Next]_vars => FeedTypes'
  <2> SUFFICES ASSUME FeedTypes, [Next]_vars PROVE FeedTypes'
    OBVIOUS
  <2> USE DEF FeedTypes
  <2>1. ASSUME NEW s \in Sockets, Handshake(s) PROVE FeedTypes'
    BY <2>1, LiveFeedAssumption DEF Handshake, pageVars
  <2>2. ASSUME NEW s \in Sockets, OnClose(s) PROVE FeedTypes'
    <3>1. delay' = delay \/ delay' = Smaller(delay * 2, MaxDelay)
      BY <2>2 DEF OnClose
    <3>2. delay' \in FirstDelay .. MaxDelay
      BY <3>1, LiveFeedAssumption DEF Smaller
    <3>3. timer' \in BOOLEAN
      BY <2>2 DEF OnClose
    <3> QED BY <2>2, <3>2, <3>3 DEF OnClose, pageVars
  <2>3. ASSUME NEW s \in Sockets, Reconnect(s) PROVE FeedTypes'
    BY <2>3 DEF Reconnect, Connect, pageVars
  <2>4. ASSUME NEW s \in Sockets, TryAgain(s) PROVE FeedTypes'
    BY <2>4, LiveFeedAssumption DEF TryAgain, Connect
  <2>5. CASE Crash
    <3>1. stopped' \in [Sockets -> BOOLEAN]
      BY <2>5 DEF Crash
    <3> QED BY <2>5, <3>1 DEF Crash
  <2>6. CASE Navigate \/ SetVisible
    BY <2>6 DEF Navigate, SetVisible, feedVars
  <2>7. CASE UNCHANGED <<feedVars, pageVars>>
    BY <2>7 DEF feedVars, pageVars
  <2>8. ASSUME NEW s \in Sockets,
               Register(s) \/ Deliver(s) \/ Leave(s) \/ CloseChannel(s) \/ Break(s)
        PROVE  UNCHANGED <<feedVars, pageVars>>
    BY <2>8 DEF Register, Deliver, Leave, CloseChannel, Break
  <2>9. ASSUME NEW k \in Kinds, HandleEvent(k) PROVE UNCHANGED <<feedVars, pageVars>>
    BY <2>9 DEF HandleEvent
  <2>10. ASSUME \/ Change \/ HealthUpdate \/ Poll \/ CacheStep \/ FetchFails
                \/ Mutate \/ MutationFails \/ OnSuccess \/ UNCHANGED vars
         PROVE  UNCHANGED <<feedVars, pageVars>>
    BY <2>10 DEF Change, HealthUpdate, Poll, CacheStep, ServerAnswers, FetchLands, FetchRetries,
       FetchFails, Mutate, MutationFails, OnSuccess, vars
  <2> QED
    BY <2>1, <2>2, <2>3, <2>4, <2>5, <2>6, <2>7, <2>8, <2>9, <2>10 DEF Next, HubStep, FeedStep
<1> QED BY <1>1, <1>2, PTL DEF Spec

\* What is in flight is of some version the server had, and a failed request is
\* tried again at most Retries times (App.tsx 18-20).
LEMMA CacheTypesHold == Spec => []CacheTypes
<1>1. Init => CacheTypes
  BY LiveFeedAssumption DEF Init, CacheTypes, Sent, NoMutation, Nothing
<1>2. CacheTypes /\ [Next]_vars => CacheTypes'
  <2> SUFFICES ASSUME CacheTypes, [Next]_vars PROVE CacheTypes'
    OBVIOUS
  <2> USE LiveFeedAssumption DEF CacheTypes, Nothing, Idle, Sent, NoMutation, Refetch
  <2>1. ASSUME UNCHANGED <<server, cached, fetch, mutation>> PROVE CacheTypes'
    BY <2>1
  <2>2. ASSUME NEW s \in Sockets, Deliver(s) PROVE CacheTypes'
    <3>1. /\ server' = server /\ cached' = cached
          /\ fetch' = fetch \/ fetch' = Sent
          /\ mutation' = mutation \/ mutation' = NoMutation
      BY <2>2 DEF Deliver, Invalidate, DropWaiter, serverVars
    <3> QED BY <3>1
  <2>3. ASSUME NEW s \in Sockets, TryAgain(s) PROVE CacheTypes'
    BY <2>3 DEF TryAgain, MountList, serverVars
  <2>4. CASE Change
    BY <2>4 DEF Change, cacheVars
  <2>5. CASE Poll
    BY <2>5 DEF Poll, serverVars
  <2>6. CASE ServerAnswers
    BY <2>6 DEF ServerAnswers, serverVars
  <2>7. CASE FetchLands
    BY <2>7 DEF FetchLands, serverVars
  <2>8. CASE FetchRetries
    BY <2>8 DEF FetchRetries, serverVars
  <2>9. CASE FetchFails
    <3>1. /\ server' = server /\ cached' = cached
          /\ \/ /\ fetch.tries < Retries
                /\ fetch' = [st |-> "waiting", ver |-> Nothing, tries |-> fetch.tries + 1]
             \/ fetch' = Idle
          /\ mutation' = mutation \/ mutation' = NoMutation
      BY <2>9 DEF FetchFails, serverVars
    <3> QED BY <3>1
  <2>10. CASE Navigate \/ SetVisible
    BY <2>10 DEF Navigate, SetVisible, MountList, serverVars
  <2>11. CASE Mutate
    <3>1. /\ server < MaxVersion /\ server' = server + 1
          /\ mutation' = [st |-> "applied", ver |-> server + 1, had |-> Nothing]
          /\ cached' = cached /\ fetch' = fetch
      BY <2>11 DEF Mutate
    <3> QED BY <3>1
  <2>12. CASE MutationFails
    BY <2>12 DEF MutationFails, serverVars
  <2>13. CASE OnSuccess
    <3>1. /\ server' = server /\ cached' = cached
          /\ fetch' = fetch \/ fetch' = Sent
          /\ \/ mutation' = NoMutation
             \/ mutation' = [st |-> "settling", ver |-> mutation.ver, had |-> cached]
      BY <2>13 DEF OnSuccess, Invalidate, Observed, serverVars
    <3> QED BY <3>1
  <2>14. ASSUME NEW s \in Sockets,
                \/ Register(s) \/ Leave(s) \/ CloseChannel(s) \/ Break(s)
                \/ Handshake(s) \/ OnClose(s) \/ Reconnect(s)
         PROVE  CacheTypes'
    BY <2>1, <2>14 DEF Register, Leave, CloseChannel, Break, Handshake, OnClose, Reconnect,
       serverVars, cacheVars
  <2>15. ASSUME NEW k \in Kinds, HandleEvent(k) PROVE CacheTypes'
    BY <2>1, <2>15 DEF HandleEvent, cacheVars
  <2>16. CASE HealthUpdate \/ Crash \/ UNCHANGED vars
    BY <2>1, <2>16 DEF HealthUpdate, Crash, vars, serverVars, cacheVars
  <2> QED
    BY <2>2, <2>3, <2>4, <2>5, <2>6, <2>7, <2>8, <2>9, <2>10, <2>11, <2>12, <2>13, <2>14, <2>15,
       <2>16 DEF Next, HubStep, FeedStep, CacheStep
<1> QED BY <1>1, <1>2, PTL DEF Spec

BoundTypes == faults \in 0 .. MaxFaults /\ moves \in 0 .. MaxMoves

\* The counters that bound the runs.
LEMMA BoundTypesHold == Spec => []BoundTypes
<1>1. Init => BoundTypes
  BY LiveFeedAssumption DEF Init, BoundTypes
<1>2. BoundTypes /\ [Next]_vars => BoundTypes'
  <2> SUFFICES ASSUME BoundTypes, [Next]_vars PROVE BoundTypes'
    OBVIOUS
  <2>1. \/ UNCHANGED <<faults, moves>>
        \/ faults < MaxFaults /\ faults' = faults + 1 /\ moves' = moves
        \/ moves < MaxMoves /\ moves' = moves + 1 /\ faults' = faults
    BY DEF Next, HubStep, FeedStep, CacheStep, HandleEvent, Register, Deliver, Leave, CloseChannel,
       Handshake, OnClose, Reconnect, Break, TryAgain, Change, HealthUpdate, Poll, ServerAnswers,
       FetchLands, FetchRetries, FetchFails, Navigate, Crash, SetVisible, Mutate, MutationFails,
       OnSuccess, vars
  <2> QED BY <2>1, LiveFeedAssumption DEF BoundTypes
<1> QED BY <1>1, <1>2, PTL DEF Spec

FlagTypes == invalidated \in BOOLEAN

\* The mark of a stale list is a flag.
LEMMA FlagTypesHold == Spec => []FlagTypes
<1>1. Init => FlagTypes
  <2> SUFFICES ASSUME Init PROVE FlagTypes
    OBVIOUS
  <2>1. invalidated = FALSE
    BY Zenon DEF Init
  <2> QED BY <2>1 DEF FlagTypes
<1>2. FlagTypes /\ [Next]_vars => FlagTypes'
  <2> SUFFICES ASSUME FlagTypes, [Next]_vars PROVE FlagTypes'
    OBVIOUS
  <2>1. invalidated' = invalidated \/ invalidated' = TRUE \/ invalidated' = FALSE
    BY Zenon DEF Next, HubStep, FeedStep, CacheStep, HandleEvent, Register, Deliver, Leave,
       CloseChannel, Handshake, OnClose, Reconnect, Break, TryAgain, Change, HealthUpdate, Poll,
       ServerAnswers, FetchLands, FetchRetries, FetchFails, Navigate, Crash, SetVisible, Mutate,
       MutationFails, OnSuccess, Invalidate, vars, cacheVars
  <2> QED BY <2>1 DEF FlagTypes
<1> QED BY <1>1, <1>2, PTL DEF Spec

\* Every variable keeps its type, and every buffer, delay, retry and version
\* its limit, for every number of connections and every buffer size.
THEOREM FeedIsTyped == Spec => []TypeOK
<1>1. HubTypes /\ FeedTypes /\ CacheTypes /\ BoundTypes /\ FlagTypes => TypeOK
  BY DEF FlagTypes, HubTypes, FeedTypes, CacheTypes, BoundTypes, TypeOK
<1> QED BY <1>1, HubTypesHold, FeedTypesHold, CacheTypesHold, BoundTypesHold,
    FlagTypesHold, PTL

------------------------------------------------------------------------------
(* The hub. *)

\* Who is in the map has a channel, and only ServeHTTP's last step closes it.
HubInv ==
  /\ clients \subseteq channels
  /\ clients \subseteq Sockets
  /\ srv \in [Sockets -> {"none", "accepted", "serving", "deleted"}]
  /\ sock \in [Sockets -> {"none", "connecting", "open"}]
  /\ \A s \in Sockets :
       /\ srv[s] = "accepted" => s \in channels /\ sock[s] # "connecting"
       /\ s \in clients => srv[s] = "serving" /\ sock[s] # "connecting"
       /\ srv[s] # "none" => sock[s] # "connecting"

\* The hub never sends on a closed channel (hub.go 47-53, 83-89).
THEOREM HubIsSafe == Spec => []HubSendsOnOpenChannels
<1>1. Init => HubInv
  BY LiveFeedAssumption DEF Init, HubInv
<1>2. HubInv /\ [Next]_vars => HubInv'
  <2> SUFFICES ASSUME HubInv, [Next]_vars PROVE HubInv'
    OBVIOUS
  <2> USE DEF HubInv
  <2>1. ASSUME NEW k \in Kinds, HandleEvent(k) PROVE HubInv'
    BY <2>1 DEF HandleEvent, feedVars
  <2>2. ASSUME NEW s \in Sockets, Register(s) PROVE HubInv'
    BY <2>2 DEF Register, feedVars
  <2>3. ASSUME NEW s \in Sockets, Deliver(s) PROVE HubInv'
    BY <2>3 DEF Deliver, feedVars
  <2>4. ASSUME NEW s \in Sockets, Leave(s) PROVE HubInv'
    BY <2>4 DEF Leave, feedVars
  <2>5. ASSUME NEW s \in Sockets, CloseChannel(s) PROVE HubInv'
    BY <2>5 DEF CloseChannel, feedVars
  <2>6. ASSUME NEW s \in Sockets, Handshake(s) PROVE HubInv'
    BY <2>6 DEF Handshake
  <2>7. ASSUME NEW s \in Sockets, OnClose(s) PROVE HubInv'
    BY <2>7 DEF OnClose, hubVars
  <2>8. ASSUME NEW s \in Sockets, Reconnect(s) PROVE HubInv'
    BY <2>8 DEF Reconnect, Connect, Unused
  <2>9. ASSUME NEW s \in Sockets, Break(s) PROVE HubInv'
    BY <2>9 DEF Break, feedVars
  <2>10. ASSUME NEW s \in Sockets, TryAgain(s) PROVE HubInv'
    BY <2>10 DEF TryAgain, Connect, Unused
  <2>11. CASE UNCHANGED <<clients, channels, srv, sock>>
    BY <2>11
  <2>12. CASE \/ Change \/ HealthUpdate \/ Poll \/ CacheStep \/ FetchFails \/ Navigate
             \/ Crash \/ SetVisible \/ Mutate \/ MutationFails \/ OnSuccess \/ UNCHANGED vars
    <3>1. UNCHANGED <<hubVars, sock>>
      BY <2>12 DEF Change, HealthUpdate, Poll, CacheStep, ServerAnswers, FetchLands, FetchRetries,
         FetchFails, Navigate, Crash, SetVisible, Mutate, MutationFails, OnSuccess, vars, feedVars
    <3> QED BY <3>1, <2>11 DEF hubVars
  <2> QED
    BY <2>1, <2>2, <2>3, <2>4, <2>5, <2>6, <2>7, <2>8, <2>9, <2>10, <2>12
       DEF Next, HubStep, FeedStep
<1>3. HubInv => HubSendsOnOpenChannels
  BY DEF HubInv, HubSendsOnOpenChannels
<1> QED BY <1>1, <1>2, <1>3, PTL DEF Spec

------------------------------------------------------------------------------
(* The browser's side of the feed. *)

Own == {s \in Sockets : sock[s] # "none" /\ ~stopped[s]}

\* OneFeed, with the types the argument needs: a socket is only made when the
\* shell has no other, and one that is left behind is marked stopped.
FeedInv ==
  /\ OneFeed
  /\ sock \in [Sockets -> {"none", "connecting", "open"}]
  /\ stopped \in [Sockets -> BOOLEAN]
  /\ timer \in BOOLEAN
  /\ page \in {"list", "other", "crashed"}
  /\ \A s \in Sockets : sock[s] = "none" => ~stopped[s]

\* A mounted shell has one socket of its own or one scheduled reconnection, and
\* an unmounted one has neither (websocket.ts 15-49).
THEOREM FeedIsSingle == Spec => []OneFeed
<1>1. Init => FeedInv
  <2> SUFFICES ASSUME Init PROVE FeedInv
    OBVIOUS
  <2>1. PICK s \in Sockets : sock = [t \in Sockets |-> IF t = s THEN "connecting" ELSE "none"]
    BY LiveFeedAssumption DEF Init
  <2>2. {t \in Sockets : sock[t] # "none" /\ ~stopped[t]} = {s}
    BY <2>1 DEF Init
  <2> QED BY <2>1, <2>2 DEF Init, FeedInv, OneFeed, Mounted
<1>2. FeedInv /\ [Next]_vars => FeedInv'
  <2> SUFFICES ASSUME FeedInv, [Next]_vars PROVE FeedInv'
    OBVIOUS
  <2> USE DEF FeedInv, OneFeed, Mounted
  <2>1. ASSUME NEW s \in Sockets, Handshake(s) PROVE FeedInv'
    <3>1. \A t \in Sockets : (sock'[t] # "none") <=> (sock[t] # "none")
      BY <2>1 DEF Handshake
    <3>2. UNCHANGED <<stopped, timer, page>>
      BY <2>1 DEF Handshake, pageVars
    <3>3. sock' \in [Sockets -> {"none", "connecting", "open"}]
      BY <2>1 DEF Handshake
    <3> QED BY <3>1, <3>2, <3>3
  <2>2. ASSUME NEW s \in Sockets, OnClose(s) PROVE FeedInv'
    <3>1. /\ sock' = [sock EXCEPT ![s] = "none"]
          /\ stopped' = [stopped EXCEPT ![s] = FALSE]
          /\ page' = page /\ sock[s] # "none"
          /\ timer' = (timer \/ ~stopped[s])
      BY <2>2 DEF OnClose, pageVars
    <3>2. Own' = Own \ {s}
      BY <3>1 DEF Own
    <3>3. CASE stopped[s]
      BY <3>1, <3>2, <3>3 DEF Own
    <3>4. CASE ~stopped[s]
      <4>1. Own = {s} /\ ~timer
        BY <3>1, <3>4 DEF Own
      <4> QED BY <3>1, <3>2, <3>4, <4>1 DEF Own
    <3> QED BY <3>3, <3>4
  <2>3. ASSUME NEW s \in Sockets, Reconnect(s) PROVE FeedInv'
    <3>1. /\ timer /\ timer' = FALSE /\ sock[s] = "none"
          /\ sock' = [sock EXCEPT ![s] = "connecting"]
          /\ stopped' = stopped /\ page' = page
      BY <2>3 DEF Reconnect, Connect, Unused, pageVars
    <3>2. Own = {} /\ page # "crashed"
      BY <3>1 DEF Own
    <3>3. Own' = {s}
      BY <3>1, <3>2 DEF Own
    <3> QED BY <3>1, <3>2, <3>3 DEF Own
  <2>4. ASSUME NEW s \in Sockets, TryAgain(s) PROVE FeedInv'
    <3>1. /\ timer' = timer /\ sock[s] = "none"
          /\ sock' = [sock EXCEPT ![s] = "connecting"]
          /\ stopped' = stopped /\ page = "crashed" /\ page' = "list"
      BY <2>4 DEF TryAgain, Connect, Unused
    <3> QED BY <3>1
  <2>5. ASSUME Crash PROVE FeedInv'
    <3>1. /\ timer' = FALSE /\ sock' = sock /\ page' = "crashed"
          /\ stopped' = [s \in Sockets |-> sock[s] # "none"]
      BY <2>5 DEF Crash
    <3> QED BY <3>1
  <2>6. ASSUME Navigate PROVE FeedInv'
    BY <2>6 DEF Navigate, feedVars
  <2>7. ASSUME UNCHANGED <<feedVars, page>> PROVE FeedInv'
    BY <2>7 DEF feedVars
  <2>8. ASSUME NEW s \in Sockets,
               Register(s) \/ Deliver(s) \/ Leave(s) \/ CloseChannel(s) \/ Break(s)
        PROVE  FeedInv'
    BY <2>7, <2>8 DEF Register, Deliver, Leave, CloseChannel, Break, pageVars
  <2>9. ASSUME NEW k \in Kinds, HandleEvent(k) PROVE FeedInv'
    BY <2>7, <2>9 DEF HandleEvent, pageVars
  <2>10. CASE \/ Change \/ HealthUpdate \/ Poll \/ CacheStep \/ FetchFails \/ SetVisible
              \/ Mutate \/ MutationFails \/ OnSuccess \/ UNCHANGED vars
    <3>1. UNCHANGED <<feedVars, page>>
      BY <2>10 DEF Change, HealthUpdate, Poll, CacheStep, ServerAnswers, FetchLands, FetchRetries,
         FetchFails, SetVisible, Mutate, MutationFails, OnSuccess, vars, pageVars
    <3> QED BY <3>1, <2>7
  <2> QED
    BY <2>1, <2>2, <2>3, <2>4, <2>5, <2>6, <2>8, <2>9, <2>10 DEF Next, HubStep, FeedStep
<1>3. FeedInv => OneFeed
  BY DEF FeedInv
<1> QED BY <1>1, <1>2, <1>3, PTL DEF Spec

------------------------------------------------------------------------------
(* The cache. *)

\* The answer on its way is of the present or the past, and no older than the
\* list it will replace; one that a mutation waits for is no older than that.
CacheInv ==
  /\ server \in Nat
  /\ cached \in Nothing .. server
  /\ fetch \in [st : {"idle", "sent", "answered", "waiting"}, ver : Int, tries : Nat]
  /\ mutation \in [st : {"idle", "applied", "settling"}, ver : Nat, had : Int]
  /\ fetch.st = "answered" => fetch.ver \in 0 .. server /\ cached <= fetch.ver
  /\ mutation.st # "idle" => mutation.ver <= server
  /\ mutation.st = "settling" /\ mutation.had # Nothing /\ fetch.st = "answered" =>
       mutation.ver <= fetch.ver
  /\ mutation.st = "settling" /\ mutation.had # Nothing => cached # Nothing

LEMMA CacheInvIsInvariant == Spec => []CacheInv
<1>1. Init => CacheInv
  BY LiveFeedAssumption DEF Init, CacheInv, Sent, NoMutation, Nothing
<1>2. CacheInv /\ [Next]_vars => CacheInv'
  <2> SUFFICES ASSUME CacheInv, [Next]_vars PROVE CacheInv'
    OBVIOUS
  <2> USE LiveFeedAssumption DEF CacheInv, Nothing, Idle, Sent, NoMutation, Refetch
  <2>1. ASSUME UNCHANGED <<server, cacheVars>> PROVE CacheInv'
    BY <2>1 DEF cacheVars
  <2>2. ASSUME NEW s \in Sockets, Deliver(s) PROVE CacheInv'
    <3>1. /\ server' = server /\ cached' = cached
          /\ \/ fetch' = fetch /\ mutation' = mutation
             \/ fetch' = Sent /\ mutation' = NoMutation
             \/ fetch' = Sent /\ mutation' = mutation
      BY <2>2 DEF Deliver, Invalidate, DropWaiter, serverVars
    <3> QED BY <3>1
  <2>3. ASSUME NEW s \in Sockets, TryAgain(s) PROVE CacheInv'
    BY <2>3 DEF TryAgain, MountList, serverVars
  <2>4. CASE Change
    BY <2>4 DEF Change, cacheVars
  <2>5. CASE Poll
    BY <2>5 DEF Poll, serverVars
  <2>6. CASE ServerAnswers
    BY <2>6 DEF ServerAnswers, serverVars
  <2>7. CASE FetchLands
    BY <2>7 DEF FetchLands, serverVars
  <2>8. CASE FetchRetries
    BY <2>8 DEF FetchRetries, serverVars
  <2>9. CASE FetchFails
    <3>1. /\ server' = server /\ cached' = cached
          /\ \/ /\ fetch' = [st |-> "waiting", ver |-> Nothing, tries |-> fetch.tries + 1]
                /\ mutation' = mutation
             \/ fetch' = Idle /\ mutation' = NoMutation
             \/ fetch' = Idle /\ mutation' = mutation
      BY <2>9 DEF FetchFails, serverVars
    <3> QED BY <3>1
  <2>10. CASE Navigate
    BY <2>10 DEF Navigate, MountList, serverVars
  <2>11. CASE SetVisible
    BY <2>11 DEF SetVisible, MountList, serverVars
  <2>12. CASE Mutate
    BY <2>12 DEF Mutate
  <2>13. CASE MutationFails
    BY <2>13 DEF MutationFails, serverVars
  <2>14. CASE OnSuccess
    <3>1. /\ server' = server /\ cached' = cached /\ mutation.ver <= server
          /\ \/ mutation' = NoMutation
             \/ mutation' = [st |-> "settling", ver |-> mutation.ver, had |-> cached]
          /\ \/ fetch' = fetch /\ (mutation' = NoMutation \/ cached = Nothing)
             \/ fetch' = Sent
      BY <2>14 DEF OnSuccess, Invalidate, Observed, serverVars
    <3>2. CASE mutation' = NoMutation
      BY <3>1, <3>2
    <3>3. CASE mutation' = [st |-> "settling", ver |-> mutation.ver, had |-> cached]
      BY <3>1, <3>3
    <3> QED BY <3>1, <3>2, <3>3
  <2>15. ASSUME NEW s \in Sockets,
                \/ Register(s) \/ Leave(s) \/ CloseChannel(s) \/ Break(s)
                \/ Handshake(s) \/ OnClose(s) \/ Reconnect(s)
         PROVE  CacheInv'
    BY <2>1, <2>15 DEF Register, Leave, CloseChannel, Break, Handshake, OnClose, Reconnect, serverVars
  <2>16. ASSUME NEW k \in Kinds, HandleEvent(k) PROVE CacheInv'
    BY <2>1, <2>16 DEF HandleEvent
  <2>17. CASE HealthUpdate \/ Crash \/ UNCHANGED vars
    BY <2>1, <2>17 DEF HealthUpdate, Crash, vars, serverVars
  <2> QED
    BY <2>2, <2>3, <2>4, <2>5, <2>6, <2>7, <2>8, <2>9, <2>10, <2>11, <2>12, <2>13, <2>14, <2>15,
       <2>16, <2>17 DEF Next, HubStep, FeedStep, CacheStep
<1> QED BY <1>1, <1>2, PTL DEF Spec

\* The list that arrives for a mutation shows the mutation (torrents.ts
\* 198-362), however the server's changes and the polls interleave.
THEOREM MutationsAreShown == Spec => MutationIsShown
<1>1. CacheInv => ((mutation.st = "settling" /\ mutation.had # Nothing /\ FetchLands)
                    => cached' >= mutation.ver)
  BY DEF CacheInv, FetchLands
<1> QED BY <1>1, CacheInvIsInvariant, PTL DEF MutationIsShown

------------------------------------------------------------------------------
(* The refinement. *)

ViewUnchanged == UNCHANGED <<server, cached, page, visible>>

\* A step that touches none of the view's variables is a stutter of FreshView.
LEMMA StutterOfView == ViewUnchanged => UNCHANGED View!fvars
  BY DEF ViewUnchanged, View!fvars, Observed

\* The page shows states the server was in, and never an older one than before:
\* every step of the detailed module is a step of FreshView or leaves it alone.
\* (FreshView's fairness is checked by TLC only.)
THEOREM ImplementsFreshView == Spec => View!Safety
<1>1. Init => View!Init
  BY DEF Init, View!Init, View!Nothing, Nothing, Observed
<1>2. CacheInv /\ [Next]_vars => [View!Next]_(View!fvars)
  <2> SUFFICES ASSUME CacheInv, [Next]_vars PROVE View!Next \/ UNCHANGED View!fvars
    OBVIOUS
  <2>1. ASSUME server < MaxVersion, server' = server + 1, UNCHANGED <<cached, page, visible>>
        PROVE  View!Change
    BY <2>1 DEF View!Change, Observed
  <2>2. ASSUME UNCHANGED <<server, cached>> PROVE View!Look
    BY <2>2 DEF View!Look
  <2>3. CASE Change \/ Mutate
    BY <2>1, <2>3 DEF Change, Mutate, View!Next, cacheVars, pageVars
  <2>4. CASE FetchLands
    <3>1. cached' \in cached .. server /\ cached' # Nothing /\ UNCHANGED <<server, page, visible>>
      BY <2>4 DEF FetchLands, CacheInv, Nothing, serverVars, pageVars
    <3>2. View!Refresh
      BY <3>1 DEF View!Refresh, View!Nothing, Nothing, Observed
    <3> QED BY <3>2 DEF View!Next
  <2>5. CASE Navigate \/ Crash \/ SetVisible \/ \E s \in Sockets : TryAgain(s)
    <3>1. UNCHANGED <<server, cached>>
      BY <2>5 DEF Navigate, Crash, SetVisible, TryAgain, serverVars, cacheVars
    <3> QED BY <3>1, <2>2 DEF View!Next
  <2>6. ASSUME NEW s \in Sockets,
               \/ Register(s) \/ Deliver(s) \/ Leave(s) \/ CloseChannel(s) \/ Break(s)
               \/ Handshake(s) \/ OnClose(s) \/ Reconnect(s)
        PROVE  ViewUnchanged
    BY <2>6 DEF Register, Deliver, Leave, CloseChannel, Break, Handshake, OnClose, Reconnect,
       ViewUnchanged, serverVars, cacheVars, pageVars
  <2>7. ASSUME NEW k \in Kinds, HandleEvent(k) PROVE ViewUnchanged
    BY <2>7 DEF HandleEvent, ViewUnchanged, cacheVars, pageVars
  <2>8. ASSUME \/ HealthUpdate \/ Poll \/ ServerAnswers \/ FetchRetries \/ FetchFails
               \/ MutationFails \/ OnSuccess \/ UNCHANGED vars
        PROVE  ViewUnchanged
    BY <2>8 DEF HealthUpdate, Poll, ServerAnswers, FetchRetries, FetchFails, MutationFails,
       OnSuccess, ViewUnchanged, vars, serverVars, cacheVars, pageVars
  <2> QED
    BY <2>3, <2>4, <2>5, <2>6, <2>7, <2>8, StutterOfView DEF Next, HubStep, FeedStep, CacheStep
<1> QED BY <1>1, <1>2, CacheInvIsInvariant, PTL DEF Spec, View!Safety

------------------------------------------------------------------------------
(* The list: sorting and filtering only rearrange. *)

\* The order of the keys, ties broken by the index, is a total order.
LEMMA BeforeIsTotal ==
  ASSUME NEW I \in SUBSET Int, NEW key \in [I -> Int]
  PROVE  /\ \A i \in I : Before(key, i, i)
         /\ \A i, j \in I : Before(key, i, j) \/ Before(key, j, i)
         /\ \A i, j \in I : Before(key, i, j) /\ Before(key, j, i) => i = j
         /\ \A i, j, k \in I : Before(key, i, j) /\ Before(key, j, k) => Before(key, i, k)
BY DEF Before

\* Places are numbered from 1 without a gap or a tie, in the order of the keys.
LEMMA PlacesAreOrdered ==
  ASSUME NEW I \in SUBSET Int, IsFiniteSet(I), NEW key \in [I -> Int]
  PROVE  /\ \A i \in I : Place(I, key, i) \in 1 .. Cardinality(I)
         /\ \A i, j \in I : Place(I, key, i) <= Place(I, key, j) <=> Before(key, i, j)
<1>. DEFINE upTo(i) == {j \in I : Before(key, j, i)}
<1>1. ASSUME NEW i \in I
      PROVE  /\ i \in upTo(i) /\ upTo(i) \subseteq I /\ IsFiniteSet(upTo(i))
             /\ Place(I, key, i) = Cardinality(upTo(i)) /\ Cardinality(upTo(i)) \in Nat
  <2>1. i \in upTo(i) /\ upTo(i) \subseteq I
    BY BeforeIsTotal
  <2>2. IsFiniteSet(upTo(i)) /\ Cardinality(upTo(i)) \in Nat
    BY <2>1, FS_Subset, FS_CardinalityType
  <2>. QED
    BY <2>1, <2>2 DEF Place
<1>2. ASSUME NEW i \in I, NEW j \in I, Before(key, i, j)
      PROVE  Cardinality(upTo(i)) <= Cardinality(upTo(j))
  <2>1. upTo(i) \subseteq upTo(j)
    BY <1>2, BeforeIsTotal
  <2>. QED
    BY <1>1, <2>1, FS_Subset
<1>3. ASSUME NEW i \in I, NEW j \in I, ~Before(key, i, j)
      PROVE  Cardinality(upTo(j)) < Cardinality(upTo(i))
  <2>1. Before(key, j, i)
    BY <1>3, BeforeIsTotal
  <2>2. upTo(j) \subseteq upTo(i)
    BY <2>1, BeforeIsTotal
  <2>3. i \in upTo(i) /\ i \notin upTo(j)
    BY <1>1, <1>3
  <2>4. upTo(j) # upTo(i)
    BY <2>3
  <2>5. /\ Cardinality(upTo(j)) <= Cardinality(upTo(i))
        /\ Cardinality(upTo(j)) # Cardinality(upTo(i))
    BY <1>1, <2>2, <2>4, FS_Subset
  <2>. QED
    BY <1>1, <2>5
<1>4. ASSUME NEW i \in I PROVE Place(I, key, i) \in 1 .. Cardinality(I)
  <2>1. Cardinality(upTo(i)) <= Cardinality(I) /\ Cardinality(I) \in Nat
    BY <1>1, FS_Subset, FS_CardinalityType
  <2>2. {i} \subseteq upTo(i) /\ Cardinality({i}) = 1
    BY <1>1, FS_Singleton
  <2>3. 1 <= Cardinality(upTo(i))
    BY <1>1, <2>2, FS_Subset
  <2>. QED
    BY <1>1, <2>1, <2>3
<1>. HIDE DEF upTo
<1>5. ASSUME NEW i \in I, NEW j \in I
      PROVE  Place(I, key, i) <= Place(I, key, j) <=> Before(key, i, j)
  BY <1>1, <1>2, <1>3, <1>5
<1>. QED
  BY <1>4, <1>5

\* Arranging moves the rows, it neither loses nor repeats one.
LEMMA ArrangeMoves ==
  ASSUME NEW s, NEW I \in SUBSET Int, IsFiniteSet(I), NEW key \in [I -> Int]
  PROVE  \E at \in Bijection(1 .. Cardinality(I), I) :
           /\ Arrange(s, I, key) = [p \in 1 .. Cardinality(I) |-> s[at[p]]]
           /\ \A p \in 1 .. Cardinality(I) : Place(I, key, at[p]) = p
<1>. DEFINE n == Cardinality(I)
            place == [i \in I |-> Place(I, key, i)]
            at == [p \in 1 .. n |-> CHOOSE i \in I : Place(I, key, i) = p]
<1>1. /\ place \in [I -> 1 .. n]
      /\ \A i, j \in I : place[i] = place[j] => i = j
  <2>1. \A i \in I : Place(I, key, i) \in 1 .. n
    BY PlacesAreOrdered
  <2>2. \A i, j \in I : place[i] = place[j] => Before(key, i, j) /\ Before(key, j, i)
    BY <2>1, PlacesAreOrdered
  <2>. QED
    BY <2>1, <2>2, BeforeIsTotal
<1>2. place \in Injection(I, 1 .. n)
  BY <1>1, Fun_IsInj
<1>3. n \in Nat /\ IsFiniteSet(1 .. n) /\ Cardinality(1 .. n) = n
  BY FS_CardinalityType, FS_Interval
<1>4. place \in Surjection(I, 1 .. n)
  BY <1>2, <1>3, FS_Injection
<1>5. \A p \in 1 .. n : \E i \in I : Place(I, key, i) = p
  <2>1. \A p \in 1 .. n : \E i \in I : place[i] = p
    <3>. HIDE DEF place, n
    <3>. QED
      BY <1>4, Fun_SurjectionProperties
  <2>. QED
    BY <2>1
<1>6. ASSUME NEW p \in 1 .. n
      PROVE  at[p] \in I /\ Place(I, key, at[p]) = p
  BY <1>5
<1>7. at \in [1 .. n -> I]
  BY <1>6
<1>8. \A p, q \in 1 .. n : at[p] = at[q] => p = q
  BY <1>6
<1>9. ASSUME NEW i \in I PROVE \E p \in 1 .. n : at[p] = i
  <2>1. place[i] \in 1 .. n /\ Place(I, key, at[place[i]]) = place[i]
    BY <1>1, <1>6
  <2>2. at[place[i]] \in I /\ place[at[place[i]]] = place[i]
    BY <1>6, <2>1
  <2>. QED
    BY <1>1, <2>1, <2>2
<1>10. at \in Bijection(1 .. n, I)
  BY <1>7, <1>8, <1>9, Fun_IsBij
<1>11. Arrange(s, I, key) = [p \in 1 .. n |-> s[at[p]]]
  BY DEF Arrange
<1>. QED
  BY <1>6, <1>10, <1>11

\* A bijection maps into its range, one to one, and reaches all of it.
LEMMA BijectionMaps ==
  ASSUME NEW S, NEW T, NEW f \in Bijection(S, T)
  PROVE  /\ \A a \in S : f[a] \in T
         /\ \A a, b \in S : f[a] = f[b] => a = b
         /\ \A y \in T : \E a \in S : f[a] = y
<1>1. f \in [S -> T]
  BY Fun_BijectionProperties
<1>2. \A a, b \in S : f[a] = f[b] => a = b
  BY Fun_BijectionProperties
<1>3. \A y \in T : \E a \in S : f[a] = y
  BY Fun_BijectionProperties
<1>. QED
  BY <1>1, <1>2, <1>3

\* t is the rows of s at the indices I, each once, in some order.
Rearranges(t, s, I) ==
  \E at \in Bijection(1 .. Cardinality(I), I) : t = [p \in 1 .. Cardinality(I) |-> s[at[p]]]

\* Arranging the rows at the indices I is such a rearrangement,
LEMMA ArrangeRearranges ==
  ASSUME NEW s, NEW I \in SUBSET Int, IsFiniteSet(I), NEW key \in [I -> Int]
  PROVE  Rearranges(Arrange(s, I, key), s, I)
BY ArrangeMoves DEF Rearranges

\* and so is arranging what was rearranged already.
LEMMA RearrangedTwice ==
  ASSUME NEW s, NEW t, NEW u, NEW I, IsFiniteSet(I),
         Rearranges(t, s, I), Rearranges(u, t, DOMAIN t)
  PROVE  Rearranges(u, s, I)
<1>. DEFINE n == Cardinality(I)
<1>1. PICK at \in Bijection(1 .. n, I) : t = [p \in 1 .. n |-> s[at[p]]]
  BY DEF Rearranges
<1>2. DOMAIN t = 1 .. n /\ n \in Nat /\ Cardinality(1 .. n) = n
  BY <1>1, FS_CardinalityType, FS_Interval
<1>3. PICK by \in Bijection(1 .. n, 1 .. n) : u = [p \in 1 .. n |-> t[by[p]]]
  BY <1>2 DEF Rearranges
<1>4. [p \in 1 .. n |-> at[by[p]]] \in Bijection(1 .. n, I)
  BY Fun_BijTransitive
<1>5. \A p \in 1 .. n : by[p] \in 1 .. n
  BY BijectionMaps
<1>6. u = [p \in 1 .. n |-> s[[q \in 1 .. n |-> at[by[q]]][p]]]
  BY <1>1, <1>3, <1>5
<1>. QED
  BY <1>4, <1>6 DEF Rearranges

\* A rearrangement has the rows it started from, and as many.
LEMMA RearrangedRows ==
  ASSUME NEW s, NEW t, NEW I, IsFiniteSet(I), Rearranges(t, s, I),
         NEW S, \A i \in I : s[i] \in S
  PROVE  /\ t \in Seq(S) /\ Len(t) = Cardinality(I) /\ DOMAIN t = 1 .. Cardinality(I)
         /\ Range(t) = {s[i] : i \in I}
<1>. DEFINE n == Cardinality(I)
<1>1. PICK at \in Bijection(1 .. n, I) : t = [p \in 1 .. n |-> s[at[p]]]
  BY DEF Rearranges
<1>2. n \in Nat
  BY FS_CardinalityType
<1>3. /\ \A p \in 1 .. n : at[p] \in I
      /\ \A i \in I : \E p \in 1 .. n : at[p] = i
  <2>. DEFINE places == 1 .. n
  <2>1. at \in Bijection(places, I)
    BY <1>1
  <2>. HIDE DEF places
  <2>2. /\ \A p \in places : at[p] \in I
        /\ \A i \in I : \E p \in places : at[p] = i
    BY <2>1, BijectionMaps
  <2>. QED
    BY <2>2 DEF places
<1>4. t \in [1 .. n -> S]
  BY <1>1, <1>3
<1>5. t \in Seq(S)
  BY <1>2, <1>4
<1>6. DOMAIN t = 1 .. n /\ Len(t) = n
  BY <1>2, <1>4, <1>5, LenProperties
<1>7. Range(t) = {s[i] : i \in I}
  BY <1>1, <1>3 DEF Range
<1>. QED
  BY <1>5, <1>6, <1>7

\* No two rows are of the same torrent.
OneRowEach(rows) == \A i, j \in DOMAIN rows : rows[i].hash = rows[j].hash => i = j

\* A rearrangement of a list with one row each has one row each.
LEMMA RearrangedOneRowEach ==
  ASSUME NEW s, NEW t, NEW I \in SUBSET DOMAIN s, Rearranges(t, s, I), OneRowEach(s)
  PROVE  OneRowEach(t)
<1>. DEFINE n == Cardinality(I)
<1>1. PICK at \in Bijection(1 .. n, I) : t = [p \in 1 .. n |-> s[at[p]]]
  BY DEF Rearranges
<1>2. /\ \A p \in 1 .. n : at[p] \in I
      /\ \A p, q \in 1 .. n : at[p] = at[q] => p = q
  BY BijectionMaps
<1>3. ASSUME NEW p \in 1 .. n, NEW q \in 1 .. n, t[p].hash = t[q].hash
      PROVE  p = q
  BY <1>1, <1>2, <1>3 DEF OneRowEach
<1>. QED
  BY <1>1, <1>3 DEF OneRowEach

------------------------------------------------------------------------------
(* The drag: arrayMove. *)

\* Where the row at place p of a moved array was before.
CameFrom(from, to, p) ==
  IF p = to THEN from
  ELSE LET q == IF p < to THEN p ELSE p - 1 IN IF q < from THEN q ELSE q + 1

\* No two rows came from one place.
LEMMA CameFromOnce ==
  ASSUME NEW n \in Nat, NEW from \in 1 .. n, NEW to \in 1 .. n
  PROVE  /\ \A p \in 1 .. n : CameFrom(from, to, p) \in 1 .. n
         /\ \A p, q \in 1 .. n : CameFrom(from, to, p) = CameFrom(from, to, q) => p = q
BY DEF CameFrom

LEMMA ArrayMoveMoves ==
  ASSUME NEW S, NEW s \in Seq(S), NEW from \in 1 .. Len(s), NEW to \in 1 .. Len(s)
  PROVE  /\ ArrayMove(s, from, to) \in Seq(S)
         /\ Len(ArrayMove(s, from, to)) = Len(s)
         /\ \A p \in 1 .. Len(s) : ArrayMove(s, from, to)[p] = s[CameFrom(from, to, p)]
<1>. DEFINE n == Len(s)
            less == RemoveAt(s, from)
<1>1. n \in Nat /\ \A i \in 1 .. n : s[i] \in S
  BY LenProperties
<1>2. /\ less \in Seq(S) /\ Len(less) = n - 1
      /\ \A p \in 1 .. n - 1 : less[p] = s[IF p < from THEN p ELSE p + 1]
  <2>. DEFINE a == SubSeq(s, 1, from - 1)
              b == SubSeq(s, from + 1, n)
  <2>1. a \in Seq(S) /\ Len(a) = from - 1 /\ \A p \in 1 .. from - 1 : a[p] = s[p]
    BY <1>1, SubSeqProperties
  <2>2. b \in Seq(S) /\ Len(b) = n - from /\ \A p \in 1 .. n - from : b[p] = s[from + p]
    BY <1>1, SubSeqProperties
  <2>3. less = a \o b
    BY DEF RemoveAt
  <2>. HIDE DEF a, b, less
  <2>4. /\ less \in Seq(S) /\ Len(less) = n - 1
        /\ \A p \in 1 .. n - 1 : less[p] = IF p <= from - 1 THEN a[p] ELSE b[p - (from - 1)]
    <3>1. /\ a \o b \in Seq(S) /\ Len(a \o b) = Len(a) + Len(b)
          /\ \A p \in 1 .. Len(a) + Len(b) :
               (a \o b)[p] = IF p <= Len(a) THEN a[p] ELSE b[p - Len(a)]
      BY <2>1, <2>2, ConcatProperties
    <3>2. Len(a) + Len(b) = n - 1
      BY <1>1, <2>1, <2>2
    <3>. QED
      BY <2>1, <2>3, <3>1, <3>2
  <2>5. ASSUME NEW p \in 1 .. n - 1 PROVE less[p] = s[IF p < from THEN p ELSE p + 1]
    <3>1. CASE p < from
      BY <1>1, <2>1, <2>4, <3>1
    <3>2. CASE ~(p < from)
      <4>1. p - (from - 1) \in 1 .. n - from /\ from + (p - (from - 1)) = p + 1
        BY <1>1, <3>2
      <4>. QED
        BY <1>1, <2>2, <2>4, <3>2, <4>1
    <3>. QED
      BY <3>1, <3>2
  <2>. QED
    BY <2>4, <2>5
<1>. DEFINE t == InsertAt(less, to, s[from])
<1>. HIDE DEF less
<1>3. /\ t \in Seq(S) /\ Len(t) = n
      /\ \A p \in 1 .. n : t[p] = IF p = to THEN s[from] ELSE less[IF p < to THEN p ELSE p - 1]
  <2>. DEFINE a == SubSeq(less, 1, to - 1)
              b == SubSeq(less, to, n - 1)
              c == <<s[from]>>
  <2>0. \A i \in 1 .. n - 1 : less[i] \in S
    BY <1>2, LenProperties
  <2>1. a \in Seq(S) /\ Len(a) = to - 1 /\ \A p \in 1 .. to - 1 : a[p] = less[p]
    BY <1>1, <2>0, SubSeqProperties
  <2>2. b \in Seq(S) /\ Len(b) = n - to /\ \A p \in 1 .. n - to : b[p] = less[to + p - 1]
    <3>1. /\ b \in Seq(S)
          /\ Len(b) = IF to <= n - 1 THEN (n - 1) - to + 1 ELSE 0
          /\ \A p \in 1 .. (n - 1) - to + 1 : b[p] = less[to + p - 1]
      BY <1>1, <2>0, SubSeqProperties
    <3>. QED
      BY <1>1, <3>1
  <2>3. c \in Seq(S) /\ Len(c) = 1 /\ c[1] = s[from]
    BY <1>1
  <2>4. t = (a \o c) \o b
    BY <1>2 DEF InsertAt
  <2>. HIDE DEF a, b, c, t
  <2>5. /\ a \o c \in Seq(S) /\ Len(a \o c) = to
        /\ \A p \in 1 .. to : (a \o c)[p] = IF p <= to - 1 THEN a[p] ELSE c[p - (to - 1)]
    <3>1. /\ a \o c \in Seq(S) /\ Len(a \o c) = Len(a) + Len(c)
          /\ \A p \in 1 .. Len(a) + Len(c) :
               (a \o c)[p] = IF p <= Len(a) THEN a[p] ELSE c[p - Len(a)]
      BY <2>1, <2>3, ConcatProperties
    <3>2. Len(a) + Len(c) = to
      BY <2>1, <2>3
    <3>. QED
      BY <2>1, <3>1, <3>2
  <2>6. /\ t \in Seq(S) /\ Len(t) = n
        /\ \A p \in 1 .. n : t[p] = IF p <= to THEN (a \o c)[p] ELSE b[p - to]
    <3>. DEFINE d == a \o c
    <3>1. d \in Seq(S) /\ Len(d) = to
      BY <2>5
    <3>. HIDE DEF d
    <3>2. /\ d \o b \in Seq(S) /\ Len(d \o b) = Len(d) + Len(b)
          /\ \A p \in 1 .. Len(d) + Len(b) :
               (d \o b)[p] = IF p <= Len(d) THEN d[p] ELSE b[p - Len(d)]
      BY <2>2, <3>1, ConcatProperties
    <3>3. Len(d) + Len(b) = n
      BY <1>1, <2>2, <3>1
    <3>4. t = d \o b
      BY <2>4 DEF d
    <3>5. /\ t \in Seq(S) /\ Len(t) = n
          /\ \A p \in 1 .. n : t[p] = IF p <= to THEN d[p] ELSE b[p - to]
      BY <3>1, <3>2, <3>3, <3>4
    <3>. QED
      BY <3>5 DEF d
  <2>7. ASSUME NEW p \in 1 .. n
        PROVE  t[p] = IF p = to THEN s[from] ELSE less[IF p < to THEN p ELSE p - 1]
    <3>1. CASE p < to
      BY <1>1, <2>1, <2>5, <2>6, <3>1
    <3>2. CASE p = to
      <4>1. p - (to - 1) = 1 /\ p \in 1 .. to
        BY <1>1, <3>2
      <4>. QED
        BY <1>1, <2>3, <2>5, <2>6, <3>2, <4>1
    <3>3. CASE p > to
      <4>1. p - to \in 1 .. n - to /\ to + (p - to) - 1 = p - 1
        BY <1>1, <3>3
      <4>. QED
        BY <1>1, <2>2, <2>6, <3>3, <4>1
    <3>. QED
      BY <1>1, <3>1, <3>2, <3>3
  <2>. QED
    BY <2>6, <2>7
<1>4. t = ArrayMove(s, from, to)
  BY DEF ArrayMove, less
<1>. HIDE DEF t
<1>5. ASSUME NEW p \in 1 .. n PROVE t[p] = s[CameFrom(from, to, p)]
  <2>1. CASE p = to
    BY <1>3, <2>1 DEF CameFrom
  <2>2. CASE p # to
    <3>. DEFINE q == IF p < to THEN p ELSE p - 1
    <3>1. q \in 1 .. n - 1 /\ t[p] = less[q]
      BY <1>1, <1>3, <2>2
    <3>2. less[q] = s[IF q < from THEN q ELSE q + 1]
      BY <1>2, <3>1
    <3>. QED
      BY <2>2, <3>1, <3>2 DEF CameFrom
  <2>. QED
    BY <2>1, <2>2
<1>. QED
  BY <1>3, <1>4, <1>5

------------------------------------------------------------------------------
(* What the dashboard shows. *)

BoardTypes ==
  /\ DOMAIN managed \subseteq Hashes /\ \A h \in DOMAIN managed : managed[h] \in Flags
  /\ prio \in [Hashes -> Nat]
  /\ orders \subseteq [order : Seq(Hashes), next : Nat]
  /\ \A o \in orders : o.next \in 1 .. Len(o.order)
  /\ ranks \subseteq [hash : Hashes, priority : 1 .. Cardinality(Hashes)]
  /\ list \in Seq(TorrentInfo) /\ OneRowEach(list)
  /\ pills \subseteq StatusFilters /\ pills # {}
  /\ "active" \in pills => pills = {"active"}
  /\ query \in Queries /\ sortField \in SortFields
  /\ localOrder \in Seq(Hashes)

\* Whatever its flags, a torrent has one of the statuses the server knows.
LEMMA InfoIsTyped ==
  ASSUME NEW h \in Hashes, NEW m \in Flags
  PROVE  Info(h, m) \in TorrentInfo /\ Info(h, m).hash = h
<1>. DEFINE status == StatusOf(m)
            stalled == m.idle /\ StatusOf(m) = "downloading"
<1>1. status \in StatusFilters \ {"active", "stalled"}
  <2>1. m.ready \in BOOLEAN /\ m.complete \in BOOLEAN /\ m.paused \in BOOLEAN
    BY DEF Flags
  <2>2. CASE ~m.ready
    BY <2>2 DEF StatusOf, StatusFilters
  <2>3. CASE m.ready /\ m.complete /\ m.paused
    BY <2>3 DEF StatusOf, StatusFilters
  <2>4. CASE m.ready /\ m.complete /\ ~m.paused
    BY <2>4 DEF StatusOf, StatusFilters
  <2>5. CASE m.ready /\ ~m.complete /\ m.paused
    BY <2>5 DEF StatusOf, StatusFilters
  <2>6. CASE m.ready /\ ~m.complete /\ ~m.paused
    BY <2>6 DEF StatusOf, StatusFilters
  <2>. QED
    BY <2>1, <2>2, <2>3, <2>4, <2>5, <2>6
<1>2. m.stalledAt \in BOOLEAN
  BY DEF Flags
<1>3. stalled \in BOOLEAN
  OBVIOUS
<1>4. Info(h, m) = [hash |-> h, status |-> status, stalledAt |-> m.stalledAt, stalled |-> stalled]
  BY DEF Info
<1>. HIDE DEF status, stalled
<1>. QED
  BY <1>1, <1>2, <1>3, <1>4 DEF TorrentInfo

SessionTypes ==
  /\ DOMAIN managed \subseteq Hashes /\ \A h \in DOMAIN managed : managed[h] \in Flags
  /\ prio \in [Hashes -> Nat]

\* The rows of the torrents the session has, and their ranks.
There == {i \in DOMAIN Rows : Rows[i] \in DOMAIN managed}
Rank == [i \in There |-> prio[Rows[i]]]

\* The ranks are numbers, of finitely many rows.
LEMMA RankIsTyped ==
  ASSUME SessionTypes
  PROVE  There \in SUBSET Int /\ IsFiniteSet(There) /\ Rank \in [There -> Int]
<1>1. DOMAIN Rows = 1 .. Len(Rows) /\ Len(Rows) \in Nat /\ \A i \in DOMAIN Rows : Rows[i] \in Hashes
  BY BoardAssumption, LenProperties
<1>2. There \subseteq 1 .. Len(Rows) /\ IsFiniteSet(1 .. Len(Rows))
  BY <1>1, FS_Interval DEF There
<1>3. There \in SUBSET Int /\ IsFiniteSet(There)
  <2>1. There \in SUBSET (1 .. Len(Rows)) /\ There \in SUBSET Int
    BY <1>2
  <2>2. IsFiniteSet(There)
    BY <1>2, <2>1, FS_Subset
  <2>. QED
    BY <2>1, <2>2
<1>4. \A i \in There : prio[Rows[i]] \in Int
  BY <1>1 DEF There, SessionTypes
<1>. QED
  BY <1>3, <1>4 DEF Rank

\* Session.List arranges those rows by their ranks.
LEMMA ServerOrderIs == ServerOrder = Arrange(Rows, There, Rank)
BY DEF ServerOrder, There, Rank

\* The list as the server sends it: one row for each of its torrents.
LEMMA ServerListIsTyped ==
  ASSUME SessionTypes
  PROVE  ServerList \in Seq(TorrentInfo) /\ OneRowEach(ServerList)
<1>1. PICK at \in Bijection(1 .. Cardinality(There), There) :
        ServerOrder = [p \in 1 .. Cardinality(There) |-> Rows[at[p]]]
  BY RankIsTyped, ServerOrderIs, ArrangeMoves
<1>. DEFINE n == Cardinality(There)
<1>2. n \in Nat
  BY RankIsTyped, FS_CardinalityType
<1>. HIDE DEF n
<1>3. /\ \A p \in 1 .. n : at[p] \in There
      /\ \A p, q \in 1 .. n : at[p] = at[q] => p = q
  BY BijectionMaps DEF n
<1>4. /\ \A p \in 1 .. n : ServerOrder[p] \in DOMAIN managed /\ ServerOrder[p] \in Hashes
      /\ \A p, q \in 1 .. n : ServerOrder[p] = ServerOrder[q] => p = q
  BY <1>1, <1>3, BoardAssumption DEF There, SessionTypes, n
<1>5. DOMAIN ServerOrder = 1 .. n
  BY <1>1 DEF n
<1>6. \A p \in 1 .. n :
        /\ Info(ServerOrder[p], managed[ServerOrder[p]]) \in TorrentInfo
        /\ Info(ServerOrder[p], managed[ServerOrder[p]]).hash = ServerOrder[p]
  BY <1>4, InfoIsTyped DEF SessionTypes
<1>7. /\ DOMAIN ServerList = 1 .. n
      /\ \A p \in 1 .. n : ServerList[p] = Info(ServerOrder[p], managed[ServerOrder[p]])
  BY <1>5 DEF ServerList
<1>8. ServerList \in [1 .. n -> TorrentInfo]
  BY <1>5, <1>6 DEF ServerList
<1>9. OneRowEach(ServerList)
  BY <1>4, <1>6, <1>7 DEF OneRowEach
<1>. QED
  BY <1>2, <1>8, <1>9

\* However it is sorted and dragged, the page shows the matching rows, each once.
LEMMA FilteredRearranges ==
  ASSUME BoardTypes
  PROVE  /\ Rearranges(Filtered, list, Shown)
         /\ Shown \in SUBSET DOMAIN list /\ IsFiniteSet(Shown)
         /\ \A i \in Shown : list[i] \in TorrentInfo
<1>. DEFINE rows == Keep(list, Shown)
            sorted == SortTorrents(rows, sortField)
<1>1. /\ list \in Seq(TorrentInfo) /\ Len(list) \in Nat /\ DOMAIN list = 1 .. Len(list)
      /\ \A i \in DOMAIN list : list[i] \in TorrentInfo
  BY LenProperties DEF BoardTypes
<1>2. Shown \in SUBSET DOMAIN list /\ Shown \in SUBSET Int
  BY <1>1 DEF Shown
<1>3. IsFiniteSet(Shown)
  <2>1. IsFiniteSet(1 .. Len(list))
    BY <1>1, FS_Interval
  <2>. QED
    BY <1>1, <1>2, <2>1, FS_Subset
<1>4. [i \in Shown |-> 0] \in [Shown -> Int]
  OBVIOUS
<1>5. Rearranges(rows, list, Shown)
  BY <1>2, <1>3, <1>4, ArrangeRearranges DEF Keep
<1>6. \A i \in Shown : list[i] \in TorrentInfo
  BY <1>1, <1>2
<1>7. ASSUME NEW s, s \in Seq(TorrentInfo), NEW key \in [DOMAIN s -> Int]
      PROVE  Rearranges(StableSort(s, key), s, DOMAIN s)
  <2>1. DOMAIN s = 1 .. Len(s) /\ Len(s) \in Nat
    BY <1>7, LenProperties
  <2>2. DOMAIN s \in SUBSET Int /\ IsFiniteSet(DOMAIN s)
    BY <2>1, FS_Interval
  <2>. QED
    BY <2>2, ArrangeRearranges DEF StableSort
<1>8. ASSUME NEW s, Rearranges(s, list, Shown)
      PROVE  s \in Seq(TorrentInfo) /\ \A i \in DOMAIN s : s[i].hash \in Hashes
  <2>1. s \in Seq(TorrentInfo)
    BY <1>3, <1>6, <1>8, RearrangedRows
  <2>2. \A i \in DOMAIN s : s[i] \in TorrentInfo
    BY <2>1
  <2>. QED
    BY <2>1, <2>2 DEF TorrentInfo
<1>. HIDE DEF rows
<1>9. Rearranges(sorted, list, Shown)
  <2>1. CASE sortField = "manual"
    BY <1>5, <2>1 DEF SortTorrents
  <2>2. CASE sortField # "manual"
    <3>. DEFINE key == [i \in DOMAIN rows |-> SortKey[sortField][rows[i].hash]]
    <3>1. SortKey[sortField] \in [Hashes -> Int]
      BY <2>2, ViewAssumption DEF BoardTypes, SortFields
    <3>2. key \in [DOMAIN rows -> Int]
      BY <1>5, <1>8, <3>1
    <3>3. sorted = StableSort(rows, key)
      BY <2>2 DEF SortTorrents
    <3>. HIDE DEF key, sorted
    <3>4. Rearranges(sorted, rows, DOMAIN rows)
      BY <1>5, <1>7, <1>8, <3>2, <3>3
    <3>. QED
      BY <1>3, <1>5, <3>4, RearrangedTwice
  <2>. QED
    BY <2>1, <2>2
<1>. HIDE DEF sorted
<1>10. Rearranges(ApplyLocalOrder(sorted, localOrder), list, Shown)
  <2>. DEFINE key == [i \in DOMAIN sorted |-> LocalPlace(localOrder, sorted[i].hash)]
  <2>1. DOMAIN localOrder = 1 .. Len(localOrder) /\ Len(localOrder) \in Nat
    BY LenProperties DEF BoardTypes
  <2>2. ASSUME NEW h PROVE LocalPlace(localOrder, h) \in Int
    <3>1. CASE h \in Range(localOrder)
      <4>1. PICK i \in DOMAIN localOrder : localOrder[i] = h
        BY <3>1 DEF Range
      <4>2. (CHOOSE j \in DOMAIN localOrder : localOrder[j] = h) \in DOMAIN localOrder
        BY <4>1
      <4>. QED
        BY <2>1, <3>1, <4>2 DEF LocalPlace
    <3>2. CASE h \notin Range(localOrder)
      BY <3>2 DEF LocalPlace
    <3>. QED
      BY <3>1, <3>2
  <2>3. key \in [DOMAIN sorted -> Int]
    BY <2>2
  <2>4. ApplyLocalOrder(sorted, localOrder) = StableSort(sorted, key)
    BY DEF ApplyLocalOrder
  <2>. HIDE DEF key
  <2>5. Rearranges(ApplyLocalOrder(sorted, localOrder), sorted, DOMAIN sorted)
    BY <1>7, <1>8, <1>9, <2>3, <2>4
  <2>. QED
    BY <1>3, <1>9, <2>5, RearrangedTwice
<1>11. Filtered = sorted \/ Filtered = ApplyLocalOrder(sorted, localOrder)
  BY DEF Filtered, sorted, rows
<1>. QED
  BY <1>2, <1>3, <1>6, <1>9, <1>10, <1>11

\* The rows the page shows are rows of the list, each once.
LEMMA FilteredIsTyped ==
  ASSUME BoardTypes
  PROVE  /\ Filtered \in Seq(TorrentInfo) /\ OneRowEach(Filtered)
         /\ Len(Filtered) = Cardinality(Shown) /\ Len(Filtered) <= Cardinality(Hashes)
         /\ Range(Filtered) = {list[i] : i \in Shown}
<1>1. /\ Filtered \in Seq(TorrentInfo) /\ Len(Filtered) = Cardinality(Shown)
      /\ Range(Filtered) = {list[i] : i \in Shown}
  BY FilteredRearranges, RearrangedRows
<1>2. OneRowEach(Filtered)
  BY FilteredRearranges, RearrangedOneRowEach DEF BoardTypes
<1>3. Len(Filtered) <= Cardinality(Hashes)
  <2>. DEFINE hash == [i \in 1 .. Len(Filtered) |-> Filtered[i].hash]
  <2>1. /\ DOMAIN Filtered = 1 .. Len(Filtered) /\ Len(Filtered) \in Nat
        /\ \A i \in DOMAIN Filtered : Filtered[i] \in TorrentInfo
    BY <1>1, LenProperties
  <2>2. hash \in [1 .. Len(Filtered) -> Hashes]
    BY <2>1 DEF TorrentInfo
  <2>3. \A i, j \in 1 .. Len(Filtered) : hash[i] = hash[j] => i = j
    BY <1>2, <2>1 DEF OneRowEach
  <2>. HIDE DEF hash
  <2>4. hash \in Injection(1 .. Len(Filtered), Hashes)
    BY <2>2, <2>3, Fun_IsInj
  <2>5. Cardinality(1 .. Len(Filtered)) <= Cardinality(Hashes)
    BY <2>4, ViewAssumption, FS_Injection
  <2>. QED
    BY <2>1, <2>5, FS_Interval
<1>. QED
  BY <1>1, <1>2, <1>3

\* A click that only sets pills, query or sort field leaves the rest well formed.
LEMMA ListUnchanged ==
  ASSUME BoardTypes, UNCHANGED <<torrentVars, requestVars, list, localOrder>>,
         pills' \subseteq StatusFilters, pills' # {},
         "active" \in pills' => pills' = {"active"},
         query' \in Queries, sortField' \in SortFields
  PROVE  BoardTypes'
BY DEF BoardTypes, torrentVars, requestVars, OneRowEach

\* Every step keeps the dashboard well formed.
LEMMA StepBoard == BoardTypes /\ [BoardNext]_boardVars => BoardTypes'
<1>. SUFFICES ASSUME BoardTypes, [BoardNext]_boardVars PROVE BoardTypes'
  OBVIOUS
<1>1. /\ pills \subseteq StatusFilters /\ pills # {}
      /\ "active" \in pills => pills = {"active"}
      /\ query \in Queries /\ sortField \in SortFields
  BY DEF BoardTypes
<1>2. ASSUME NEW key \in StatusFilters, ClickPill(key) PROVE BoardTypes'
  <2>1. /\ pills' = TogglePill(pills, key)
        /\ UNCHANGED <<torrentVars, requestVars, list, localOrder, query, sortField>>
    BY <1>2 DEF ClickPill
  <2>2. /\ pills' \subseteq StatusFilters /\ pills' # {}
        /\ "active" \in pills' => pills' = {"active"}
    BY <1>1, <2>1 DEF TogglePill, StatusFilters
  <2>. QED
    BY <1>1, <2>1, <2>2, ListUnchanged
<1>3. ASSUME NEW h \in Hashes,
             \/ ToggleCategory(Category[h])
             \/ \E g \in Tags[h] : ToggleTag(g)
      PROVE  BoardTypes'
  BY <1>1, <1>3, ListUnchanged DEF ToggleCategory, ToggleTag
<1>4. ASSUME NEW q \in Queries, Search(q) PROVE BoardTypes'
  BY <1>1, <1>4, ListUnchanged DEF Search
<1>5. CASE ClearFilters
  <2>1. /\ UNCHANGED <<torrentVars, requestVars, list, sortField, localOrder>>
        /\ \/ UNCHANGED <<pills, query>>
           \/ pills' = {"active"} /\ query' = ""
    BY <1>5 DEF ClearFilters
  <2>2. /\ pills' \subseteq StatusFilters /\ pills' # {}
        /\ "active" \in pills' => pills' = {"active"}
        /\ query' \in Queries /\ sortField' \in SortFields
    BY <1>1, <2>1 DEF StatusFilters, Queries
  <2>. QED
    BY <2>1, <2>2, ListUnchanged
<1>6. ASSUME NEW f \in SortFields, SelectSort(f) PROVE BoardTypes'
  <2>1. localOrder' \in Seq(Hashes) /\ sortField' \in SortFields
    BY <1>6 DEF SelectSort, NoOrder
  <2>. QED
    BY <1>6, <2>1 DEF SelectSort, BoardTypes, torrentVars, requestVars, filterVars, OneRowEach
<1>7. ASSUME NEW from \in DOMAIN Filtered, NEW to \in DOMAIN Filtered, DragEnd(from, to)
      PROVE  BoardTypes'
  <2>. DEFINE hashes == HashesOf(Filtered)
              order == ArrayMove(hashes, from, to)
              n == Len(Filtered)
  <2>1. /\ Filtered \in Seq(TorrentInfo) /\ n \in Nat /\ DOMAIN Filtered = 1 .. n
        /\ n <= Cardinality(Hashes) /\ \A i \in 1 .. n : Filtered[i].hash \in Hashes
    <3>1. /\ Filtered \in Seq(TorrentInfo) /\ n \in Nat /\ DOMAIN Filtered = 1 .. n
          /\ n <= Cardinality(Hashes) /\ \A i \in 1 .. n : Filtered[i] \in TorrentInfo
      BY FilteredIsTyped, LenProperties
    <3>. QED
      BY <3>1 DEF TorrentInfo
  <2>2. hashes \in [1 .. n -> Hashes]
    BY <2>1 DEF HashesOf
  <2>3. hashes \in Seq(Hashes) /\ Len(hashes) = n
    <3>1. hashes \in Seq(Hashes)
      BY <2>1, <2>2
    <3>. QED
      BY <2>1, <2>2, <3>1, LenProperties
  <2>4. order \in Seq(Hashes) /\ Len(order) = n
    <3>. HIDE DEF hashes
    <3>. QED
      BY <2>1, <2>3, ArrayMoveMoves
  <2>5. /\ localOrder' = order /\ sortField' = "manual"
        /\ ranks' = ranks \cup {[hash |-> Filtered[from].hash, priority |-> to]}
        /\ orders' = orders \cup {[order |-> order, next |-> 1]}
        /\ UNCHANGED <<managed, prio, list, pills, query>>
    BY <1>7 DEF DragEnd, DragTo, torrentVars, filterVars
  <2>. HIDE DEF order
  <2>6. to \in 1 .. Cardinality(Hashes) /\ Filtered[from].hash \in Hashes
    BY <2>1, ViewAssumption, FS_CardinalityType
  <2>7. ranks' \subseteq [hash : Hashes, priority : 1 .. Cardinality(Hashes)]
    BY <2>5, <2>6 DEF BoardTypes
  <2>8. [order |-> order, next |-> 1] \in [order : Seq(Hashes), next : Nat] /\ 1 \in 1 .. Len(order)
    BY <2>1, <2>4
  <2>9. /\ orders' \subseteq [order : Seq(Hashes), next : Nat]
        /\ \A o \in orders' : o.next \in 1 .. Len(o.order)
    <3>. DEFINE new == [order |-> order, next |-> 1]
    <3>1. new.order = order /\ new.next = 1
      OBVIOUS
    <3>2. new \in [order : Seq(Hashes), next : Nat] /\ orders' = orders \cup {new}
      BY <2>5, <2>8
    <3>. HIDE DEF new
    <3>. QED
      BY <2>8, <3>1, <3>2 DEF BoardTypes
  <2>10. localOrder' \in Seq(Hashes) /\ sortField' \in SortFields
    BY <2>4, <2>5 DEF SortFields
  <2>. QED
    BY <2>5, <2>7, <2>9, <2>10 DEF BoardTypes, OneRowEach
<1>8. ASSUME NEW h \in Hashes, NEW p \in Nat, SetPriority(h, p)
      PROVE  prio' \in [Hashes -> Nat]
  BY <1>8 DEF SetPriority, BoardTypes
<1>9. ASSUME NEW r \in ranks, RankArrives(r) PROVE BoardTypes'
  <2>1. r.hash \in Hashes /\ r.priority \in Nat
    BY ViewAssumption, FS_CardinalityType DEF BoardTypes
  <2>2. prio' \in [Hashes -> Nat]
    BY <1>8, <1>9, <2>1 DEF RankArrives
  <2>. QED
    BY <1>9, <2>2 DEF RankArrives, BoardTypes, filterVars, OneRowEach
<1>10. ASSUME NEW o \in orders, OrderStep(o) PROVE BoardTypes'
  <2>1. o \in [order : Seq(Hashes), next : Nat] /\ o.next \in 1 .. Len(o.order)
    BY DEF BoardTypes
  <2>2. o.order[o.next] \in Hashes /\ o.next - 1 \in Nat
    BY <2>1, LenProperties
  <2>3. prio' \in [Hashes -> Nat]
    BY <1>8, <1>10, <2>2 DEF OrderStep
  <2>. DEFINE on == [o EXCEPT !.next = @ + 1]
  <2>4. orders' = (orders \ {o}) \cup (IF o.next = Len(o.order) THEN {} ELSE {on})
    BY <1>10 DEF OrderStep
  <2>5. on \in [order : Seq(Hashes), next : Nat] /\ on.order = o.order /\ on.next = o.next + 1
    BY <2>1
  <2>. HIDE DEF on
  <2>6. o.next # Len(o.order) => on.next \in 1 .. Len(on.order)
    <3>1. Len(o.order) \in Nat
      BY <2>1, LenProperties
    <3>. QED
      BY <2>1, <2>5, <3>1
  <2>7. /\ orders' \subseteq [order : Seq(Hashes), next : Nat]
        /\ \A q \in orders' : q.next \in 1 .. Len(q.order)
    BY <2>4, <2>5, <2>6 DEF BoardTypes
  <2>. QED
    BY <1>10, <2>3, <2>7 DEF OrderStep, BoardTypes, filterVars, OneRowEach
<1>11. CASE RequestLost
  <2>1. ranks' \subseteq ranks /\ orders' \subseteq orders
    BY <1>11 DEF RequestLost
  <2>. QED
    BY <1>11, <2>1 DEF RequestLost, BoardTypes, torrentVars, filterVars, OneRowEach
<1>12. ASSUME NEW h \in Hashes, Removed(h) PROVE BoardTypes'
  BY <1>12 DEF Removed, BoardTypes, requestVars, filterVars, OneRowEach
<1>13. ASSUME NEW h \in Hashes, Added(h) PROVE BoardTypes'
  <2>1. PICK m \in FirstFlags :
          managed' = [g \in DOMAIN managed \cup {h} |-> IF g = h THEN m ELSE managed[g]]
    BY <1>13 DEF Added
  <2>2. DOMAIN managed' \subseteq Hashes /\ \A g \in DOMAIN managed' : managed'[g] \in Flags
    BY <2>1, BoardAssumption DEF BoardTypes
  <2>3. prio' \in [Hashes -> Nat]
    BY <1>13 DEF Added, BoardTypes
  <2>. QED
    BY <1>13, <2>2, <2>3 DEF Added, BoardTypes, requestVars, filterVars, OneRowEach
<1>14. ASSUME NEW h \in Hashes, NEW m \in Flags, StatusChange(h, m) PROVE BoardTypes'
  <2>1. managed' = [managed EXCEPT ![h] = m]
    BY <1>14 DEF StatusChange
  <2>2. DOMAIN managed' \subseteq Hashes /\ \A g \in DOMAIN managed' : managed'[g] \in Flags
    BY <2>1 DEF BoardTypes
  <2>. QED
    BY <1>14, <2>2 DEF StatusChange, BoardTypes, requestVars, filterVars, OneRowEach
<1>15. CASE Refresh
  <2>1. SessionTypes
    BY DEF BoardTypes, SessionTypes
  <2>2. list' \in Seq(TorrentInfo) /\ OneRowEach(list)'
    BY <1>15, <2>1, ServerListIsTyped DEF Refresh, OneRowEach
  <2>. QED
    BY <1>15, <2>2 DEF Refresh, BoardTypes, torrentVars, requestVars, filterVars
<1>16. CASE UNCHANGED boardVars
  BY <1>1, <1>16, ListUnchanged DEF boardVars, filterVars
<1>. QED
  BY <1>2, <1>3, <1>4, <1>5, <1>6, <1>7, <1>9, <1>10, <1>11, <1>12, <1>13, <1>14, <1>15, <1>16
     DEF BoardNext, UserStep, ServerStep

\* So it is at first, and so it stays.
LEMMA InitBoard == BoardInit => BoardTypes
<1>. SUFFICES ASSUME BoardInit PROVE BoardTypes
  OBVIOUS
<1>1. DOMAIN managed \subseteq Hashes /\ \A h \in DOMAIN managed : managed[h] \in Flags
  <2>1. PICK there \in FirstSets : managed \in [there -> FirstFlags]
    BY DEF BoardInit
  <2>. QED
    BY <2>1, BoardAssumption
<1>2. prio \in [Hashes -> Nat]
  BY DEF BoardInit
<1>3. list \in Seq(TorrentInfo) /\ OneRowEach(list)
  <2>1. SessionTypes
    BY <1>1, <1>2 DEF SessionTypes
  <2>2. list = ServerList
    BY DEF BoardInit
  <2>. QED
    BY <2>1, <2>2, ServerListIsTyped
<1>4. PICK f \in StatusFilters : pills = {f}
  BY DEF BoardInit
<1>5. query \in Queries /\ sortField \in SortFields /\ localOrder \in Seq(Hashes)
  <2>1. query = "" /\ sortField = "manual" /\ localOrder = <<>>
    BY DEF BoardInit, NoOrder
  <2>2. query \in Queries
    BY <2>1 DEF Queries
  <2>3. sortField \in SortFields
    BY <2>1 DEF SortFields
  <2>4. localOrder \in Seq(Hashes)
    BY <2>1, EmptySeq
  <2>. QED
    BY <2>2, <2>3, <2>4
<1>6. orders = {} /\ ranks = {}
  BY DEF BoardInit
<1>. QED
  BY <1>1, <1>2, <1>3, <1>4, <1>5, <1>6 DEF BoardTypes

LEMMA BoardTypesHold == BoardSpec => []BoardTypes
BY InitBoard, StepBoard, PTL DEF BoardSpec

\* The state of the dashboard is well formed, however clicks, drags, refetches
\* and the server's changes mix; the pill of the active torrents stands alone
\* (TorrentList.tsx 515-552, 747-762).
THEOREM BoardIsTyped == BoardSpec => []BoardTypeOK
<1>1. BoardTypes => BoardTypeOK
  <2>. SUFFICES ASSUME BoardTypes PROVE BoardTypeOK
    OBVIOUS
  <2>1. ASSUME NEW S, NEW s \in Seq(S) PROVE Range(s) \subseteq S
    <3>1. \A i \in DOMAIN s : s[i] \in S
      BY LenProperties
    <3>. QED
      BY <3>1 DEF Range
  <2>2. Range(list) \subseteq TorrentInfo /\ Range(localOrder) \subseteq Hashes
    BY <2>1 DEF BoardTypes
  <2>3. \A o \in orders : Range(o.order) \subseteq Hashes /\ o.next \in 1 .. Len(o.order)
    <3>1. \A o \in orders : o.order \in Seq(Hashes) /\ o.next \in 1 .. Len(o.order)
      BY DEF BoardTypes
    <3>. QED
      BY <2>1, <3>1
  <2>4. \A r \in ranks : r.hash \in Hashes /\ r.priority \in 1 .. Cardinality(Hashes)
    BY DEF BoardTypes
  <2>. QED
    BY <2>2, <2>3, <2>4 DEF BoardTypes, BoardTypeOK
<1>. QED
  BY <1>1, BoardTypesHold, PTL

\* The dragged order only orders: no row the filters let through is lost or
\* shown twice, whatever order was dragged before (TorrentList.tsx 574-618).
THEOREM RowsMatch == BoardSpec => []RowsAreTheMatches
<1>1. BoardTypes => RowsAreTheMatches
  BY FilteredIsTyped DEF RowsAreTheMatches
<1>. QED
  BY <1>1, BoardTypesHold, PTL

\* Every badge has a pill that counts its torrent (torrentStatus.ts 53-79,
\* TorrentList.tsx 63-81).
THEOREM BadgesHavePills == BoardSpec => []BadgeHasPill
<1>1. ASSUME NEW t \in TorrentInfo PROVE MatchesStatus(t, TorrentVisual(t))
  <2>1. /\ t.status \in StatusFilters \ {"active", "stalled"}
        /\ t.stalledAt \in BOOLEAN /\ t.stalled \in BOOLEAN
    BY DEF TorrentInfo
  <2>2. CASE t.stalledAt \/ (t.status = "downloading" /\ t.stalled)
    BY <2>2 DEF TorrentVisual, MatchesStatus
  <2>3. CASE ~(t.stalledAt \/ (t.status = "downloading" /\ t.stalled))
    <3>1. TorrentVisual(t) = t.status /\ ~t.stalledAt
      BY <2>1, <2>3 DEF TorrentVisual
    <3>2. MatchesStatus(t, t.status)
      BY <2>1, <3>1 DEF MatchesStatus, IsFinished, StatusFilters
    <3>. QED
      BY <3>1, <3>2
  <2>. QED
    BY <2>2, <2>3
<1>2. BoardTypes => BadgeHasPill
  <2>. SUFFICES ASSUME BoardTypes, NEW i \in DOMAIN list
                PROVE  /\ MatchesStatus(list[i], TorrentVisual(list[i]))
                       /\ CountForStatus(list, TorrentVisual(list[i])) > 0
    BY DEF BadgeHasPill
  <2>. DEFINE f == TorrentVisual(list[i])
              counted == {j \in DOMAIN list : MatchesStatus(list[j], f)}
  <2>1. Len(list) \in Nat /\ DOMAIN list = 1 .. Len(list) /\ list[i] \in TorrentInfo
    BY LenProperties DEF BoardTypes
  <2>2. MatchesStatus(list[i], f)
    BY <1>1, <2>1
  <2>. HIDE DEF f
  <2>3. IsFiniteSet(1 .. Len(list)) /\ counted \in SUBSET (1 .. Len(list)) /\ i \in counted
    BY <2>1, <2>2, FS_Interval
  <2>. HIDE DEF counted
  <2>4. IsFiniteSet(counted) /\ Cardinality(counted) \in Nat
    BY <2>3, FS_Subset, FS_CardinalityType
  <2>5. Cardinality(counted) # 0
    BY <2>3, <2>4, FS_EmptySet
  <2>6. CountForStatus(list, f) > 0
    BY <2>4, <2>5 DEF CountForStatus, counted
  <2>. QED
    BY <2>2, <2>6 DEF f
<1>. QED
  BY <1>2, BoardTypesHold, PTL

------------------------------------------------------------------------------
(* Where a drag ends. *)

\* A drag that nothing else disturbs: its order is written up to `done`, one
\* rank after the other from 0, and the row that was moved has the rank of the
\* other request if that came last.
Written(place, done) ==
  \A i \in 1 .. done :
    prio[dragged[i]] = i - 1 \/ (i = place /\ prio[dragged[i]] = place)

DragInv ==
  alone =>
    /\ dragged \in Seq(Hashes) /\ \A i \in DOMAIN dragged : dragged[i] \in DOMAIN managed
    /\ \A i, j \in DOMAIN dragged : dragged[i] = dragged[j] => i = j
    /\ \E place \in DOMAIN dragged, done \in 0 .. Len(dragged) :
         /\ orders = IF done = Len(dragged) THEN {}
                     ELSE {[order |-> dragged, next |-> done + 1]}
         /\ ranks = {} \/ ranks = {[hash |-> dragged[place], priority |-> place]}
         /\ Written(place, done)

\* Every step of the page, the server and the others keeps it.
LEMMA StepDrag == BoardTypes /\ DragInv /\ [BoardNext]_boardVars => DragInv'
<1>. SUFFICES ASSUME BoardTypes, DragInv, [BoardNext]_boardVars, alone' PROVE DragInv'
  BY DEF DragInv
<1>1. ASSUME UNCHANGED <<torrentVars, requestVars, ghostVars>> PROVE DragInv'
  BY <1>1 DEF DragInv, Written, torrentVars, requestVars, ghostVars
<1>2. ASSUME NEW from \in DOMAIN Filtered, NEW to \in DOMAIN Filtered, DragEnd(from, to)
      PROVE  DragInv'
  <2>. DEFINE hashes == HashesOf(Filtered)
              order == ArrayMove(hashes, from, to)
              n == Len(Filtered)
  <2>1. /\ Filtered \in Seq(TorrentInfo) /\ n \in Nat /\ DOMAIN Filtered = 1 .. n
        /\ \A i \in 1 .. n : Filtered[i].hash \in Hashes
        /\ \A i, j \in 1 .. n : Filtered[i].hash = Filtered[j].hash => i = j
    <3>1. /\ Filtered \in Seq(TorrentInfo) /\ n \in Nat /\ DOMAIN Filtered = 1 .. n
          /\ OneRowEach(Filtered) /\ \A i \in 1 .. n : Filtered[i] \in TorrentInfo
      BY FilteredIsTyped, LenProperties
    <3>. QED
      BY <3>1 DEF TorrentInfo, OneRowEach
  <2>2. hashes \in [1 .. n -> Hashes] /\ \A i \in 1 .. n : hashes[i] = Filtered[i].hash
    BY <2>1 DEF HashesOf
  <2>3. hashes \in Seq(Hashes) /\ Len(hashes) = n
    <3>1. hashes \in Seq(Hashes)
      BY <2>1, <2>2
    <3>. QED
      BY <2>1, <2>2, <3>1, LenProperties
  <2>4. /\ order \in Seq(Hashes) /\ Len(order) = n
        /\ \A p \in 1 .. n : order[p] = hashes[CameFrom(from, to, p)]
    <3>. HIDE DEF hashes
    <3>. QED
      BY <2>1, <2>3, ArrayMoveMoves
  <2>5. /\ ranks' = ranks \cup {[hash |-> Filtered[from].hash, priority |-> to]}
        /\ orders' = orders \cup {[order |-> order, next |-> 1]}
        /\ dragged' = order
        /\ alone' = (requestVars = <<{}, {}>> /\ Range(order) \subseteq DOMAIN managed)
        /\ UNCHANGED <<managed, prio>>
    BY <1>2 DEF DragEnd, DragTo, torrentVars
  <2>. HIDE DEF order
  <2>6. orders = {} /\ ranks = {} /\ Range(order) \subseteq DOMAIN managed
    BY <2>5 DEF requestVars
  <2>7. /\ DOMAIN order = 1 .. n
        /\ \A i \in 1 .. n : order[i] \in DOMAIN managed
    <3>1. DOMAIN order = 1 .. n
      BY <2>4, LenProperties
    <3>. QED
      BY <2>6, <3>1 DEF Range
  <2>8. ASSUME NEW i \in 1 .. n, NEW j \in 1 .. n, order[i] = order[j] PROVE i = j
    <3>. DEFINE a == CameFrom(from, to, i)
                b == CameFrom(from, to, j)
    <3>1. from \in 1 .. n /\ to \in 1 .. n
      BY <2>1
    <3>2. a \in 1 .. n /\ b \in 1 .. n /\ (a = b => i = j)
      BY <2>1, <3>1, CameFromOnce
    <3>. HIDE DEF a, b
    <3>3. order[i] = hashes[a] /\ order[j] = hashes[b]
      BY <2>4 DEF a, b
    <3>4. Filtered[a].hash = Filtered[b].hash
      BY <2>2, <2>8, <3>2, <3>3
    <3>. QED
      BY <2>1, <3>2, <3>4
  <2>9. order[to] = Filtered[from].hash
    BY <2>1, <2>2, <2>4 DEF CameFrom
  <2>10. /\ orders' = {[order |-> dragged', next |-> 1]}
         /\ ranks' = {[hash |-> dragged'[to], priority |-> to]}
    BY <2>5, <2>6, <2>9
  <2>11. Written(to, 0)'
    BY DEF Written
  <2>12. 0 \in 0 .. Len(dragged') /\ 0 # Len(dragged') /\ 0 + 1 = 1 /\ to \in DOMAIN dragged'
    BY <2>1, <2>4, <2>5, <2>7
  <2>13. \E place \in DOMAIN dragged', done \in 0 .. Len(dragged') :
           /\ orders' = IF done = Len(dragged') THEN {}
                        ELSE {[order |-> dragged', next |-> done + 1]}
           /\ ranks' = {} \/ ranks' = {[hash |-> dragged'[place], priority |-> place]}
           /\ Written(place, done)'
    BY <2>10, <2>11, <2>12
  <2>14. /\ dragged' \in Seq(Hashes) /\ \A i \in DOMAIN dragged' : dragged'[i] \in DOMAIN managed'
         /\ \A i, j \in DOMAIN dragged' : dragged'[i] = dragged'[j] => i = j
    BY <2>4, <2>5, <2>7, <2>8
  <2>. QED
    BY <2>13, <2>14 DEF DragInv
<1>3. ASSUME alone,
             UNCHANGED <<dragged, DOMAIN managed>>,
             NEW place \in DOMAIN dragged, NEW done \in 0 .. Len(dragged),
             orders' = IF done = Len(dragged) THEN {} ELSE {[order |-> dragged, next |-> done + 1]},
             ranks' = {} \/ ranks' = {[hash |-> dragged[place], priority |-> place]},
             Written(place, done)'
      PROVE  DragInv'
  BY <1>3 DEF DragInv
<1>4. ASSUME alone
      PROVE  /\ dragged \in Seq(Hashes) /\ Len(dragged) \in Nat /\ DOMAIN dragged = 1 .. Len(dragged)
             /\ \A i \in DOMAIN dragged : dragged[i] \in DOMAIN managed /\ dragged[i] \in Hashes
             /\ \A i, j \in DOMAIN dragged : dragged[i] = dragged[j] => i = j
  <2>1. dragged \in Seq(Hashes)
    BY <1>4 DEF DragInv
  <2>. QED
    BY <1>4, <2>1, LenProperties DEF DragInv
<1>5. ASSUME alone
      PROVE  \E place \in DOMAIN dragged, done \in 0 .. Len(dragged) :
               /\ orders = IF done = Len(dragged) THEN {}
                           ELSE {[order |-> dragged, next |-> done + 1]}
               /\ ranks = {} \/ ranks = {[hash |-> dragged[place], priority |-> place]}
               /\ Written(place, done)
  BY <1>5 DEF DragInv
<1>6. ASSUME NEW r \in ranks, RankArrives(r) PROVE DragInv'
  <2>1. alone /\ UNCHANGED <<managed, orders, dragged>> /\ ranks' = ranks \ {r}
        /\ SetPriority(r.hash, r.priority)
    BY <1>6 DEF RankArrives, ghostVars
  <2>2. PICK place \in DOMAIN dragged, done \in 0 .. Len(dragged) :
               /\ orders = IF done = Len(dragged) THEN {}
                           ELSE {[order |-> dragged, next |-> done + 1]}
               /\ ranks = {} \/ ranks = {[hash |-> dragged[place], priority |-> place]}
               /\ Written(place, done)
    BY <1>5, <2>1
  <2>3. r.hash = dragged[place] /\ r.priority = place /\ ranks' = {}
    BY <2>1, <2>2
  <2>4. prio' = [prio EXCEPT ![dragged[place]] = place]
    BY <1>4, <2>1, <2>3 DEF SetPriority
  <2>5. ASSUME NEW i \in 1 .. done
        PROVE  prio'[dragged[i]] = i - 1 \/ (i = place /\ prio'[dragged[i]] = place)
    <3>1. i \in DOMAIN dragged /\ (i = place \/ dragged[i] # dragged[place])
      BY <1>4, <2>1
    <3>2. dragged[i] \in Hashes /\ dragged[place] \in Hashes /\ prio \in [Hashes -> Nat]
      BY <1>4, <2>1, <3>1 DEF BoardTypes
    <3>. QED
      BY <2>2, <2>4, <3>1, <3>2 DEF Written
  <2>6. Written(place, done)'
    BY <2>1, <2>5 DEF Written
  <2>. QED
    BY <1>3, <2>1, <2>2, <2>3, <2>6
<1>7. ASSUME NEW o \in orders, OrderStep(o) PROVE DragInv'
  <2>1. alone /\ UNCHANGED <<managed, ranks, dragged>>
        /\ SetPriority(o.order[o.next], o.next - 1)
        /\ orders' = (orders \ {o}) \cup
             (IF o.next = Len(o.order) THEN {} ELSE {[o EXCEPT !.next = @ + 1]})
    BY <1>7 DEF OrderStep, ghostVars
  <2>2. PICK place \in DOMAIN dragged, done \in 0 .. Len(dragged) :
               /\ orders = IF done = Len(dragged) THEN {}
                           ELSE {[order |-> dragged, next |-> done + 1]}
               /\ ranks = {} \/ ranks = {[hash |-> dragged[place], priority |-> place]}
               /\ Written(place, done)
    BY <1>5, <2>1
  <2>3. o = [order |-> dragged, next |-> done + 1] /\ done # Len(dragged) /\ orders = {o}
    BY <2>2
  <2>4. /\ done + 1 \in 0 .. Len(dragged) /\ done + 1 \in DOMAIN dragged
        /\ (done + 1) - 1 = done
    BY <1>4, <2>1, <2>3
  <2>5. prio' = [prio EXCEPT ![dragged[done + 1]] = done]
    BY <1>4, <2>1, <2>3, <2>4 DEF SetPriority
  <2>6. [o EXCEPT !.next = @ + 1] = [order |-> dragged, next |-> (done + 1) + 1]
    BY <2>3
  <2>7. orders' = IF done + 1 = Len(dragged) THEN {}
                  ELSE {[order |-> dragged, next |-> (done + 1) + 1]}
    BY <2>1, <2>3, <2>6
  <2>8. ASSUME NEW i \in 1 .. done + 1
        PROVE  prio'[dragged[i]] = i - 1 \/ (i = place /\ prio'[dragged[i]] = place)
    <3>1. i \in DOMAIN dragged /\ (i = done + 1 \/ (dragged[i] # dragged[done + 1] /\ i \in 1 .. done))
      BY <1>4, <2>1, <2>4
    <3>2. dragged[i] \in Hashes /\ dragged[done + 1] \in Hashes /\ prio \in [Hashes -> Nat]
      BY <1>4, <2>1, <2>4, <3>1 DEF BoardTypes
    <3>. QED
      BY <2>2, <2>4, <2>5, <3>1, <3>2 DEF Written
  <2>9. Written(place, done + 1)'
    BY <2>1, <2>8 DEF Written
  <2>. QED
    BY <1>3, <2>1, <2>2, <2>4, <2>7, <2>9
<1>8. CASE RequestLost \/ \E h \in Hashes : Removed(h) \/ Added(h)
  BY <1>8 DEF RequestLost, Removed, Added
<1>9. ASSUME NEW h \in Hashes, NEW m \in Flags, StatusChange(h, m) PROVE DragInv'
  <2>1. /\ DOMAIN managed' = DOMAIN managed
        /\ UNCHANGED <<prio, requestVars, ghostVars>>
    BY <1>9 DEF StatusChange
  <2>. QED
    BY <2>1 DEF DragInv, Written, requestVars, ghostVars
<1>10. CASE \/ \E key \in StatusFilters : ClickPill(key)
            \/ \E h \in Hashes : ToggleCategory(Category[h]) \/ \E g \in Tags[h] : ToggleTag(g)
            \/ \E q \in Queries : Search(q)
            \/ ClearFilters
            \/ \E f \in SortFields : SelectSort(f)
            \/ Refresh \/ UNCHANGED boardVars
  <2>1. UNCHANGED <<torrentVars, requestVars, ghostVars>>
    BY <1>10 DEF ClickPill, ToggleCategory, ToggleTag, Search, ClearFilters, SelectSort, Refresh,
       boardVars
  <2>. QED
    BY <1>1, <2>1
<1>. QED
  BY <1>2, <1>6, <1>7, <1>8, <1>9, <1>10 DEF BoardNext, UserStep, ServerStep

LEMMA WithinOne ==
  ASSUME NEW i \in Int, NEW kept \in Int, NEW all \in Int,
         i - 1 <= kept, kept <= all, all <= i + 1
  PROVE  all - i \in -1 .. 1
OBVIOUS

\* Ranks written as above keep every row within one place of where it was put.
LEMMA OnePlaceAway ==
  ASSUME NEW n \in Nat, NEW place \in 1 .. n, NEW i \in 1 .. n, NEW rank \in [1 .. n -> Int],
         \A k \in 1 .. n : rank[k] = k - 1 \/ (k = place /\ rank[k] = place),
         NEW upTo \in SUBSET (1 .. n),
         \A k \in 1 .. n : rank[k] < rank[i] => k \in upTo,
         \A k \in upTo : rank[k] <= rank[i],
         i \in upTo
  PROVE  Cardinality(upTo) - i \in -1 .. 1
<1>1. (1 .. i) \ {place} \subseteq upTo
  <2>. SUFFICES ASSUME NEW k \in 1 .. i, k # place, k # i PROVE k \in upTo
    OBVIOUS
  <2>1. rank[k] = k - 1 /\ rank[i] >= i - 1 /\ k < i
    OBVIOUS
  <2>. QED
    BY <2>1
<1>2. upTo \subseteq 1 .. i + 1
  <2>. SUFFICES ASSUME NEW k \in upTo PROVE k \in 1 .. i + 1
    OBVIOUS
  <2>1. k - 1 <= rank[k] /\ rank[k] <= rank[i] /\ rank[i] <= i
    OBVIOUS
  <2>. QED
    BY <2>1
<1>3. /\ IsFiniteSet(1 .. i) /\ Cardinality(1 .. i) = i
      /\ IsFiniteSet(1 .. i + 1) /\ Cardinality(1 .. i + 1) = i + 1
  BY FS_Interval
<1>4. IsFiniteSet(upTo) /\ Cardinality(upTo) <= i + 1 /\ Cardinality(upTo) \in Nat
  <2>1. upTo \in SUBSET (1 .. i + 1)
    BY <1>2
  <2>2. IsFiniteSet(upTo) /\ Cardinality(upTo) <= Cardinality(1 .. i + 1)
    BY <1>3, <2>1, FS_Subset
  <2>. QED
    BY <1>3, <2>2, FS_CardinalityType
<1>5. Cardinality((1 .. i) \ {place}) >= i - 1
  <2>1. CASE place \in 1 .. i
    <3>1. Cardinality((1 .. i) \ {place}) = Cardinality(1 .. i) - 1
      BY <1>3, <2>1, FS_RemoveElement
    <3>. QED
      BY <1>3, <3>1
  <2>2. CASE place \notin 1 .. i
    <3>1. (1 .. i) \ {place} = 1 .. i
      BY <2>2
    <3>2. Cardinality((1 .. i) \ {place}) = Cardinality(1 .. i)
      BY <3>1, Zenon
    <3>. QED
      BY <1>3, <3>2
  <2>. QED
    BY <2>1, <2>2
<1>6. Cardinality((1 .. i) \ {place}) <= Cardinality(upTo)
  BY <1>1, <1>4, FS_Subset
<1>7. Cardinality((1 .. i) \ {place}) \in Nat
  BY <1>3, FS_Subset, FS_CardinalityType
<1>. DEFINE kept == Cardinality((1 .. i) \ {place})
            all == Cardinality(upTo)
<1>8. kept \in Int /\ all \in Int /\ i \in Int
  BY <1>4, <1>7
<1>9. i - 1 <= kept /\ kept <= all /\ all <= i + 1
  BY <1>4, <1>5, <1>6
<1>. HIDE DEF kept, all
<1>10. all - i \in -1 .. 1
  BY <1>8, <1>9, WithinOne
<1>. QED
  BY <1>10 DEF all

\* In the server's order no row stands before one of a lower rank.
LEMMA ServerOrderRanks ==
  ASSUME SessionTypes, NEW g \in DOMAIN managed, NEW h \in DOMAIN managed
  PROVE  /\ ServerPlace(g) \in Int
         /\ prio[g] < prio[h] => ServerPlace(g) <= ServerPlace(h)
         /\ ServerPlace(g) <= ServerPlace(h) => prio[g] <= prio[h]
<1>. DEFINE n == Cardinality(There)
<1>1. PICK at \in Bijection(1 .. n, There) :
        /\ ServerOrder = [p \in 1 .. n |-> Rows[at[p]]]
        /\ \A p \in 1 .. n : Place(There, Rank, at[p]) = p
  <2>1. There \in SUBSET Int /\ IsFiniteSet(There) /\ Rank \in [There -> Int]
    BY RankIsTyped
  <2>2. PICK at \in Bijection(1 .. Cardinality(There), There) :
          /\ Arrange(Rows, There, Rank) = [p \in 1 .. Cardinality(There) |-> Rows[at[p]]]
          /\ \A p \in 1 .. Cardinality(There) : Place(There, Rank, at[p]) = p
    BY <2>1, ArrangeMoves
  <2>3. ServerOrder = [p \in 1 .. Cardinality(There) |-> Rows[at[p]]]
    BY <2>2, ServerOrderIs
  <2>. QED
    BY <2>2, <2>3, Zenon
<1>. HIDE DEF n
<1>2. /\ \A p \in 1 .. n : at[p] \in There
      /\ \A i \in There : \E p \in 1 .. n : at[p] = i
  <2>. DEFINE places == 1 .. n
  <2>1. at \in Bijection(places, There)
    BY <1>1
  <2>. HIDE DEF places
  <2>2. /\ \A p \in places : at[p] \in There
        /\ \A i \in There : \E p \in places : at[p] = i
    BY <2>1, BijectionMaps
  <2>. QED
    BY <2>2 DEF places
<1>3. ASSUME NEW f \in DOMAIN managed
      PROVE  \E i \in There : Rows[i] = f /\ ServerPlace(f) = Place(There, Rank, i)
  <2>1. PICK i \in DOMAIN Rows : Rows[i] = f
    BY BoardAssumption DEF Range, SessionTypes
  <2>2. i \in There
    BY <2>1 DEF There
  <2>3. PICK p \in 1 .. n : at[p] = i
    BY <1>2, <2>2
  <2>4. DOMAIN ServerOrder = 1 .. n /\ ServerOrder[p] = f
    BY <1>1, <2>1, <2>3
  <2>5. ASSUME NEW q \in DOMAIN ServerOrder, ServerOrder[q] = f PROVE q = p
    <3>1. q \in 1 .. n /\ Rows[at[q]] = f /\ at[q] \in DOMAIN Rows
      BY <1>1, <1>2, <2>4, <2>5 DEF There
    <3>2. at[q] = i
      BY <2>1, <3>1, BoardAssumption
    <3>. QED
      BY <1>1, <2>3, <3>1, <3>2
  <2>6. ServerPlace(f) = p
    BY <2>4, <2>5 DEF ServerPlace
  <2>. QED
    BY <1>1, <2>1, <2>2, <2>3, <2>6
<1>4. PICK i \in There : Rows[i] = g /\ ServerPlace(g) = Place(There, Rank, i)
  BY <1>3
<1>5. PICK j \in There : Rows[j] = h /\ ServerPlace(h) = Place(There, Rank, j)
  BY <1>3
<1>6. /\ Place(There, Rank, i) \in 1 .. n
      /\ Place(There, Rank, i) <= Place(There, Rank, j) <=> Before(Rank, i, j)
  BY RankIsTyped, PlacesAreOrdered DEF n
<1>7. Rank[i] = prio[g] /\ Rank[j] = prio[h] /\ Rank[i] \in Int /\ Rank[j] \in Int
  BY <1>4, <1>5, RankIsTyped DEF Rank
<1>. QED
  BY <1>4, <1>5, <1>6, <1>7 DEF Before

\* A drag's two requests, in whatever order and however mixed, put every row
\* it showed within one place of where it was dropped (queue.go 13-31,
\* TorrentList.tsx 620-642).
THEOREM DragsLandNearby == BoardSpec => []DragLandsNearby
<1>1. BoardInit => DragInv
  BY DEF BoardInit, DragInv
<1>2. BoardTypes /\ DragInv => DragLandsNearby
  <2>. SUFFICES ASSUME BoardTypes, DragInv, alone, ranks = {}, orders = {}, NEW i \in DOMAIN dragged
                PROVE  Cardinality({k \in DOMAIN dragged :
                                     ServerPlace(dragged[k]) <= ServerPlace(dragged[i])}) - i \in -1 .. 1
    BY DEF DragLandsNearby
  <2>. DEFINE n == Len(dragged)
              rank == [k \in 1 .. n |-> prio[dragged[k]]]
              upTo == {k \in 1 .. n : ServerPlace(dragged[k]) <= ServerPlace(dragged[i])}
  <2>1. dragged \in Seq(Hashes)
    BY DEF DragInv
  <2>2. DOMAIN dragged = 1 .. n /\ n \in Nat
    BY <2>1, LenProperties
  <2>3. \A k \in 1 .. n : dragged[k] \in DOMAIN managed
    BY <2>2 DEF DragInv
  <2>4. PICK place \in DOMAIN dragged : Written(place, n)
    BY DEF DragInv
  <2>5. SessionTypes
    BY DEF BoardTypes, SessionTypes
  <2>6. /\ \A k \in 1 .. n : rank[k] < rank[i] => k \in upTo
        /\ \A k \in upTo : rank[k] <= rank[i]
        /\ i \in upTo
    BY <2>2, <2>3, <2>5, ServerOrderRanks
  <2>7. rank \in [1 .. n -> Int]
    BY <2>3 DEF BoardTypes
  <2>8. \A k \in 1 .. n : rank[k] = k - 1 \/ (k = place /\ rank[k] = place)
    BY <2>4 DEF Written
  <2>9. i \in 1 .. n /\ place \in 1 .. n /\ upTo \in SUBSET (1 .. n)
    BY <2>2
  <2>10. upTo = {k \in DOMAIN dragged : ServerPlace(dragged[k]) <= ServerPlace(dragged[i])}
    BY <2>2
  <2>. HIDE DEF rank, upTo, n
  <2>11. Cardinality(upTo) - i \in -1 .. 1
    BY <2>2, <2>6, <2>7, <2>8, <2>9, OnePlaceAway
  <2>. QED
    BY <2>10, <2>11
<1>. QED
  BY <1>1, <1>2, InitBoard, StepBoard, StepDrag, PTL DEF BoardSpec
==============================================================================
