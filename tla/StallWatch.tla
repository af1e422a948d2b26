----------------------------- MODULE StallWatch -----------------------------
(***************************************************************************)
(* The stall watcher of internal/core/torrent/stall.go beside the user     *)
(* operations and queue moves that change the same torrents.               *)
(*                                                                         *)
(* One goroutine (the 30-second ticker of main) runs CheckStalls over a    *)
(* snapshot of the hashes.  Escalating a torrent to level 3 takes several  *)
(* steps, each under Session.mu or in the database on its own: Pause,      *)
(* stamp, UPDATE, publish.  Resume takes back the mark in memory first     *)
(* and in the database afterwards.                                         *)
(*                                                                         *)
(* The 'stalled' tag is written and cleared in the same critical sections  *)
(* and next to the same statements as stalled_at; one mark stands for      *)
(* both.  The gate pass at the end of Pause and Resume is QueueGate's;     *)
(* what it may do here is GateQueues and GatePromotes.                     *)
(***************************************************************************)
EXTENDS StallDecision, Integers, FiniteSets

CONSTANTS
    Torrent,     \* info hashes; each is added and removed once
    Ops,         \* operations users issue in this instance
    NoTorrent

ASSUME WatchAssumption ==
    /\ NoTorrent \notin Torrent
    /\ Ops \subseteq {"pause", "resume", "force", "remove", "queue"}

VARIABLES
    uptime,          \* since NewSession, up to the grace period
    \* The managed torrents.
    managed, paused, queuePaused, stalledAt,
    sinceAdded, sinceFirstPeer, sinceActivity,
    \* The torrents table.
    rowStalled,
    \* The engine.
    ready, complete,
    swarm,           \* it has active peers now
    moved,           \* data has been read since the watcher last looked
    \* The watcher.
    wpc, wt, todo,
    \* A user inside Resume.
    upc, ut,
    \* Observers.
    announced,       \* stalls published, less the marks that Resume took back
    reported         \* torrents published as dead

clocks  == <<uptime, sinceAdded, sinceFirstPeer, sinceActivity>>
flags   == <<managed, paused, queuePaused>>
engine  == <<ready, complete, swarm, moved>>
watcher == <<wpc, wt, todo>>
user    == <<upc, ut>>
events  == <<announced, reported>>
vars    == <<clocks, flags, stalledAt, rowStalled, engine, watcher, user, events>>

WatcherSteps == {"idle", "next", "classify", "pause", "stamp", "persist"}

-----------------------------------------------------------------------------
Older(age) == IF age \in {Never, Horizon} THEN age ELSE age + 1

\* What stallFor hands to classifyStall: the status is "downloading" unless
\* paused, complete or not, and nothing is missing before metadata.
stallFor(t) ==
    [downloading    |-> ~paused[t],
     uptime         |-> uptime,
     sinceAdded     |-> sinceAdded[t],
     sinceFirstPeer |-> sinceFirstPeer[t],
     sinceActivity  |-> sinceActivity[t],
     bytesMissing   |-> ready[t] /\ ~complete[t],
     hasInfo        |-> ready[t]]

\* The answer of GET /api/v1/stalls.
ListStalled ==
    {t \in Torrent : managed[t] /\ ~paused[t] /\ classifyStall(stallFor(t)) # StallNone}

-----------------------------------------------------------------------------
\* A process that has just started: torrents restored from the table are old,
\* or new ones are added; nothing has been observed of any.
Init ==
    /\ uptime = 0
    /\ managed = [t \in Torrent |-> TRUE]
    /\ stalledAt \in [Torrent -> BOOLEAN]
    /\ rowStalled = stalledAt
    /\ paused = stalledAt
    /\ queuePaused = [t \in Torrent |-> FALSE]
    /\ sinceAdded \in [Torrent -> {0, Horizon}]
    /\ \A t \in Torrent : stalledAt[t] => sinceAdded[t] = Horizon
    /\ sinceFirstPeer = [t \in Torrent |-> Never]
    /\ sinceActivity = [t \in Torrent |-> Never]
    /\ ready = [t \in Torrent |-> FALSE]
    /\ complete = [t \in Torrent |-> FALSE]
    /\ swarm = [t \in Torrent |-> FALSE]
    /\ moved = [t \in Torrent |-> FALSE]
    /\ wpc = "idle" /\ wt = NoTorrent /\ todo = {}
    /\ upc = "idle" /\ ut = NoTorrent
    /\ announced = [t \in Torrent |-> IF stalledAt[t] THEN 1 ELSE 0]
    /\ reported = {}

-----------------------------------------------------------------------------
(* Time and the engine *)

\* CheckStalls reads the clock once per torrent, before it classifies.
Tick ==
    /\ wpc # "classify"
    /\ uptime' = IF uptime < SessionStartupGrace THEN uptime + 1 ELSE uptime
    /\ sinceAdded' = [t \in Torrent |-> Older(sinceAdded[t])]
    /\ sinceFirstPeer' = [t \in Torrent |-> Older(sinceFirstPeer[t])]
    /\ sinceActivity' = [t \in Torrent |-> Older(sinceActivity[t])]
    /\ UNCHANGED <<flags, stalledAt, rowStalled, engine, watcher, user, events>>

\* Metadata arrives; the data may already be on disk.
MetadataArrives(t) ==
    /\ managed[t] /\ ~ready[t]
    /\ ready' = [ready EXCEPT ![t] = TRUE]
    /\ \E onDisk \in BOOLEAN : complete' = [complete EXCEPT ![t] = onDisk]
    /\ UNCHANGED <<clocks, flags, stalledAt, rowStalled, swarm, moved, watcher, user, events>>

PeersComeAndGo(t) ==
    /\ managed[t]
    /\ swarm' = [swarm EXCEPT ![t] = ~@]
    /\ UNCHANGED <<clocks, flags, stalledAt, rowStalled, ready, complete, moved,
                   watcher, user, events>>

\* Data may come in after the requests were cancelled.
DataArrives(t) ==
    /\ managed[t] /\ ready[t] /\ ~complete[t] /\ swarm[t]
    /\ moved' = [moved EXCEPT ![t] = TRUE]
    /\ \E last \in BOOLEAN : complete' = [complete EXCEPT ![t] = last]
    /\ UNCHANGED <<clocks, flags, stalledAt, rowStalled, ready, swarm, watcher, user, events>>

-----------------------------------------------------------------------------
(* Users and the queue *)

Pause(t) ==
    /\ "pause" \in Ops
    /\ managed[t]
    /\ paused' = [paused EXCEPT ![t] = TRUE]
    /\ queuePaused' = [queuePaused EXCEPT ![t] = FALSE]
    /\ UNCHANGED <<clocks, managed, stalledAt, rowStalled, engine, watcher, user, events>>

\* Resume, under the lock.  Only a torrent that was marked has a row to clear.
Resume(t) ==
    /\ "resume" \in Ops
    /\ upc = "idle" /\ managed[t]
    /\ paused' = [paused EXCEPT ![t] = FALSE]
    /\ queuePaused' = [queuePaused EXCEPT ![t] = FALSE]
    /\ stalledAt' = [stalledAt EXCEPT ![t] = FALSE]
    /\ IF stalledAt[t] THEN upc' = "clear" /\ ut' = t ELSE UNCHANGED user
    /\ announced' = [announced EXCEPT ![t] = IF stalledAt[t] THEN @ - 1 ELSE @]
    /\ UNCHANGED <<clocks, managed, rowStalled, engine, watcher, reported>>

\* Resume, after the unlock.
ResumeClearsRow ==
    /\ upc = "clear"
    /\ rowStalled' = [rowStalled EXCEPT ![ut] = FALSE]
    /\ upc' = "idle" /\ ut' = NoTorrent
    /\ UNCHANGED <<clocks, flags, stalledAt, engine, watcher, events>>

ForceStart(t) ==
    /\ "force" \in Ops
    /\ managed[t]
    /\ paused' = [paused EXCEPT ![t] = FALSE]
    /\ UNCHANGED <<clocks, managed, queuePaused, stalledAt, rowStalled, engine,
                   watcher, user, events>>

Remove(t) ==
    /\ "remove" \in Ops
    /\ managed[t]
    /\ managed' = [managed EXCEPT ![t] = FALSE]
    /\ UNCHANGED <<clocks, paused, queuePaused, stalledAt, rowStalled, engine,
                   watcher, user, events>>

\* A gate pass takes the slot of a downloading torrent.
GateQueues(t) ==
    /\ "queue" \in Ops
    /\ managed[t] /\ ~paused[t] /\ ready[t] /\ ~complete[t]
    /\ paused' = [paused EXCEPT ![t] = TRUE]
    /\ queuePaused' = [queuePaused EXCEPT ![t] = TRUE]
    /\ UNCHANGED <<clocks, managed, stalledAt, rowStalled, engine, watcher, user, events>>

\* A gate pass gives a queued torrent its slot back.
GatePromotes(t) ==
    /\ managed[t] /\ paused[t] /\ queuePaused[t] /\ ready[t] /\ ~complete[t]
    /\ paused' = [paused EXCEPT ![t] = FALSE]
    /\ queuePaused' = [queuePaused EXCEPT ![t] = FALSE]
    /\ UNCHANGED <<clocks, managed, stalledAt, rowStalled, engine, watcher, user, events>>

-----------------------------------------------------------------------------
(* CheckStalls *)

\* A pass of the ticker, outside the grace period: the hashes are copied.
StartPass ==
    /\ wpc = "idle"
    /\ uptime >= SessionStartupGrace
    /\ wpc' = "next"
    /\ todo' = {t \in Torrent : managed[t]}
    /\ UNCHANGED <<clocks, flags, stalledAt, rowStalled, engine, wt, user, events>>

\* The next hash is gone by now, or its torrent is paused.
Skip(t) ==
    /\ wpc = "next" /\ t \in todo
    /\ ~managed[t] \/ paused[t]
    /\ todo' = todo \ {t}
    /\ UNCHANGED <<clocks, flags, stalledAt, rowStalled, engine, wpc, wt, user, events>>

\* The next torrent's peers and progress are taken down.
Observe(t) ==
    /\ wpc = "next" /\ t \in todo
    /\ managed[t] /\ ~paused[t]
    /\ todo' = todo \ {t}
    /\ wt' = t
    /\ wpc' = "classify"
    /\ sinceFirstPeer' = [sinceFirstPeer EXCEPT ![t] = IF swarm[t] /\ @ = Never THEN 0 ELSE @]
    /\ sinceActivity' = [sinceActivity EXCEPT ![t] = IF ready[t] /\ moved[t] THEN 0 ELSE @]
    /\ moved' = [moved EXCEPT ![t] = @ /\ ~ready[t]]
    /\ UNCHANGED <<uptime, sinceAdded, flags, stalledAt, rowStalled, ready, complete,
                   swarm, user, events>>

\* Levels 0 to 2 only log; a dead torrent is published on every pass.
ClassifyMild ==
    /\ wpc = "classify"
    /\ LET level == classifyStall(stallFor(wt))
       IN  /\ level # StallLevel3
           /\ reported' = IF level = StallNoPeersEver THEN reported \union {wt} ELSE reported
    /\ wpc' = "next"
    /\ wt' = NoTorrent
    /\ UNCHANGED <<clocks, flags, stalledAt, rowStalled, engine, todo, user, announced>>

\* Mutant of Escalate: the alreadyStalled check is gone.
EscalateAgain ==
    /\ wpc = "classify"
    /\ classifyStall(stallFor(wt)) = StallLevel3
    /\ wpc' = "pause"
    /\ UNCHANGED <<clocks, flags, stalledAt, rowStalled, engine, wt, todo, user, events>>

\* Level 3 of a torrent without the mark.
Escalate ==
    /\ wpc = "classify"
    /\ classifyStall(stallFor(wt)) = StallLevel3
    /\ ~stalledAt[wt]
    /\ wpc' = "pause"
    /\ UNCHANGED <<clocks, flags, stalledAt, rowStalled, engine, wt, todo, user, events>>

\* Level 3 of a torrent that carries the mark already.
AlreadyStalled ==
    /\ wpc = "classify"
    /\ classifyStall(stallFor(wt)) = StallLevel3
    /\ stalledAt[wt]
    /\ wpc' = "next"
    /\ wt' = NoTorrent
    /\ UNCHANGED <<clocks, flags, stalledAt, rowStalled, engine, todo, user, events>>

\* Pause(hash), which fails when the torrent has been removed meanwhile.
PauseStalled ==
    /\ wpc = "pause"
    /\ wpc' = "stamp"
    /\ paused' = [paused EXCEPT ![wt] = @ \/ managed[wt]]
    /\ queuePaused' = [queuePaused EXCEPT ![wt] = @ /\ ~managed[wt]]
    /\ UNCHANGED <<clocks, managed, stalledAt, rowStalled, engine, wt, todo, user, events>>

Stamp ==
    /\ wpc = "stamp"
    /\ wpc' = "persist"
    /\ stalledAt' = [stalledAt EXCEPT ![wt] = @ \/ managed[wt]]
    /\ UNCHANGED <<clocks, flags, rowStalled, engine, wt, todo, user, events>>

\* Mutant of PersistStall: the escalation leaves its torrent behind.
PersistStallStuck ==
    /\ wpc = "persist"
    /\ wpc' = "next"
    /\ rowStalled' = [rowStalled EXCEPT ![wt] = TRUE]
    /\ announced' = [announced EXCEPT ![wt] = @ + 1]
    /\ UNCHANGED <<clocks, flags, stalledAt, engine, wt, todo, user, reported>>

\* The row is marked whether the torrent is still managed or not, and the
\* event goes out.
PersistStall ==
    /\ wpc = "persist"
    /\ wpc' = "next"
    /\ wt' = NoTorrent
    /\ rowStalled' = [rowStalled EXCEPT ![wt] = TRUE]
    /\ announced' = [announced EXCEPT ![wt] = @ + 1]
    /\ UNCHANGED <<clocks, flags, stalledAt, engine, todo, user, reported>>

PassOver ==
    /\ wpc = "next" /\ todo = {}
    /\ wpc' = "idle"
    /\ UNCHANGED <<clocks, flags, stalledAt, rowStalled, engine, wt, todo, user, events>>

-----------------------------------------------------------------------------
CheckStalls ==
    \/ StartPass
    \/ \E t \in Torrent : Skip(t) \/ Observe(t)
    \/ ClassifyMild
    \/ Escalate
    \/ AlreadyStalled
    \/ PauseStalled
    \/ Stamp
    \/ PersistStall
    \/ PassOver

Next ==
    \/ Tick
    \/ CheckStalls
    \/ ResumeClearsRow
    \/ \E t \in Torrent :
          \/ MetadataArrives(t) \/ PeersComeAndGo(t) \/ DataArrives(t)
          \/ Pause(t) \/ Resume(t) \/ ForceStart(t) \/ Remove(t)
          \/ GateQueues(t) \/ GatePromotes(t)

Spec == Init /\ [][Next]_vars

\* Time passes (Tick pauses only while the watcher uses the time it has read,
\* hence strong fairness), the ticker of main fires and its goroutine runs, and a
\* handler that has begun goes on.  The swarm, the queue and the users owe nothing.
Fairness == SF_vars(Tick) /\ WF_vars(CheckStalls) /\ WF_vars(ResumeClearsRow)

FairSpec == Spec /\ Fairness

-----------------------------------------------------------------------------
\* Every variable stays in its type.
TypeOK ==
    /\ uptime \in 0..SessionStartupGrace
    /\ managed \in [Torrent -> BOOLEAN]
    /\ paused \in [Torrent -> BOOLEAN]
    /\ queuePaused \in [Torrent -> BOOLEAN]
    /\ stalledAt \in [Torrent -> BOOLEAN]
    /\ rowStalled \in [Torrent -> BOOLEAN]
    /\ sinceAdded \in [Torrent -> Ages]
    /\ sinceFirstPeer \in [Torrent -> OptAges]
    /\ sinceActivity \in [Torrent -> OptAges]
    /\ ready \in [Torrent -> BOOLEAN]
    /\ complete \in [Torrent -> BOOLEAN]
    /\ swarm \in [Torrent -> BOOLEAN]
    /\ moved \in [Torrent -> BOOLEAN]
    /\ wpc \in WatcherSteps
    /\ wt \in Torrent \union {NoTorrent}
    /\ wt = NoTorrent <=> wpc \in {"idle", "next"}
    /\ todo \subseteq Torrent
    /\ upc \in {"idle", "clear"}
    /\ ut \in Torrent \union {NoTorrent}
    /\ ut = NoTorrent <=> upc = "idle"
    /\ announced \in [Torrent -> Int]
    /\ reported \subseteq Torrent

\* A stall is announced once for each time the mark is given: the event goes out
\* again only after a Resume that took the mark back, however often the torrent
\* is force-started, queued or removed between the steps of the escalation, and
\* whenever that Resume came (stall.go: "stays paused without re-firing the bus
\* event every tick").  A mark restored from the table was announced before.
AnnouncedOncePerMark == \A t \in Torrent : announced[t] <= 1

\* A torrent that is left running without ever finding a peer is published as
\* dead, with or without metadata (the contract with Pilot's stallwatcher).
DeadIsReported ==
    \A t \in Torrent :
        <>[](managed[t] /\ ~paused[t] /\ ~swarm[t] /\ sinceFirstPeer[t] = Never)
            => <>(t \in reported)

\* A transfer that had peers and then stopped for good does not stay running
\* and unmarked.
StoppedTransferIsMarked ==
    \A t \in Torrent :
        ~<>[](/\ managed[t] /\ ~paused[t] /\ ready[t] /\ ~complete[t]
              /\ sinceFirstPeer[t] # Never /\ ~moved[t] /\ ~stalledAt[t])
=============================================================================
