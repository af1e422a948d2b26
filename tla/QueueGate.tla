------------------------------ MODULE QueueGate ------------------------------
(***************************************************************************)
(* The max-active-downloads gate of internal/core/torrent/session.go and   *)
(* everything that feeds it: the session's map of managed torrents, the    *)
(* operations that change a torrent's pause flags, the goroutines          *)
(* waitAndStart and monitorCompletion, and the engine's piece requests.    *)
(*                                                                         *)
(* Session.mu covers single flag writes only.  A gate pass reads the cap,  *)
(* then the priorities, then the map, and writes the flags back one        *)
(* torrent at a time, so passes started by different goroutines overlap.   *)
(* A worker stands for a goroutine inside one operation (an HTTP handler,  *)
(* waitAndStart or monitorCompletion); pc says where in the code it is.    *)
(***************************************************************************)
EXTENDS QueueDecision

CONSTANTS
    Torrent,     \* managed torrents, one per info hash
    Worker,      \* goroutines that may be inside an operation at one time
    Priority,    \* values SetPriority writes
    Cap,         \* values max_active_downloads takes (<= 0: unlimited)
    Ops,         \* what the surroundings do in this instance
    MaxOps,      \* bound: operations users issue in a behaviour
    NoTorrent    \* target of an operation that is about no torrent

AllOps == {"add", "pause", "resume", "force", "remove", "priority", "cap",
           "recheck", "droppanic"}

ASSUME ConstantsAssumption ==
    /\ IsFiniteSet(Torrent)
    /\ NoTorrent \notin Torrent
    /\ Priority \subseteq Int /\ 0 \in Priority
    /\ Cap \subseteq Int
    /\ Ops \subseteq AllOps
    /\ MaxOps \in Nat

VARIABLES
    \* The session's memory, under Session.mu.
    torrents,     \* the keys of the map
    paused, queuePaused,
    \* The torrents table: removed rows stay, SetPriority changes the column.
    rows, prio,
    \* The engine and the two goroutines of a torrent.
    ready,        \* metadata has arrived
    complete,     \* BytesMissing() == 0
    fetching,     \* DownloadAll was called last, not CancelPieces
    phase,        \* how far waitAndStart / monitorCompletion got
    startPaused,  \* the `paused` argument waitAndStart was called with
    \* The runtime setting.
    maxActiveDownloads,
    \* The goroutines inside an operation.
    pc, op, target, resuming, passes,
    \* The locals of a gate pass.
    capSeen, priorityIdx, entries, pausedAtSnapshot, action, current,
    \* Observers, read by no guard except the budget of user operations.
    intent,       \* what was last asked for each torrent
    forced,       \* torrents whose last request was ForceStart
    frozen,       \* per pass: torrents that were user-paused at its snapshot
    disturbed,    \* passes whose inputs somebody else changed since they began
    settled,      \* the last undisturbed pass is still the latest change
    issued        \* operations issued so far

map     == <<torrents, paused, queuePaused>>
table   == <<rows, prio>>
engine  == <<ready, complete, fetching, phase, startPaused>>
calls   == <<pc, op, target, resuming, passes>>
locals  == <<capSeen, priorityIdx, entries, pausedAtSnapshot, action, current, frozen>>
asked   == <<intent, forced, issued>>
watched == <<disturbed, settled>>
vars    == <<map, table, engine, maxActiveDownloads, calls, locals, asked, watched>>

Steps    == {"idle", "persist", "engine", "cap", "prio", "snapshot", "decide",
             "apply", "applyEngine", "passEnd"}
OpNames  == {"none", "add", "pause", "resume", "force", "remove", "priority",
             "cap", "start", "complete"}
Phases   == {"absent", "adding", "waiting", "starting", "watching", "finished"}
Requests == {"run", "pause"}
Actions  == {"keep", "resume", "queue"}

-----------------------------------------------------------------------------
(* Helper state formulae *)

NoRows == [t \in {} |-> 0]
PriorityReads == UNION {[R -> Priority] : R \in SUBSET Torrent}

\* Mutant of Eligible: user-paused torrents compete for slots too.
EligibleEvenIfPaused == {t \in torrents : ready[t] /\ ~complete[t]}

\* The torrents a pass considers: not user-paused, with metadata, incomplete.
Eligible == {t \in torrents : /\ ~(paused[t] /\ ~queuePaused[t])
                              /\ ready[t]
                              /\ ~complete[t]}

\* What the priority query returns: removed rows too.
PriorityOrder == [t \in rows |-> prio[t]]

UserPaused(t) == paused[t] /\ ~queuePaused[t]
Downloading   == {t \in Eligible : ~paused[t]}
Queued        == {t \in Eligible : paused[t]}
Idle          == \A w \in Worker : pc[w] = "idle"

\* What pass w does next: its "resume" entries in order, then its "queue" ones.
Pending(w, kind) == {i \in DOMAIN action[w] : action[w][i] = kind}
NextEntries(w) ==
    LET rest == IF Pending(w, "resume") # {} THEN Pending(w, "resume")
                                             ELSE Pending(w, "queue")
    IN  {i \in rest : \A j \in rest : i <= j}

-----------------------------------------------------------------------------
Init ==
    \E restored \in SUBSET Torrent, isStalled \in [Torrent -> BOOLEAN] :
        /\ \A t \in Torrent \ restored : ~isStalled[t]
        /\ torrents = restored
        /\ rows = restored
        /\ prio \in [Torrent -> Priority]
        /\ \A t \in Torrent \ restored : prio[t] = 0
        /\ paused = isStalled
        /\ queuePaused = [t \in Torrent |-> FALSE]
        /\ ready = [t \in Torrent |-> FALSE]
        /\ complete = [t \in Torrent |-> FALSE]
        /\ fetching = [t \in Torrent |-> FALSE]
        /\ phase = [t \in Torrent |-> IF t \in restored THEN "waiting" ELSE "absent"]
        /\ startPaused = isStalled
        /\ maxActiveDownloads \in Cap
        /\ pc = [w \in Worker |-> "idle"]
        /\ op = [w \in Worker |-> "none"]
        /\ target = [w \in Worker |-> NoTorrent]
        /\ resuming = [w \in Worker |-> FALSE]
        /\ passes = [w \in Worker |-> 0]
        /\ capSeen = [w \in Worker |-> 0]
        /\ priorityIdx = [w \in Worker |-> NoRows]
        /\ entries = [w \in Worker |-> <<>>]
        /\ pausedAtSnapshot = [w \in Worker |-> <<>>]
        /\ action = [w \in Worker |-> <<>>]
        /\ current = [w \in Worker |-> 0]
        /\ intent = [t \in Torrent |-> IF isStalled[t] THEN "pause" ELSE "run"]
        /\ forced = {}
        /\ frozen = [w \in Worker |-> {}]
        /\ disturbed = [w \in Worker |-> FALSE]
        /\ settled = FALSE
        /\ issued = 0

-----------------------------------------------------------------------------
(* Operations and background goroutines *)

\* A goroutine takes up an operation: it goes on at `step`, and will run
\* `gates` passes of the gate before it returns.
Begin(w, name, t, step, on, gates) ==
    /\ pc[w] = "idle"
    /\ pc' = [pc EXCEPT ![w] = step]
    /\ op' = [op EXCEPT ![w] = name]
    /\ target' = [target EXCEPT ![w] = t]
    /\ resuming' = [resuming EXCEPT ![w] = on]
    /\ passes' = [passes EXCEPT ![w] = gates]

\* The operation returns; its locals are gone.
Return(w) ==
    /\ pc' = [pc EXCEPT ![w] = "idle"]
    /\ op' = [op EXCEPT ![w] = "none"]
    /\ target' = [target EXCEPT ![w] = NoTorrent]
    /\ resuming' = [resuming EXCEPT ![w] = FALSE]
    /\ passes' = [passes EXCEPT ![w] = 0]

\* Mutant of ToGate: a pass is run that nobody asked for.
ToGateAlways(w) ==
    pc' = [pc EXCEPT ![w] = "cap"] /\ UNCHANGED <<op, target, resuming, passes>>

\* The operation goes on to the gate, or returns if it runs none.
ToGate(w) ==
    IF passes[w] = 0
      THEN Return(w)
      ELSE pc' = [pc EXCEPT ![w] = "cap"] /\ UNCHANGED <<op, target, resuming, passes>>

Request(name) == name \in Ops /\ issued < MaxOps /\ issued' = issued + 1

\* Something a gate pass reads changes under every pass but w's own.
Disturb(w) ==
    /\ disturbed' = [v \in Worker |-> v # w \/ disturbed[v]]
    /\ settled' = FALSE
DisturbAll ==
    /\ disturbed' = [v \in Worker |-> TRUE]
    /\ settled' = FALSE

SetFlags(t, p, q) ==
    /\ paused' = [paused EXCEPT ![t] = p]
    /\ queuePaused' = [queuePaused EXCEPT ![t] = q]

\* Add, up to the map insert.  A hash is added once here; Lifecycle has re-adds.
Add(w, t, p) ==
    /\ Request("add")
    /\ phase[t] = "absent"
    /\ Begin(w, "add", t, "persist", FALSE, 0)
    /\ torrents' = torrents \union {t}
    /\ SetFlags(t, p, FALSE)
    /\ phase' = [phase EXCEPT ![t] = "adding"]
    /\ startPaused' = [startPaused EXCEPT ![t] = p]
    /\ intent' = [intent EXCEPT ![t] = IF p THEN "pause" ELSE "run"]
    /\ Disturb(w)
    /\ UNCHANGED <<table, ready, complete, fetching, maxActiveDownloads, locals, forced>>

\* Add, from persistTorrent on: the row exists and waitAndStart is running.
Persist(w) ==
    /\ pc[w] = "persist"
    /\ rows' = rows \union {target[w]}
    /\ phase' = [phase EXCEPT ![target[w]] = "waiting"]
    /\ Return(w)
    /\ Disturb(w)
    /\ UNCHANGED <<map, prio, ready, complete, fetching, startPaused,
                   maxActiveDownloads, locals, asked>>

\* waitAndStart after GotInfo: the verification of a restored torrent (see
\* EngineCompletes), DownloadAll unless its own argument says paused, a gate pass.
StartReady(w, t) ==
    /\ phase[t] = "waiting"
    /\ Begin(w, "start", t, IF startPaused[t] THEN "cap" ELSE "engine", TRUE, 1)
    /\ ready' = [ready EXCEPT ![t] = TRUE]
    /\ phase' = [phase EXCEPT ![t] = "starting"]
    /\ Disturb(w)
    /\ UNCHANGED <<map, table, complete, fetching, startPaused,
                   maxActiveDownloads, locals, asked>>

\* A tick of monitorCompletion that finds nothing missing; the goroutine runs a
\* pass and ends.
Completed(w, t) ==
    /\ phase[t] = "watching"
    /\ complete[t]
    /\ Begin(w, "complete", t, "cap", FALSE, 1)
    /\ phase' = [phase EXCEPT ![t] = "finished"]
    /\ UNCHANGED <<map, table, ready, complete, fetching, startPaused,
                   maxActiveDownloads, locals, asked, watched>>

\* With pause_on_complete it calls Pause first, which runs a pass of its own.
CompletedAndPaused(w, t) ==
    /\ phase[t] = "watching"
    /\ complete[t]
    /\ t \in torrents
    /\ Begin(w, "complete", t, "engine", FALSE, 2)
    /\ phase' = [phase EXCEPT ![t] = "finished"]
    /\ SetFlags(t, TRUE, FALSE)
    /\ intent' = [intent EXCEPT ![t] = "pause"]
    /\ forced' = forced \ {t}
    /\ Disturb(w)
    /\ UNCHANGED <<torrents, table, ready, complete, fetching, startPaused,
                   maxActiveDownloads, locals, issued>>

\* A tick of monitorCompletion that finds the torrent removed.
MonitorQuits(t) ==
    /\ phase[t] = "watching"
    /\ ~complete[t]
    /\ t \notin torrents
    /\ phase' = [phase EXCEPT ![t] = "finished"]
    /\ UNCHANGED <<map, table, ready, complete, fetching, startPaused,
                   maxActiveDownloads, calls, locals, asked, watched>>

\* Mutant of Pause: the mistake TestPause_ClearsQueuePausedFlag is about.
PauseKeepsQueueFlag(w, t) ==
    /\ Request("pause")
    /\ t \in torrents
    /\ Begin(w, "pause", t, "engine", FALSE, 1)
    /\ SetFlags(t, TRUE, queuePaused[t])
    /\ intent' = [intent EXCEPT ![t] = "pause"]
    /\ forced' = forced \ {t}
    /\ Disturb(w)
    /\ UNCHANGED <<torrents, table, engine, maxActiveDownloads, locals>>

Pause(w, t) ==
    /\ Request("pause")
    /\ t \in torrents
    /\ Begin(w, "pause", t, "engine", FALSE, 1)
    /\ SetFlags(t, TRUE, FALSE)
    /\ intent' = [intent EXCEPT ![t] = "pause"]
    /\ forced' = forced \ {t}
    /\ Disturb(w)
    /\ UNCHANGED <<torrents, table, engine, maxActiveDownloads, locals>>

Resume(w, t) ==
    /\ Request("resume")
    /\ t \in torrents
    /\ Begin(w, "resume", t, "engine", TRUE, 1)
    /\ SetFlags(t, FALSE, FALSE)
    /\ intent' = [intent EXCEPT ![t] = "run"]
    /\ forced' = forced \ {t}
    /\ Disturb(w)
    /\ UNCHANGED <<torrents, table, engine, maxActiveDownloads, locals>>

\* ForceStart clears `paused`, leaves queuePaused as it was and runs no pass.
ForceStart(w, t) ==
    /\ Request("force")
    /\ t \in torrents
    /\ Begin(w, "force", t, "engine", TRUE, 0)
    /\ paused' = [paused EXCEPT ![t] = FALSE]
    /\ intent' = [intent EXCEPT ![t] = "run"]
    /\ forced' = forced \union {t}
    /\ Disturb(w)
    /\ UNCHANGED <<torrents, queuePaused, table, engine, maxActiveDownloads, locals>>

\* Mutant of Remove: the freed slot is not offered to the queue.
RemoveWithoutGate(w, t) ==
    /\ Request("remove")
    /\ t \in torrents
    /\ Begin(w, "remove", t, "engine", FALSE, 0)
    /\ torrents' = torrents \ {t}
    /\ forced' = forced \ {t}
    /\ Disturb(w)
    /\ UNCHANGED <<paused, queuePaused, table, engine, maxActiveDownloads, locals, intent>>

Remove(w, t) ==
    /\ Request("remove")
    /\ t \in torrents
    /\ Begin(w, "remove", t, "engine", FALSE, 1)
    /\ torrents' = torrents \ {t}
    /\ forced' = forced \ {t}
    /\ Disturb(w)
    /\ UNCHANGED <<paused, queuePaused, table, engine, maxActiveDownloads, locals, intent>>

\* Mutant of SetPriority: the new rank is stored, the queue is not reordered.
SetPriorityWithoutGate(w, t, p) ==
    /\ Request("priority")
    /\ t \in torrents
    /\ pc[w] = "idle"
    /\ prio' = [prio EXCEPT ![t] = IF t \in rows THEN p ELSE @]
    /\ Disturb(w)
    /\ UNCHANGED <<map, rows, engine, maxActiveDownloads, calls, locals, intent, forced>>

SetPriority(w, t, p) ==
    /\ Request("priority")
    /\ t \in torrents
    /\ Begin(w, "priority", t, "cap", FALSE, 1)
    /\ prio' = [prio EXCEPT ![t] = IF t \in rows THEN p ELSE @]
    /\ Disturb(w)
    /\ UNCHANGED <<map, rows, engine, maxActiveDownloads, locals, intent, forced>>

SetMaxActiveDownloads(w, n) ==
    /\ Request("cap")
    /\ Begin(w, "cap", NoTorrent, "cap", FALSE, 1)
    /\ maxActiveDownloads' = n
    /\ Disturb(w)
    /\ UNCHANGED <<map, table, engine, locals, intent, forced>>

\* Recheck finds bad data: pieces are missing again, and nobody runs the gate.
Recheck(t) ==
    /\ Request("recheck")
    /\ t \in torrents
    /\ ready[t] /\ complete[t]
    /\ complete' = [complete EXCEPT ![t] = FALSE]
    /\ DisturbAll
    /\ UNCHANGED <<map, table, ready, fetching, phase, startPaused,
                   maxActiveDownloads, calls, locals, intent, forced>>

\* The engine obtains the last missing piece of a torrent it was told to fetch; or
\* it finds all of them on the disk: VerifyDataContext before a restored torrent is
\* started, the piece completion of one added again.
\* No pass reads anything about a torrent that was removed.
EngineCompletes(t) ==
    /\ ready[t] /\ ~complete[t]
    /\ fetching[t] \/ phase[t] = "starting"
    /\ complete' = [complete EXCEPT ![t] = TRUE]
    /\ IF t \in torrents THEN DisturbAll ELSE UNCHANGED watched
    /\ UNCHANGED <<map, table, ready, fetching, phase, startPaused,
                   maxActiveDownloads, calls, locals, asked>>

\* DownloadAll, CancelPieces or Drop, outside the lock.  Before metadata the
\* engine panics or ignores the call, and Drop may panic at any time: a
\* recovered panic ends the handler before its gate pass.
EngineCall(w) ==
    /\ pc[w] = "engine"
    /\ \/ /\ ready[target[w]] \/ op[w] = "remove"
          /\ fetching' = [fetching EXCEPT ![target[w]] = resuming[w]]
          /\ ToGate(w)
       \/ /\ ~ready[target[w]] /\ op[w] # "remove"
          /\ ToGate(w) \/ Return(w)
          /\ UNCHANGED fetching
       \/ /\ op[w] = "remove" /\ "droppanic" \in Ops
          /\ Return(w)
          /\ UNCHANGED fetching
    /\ UNCHANGED <<map, table, ready, complete, phase, startPaused,
                   maxActiveDownloads, locals, asked, watched>>

-----------------------------------------------------------------------------
(* A pass of enforceMaxActiveDownloads; a local is cleared after its last use *)

GateReadsCap(w) ==
    /\ pc[w] = "cap"
    /\ pc' = [pc EXCEPT ![w] = "prio"]
    /\ passes' = [passes EXCEPT ![w] = @ - 1]
    /\ capSeen' = [capSeen EXCEPT ![w] = maxActiveDownloads]
    /\ disturbed' = [disturbed EXCEPT ![w] = FALSE]
    /\ UNCHANGED <<map, table, engine, maxActiveDownloads, op, target, resuming,
                   priorityIdx, entries, pausedAtSnapshot, action, current, frozen,
                   asked, settled>>

GateReadsPriorities(w) ==
    /\ pc[w] = "prio"
    /\ pc' = [pc EXCEPT ![w] = "snapshot"]
    /\ priorityIdx' = [priorityIdx EXCEPT ![w] = PriorityOrder]
    /\ UNCHANGED <<map, table, engine, maxActiveDownloads, op, target, resuming, passes,
                   capSeen, entries, pausedAtSnapshot, action, current, frozen, asked, watched>>

\* The map is filtered under the read lock, then sorted by priority.
GateSnapshots(w) ==
    /\ pc[w] = "snapshot"
    /\ pc' = [pc EXCEPT ![w] = "decide"]
    /\ \E s \in Rankings(Eligible, priorityIdx[w]) :
          /\ entries' = [entries EXCEPT ![w] = s]
          /\ pausedAtSnapshot' =
                [pausedAtSnapshot EXCEPT ![w] = [i \in DOMAIN s |-> paused[s[i]]]]
    /\ frozen' = [frozen EXCEPT ![w] = {t \in torrents : UserPaused(t)}]
    /\ priorityIdx' = [priorityIdx EXCEPT ![w] = NoRows]
    /\ UNCHANGED <<map, table, engine, maxActiveDownloads, op, target, resuming, passes,
                   capSeen, action, current, asked, watched>>

\* The flags are read again after the unlock, unsynchronised: each read may
\* return the value at the snapshot or the present one.
GateDecides(w) ==
    /\ pc[w] = "decide"
    /\ \E seen \in [DOMAIN entries[w] -> BOOLEAN] :
          /\ \A i \in DOMAIN entries[w] :
                seen[i] \in {pausedAtSnapshot[w][i], paused[entries[w][i]]}
          /\ LET todo == queueGateDecision(seen, capSeen[w])
             IN  /\ action' = [action EXCEPT ![w] = todo]
                 /\ pc' = [pc EXCEPT ![w] =
                             IF \A i \in DOMAIN todo : todo[i] = "keep" THEN "passEnd" ELSE "apply"]
    /\ capSeen' = [capSeen EXCEPT ![w] = 0]
    /\ pausedAtSnapshot' = [pausedAtSnapshot EXCEPT ![w] = <<>>]
    /\ UNCHANGED <<map, table, engine, maxActiveDownloads, op, target, resuming, passes,
                   priorityIdx, entries, current, frozen, asked, watched>>

\* The flags of one torrent are written under the lock, whatever they are now.
GateApplies(w) ==
    /\ pc[w] = "apply"
    /\ \E i \in NextEntries(w) :
          /\ LET pausing == action[w][i] = "queue"
             IN  SetFlags(entries[w][i], pausing, pausing)
          /\ current' = [current EXCEPT ![w] = i]
    /\ pc' = [pc EXCEPT ![w] = "applyEngine"]
    /\ Disturb(w)
    /\ UNCHANGED <<torrents, table, engine, maxActiveDownloads, op, target, resuming, passes,
                   capSeen, priorityIdx, entries, pausedAtSnapshot, action, frozen, asked>>

\* DownloadAll or CancelPieces for that torrent, after the unlock.
GateCallsEngine(w) ==
    /\ pc[w] = "applyEngine"
    /\ LET i == current[w]
           todo == [action[w] EXCEPT ![i] = "keep"]
       IN  /\ fetching' = [fetching EXCEPT ![entries[w][i]] = action[w][i] = "resume"]
           /\ current' = [current EXCEPT ![w] = 0]
           /\ action' = [action EXCEPT ![w] = todo]
           /\ pc' = [pc EXCEPT ![w] =
                       IF \A j \in DOMAIN todo : todo[j] = "keep" THEN "passEnd" ELSE "apply"]
    /\ UNCHANGED <<map, table, ready, complete, phase, startPaused, maxActiveDownloads,
                   op, target, resuming, passes, capSeen, priorityIdx, entries,
                   pausedAtSnapshot, frozen, asked, watched>>

\* The pass is over: an operation with a pass left begins it, the others
\* return, and waitAndStart spawns monitorCompletion.
PassEnds(w) ==
    /\ pc[w] = "passEnd"
    /\ settled' = (settled \/ ~disturbed[w])
    /\ entries' = [entries EXCEPT ![w] = <<>>]
    /\ action' = [action EXCEPT ![w] = <<>>]
    /\ frozen' = [frozen EXCEPT ![w] = {}]
    /\ ToGate(w)
    /\ phase' = IF op[w] = "start" THEN [phase EXCEPT ![target[w]] = "watching"] ELSE phase
    /\ UNCHANGED <<map, table, ready, complete, fetching, startPaused,
                   maxActiveDownloads, capSeen, priorityIdx, pausedAtSnapshot, current,
                   asked, disturbed>>

-----------------------------------------------------------------------------
UserOperation(w) ==
    \/ \E t \in Torrent :
          \/ \E p \in BOOLEAN : Add(w, t, p)
          \/ Pause(w, t)
          \/ Resume(w, t)
          \/ ForceStart(w, t)
          \/ Remove(w, t)
          \/ \E p \in Priority : SetPriority(w, t, p)
    \/ \E n \in Cap : SetMaxActiveDownloads(w, n)

GatePass(w) ==
    \/ GateReadsCap(w)
    \/ GateReadsPriorities(w)
    \/ GateSnapshots(w)
    \/ GateDecides(w)
    \/ GateApplies(w)
    \/ GateCallsEngine(w)
    \/ PassEnds(w)

Proceed(w) == Persist(w) \/ EngineCall(w) \/ GatePass(w)

Monitor(w, t) == Completed(w, t) \/ CompletedAndPaused(w, t)

Next ==
    \/ \E w \in Worker :
          \/ UserOperation(w)
          \/ \E t \in Torrent : StartReady(w, t) \/ Monitor(w, t)
          \/ Proceed(w)
    \/ \E t \in Torrent : MonitorQuits(t) \/ Recheck(t) \/ EngineCompletes(t)

Spec == Init /\ [][Next]_vars

\* The Go scheduler runs every runnable goroutine, and the ticker of
\* monitorCompletion keeps firing.  Metadata may never arrive, pieces may never
\* come, and users owe nothing.
Fairness ==
    /\ \A w \in Worker : WF_vars(Proceed(w))
    /\ \A t \in Torrent : WF_vars(\E w \in Worker : Monitor(w, t))

FairSpec == Spec /\ Fairness

-----------------------------------------------------------------------------
(* Type invariant *)

\* Every variable stays in its type; the locals of a pass have the same length.
TypeOK ==
    /\ torrents \subseteq Torrent
    /\ rows \subseteq Torrent
    /\ paused \in [Torrent -> BOOLEAN]
    /\ queuePaused \in [Torrent -> BOOLEAN]
    /\ prio \in [Torrent -> Priority]
    /\ ready \in [Torrent -> BOOLEAN]
    /\ complete \in [Torrent -> BOOLEAN]
    /\ fetching \in [Torrent -> BOOLEAN]
    /\ phase \in [Torrent -> Phases]
    /\ startPaused \in [Torrent -> BOOLEAN]
    /\ maxActiveDownloads \in Cap
    /\ pc \in [Worker -> Steps]
    /\ op \in [Worker -> OpNames]
    /\ target \in [Worker -> Torrent \union {NoTorrent}]
    /\ resuming \in [Worker -> BOOLEAN]
    /\ passes \in [Worker -> 0..2]
    /\ capSeen \in [Worker -> Cap \union {0}]
    /\ priorityIdx \in [Worker -> PriorityReads]
    /\ entries \in [Worker -> Seq(Torrent)]
    /\ pausedAtSnapshot \in [Worker -> Seq(BOOLEAN)]
    /\ action \in [Worker -> Seq(Actions)]
    /\ current \in [Worker -> Nat]
    /\ intent \in [Torrent -> Requests]
    /\ forced \subseteq Torrent
    /\ frozen \in [Worker -> SUBSET Torrent]
    /\ disturbed \in [Worker -> BOOLEAN]
    /\ settled \in BOOLEAN
    /\ issued \in Nat

-----------------------------------------------------------------------------
(* Safety *)

\* The torrents that download are the first ones of some ranking of the
\* candidates by priority, as many as the cap allows, and no others.
Balanced ==
    \E s \in Rankings(Eligible, PriorityOrder) :
        \A i \in DOMAIN s :
            ~paused[s[i]] <=> (maxActiveDownloads <= 0 \/ i <= maxActiveDownloads)

\* When a gate pass that nobody disturbed has ended, and until something
\* changes, exactly the top max_active_downloads candidates download
\* (enforceMaxActiveDownloads), however many other operations are in flight.
SettledIsBalanced == settled => Balanced

\* A pass leaves alone every torrent that was user-paused when it took its
\* snapshot, whatever has happened to the torrent since and whatever other passes
\* do (the "sticky user pause" of enforceMaxActiveDownloads).
SnapshotPausesAreKept ==
    [][\A w \in Worker : GateApplies(w) =>
          \A t \in frozen[w] : UNCHANGED <<paused[t], queuePaused[t]>>]_vars

\* With no operation in flight the number of downloading torrents respects the
\* cap, unless the latest change was one that runs no pass (ForceStart) or that
\* no operation made (EngineCompletes, Recheck).
CapWhenIdle ==
    Idle /\ forced = {} /\ maxActiveDownloads > 0
        => Cardinality(Downloading) <= maxActiveDownloads

\* A torrent the user paused last stays paused, and not merely queued, until
\* the user asks for something else (session.go: "stay paused forever until the
\* user explicitly resumes them").
PauseIsSticky ==
    \A t \in torrents : intent[t] = "pause" => UserPaused(t)

\* Between operations, with no forced torrent and no completion that its
\* monitor has yet to notice, exactly the top max_active_downloads candidates
\* download: every operation that changes the queue has put it right before it
\* returned, though torrents may have completed in the middle of its pass.
IdleIsBalanced ==
    Idle /\ forced = {} /\ (\A t \in Torrent : complete[t] => phase[t] # "watching")
        => Balanced

-----------------------------------------------------------------------------
(* Liveness *)

SlotFree == maxActiveDownloads > 0 /\ Cardinality(Downloading) < maxActiveDownloads

\* A queued torrent does not wait forever beside a free slot: the operation that
\* freed the slot promotes one (Pause: "let the queue gate promote a queued
\* torrent into the gap").
NoIdleSlot == (SlotFree /\ Queued # {}) ~> ~(SlotFree /\ Queued # {})
=============================================================================
