------------------------------ MODULE Lifecycle ------------------------------
(***************************************************************************)
(* The life of a torrent across crashes and restarts: Add, Remove, the     *)
(* goroutines waitAndStart and monitorCompletion, the torrents table, and  *)
(* restoreFromDB (internal/core/torrent/session.go).                       *)
(*                                                                         *)
(* Memory, engine and table change one after another, never together.  A   *)
(* crash may fall between any two steps; it forgets memory and engine and  *)
(* keeps the table and the files.  Rows are never deleted here: Remove     *)
(* stamps removed_at, and a later Add of the same hash revives the row.    *)
(***************************************************************************)
EXTENDS Naturals, FiniteSets

CONSTANTS
    Torrent,          \* info hashes
    Worker,           \* request handlers at work at one time
    DriverFormats,    \* how the SQLite driver may write a time.Time
    Overlap,          \* TRUE: Add and Remove of one hash may overlap
    NoTorrent,
    MaxAdds,          \* bound: calls of Add in a behaviour
    MaxCrashes        \* bound: crashes in a behaviour

Formats == {"rfc3339", "goString"}
Stamps  == Formats \union {"null"}

ASSUME LifecycleAssumption ==
    /\ NoTorrent \notin Torrent
    /\ DriverFormats \subseteq Formats
    /\ Overlap \in BOOLEAN
    /\ MaxAdds \in Nat /\ MaxCrashes \in Nat

VARIABLES
    \* The process.
    phase,            \* "restoring" inside NewSession, then "up"
    pending,          \* rows restoreFromDB has read and not yet treated
    \* Session memory.
    managed, ready, paused, stalledAt,
    \* The engine: its handles and the goroutines that wait on them.
    engine, starting, saving, monitors,
    \* Files on disk.
    downloaded,
    \* The torrents table.
    present, removed, torrentData, completedAt, rowStalledAt,
    \* Handlers.
    pc, target,
    \* Observers.
    gone,             \* Remove returned, no Add since
    kept,             \* resume data saved, no Remove since
    adds, crashes

memory   == <<managed, ready, paused, stalledAt>>
handles  == <<engine, starting, saving, monitors>>
table    == <<present, removed, torrentData, completedAt, rowStalledAt>>
handlers == <<pc, target>>
seen     == <<gone, kept, adds, crashes>>
vars     == <<phase, pending, memory, handles, downloaded, table, handlers, seen>>

-----------------------------------------------------------------------------
\* restoreFromDB reads times with time.Parse(time.RFC3339, _) and ignores the
\* error: a stamp in another format reads as no stamp.
Parses(stamp) == stamp = "rfc3339"

\* Mutant of LiveRows: the query without its removed_at predicate.
AllRows == present

LiveRows == {t \in present : t \notin removed}

Free(t) == Overlap \/ \A w \in Worker : target[w] # t

\* Mutant of AfterDrop: deleteTorrent is called at the end, not deferred.
AfterDropNoDefer(panics) == IF panics THEN "idle" ELSE "delete"

\* Where Remove goes on after Drop: the deferred deleteTorrent runs either way.
AfterDrop(panics) == "delete"

-----------------------------------------------------------------------------
Init ==
    /\ phase = "restoring"
    /\ pending = {}
    /\ managed = {} /\ ready = {} /\ paused = {} /\ stalledAt = {}
    /\ engine = {} /\ starting = {} /\ saving = {}
    /\ monitors = {}
    /\ downloaded = {}
    /\ present = {} /\ removed = {} /\ torrentData = {}
    /\ completedAt = [t \in Torrent |-> "null"]
    /\ rowStalledAt = [t \in Torrent |-> "null"]
    /\ pc = [w \in Worker |-> "idle"]
    /\ target = [w \in Worker |-> NoTorrent]
    /\ gone = {} /\ kept = {}
    /\ adds = 0 /\ crashes = 0

-----------------------------------------------------------------------------
(* Add *)

\* Up to the map insert.  The engine returns the handle it has, or a new one;
\* the map entry is replaced either way.
Add(w, t) ==
    /\ phase = "up"
    /\ pc[w] = "idle" /\ Free(t)
    /\ adds < MaxAdds /\ adds' = adds + 1
    /\ engine' = engine \union {t}
    /\ managed' = managed \union {t}
    /\ \E p \in BOOLEAN : paused' = IF p THEN paused \union {t} ELSE paused \ {t}
    /\ ready' = ready \ {t}
    /\ stalledAt' = stalledAt \ {t}
    /\ pc' = [pc EXCEPT ![w] = "persist"]
    /\ target' = [target EXCEPT ![w] = t]
    /\ gone' = gone \ {t}
    /\ UNCHANGED <<phase, pending, starting, saving, monitors, downloaded, table, kept, crashes>>

\* Mutant of Persist: the upsert leaves removed_at as it was.
PersistKeepsRemoved(w) ==
    /\ pc[w] = "persist"
    /\ present' = present \union {target[w]}
    /\ starting' = starting \union {target[w]}
    /\ pc' = [pc EXCEPT ![w] = "idle"]
    /\ target' = [target EXCEPT ![w] = NoTorrent]
    /\ UNCHANGED <<phase, pending, memory, engine, saving, monitors, downloaded,
                   removed, torrentData, completedAt, rowStalledAt, seen>>

\* persistTorrent revives the row and keeps the columns it does not name, then
\* waitAndStart is spawned.
Persist(w) ==
    /\ pc[w] = "persist"
    /\ present' = present \union {target[w]}
    /\ removed' = removed \ {target[w]}
    /\ starting' = starting \union {target[w]}
    /\ pc' = [pc EXCEPT ![w] = "idle"]
    /\ target' = [target EXCEPT ![w] = NoTorrent]
    /\ UNCHANGED <<phase, pending, memory, engine, saving, monitors, downloaded,
                   torrentData, completedAt, rowStalledAt, seen>>

-----------------------------------------------------------------------------
(* Remove *)

Remove(w, t) ==
    /\ phase = "up"
    /\ pc[w] = "idle" /\ Free(t)
    /\ t \in managed
    /\ managed' = managed \ {t}
    /\ pc' = [pc EXCEPT ![w] = "drop"]
    /\ target' = [target EXCEPT ![w] = t]
    /\ kept' = kept \ {t}
    /\ UNCHANGED <<phase, pending, ready, paused, stalledAt, handles, downloaded, table,
                   gone, adds, crashes>>

\* Drop closes the handle, so whoever waits on it for metadata waits forever; it
\* may panic.  Without the panic the files may be deleted.
Drop(w) ==
    /\ pc[w] = "drop"
    /\ engine' = engine \ {target[w]}
    /\ starting' = starting \ {target[w]}
    /\ \E panics \in BOOLEAN, deleteFiles \in BOOLEAN :
          /\ downloaded' = IF deleteFiles /\ ~panics THEN downloaded \ {target[w]}
                                                     ELSE downloaded
          /\ pc' = [pc EXCEPT ![w] = AfterDrop(panics)]
          /\ target' = [target EXCEPT ![w] = IF pc'[w] = "idle" THEN NoTorrent ELSE @]
          /\ gone' = IF pc'[w] = "idle" THEN gone \union {target[w]} ELSE gone
    /\ UNCHANGED <<phase, pending, memory, saving, monitors, table, kept, adds, crashes>>

\* The deferred deleteTorrent: every row of the hash that is live is stamped.
Delete(w) ==
    /\ pc[w] = "delete"
    /\ removed' = removed \union ({target[w]} \intersect present)
    /\ pc' = [pc EXCEPT ![w] = "idle"]
    /\ target' = [target EXCEPT ![w] = NoTorrent]
    /\ gone' = IF target[w] \in managed THEN gone ELSE gone \union {target[w]}
    /\ UNCHANGED <<phase, pending, memory, handles, downloaded, present, torrentData,
                   completedAt, rowStalledAt, kept, adds, crashes>>

-----------------------------------------------------------------------------
(* The goroutines of a torrent, those of one hash merged, and the watcher *)

\* waitAndStart: GotInfo fires on a live handle.
MetadataArrives(t) ==
    /\ t \in starting /\ t \in engine
    /\ starting' = starting \ {t}
    /\ saving' = saving \union {t}
    /\ ready' = ready \union {t}
    /\ UNCHANGED <<phase, pending, managed, paused, stalledAt, engine, monitors, downloaded,
                   table, handlers, seen>>

\* waitAndStart, last: the metainfo is written to the row, removed or not, and
\* monitorCompletion is spawned.
SaveTorrentData(t) ==
    /\ t \in saving
    /\ saving' = saving \ {t}
    /\ torrentData' = torrentData \union ({t} \intersect present)
    /\ monitors' = monitors \union {t}
    /\ kept' = IF t \in managed /\ Free(t) THEN kept \union {t} ELSE kept
    /\ UNCHANGED <<phase, pending, memory, engine, starting, downloaded, present, removed,
                   completedAt, rowStalledAt, handlers, gone, adds, crashes>>

\* The engine obtains the last piece, or finds the data on disk.
Download(t) ==
    /\ t \in engine /\ t \in monitors
    /\ t \notin downloaded
    /\ downloaded' = downloaded \union {t}
    /\ UNCHANGED <<phase, pending, memory, handles, table, handlers, seen>>

\* monitorCompletion: markCompleted, then the event; PauseOnComplete may pause.
Complete(t) ==
    /\ t \in monitors /\ t \in downloaded
    /\ monitors' = monitors \ {t}
    /\ \E f \in DriverFormats :
          completedAt' = [completedAt EXCEPT ![t] = IF t \in present THEN f ELSE @]
    /\ \E p \in BOOLEAN : paused' = IF p /\ t \in managed THEN paused \union {t} ELSE paused
    /\ UNCHANGED <<phase, pending, managed, ready, stalledAt, engine, starting, saving,
                   downloaded, present, removed, torrentData, rowStalledAt, handlers, seen>>

\* monitorCompletion finds the hash gone from the map.
MonitorQuits(t) ==
    /\ t \in monitors /\ t \notin downloaded /\ t \notin managed
    /\ monitors' = monitors \ {t}
    /\ UNCHANGED <<phase, pending, memory, engine, starting, saving, downloaded, table,
                   handlers, seen>>

\* CheckStalls at level 3; StallWatch has its steps.
AutoPause(t) ==
    /\ phase = "up"
    /\ t \in managed \ (paused \union stalledAt)
    /\ t \in ready /\ Free(t)
    /\ paused' = paused \union {t}
    /\ stalledAt' = stalledAt \union {t}
    /\ \E f \in DriverFormats : rowStalledAt' = [rowStalledAt EXCEPT ![t] = f]
    /\ UNCHANGED <<phase, pending, managed, ready, handles, downloaded, present, removed,
                   torrentData, completedAt, handlers, gone, kept, adds, crashes>>

Resume(t) ==
    /\ phase = "up"
    /\ t \in managed /\ Free(t)
    /\ t \in paused
    /\ paused' = paused \ {t}
    /\ stalledAt' = stalledAt \ {t}
    /\ rowStalledAt' = [rowStalledAt EXCEPT ![t] = IF t \in stalledAt THEN "null" ELSE @]
    /\ UNCHANGED <<phase, pending, managed, ready, handles, downloaded, present, removed,
                   torrentData, completedAt, handlers, gone, kept, adds, crashes>>

-----------------------------------------------------------------------------
(* Crash and restart *)

\* The process ends, at any point; the next one reads the live rows (its second
\* test of removed_at finds none the query let through).
Crash ==
    /\ crashes < MaxCrashes /\ crashes' = crashes + 1
    /\ phase' = "restoring"
    /\ pending' = LiveRows
    /\ managed' = {} /\ ready' = {} /\ paused' = {} /\ stalledAt' = {}
    /\ engine' = {} /\ starting' = {} /\ saving' = {} /\ monitors' = {}
    /\ pc' = [w \in Worker |-> "idle"]
    /\ target' = [w \in Worker |-> NoTorrent]
    /\ UNCHANGED <<downloaded, table, gone, kept, adds>>

\* A row without resume data.  Data that does not parse or that the engine rejects
\* takes the same exit; what saveTorrentData wrote does neither.
CleanUp(t) ==
    /\ t \in pending
    /\ t \notin torrentData
    /\ pending' = pending \ {t}
    /\ removed' = removed \union {t}
    /\ UNCHANGED <<phase, memory, handles, downloaded, present, torrentData, completedAt,
                   rowStalledAt, handlers, seen>>

\* A row that reads as completed stays in the table and out of the session.
SkipCompleted(t) ==
    /\ t \in pending
    /\ t \in torrentData /\ Parses(completedAt[t])
    /\ pending' = pending \ {t}
    /\ UNCHANGED <<phase, memory, handles, downloaded, table, handlers, seen>>

\* Everything else is managed again, paused if it reads as stalled; the handle
\* has its metadata, and VerifyData finds what is on disk.
Restore(t) ==
    /\ t \in pending
    /\ t \in torrentData /\ ~Parses(completedAt[t])
    /\ pending' = pending \ {t}
    /\ managed' = managed \union {t}
    /\ paused' = IF Parses(rowStalledAt[t]) THEN paused \union {t} ELSE paused
    /\ stalledAt' = IF Parses(rowStalledAt[t]) THEN stalledAt \union {t} ELSE stalledAt
    /\ engine' = engine \union {t}
    /\ starting' = starting \union {t}
    /\ UNCHANGED <<phase, ready, saving, monitors, downloaded, table, handlers, seen>>

\* restoreFromDB returns, and the HTTP server is started after it.
Serve ==
    /\ phase = "restoring"
    /\ pending = {}
    /\ phase' = "up"
    /\ UNCHANGED <<pending, memory, handles, downloaded, table, handlers, seen>>

-----------------------------------------------------------------------------
Next ==
    \/ \E w \in Worker :
          \/ \E t \in Torrent : Add(w, t) \/ Remove(w, t)
          \/ Persist(w) \/ Drop(w) \/ Delete(w)
    \/ \E t \in Torrent :
          \/ MetadataArrives(t) \/ SaveTorrentData(t) \/ Download(t) \/ Complete(t)
          \/ MonitorQuits(t) \/ AutoPause(t) \/ Resume(t)
          \/ CleanUp(t) \/ SkipCompleted(t) \/ Restore(t)
    \/ Crash
    \/ Serve

Spec == Init /\ [][Next]_vars

-----------------------------------------------------------------------------
\* Every variable stays in its type; no handler runs before restore is over.
TypeOK ==
    /\ phase \in {"restoring", "up"}
    /\ phase = "up" => pending = {}
    /\ pending \subseteq present \ removed
    /\ managed \subseteq Torrent
    /\ ready \subseteq Torrent
    /\ paused \subseteq Torrent
    /\ stalledAt \subseteq Torrent
    /\ engine \subseteq Torrent
    /\ starting \subseteq Torrent
    /\ saving \subseteq Torrent
    /\ monitors \subseteq Torrent
    /\ downloaded \subseteq Torrent
    /\ present \subseteq Torrent
    /\ removed \subseteq present
    /\ torrentData \subseteq present
    /\ completedAt \in [Torrent -> Stamps]
    /\ rowStalledAt \in [Torrent -> Stamps]
    /\ pc \in [Worker -> {"idle", "persist", "drop", "delete"}]
    /\ target \in [Worker -> Torrent \union {NoTorrent}]
    /\ \A w \in Worker : target[w] = NoTorrent <=> pc[w] = "idle"
    /\ phase = "restoring" => \A w \in Worker : pc[w] = "idle"
    /\ gone \subseteq Torrent /\ kept \subseteq Torrent
    /\ adds \in 0..MaxAdds /\ crashes \in 0..MaxCrashes

\* A torrent whose Remove has returned does not come back, whether Drop
\* panicked or not and however often the process restarts, until it is added
\* again (restore_removed_test.go and the comment on Remove).
RemovedStaysRemoved == gone \intersect managed = {}

\* A torrent whose resume data was saved is managed whenever the session is
\* up, unless it was removed since or its completion reads as known.
SavedSurvivesRestart ==
    phase = "up" =>
        \A t \in kept : t \in managed \/ Parses(completedAt[t])

NoHandlers == phase = "up" /\ \A w \in Worker : pc[w] = "idle"

\* With no handler at work, a managed torrent has a live row: an Add that the
\* user sees on the dashboard is there after a restart (deleteTorrent: after a
\* re-add "the UPDATE is a no-op").
ManagedHasLiveRow == NoHandlers => managed \subseteq LiveRows

\* With no handler at work, the session manages what a restart would restore:
\* no live torrent that a restart forgets, no row that it revives.
MemoryMatchesTable ==
    /\ ManagedHasLiveRow
    /\ NoHandlers => \A t \in LiveRows : t \in managed \/ Parses(completedAt[t])
=============================================================================
