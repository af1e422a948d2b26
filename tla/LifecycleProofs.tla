---------------------------- MODULE LifecycleProofs ----------------------------
(* Proofs about Lifecycle, for any number of torrents, handlers, crashes.  *)
EXTENDS Lifecycle, TLAPS

\* Typing is inductive by itself: every action stores values of the right sets,
\* and pending shrinks except in Crash, which fills it from the live rows.
THEOREM TypeCorrect == Spec => []TypeOK
<1>. USE LifecycleAssumption DEF Formats, Stamps
<1>1. Init => TypeOK
  BY DEF Init, TypeOK
<1>2. TypeOK /\ [Next]_vars => TypeOK'
  <2>. SUFFICES ASSUME TypeOK, [Next]_vars PROVE TypeOK'
    OBVIOUS
  <2>. USE DEF TypeOK
  <2>1. ASSUME NEW w \in Worker, NEW t \in Torrent, Add(w, t) PROVE TypeOK'
    BY <2>1 DEF Add, table, handlers
  <2>2. ASSUME NEW w \in Worker, NEW t \in Torrent, Remove(w, t) PROVE TypeOK'
    BY <2>2 DEF Remove, table, handles
  <2>3. ASSUME NEW w \in Worker, Persist(w) PROVE TypeOK'
    BY <2>3 DEF Persist, memory, seen
  <2>4. ASSUME NEW w \in Worker, Drop(w) PROVE TypeOK'
    BY <2>4 DEF Drop, AfterDrop, memory, table
  <2>5. ASSUME NEW w \in Worker, Delete(w) PROVE TypeOK'
    <3>1. target[w] \in Torrent /\ pc[w] = "delete"
      BY <2>5 DEF Delete
    <3>2. removed' \subseteq present' /\ pending' \subseteq present' \ removed'
      BY <2>5, <3>1 DEF Delete
    <3>3. gone' \subseteq Torrent
      BY <2>5, <3>1 DEF Delete
    <3>. QED
      BY <2>5, <3>1, <3>2, <3>3 DEF Delete, memory, handles
  <2>6. ASSUME NEW t \in Torrent, MetadataArrives(t) PROVE TypeOK'
    BY <2>6 DEF MetadataArrives, table, handlers, seen
  <2>7. ASSUME NEW t \in Torrent, SaveTorrentData(t) PROVE TypeOK'
    BY <2>7 DEF SaveTorrentData, memory, handlers
  <2>8. ASSUME NEW t \in Torrent, Download(t) PROVE TypeOK'
    BY <2>8 DEF Download, memory, handles, table, handlers, seen
  <2>9. ASSUME NEW t \in Torrent, Complete(t) PROVE TypeOK'
    BY <2>9 DEF Complete, handlers, seen
  <2>10. ASSUME NEW t \in Torrent, MonitorQuits(t) PROVE TypeOK'
    BY <2>10 DEF MonitorQuits, memory, table, handlers, seen
  <2>11. ASSUME NEW t \in Torrent, AutoPause(t) PROVE TypeOK'
    BY <2>11 DEF AutoPause, handles, handlers
  <2>12. ASSUME NEW t \in Torrent, Resume(t) PROVE TypeOK'
    BY <2>12 DEF Resume, handles, handlers
  <2>13. ASSUME NEW t \in Torrent, CleanUp(t) PROVE TypeOK'
    BY <2>13 DEF CleanUp, memory, handles, handlers, seen
  <2>14. ASSUME NEW t \in Torrent, SkipCompleted(t) PROVE TypeOK'
    BY <2>14 DEF SkipCompleted, memory, handles, table, handlers, seen
  <2>15. ASSUME NEW t \in Torrent, Restore(t) PROVE TypeOK'
    BY <2>15 DEF Restore, table, handlers, seen
  <2>16. CASE Crash
    BY <2>16 DEF Crash, LiveRows, table
  <2>17. CASE Serve
    BY <2>17 DEF Serve, memory, handles, table, handlers, seen
  <2>18. CASE UNCHANGED vars
    BY <2>18 DEF vars, memory, handles, table, handlers, seen
  <2>. QED
    BY <2>1, <2>2, <2>3, <2>4, <2>5, <2>6, <2>7, <2>8, <2>9, <2>10, <2>11, <2>12,
       <2>13, <2>14, <2>15, <2>16, <2>17, <2>18 DEF Next
<1>. QED
  BY <1>1, <1>2, PTL DEF Spec

-----------------------------------------------------------------------------
(* A removed torrent *)

\* Handlers that are at work have different targets.
OneHandlerEach ==
    \A v, w \in Worker : v # w /\ target[v] = target[w] => target[v] = NoTorrent

\* A torrent that is gone is in no place it could come back from: not managed,
\* no live row, not read by a restore in progress, not about to be persisted.
GoneInv ==
    /\ OneHandlerEach
    /\ gone \intersect managed = {}
    /\ gone \intersect LiveRows = {}
    /\ \A w \in Worker : target[w] \notin gone

\* When Add and Remove of one hash do not overlap, a torrent whose Remove has
\* returned is never managed again before the next Add: a panic in Drop, late
\* goroutines of the torrent and any number of restarts do not revive it.
THEOREM RemovedIsGone ==
    ASSUME ~Overlap
    PROVE  Spec => []RemovedStaysRemoved
<1>. USE LifecycleAssumption
<1>1. Init => GoneInv
  BY DEF Init, GoneInv, OneHandlerEach, LiveRows
<1>2. TypeOK /\ GoneInv /\ [Next]_vars => GoneInv'
  <2>. SUFFICES ASSUME TypeOK, GoneInv, [Next]_vars PROVE GoneInv'
    OBVIOUS
  <2>. USE DEF TypeOK, GoneInv, OneHandlerEach, LiveRows, Free
  <2>1. ASSUME NEW w \in Worker, NEW t \in Torrent, Add(w, t) PROVE GoneInv'
    BY <2>1 DEF Add, table
  <2>2. ASSUME NEW w \in Worker, NEW t \in Torrent, Remove(w, t) PROVE GoneInv'
    BY <2>2 DEF Remove, table
  <2>3. ASSUME NEW w \in Worker, Persist(w) PROVE GoneInv'
    BY <2>3 DEF Persist, memory, seen
  <2>4. ASSUME NEW w \in Worker, Drop(w) PROVE GoneInv'
    BY <2>4 DEF Drop, AfterDrop, memory, table
  <2>5. ASSUME NEW w \in Worker, Delete(w) PROVE GoneInv'
    BY <2>5 DEF Delete, memory
  <2>6. ASSUME NEW t \in Torrent, Restore(t) PROVE GoneInv'
    BY <2>6 DEF Restore, table, handlers, seen
  <2>7. CASE Crash
    BY <2>7 DEF Crash, table
  <2>8. ASSUME NEW t \in Torrent, CleanUp(t) PROVE GoneInv'
    BY <2>8 DEF CleanUp, memory, handlers, seen
  <2>9. ASSUME UNCHANGED <<managed, present, removed, target, gone>> PROVE GoneInv'
    BY <2>9
  <2>10. ASSUME NEW t \in Torrent,
                \/ MetadataArrives(t) \/ SaveTorrentData(t) \/ Download(t)
                \/ MonitorQuits(t) \/ SkipCompleted(t)
         PROVE UNCHANGED <<managed, present, removed, target, gone>>
    BY <2>10 DEF MetadataArrives, SaveTorrentData, Download, MonitorQuits, SkipCompleted,
                 memory, table, handlers, seen
  <2>11. ASSUME NEW t \in Torrent, Complete(t) \/ AutoPause(t) \/ Resume(t)
         PROVE UNCHANGED <<managed, present, removed, target, gone>>
    BY <2>11 DEF Complete, AutoPause, Resume, handlers, seen
  <2>12. ASSUME Serve \/ UNCHANGED vars
         PROVE UNCHANGED <<managed, present, removed, target, gone>>
    BY <2>12 DEF Serve, vars, memory, table, handlers, seen
  <2>. QED
    BY <2>1, <2>2, <2>3, <2>4, <2>5, <2>6, <2>7, <2>8, <2>9, <2>10, <2>11, <2>12 DEF Next
<1>3. GoneInv => RemovedStaysRemoved
  BY DEF GoneInv, RemovedStaysRemoved
<1>. QED
  BY <1>1, <1>2, <1>3, TypeCorrect, PTL DEF Spec

-----------------------------------------------------------------------------
(* Memory and table *)

Busy       == starting \union saving \union monitors
Persisting == {t \in Torrent : \E w \in Worker : pc[w] = "persist" /\ target[w] = t}
Removing   == {t \in Torrent : \E w \in Worker : pc[w] \in {"drop", "delete"} /\ target[w] = t}

\* The places of a torrent agree, up to the handler or the restore that is at
\* work on it.  A row that is live and known to nobody reads as completed, and
\* no goroutine is left that could write its completion again.
PlacesInv ==
    /\ OneHandlerEach
    /\ managed \subseteq LiveRows \union Persisting
    /\ Persisting \subseteq managed
    /\ Removing \intersect managed = {}
    /\ pending \intersect (managed \union Busy) = {}
    /\ \A t \in LiveRows \ (managed \union pending \union Removing) :
          Parses(completedAt[t]) /\ t \notin Busy

LEMMA InitPlaces == Init => PlacesInv
BY LifecycleAssumption
   DEF Init, PlacesInv, OneHandlerEach, LiveRows, Busy, Persisting, Removing

LEMMA StepKeepsPlaces ==
    ASSUME ~Overlap
    PROVE  TypeOK /\ PlacesInv /\ [Next]_vars => PlacesInv'
<1>. USE LifecycleAssumption
<1>. SUFFICES ASSUME TypeOK, PlacesInv, [Next]_vars PROVE PlacesInv'
  OBVIOUS
<1>. USE DEF TypeOK, PlacesInv, OneHandlerEach, LiveRows, Free, Busy, Persisting, Removing
<1>1. ASSUME NEW w \in Worker, NEW t \in Torrent, Add(w, t) PROVE PlacesInv'
  BY <1>1 DEF Add, table
<1>2. ASSUME NEW w \in Worker, NEW t \in Torrent, Remove(w, t) PROVE PlacesInv'
  BY <1>2 DEF Remove, table, handles
<1>3. ASSUME NEW w \in Worker, Persist(w) PROVE PlacesInv'
  BY <1>3 DEF Persist, memory, seen
<1>4. ASSUME NEW w \in Worker, Drop(w) PROVE PlacesInv'
  BY <1>4 DEF Drop, AfterDrop, memory, table
<1>5. ASSUME NEW w \in Worker, Delete(w) PROVE PlacesInv'
  BY <1>5 DEF Delete, memory, handles
<1>6. ASSUME NEW t \in Torrent, MetadataArrives(t) PROVE PlacesInv'
  BY <1>6 DEF MetadataArrives, table, handlers, seen
<1>7. ASSUME NEW t \in Torrent, SaveTorrentData(t) PROVE PlacesInv'
  BY <1>7 DEF SaveTorrentData, memory, handlers
<1>8. ASSUME NEW t \in Torrent, Complete(t) PROVE PlacesInv'
  BY <1>8 DEF Complete, handlers, seen
<1>9. ASSUME NEW t \in Torrent, MonitorQuits(t) PROVE PlacesInv'
  BY <1>9 DEF MonitorQuits, memory, table, handlers, seen
<1>10. ASSUME NEW t \in Torrent, CleanUp(t) PROVE PlacesInv'
  BY <1>10 DEF CleanUp, memory, handles, handlers, seen
<1>11. ASSUME NEW t \in Torrent, SkipCompleted(t) PROVE PlacesInv'
  BY <1>11 DEF SkipCompleted, memory, handles, table, handlers, seen
<1>12. ASSUME NEW t \in Torrent, Restore(t) PROVE PlacesInv'
  BY <1>12 DEF Restore, table, handlers, seen
<1>13. CASE Crash
  BY <1>13 DEF Crash, table
<1>14. ASSUME UNCHANGED <<pending, managed, handles, present, removed, completedAt, handlers>>
       PROVE  PlacesInv'
  BY <1>14 DEF handles, handlers
<1>15. ASSUME NEW t \in Torrent, Download(t) \/ AutoPause(t) \/ Resume(t)
       PROVE UNCHANGED <<pending, managed, handles, present, removed, completedAt, handlers>>
  BY <1>15 DEF Download, AutoPause, Resume, memory, table, seen
<1>16. ASSUME Serve \/ UNCHANGED vars
       PROVE UNCHANGED <<pending, managed, handles, present, removed, completedAt, handlers>>
  BY <1>16 DEF Serve, vars, memory, table, seen
<1>. QED
  BY <1>1, <1>2, <1>3, <1>4, <1>5, <1>6, <1>7, <1>8, <1>9, <1>10, <1>11, <1>12,
     <1>13, <1>14, <1>15, <1>16 DEF Next

\* When Add and Remove of one hash do not overlap, the session manages what a
\* restart would restore as soon as no handler is at work.
THEOREM MemoryIsTable ==
    ASSUME ~Overlap
    PROVE  Spec => []MemoryMatchesTable
<1>1. TypeOK /\ PlacesInv /\ [Next]_vars => PlacesInv'
  BY StepKeepsPlaces
<1>2. TypeOK /\ PlacesInv => MemoryMatchesTable
  BY DEF TypeOK, PlacesInv, MemoryMatchesTable, ManagedHasLiveRow, NoHandlers,
         Persisting, Removing
<1>. QED
  BY InitPlaces, <1>1, <1>2, TypeCorrect, PTL DEF Spec

-----------------------------------------------------------------------------
(* Resume data *)

\* Resume data that was saved stays in a live row that no Remove is at work on;
\* PlacesInv says where such a row's torrent is.
KeptInv == kept \subseteq (torrentData \intersect LiveRows) \ Removing

LEMMA StepKeepsKept ==
    ASSUME ~Overlap, TypeOK, PlacesInv, KeptInv, [Next]_vars
    PROVE  KeptInv'
<1>. USE LifecycleAssumption
     DEF TypeOK, KeptInv, PlacesInv, OneHandlerEach, LiveRows, Free, Persisting, Removing
<1>1. ASSUME NEW w \in Worker, NEW t \in Torrent, Add(w, t) PROVE KeptInv'
  BY <1>1 DEF Add, table
<1>2. ASSUME NEW w \in Worker, NEW t \in Torrent, Remove(w, t) PROVE KeptInv'
  BY <1>2 DEF Remove, table
<1>3. ASSUME NEW w \in Worker, Persist(w) PROVE KeptInv'
  BY <1>3 DEF Persist, seen
<1>4. ASSUME NEW w \in Worker, Drop(w) PROVE KeptInv'
  BY <1>4 DEF Drop, AfterDrop, table
<1>5. ASSUME NEW w \in Worker, Delete(w) PROVE KeptInv'
  BY <1>5 DEF Delete
<1>6. ASSUME NEW t \in Torrent, SaveTorrentData(t) PROVE KeptInv'
  BY <1>6 DEF SaveTorrentData, handlers
<1>7. ASSUME NEW t \in Torrent, CleanUp(t) PROVE KeptInv'
  BY <1>7 DEF CleanUp, handlers, seen
<1>8. CASE Crash
  BY <1>8 DEF Crash, table
<1>9. ASSUME UNCHANGED <<kept, torrentData, present, removed, handlers>> PROVE KeptInv'
  BY <1>9 DEF handlers
<1>10. ASSUME NEW t \in Torrent,
              \/ MetadataArrives(t) \/ Download(t) \/ Complete(t) \/ MonitorQuits(t)
              \/ AutoPause(t) \/ Resume(t) \/ SkipCompleted(t) \/ Restore(t)
       PROVE UNCHANGED <<kept, torrentData, present, removed, handlers>>
  BY <1>10 DEF MetadataArrives, Download, Complete, MonitorQuits, AutoPause, Resume,
               SkipCompleted, Restore, table, seen
<1>11. ASSUME Serve \/ UNCHANGED vars
       PROVE UNCHANGED <<kept, torrentData, present, removed, handlers>>
  BY <1>11 DEF Serve, vars, table, seen
<1>. QED
  BY <1>1, <1>2, <1>3, <1>4, <1>5, <1>6, <1>7, <1>8, <1>9, <1>10, <1>11 DEF Next

\* When Add and Remove of one hash do not overlap, a torrent whose resume data
\* was saved is managed again after any number of crashes, wherever they fall,
\* unless it was removed or its completion reads as known.
THEOREM SavedSurvives ==
    ASSUME ~Overlap
    PROVE  Spec => []SavedSurvivesRestart
<1>1. Init => KeptInv
  BY DEF Init, KeptInv
<1>2. TypeOK /\ PlacesInv /\ [Next]_vars => PlacesInv'
  BY StepKeepsPlaces
<1>3. TypeOK /\ PlacesInv /\ KeptInv /\ [Next]_vars => KeptInv'
  BY StepKeepsKept
<1>4. TypeOK /\ PlacesInv /\ KeptInv => SavedSurvivesRestart
  BY DEF TypeOK, PlacesInv, KeptInv, SavedSurvivesRestart
<1>. QED
  BY InitPlaces, <1>1, <1>2, <1>3, <1>4, TypeCorrect, PTL DEF Spec
=============================================================================
