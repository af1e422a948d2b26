--------------------------- MODULE StallWatchProofs ---------------------------
(***************************************************************************)
(* Proofs about the stall heuristic and the stall watcher, for every set   *)
(* of torrents, every threshold and any operations.                        *)
(***************************************************************************)
EXTENDS StallWatch, TLAPS

-----------------------------------------------------------------------------
(* The heuristic *)

LEMMA ActivityLevelRange ==
    ASSUME NEW n \in Nat
    PROVE  ActivityLevel(n) \in StallNone..StallLevel3
BY ThresholdsAssumption DEF ActivityLevel, StallNone, StallLevel1, StallLevel2, StallLevel3

\* The longer nothing arrives, the higher the level: an escalation is never
\* taken back by time alone.
LEMMA EscalationIsMonotone ==
    ASSUME NEW m \in Nat, NEW n \in Nat, m <= n
    PROVE  ActivityLevel(m) <= ActivityLevel(n)
BY ThresholdsAssumption DEF ActivityLevel, StallNone, StallLevel1, StallLevel2, StallLevel3

LEMMA InactiveIsAge ==
    ASSUME NEW p \in StallParams
    PROVE  Inactive(p) \in Ages
BY ThresholdsAssumption DEF Inactive, StallParams, OptAges, Ages, Never, Horizon

\* Whatever its age, a torrent with nothing missing or without metadata is
\* either not stalled or dead: classifyStall never escalates it by inactivity.
THEOREM IdleTorrentIsNotEscalated ==
    ASSUME NEW p \in StallParams, ~p.bytesMissing \/ ~p.hasInfo
    PROVE  classifyStall(p) \in {StallNone, StallNoPeersEver}
BY DEF classifyStall

\* Nothing is reported within the grace period, or of a paused torrent.
THEOREM GraceAndPauseAreQuiet ==
    ASSUME NEW p \in StallParams, p.uptime < SessionStartupGrace \/ ~p.downloading
    PROVE  classifyStall(p) = StallNone
BY DEF classifyStall

\* A torrent that had a peer is escalated exactly by its inactivity.
THEOREM LevelFollowsInactivity ==
    ASSUME NEW p \in StallParams, p.sinceFirstPeer # Never, p.downloading,
           p.uptime >= SessionStartupGrace, p.bytesMissing, p.hasInfo
    PROVE  classifyStall(p) = StallLevel3 <=> Inactive(p) = Horizon
<1>1. Inactive(p) \in Ages
  BY InactiveIsAge
<1>2. classifyStall(p) = ActivityLevel(Inactive(p))
  BY ThresholdsAssumption DEF classifyStall, NoPeersEver, StallParams
<1>3. QED
  BY <1>1, <1>2, ThresholdsAssumption
     DEF ActivityLevel, Ages, Horizon, StallNone, StallLevel1, StallLevel2, StallLevel3

-----------------------------------------------------------------------------
(* The list of stalled torrents *)

\* A torrent with nothing missing is on the list of stalled torrents only when
\* no peer was ever seen, whatever became of its transfer before it was complete
\* (classifyStall, rules 3 to 6).
CompleteStalledIsUnseen ==
    \A t \in ListStalled : complete[t] => sinceFirstPeer[t] = Never

\* Once complete, a torrent leaves the list of stalled torrents for good unless
\* no peer was ever seen, whatever the watcher and the users do.
THEOREM CompleteStalledAreUnseen == Spec => []CompleteStalledIsUnseen
<1>1. CompleteStalledIsUnseen
  BY DEF CompleteStalledIsUnseen, ListStalled, classifyStall, NoPeersEver, stallFor
<1>2. QED
  BY <1>1, PTL

-----------------------------------------------------------------------------
(* Type correctness of the watcher *)

LEMMA InitTypes == Init => TypeOK
BY ThresholdsAssumption
   DEF Init, TypeOK, WatcherSteps, Ages, OptAges, Horizon, Never

LEMMA OlderTypes ==
    /\ \A age \in Ages : Older(age) \in Ages
    /\ \A age \in OptAges : Older(age) \in OptAges
BY ThresholdsAssumption DEF Older, Ages, OptAges, Horizon, Never

LEMMA StepTypes == TypeOK /\ [Next]_vars => TypeOK'
<1> SUFFICES ASSUME TypeOK, [Next]_vars
             PROVE  TypeOK'
  OBVIOUS
<1> USE DEF clocks, flags, engine, watcher, user, events
<1>1. CASE Tick
  <2>1. uptime' \in 0..SessionStartupGrace
    BY <1>1, ThresholdsAssumption DEF Tick, TypeOK
  <2>2. /\ sinceAdded' \in [Torrent -> Ages]
        /\ sinceFirstPeer' \in [Torrent -> OptAges]
        /\ sinceActivity' \in [Torrent -> OptAges]
    BY <1>1, OlderTypes DEF Tick, TypeOK
  <2>3. QED
    BY <1>1, <2>1, <2>2 DEF Tick, TypeOK
<1>2. ASSUME NEW t \in Torrent, MetadataArrives(t) \/ PeersComeAndGo(t) \/ DataArrives(t)
      PROVE  TypeOK'
  <2>1. CASE MetadataArrives(t)
    BY <2>1 DEF MetadataArrives, TypeOK
  <2>2. CASE PeersComeAndGo(t)
    BY <2>2 DEF PeersComeAndGo, TypeOK
  <2>3. CASE DataArrives(t)
    BY <2>3 DEF DataArrives, TypeOK
  <2>4. QED
    BY <1>2, <2>1, <2>2, <2>3
<1>3. ASSUME NEW t \in Torrent, Pause(t) \/ ForceStart(t) \/ Remove(t)
      PROVE  TypeOK'
  BY <1>3 DEF Pause, ForceStart, Remove, TypeOK
<1>4. ASSUME NEW t \in Torrent, GateQueues(t) \/ GatePromotes(t)
      PROVE  TypeOK'
  BY <1>4 DEF GateQueues, GatePromotes, TypeOK
<1>5. ASSUME NEW t \in Torrent, Resume(t)
      PROVE  TypeOK'
  BY <1>5, WatchAssumption DEF Resume, TypeOK
<1>6. CASE ResumeClearsRow
  BY <1>6 DEF ResumeClearsRow, TypeOK
<1>7. CASE StartPass
  BY <1>7 DEF StartPass, TypeOK, WatcherSteps
<1>8. ASSUME NEW t \in Torrent, Skip(t)
      PROVE  TypeOK'
  BY <1>8 DEF Skip, TypeOK
<1>9. ASSUME NEW t \in Torrent, Observe(t)
      PROVE  TypeOK'
  <2>1. 0 \in OptAges
    BY ThresholdsAssumption DEF OptAges, Ages, Horizon
  <2>2. /\ sinceFirstPeer' \in [Torrent -> OptAges]
        /\ sinceActivity' \in [Torrent -> OptAges]
    BY <1>9, <2>1 DEF Observe, TypeOK
  <2>3. moved' \in [Torrent -> BOOLEAN]
    BY <1>9 DEF Observe, TypeOK
  <2>4. wpc' = "classify" /\ wt' = t /\ t # NoTorrent
    BY <1>9, WatchAssumption DEF Observe
  <2>5. QED
    BY <1>9, <2>2, <2>3, <2>4 DEF Observe, TypeOK, WatcherSteps
<1>10. CASE ClassifyMild
  BY <1>10 DEF ClassifyMild, TypeOK, WatcherSteps
<1>11. CASE Escalate
  BY <1>11 DEF Escalate, TypeOK, WatcherSteps
<1>12. CASE AlreadyStalled
  BY <1>12 DEF AlreadyStalled, TypeOK, WatcherSteps
<1>13. CASE PauseStalled
  BY <1>13 DEF PauseStalled, TypeOK, WatcherSteps
<1>14. CASE Stamp
  BY <1>14 DEF Stamp, TypeOK, WatcherSteps
<1>15. CASE PersistStall
  BY <1>15 DEF PersistStall, TypeOK, WatcherSteps
<1>16. CASE PassOver
  BY <1>16 DEF PassOver, TypeOK, WatcherSteps
<1>17. CASE UNCHANGED vars
  BY <1>17 DEF vars, TypeOK
<1>18. QED
  BY <1>1, <1>2, <1>3, <1>4, <1>5, <1>6, <1>7, <1>8, <1>9, <1>10, <1>11, <1>12, <1>13,
     <1>14, <1>15, <1>16, <1>17 DEF Next, CheckStalls

\* Every variable of the watcher stays in its type, for all constants.
THEOREM WatchTypeCorrect == Spec => []TypeOK
BY InitTypes, StepTypes, PTL DEF Spec

-----------------------------------------------------------------------------
(* One announcement per mark *)

\* The stall of t is decided and not yet announced.
Pending(t) == wt = t /\ wpc \in {"pause", "stamp", "persist"}

\* Announcements made and under way, less the marks taken back.
Owed(t) == announced[t] + (IF Pending(t) THEN 1 ELSE 0)

\* The watcher may still decide that t stalls: it carries no mark and is not about
\* to get one, and it is in the map or was when the watcher looked.
Escalable(t) ==
    /\ ~stalledAt[t]
    /\ managed[t] \/ (wt = t /\ wpc = "classify")
    /\ ~(wt = t /\ wpc \in {"pause", "stamp"})

\* Every announcement made or under way is covered by a mark, now or to come.
Accounted(t) == Owed(t) <= 1 /\ (Escalable(t) => Owed(t) <= 0)

AnnouncementInv == \A t \in Torrent : Accounted(t)

\* A step that adds nothing to what is owed of a torrent, and does not make it
\* escalable, keeps its account.
LEMMA KeepsAccount ==
    ASSUME NEW u \in Torrent, TypeOK, Accounted(u), announced'[u] = announced[u],
           Pending(u)' => Pending(u), Escalable(u)' => Escalable(u)
    PROVE  Accounted(u)'
<1>1. announced[u] \in Int
  BY DEF TypeOK
<1>2. Owed(u)' <= Owed(u)
  BY <1>1 DEF Owed
<1>3. Owed(u) \in Int /\ Owed(u)' \in Int
  BY <1>1 DEF Owed
<1>4. QED
  BY <1>2, <1>3 DEF Accounted

LEMMA StepKeepsAnnouncementInv ==
    ASSUME TypeOK, AnnouncementInv, [Next]_vars
    PROVE  AnnouncementInv'
<1> SUFFICES ASSUME NEW u \in Torrent
             PROVE  Accounted(u)'
  BY DEF AnnouncementInv
<1> USE DEF clocks, flags, engine, watcher, user, events
<1>0. /\ Accounted(u)
      /\ announced[u] \in Int
      /\ announced \in [Torrent -> Int]
      /\ stalledAt \in [Torrent -> BOOLEAN]
      /\ managed \in [Torrent -> BOOLEAN]
  BY DEF AnnouncementInv, TypeOK
<1>1. CASE Tick \/ ResumeClearsRow \/ UNCHANGED vars
  BY <1>0, <1>1, KeepsAccount DEF Tick, ResumeClearsRow, vars, Pending, Escalable
<1>2. ASSUME NEW t \in Torrent,
             \/ MetadataArrives(t) \/ PeersComeAndGo(t) \/ DataArrives(t)
             \/ Pause(t) \/ ForceStart(t) \/ GateQueues(t) \/ GatePromotes(t) \/ Skip(t)
      PROVE  Accounted(u)'
  BY <1>0, <1>2, KeepsAccount
     DEF MetadataArrives, PeersComeAndGo, DataArrives, Pause, ForceStart, GateQueues,
         GatePromotes, Skip, Pending, Escalable
<1>3. ASSUME NEW t \in Torrent, Resume(t)
      PROVE  Accounted(u)'
  <2>1. CASE u = t /\ stalledAt[t]
    <3>1. announced'[u] = announced[u] - 1 /\ (Pending(u)' <=> Pending(u))
      BY <1>0, <1>3, <2>1 DEF Resume, Pending
    <3>2. Owed(u)' <= 0
      BY <1>0, <3>1 DEF Owed, Accounted
    <3>3. Owed(u)' \in Int
      BY <1>0, <3>1 DEF Owed
    <3>4. QED
      BY <3>2, <3>3 DEF Accounted
  <2>2. CASE ~(u = t /\ stalledAt[t])
    BY <1>0, <1>3, <2>2, KeepsAccount DEF Resume, Pending, Escalable
  <2>3. QED
    BY <2>1, <2>2
<1>4. ASSUME NEW t \in Torrent, Remove(t)
      PROVE  Accounted(u)'
  BY <1>0, <1>4, KeepsAccount DEF Remove, Pending, Escalable
<1>5. CASE StartPass \/ PassOver
  BY <1>0, <1>5, KeepsAccount DEF StartPass, PassOver, Pending, Escalable
<1>6. ASSUME NEW t \in Torrent, Observe(t)
      PROVE  Accounted(u)'
  BY <1>0, <1>6, KeepsAccount DEF Observe, Pending, Escalable
<1>7. CASE ClassifyMild \/ AlreadyStalled
  BY <1>0, <1>7, KeepsAccount DEF ClassifyMild, AlreadyStalled, Pending, Escalable, TypeOK
\* The torrent carried no mark, so nothing was owed of it.
<1>8. CASE Escalate
  <2>1. CASE u = wt
    <3>1. Escalable(u) /\ ~Pending(u)
      BY <1>8, <2>1 DEF Escalate, Escalable, Pending
    <3>2. Pending(u)' /\ ~Escalable(u)' /\ announced'[u] = announced[u]
      BY <1>8, <2>1 DEF Escalate, Escalable, Pending
    <3>3. Owed(u)' <= 1
      BY <1>0, <3>1, <3>2 DEF Owed, Accounted
    <3>4. QED
      BY <3>2, <3>3 DEF Accounted
  <2>2. CASE u # wt
    BY <1>0, <1>8, <2>2, KeepsAccount DEF Escalate, Pending, Escalable
  <2>3. QED
    BY <2>1, <2>2
<1>9. CASE PauseStalled
  BY <1>0, <1>9, KeepsAccount DEF PauseStalled, Pending, Escalable
<1>10. CASE Stamp
  BY <1>0, <1>10, KeepsAccount DEF Stamp, Pending, Escalable
\* What was under way has been made.
<1>11. CASE PersistStall
  <2>1. CASE u = wt
    <3>1. Pending(u) /\ ~Pending(u)' /\ announced'[u] = announced[u] + 1
      BY <1>0, <1>11, <2>1, WatchAssumption DEF PersistStall, Pending
    <3>2. Owed(u)' = Owed(u)
      BY <1>0, <3>1 DEF Owed
    <3>3. Escalable(u)' => Escalable(u)
      BY <1>11, <2>1 DEF PersistStall, Escalable
    <3>4. QED
      BY <1>0, <3>2, <3>3 DEF Accounted
  <2>2. CASE u # wt
    BY <1>0, <1>11, <2>2, KeepsAccount DEF PersistStall, Pending, Escalable
  <2>3. QED
    BY <2>1, <2>2
<1>12. QED
  BY <1>1, <1>2, <1>3, <1>4, <1>5, <1>6, <1>7, <1>8, <1>9, <1>10, <1>11
     DEF Next, CheckStalls

\* Whatever users, the queue and the swarm do between the watcher's verdict, its
\* pause, its stamp and its event, a stall is announced once for each mark: the
\* event follows another only after a Resume that took the mark back.
THEOREM AnnouncesOnce == Spec => []AnnouncedOncePerMark
<1>1. Init => AnnouncementInv
  <2> SUFFICES ASSUME Init, NEW t \in Torrent
               PROVE  Accounted(t)
    BY DEF AnnouncementInv
  <2>1. ~Pending(t) /\ announced[t] = (IF stalledAt[t] THEN 1 ELSE 0)
    BY DEF Init, Pending
  <2>2. QED
    BY <2>1 DEF Accounted, Owed, Escalable
<1>2. TypeOK /\ AnnouncementInv /\ [Next]_vars => TypeOK' /\ AnnouncementInv'
  BY StepTypes, StepKeepsAnnouncementInv
<1>3. TypeOK /\ AnnouncementInv => AnnouncedOncePerMark
  <2> SUFFICES ASSUME TypeOK, AnnouncementInv, NEW t \in Torrent
               PROVE  announced[t] <= 1
    BY DEF AnnouncedOncePerMark
  <2>1. Accounted(t) /\ announced[t] \in Int
    BY DEF AnnouncementInv, TypeOK
  <2>2. QED
    BY <2>1 DEF Accounted, Owed
<1>4. QED
  BY InitTypes, <1>1, <1>2, <1>3, PTL DEF Spec
=============================================================================
