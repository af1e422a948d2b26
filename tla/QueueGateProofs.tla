--------------------------- MODULE QueueGateProofs ---------------------------
(***************************************************************************)
(* Proofs about QueueGate for every set of torrents, workers, priorities   *)
(* and caps, and any operations.  The inductive invariant says what an     *)
(* undisturbed pass knows at each of its steps; a disturbed pass promises  *)
(* nothing but its types.                                                  *)
(***************************************************************************)
EXTENDS QueueGate, FiniteSetTheorems, TLAPS

\* Facts about control that the types depend on.
Control ==
    \A w \in Worker :
        /\ pc[w] = "cap" => passes[w] # 0
        /\ pc[w] \in {"persist", "engine"} => target[w] \in Torrent

TypeInv == TypeOK /\ Control

-----------------------------------------------------------------------------
(* Lemmas about the pure operators *)

\* A ranking of a set of torrents is a sequence over it.
LEMMA RankingIsSeq ==
    ASSUME NEW E \in SUBSET Torrent, NEW idx, NEW s \in Rankings(E, idx)
    PROVE  s \in Seq(E) /\ s \in Seq(Torrent) /\ DOMAIN s = 1..Len(s)
<1>1. IsFiniteSet(E)
  BY ConstantsAssumption, FS_Subset
<1>2. Cardinality(E) \in Nat
  BY <1>1, FS_CardinalityType
<1>3. s \in [1..Cardinality(E) -> E]
  BY DEF Rankings
<1>4. QED
  BY <1>2, <1>3

\* What the decision writes for each candidate.
LEMMA DecisionIsSeq ==
    ASSUME NEW n \in Nat, NEW seen \in [1..n -> BOOLEAN], NEW cap
    PROVE  queueGateDecision(seen, cap) \in Seq(Actions)
<1>1. \A i \in 1..n : GateAction(i, seen[i], cap) \in Actions
  BY DEF GateAction, Actions
<1>2. queueGateDecision(seen, cap) \in [1..n -> Actions]
  BY <1>1 DEF queueGateDecision
<1>3. QED
  BY <1>2

-----------------------------------------------------------------------------
(* Type correctness *)

LEMMA InitTypes == Init => TypeInv
<1> SUFFICES ASSUME Init PROVE TypeInv
  OBVIOUS
<1>1. NoRows \in PriorityReads
  <2>1. NoRows \in [{} -> Priority]
    BY DEF NoRows
  <2>2. QED
    BY <2>1 DEF PriorityReads
<1>2. TypeOK
  <2>1. PICK restored \in SUBSET Torrent, isStalled \in [Torrent -> BOOLEAN] : Init!(restored, isStalled)
    BY DEF Init
  <2>2. /\ torrents \subseteq Torrent
        /\ rows \subseteq Torrent
        /\ prio \in [Torrent -> Priority]
        /\ maxActiveDownloads \in Cap
    BY <2>1
  <2>3. /\ paused \in [Torrent -> BOOLEAN]
        /\ queuePaused \in [Torrent -> BOOLEAN]
        /\ ready \in [Torrent -> BOOLEAN]
        /\ complete \in [Torrent -> BOOLEAN]
        /\ fetching \in [Torrent -> BOOLEAN]
        /\ startPaused \in [Torrent -> BOOLEAN]
        /\ phase \in [Torrent -> Phases]
        /\ intent \in [Torrent -> Requests]
    BY <2>1 DEF Phases, Requests
  <2>4. /\ pc \in [Worker -> Steps]
        /\ op \in [Worker -> OpNames]
        /\ target \in [Worker -> Torrent \union {NoTorrent}]
        /\ resuming \in [Worker -> BOOLEAN]
        /\ passes \in [Worker -> 0..2]
        /\ capSeen \in [Worker -> Cap \union {0}]
        /\ current \in [Worker -> Nat]
        /\ frozen \in [Worker -> SUBSET Torrent]
        /\ disturbed \in [Worker -> BOOLEAN]
    BY <2>1 DEF Steps, OpNames
  <2>5. /\ entries \in [Worker -> Seq(Torrent)]
        /\ pausedAtSnapshot \in [Worker -> Seq(BOOLEAN)]
        /\ action \in [Worker -> Seq(Actions)]
    BY <2>1
  <2>6. priorityIdx \in [Worker -> PriorityReads]
    BY <1>1, <2>1
  <2>7. /\ forced \subseteq Torrent
        /\ settled \in BOOLEAN
        /\ issued \in Nat
    BY <2>1
  <2>8. QED
    BY <2>2, <2>3, <2>4, <2>5, <2>6, <2>7 DEF TypeOK
<1>3. Control
  BY DEF Init, Control
<1>4. QED
  BY <1>2, <1>3 DEF TypeInv

CallTypes ==
    /\ pc' \in [Worker -> Steps]
    /\ op' \in [Worker -> OpNames]
    /\ target' \in [Worker -> Torrent \union {NoTorrent}]
    /\ resuming' \in [Worker -> BOOLEAN]
    /\ passes' \in [Worker -> 0..2]
    /\ Control'

\* Returning from an operation leaves well-typed control state.
LEMMA ReturnTypes ==
    ASSUME TypeInv, NEW w \in Worker, Return(w)
    PROVE  CallTypes
BY DEF TypeInv, TypeOK, Control, CallTypes, Return, Steps, OpNames

\* So does going on to the gate.
LEMMA ToGateTypes ==
    ASSUME TypeInv, NEW w \in Worker, ToGate(w)
    PROVE  CallTypes
<1>1. CASE passes[w] = 0
  BY <1>1, ReturnTypes DEF ToGate
<1>2. CASE passes[w] # 0
  BY <1>2 DEF TypeInv, TypeOK, Control, CallTypes, ToGate, Steps
<1>3. QED
  BY <1>1, <1>2

\* A step of a pass that only moves on keeps the control state well-typed.
LEMMA MoveTypes ==
    ASSUME TypeInv, NEW w \in Worker, NEW step \in Steps \ {"cap", "persist", "engine"},
           pc' = [pc EXCEPT ![w] = step],
           UNCHANGED <<op, target, resuming, passes>>
    PROVE  CallTypes
BY DEF TypeInv, TypeOK, Control, CallTypes

\* Disturbing and writing flags keep the observers and the flags well-typed.
LEMMA DisturbTypes ==
    ASSUME TypeInv, (\E w \in Worker : Disturb(w)) \/ DisturbAll
    PROVE  disturbed' \in [Worker -> BOOLEAN] /\ settled' \in BOOLEAN
BY DEF TypeInv, TypeOK, Disturb, DisturbAll

LEMMA SetFlagsTypes ==
    ASSUME TypeInv, NEW t, NEW p \in BOOLEAN, NEW q \in BOOLEAN, SetFlags(t, p, q)
    PROVE  paused' \in [Torrent -> BOOLEAN] /\ queuePaused' \in [Torrent -> BOOLEAN]
BY DEF TypeInv, TypeOK, SetFlags

\* Control state that no action touched stays well-typed.
LEMMA SameCallTypes ==
    ASSUME TypeInv, UNCHANGED calls
    PROVE  CallTypes
BY DEF TypeInv, TypeOK, Control, CallTypes, calls

\* Issuing a request counts it.
LEMMA RequestTypes ==
    ASSUME TypeInv, NEW name, Request(name)
    PROVE  issued' \in Nat
BY DEF TypeInv, TypeOK, Request

\* The types and the control facts are inductive.
LEMMA StepTypes ==
    ASSUME TypeInv, [Next]_vars
    PROVE  TypeInv'
<1> USE DEF map, table, engine, locals, asked, watched
<1>s. /\ {"add", "pause", "resume", "force", "remove", "priority", "cap", "start",
          "complete", "none"} \subseteq OpNames
      /\ {"persist", "engine", "cap", "prio", "snapshot", "decide", "apply",
          "applyEngine", "passEnd"} \subseteq Steps
      /\ {"pause", "run"} \subseteq Requests
      /\ Phases = {"absent", "adding", "waiting", "starting", "watching", "finished"}
  BY DEF OpNames, Steps, Requests, Phases
<1>1. ASSUME NEW w \in Worker, NEW t \in Torrent, NEW p \in BOOLEAN, Add(w, t, p)
      PROVE  TypeInv'
  <2>1. CallTypes
    BY <1>1 DEF Add, Begin, CallTypes, TypeInv, TypeOK, Control, Steps, OpNames
  <2>2. disturbed' \in [Worker -> BOOLEAN] /\ settled' \in BOOLEAN
    BY <1>s, <1>1, DisturbTypes DEF Add, TypeInv
  <2>3. paused' \in [Torrent -> BOOLEAN] /\ queuePaused' \in [Torrent -> BOOLEAN]
    BY <1>s, <1>1, SetFlagsTypes DEF Add, TypeInv
  <2>4. issued' \in Nat
    BY <1>s, <1>1, RequestTypes DEF Add, TypeInv
  <2>5. QED
    BY <1>s, <1>1, <2>1, <2>2, <2>3, <2>4 DEF Add, TypeInv, TypeOK, CallTypes
<1>2. ASSUME NEW w \in Worker, Persist(w)
      PROVE  TypeInv'
  <2>1. CallTypes
    BY <1>s, <1>2, ReturnTypes DEF Persist, TypeInv
  <2>2. disturbed' \in [Worker -> BOOLEAN] /\ settled' \in BOOLEAN
    BY <1>s, <1>2, DisturbTypes DEF Persist, TypeInv
  <2>3. target[w] \in Torrent
    BY <1>s, <1>2 DEF Persist, TypeInv, Control
  <2>4. QED
    BY <1>s, <1>2, <2>1, <2>2, <2>3 DEF Persist, TypeInv, TypeOK, CallTypes
<1>3. ASSUME NEW w \in Worker, NEW t \in Torrent, StartReady(w, t)
      PROVE  TypeInv'
  <2>1. CallTypes
    BY <1>3 DEF StartReady, Begin, CallTypes, TypeInv, TypeOK, Control, Steps, OpNames
  <2>2. disturbed' \in [Worker -> BOOLEAN] /\ settled' \in BOOLEAN
    BY <1>s, <1>3, DisturbTypes DEF StartReady, TypeInv
  <2>3. QED
    BY <1>s, <1>3, <2>1, <2>2 DEF StartReady, TypeInv, TypeOK, CallTypes
<1>4. ASSUME NEW w \in Worker, NEW t \in Torrent, Completed(w, t)
      PROVE  TypeInv'
  <2>1. CallTypes
    BY <1>4 DEF Completed, Begin, CallTypes, TypeInv, TypeOK, Control, Steps, OpNames
  <2>2. QED
    BY <1>s, <1>4, <2>1 DEF Completed, TypeInv, TypeOK, CallTypes
<1>4a. ASSUME NEW w \in Worker, NEW t \in Torrent, CompletedAndPaused(w, t)
       PROVE  TypeInv'
  <2>1. CallTypes
    BY <1>4a DEF CompletedAndPaused, Begin, CallTypes, TypeInv, TypeOK, Control,
                 Steps, OpNames
  <2>2. disturbed' \in [Worker -> BOOLEAN] /\ settled' \in BOOLEAN
    BY <1>4a, DisturbTypes DEF CompletedAndPaused
  <2>3. paused' \in [Torrent -> BOOLEAN] /\ queuePaused' \in [Torrent -> BOOLEAN]
    BY <1>4a, SetFlagsTypes DEF CompletedAndPaused
  <2>4. QED
    BY <1>s, <1>4a, <2>1, <2>2, <2>3 DEF CompletedAndPaused, TypeInv, TypeOK, CallTypes
<1>5. ASSUME NEW t \in Torrent, MonitorQuits(t)
      PROVE  TypeInv'
  <2>1. CallTypes
    BY <1>s, <1>5, SameCallTypes DEF MonitorQuits, TypeInv
  <2>2. QED
    BY <1>s, <1>5, <2>1 DEF MonitorQuits, TypeInv, TypeOK, CallTypes
<1>6. ASSUME NEW w \in Worker, NEW t \in Torrent, Pause(w, t)
      PROVE  TypeInv'
  <2>1. CallTypes
    BY <1>6 DEF Pause, Begin, CallTypes, TypeInv, TypeOK, Control, Steps, OpNames
  <2>2. disturbed' \in [Worker -> BOOLEAN] /\ settled' \in BOOLEAN
    BY <1>s, <1>6, DisturbTypes DEF Pause, TypeInv
  <2>3. paused' \in [Torrent -> BOOLEAN] /\ queuePaused' \in [Torrent -> BOOLEAN]
    BY <1>s, <1>6, SetFlagsTypes DEF Pause, TypeInv
  <2>4. issued' \in Nat
    BY <1>s, <1>6, RequestTypes DEF Pause, TypeInv
  <2>5. QED
    BY <1>s, <1>6, <2>1, <2>2, <2>3, <2>4 DEF Pause, TypeInv, TypeOK, CallTypes
<1>7. ASSUME NEW w \in Worker, NEW t \in Torrent, Resume(w, t)
      PROVE  TypeInv'
  <2>1. CallTypes
    BY <1>7 DEF Resume, Begin, CallTypes, TypeInv, TypeOK, Control, Steps, OpNames
  <2>2. disturbed' \in [Worker -> BOOLEAN] /\ settled' \in BOOLEAN
    BY <1>s, <1>7, DisturbTypes DEF Resume, TypeInv
  <2>3. paused' \in [Torrent -> BOOLEAN] /\ queuePaused' \in [Torrent -> BOOLEAN]
    BY <1>s, <1>7, SetFlagsTypes DEF Resume, TypeInv
  <2>4. issued' \in Nat
    BY <1>s, <1>7, RequestTypes DEF Resume, TypeInv
  <2>5. QED
    BY <1>s, <1>7, <2>1, <2>2, <2>3, <2>4 DEF Resume, TypeInv, TypeOK, CallTypes
<1>8. ASSUME NEW w \in Worker, NEW t \in Torrent, ForceStart(w, t)
      PROVE  TypeInv'
  <2>1. CallTypes
    BY <1>8 DEF ForceStart, Begin, CallTypes, TypeInv, TypeOK, Control, Steps, OpNames
  <2>2. disturbed' \in [Worker -> BOOLEAN] /\ settled' \in BOOLEAN
    BY <1>s, <1>8, DisturbTypes DEF ForceStart, TypeInv
  <2>3. issued' \in Nat
    BY <1>s, <1>8, RequestTypes DEF ForceStart, TypeInv
  <2>4. QED
    BY <1>s, <1>8, <2>1, <2>2, <2>3 DEF ForceStart, TypeInv, TypeOK, CallTypes
<1>9. ASSUME NEW w \in Worker, NEW t \in Torrent, Remove(w, t)
      PROVE  TypeInv'
  <2>1. CallTypes
    BY <1>9 DEF Remove, Begin, CallTypes, TypeInv, TypeOK, Control, Steps, OpNames
  <2>2. disturbed' \in [Worker -> BOOLEAN] /\ settled' \in BOOLEAN
    BY <1>s, <1>9, DisturbTypes DEF Remove, TypeInv
  <2>3. issued' \in Nat
    BY <1>s, <1>9, RequestTypes DEF Remove, TypeInv
  <2>4. QED
    BY <1>s, <1>9, <2>1, <2>2, <2>3 DEF Remove, TypeInv, TypeOK, CallTypes
<1>10. ASSUME NEW w \in Worker, NEW t \in Torrent, NEW p \in Priority, SetPriority(w, t, p)
      PROVE  TypeInv'
  <2>1. CallTypes
    BY <1>10 DEF SetPriority, Begin, CallTypes, TypeInv, TypeOK, Control, Steps, OpNames
  <2>2. disturbed' \in [Worker -> BOOLEAN] /\ settled' \in BOOLEAN
    BY <1>s, <1>10, DisturbTypes DEF SetPriority, TypeInv
  <2>3. issued' \in Nat
    BY <1>s, <1>10, RequestTypes DEF SetPriority, TypeInv
  <2>4. QED
    BY <1>s, <1>10, <2>1, <2>2, <2>3 DEF SetPriority, TypeInv, TypeOK, CallTypes
<1>11. ASSUME NEW w \in Worker, NEW n \in Cap, SetMaxActiveDownloads(w, n)
      PROVE  TypeInv'
  <2>1. CallTypes
    BY <1>11 DEF SetMaxActiveDownloads, Begin, CallTypes, TypeInv, TypeOK, Control, Steps, OpNames
  <2>2. disturbed' \in [Worker -> BOOLEAN] /\ settled' \in BOOLEAN
    BY <1>s, <1>11, DisturbTypes DEF SetMaxActiveDownloads, TypeInv
  <2>3. issued' \in Nat
    BY <1>s, <1>11, RequestTypes DEF SetMaxActiveDownloads, TypeInv
  <2>4. QED
    BY <1>s, <1>11, <2>1, <2>2, <2>3 DEF SetMaxActiveDownloads, TypeInv, TypeOK, CallTypes
<1>12. ASSUME NEW t \in Torrent, Recheck(t)
      PROVE  TypeInv'
  <2>1. CallTypes
    BY <1>s, <1>12, SameCallTypes DEF Recheck, TypeInv
  <2>2. disturbed' \in [Worker -> BOOLEAN] /\ settled' \in BOOLEAN
    BY <1>s, <1>12, DisturbTypes DEF Recheck, TypeInv
  <2>3. issued' \in Nat
    BY <1>s, <1>12, RequestTypes DEF Recheck, TypeInv
  <2>4. QED
    BY <1>s, <1>12, <2>1, <2>2, <2>3 DEF Recheck, TypeInv, TypeOK, CallTypes
<1>13. ASSUME NEW t \in Torrent, EngineCompletes(t)
      PROVE  TypeInv'
  <2>1. CallTypes
    BY <1>s, <1>13, SameCallTypes DEF EngineCompletes, TypeInv
  <2>2. disturbed' \in [Worker -> BOOLEAN] /\ settled' \in BOOLEAN
    <3>1. DisturbAll \/ UNCHANGED <<disturbed, settled>>
      BY <1>13 DEF EngineCompletes
    <3>2. CASE DisturbAll
      BY <1>s, <3>2, DisturbTypes DEF TypeInv
    <3>3. CASE UNCHANGED <<disturbed, settled>>
      <4>1. disturbed \in [Worker -> BOOLEAN] /\ settled \in BOOLEAN
        BY DEF TypeInv, TypeOK
      <4>2. disturbed' = disturbed /\ settled' = settled
        BY <3>3
      <4>3. QED
        BY <4>1, <4>2
    <3>4. QED
      BY <3>1, <3>2, <3>3
  <2>3. QED
    BY <1>s, <1>13, <2>1, <2>2 DEF EngineCompletes, TypeInv, TypeOK, CallTypes
<1>14. ASSUME NEW w \in Worker, EngineCall(w)
      PROVE  TypeInv'
  <2>1. CallTypes
    BY <1>s, <1>14, ToGateTypes, ReturnTypes DEF EngineCall, TypeInv
  <2>2. fetching' \in [Torrent -> BOOLEAN]
    BY <1>s, <1>14 DEF EngineCall, TypeInv, TypeOK
  <2>3. QED
    BY <1>s, <1>14, <2>1, <2>2 DEF EngineCall, TypeInv, TypeOK, CallTypes
<1>15. ASSUME NEW w \in Worker, GateReadsCap(w)
      PROVE  TypeInv'
  <2>1. CallTypes
    BY <1>s, <1>15 DEF GateReadsCap, TypeInv, TypeOK, Control, CallTypes
  <2>2. QED
    BY <1>s, <1>15, <2>1 DEF GateReadsCap, TypeInv, TypeOK, CallTypes
<1>16. ASSUME NEW w \in Worker, GateReadsPriorities(w)
       PROVE  TypeInv'
  <2>1. PriorityOrder \in PriorityReads
    <3>1. PriorityOrder \in [rows -> Priority]
      BY DEF TypeInv, TypeOK, PriorityOrder
    <3>2. QED
      BY <3>1 DEF TypeInv, TypeOK, PriorityReads
  <2>2. CallTypes
    BY <1>s, <1>16, MoveTypes DEF GateReadsPriorities
  <2>3. QED
    BY <1>16, <2>1, <2>2 DEF TypeOK, TypeInv, CallTypes, GateReadsPriorities
<1>17. ASSUME NEW w \in Worker, GateSnapshots(w)
       PROVE  TypeInv'
  <2>1. PICK s \in Rankings(Eligible, priorityIdx[w]) :
           /\ entries' = [entries EXCEPT ![w] = s]
           /\ pausedAtSnapshot' =
                 [pausedAtSnapshot EXCEPT ![w] = [i \in DOMAIN s |-> paused[s[i]]]]
    BY <1>17 DEF GateSnapshots
  <2>2. /\ s \in Seq(Torrent)
        /\ DOMAIN s = 1..Len(s)
    <3>1. Eligible \in SUBSET Torrent
      BY DEF TypeInv, TypeOK, Eligible
    <3>2. QED
      BY <3>1, RankingIsSeq
  <2>3. [i \in DOMAIN s |-> paused[s[i]]] \in Seq(BOOLEAN)
    <3>1. [i \in 1..Len(s) |-> paused[s[i]]] \in [1..Len(s) -> BOOLEAN]
      BY <2>2 DEF TypeInv, TypeOK
    <3>2. QED
      BY <2>2, <3>1
  <2>4. NoRows \in PriorityReads
    <3>1. NoRows \in [{} -> Priority]
      BY DEF NoRows
    <3>2. QED
      BY <3>1 DEF PriorityReads
  <2>5. {t \in torrents : UserPaused(t)} \in SUBSET Torrent
    BY DEF TypeInv, TypeOK
  <2>6. CallTypes
    BY <1>s, <1>17, MoveTypes DEF GateSnapshots
  <2>7. QED
    BY <1>17, <2>1, <2>2, <2>3, <2>4, <2>5, <2>6
       DEF TypeOK, TypeInv, CallTypes, GateSnapshots
<1>18. ASSUME NEW w \in Worker, GateDecides(w)
       PROVE  TypeInv'
  <2>1. PICK seen \in [DOMAIN entries[w] -> BOOLEAN] :
           LET todo == queueGateDecision(seen, capSeen[w])
           IN  /\ action' = [action EXCEPT ![w] = todo]
               /\ pc' = [pc EXCEPT ![w] =
                     IF \A i \in DOMAIN todo : todo[i] = "keep" THEN "passEnd" ELSE "apply"]
    BY <1>18 DEF GateDecides
  <2>2. entries[w] \in Seq(Torrent)
    BY DEF TypeInv, TypeOK
  <2>3. queueGateDecision(seen, capSeen[w]) \in Seq(Actions)
    BY <2>1, <2>2, DecisionIsSeq
  <2>4. CallTypes
    BY <1>s, <1>18, <2>1, MoveTypes DEF GateDecides
  <2>5. QED
    BY <1>18, <2>1, <2>3, <2>4, ConstantsAssumption DEF TypeOK, TypeInv, CallTypes, GateDecides
<1>19. ASSUME NEW w \in Worker, GateApplies(w)
       PROVE  TypeInv'
  <2>1. PICK i \in NextEntries(w) :
           /\ SetFlags(entries[w][i], action[w][i] = "queue", action[w][i] = "queue")
           /\ current' = [current EXCEPT ![w] = i]
    BY <1>19 DEF GateApplies
  <2>2. i \in Nat
    BY DEF NextEntries, Pending, TypeInv, TypeOK
  <2>3. CallTypes
    BY <1>s, <1>19, MoveTypes DEF GateApplies
  <2>4. disturbed' \in [Worker -> BOOLEAN] /\ settled' \in BOOLEAN
    BY <1>19, DisturbTypes DEF GateApplies
  <2>5. paused' \in [Torrent -> BOOLEAN] /\ queuePaused' \in [Torrent -> BOOLEAN]
    BY <2>1, SetFlagsTypes
  <2>6. QED
    BY <1>19, <2>1, <2>2, <2>3, <2>4, <2>5 DEF TypeOK, TypeInv, CallTypes, GateApplies
<1>20. ASSUME NEW w \in Worker, GateCallsEngine(w)
       PROVE  TypeInv'
  <2>1. [action[w] EXCEPT ![current[w]] = "keep"] \in Seq(Actions)
    <3>1. action[w] \in [1..Len(action[w]) -> Actions] /\ Len(action[w]) \in Nat
      BY DEF TypeInv, TypeOK
    <3>2. [action[w] EXCEPT ![current[w]] = "keep"] \in [1..Len(action[w]) -> Actions]
      BY <3>1 DEF Actions
    <3>3. QED
      BY <3>1, <3>2
  <2>2. CallTypes
    BY <1>s, <1>20, MoveTypes DEF GateCallsEngine
  <2>3. QED
    BY <1>20, <2>1, <2>2 DEF TypeOK, TypeInv, CallTypes, GateCallsEngine
<1>21. ASSUME NEW w \in Worker, PassEnds(w)
       PROVE  TypeInv'
  <2>1. CallTypes
    BY <1>21, ToGateTypes DEF PassEnds
  <2>2. <<>> \in Seq(Torrent) /\ <<>> \in Seq(Actions)
    OBVIOUS
  <2>3. phase' \in [Torrent -> Phases]
    BY <1>s, <1>21 DEF PassEnds, TypeInv, TypeOK
  <2>4. QED
    BY <1>21, <2>1, <2>2, <2>3 DEF TypeOK, TypeInv, CallTypes, PassEnds
<1>22. CASE UNCHANGED vars
  BY <1>22 DEF TypeInv, TypeOK, Control, vars, calls
<1>23. QED
  BY <1>1, <1>2, <1>3, <1>4, <1>4a, <1>5, <1>6, <1>7, <1>8, <1>9, <1>10, <1>11, <1>12, <1>13,
     <1>14, <1>15, <1>16, <1>17, <1>18, <1>19, <1>20, <1>21, <1>22
     DEF Next, UserOperation, Monitor, Proceed, GatePass

\* Every behaviour keeps every variable in its type, for all constants.
THEOREM TypeCorrect == Spec => []TypeOK
<1>1. TypeInv /\ [Next]_vars => TypeInv'
  BY StepTypes
<1>2. TypeInv => TypeOK
  BY DEF TypeInv
<1>3. QED
  BY InitTypes, <1>1, <1>2, PTL DEF Spec

-----------------------------------------------------------------------------
(* The result of an undisturbed pass *)

\* Everything a pass bases its decision on.
Inputs == <<torrents, paused, queuePaused, ready, complete, rows, prio, maxActiveDownloads>>

\* What holds of pass w at each of its steps as long as nobody disturbs it.
Knows(w) ==
    /\ pc[w] \in {"prio", "snapshot", "decide"} => capSeen[w] = maxActiveDownloads
    /\ pc[w] = "snapshot" => priorityIdx[w] = PriorityOrder
    /\ pc[w] \in {"decide", "apply", "applyEngine", "passEnd"} =>
          entries[w] \in Rankings(Eligible, PriorityOrder)
    /\ pc[w] = "decide" =>
          pausedAtSnapshot[w] = [i \in DOMAIN entries[w] |-> paused[entries[w][i]]]
    /\ pc[w] \in {"apply", "applyEngine"} => DOMAIN action[w] = DOMAIN entries[w]
    /\ pc[w] = "apply" =>
          \A i \in DOMAIN entries[w] :
             action[w][i] = GateAction(i, paused[entries[w][i]], maxActiveDownloads)
    /\ pc[w] = "applyEngine" =>
          /\ current[w] \in DOMAIN entries[w]
          /\ ~paused[entries[w][current[w]]] <=> ShouldRun(current[w], maxActiveDownloads)
          /\ \A i \in DOMAIN entries[w] \ {current[w]} :
                action[w][i] = GateAction(i, paused[entries[w][i]], maxActiveDownloads)
    /\ pc[w] = "passEnd" =>
          \A i \in DOMAIN entries[w] :
             ~paused[entries[w][i]] <=> ShouldRun(i, maxActiveDownloads)

PassSteps == {"prio", "snapshot", "decide", "apply", "applyEngine", "passEnd"}

PassInv == (\A w \in Worker : ~disturbed[w] => Knows(w)) /\ SettledIsBalanced

\* A step that disturbs every pass but w's, with w outside a pass afterwards.
LEMMA DisturbKeepsPassInv ==
    ASSUME TypeOK, NEW w \in Worker, Disturb(w), pc'[w] \notin PassSteps
    PROVE  PassInv'
BY DEF TypeOK, Disturb, PassSteps, PassInv, Knows, SettledIsBalanced

LEMMA DisturbAllKeepsPassInv ==
    ASSUME DisturbAll
    PROVE  PassInv'
BY DEF DisturbAll, PassInv, SettledIsBalanced

\* The candidates, their order and balance depend on the inputs alone.
LEMMA InputsDecide ==
    ASSUME UNCHANGED Inputs
    PROVE  /\ Eligible' = Eligible
           /\ PriorityOrder' = PriorityOrder
           /\ Balanced' = Balanced
<1>1. Eligible' = Eligible
  BY DEF Inputs, Eligible
<1>2. PriorityOrder' = PriorityOrder
  BY DEF Inputs, PriorityOrder
<1>3. Balanced' = Balanced
  BY <1>1, <1>2 DEF Inputs, Balanced
<1>4. QED
  BY <1>1, <1>2, <1>3

\* A step of w that changes no input keeps what the other passes know.
LEMMA QuietKeepsPassInv ==
    ASSUME PassInv, NEW w \in Worker, UNCHANGED Inputs, UNCHANGED watched,
           \A v \in Worker \ {w} :
              /\ pc'[v] = pc[v]
              /\ capSeen'[v] = capSeen[v]
              /\ priorityIdx'[v] = priorityIdx[v]
              /\ entries'[v] = entries[v]
              /\ pausedAtSnapshot'[v] = pausedAtSnapshot[v]
              /\ action'[v] = action[v]
              /\ current'[v] = current[v],
           ~disturbed[w] => Knows(w)'
    PROVE  PassInv'
<1>1. Eligible' = Eligible /\ PriorityOrder' = PriorityOrder /\ Balanced' = Balanced
  BY InputsDecide
<1>2. SettledIsBalanced'
  BY <1>1 DEF PassInv, SettledIsBalanced, watched
<1>3. ASSUME NEW v \in Worker \ {w}, Knows(v)
      PROVE  Knows(v)'
  BY <1>1, <1>3 DEF Knows, Inputs
<1>4. QED
  BY <1>2, <1>3 DEF PassInv, watched

\* What the decision asks for a candidate says where it stands.
LEMMA GateActionMeans ==
    ASSUME NEW i, NEW p \in BOOLEAN, NEW cap
    PROVE  /\ GateAction(i, p, cap) = "keep" <=> (~p <=> ShouldRun(i, cap))
           /\ GateAction(i, p, cap) = "resume" => ShouldRun(i, cap)
           /\ GateAction(i, p, cap) = "queue" => ~ShouldRun(i, cap)
<1>1. CASE ShouldRun(i, cap)
  BY <1>1 DEF GateAction
<1>2. CASE ~ShouldRun(i, cap)
  BY <1>2 DEF GateAction
<1>3. QED
  BY <1>1, <1>2

\* A ranking lists every member once, so its entries are distinct members.
LEMMA RankingIsInjective ==
    ASSUME NEW E \in SUBSET Torrent, NEW idx, NEW s \in Rankings(E, idx)
    PROVE  /\ \A i \in DOMAIN s : s[i] \in E
           /\ \A i, j \in DOMAIN s : i # j => s[i] # s[j]
<1>1. s \in [1..Cardinality(E) -> E]
  BY DEF Rankings
<1>2. QED
  BY <1>1 DEF Rankings

\* A pass learns the cap when it begins.
LEMMA ReadsCapKeepsPassInv ==
    ASSUME TypeOK, PassInv, NEW w \in Worker, GateReadsCap(w)
    PROVE  PassInv'
<1> USE DEF map, table, engine
<1>1. UNCHANGED Inputs
  BY DEF GateReadsCap, Inputs
<1>2. Eligible' = Eligible /\ PriorityOrder' = PriorityOrder /\ Balanced' = Balanced
  BY <1>1, InputsDecide
<1>3. SettledIsBalanced'
  BY <1>2 DEF GateReadsCap, PassInv, SettledIsBalanced
<1>4. Knows(w)'
  BY DEF GateReadsCap, Knows, TypeOK
<1>5. ASSUME NEW v \in Worker \ {w}, ~disturbed'[v]
      PROVE  Knows(v)'
  <2>1. Knows(v)
    BY <1>5 DEF GateReadsCap, PassInv, TypeOK
  <2>2. pc'[v] = pc[v] /\ capSeen'[v] = capSeen[v]
    BY DEF GateReadsCap, TypeOK
  <2>3. QED
    BY <1>1, <1>2, <2>1, <2>2 DEF Knows, GateReadsCap, Inputs
<1>6. QED
  BY <1>3, <1>4, <1>5 DEF PassInv

\* Writing one entry's flags keeps the candidates and moves that entry to where
\* the decision wants it.
LEMMA AppliesKeepsPassInv ==
    ASSUME TypeOK, PassInv, NEW w \in Worker, GateApplies(w)
    PROVE  PassInv'
<1> USE DEF table, engine
<1>1. SettledIsBalanced' /\ \A v \in Worker \ {w} : disturbed'[v]
  BY DEF GateApplies, Disturb, SettledIsBalanced
<1>2. ASSUME ~disturbed'[w]
      PROVE  Knows(w)'
  <2> DEFINE s == entries[w]
  <2>1. Knows(w) /\ pc[w] = "apply" /\ pc'[w] = "applyEngine"
    BY <1>2 DEF GateApplies, Disturb, PassInv, TypeOK
  <2>2. PICK i \in NextEntries(w) :
           /\ SetFlags(s[i], action[w][i] = "queue", action[w][i] = "queue")
           /\ current' = [current EXCEPT ![w] = i]
    BY DEF GateApplies
  <2>3. /\ s \in Rankings(Eligible, PriorityOrder)
        /\ DOMAIN action[w] = DOMAIN s
        /\ \A j \in DOMAIN s :
              action[w][j] = GateAction(j, paused[s[j]], maxActiveDownloads)
    BY <2>1 DEF Knows
  <2>4. i \in DOMAIN s /\ action[w][i] \in {"resume", "queue"}
    BY <2>3 DEF NextEntries, Pending
  <2>5. /\ \A j \in DOMAIN s : s[j] \in Eligible
        /\ \A j, k \in DOMAIN s : j # k => s[j] # s[k]
        /\ Eligible \in SUBSET Torrent
    <3>1. Eligible \in SUBSET Torrent
      BY DEF Eligible, TypeOK
    <3>2. QED
      BY <2>3, <3>1, RankingIsInjective
  <2>6. /\ paused'[s[i]] = (action[w][i] = "queue")
        /\ queuePaused'[s[i]] = (action[w][i] = "queue")
        /\ \A t \in Torrent \ {s[i]} :
              paused'[t] = paused[t] /\ queuePaused'[t] = queuePaused[t]
    BY <2>2, <2>4, <2>5 DEF SetFlags, TypeOK
  <2>7. Eligible' = Eligible
    BY <2>4, <2>5, <2>6 DEF Eligible, GateApplies, TypeOK
  <2>8. PriorityOrder' = PriorityOrder
    BY DEF PriorityOrder, GateApplies
  <2>9. ~paused'[s[i]] <=> ShouldRun(i, maxActiveDownloads)
    <3>1. paused[s[i]] \in BOOLEAN
      BY <2>4, <2>5 DEF TypeOK
    <3>2. action[w][i] = GateAction(i, paused[s[i]], maxActiveDownloads)
      BY <2>3, <2>4
    <3>3. CASE action[w][i] = "resume"
      <4>1. ShouldRun(i, maxActiveDownloads)
        BY <3>1, <3>2, <3>3, GateActionMeans
      <4>2. paused'[s[i]] = FALSE
        BY <2>6, <3>3
      <4>3. QED
        BY <4>1, <4>2
    <3>4. CASE action[w][i] = "queue"
      <4>1. ~ShouldRun(i, maxActiveDownloads)
        BY <3>1, <3>2, <3>4, GateActionMeans
      <4>2. paused'[s[i]] = TRUE
        BY <2>6, <3>4
      <4>3. QED
        BY <4>1, <4>2
    <3>5. QED
      BY <2>4, <3>3, <3>4
  <2>10. \A j \in DOMAIN s \ {i} : paused'[s[j]] = paused[s[j]]
    BY <2>4, <2>5, <2>6
  <2>11. /\ entries' = entries /\ action' = action /\ current'[w] = i
         /\ maxActiveDownloads' = maxActiveDownloads
    BY <2>2 DEF GateApplies, TypeOK
  <2>12. QED
    BY <2>1, <2>3, <2>4, <2>7, <2>8, <2>9, <2>10, <2>11 DEF Knows
<1>3. QED
  BY <1>1, <1>2 DEF PassInv

\* A pass that ends undisturbed leaves the queue balanced.
LEMMA EndsKeepsPassInv ==
    ASSUME TypeOK, PassInv, NEW w \in Worker, PassEnds(w)
    PROVE  PassInv'
<1> USE DEF map, table
<1>1. UNCHANGED Inputs
  BY DEF PassEnds, Inputs
<1>2. Eligible' = Eligible /\ PriorityOrder' = PriorityOrder /\ Balanced' = Balanced
  BY <1>1, InputsDecide
<1>3. ASSUME ~disturbed[w]
      PROVE  Balanced
  <2>1. /\ entries[w] \in Rankings(Eligible, PriorityOrder)
        /\ \A i \in DOMAIN entries[w] :
              ~paused[entries[w][i]] <=> ShouldRun(i, maxActiveDownloads)
    BY <1>3 DEF PassEnds, PassInv, Knows
  <2>2. QED
    BY <2>1 DEF Balanced, ShouldRun
<1>4. SettledIsBalanced'
  BY <1>2, <1>3 DEF PassEnds, PassInv, SettledIsBalanced
<1>5. pc'[w] \in {"cap", "idle"} /\ \A v \in Worker \ {w} : pc'[v] = pc[v]
  BY DEF PassEnds, ToGate, Return, TypeOK
<1>6. Knows(w)'
  BY <1>5 DEF Knows
<1>7. ASSUME NEW v \in Worker \ {w}, Knows(v)
      PROVE  Knows(v)'
  <2>1. entries'[v] = entries[v] /\ action'[v] = action[v]
    BY DEF PassEnds, TypeOK
  <2>2. QED
    BY <1>1, <1>2, <1>5, <1>7, <2>1 DEF Knows, PassEnds, Inputs
<1>8. QED
  BY <1>4, <1>6, <1>7 DEF PassInv, PassEnds

\* The steps inside a pass that write locals or tell the engine, and nothing
\* that a pass reads.
LEMMA PassStepsKeepPassInv ==
    ASSUME TypeOK, PassInv, NEW w \in Worker,
           GateReadsPriorities(w) \/ GateSnapshots(w) \/ GateDecides(w) \/ GateCallsEngine(w)
    PROVE  PassInv'
<1> USE DEF map, table, engine
<1>1. UNCHANGED Inputs /\ UNCHANGED watched
  BY DEF Inputs, watched, GateReadsPriorities, GateSnapshots, GateDecides, GateCallsEngine
<1>2. Eligible' = Eligible /\ PriorityOrder' = PriorityOrder
  BY <1>1, InputsDecide
<1>3. \A v \in Worker \ {w} :
         /\ pc'[v] = pc[v]
         /\ capSeen'[v] = capSeen[v]
         /\ priorityIdx'[v] = priorityIdx[v]
         /\ entries'[v] = entries[v]
         /\ pausedAtSnapshot'[v] = pausedAtSnapshot[v]
         /\ action'[v] = action[v]
         /\ current'[v] = current[v]
  <2>1. CASE GateReadsPriorities(w)
    BY <2>1 DEF GateReadsPriorities, TypeOK
  <2>2. CASE GateSnapshots(w)
    BY <2>2 DEF GateSnapshots, TypeOK
  <2>3. CASE GateDecides(w)
    BY <2>3 DEF GateDecides, TypeOK
  <2>4. CASE GateCallsEngine(w)
    BY <2>4 DEF GateCallsEngine, TypeOK
  <2>5. QED
    BY <2>1, <2>2, <2>3, <2>4
<1>4. ASSUME ~disturbed[w]
      PROVE  Knows(w)'
  <2>1. Knows(w)
    BY <1>4 DEF PassInv
  <2>2. CASE GateReadsPriorities(w)
    BY <1>1, <1>2, <2>1, <2>2 DEF GateReadsPriorities, Knows, TypeOK, Inputs
  <2>3. CASE GateSnapshots(w)
    <3>1. PICK s \in Rankings(Eligible, priorityIdx[w]) :
             /\ entries' = [entries EXCEPT ![w] = s]
             /\ pausedAtSnapshot' =
                   [pausedAtSnapshot EXCEPT ![w] = [i \in DOMAIN s |-> paused[s[i]]]]
      BY <2>3 DEF GateSnapshots
    <3>2. /\ entries'[w] = s
          /\ pausedAtSnapshot'[w] = [i \in DOMAIN s |-> paused[s[i]]]
          /\ pc'[w] = "decide"
      BY <2>3, <3>1 DEF GateSnapshots, TypeOK
    <3>3. s \in Rankings(Eligible, PriorityOrder) /\ capSeen[w] = maxActiveDownloads
      BY <2>1, <2>3 DEF Knows, GateSnapshots
    <3>4. QED
      BY <1>1, <1>2, <2>3, <3>2, <3>3 DEF GateSnapshots, Knows, Inputs
  <2>4. CASE GateDecides(w)
    <3> DEFINE s == entries[w]
    <3>1. PICK seen \in [DOMAIN s -> BOOLEAN] :
             /\ \A i \in DOMAIN s : seen[i] \in {pausedAtSnapshot[w][i], paused[s[i]]}
             /\ LET todo == queueGateDecision(seen, capSeen[w])
                IN  /\ action' = [action EXCEPT ![w] = todo]
                    /\ pc' = [pc EXCEPT ![w] =
                         IF \A i \in DOMAIN todo : todo[i] = "keep" THEN "passEnd" ELSE "apply"]
      BY <2>4 DEF GateDecides
    <3> DEFINE todo == queueGateDecision(seen, capSeen[w])
    <3>2. /\ s \in Rankings(Eligible, PriorityOrder)
          /\ capSeen[w] = maxActiveDownloads
          /\ \A i \in DOMAIN s : seen[i] = paused[s[i]]
      BY <2>1, <2>4, <3>1 DEF GateDecides, Knows
    <3>3. /\ DOMAIN todo = DOMAIN s
          /\ \A i \in DOMAIN s : todo[i] = GateAction(i, paused[s[i]], maxActiveDownloads)
      BY <3>1, <3>2 DEF queueGateDecision
    <3>4. ASSUME \A i \in DOMAIN todo : todo[i] = "keep"
          PROVE  \A i \in DOMAIN s : ~paused[s[i]] <=> ShouldRun(i, maxActiveDownloads)
      <4>1. \A i \in DOMAIN s : paused[s[i]] \in BOOLEAN
        BY <3>1, <3>2
      <4>2. QED
        BY <3>3, <3>4, <4>1, GateActionMeans
    <3>5. /\ action'[w] = todo
          /\ pc'[w] = IF \A i \in DOMAIN todo : todo[i] = "keep" THEN "passEnd" ELSE "apply"
      BY <3>1 DEF TypeOK
    <3> HIDE DEF todo
    <3>6. /\ entries' = entries /\ paused' = paused
          /\ maxActiveDownloads' = maxActiveDownloads
      BY <2>4 DEF GateDecides
    <3>7. CASE \A i \in DOMAIN todo : todo[i] = "keep"
      BY <1>2, <3>2, <3>4, <3>5, <3>6, <3>7 DEF Knows
    <3>8. CASE ~(\A i \in DOMAIN todo : todo[i] = "keep")
      BY <1>2, <3>2, <3>3, <3>5, <3>6, <3>8 DEF Knows
    <3>9. QED
      BY <3>7, <3>8
  <2>5. CASE GateCallsEngine(w)
    <3> DEFINE s == entries[w]
               c == current[w]
               todo == [action[w] EXCEPT ![c] = "keep"]
    <3>1. /\ action' = [action EXCEPT ![w] = todo]
          /\ pc' = [pc EXCEPT ![w] =
                IF \A j \in DOMAIN todo : todo[j] = "keep" THEN "passEnd" ELSE "apply"]
          /\ entries' = entries /\ paused' = paused
          /\ maxActiveDownloads' = maxActiveDownloads
      BY <2>5 DEF GateCallsEngine
    <3>2. /\ s \in Rankings(Eligible, PriorityOrder)
          /\ DOMAIN action[w] = DOMAIN s
          /\ c \in DOMAIN s
          /\ ~paused[s[c]] <=> ShouldRun(c, maxActiveDownloads)
          /\ \A i \in DOMAIN s \ {c} :
                action[w][i] = GateAction(i, paused[s[i]], maxActiveDownloads)
      BY <2>1, <2>5 DEF GateCallsEngine, Knows
    <3>3. DOMAIN todo = DOMAIN s /\ todo[c] = "keep"
          /\ \A i \in DOMAIN s \ {c} : todo[i] = action[w][i]
      BY <3>2
    <3>4. \A i \in DOMAIN s : paused[s[i]] \in BOOLEAN
      <4>1. Eligible \in SUBSET Torrent
        BY DEF Eligible, TypeOK
      <4>2. \A i \in DOMAIN s : s[i] \in Torrent
        BY <3>2, <4>1, RankingIsInjective
      <4>3. QED
        BY <4>2 DEF TypeOK
    <3>5. \A i \in DOMAIN s : todo[i] = GateAction(i, paused[s[i]], maxActiveDownloads)
      <4>1. GateAction(c, paused[s[c]], maxActiveDownloads) = "keep"
        BY <3>2, <3>4, GateActionMeans
      <4>2. QED
        BY <3>2, <3>3, <4>1
    <3>6. /\ action'[w] = todo
          /\ pc'[w] = IF \A i \in DOMAIN todo : todo[i] = "keep" THEN "passEnd" ELSE "apply"
      BY <3>1 DEF TypeOK
    <3> HIDE DEF todo
    <3>7. CASE \A i \in DOMAIN todo : todo[i] = "keep"
      <4>1. \A i \in DOMAIN s : ~paused[s[i]] <=> ShouldRun(i, maxActiveDownloads)
        BY <3>3, <3>4, <3>5, <3>7, GateActionMeans
      <4>2. QED
        BY <1>2, <3>1, <3>2, <3>6, <3>7, <4>1 DEF Knows
    <3>8. CASE ~(\A i \in DOMAIN todo : todo[i] = "keep")
      BY <1>2, <3>1, <3>2, <3>3, <3>5, <3>6, <3>8 DEF Knows
    <3>9. QED
      BY <3>7, <3>8
  <2>6. QED
    BY <2>2, <2>3, <2>4, <2>5
<1>5. QED
  BY <1>1, <1>3, <1>4, QuietKeepsPassInv

\* What passes know, and balance once settled, is inductive.
LEMMA StepKeepsPassInv ==
    ASSUME TypeInv, PassInv, [Next]_vars
    PROVE  PassInv'
<1> USE DEF TypeInv
<1>1. ASSUME NEW w \in Worker, Disturb(w), pc'[w] \in {"persist", "engine", "cap", "idle"}
      PROVE  PassInv'
  BY <1>1, DisturbKeepsPassInv DEF PassSteps
<1>2. ASSUME NEW w \in Worker, UserOperation(w)
      PROVE  PassInv'
  <2> DEFINE Outside == Disturb(w) /\ pc'[w] \in {"persist", "engine", "cap"}
  <2>a. ASSUME NEW t \in Torrent, NEW p \in BOOLEAN, Add(w, t, p)
        PROVE  Outside
    BY <2>a DEF Add, Begin, TypeOK
  <2>b. ASSUME NEW t \in Torrent, Pause(w, t) \/ Resume(w, t)
        PROVE  Outside
    BY <2>b DEF Pause, Resume, Begin, TypeOK
  <2>c. ASSUME NEW t \in Torrent, ForceStart(w, t) \/ Remove(w, t)
        PROVE  Outside
    BY <2>c DEF ForceStart, Remove, Begin, TypeOK
  <2>d. ASSUME NEW t \in Torrent, NEW p \in Priority, SetPriority(w, t, p)
        PROVE  Outside
    BY <2>d DEF SetPriority, Begin, TypeOK
  <2>e. ASSUME NEW n \in Cap, SetMaxActiveDownloads(w, n)
        PROVE  Outside
    BY <2>e DEF SetMaxActiveDownloads, Begin, TypeOK
  <2>1. Outside
    BY <1>2, <2>a, <2>b, <2>c, <2>d, <2>e DEF UserOperation
  <2>2. QED
    BY <1>1, <2>1
<1>3. ASSUME NEW w \in Worker, Persist(w)
      PROVE  PassInv'
  BY <1>1, <1>3 DEF Persist, Return, TypeOK
<1>4. ASSUME NEW w \in Worker, NEW t \in Torrent, StartReady(w, t) \/ CompletedAndPaused(w, t)
      PROVE  PassInv'
  <2>1. Disturb(w) /\ pc'[w] \in {"engine", "cap"}
    BY <1>4 DEF StartReady, CompletedAndPaused, Begin, TypeOK
  <2>2. QED
    BY <1>1, <2>1
<1>5. ASSUME NEW w \in Worker, NEW t \in Torrent, Completed(w, t)
      PROVE  PassInv'
  <2>1. pc' = [pc EXCEPT ![w] = "cap"]
    BY <1>5 DEF Completed, Begin
  <2>2. Knows(w)'
    BY <2>1 DEF Knows, TypeOK
  <2>3. QED
    BY <1>5, <2>1, <2>2, QuietKeepsPassInv
       DEF Completed, Inputs, map, table, locals, TypeOK
<1>6. ASSUME NEW t \in Torrent, Recheck(t) \/ EngineCompletes(t)
      PROVE  PassInv'
  <2>1. CASE DisturbAll
    BY <2>1, DisturbAllKeepsPassInv
  <2>2. CASE t \notin torrents /\ UNCHANGED watched /\ EngineCompletes(t)
    <3>1. /\ complete' = [complete EXCEPT ![t] = TRUE]
          /\ UNCHANGED <<map, table, ready, maxActiveDownloads, pc, locals>>
      BY <2>2 DEF EngineCompletes, calls
    <3>2. Eligible' = Eligible
      BY <2>2, <3>1 DEF Eligible, map, TypeOK
    <3>3. PriorityOrder' = PriorityOrder /\ Balanced' = Balanced
      BY <3>1, <3>2 DEF PriorityOrder, Balanced, map, table
    <3>4. \A v \in Worker : Knows(v) => Knows(v)'
      BY <3>1, <3>2, <3>3 DEF Knows, locals, map
    <3>5. QED
      BY <2>2, <3>3, <3>4 DEF PassInv, SettledIsBalanced, watched
  <2>3. QED
    BY <1>6, <2>1, <2>2 DEF Recheck, EngineCompletes
<1>7. ASSUME NEW w \in Worker, EngineCall(w)
      PROVE  PassInv'
  <2>1. /\ pc'[w] \in {"cap", "idle"}
        /\ \A v \in Worker \ {w} : pc'[v] = pc[v]
    BY <1>7 DEF EngineCall, ToGate, Return, TypeOK
  <2>2. Knows(w)'
    BY <2>1 DEF Knows
  <2>3. UNCHANGED Inputs /\ UNCHANGED locals /\ UNCHANGED watched
    BY <1>7 DEF EngineCall, Inputs, map, table, watched
  <2>4. QED
    BY <2>1, <2>2, <2>3, QuietKeepsPassInv DEF locals
<1>8. ASSUME NEW w \in Worker, GatePass(w)
      PROVE  PassInv'
  BY <1>8, ReadsCapKeepsPassInv, PassStepsKeepPassInv, AppliesKeepsPassInv,
     EndsKeepsPassInv DEF GatePass
<1>9. ASSUME UNCHANGED Inputs, UNCHANGED pc, UNCHANGED locals, UNCHANGED watched
      PROVE  PassInv'
  <2>1. Eligible' = Eligible /\ PriorityOrder' = PriorityOrder /\ Balanced' = Balanced
    BY <1>9, InputsDecide
  <2>2. \A v \in Worker : Knows(v) => Knows(v)'
    BY <1>9, <2>1 DEF Knows, locals, Inputs
  <2>3. QED
    BY <1>9, <2>1, <2>2 DEF PassInv, SettledIsBalanced, watched
<1>10. ASSUME NEW t \in Torrent, MonitorQuits(t)
       PROVE  PassInv'
  BY <1>9, <1>10 DEF MonitorQuits, Inputs, map, table, calls
<1>11. CASE UNCHANGED vars
  BY <1>9, <1>11 DEF vars, Inputs, map, table, calls, engine
<1>12. QED
  BY <1>2, <1>3, <1>4, <1>5, <1>6, <1>7, <1>8, <1>10, <1>11 DEF Next, Proceed, Monitor

\* For any number of torrents and goroutines, overlapping as they like: the last
\* gate pass that nobody disturbed leaves exactly the top max_active_downloads
\* candidates running, until something changes.
THEOREM SettledBalanced == Spec => []SettledIsBalanced
<1>1. Init => PassInv
  BY DEF Init, PassInv, Knows, SettledIsBalanced
<1>2. TypeInv /\ PassInv /\ [Next]_vars => TypeInv' /\ PassInv'
  BY StepTypes, StepKeepsPassInv
<1>3. PassInv => SettledIsBalanced
  BY DEF PassInv
<1>4. QED
  BY InitTypes, <1>1, <1>2, <1>3, PTL DEF Spec

-----------------------------------------------------------------------------
(* The sticky user pause *)

\* No candidate of a pass was user-paused at its snapshot, and the pass decides
\* about its candidates only.
FrozenInv ==
    \A w \in Worker :
        /\ \A i \in DOMAIN entries[w] : entries[w][i] \notin frozen[w]
        /\ pc[w] \in {"apply", "applyEngine"} => DOMAIN action[w] = DOMAIN entries[w]

\* Steps outside the passes change neither candidates nor decisions, and lead no
\* worker into the middle of a pass.
LEMMA OutsideKeepsFrozenInv ==
    ASSUME FrozenInv, UNCHANGED <<entries, frozen, action>>,
           \A v \in Worker : pc'[v] = pc[v] \/ pc'[v] \notin {"apply", "applyEngine"}
    PROVE  FrozenInv'
BY DEF FrozenInv

LEMMA StepKeepsFrozenInv ==
    ASSUME TypeInv, FrozenInv, [Next]_vars
    PROVE  FrozenInv'
<1> USE DEF TypeInv
<1>1. ASSUME NEW w \in Worker, UserOperation(w) \/ Persist(w) \/ EngineCall(w)
      PROVE  FrozenInv'
  <2> DEFINE Outside == /\ UNCHANGED locals
                        /\ pc'[w] \notin {"apply", "applyEngine"}
                        /\ \A v \in Worker \ {w} : pc'[v] = pc[v]
  <2>1. ASSUME NEW t \in Torrent, NEW p \in BOOLEAN, Add(w, t, p)
        PROVE  Outside
    BY <2>1 DEF Add, Begin, TypeOK
  <2>2. ASSUME NEW t \in Torrent, Pause(w, t) \/ Resume(w, t)
        PROVE  Outside
    BY <2>2 DEF Pause, Resume, Begin, TypeOK
  <2>3. ASSUME NEW t \in Torrent, ForceStart(w, t) \/ Remove(w, t)
        PROVE  Outside
    BY <2>3 DEF ForceStart, Remove, Begin, TypeOK
  <2>4. ASSUME NEW t \in Torrent, NEW p \in Priority, SetPriority(w, t, p)
        PROVE  Outside
    BY <2>4 DEF SetPriority, Begin, TypeOK
  <2>5. ASSUME NEW n \in Cap, SetMaxActiveDownloads(w, n)
        PROVE  Outside
    BY <2>5 DEF SetMaxActiveDownloads, Begin, TypeOK
  <2>6. ASSUME Persist(w)
        PROVE  Outside
    BY <2>6 DEF Persist, Return, TypeOK
  <2>7. ASSUME EngineCall(w)
        PROVE  Outside
    BY <2>7 DEF EngineCall, ToGate, Return, TypeOK
  <2>8. Outside
    BY <1>1, <2>1, <2>2, <2>3, <2>4, <2>5, <2>6, <2>7 DEF UserOperation
  <2>9. QED
    BY <2>8, OutsideKeepsFrozenInv DEF locals
<1>2. ASSUME NEW w \in Worker, NEW t \in Torrent, StartReady(w, t) \/ Monitor(w, t)
      PROVE  FrozenInv'
  <2> DEFINE Outside == /\ UNCHANGED locals
                        /\ pc'[w] \notin {"apply", "applyEngine"}
                        /\ \A v \in Worker \ {w} : pc'[v] = pc[v]
  <2>1. ASSUME StartReady(w, t)
        PROVE  Outside
    BY <2>1 DEF StartReady, Begin, TypeOK
  <2>2. ASSUME Completed(w, t)
        PROVE  Outside
    BY <2>2 DEF Completed, Begin, TypeOK
  <2>3. ASSUME CompletedAndPaused(w, t)
        PROVE  Outside
    BY <2>3 DEF CompletedAndPaused, Begin, TypeOK
  <2>4. Outside
    BY <1>2, <2>1, <2>2, <2>3 DEF Monitor
  <2>5. QED
    BY <2>4, OutsideKeepsFrozenInv DEF locals
<1>3. ASSUME NEW t \in Torrent, MonitorQuits(t) \/ Recheck(t) \/ EngineCompletes(t)
      PROVE  FrozenInv'
  BY <1>3, OutsideKeepsFrozenInv
     DEF MonitorQuits, Recheck, EngineCompletes, locals, calls
<1>4. ASSUME NEW w \in Worker, GateReadsCap(w) \/ GateReadsPriorities(w) \/ PassEnds(w)
      PROVE  FrozenInv'
  <2>1. pc'[w] \notin {"apply", "applyEngine"} /\ \A v \in Worker \ {w} : pc'[v] = pc[v]
    BY <1>4 DEF GateReadsCap, GateReadsPriorities, PassEnds, ToGate, Return, TypeOK
  <2>2. CASE GateReadsCap(w) \/ GateReadsPriorities(w)
    BY <2>1, <2>2, OutsideKeepsFrozenInv DEF GateReadsCap, GateReadsPriorities
  <2>3. CASE PassEnds(w)
    BY <2>1, <2>3 DEF PassEnds, FrozenInv, TypeOK
  <2>4. QED
    BY <1>4, <2>2, <2>3
<1>5. ASSUME NEW w \in Worker, GateSnapshots(w)
      PROVE  FrozenInv'
  <2>1. PICK s \in Rankings(Eligible, priorityIdx[w]) : entries' = [entries EXCEPT ![w] = s]
    BY <1>5 DEF GateSnapshots
  <2>2. frozen' = [frozen EXCEPT ![w] = {t \in torrents : UserPaused(t)}]
    BY <1>5 DEF GateSnapshots
  <2>3. \A i \in DOMAIN s : s[i] \in Eligible
    <3>1. Eligible \in SUBSET Torrent
      BY DEF Eligible, TypeOK
    <3>2. QED
      BY <3>1, RankingIsInjective
  <2>4. \A i \in DOMAIN s : s[i] \notin {t \in torrents : UserPaused(t)}
    BY <2>3 DEF Eligible, UserPaused
  <2>5. QED
    BY <1>5, <2>1, <2>2, <2>4 DEF GateSnapshots, FrozenInv, TypeOK
<1>6. ASSUME NEW w \in Worker, GateDecides(w)
      PROVE  FrozenInv'
  <2>1. DOMAIN action'[w] = DOMAIN entries[w]
    BY <1>6 DEF GateDecides, queueGateDecision, TypeOK
  <2>2. QED
    BY <1>6, <2>1 DEF GateDecides, FrozenInv, TypeOK
<1>7. ASSUME NEW w \in Worker, GateApplies(w)
      PROVE  FrozenInv'
  BY <1>7 DEF GateApplies, FrozenInv, TypeOK
<1>8. ASSUME NEW w \in Worker, GateCallsEngine(w)
      PROVE  FrozenInv'
  BY <1>8 DEF GateCallsEngine, FrozenInv, TypeOK
<1>9. CASE UNCHANGED vars
  BY <1>9 DEF FrozenInv, vars, locals, calls
<1>10. QED
  BY <1>1, <1>2, <1>3, <1>4, <1>5, <1>6, <1>7, <1>8, <1>9 DEF Next, Proceed, GatePass

\* However the operations and passes overlap, a pass never writes the flags of
\* a torrent that was user-paused when it took its snapshot.
THEOREM SnapshotPausesKept == Spec => SnapshotPausesAreKept
<1>1. Init => FrozenInv
  BY DEF Init, FrozenInv
<1>2. TypeInv /\ FrozenInv /\ [Next]_vars => TypeInv' /\ FrozenInv'
  BY StepTypes, StepKeepsFrozenInv
<1>3. ASSUME TypeInv, FrozenInv, NEW w \in Worker, GateApplies(w), NEW t \in frozen[w]
      PROVE  UNCHANGED <<paused[t], queuePaused[t]>>
  <2>1. PICK i \in NextEntries(w) :
           SetFlags(entries[w][i], action[w][i] = "queue", action[w][i] = "queue")
    BY <1>3 DEF GateApplies
  <2>2. i \in DOMAIN entries[w]
    BY <1>3 DEF NextEntries, Pending, FrozenInv, GateApplies
  <2>3. t # entries[w][i] /\ t \in Torrent
    BY <1>3, <2>2 DEF FrozenInv, TypeInv, TypeOK
  <2>4. QED
    BY <1>3, <2>1, <2>3 DEF SetFlags, TypeInv, TypeOK
<1>4. TypeInv /\ FrozenInv =>
        [\A w \in Worker : GateApplies(w) =>
            \A t \in frozen[w] : UNCHANGED <<paused[t], queuePaused[t]>>]_vars
  BY <1>3
<1>5. QED
  BY InitTypes, <1>1, <1>2, <1>4, PTL DEF Spec, SnapshotPausesAreKept
-----------------------------------------------------------------------------
(* Pauses stay while operations do not overlap *)

\* A torrent paused last is user-paused, and is among those that a pass under
\* way found user-paused at its snapshot.
StickyInv ==
    /\ PauseIsSticky
    /\ \A w \in Worker : pc[w] \in {"decide", "apply", "applyEngine"} =>
          \A t \in torrents : intent[t] = "pause" => t \in frozen[w]

LEMMA QuietKeepsStickyInv ==
    ASSUME StickyInv, UNCHANGED <<torrents, paused, queuePaused, intent, frozen>>,
           \A v \in Worker : pc'[v] = pc[v] \/ pc'[v] \notin {"decide", "apply", "applyEngine"}
    PROVE  StickyInv'
BY DEF StickyInv, PauseIsSticky, UserPaused

LEMMA StepKeepsStickyInv ==
    ASSUME TypeInv, FrozenInv, StickyInv, [Next]_vars,
           \A v, w \in Worker : v = w
    PROVE  StickyInv'
<1> USE DEF TypeInv
<1>1. ASSUME NEW w \in Worker, UserOperation(w)
      PROVE  StickyInv'
  <2> DEFINE Outside == \A v \in Worker : pc'[v] \notin {"decide", "apply", "applyEngine"}
  <2>1. ASSUME NEW t \in Torrent, NEW p \in BOOLEAN, Add(w, t, p)
        PROVE  StickyInv'
    <3>1. Outside
      BY <2>1 DEF Add, Begin, TypeOK
    <3>2. /\ torrents' = torrents \union {t}
          /\ paused' = [paused EXCEPT ![t] = p] /\ queuePaused' = [queuePaused EXCEPT ![t] = FALSE]
          /\ intent' = [intent EXCEPT ![t] = IF p THEN "pause" ELSE "run"]
      BY <2>1 DEF Add, SetFlags
    <3>3. PauseIsSticky'
      BY <3>2 DEF StickyInv, PauseIsSticky, UserPaused, TypeOK
    <3>4. QED
      BY <3>1, <3>3 DEF StickyInv
  <2>2. ASSUME NEW t \in Torrent, Pause(w, t) \/ Resume(w, t) \/ ForceStart(w, t)
        PROVE  StickyInv'
    <3>1. Outside
      BY <2>2 DEF Pause, Resume, ForceStart, Begin, TypeOK
    <3>2. UNCHANGED torrents
      BY <2>2 DEF Pause, Resume, ForceStart
    <3>3. \/ /\ paused' = [paused EXCEPT ![t] = TRUE]
             /\ queuePaused' = [queuePaused EXCEPT ![t] = FALSE]
             /\ intent' = [intent EXCEPT ![t] = "pause"]
          \/ /\ \A u \in Torrent \ {t} : /\ paused'[u] = paused[u]
                                         /\ queuePaused'[u] = queuePaused[u]
             /\ intent' = [intent EXCEPT ![t] = "run"]
      BY <2>2 DEF Pause, Resume, ForceStart, SetFlags, TypeOK
    <3>4. PauseIsSticky'
      BY <3>2, <3>3 DEF StickyInv, PauseIsSticky, UserPaused, TypeOK
    <3>5. QED
      BY <3>1, <3>4 DEF StickyInv
  <2>3. ASSUME NEW t \in Torrent, Remove(w, t)
        PROVE  StickyInv'
    <3>1. Outside
      BY <2>3 DEF Remove, Begin, TypeOK
    <3>2. QED
      BY <2>3, <3>1 DEF Remove, StickyInv, PauseIsSticky, UserPaused
  <2>4. ASSUME NEW t \in Torrent, NEW p \in Priority, SetPriority(w, t, p)
        PROVE  StickyInv'
    <3>1. Outside
      BY <2>4 DEF SetPriority, Begin, TypeOK
    <3>2. QED
      BY <2>4, <3>1, QuietKeepsStickyInv DEF SetPriority, map, locals
  <2>5. ASSUME NEW n \in Cap, SetMaxActiveDownloads(w, n)
        PROVE  StickyInv'
    <3>1. Outside
      BY <2>5 DEF SetMaxActiveDownloads, Begin, TypeOK
    <3>2. QED
      BY <2>5, <3>1, QuietKeepsStickyInv DEF SetMaxActiveDownloads, map, locals
  <2>6. QED
    BY <1>1, <2>1, <2>2, <2>3, <2>4, <2>5 DEF UserOperation
<1>2. ASSUME NEW w \in Worker, NEW t \in Torrent, StartReady(w, t) \/ Completed(w, t)
      PROVE  StickyInv'
  <2>1. \A v \in Worker : pc'[v] \notin {"decide", "apply", "applyEngine"}
    BY <1>2 DEF StartReady, Completed, Begin, TypeOK
  <2>2. QED
    BY <1>2, <2>1, QuietKeepsStickyInv DEF StartReady, Completed, map, locals, asked
<1>3. ASSUME NEW w \in Worker, NEW t \in Torrent, CompletedAndPaused(w, t)
      PROVE  StickyInv'
  <2>1. \A v \in Worker : pc'[v] \notin {"decide", "apply", "applyEngine"}
    BY <1>3 DEF CompletedAndPaused, Begin, TypeOK
  <2>2. PauseIsSticky'
    BY <1>3 DEF CompletedAndPaused, SetFlags, StickyInv, PauseIsSticky, UserPaused, TypeOK
  <2>3. QED
    BY <2>1, <2>2 DEF StickyInv
<1>4. ASSUME NEW w \in Worker, Persist(w) \/ EngineCall(w)
      PROVE  StickyInv'
  <2>1. \A v \in Worker : pc'[v] \notin {"decide", "apply", "applyEngine"}
    BY <1>4 DEF Persist, EngineCall, ToGate, Return, TypeOK
  <2>2. QED
    BY <1>4, <2>1, QuietKeepsStickyInv DEF Persist, EngineCall, map, locals, asked
<1>5. ASSUME NEW t \in Torrent, MonitorQuits(t) \/ Recheck(t) \/ EngineCompletes(t)
      PROVE  StickyInv'
  BY <1>5, QuietKeepsStickyInv DEF MonitorQuits, Recheck, EngineCompletes, map, locals, calls, asked
<1>6. ASSUME NEW w \in Worker, GateReadsCap(w) \/ GateReadsPriorities(w)
      PROVE  StickyInv'
  <2>1. \A v \in Worker : pc'[v] \notin {"decide", "apply", "applyEngine"}
    BY <1>6 DEF GateReadsCap, GateReadsPriorities, TypeOK
  <2>2. QED
    BY <1>6, <2>1, QuietKeepsStickyInv DEF GateReadsCap, GateReadsPriorities, map, asked
<1>7. ASSUME NEW w \in Worker, GateSnapshots(w)
      PROVE  StickyInv'
  <2>1. frozen'[w] = {t \in torrents : UserPaused(t)}
    BY <1>7 DEF GateSnapshots, TypeOK
  <2>2. UNCHANGED <<torrents, paused, queuePaused, intent>>
    BY <1>7 DEF GateSnapshots, map, asked
  <2>3. QED
    BY <2>1, <2>2 DEF StickyInv, PauseIsSticky, UserPaused
<1>8. ASSUME NEW w \in Worker, GateDecides(w) \/ GateCallsEngine(w)
      PROVE  StickyInv'
  <2>1. pc[w] \in {"decide", "applyEngine"} /\ UNCHANGED <<torrents, paused, queuePaused, intent, frozen>>
    BY <1>8 DEF GateDecides, GateCallsEngine, map, asked
  <2>2. QED
    BY <2>1 DEF StickyInv, PauseIsSticky, UserPaused
<1>9. ASSUME NEW w \in Worker, GateApplies(w)
      PROVE  StickyInv'
  \* Whatever the pass writes belongs to a torrent that nobody asked to pause.
  <2>1. PICK i \in NextEntries(w) :
           SetFlags(entries[w][i], action[w][i] = "queue", action[w][i] = "queue")
    BY <1>9 DEF GateApplies
  <2>2. pc[w] = "apply" /\ UNCHANGED <<torrents, intent, frozen>>
    BY <1>9 DEF GateApplies, asked
  <2>3. entries[w][i] \notin frozen[w]
    BY <2>2 DEF NextEntries, Pending, FrozenInv
  <2>4. \A t \in torrents : intent[t] = "pause" => t \in frozen[w]
    BY <2>2 DEF StickyInv
  <2>5. \A t \in torrents : intent[t] = "pause" => paused'[t] = paused[t] /\ queuePaused'[t] = queuePaused[t]
    BY <2>1, <2>3, <2>4 DEF SetFlags, TypeOK
  <2>6. PauseIsSticky'
    BY <2>2, <2>5 DEF StickyInv, PauseIsSticky, UserPaused
  <2>7. QED
    BY <2>2, <2>4, <2>6 DEF StickyInv
<1>10. ASSUME NEW w \in Worker, PassEnds(w)
       PROVE  StickyInv'
  <2>1. \A v \in Worker : pc'[v] \notin {"decide", "apply", "applyEngine"}
    BY <1>10 DEF PassEnds, ToGate, Return, TypeOK
  <2>2. UNCHANGED <<torrents, paused, queuePaused, intent>>
    BY <1>10 DEF PassEnds, map, asked
  <2>3. QED
    BY <2>1, <2>2 DEF StickyInv, PauseIsSticky, UserPaused
<1>11. CASE UNCHANGED vars
  BY <1>11, QuietKeepsStickyInv DEF vars, map, locals, calls, asked
<1>12. QED
  BY <1>1, <1>2, <1>3, <1>4, <1>5, <1>6, <1>7, <1>8, <1>9, <1>10, <1>11
     DEF Next, Proceed, GatePass, Monitor

\* While operations do not overlap, a torrent the user paused stays paused, and
\* not merely queued, whatever passes run, until the user asks for something else.
THEOREM PausesStick ==
    ASSUME \A v, w \in Worker : v = w
    PROVE  Spec => []PauseIsSticky
<1>1. Init => FrozenInv /\ StickyInv
  <2> SUFFICES ASSUME Init PROVE FrozenInv /\ StickyInv
    OBVIOUS
  <2>1. FrozenInv
    BY DEF Init, FrozenInv
  <2>2. PICK restored \in SUBSET Torrent, isStalled \in [Torrent -> BOOLEAN] :
           /\ torrents = restored /\ paused = isStalled
           /\ queuePaused = [t \in Torrent |-> FALSE]
           /\ intent = [t \in Torrent |-> IF isStalled[t] THEN "pause" ELSE "run"]
    BY DEF Init
  <2>3. PauseIsSticky
    BY <2>2 DEF PauseIsSticky, UserPaused
  <2>4. \A w \in Worker : pc[w] = "idle"
    BY DEF Init
  <2>5. QED
    BY <2>1, <2>3, <2>4 DEF StickyInv
<1>2. TypeInv /\ FrozenInv /\ StickyInv /\ [Next]_vars => TypeInv' /\ FrozenInv' /\ StickyInv'
  BY StepTypes, StepKeepsFrozenInv, StepKeepsStickyInv
<1>3. StickyInv => PauseIsSticky
  BY DEF StickyInv
<1>4. QED
  BY InitTypes, <1>1, <1>2, <1>3, PTL DEF Spec
-----------------------------------------------------------------------------
(* The cap between operations *)

Limited(S, cap) == cap > 0 => Cardinality(S) <= cap

\* The downloading torrents that nobody forced.
Unforced == Downloading \ forced

\* What pass w knows although torrents may become complete under it: every
\* candidate is among its entries, and an entry beyond the cap is paused, or
\* is still to be queued.
Holds(w) ==
    /\ pc[w] \in {"prio", "snapshot", "decide"} => capSeen[w] = maxActiveDownloads
    /\ pc[w] \in {"decide", "apply", "applyEngine", "passEnd"} =>
          /\ \A i, j \in DOMAIN entries[w] : i # j => entries[w][i] # entries[w][j]
          /\ \A t \in Eligible : \E i \in DOMAIN entries[w] : entries[w][i] = t
    /\ pc[w] = "decide" =>
          pausedAtSnapshot[w] = [i \in DOMAIN entries[w] |-> paused[entries[w][i]]]
    /\ pc[w] \in {"apply", "applyEngine"} =>
          /\ DOMAIN action[w] = DOMAIN entries[w]
          /\ \A i \in DOMAIN entries[w] :
                /\ action[w][i] = "resume" => ShouldRun(i, maxActiveDownloads)
                /\ ~paused[entries[w][i]] /\ ~ShouldRun(i, maxActiveDownloads) =>
                      action[w][i] = "queue" /\ (pc[w] = "applyEngine" => i # current[w])
    /\ pc[w] = "passEnd" =>
          \A i \in DOMAIN entries[w] :
             ~paused[entries[w][i]] => ShouldRun(i, maxActiveDownloads)

\* Metadata has not arrived before waitAndStart says so.
NotReady ==
    /\ \A t \in Torrent : phase[t] \in {"absent", "adding", "waiting"} => ~ready[t]
    /\ \A w \in Worker : pc[w] = "persist" => phase[target[w]] = "adding"

\* An operation may exceed the cap by its own torrent until its pass has run; one
\* that runs none has forced it.
CapInv ==
    /\ NotReady
    /\ \A w \in Worker : Holds(w)
    /\ (\A w \in Worker : pc[w] \in {"idle", "persist"}) => Limited(Unforced, maxActiveDownloads)
    /\ \A w \in Worker : pc[w] = "engine" =>
          /\ Limited(Unforced \ {target[w]}, maxActiveDownloads)
          /\ passes[w] = 0 => target[w] \in forced
          /\ op[w] = "remove" => target[w] \notin torrents

LEMMA LimitShrinks ==
    ASSUME NEW S \in SUBSET Torrent, NEW R \in SUBSET S, NEW cap \in Int, Limited(S, cap)
    PROVE  Limited(R, cap)
<1>1. IsFiniteSet(S)
  BY ConstantsAssumption, FS_Subset
<1>2. IsFiniteSet(R) /\ Cardinality(R) <= Cardinality(S)
  BY <1>1, FS_Subset
<1>3. Cardinality(R) \in Nat /\ Cardinality(S) \in Nat
  BY <1>1, <1>2, FS_CardinalityType
<1>4. QED
  BY <1>2, <1>3 DEF Limited

\* A set all of whose members stand within the cap is no larger than the cap.
LEMMA WithinCap ==
    ASSUME NEW n \in Nat, NEW cap \in Int, NEW s, NEW D,
           \A d \in D : \E i \in 1..n : ShouldRun(i, cap) /\ s[i] = d
    PROVE  Limited(D, cap)
<1> SUFFICES ASSUME cap > 0 PROVE Cardinality(D) <= cap
  BY DEF Limited
<1> DEFINE I == {i \in 1..cap : s[i] \in D}
           f == [i \in I |-> s[i]]
<1>1. IsFiniteSet(1..cap) /\ Cardinality(1..cap) = cap
  BY FS_Interval
<1>2. IsFiniteSet(I) /\ Cardinality(I) <= cap
  BY <1>1, FS_Subset
<1>3. \A d \in D : \E i \in I : f[i] = d
  BY DEF ShouldRun
<1>4. f \in Surjection(I, D)
  BY <1>3 DEF Surjection
<1>5. IsFiniteSet(D) /\ Cardinality(D) <= Cardinality(I)
  BY <1>2, <1>4, FS_Surjection
<1>6. Cardinality(D) \in Nat /\ Cardinality(I) \in Nat
  BY <1>2, <1>5, FS_CardinalityType
<1>7. QED
  BY <1>2, <1>5, <1>6

LEMMA CapIsInt == TypeOK => maxActiveDownloads \in Int /\ Unforced \subseteq Torrent
BY ConstantsAssumption DEF TypeOK, Unforced, Downloading, Eligible

\* A step that touches one torrent lets no other one join the unforced.
LEMMA OthersStay ==
    ASSUME TypeOK, NEW t, torrents' \subseteq torrents \union {t}, forced \subseteq forced' \union {t},
           \A u \in Torrent \ {t} : /\ paused'[u] = paused[u] /\ queuePaused'[u] = queuePaused[u]
                                    /\ ready'[u] = ready[u] /\ complete'[u] = complete[u]
    PROVE  Unforced' \ {t} \subseteq Unforced
BY DEF TypeOK, Unforced, Downloading, Eligible

\* The only worker begins an operation on t.
LEMMA BeginsAtEngine ==
    ASSUME TypeOK, CapInv, NEW w \in Worker, \A v \in Worker : v = w,
           pc[w] = "idle", pc'[w] = "engine", NEW t, target'[w] = t,
           Unforced' \ {t} \subseteq Unforced, UNCHANGED maxActiveDownloads, NotReady',
           passes'[w] = 0 => t \in forced', op'[w] = "remove" => t \notin torrents'
    PROVE  CapInv'
<1>1. Limited(Unforced, maxActiveDownloads)
  BY DEF CapInv
<1>2. Limited(Unforced' \ {t}, maxActiveDownloads)
  BY <1>1, CapIsInt, LimitShrinks
<1>3. Holds(w)'
  BY DEF Holds
<1>4. QED
  BY <1>2, <1>3 DEF CapInv

LEMMA BeginsAtCap ==
    ASSUME NEW w \in Worker, \A v \in Worker : v = w, pc'[w] = "cap", NotReady'
    PROVE  CapInv'
BY DEF CapInv, Holds

LEMMA OperationKeepsCapInv ==
    ASSUME TypeInv, CapInv, \A v, w \in Worker : v = w, NEW w \in Worker, UserOperation(w)
    PROVE  CapInv'
<1> USE DEF TypeInv
<1>1. ASSUME NEW t \in Torrent, NEW p \in BOOLEAN, Add(w, t, p)
      PROVE  CapInv'
  <2>1. pc[w] = "idle" /\ pc'[w] = "persist" /\ target'[w] = t
    BY <1>1 DEF Add, Begin, TypeOK
  <2>2. /\ torrents' = torrents \union {t}
        /\ paused' = [paused EXCEPT ![t] = p] /\ queuePaused' = [queuePaused EXCEPT ![t] = FALSE]
        /\ phase[t] = "absent" /\ phase' = [phase EXCEPT ![t] = "adding"]
        /\ UNCHANGED <<ready, complete, forced, maxActiveDownloads>>
    BY <1>1 DEF Add, SetFlags
  <2>3. ~ready[t] /\ Limited(Unforced, maxActiveDownloads)
    BY <2>1, <2>2 DEF CapInv, NotReady
  <2>4. \A u \in Torrent \ {t} : paused'[u] = paused[u] /\ queuePaused'[u] = queuePaused[u]
    BY <2>2 DEF TypeOK
  <2>5. Unforced' \ {t} \subseteq Unforced
    BY <2>2, <2>4, OthersStay
  <2>6. t \notin Unforced'
    BY <2>2, <2>3 DEF Unforced, Downloading, Eligible
  <2>7. Limited(Unforced', maxActiveDownloads)
    BY <2>3, <2>5, <2>6, CapIsInt, LimitShrinks
  <2>8. NotReady'
    BY <2>1, <2>2, <2>3 DEF CapInv, NotReady, TypeOK
  <2>9. Holds(w)'
    BY <2>1 DEF Holds
  <2>10. QED
    BY <2>1, <2>2, <2>7, <2>8, <2>9 DEF CapInv
<1>2. ASSUME NEW t \in Torrent, Pause(w, t) \/ Resume(w, t) \/ ForceStart(w, t) \/ Remove(w, t)
      PROVE  CapInv'
  <2>1. pc[w] = "idle" /\ pc'[w] = "engine" /\ target'[w] = t
    BY <1>2 DEF Pause, Resume, ForceStart, Remove, Begin, TypeOK
  <2>2. UNCHANGED <<ready, complete, phase, maxActiveDownloads>>
    BY <1>2 DEF Pause, Resume, ForceStart, Remove, engine
  <2>3. torrents' \subseteq torrents /\ forced \subseteq forced' \union {t}
    BY <1>2 DEF Pause, Resume, ForceStart, Remove
  <2>4. \A u \in Torrent \ {t} : paused'[u] = paused[u] /\ queuePaused'[u] = queuePaused[u]
    BY <1>2 DEF Pause, Resume, ForceStart, Remove, SetFlags, TypeOK
  <2>5. Unforced' \ {t} \subseteq Unforced
    BY <2>2, <2>3, <2>4, OthersStay
  <2>6. NotReady'
    BY <2>1, <2>2 DEF CapInv, NotReady
  <2>7. passes'[w] = 1 \/ t \in forced'
    BY <1>2 DEF Pause, Resume, ForceStart, Remove, Begin, TypeOK
  <2>8. op'[w] = "remove" => t \notin torrents'
    <3>1. op'[w] # "remove" \/ torrents' = torrents \ {t}
      BY <1>2 DEF Pause, Resume, ForceStart, Remove, Begin, TypeOK
    <3>2. QED
      BY <3>1
  <2>9. QED
    BY <2>1, <2>2, <2>5, <2>6, <2>7, <2>8, BeginsAtEngine
<1>3. ASSUME NEW t \in Torrent, NEW p \in Priority, SetPriority(w, t, p)
      PROVE  CapInv'
  <2>1. pc'[w] = "cap" /\ UNCHANGED <<ready, phase>>
    BY <1>3 DEF SetPriority, Begin, TypeOK, engine
  <2>2. NotReady'
    BY <2>1 DEF CapInv, NotReady
  <2>3. QED
    BY <2>1, <2>2, BeginsAtCap
<1>4. ASSUME NEW n \in Cap, SetMaxActiveDownloads(w, n)
      PROVE  CapInv'
  <2>1. pc'[w] = "cap" /\ UNCHANGED <<ready, phase>>
    BY <1>4 DEF SetMaxActiveDownloads, Begin, TypeOK, engine
  <2>2. NotReady'
    BY <2>1 DEF CapInv, NotReady
  <2>3. QED
    BY <2>1, <2>2, BeginsAtCap
<1>5. QED
  BY <1>1, <1>2, <1>3, <1>4 DEF UserOperation
LEMMA BackgroundKeepsCapInv ==
    ASSUME TypeInv, CapInv, \A v, w \in Worker : v = w, "recheck" \notin Ops,
           NEW t \in Torrent,
           \/ \E w \in Worker : StartReady(w, t) \/ Monitor(w, t)
           \/ MonitorQuits(t) \/ Recheck(t) \/ EngineCompletes(t)
    PROVE  CapInv'
<1> USE DEF TypeInv
<1>1. ASSUME NEW w \in Worker, StartReady(w, t)
      PROVE  CapInv'
  <2>1. pc[w] = "idle" /\ pc'[w] \in {"cap", "engine"} /\ target'[w] = t
        /\ passes'[w] = 1 /\ op'[w] = "start"
    BY <1>1 DEF StartReady, Begin, TypeOK
  <2>2. /\ ready' = [ready EXCEPT ![t] = TRUE] /\ phase' = [phase EXCEPT ![t] = "starting"]
        /\ UNCHANGED <<torrents, paused, queuePaused, complete, forced, maxActiveDownloads>>
    BY <1>1 DEF StartReady, map, asked
  <2>3. \A u \in Torrent \ {t} : ready'[u] = ready[u]
    BY <2>2 DEF TypeOK
  <2>4. Unforced' \ {t} \subseteq Unforced
    BY <2>2, <2>3, OthersStay
  <2>5. NotReady'
    BY <2>1, <2>2, <2>3 DEF CapInv, NotReady, TypeOK
  <2>6. QED
    BY <2>1, <2>2, <2>4, <2>5, BeginsAtEngine, BeginsAtCap
<1>2. ASSUME NEW w \in Worker, Completed(w, t)
      PROVE  CapInv'
  <2>1. pc'[w] = "cap" /\ ready' = ready /\ phase' = [phase EXCEPT ![t] = "finished"]
    BY <1>2 DEF Completed, Begin, TypeOK
  <2>2. NotReady'
    BY <2>1 DEF CapInv, NotReady, TypeOK
  <2>3. QED
    BY <2>1, <2>2, BeginsAtCap
<1>3. ASSUME NEW w \in Worker, CompletedAndPaused(w, t)
      PROVE  CapInv'
  <2>1. pc[w] = "idle" /\ pc'[w] = "engine" /\ target'[w] = t
        /\ passes'[w] = 2 /\ op'[w] = "complete"
    BY <1>3 DEF CompletedAndPaused, Begin, TypeOK
  <2>2. /\ phase' = [phase EXCEPT ![t] = "finished"] /\ forced' = forced \ {t}
        /\ UNCHANGED <<torrents, ready, complete, maxActiveDownloads>>
    BY <1>3 DEF CompletedAndPaused
  <2>3. \A u \in Torrent \ {t} : paused'[u] = paused[u] /\ queuePaused'[u] = queuePaused[u]
    BY <1>3 DEF CompletedAndPaused, SetFlags, TypeOK
  <2>4. Unforced' \ {t} \subseteq Unforced
    BY <2>2, <2>3, OthersStay
  <2>5. NotReady'
    BY <2>1, <2>2 DEF CapInv, NotReady, TypeOK
  <2>6. QED
    BY <2>1, <2>2, <2>4, <2>5, BeginsAtEngine
<1>4. CASE MonitorQuits(t)
  <2>1. /\ phase[t] = "watching" /\ phase' = [phase EXCEPT ![t] = "finished"]
        /\ UNCHANGED <<map, table, ready, complete, maxActiveDownloads, calls, locals, forced>>
    BY <1>4 DEF MonitorQuits, asked
  <2>2. Eligible' = Eligible /\ Unforced' = Unforced
    BY <2>1 DEF Eligible, Unforced, Downloading, map
  <2>3. NotReady'
    BY <2>1 DEF CapInv, NotReady, TypeOK, calls
  <2>4. \A w \in Worker : Holds(w)'
    BY <2>1, <2>2 DEF CapInv, Holds, map, calls, locals
  <2>5. QED
    BY <2>1, <2>2, <2>3, <2>4 DEF CapInv, map, calls
<1>5. CASE Recheck(t)
  BY <1>5 DEF Recheck, Request
<1>6. CASE EngineCompletes(t)
  \* A torrent that completes makes room, in the middle of a pass too.
  <2>1. /\ complete' = [complete EXCEPT ![t] = TRUE]
        /\ UNCHANGED <<map, table, ready, phase, maxActiveDownloads, calls, locals, forced>>
    BY <1>6 DEF EngineCompletes, asked
  <2>2. Eligible' \subseteq Eligible /\ Unforced' \subseteq Unforced
    BY <2>1 DEF Eligible, Unforced, Downloading, map, TypeOK
  <2>3. NotReady'
    BY <2>1 DEF CapInv, NotReady, calls
  <2>4. \A w \in Worker : Holds(w)'
    BY <2>1, <2>2 DEF CapInv, Holds, map, calls, locals
  <2>5. (\A w \in Worker : pc[w] \in {"idle", "persist"}) => Limited(Unforced', maxActiveDownloads)
    BY <2>2, CapIsInt, LimitShrinks DEF CapInv
  <2>6. ASSUME NEW w \in Worker, pc[w] = "engine"
        PROVE  Limited(Unforced' \ {target[w]}, maxActiveDownloads)
    <3>1. Limited(Unforced \ {target[w]}, maxActiveDownloads)
      BY <2>6 DEF CapInv
    <3>2. QED
      BY <2>2, <3>1, CapIsInt, LimitShrinks
  <2>7. QED
    BY <2>1, <2>3, <2>4, <2>5, <2>6 DEF CapInv, map, calls
<1>7. QED
  BY <1>1, <1>2, <1>3, <1>4, <1>5, <1>6 DEF Monitor

LEMMA EngineKeepsCapInv ==
    ASSUME TypeInv, CapInv, \A v, w \in Worker : v = w, NEW w \in Worker,
           Persist(w) \/ EngineCall(w)
    PROVE  CapInv'
<1> USE DEF TypeInv
<1>1. CASE Persist(w)
  <2>1. /\ pc[w] = "persist" /\ pc'[w] = "idle" /\ phase[target[w]] = "adding"
        /\ target[w] \in Torrent
        /\ phase' = [phase EXCEPT ![target[w]] = "waiting"]
        /\ UNCHANGED <<map, ready, complete, forced, maxActiveDownloads>>
    BY <1>1 DEF Persist, Return, asked, CapInv, NotReady, TypeOK, Control
  <2>2. Unforced' = Unforced
    BY <2>1 DEF Unforced, Downloading, Eligible, map
  <2>3. NotReady'
    BY <2>1 DEF CapInv, NotReady, TypeOK
  <2>4. Holds(w)'
    BY <2>1 DEF Holds
  <2>5. Limited(Unforced, maxActiveDownloads)
    BY <2>1 DEF CapInv
  <2>6. QED
    BY <2>1, <2>2, <2>3, <2>4, <2>5 DEF CapInv
<1>2. CASE EngineCall(w)
  <2>1. /\ pc[w] = "engine" /\ pc'[w] \in {"idle", "cap"}
        /\ UNCHANGED <<map, ready, complete, phase, forced, maxActiveDownloads>>
    BY <1>2 DEF EngineCall, ToGate, Return, asked, TypeOK
  <2>2. Unforced' = Unforced
    BY <2>1 DEF Unforced, Downloading, Eligible, map
  <2>3. NotReady'
    BY <2>1 DEF CapInv, NotReady
  <2>4. /\ Limited(Unforced \ {target[w]}, maxActiveDownloads)
        /\ passes[w] = 0 => target[w] \in forced
        /\ op[w] = "remove" => target[w] \notin torrents
    BY <2>1 DEF CapInv
  <2>5. CASE pc'[w] = "cap"
    BY <2>3, <2>5, BeginsAtCap
  <2>6. CASE pc'[w] = "idle"
    <3>1. passes[w] = 0 \/ ~ready[target[w]] \/ op[w] = "remove"
      BY <1>2, <2>6 DEF EngineCall, ToGate, Return, TypeOK
    <3>2. target[w] \notin Unforced
      BY <2>4, <3>1 DEF Unforced, Downloading, Eligible
    <3>3. Limited(Unforced', maxActiveDownloads')
      BY <2>1, <2>2, <2>4, <3>2, CapIsInt, LimitShrinks
    <3>4. Holds(w)'
      BY <2>6 DEF Holds
    <3>5. QED
      BY <2>3, <2>6, <3>3, <3>4 DEF CapInv
  <2>7. QED
    BY <2>1, <2>5, <2>6
<1>3. QED
  BY <1>1, <1>2
\* Inside a pass there is nothing to show but what the pass knows.
LEMMA InsidePass ==
    ASSUME NEW w \in Worker, \A v \in Worker : v = w,
           pc'[w] \notin {"idle", "persist", "engine"}, Holds(w)', NotReady'
    PROVE  CapInv'
BY DEF CapInv

LEMMA PassKeepsCapInv ==
    ASSUME TypeInv, CapInv, \A v, w \in Worker : v = w, NEW w \in Worker, GatePass(w)
    PROVE  CapInv'
<1> USE DEF TypeInv
<1>0. Holds(w) /\ NotReady
  BY DEF CapInv
<1>1. CASE GateReadsCap(w)
  <2>1. /\ pc'[w] = "prio" /\ capSeen'[w] = maxActiveDownloads
        /\ UNCHANGED <<maxActiveDownloads, ready, phase>>
    BY <1>1 DEF GateReadsCap, engine, TypeOK
  <2>2. Holds(w)' /\ NotReady'
    BY <1>0, <2>1 DEF Holds, NotReady
  <2>3. QED
    BY <2>1, <2>2, InsidePass
<1>2. CASE GateReadsPriorities(w)
  <2>1. /\ pc[w] = "prio" /\ pc'[w] = "snapshot"
        /\ UNCHANGED <<maxActiveDownloads, capSeen, ready, phase>>
    BY <1>2 DEF GateReadsPriorities, engine, TypeOK
  <2>2. Holds(w)' /\ NotReady'
    BY <1>0, <2>1 DEF Holds, NotReady
  <2>3. QED
    BY <2>1, <2>2, InsidePass
<1>3. CASE GateSnapshots(w)
  <2>1. /\ pc[w] = "snapshot" /\ pc'[w] = "decide"
        /\ UNCHANGED <<map, maxActiveDownloads, capSeen, ready, complete, phase>>
    BY <1>3 DEF GateSnapshots, engine, TypeOK
  <2>2. PICK s \in Rankings(Eligible, priorityIdx[w]) :
           /\ entries' = [entries EXCEPT ![w] = s]
           /\ pausedAtSnapshot' =
                 [pausedAtSnapshot EXCEPT ![w] = [i \in DOMAIN s |-> paused[s[i]]]]
    BY <1>3 DEF GateSnapshots
  <2>3. /\ entries'[w] = s
        /\ pausedAtSnapshot'[w] = [i \in DOMAIN s |-> paused[s[i]]]
    BY <2>2 DEF TypeOK
  <2>4. Eligible' = Eligible
    BY <2>1 DEF Eligible, map
  <2>5. /\ \A i, j \in DOMAIN s : i # j => s[i] # s[j]
        /\ \A t \in Eligible : \E i \in DOMAIN s : s[i] = t
    BY <2>2 DEF Rankings
  <2>6. Holds(w)' /\ NotReady'
    BY <1>0, <2>1, <2>3, <2>4, <2>5 DEF Holds, NotReady, map
  <2>7. QED
    BY <2>1, <2>6, InsidePass
<1>4. CASE GateDecides(w)
  <2>1. /\ pc[w] = "decide" /\ pc'[w] \in {"passEnd", "apply"}
        /\ UNCHANGED <<map, maxActiveDownloads, entries, ready, complete, phase>>
    BY <1>4 DEF GateDecides, engine, TypeOK
  <2>2. /\ capSeen[w] = maxActiveDownloads
        /\ pausedAtSnapshot[w] = [i \in DOMAIN entries[w] |-> paused[entries[w][i]]]
    BY <1>0, <2>1 DEF Holds
  <2>3. PICK seen \in [DOMAIN entries[w] -> BOOLEAN] :
           /\ \A i \in DOMAIN entries[w] :
                 seen[i] \in {pausedAtSnapshot[w][i], paused[entries[w][i]]}
           /\ action' = [action EXCEPT ![w] = queueGateDecision(seen, capSeen[w])]
           /\ pc'[w] = "passEnd" =>
                 \A i \in DOMAIN queueGateDecision(seen, capSeen[w]) :
                    queueGateDecision(seen, capSeen[w])[i] = "keep"
    BY <1>4 DEF GateDecides, TypeOK
  <2>4. \A i \in DOMAIN entries[w] : seen[i] = paused[entries[w][i]]
    BY <2>2, <2>3
  <2>5. /\ DOMAIN action'[w] = DOMAIN entries[w]
        /\ \A i \in DOMAIN entries[w] :
              action'[w][i] = GateAction(i, paused[entries[w][i]], maxActiveDownloads)
    BY <2>2, <2>3, <2>4 DEF queueGateDecision, TypeOK
  <2>6. \A i \in DOMAIN entries[w] : paused[entries[w][i]] \in BOOLEAN
    BY DEF TypeOK
  <2>7. \A i \in DOMAIN entries[w] :
           /\ action'[w][i] = "resume" => ShouldRun(i, maxActiveDownloads)
           /\ ~paused[entries[w][i]] /\ ~ShouldRun(i, maxActiveDownloads) =>
                 action'[w][i] = "queue"
    BY <2>5, <2>6, GateActionMeans DEF GateAction
  <2>8. pc'[w] = "passEnd" => \A i \in DOMAIN entries[w] : action'[w][i] = "keep"
    BY <2>3, <2>5 DEF queueGateDecision, TypeOK
  <2>9. Eligible' = Eligible
    BY <2>1 DEF Eligible, map
  <2>10. Holds(w)'
    BY <1>0, <2>1, <2>5, <2>7, <2>8, <2>9 DEF Holds, map
  <2>11. NotReady'
    BY <1>0, <2>1 DEF NotReady
  <2>12. QED
    BY <2>1, <2>10, <2>11, InsidePass
<1>5. CASE GateApplies(w)
  <2> DEFINE s == entries[w]
  <2>1. /\ pc[w] = "apply" /\ pc'[w] = "applyEngine"
        /\ UNCHANGED <<torrents, maxActiveDownloads, entries, action, ready, complete, phase>>
    BY <1>5 DEF GateApplies, engine, TypeOK
  <2>2. PICK i \in NextEntries(w) :
           /\ SetFlags(s[i], action[w][i] = "queue", action[w][i] = "queue")
           /\ current' = [current EXCEPT ![w] = i]
    BY <1>5 DEF GateApplies
  <2>3. i \in DOMAIN s /\ action[w][i] \in {"resume", "queue"} /\ current'[w] = i
    BY <1>0, <2>1, <2>2 DEF NextEntries, Pending, Holds, TypeOK
  <2>4. s[i] \in Torrent /\ \A j \in DOMAIN s : s[j] \in Torrent
    BY <2>3 DEF TypeOK
  <2>5. /\ paused'[s[i]] = (action[w][i] = "queue")
        /\ queuePaused'[s[i]] = (action[w][i] = "queue")
        /\ \A t \in Torrent \ {s[i]} :
              paused'[t] = paused[t] /\ queuePaused'[t] = queuePaused[t]
    BY <2>2, <2>4 DEF SetFlags, TypeOK
  <2>6. \A j \in DOMAIN s : j # i => s[j] # s[i]
    BY <1>0, <2>1, <2>3 DEF Holds
  <2>7. \A t \in Eligible' : t \in Eligible \/ t = s[i]
    BY <2>1, <2>5 DEF Eligible, TypeOK
  <2>8. \A t \in Eligible' : \E j \in DOMAIN s : s[j] = t
    BY <1>0, <2>1, <2>3, <2>7 DEF Holds
  <2>9. \A j \in DOMAIN s : ~paused'[s[j]] /\ ~ShouldRun(j, maxActiveDownloads) =>
           action[w][j] = "queue" /\ j # i
    <3>1. ASSUME ~paused'[s[i]]
          PROVE  ShouldRun(i, maxActiveDownloads)
      BY <1>0, <2>1, <2>3, <2>5, <3>1 DEF Holds
    <3>2. ASSUME NEW j \in DOMAIN s, j # i
          PROVE  paused'[s[j]] = paused[s[j]]
      BY <2>4, <2>5, <2>6, <3>2
    <3>3. QED
      BY <1>0, <2>1, <3>1, <3>2 DEF Holds
  <2>10. Holds(w)'
    BY <1>0, <2>1, <2>3, <2>8, <2>9 DEF Holds
  <2>11. NotReady'
    BY <1>0, <2>1 DEF NotReady
  <2>12. QED
    BY <2>1, <2>10, <2>11, InsidePass
<1>6. CASE GateCallsEngine(w)
  <2>1. /\ pc[w] = "applyEngine" /\ pc'[w] \in {"apply", "passEnd"}
        /\ UNCHANGED <<map, maxActiveDownloads, entries, ready, complete, phase>>
        /\ action'[w] = [action[w] EXCEPT ![current[w]] = "keep"]
        /\ pc'[w] = "passEnd" => \A j \in DOMAIN action'[w] : action'[w][j] = "keep"
    BY <1>6 DEF GateCallsEngine, TypeOK
  <2>2. Eligible' = Eligible
    BY <2>1 DEF Eligible, map
  <2>3. /\ DOMAIN action'[w] = DOMAIN entries[w]
        /\ \A i \in DOMAIN entries[w] :
              action'[w][i] = IF i = current[w] THEN "keep" ELSE action[w][i]
    BY <1>0, <2>1 DEF Holds
  <2>4. \A i \in DOMAIN entries[w] :
           /\ action'[w][i] = "resume" => ShouldRun(i, maxActiveDownloads)
           /\ ~paused[entries[w][i]] /\ ~ShouldRun(i, maxActiveDownloads) =>
                 action'[w][i] = "queue"
    BY <1>0, <2>1, <2>3 DEF Holds
  <2>5. Holds(w)'
    BY <1>0, <2>1, <2>2, <2>3, <2>4 DEF Holds, map
  <2>6. NotReady'
    BY <1>0, <2>1 DEF NotReady
  <2>7. QED
    BY <2>1, <2>5, <2>6, InsidePass
<1>7. CASE PassEnds(w)
  <2>1. /\ pc[w] = "passEnd" /\ pc'[w] \in {"cap", "idle"}
        /\ UNCHANGED <<map, maxActiveDownloads, ready, complete, forced>>
        /\ phase' = phase \/ phase' = [phase EXCEPT ![target[w]] = "watching"]
    BY <1>7 DEF PassEnds, ToGate, Return, asked, TypeOK
  <2>2. NotReady'
    BY <1>0, <2>1 DEF NotReady, TypeOK
  <2>3. Holds(w)'
    BY <2>1 DEF Holds
  <2>4. \A t \in Unforced :
           \E i \in 1..Len(entries[w]) : ShouldRun(i, maxActiveDownloads) /\ entries[w][i] = t
    <3>1. DOMAIN entries[w] = 1..Len(entries[w])
      BY DEF TypeOK
    <3>2. QED
      BY <1>0, <2>1, <3>1 DEF Holds, Unforced, Downloading
  <2>5. Len(entries[w]) \in Nat /\ maxActiveDownloads \in Int
    BY CapIsInt DEF TypeOK
  <2>6. Limited(Unforced, maxActiveDownloads)
    BY <2>4, <2>5, WithinCap
  <2>7. Unforced' = Unforced
    BY <2>1 DEF Unforced, Downloading, Eligible, map
  <2>8. QED
    BY <2>1, <2>2, <2>3, <2>6, <2>7 DEF CapInv
<1>8. QED
  BY <1>1, <1>2, <1>3, <1>4, <1>5, <1>6, <1>7 DEF GatePass

\* While operations do not overlap and no recheck finds bad data, the downloading
\* torrents respect the cap between operations, for any torrents, priorities
\* and caps, unless one of them was forced.
THEOREM CapHolds ==
    ASSUME \A v, w \in Worker : v = w, "recheck" \notin Ops
    PROVE  Spec => []CapWhenIdle
<1>1. Init => CapInv
  <2> SUFFICES ASSUME Init PROVE CapInv
    OBVIOUS
  <2>1. ready = [t \in Torrent |-> FALSE] /\ \A w \in Worker : pc[w] = "idle"
    BY DEF Init
  <2>2. torrents \subseteq Torrent
    BY DEF Init
  <2>3. Unforced = {}
    BY <2>1, <2>2 DEF Unforced, Downloading, Eligible
  <2>4. Limited(Unforced, maxActiveDownloads)
    BY <2>3, InitTypes, CapIsInt, FS_EmptySet DEF Limited, TypeInv
  <2>5. QED
    BY <2>1, <2>4 DEF CapInv, Holds, NotReady
<1>2. TypeInv /\ CapInv /\ [Next]_vars => TypeInv' /\ CapInv'
  <2> SUFFICES ASSUME TypeInv, CapInv, [Next]_vars PROVE CapInv'
    BY StepTypes
  <2>1. CASE UNCHANGED vars
    <3>1. Eligible' = Eligible /\ Unforced' = Unforced
      BY <2>1 DEF vars, map, engine, asked, Eligible, Unforced, Downloading
    <3>2. NotReady'
      BY <2>1 DEF vars, engine, calls, CapInv, NotReady
    <3>3. \A w \in Worker : Holds(w)'
      BY <2>1, <3>1 DEF vars, map, calls, locals, CapInv, Holds
    <3>4. QED
      BY <2>1, <3>1, <3>2, <3>3 DEF vars, map, calls, asked, CapInv
  <2>2. QED
    BY <2>1, OperationKeepsCapInv, BackgroundKeepsCapInv, EngineKeepsCapInv, PassKeepsCapInv
       DEF Next, Proceed
<1>3. CapInv => CapWhenIdle
  <2> SUFFICES ASSUME CapInv, Idle, forced = {}, maxActiveDownloads > 0
               PROVE  Cardinality(Downloading) <= maxActiveDownloads
    BY DEF CapWhenIdle
  <2>1. Limited(Unforced, maxActiveDownloads) /\ Unforced = Downloading
    BY DEF CapInv, Idle, Unforced
  <2>2. QED
    BY <2>1 DEF Limited
<1>4. QED
  BY InitTypes, <1>1, <1>2, <1>3, PTL DEF Spec

-----------------------------------------------------------------------------
(* Balance between operations *)

\* A completion that its monitor has yet to notice, and will answer with a pass.
Owed == \E t \in Torrent : complete[t] /\ phase[t] \in {"starting", "watching"}
Excused == Owed \/ \E t \in forced : ready[t]

\* How far the goroutines of a torrent have got, and what that says about it.
MonitorInv ==
    /\ \A t \in Torrent : ready[t] <=> phase[t] \notin {"absent", "adding", "waiting"}
    /\ \A t \in Torrent : complete[t] => ready[t]
    /\ \A t \in torrents : phase[t] = "finished" => complete[t]
    /\ \A t \in Torrent : phase[t] = "starting" =>
          \E w \in Worker : pc[w] # "idle" /\ op[w] = "start" /\ target[w] = t
    /\ \A w \in Worker : pc[w] # "idle" /\ op[w] = "start" => ready[target[w]]
    /\ \A w \in Worker : pc[w] = "persist" => phase[target[w]] = "adding" /\ op[w] = "add"

\* Only a completion that is owed an answer disturbs a pass.  An operation that
\* returns without a pass was about a torrent that is no candidate, or forced it.
BalanceInv ==
    /\ MonitorInv
    /\ \A w \in Worker : pc[w] \in PassSteps /\ disturbed[w] => Owed
    /\ (\A w \in Worker : pc[w] \in {"idle", "persist"}) => Excused \/ Balanced
    /\ \A w \in Worker : pc[w] = "engine" =>
          /\ ~ready[target[w]] => Excused \/ Balanced
          /\ passes[w] = 0 => target[w] \in forced /\ op[w] = "force"

\* Balance is about the candidates, their flags and their ranks, and the cap.
LEMMA CandidatesDecide ==
    ASSUME Eligible' = Eligible, UNCHANGED maxActiveDownloads,
           \A t \in Eligible : /\ paused'[t] = paused[t] /\ prio'[t] = prio[t]
                               /\ t \in rows' <=> t \in rows
    PROVE  Balanced' = Balanced
<1>1. \A t, u \in Eligible :
         RankedAhead(t, u, PriorityOrder)' <=> RankedAhead(t, u, PriorityOrder)
  BY DEF RankedAhead, PriorityOrder
<1>2. ASSUME NEW s \in [1..Cardinality(Eligible) -> Eligible]
      PROVE  (\A i, j \in DOMAIN s : i < j => ~RankedAhead(s[j], s[i], PriorityOrder'))
             <=> (\A i, j \in DOMAIN s : i < j => ~RankedAhead(s[j], s[i], PriorityOrder))
  BY <1>1
<1>3. Rankings(Eligible', PriorityOrder') = Rankings(Eligible, PriorityOrder)
  BY <1>2 DEF Rankings
<1>4. ASSUME NEW s \in Rankings(Eligible, PriorityOrder)
      PROVE  \A i \in DOMAIN s : paused'[s[i]] = paused[s[i]]
  BY DEF Rankings
<1>5. QED
  BY <1>3, <1>4 DEF Balanced

\* What happens to a torrent without metadata leaves the candidates as they are.
LEMMA NoCandidate ==
    ASSUME TypeOK, NEW t \in Torrent, ~ready[t], UNCHANGED <<ready, complete, maxActiveDownloads>>,
           \A u \in Torrent \ {t} :
              /\ paused'[u] = paused[u] /\ queuePaused'[u] = queuePaused[u] /\ prio'[u] = prio[u]
              /\ u \in torrents' <=> u \in torrents
              /\ u \in rows' <=> u \in rows,
           torrents' \subseteq Torrent
    PROVE  Balanced' = Balanced
<1>1. Eligible' = Eligible
  BY DEF Eligible, TypeOK
<1>2. \A u \in Eligible : u \in Torrent \ {t}
  BY DEF Eligible, TypeOK
<1>3. QED
  BY <1>1, <1>2, CandidatesDecide

\* The only worker is about to begin a pass.
LEMMA GoesToGate ==
    ASSUME NEW w \in Worker, \A v \in Worker : v = w, pc'[w] = "cap", MonitorInv'
    PROVE  BalanceInv'
BY DEF BalanceInv, PassSteps

LEMMA OperationKeepsBalance ==
    ASSUME TypeInv, BalanceInv, \A v, w \in Worker : v = w, NEW w \in Worker, UserOperation(w)
    PROVE  BalanceInv'
<1> USE DEF TypeInv
<1>1. ASSUME NEW t \in Torrent, NEW p \in BOOLEAN, Add(w, t, p)
      PROVE  BalanceInv'
  <2>1. pc[w] = "idle" /\ pc'[w] = "persist" /\ target'[w] = t /\ op'[w] = "add"
    BY <1>1 DEF Add, Begin, TypeOK
  <2>2. /\ torrents' = torrents \union {t}
        /\ paused' = [paused EXCEPT ![t] = p] /\ queuePaused' = [queuePaused EXCEPT ![t] = FALSE]
        /\ phase[t] = "absent" /\ phase' = [phase EXCEPT ![t] = "adding"]
        /\ UNCHANGED <<ready, complete, forced, maxActiveDownloads, rows, prio>>
    BY <1>1 DEF Add, SetFlags, table
  <2>3. MonitorInv /\ ~ready[t] /\ (Excused \/ Balanced)
    BY <2>1, <2>2 DEF BalanceInv, MonitorInv
  <2>4. Balanced' = Balanced
    BY <2>2, <2>3, NoCandidate DEF TypeOK
  <2>5. Excused => Excused'
    BY <2>2, <2>3 DEF Excused, Owed, TypeOK
  <2>6. MonitorInv'
    BY <2>1, <2>2, <2>3 DEF MonitorInv, TypeOK
  <2>7. QED
    BY <2>1, <2>3, <2>4, <2>5, <2>6 DEF BalanceInv, PassSteps
<1>2. ASSUME NEW t \in Torrent, Pause(w, t) \/ Resume(w, t) \/ ForceStart(w, t) \/ Remove(w, t)
      PROVE  BalanceInv'
  <2>1. pc[w] = "idle" /\ pc'[w] = "engine" /\ target'[w] = t /\ op'[w] # "start"
    BY <1>2 DEF Pause, Resume, ForceStart, Remove, Begin, TypeOK
  <2>2. UNCHANGED <<ready, complete, phase, maxActiveDownloads, rows, prio>>
    BY <1>2 DEF Pause, Resume, ForceStart, Remove, engine, table
  <2>3. torrents' \subseteq torrents /\ torrents \ {t} \subseteq torrents'
        /\ forced \subseteq forced' \union {t}
    BY <1>2 DEF Pause, Resume, ForceStart, Remove
  <2>4. \A u \in Torrent \ {t} : paused'[u] = paused[u] /\ queuePaused'[u] = queuePaused[u]
    BY <1>2 DEF Pause, Resume, ForceStart, Remove, SetFlags, TypeOK
  <2>5. MonitorInv /\ (Excused \/ Balanced)
    BY <2>1 DEF BalanceInv
  <2>6. ASSUME ~ready[t]
        PROVE  Excused' \/ Balanced'
    <3>1. Balanced' = Balanced
      BY <2>2, <2>3, <2>4, <2>6, NoCandidate DEF TypeOK
    <3>2. Excused => Excused'
      BY <2>2, <2>3, <2>6 DEF Excused, Owed
    <3>3. QED
      BY <2>5, <3>1, <3>2
  <2>7. passes'[w] = 0 => t \in forced' /\ op'[w] = "force"
    <3>1. CASE Pause(w, t) \/ Resume(w, t) \/ Remove(w, t)
      <4>1. passes' = [passes EXCEPT ![w] = 1]
        BY <3>1 DEF Pause, Resume, Remove, Begin
      <4>2. QED
        BY <4>1 DEF TypeOK
    <3>2. CASE ForceStart(w, t)
      BY <3>2 DEF ForceStart, Begin, TypeOK
    <3>3. QED
      BY <1>2, <3>1, <3>2
  <2>8. MonitorInv'
    BY <2>1, <2>2, <2>3, <2>5 DEF MonitorInv
  <2>9. QED
    BY <2>1, <2>2, <2>6, <2>7, <2>8 DEF BalanceInv, PassSteps
<1>3. ASSUME NEW t \in Torrent, NEW p \in Priority, SetPriority(w, t, p)
      PROVE  BalanceInv'
  <2>1. pc[w] = "idle" /\ pc'[w] = "cap" /\ op'[w] # "start"
        /\ UNCHANGED <<torrents, ready, complete, phase>>
    BY <1>3 DEF SetPriority, Begin, TypeOK, engine, map
  <2>2. MonitorInv'
    BY <2>1 DEF BalanceInv, MonitorInv
  <2>3. QED
    BY <2>1, <2>2, GoesToGate
<1>4. ASSUME NEW n \in Cap, SetMaxActiveDownloads(w, n)
      PROVE  BalanceInv'
  <2>1. pc[w] = "idle" /\ pc'[w] = "cap" /\ op'[w] # "start"
        /\ UNCHANGED <<torrents, ready, complete, phase>>
    BY <1>4 DEF SetMaxActiveDownloads, Begin, TypeOK, engine, map
  <2>2. MonitorInv'
    BY <2>1 DEF BalanceInv, MonitorInv
  <2>3. QED
    BY <2>1, <2>2, GoesToGate
<1>5. QED
  BY <1>1, <1>2, <1>3, <1>4 DEF UserOperation

LEMMA BackgroundKeepsBalance ==
    ASSUME TypeInv, BalanceInv, \A v, w \in Worker : v = w, "recheck" \notin Ops,
           NEW t \in Torrent,
           \/ \E w \in Worker : StartReady(w, t) \/ Monitor(w, t)
           \/ MonitorQuits(t) \/ Recheck(t) \/ EngineCompletes(t)
    PROVE  BalanceInv'
<1> USE DEF TypeInv
<1>0. MonitorInv
  BY DEF BalanceInv
<1>1. ASSUME NEW w \in Worker, StartReady(w, t)
      PROVE  BalanceInv'
  <2>1. pc'[w] \in {"cap", "engine"} /\ target'[w] = t /\ passes'[w] = 1 /\ op'[w] = "start"
        /\ pc[w] = "idle"
    BY <1>1 DEF StartReady, Begin, TypeOK
  <2>2. /\ ready' = [ready EXCEPT ![t] = TRUE] /\ phase' = [phase EXCEPT ![t] = "starting"]
        /\ UNCHANGED <<torrents, complete>>
    BY <1>1 DEF StartReady, map
  <2>3. ready'[t] /\ phase'[t] = "starting"
    BY <2>2 DEF TypeOK
  <2>4. MonitorInv'
    <3>1. \A u \in Torrent : phase[u] # "starting"
      BY <1>0, <2>1 DEF MonitorInv
    <3>2. QED
      BY <1>0, <2>1, <2>2, <3>1 DEF MonitorInv, TypeOK
  <2>5. QED
    BY <2>1, <2>3, <2>4, GoesToGate DEF BalanceInv, PassSteps
<1>2. ASSUME NEW w \in Worker, Monitor(w, t)
      PROVE  BalanceInv'
  <2>1. pc'[w] \in {"cap", "engine"} /\ target'[w] = t /\ passes'[w] \in {1, 2}
        /\ op'[w] = "complete" /\ pc[w] = "idle"
    BY <1>2 DEF Monitor, Completed, CompletedAndPaused, Begin, TypeOK
  <2>2. /\ complete[t] /\ phase' = [phase EXCEPT ![t] = "finished"]
        /\ UNCHANGED <<torrents, ready, complete>> /\ phase[t] = "watching"
    BY <1>2 DEF Monitor, Completed, CompletedAndPaused, map
  <2>3. MonitorInv' /\ ready'[t]
    BY <1>0, <2>1, <2>2 DEF MonitorInv, TypeOK
  <2>4. QED
    BY <2>1, <2>3, GoesToGate DEF BalanceInv, PassSteps
<1>3. CASE MonitorQuits(t)
  <2>1. /\ phase[t] = "watching" /\ ~complete[t] /\ t \notin torrents
        /\ phase' = [phase EXCEPT ![t] = "finished"]
        /\ UNCHANGED <<map, table, ready, complete, maxActiveDownloads, calls, forced, watched>>
    BY <1>3 DEF MonitorQuits, asked
  <2>2. Owed' = Owed /\ Excused' = Excused
    BY <2>1 DEF Owed, Excused, TypeOK
  <2>3. Eligible' = Eligible
    BY <2>1 DEF Eligible, map
  <2>4. Balanced' = Balanced
    BY <2>1, <2>3, CandidatesDecide DEF map, table
  <2>5. MonitorInv'
    BY <1>0, <2>1 DEF MonitorInv, calls, map, TypeOK
  <2>6. QED
    BY <2>1, <2>2, <2>4, <2>5 DEF BalanceInv, calls, watched
<1>4. CASE Recheck(t)
  BY <1>4 DEF Recheck, Request
<1>5. CASE EngineCompletes(t)
  <2>1. /\ ready[t] /\ ~complete[t] /\ complete' = [complete EXCEPT ![t] = TRUE]
        /\ t \notin torrents => UNCHANGED watched
        /\ UNCHANGED <<map, table, ready, phase, maxActiveDownloads, calls, forced>>
    BY <1>5 DEF EngineCompletes, asked
  <2>2. (Owed => Owed') /\ (Excused => Excused')
    BY <2>1 DEF Owed, Excused, TypeOK
  <2>3. MonitorInv'
    BY <1>0, <2>1 DEF MonitorInv, calls, map, TypeOK
  <2>4. CASE t \in torrents
    \* Its monitor is there to notice.
    <3>1. phase[t] \in {"starting", "watching"}
      BY <1>0, <2>1, <2>4 DEF MonitorInv, TypeOK, Phases
    <3>2. Owed' /\ Excused'
      BY <2>1, <3>1 DEF Owed, Excused, TypeOK
    <3>3. QED
      BY <2>1, <2>3, <3>2 DEF BalanceInv, calls
  <2>5. CASE t \notin torrents
    <3>1. Eligible' = Eligible
      BY <2>1, <2>5 DEF Eligible, map, TypeOK
    <3>2. Balanced' = Balanced
      BY <2>1, <3>1, CandidatesDecide DEF map, table
    <3>3. QED
      BY <2>1, <2>2, <2>3, <2>5, <3>2 DEF BalanceInv, calls, watched
  <2>6. QED
    BY <2>4, <2>5
<1>6. QED
  BY <1>1, <1>2, <1>3, <1>4, <1>5

LEMMA EngineKeepsBalance ==
    ASSUME TypeInv, BalanceInv, \A v, w \in Worker : v = w, "droppanic" \notin Ops,
           NEW w \in Worker, Persist(w) \/ EngineCall(w)
    PROVE  BalanceInv'
<1> USE DEF TypeInv
<1>0. MonitorInv
  BY DEF BalanceInv
<1>1. CASE Persist(w)
  <2> DEFINE t == target[w]
  <2>1. /\ pc[w] = "persist" /\ pc'[w] = "idle" /\ phase[t] = "adding" /\ t \in Torrent
        /\ op[w] = "add"
        /\ phase' = [phase EXCEPT ![t] = "waiting"] /\ rows' = rows \union {t}
        /\ UNCHANGED <<map, prio, ready, complete, forced, maxActiveDownloads>>
    BY <1>0, <1>1 DEF Persist, Return, asked, MonitorInv, TypeOK, Control
  <2>2. ~ready[t] /\ (Excused \/ Balanced)
    BY <1>0, <2>1 DEF MonitorInv, BalanceInv
  <2> HIDE DEF t
  <2>3. Balanced' = Balanced
    BY <2>1, <2>2, NoCandidate DEF map, TypeOK
  <2>4. Excused => Excused'
    BY <2>1 DEF Excused, Owed, TypeOK
  <2>5. MonitorInv'
    <3>1. \A u \in Torrent : phase[u] # "starting"
      BY <1>0, <2>1 DEF MonitorInv
    <3>2. QED
      BY <1>0, <2>1, <3>1 DEF MonitorInv, map, TypeOK
  <2>6. QED
    BY <2>1, <2>2, <2>3, <2>4, <2>5 DEF BalanceInv, PassSteps
<1>2. CASE EngineCall(w)
  <2>1. /\ pc[w] = "engine" /\ pc'[w] \in {"idle", "cap"}
        /\ UNCHANGED <<map, table, ready, complete, phase, forced, maxActiveDownloads>>
        /\ pc'[w] = "cap" => UNCHANGED <<op, target>>
    BY <1>2 DEF EngineCall, ToGate, Return, asked, TypeOK
  <2>2. /\ ~ready[target[w]] => Excused \/ Balanced
        /\ passes[w] = 0 => target[w] \in forced /\ op[w] = "force"
        /\ op[w] = "start" => ready[target[w]]
        /\ target[w] \in Torrent
    BY <1>0, <2>1 DEF BalanceInv, MonitorInv, Control
  <2>3. pc'[w] = "idle" => passes[w] = 0 \/ (~ready[target[w]] /\ op[w] # "remove")
    BY <1>2 DEF EngineCall, ToGate, Return, TypeOK
  <2>4. CASE pc'[w] = "cap"
    <3>1. MonitorInv'
      BY <1>0, <2>1, <2>4 DEF MonitorInv, map
    <3>2. QED
      BY <2>4, <3>1, GoesToGate
  <2>5. CASE pc'[w] = "idle"
    <3>1. Excused \/ Balanced
      BY <2>2, <2>3, <2>5 DEF Excused
    <3>2. Balanced' = Balanced
      <4>1. Eligible' = Eligible
        BY <2>1 DEF Eligible, map
      <4>2. QED
        BY <2>1, <4>1, CandidatesDecide DEF map, table
    <3>3. Excused' = Excused
      BY <2>1 DEF Excused, Owed
    <3>4. op[w] # "start"
      BY <2>2, <2>3, <2>5
    <3>5. MonitorInv'
      <4>1. \A u \in Torrent : phase[u] # "starting"
        BY <1>0, <3>4 DEF MonitorInv
      <4>2. QED
        BY <1>0, <2>1, <2>5, <4>1 DEF MonitorInv, map
    <3>6. QED
      BY <2>5, <3>1, <3>2, <3>3, <3>5 DEF BalanceInv, PassSteps
  <2>6. QED
    BY <2>1, <2>4, <2>5
<1>3. QED
  BY <1>1, <1>2

LEMMA PassKeepsBalance ==
    ASSUME TypeInv, PassInv', BalanceInv, \A v, w \in Worker : v = w,
           NEW w \in Worker, GatePass(w)
    PROVE  BalanceInv'
<1> USE DEF TypeInv
<1>0. MonitorInv /\ (pc[w] \in PassSteps /\ disturbed[w] => Owed)
  BY DEF BalanceInv
<1>1. CASE PassEnds(w)
  <2>1. /\ pc[w] = "passEnd" /\ pc'[w] \in {"cap", "idle"}
        /\ settled' = (settled \/ ~disturbed[w])
        /\ UNCHANGED <<map, table, ready, complete, maxActiveDownloads>>
        /\ phase' = IF op[w] = "start" THEN [phase EXCEPT ![target[w]] = "watching"] ELSE phase
    BY <1>1 DEF PassEnds, ToGate, Return, TypeOK
  <2>2. disturbed[w] => Owed
    BY <1>0, <2>1 DEF PassSteps
  <2>3. op[w] # "start" => \A u \in Torrent : phase[u] # "starting"
    BY <1>0 DEF MonitorInv
  <2>4. op[w] = "start" => \A u \in Torrent : phase[u] = "starting" => u = target[w]
    BY <1>0 DEF MonitorInv
  <2>5. Owed => Owed'
    BY <2>1 DEF Owed, TypeOK
  <2>6. ~disturbed[w] => Balanced'
    BY <2>1 DEF PassInv, SettledIsBalanced
  <2>7. MonitorInv'
    <3>1. \A u \in Torrent : phase'[u] # "starting" /\ (phase'[u] = "finished" => phase[u] = "finished")
      BY <2>1, <2>3, <2>4 DEF TypeOK
    <3>2. \A u \in Torrent : phase'[u] \notin {"absent", "adding", "waiting"}
                           <=> phase[u] \notin {"absent", "adding", "waiting"}
      <4>1. CASE op[w] = "start" /\ target[w] \in Torrent
        BY <1>0, <2>1, <4>1 DEF MonitorInv, TypeOK
      <4>2. CASE ~(op[w] = "start" /\ target[w] \in Torrent)
        BY <2>1, <4>2 DEF TypeOK
      <4>3. QED
        BY <4>1, <4>2
    <3>3. pc'[w] # "idle" => UNCHANGED <<op, target>>
      BY <1>1 DEF PassEnds, ToGate, Return, TypeOK
    <3>4. QED
      BY <1>0, <2>1, <3>1, <3>2, <3>3 DEF MonitorInv, map
  <2>8. QED
    BY <2>1, <2>2, <2>5, <2>6, <2>7 DEF BalanceInv, PassSteps, Excused
<1>2. ASSUME pc[w] = "cap" \/ pc[w] \in PassSteps, pc'[w] \in PassSteps,
             UNCHANGED <<torrents, ready, complete, phase, op, target>>,
             disturbed'[w] => disturbed[w] /\ pc[w] \in PassSteps
      PROVE  BalanceInv'
  <2>1. Owed' = Owed
    BY <1>2 DEF Owed
  <2>2. MonitorInv'
    BY <1>0, <1>2 DEF MonitorInv, PassSteps
  <2>3. QED
    BY <1>0, <1>2, <2>1, <2>2 DEF BalanceInv, PassSteps
<1>3. CASE GateReadsCap(w)
  BY <1>2, <1>3 DEF GateReadsCap, map, engine, PassSteps, TypeOK
<1>4. CASE GateReadsPriorities(w)
  BY <1>2, <1>4 DEF GateReadsPriorities, map, engine, watched, PassSteps, TypeOK
<1>5. CASE GateSnapshots(w)
  BY <1>2, <1>5 DEF GateSnapshots, map, engine, watched, PassSteps, TypeOK
<1>6. CASE GateDecides(w)
  <2>1. pc[w] = "decide" /\ pc'[w] \in {"apply", "passEnd"}
        /\ UNCHANGED <<torrents, ready, complete, phase, op, target, disturbed>>
    BY <1>6 DEF GateDecides, map, engine, watched, TypeOK
  <2>2. QED
    BY <1>2, <2>1 DEF PassSteps
<1>7. CASE GateApplies(w)
  <2>1. pc[w] = "apply" /\ pc'[w] = "applyEngine" /\ disturbed'[w] = disturbed[w]
        /\ UNCHANGED <<torrents, ready, complete, phase, op, target>>
    BY <1>7 DEF GateApplies, Disturb, engine, TypeOK
  <2>2. QED
    BY <1>2, <2>1 DEF PassSteps
<1>8. CASE GateCallsEngine(w)
  <2>1. pc[w] = "applyEngine" /\ pc'[w] \in {"apply", "passEnd"}
        /\ UNCHANGED <<torrents, ready, complete, phase, op, target, disturbed>>
    BY <1>8 DEF GateCallsEngine, map, watched, TypeOK
  <2>2. QED
    BY <1>2, <2>1 DEF PassSteps
<1>9. QED
  BY <1>1, <1>3, <1>4, <1>5, <1>6, <1>7, <1>8 DEF GatePass

\* While operations do not overlap, no recheck finds bad data and no Drop panics:
\* whenever no operation is under way, nothing is forced and no completion waits
\* to be noticed, exactly the top max_active_downloads candidates download, for
\* any torrents, priorities and caps (enforceMaxActiveDownloads and its callers).
THEOREM IdleBalanced ==
    ASSUME \A v, w \in Worker : v = w, "recheck" \notin Ops, "droppanic" \notin Ops
    PROVE  Spec => []IdleIsBalanced
<1>1. Init => PassInv /\ BalanceInv
  <2> SUFFICES ASSUME Init PROVE PassInv /\ BalanceInv
    OBVIOUS
  <2>1. PassInv
    BY DEF Init, PassInv, Knows, SettledIsBalanced
  <2>2. /\ ready = [t \in Torrent |-> FALSE] /\ complete = [t \in Torrent |-> FALSE]
        /\ \A t \in Torrent : phase[t] \in {"absent", "waiting"}
        /\ torrents \subseteq Torrent /\ \A w \in Worker : pc[w] = "idle"
    BY DEF Init
  <2>3. Eligible = {}
    BY <2>2 DEF Eligible
  <2>4. Balanced
    <3>1. <<>> \in Rankings({}, PriorityOrder)
      BY FS_EmptySet DEF Rankings
    <3>2. QED
      BY <2>3, <3>1 DEF Balanced
  <2>5. MonitorInv
    BY <2>2 DEF MonitorInv
  <2>6. QED
    BY <2>1, <2>2, <2>4, <2>5 DEF BalanceInv, PassSteps
<1>2. TypeInv /\ PassInv /\ BalanceInv /\ [Next]_vars => TypeInv' /\ PassInv' /\ BalanceInv'
  <2> SUFFICES ASSUME TypeInv, PassInv, BalanceInv, [Next]_vars PROVE BalanceInv'
    BY StepTypes, StepKeepsPassInv
  <2>1. CASE UNCHANGED vars
    <3>1. Eligible' = Eligible /\ Excused' = Excused /\ Owed' = Owed
      BY <2>1 DEF vars, map, engine, asked, Eligible, Excused, Owed
    <3>2. Balanced' = Balanced
      BY <2>1, <3>1, CandidatesDecide DEF vars, map, table
    <3>3. MonitorInv'
      BY <2>1 DEF vars, map, engine, calls, BalanceInv, MonitorInv
    <3>4. QED
      BY <2>1, <3>1, <3>2, <3>3 DEF vars, engine, calls, asked, watched, BalanceInv
  <2>2. PassInv'
    BY StepKeepsPassInv
  <2>3. QED
    BY <2>1, <2>2, OperationKeepsBalance, BackgroundKeepsBalance, EngineKeepsBalance,
       PassKeepsBalance DEF Next, Proceed
<1>3. BalanceInv => IdleIsBalanced
  <2> SUFFICES ASSUME BalanceInv, Idle, forced = {},
                      \A t \in Torrent : complete[t] => phase[t] # "watching"
               PROVE  Balanced
    BY DEF IdleIsBalanced
  <2>1. Excused \/ Balanced
    BY DEF BalanceInv, Idle
  <2>2. \A t \in Torrent : phase[t] # "starting"
    BY DEF BalanceInv, MonitorInv, Idle
  <2>3. ~Excused
    BY <2>2 DEF Excused, Owed
  <2>4. QED
    BY <2>1, <2>3
<1>4. QED
  BY InitTypes, <1>1, <1>2, <1>3, PTL DEF Spec

\* Balance leaves no candidate queued beside a free slot.
LEMMA BalanceFillsSlots ==
    ASSUME TypeOK, Balanced
    PROVE  ~(SlotFree /\ Queued # {})
<1> SUFFICES ASSUME SlotFree, NEW q \in Queued PROVE FALSE
  OBVIOUS
<1> DEFINE cap == maxActiveDownloads
           n == Cardinality(Eligible)
<1>1. PICK s \in Rankings(Eligible, PriorityOrder) :
         \A i \in DOMAIN s : ~paused[s[i]] <=> (cap <= 0 \/ i <= cap)
  BY DEF Balanced
<1>2. /\ s \in [1..n -> Eligible]
      /\ \A t \in Eligible : \E i \in 1..n : s[i] = t
      /\ \A i, j \in 1..n : i # j => s[i] # s[j]
  BY DEF Rankings
<1>3. Eligible \in SUBSET Torrent /\ IsFiniteSet(Eligible) /\ n \in Nat
  <2>1. Eligible \in SUBSET Torrent
    BY DEF Eligible, TypeOK
  <2>2. QED
    BY <2>1, ConstantsAssumption, FS_Subset, FS_CardinalityType
<1>4. cap \in Nat /\ cap > 0
  BY ConstantsAssumption DEF SlotFree, TypeOK
<1>5. Cardinality(Downloading) < cap
  BY DEF SlotFree
<1> HIDE DEF cap, n
<1>6. PICK k \in 1..n : s[k] = q
  BY <1>2 DEF Queued
<1>7. k > cap
  BY <1>1, <1>2, <1>3, <1>4, <1>6 DEF Queued
<1> DEFINE f == [i \in 1..cap |-> s[i]]
<1>8. f \in Injection(1..cap, Downloading)
  <2>1. ASSUME NEW i \in 1..cap PROVE s[i] \in Downloading
    <3>1. i \in 1..n
      BY <1>3, <1>4, <1>6, <1>7
    <3>2. QED
      BY <1>1, <1>2, <3>1 DEF Downloading
  <2>2. \A i, j \in 1..cap : s[i] = s[j] => i = j
    BY <1>2, <1>3, <1>4, <1>6, <1>7
  <2>3. f \in [1..cap -> Downloading]
    BY <2>1
  <2>4. \A i, j \in 1..cap : f[i] = f[j] => i = j
    BY <2>2
  <2>5. QED
    BY <2>3, <2>4 DEF Injection, IsInjective
<1>9. IsFiniteSet(Downloading)
  <2>1. Downloading \in SUBSET Eligible
    BY DEF Downloading
  <2>2. QED
    BY <1>3, <2>1, FS_Subset
<1>10. Cardinality(1..cap) = cap /\ Cardinality(Downloading) \in Nat
  BY <1>4, <1>9, FS_Interval, FS_CardinalityType
<1> HIDE DEF f
<1>11. Cardinality(1..cap) <= Cardinality(Downloading)
  BY <1>8, <1>9, FS_Injection
<1>12. QED
  BY <1>4, <1>5, <1>10, <1>11

\* A candidate is queued beside a free slot only while a completion is still to
\* be noticed.
FreeSlotIsOwed ==
    Idle /\ forced = {} /\ SlotFree /\ Queued # {} =>
        \E t \in Torrent : complete[t] /\ phase[t] = "watching"

\* The safe half of NoIdleSlot, under the conditions of IdleBalanced: between
\* operations a slot idles beside a queued torrent only if monitorCompletion has
\* a completion left to notice, and it runs the gate when it does.
THEOREM SlotsAreOwed ==
    ASSUME \A v, w \in Worker : v = w, "recheck" \notin Ops, "droppanic" \notin Ops
    PROVE  Spec => []FreeSlotIsOwed
<1>1. TypeOK /\ IdleIsBalanced => FreeSlotIsOwed
  BY BalanceFillsSlots DEF IdleIsBalanced, FreeSlotIsOwed
<1>2. QED
  BY <1>1, TypeCorrect, IdleBalanced, PTL
=============================================================================
