-------------------------- MODULE SettingsFormProofs --------------------------
(***************************************************************************)
(* Proofs about the settings from the form to the session, for any tabs,   *)
(* settings and values, and any number of moves and faults.                *)
(***************************************************************************)
EXTENDS SettingsForm, FiniteSetTheorems, TLAPS

------------------------------------------------------------------------------
(* Shapes *)

Request == [tab : Tabs, mount : Nat, map : Maps, stage : Stages, left : SUBSET Keys]
Served == [stage : {"served"}, table : Maps]

Shapes ==
  /\ table \in Maps /\ engine \in [Runtime -> Numbers]
  /\ saved \in [Tabs -> Maps] /\ form \in [Tabs -> Maps] /\ typed \in [Tabs -> Maps]
  /\ mount \in [Tabs -> Nat]
  /\ fetch \in [Tabs -> {NoFetch, Asked} \cup Served]
  /\ requests \subseteq Request
  /\ moves \in Nat /\ faults \in Nat

Switches == dirty \in [Tabs -> BOOLEAN] /\ mixed \in BOOLEAN

\* A form waits for its save before it sends another.
OneEach == \A r, q \in requests : r.tab = q.tab /\ r.mount = q.mount => r = q

LEMMA BootedTypes == Booted \in [Runtime -> Numbers]
BY SettingsAssumption DEF Booted

LEMMA InitShapes == Init => Shapes /\ Switches /\ OneEach
<1>. SUFFICES ASSUME Init PROVE Shapes /\ Switches /\ OneEach
  OBVIOUS
<1>1. table \in Maps /\ engine \in [Runtime -> Numbers]
  BY SettingsAssumption, BootedTypes DEF Init
<1>2. /\ saved \in [Tabs -> Maps] /\ form \in [Tabs -> Maps] /\ typed \in [Tabs -> Maps]
      /\ mount \in [Tabs -> Nat] /\ fetch \in [Tabs -> {NoFetch, Asked} \cup Served]
  BY <1>1 DEF Init
<1>3. Switches
  BY DEF Init, Switches
<1>4. OneEach /\ requests \subseteq Request /\ moves \in Nat /\ faults \in Nat
  BY DEF Init, OneEach
<1>. QED
  BY <1>1, <1>2, <1>3, <1>4 DEF Shapes

\* A request keeps its tab, its form and its map.
LEMMA StageKeeps ==
  ASSUME NEW r \in Request, NEW s \in Stages
  PROVE  /\ [r EXCEPT !.stage = s] \in Request
         /\ [r EXCEPT !.stage = s].tab = r.tab /\ [r EXCEPT !.stage = s].mount = r.mount
         /\ [r EXCEPT !.stage = s].map = r.map /\ [r EXCEPT !.stage = s].stage = s
BY DEF Request

LEMMA LeftKeeps ==
  ASSUME NEW r \in Request, NEW L \in SUBSET Keys
  PROVE  /\ [r EXCEPT !.left = L] \in Request
         /\ [r EXCEPT !.left = L].tab = r.tab /\ [r EXCEPT !.left = L].mount = r.mount
         /\ [r EXCEPT !.left = L].map = r.map /\ [r EXCEPT !.left = L].stage = r.stage
         /\ [r EXCEPT !.left = L].left = L
BY DEF Request

LEMMA ApplyStarts ==
  ASSUME NEW r \in Request, NEW L \in SUBSET Keys
  PROVE  /\ [r EXCEPT !.stage = "apply", !.left = L] \in Request
         /\ [r EXCEPT !.stage = "apply", !.left = L].tab = r.tab
         /\ [r EXCEPT !.stage = "apply", !.left = L].mount = r.mount
         /\ [r EXCEPT !.stage = "apply", !.left = L].map = r.map
         /\ [r EXCEPT !.stage = "apply", !.left = L].stage = "apply"
         /\ [r EXCEPT !.stage = "apply", !.left = L].left = L
BY DEF Request, Stages

\* What a handler's step makes of its request.
LEMMA WriteKeyRequest ==
  ASSUME Shapes, NEW r \in requests, WriteKey(r)
  PROVE  \E q \in Request :
           /\ requests' = (requests \ {r}) \cup {q}
           /\ q.tab = r.tab /\ q.mount = r.mount /\ q.map = r.map
           /\ \/ /\ q.stage = "write"
                 /\ \E k \in r.left : q.left = r.left \ {k} /\ table' = [table EXCEPT ![k] = r.map[k]]
              \/ /\ q.stage = "apply" /\ r.left = {} /\ table' = table
                 /\ q.left = {k \in Runtime : r.map[k] # Absent}
<1>1. r \in Request /\ r.stage = "write"
  BY DEF Shapes, WriteKey
<1>2. r.left \in SUBSET Keys
  BY <1>1 DEF Request
<1>3. CASE \E k \in r.left :
             /\ table' = [table EXCEPT ![k] = r.map[k]]
             /\ requests' = (requests \ {r}) \cup {[r EXCEPT !.left = @ \ {k}]}
  <2>1. PICK k \in r.left :
             /\ table' = [table EXCEPT ![k] = r.map[k]]
             /\ requests' = (requests \ {r}) \cup {[r EXCEPT !.left = @ \ {k}]}
    BY <1>3
  <2>2. r.left \ {k} \in SUBSET Keys
    BY <1>2
  <2>. DEFINE q == [r EXCEPT !.left = r.left \ {k}]
  <2>3. /\ q \in Request /\ q.tab = r.tab /\ q.mount = r.mount /\ q.map = r.map
        /\ q.stage = "write" /\ q.left = r.left \ {k}
    BY <1>1, <2>2, LeftKeeps
  <2>4. requests' = (requests \ {r}) \cup {q}
    BY <2>1
  <2>. HIDE DEF q
  <2>. QED
    BY <2>1, <2>3, <2>4
<1>4. CASE /\ r.left = {}
           /\ requests' = (requests \ {r}) \cup
                {[r EXCEPT !.stage = "apply", !.left = {k \in Runtime : r.map[k] # Absent}]}
           /\ UNCHANGED table
  <2>1. {k \in Runtime : r.map[k] # Absent} \in SUBSET Keys
    BY SettingsAssumption
  <2>. DEFINE L == {k \in Runtime : r.map[k] # Absent}
              q == [r EXCEPT !.stage = "apply", !.left = L]
  <2>. HIDE DEF L
  <2>2. /\ q \in Request /\ q.tab = r.tab /\ q.mount = r.mount /\ q.map = r.map
        /\ q.stage = "apply" /\ q.left = L
    BY <1>1, <2>1, ApplyStarts DEF L
  <2>3. requests' = (requests \ {r}) \cup {q}
    BY <1>4 DEF L
  <2>. HIDE DEF q
  <2>. QED
    BY <1>4, <2>2, <2>3 DEF L
<1>. QED
  BY <1>3, <1>4 DEF WriteKey

LEMMA ApplyKeyRequest ==
  ASSUME Shapes, NEW r \in requests, ApplyKey(r)
  PROVE  \E q \in Request :
           /\ requests' = (requests \ {r}) \cup {q}
           /\ q.tab = r.tab /\ q.mount = r.mount /\ q.map = r.map
           /\ \/ /\ q.stage = "apply"
                 /\ \E k \in r.left : q.left = r.left \ {k} /\ Setter(k, r.map[k])
              \/ q.stage = "ok" /\ r.left = {} /\ engine' = engine
<1>1. r \in Request /\ r.stage = "apply"
  BY DEF Shapes, ApplyKey
<1>2. r.left \in SUBSET Keys
  BY <1>1 DEF Request
<1>3. ASSUME NEW k \in r.left, Setter(k, r.map[k]),
             requests' = (requests \ {r}) \cup {[r EXCEPT !.left = @ \ {k}]}
      PROVE  \E q \in Request :
           /\ requests' = (requests \ {r}) \cup {q}
           /\ q.tab = r.tab /\ q.mount = r.mount /\ q.map = r.map
           /\ q.stage = "apply" /\ q.left = r.left \ {k}
  <2>1. r.left \ {k} \in SUBSET Keys
    BY <1>2
  <2>. DEFINE q == [r EXCEPT !.left = r.left \ {k}]
  <2>2. /\ q \in Request /\ q.tab = r.tab /\ q.mount = r.mount /\ q.map = r.map
        /\ q.stage = "apply" /\ q.left = r.left \ {k}
    BY <1>1, <2>1, LeftKeeps
  <2>3. requests' = (requests \ {r}) \cup {q}
    BY <1>3
  <2>. HIDE DEF q
  <2>. QED
    BY <2>2, <2>3
<1>4. ASSUME r.left = {}, requests' = Send(r, "ok")
      PROVE  \E q \in Request :
           /\ requests' = (requests \ {r}) \cup {q}
           /\ q.tab = r.tab /\ q.mount = r.mount /\ q.map = r.map
           /\ q.stage = "ok"
  <2>. DEFINE q == [r EXCEPT !.stage = "ok"]
  <2>1. "ok" \in Stages
    BY DEF Stages
  <2>2. q \in Request /\ q.tab = r.tab /\ q.mount = r.mount /\ q.map = r.map /\ q.stage = "ok"
    BY <1>1, <2>1, StageKeeps
  <2>3. requests' = (requests \ {r}) \cup {q}
    BY <1>4 DEF Send
  <2>. HIDE DEF q
  <2>. QED
    BY <2>2, <2>3
<1>. QED
  BY <1>3, <1>4 DEF ApplyKey

\* Every other change of a request is a change of its stage.
LEMMA SendRequest ==
  ASSUME Shapes, NEW r \in requests, NEW s \in Stages, requests' = Send(r, s)
  PROVE  \E q \in Request :
           /\ requests' = (requests \ {r}) \cup {q}
           /\ q.tab = r.tab /\ q.mount = r.mount /\ q.map = r.map /\ q.stage = s
<1>1. r \in Request
  BY DEF Shapes
<1>. QED
  BY <1>1, StageKeeps DEF Send

LEMMA ReplaceKeepsOneEach ==
  ASSUME OneEach, requests \subseteq Request, NEW r \in requests, NEW q \in Request,
         q.tab = r.tab, q.mount = r.mount, requests' = (requests \ {r}) \cup {q}
  PROVE  OneEach' /\ requests' \subseteq Request
BY DEF OneEach

\* What is stored is what some form held, and its key is one of the settings.
LEMMA ApplyTypes ==
  ASSUME Shapes, NEW r \in requests, ApplyKey(r)
  PROVE  engine' \in [Runtime -> Numbers]
BY DEF ApplyKey, Setter, Shapes

LEMMA WriteTypes ==
  ASSUME Shapes, NEW r \in requests, WriteKey(r)
  PROVE  table' \in Maps
<1>1. r.map \in Maps /\ r.left \subseteq Keys
  BY DEF Shapes, Request
<1>2. ASSUME NEW k \in r.left, table' = [table EXCEPT ![k] = r.map[k]] PROVE table' \in Maps
  <2>1. k \in Keys /\ r.map[k] \in Values \cup {Absent}
    BY <1>1 DEF Maps
  <2>. QED
    BY <1>2, <2>1 DEF Shapes, Maps
<1>. QED
  BY <1>2 DEF WriteKey, Shapes

LEMMA SaveTypes ==
  ASSUME Shapes, OneEach, NEW t \in Tabs, HandleSave(t)
  PROVE  OneEach' /\ requests' \subseteq Request
<1>. DEFINE q == [tab |-> t, mount |-> mount[t], map |-> form[t], stage |-> "write",
                  left |-> {k \in Keys : form[t][k] # Absent}]
<1>1. mount[t] \in Nat /\ form[t] \in Maps /\ {k \in Keys : form[t][k] # Absent} \in SUBSET Keys
  BY DEF Shapes
<1>2. q \in Request /\ q.tab = t /\ q.mount = mount[t]
  BY <1>1 DEF Request, Stages
<1>3. requests' = requests \cup {q}
  BY DEF HandleSave
<1>4. \A r \in requests : ~(r.tab = t /\ r.mount = mount[t])
  BY DEF HandleSave, Saving
<1>. HIDE DEF q
<1>. QED
  BY <1>2, <1>3, <1>4 DEF Shapes, OneEach

LEMMA RestartTypes ==
  ASSUME Shapes, OneEach, Restart
  PROVE  OneEach' /\ requests' \subseteq Request
<1>. DEFINE Cut(r) == IF r.stage \in {"write", "apply"} THEN [r EXCEPT !.stage = "failed"] ELSE r
<1>1. requests' = {Cut(r) : r \in requests}
  BY DEF Restart
<1>2. ASSUME NEW r \in requests
      PROVE  Cut(r) \in Request /\ Cut(r).tab = r.tab /\ Cut(r).mount = r.mount
  <2>1. r \in Request /\ "failed" \in Stages
    BY DEF Shapes, Stages
  <2>. QED
    BY <2>1, StageKeeps
<1>. HIDE DEF Cut
<1>. QED
  BY <1>1, <1>2 DEF OneEach

LEMMA StepShapes == Shapes /\ OneEach /\ [Next]_vars => Shapes' /\ OneEach'
<1>. SUFFICES ASSUME Shapes, OneEach, [Next]_vars PROVE Shapes' /\ OneEach'
  OBVIOUS
<1>. USE DEF serverVars, tabVars, ghostVars, bounds, Move, Fault
<1>1. ASSUME NEW t \in Tabs, NEW k \in Keys, NEW v \in Values, Set(t, k, v)
      PROVE  Shapes' /\ OneEach'
  <2>1. form' \in [Tabs -> Maps] /\ typed' \in [Tabs -> Maps]
    BY <1>1 DEF Set, Shapes, Maps
  <2>. QED
    BY <1>1, <2>1 DEF Set, Shapes, OneEach
<1>2. ASSUME NEW t \in Tabs, Save(t) PROVE Shapes' /\ OneEach'
  BY <1>2, SaveTypes DEF Save, Shapes
<1>3. ASSUME NEW t \in Tabs, Remount(t) PROVE Shapes' /\ OneEach'
  <2>1. form' \in [Tabs -> Maps] /\ mount' \in [Tabs -> Nat]
    BY <1>3 DEF Remount, Shapes
  <2>2. fetch' \in [Tabs -> {NoFetch, Asked} \cup Served]
    BY <1>3 DEF Remount, Shapes
  <2>. QED
    BY <1>3, <2>1, <2>2 DEF Remount, Shapes, OneEach
<1>4. ASSUME NEW t \in Tabs, Refetch(t) PROVE Shapes' /\ OneEach'
  BY <1>4 DEF Refetch, Shapes, OneEach
<1>5. ASSUME NEW t \in Tabs, GetSettings(t) PROVE Shapes' /\ OneEach'
  <2>1. [stage |-> "served", table |-> table] \in Served
    BY DEF Served, Shapes
  <2>. QED
    BY <1>5, <2>1 DEF GetSettings, Shapes, OneEach
<1>6. ASSUME NEW t \in Tabs, FetchLands(t) PROVE Shapes' /\ OneEach'
  <2>1. fetch[t] \in Served
    BY <1>6 DEF FetchLands, Shapes, NoFetch, Asked
  <2>2. fetch[t].table \in Maps
    BY <2>1 DEF Served
  <2>3. saved' \in [Tabs -> Maps] /\ form' \in [Tabs -> Maps]
    BY <1>6, <2>2 DEF FetchLands, Lands, Shapes
  <2>. QED
    BY <1>6, <2>3 DEF FetchLands, Settled, Shapes, OneEach
<1>7. ASSUME NEW t \in Tabs, FetchFails(t) PROVE Shapes' /\ OneEach'
  BY <1>7 DEF FetchFails, Settled, Shapes, OneEach
<1>8. ASSUME NEW r \in requests, WriteKey(r) PROVE Shapes' /\ OneEach'
  <2>1. OneEach' /\ requests' \subseteq Request
    BY <1>8, WriteKeyRequest, ReplaceKeepsOneEach DEF Shapes
  <2>. QED
    BY <1>8, <2>1, WriteTypes DEF WriteKey, Shapes
<1>9. ASSUME NEW r \in requests, WriteFails(r) PROVE Shapes' /\ OneEach'
  <2>1. "failed" \in Stages
    BY DEF Stages
  <2>2. OneEach' /\ requests' \subseteq Request
    BY <1>9, <2>1, SendRequest, ReplaceKeepsOneEach DEF WriteFails, Shapes
  <2>. QED
    BY <1>9, <2>2 DEF WriteFails, Shapes
<1>10. ASSUME NEW r \in requests, ApplyKey(r) PROVE Shapes' /\ OneEach'
  <2>1. OneEach' /\ requests' \subseteq Request
    BY <1>10, ApplyKeyRequest, ReplaceKeepsOneEach DEF Shapes
  <2>. QED
    BY <1>10, <2>1, ApplyTypes DEF ApplyKey, Shapes
<1>11. ASSUME NEW r \in requests, Answer(r) PROVE Shapes' /\ OneEach'
  <2>1. CASE r.stage = "ok" /\ Answered(r)
    <3>1. "refetching" \in Stages
      BY DEF Stages
    <3>2. OneEach' /\ requests' \subseteq Request
      BY <2>1, <3>1, SendRequest, ReplaceKeepsOneEach DEF Answered, Shapes
    <3>3. fetch' \in [Tabs -> {NoFetch, Asked} \cup Served]
      BY <2>1 DEF Answered, Shapes
    <3>. QED
      BY <1>11, <3>2, <3>3 DEF Answer, Shapes
  <2>2. CASE requests' = requests \ {r} /\ UNCHANGED <<fetch, dirty>>
    BY <1>11, <2>2 DEF Answer, Shapes, OneEach
  <2>. QED
    BY <1>11, <2>1, <2>2 DEF Answer
<1>12. ASSUME NEW r \in requests, AnswerLost(r) PROVE Shapes' /\ OneEach'
  <2>1. "failed" \in Stages
    BY DEF Stages
  <2>2. OneEach' /\ requests' \subseteq Request
    BY <1>12, <2>1, SendRequest, ReplaceKeepsOneEach DEF AnswerLost, Shapes
  <2>. QED
    BY <1>12, <2>2 DEF AnswerLost, Shapes
<1>13. CASE Restart
  <2>1. engine' \in [Runtime -> Numbers]
    BY <1>13, BootedTypes DEF Restart, Overlay
  <2>. QED
    BY <1>13, <2>1, RestartTypes DEF Restart, Shapes
<1>14. CASE UNCHANGED vars
  BY <1>14 DEF vars, Shapes, OneEach
<1>. QED
  BY <1>1, <1>2, <1>3, <1>4, <1>5, <1>6, <1>7, <1>8, <1>9, <1>10, <1>11, <1>12, <1>13, <1>14
     DEF Next

LEMMA StepSwitches == Shapes /\ Switches /\ [Next]_vars => Switches'
<1>. SUFFICES ASSUME Shapes, Switches, [Next]_vars PROVE Switches'
  OBVIOUS
<1>. USE DEF ghostVars, tabVars, Switches
<1>1. ASSUME NEW t \in Tabs, NEW k \in Keys, NEW v \in Values, Set(t, k, v) PROVE Switches'
  BY <1>1 DEF Set
<1>2. ASSUME NEW t \in Tabs, Save(t) PROVE Switches'
  BY <1>2 DEF Save
<1>3. ASSUME NEW t \in Tabs, Remount(t) PROVE Switches'
  BY <1>3 DEF Remount
<1>4. ASSUME NEW t \in Tabs, Refetch(t) \/ GetSettings(t) PROVE Switches'
  BY <1>4 DEF Refetch, GetSettings
<1>5. ASSUME NEW t \in Tabs, FetchLands(t) PROVE Switches'
  <2>1. ASSUME NEW b \in BOOLEAN, dirty' = [dirty EXCEPT ![t] = b] PROVE dirty' \in [Tabs -> BOOLEAN]
    BY <2>1
  <2>2. (dirty[t] /\ fetch[t].table = saved[t] /\ ~Cleaned(t)) \in BOOLEAN
    BY DEF Cleaned
  <2>3. dirty' = [dirty EXCEPT ![t] = dirty[t] /\ fetch[t].table = saved[t] /\ ~Cleaned(t)]
    BY <1>5 DEF FetchLands, Lands
  <2>. QED
    BY <1>5, <2>1, <2>2, <2>3 DEF FetchLands
<1>6. ASSUME NEW t \in Tabs, FetchFails(t) PROVE Switches'
  <2>1. ASSUME NEW b \in BOOLEAN, dirty' = [dirty EXCEPT ![t] = b] PROVE dirty' \in [Tabs -> BOOLEAN]
    BY <2>1
  <2>2. (dirty[t] /\ ~Cleaned(t)) \in BOOLEAN
    BY DEF Cleaned
  <2>3. dirty' = [dirty EXCEPT ![t] = dirty[t] /\ ~Cleaned(t)]
    BY <1>6 DEF FetchFails
  <2>. QED
    BY <1>6, <2>1, <2>2, <2>3 DEF FetchFails
<1>7. ASSUME NEW r \in requests, WriteKey(r) \/ WriteFails(r) \/ ApplyKey(r) \/ AnswerLost(r)
      PROVE  Switches'
  BY <1>7 DEF WriteKey, WriteFails, ApplyKey, AnswerLost
<1>8. ASSUME NEW r \in requests, Answer(r) PROVE Switches'
  BY <1>8 DEF Answer, Answered
<1>9. CASE Restart
  BY <1>9 DEF Restart
<1>10. CASE UNCHANGED vars
  BY <1>10 DEF vars
<1>. QED
  BY <1>1, <1>2, <1>3, <1>4, <1>5, <1>6, <1>7, <1>8, <1>9, <1>10 DEF Next

\* Every variable stays in its type, and a mounted form has one save at a time.
THEOREM SettingsTypes == Spec => []TypeOK
<1>1. Shapes /\ Switches /\ OneEach => TypeOK
  <2>1. \A x \in {NoFetch, Asked} \cup Served : x.stage \in {"none", "asked", "served"}
    BY DEF NoFetch, Asked, Served
  <2>. QED
    BY <2>1 DEF Shapes, Switches, OneEach, TypeOK, Request
<1>. QED
  BY InitShapes, StepShapes, StepSwitches, <1>1, PTL DEF Spec

------------------------------------------------------------------------------
(* The session and the table *)

\* The keys the session is expected to follow: after a restart only those that
\* are read back.
Kept == IF faults = 0 THEN Runtime ELSE Restored

FollowsKey(k) == table[k] \in Numbers => engine[k] = table[k]

\* How far the handler has come: what it has stored is in the table, and what
\* it has still to apply is there too.
HandlerInv(r) ==
  /\ r.stage = "write" =>
       /\ \A k \in r.left : r.map[k] # Absent
       /\ \A k \in Keys \ r.left : r.map[k] # Absent => table[k] = r.map[k]
  /\ r.stage = "apply" => r.left \subseteq Runtime /\ \A k \in r.left : table[k] = r.map[k]

\* The handler has stored k and not yet applied it.
Behind(r, k) ==
  \/ r.stage = "write" /\ k \notin r.left /\ r.map[k] # Absent
  \/ r.stage = "apply" /\ k \in r.left

Alone == \A r, q \in requests : r = q

\* Unless saves were mixed there is one of them at most, and a key the session
\* does not follow is on that save's way to it.
EngineInv ==
  ~mixed =>
    /\ Alone
    /\ \A r \in requests : HandlerInv(r)
    /\ \A k \in Kept : FollowsKey(k) \/ \E r \in requests : Behind(r, k)

LEMMA KeptShrinks ==
  ASSUME faults \in Nat, faults' \in {faults, faults + 1}
  PROVE  Kept' \subseteq Kept /\ Kept \subseteq Runtime
BY SettingsAssumption DEF Kept

LEMMA StepEngine == Shapes /\ Switches /\ EngineInv /\ [Next]_vars => EngineInv'
<1>. SUFFICES ASSUME Shapes, Switches, EngineInv, [Next]_vars, ~mixed' PROVE EngineInv'
  BY DEF EngineInv
<1>. USE DEF serverVars, tabVars, ghostVars, bounds, Move, Fault
<1>0. faults \in Nat
  BY DEF Shapes
<1>1. ASSUME mixed = mixed', UNCHANGED <<table, engine>>, faults' \in {faults, faults + 1},
             requests' \subseteq requests,
             \A r \in requests \ requests' : r.stage \notin {"write", "apply"}
      PROVE  EngineInv'
  <2>1. ~mixed /\ Kept' \subseteq Kept
    BY <1>0, <1>1, KeptShrinks
  <2>2. Alone' /\ \A r \in requests' : HandlerInv(r)'
    BY <1>1, <2>1 DEF EngineInv, Alone, HandlerInv
  <2>3. ASSUME NEW k \in Kept'
        PROVE  FollowsKey(k)' \/ \E r \in requests' : Behind(r, k)
    BY <1>1, <2>1 DEF EngineInv, FollowsKey, Behind
  <2>. QED
    BY <2>2, <2>3 DEF EngineInv, Behind
<1>2. ASSUME NEW t \in Tabs, NEW k \in Keys, NEW v \in Values, Set(t, k, v) PROVE EngineInv'
  BY <1>1, <1>2 DEF Set
<1>3. ASSUME NEW t \in Tabs, Save(t) PROVE EngineInv'
  <2>1. ~mixed /\ requests = {}
    BY <1>3 DEF Save, Switches
  <2>2. PICK q : /\ requests' = {q} /\ q.stage = "write" /\ q.map = form[t]
                 /\ q.left = {k \in Keys : form[t][k] # Absent}
    <3>. DEFINE q == [tab |-> t, mount |-> mount[t], map |-> form[t], stage |-> "write",
                      left |-> {k \in Keys : form[t][k] # Absent}]
    <3>1. requests' = {q}
      BY <1>3, <2>1 DEF Save, HandleSave
    <3>2. q.stage = "write" /\ q.map = form[t] /\ q.left = {k \in Keys : form[t][k] # Absent}
      OBVIOUS
    <3>. HIDE DEF q
    <3>. QED
      BY <3>1, <3>2
  <2>3. table' = table /\ engine' = engine /\ faults' = faults
    BY <1>3 DEF Save
  <2>4. \A k \in Kept' : FollowsKey(k)'
    BY <2>1, <2>3 DEF EngineInv, Kept, FollowsKey
  <2>5. HandlerInv(q)'
    BY <2>2 DEF HandlerInv
  <2>. QED
    BY <2>2, <2>4, <2>5 DEF EngineInv, Alone
<1>4. ASSUME NEW t \in Tabs, Remount(t) \/ Refetch(t) \/ GetSettings(t) PROVE EngineInv'
  BY <1>1, <1>4 DEF Remount, Refetch, GetSettings
<1>5. ASSUME NEW t \in Tabs, FetchLands(t) \/ FetchFails(t) PROVE EngineInv'
  BY <1>1, <1>5 DEF FetchLands, FetchFails, Settled
<1>6. ASSUME NEW r \in requests, WriteKey(r) PROVE EngineInv'
  <2>1. /\ ~mixed /\ engine' = engine /\ Kept' = Kept /\ r.stage = "write"
        /\ r.map \in Maps /\ r.left \subseteq Keys
    BY <1>6 DEF WriteKey, Kept, Shapes, Request
  <2>2. PICK q \in Request :
          /\ requests' = (requests \ {r}) \cup {q}
          /\ q.map = r.map
          /\ \/ /\ q.stage = "write"
                /\ \E k \in r.left : q.left = r.left \ {k} /\ table' = [table EXCEPT ![k] = r.map[k]]
             \/ /\ q.stage = "apply" /\ r.left = {} /\ table' = table
                /\ q.left = {k \in Runtime : r.map[k] # Absent}
    BY <1>6, WriteKeyRequest
  <2>3. requests' = {q} /\ HandlerInv(r) /\ \A k \in Kept : FollowsKey(k) \/ Behind(r, k)
    BY <2>1, <2>2 DEF EngineInv, Alone
  <2>4. CASE q.stage = "write"
    <3>1. PICK k \in r.left : q.left = r.left \ {k} /\ table' = [table EXCEPT ![k] = r.map[k]]
      BY <2>2, <2>4
    <3>2. k \in Keys /\ table'[k] = r.map[k] /\ \A j \in Keys \ {k} : table'[j] = table[j]
      BY <2>1, <3>1 DEF Shapes, Maps
    <3>3. HandlerInv(q)'
      BY <2>1, <2>2, <2>3, <2>4, <3>1, <3>2 DEF HandlerInv
    <3>4. ASSUME NEW j \in Kept PROVE FollowsKey(j)' \/ Behind(q, j)
      <4>1. j \in Keys
        BY <1>0, KeptShrinks, SettingsAssumption DEF Kept
      <4>. QED
        BY <2>1, <2>2, <2>3, <2>4, <3>1, <3>2, <4>1 DEF HandlerInv, FollowsKey, Behind
    <3>. QED
      BY <2>1, <2>3, <3>3, <3>4 DEF EngineInv, Alone, Behind
  <2>5. CASE q.stage = "apply"
    <3>1. r.left = {} /\ table' = table /\ q.left = {k \in Runtime : r.map[k] # Absent}
      BY <2>2, <2>5
    <3>2. HandlerInv(q)'
      BY <2>1, <2>2, <2>3, <2>5, <3>1, SettingsAssumption DEF HandlerInv
    <3>3. ASSUME NEW j \in Kept PROVE FollowsKey(j)' \/ Behind(q, j)
      <4>1. j \in Runtime
        BY SettingsAssumption DEF Kept
      <4>. QED
        BY <2>1, <2>2, <2>3, <2>5, <3>1, <4>1 DEF FollowsKey, Behind
    <3>. QED
      BY <2>1, <2>3, <3>2, <3>3 DEF EngineInv, Alone, Behind
  <2>. QED
    BY <2>2, <2>4, <2>5
<1>7. ASSUME NEW r \in requests, WriteFails(r) PROVE EngineInv'
  BY <1>7 DEF WriteFails
<1>8. ASSUME NEW r \in requests, ApplyKey(r) PROVE EngineInv'
  <2>1. ~mixed /\ table' = table /\ Kept' = Kept /\ r.stage = "apply"
    BY <1>8 DEF ApplyKey, Kept
  <2>2. PICK q \in Request :
          /\ requests' = (requests \ {r}) \cup {q}
          /\ q.map = r.map
          /\ \/ /\ q.stage = "apply"
                /\ \E k \in r.left : q.left = r.left \ {k} /\ Setter(k, r.map[k])
             \/ q.stage = "ok" /\ r.left = {} /\ engine' = engine
    BY <1>8, ApplyKeyRequest
  <2>3. requests' = {q} /\ HandlerInv(r) /\ \A k \in Kept : FollowsKey(k) \/ Behind(r, k)
    BY <2>1, <2>2 DEF EngineInv, Alone
  <2>4. CASE q.stage = "apply"
    <3>1. PICK k \in r.left : q.left = r.left \ {k} /\ Setter(k, r.map[k])
      BY <2>2, <2>4
    <3>2. /\ k \in Runtime /\ table[k] = r.map[k]
          /\ r.map[k] \in Numbers => engine'[k] = r.map[k]
          /\ \A j \in Runtime \ {k} : engine'[j] = engine[j]
      BY <2>1, <2>3, <3>1 DEF HandlerInv, Setter, Shapes
    <3>3. HandlerInv(q)'
      BY <2>1, <2>2, <2>3, <2>4, <3>1 DEF HandlerInv
    <3>4. ASSUME NEW j \in Kept PROVE FollowsKey(j)' \/ Behind(q, j)
      <4>1. j \in Runtime
        BY SettingsAssumption DEF Kept
      <4>. QED
        BY <2>1, <2>2, <2>3, <2>4, <3>1, <3>2, <4>1 DEF FollowsKey, Behind
    <3>. QED
      BY <2>1, <2>3, <3>3, <3>4 DEF EngineInv, Alone, Behind
  <2>5. CASE q.stage = "ok"
    <3>1. r.left = {} /\ engine' = engine
      BY <2>2, <2>5
    <3>2. \A k \in Kept' : FollowsKey(k)'
      BY <2>1, <2>3, <3>1 DEF FollowsKey, Behind
    <3>. QED
      BY <2>3, <2>5, <3>2 DEF EngineInv, Alone, HandlerInv
  <2>. QED
    BY <2>2, <2>4, <2>5
<1>9. ASSUME NEW r \in requests, Answer(r) PROVE EngineInv'
  <2>1. CASE r.stage = "ok" /\ Answered(r)
    <3>1. "refetching" \in Stages /\ requests' = Send(r, "refetching")
      BY <2>1 DEF Stages, Answered
    <3>2. PICK q \in Request : requests' = (requests \ {r}) \cup {q} /\ q.stage = "refetching"
      BY <3>1, SendRequest
    <3>3. ~mixed /\ UNCHANGED <<table, engine>> /\ Kept' = Kept
      BY <1>9 DEF Answer, Kept
    <3>4. requests' = {q}
      BY <3>2, <3>3 DEF EngineInv, Alone
    <3>5. \A k \in Kept : FollowsKey(k)
      BY <2>1, <3>3 DEF EngineInv, Alone, Behind
    <3>. QED
      BY <3>2, <3>3, <3>4, <3>5 DEF EngineInv, Alone, HandlerInv, FollowsKey
  <2>2. CASE r.stage = "failed" /\ requests' = requests \ {r}
    BY <1>1, <1>9, <2>2 DEF Answer
  <2>. QED
    BY <1>9, <2>1, <2>2 DEF Answer
<1>10. CASE Restart
  <2>1. ~mixed /\ table' = table /\ faults' # 0
    BY <1>0, <1>10 DEF Restart
  <2>2. Kept' = Restored
    BY <2>1 DEF Kept
  <2>3. \A k \in Restored : FollowsKey(k)'
    BY <1>10, <2>1, SettingsAssumption DEF Restart, Overlay, Booted, FollowsKey
  <2>4. ASSUME NEW q \in requests' PROVE q.stage \notin {"write", "apply"}
    <3>1. PICK r \in requests :
            q = IF r.stage \in {"write", "apply"} THEN [r EXCEPT !.stage = "failed"] ELSE r
      BY <1>10 DEF Restart
    <3>2. r \in Request /\ "failed" \in Stages
      BY DEF Shapes, Stages
    <3>. QED
      BY <3>1, <3>2, StageKeeps
  <2>5. Alone'
    BY <1>10, <2>1 DEF Restart, EngineInv, Alone
  <2>. QED
    BY <2>2, <2>3, <2>4, <2>5 DEF EngineInv, HandlerInv
<1>11. ASSUME NEW r \in requests, AnswerLost(r) PROVE EngineInv'
  <2>1. r.stage = "ok" /\ "failed" \in Stages /\ requests' = Send(r, "failed")
    BY <1>11 DEF AnswerLost, Stages
  <2>2. PICK q \in Request : requests' = (requests \ {r}) \cup {q} /\ q.stage = "failed"
    BY <2>1, SendRequest
  <2>3. ~mixed /\ UNCHANGED <<table, engine>> /\ faults' = faults + 1
    BY <1>11 DEF AnswerLost
  <2>4. Kept' \subseteq Kept
    BY <1>0, <2>3, KeptShrinks
  <2>5. requests' = {q}
    BY <2>2, <2>3 DEF EngineInv, Alone
  <2>6. \A k \in Kept : FollowsKey(k)
    BY <2>1, <2>3 DEF EngineInv, Alone, Behind
  <2>. QED
    BY <2>2, <2>3, <2>4, <2>5, <2>6 DEF EngineInv, Alone, HandlerInv, FollowsKey
<1>12. CASE UNCHANGED vars
  BY <1>1, <1>12 DEF vars
<1>. QED
  BY <1>2, <1>3, <1>4, <1>5, <1>6, <1>7, <1>8, <1>9, <1>10, <1>11, <1>12 DEF Next

LEMMA InitEngine == Init => EngineInv
<1>. SUFFICES ASSUME Init PROVE EngineInv
  OBVIOUS
<1>1. \A k \in Runtime : FollowsKey(k)
  BY SettingsAssumption DEF Init, FollowsKey, Booted
<1>. QED
  BY <1>1 DEF Init, EngineInv, Alone, Kept

\* With no handler at work the session uses what the table says; through any
\* number of restarts, wherever they cut a save, the keys that are read back.
THEOREM EngineFollows == Spec => []EngineFollowsTable
<1>1. EngineInv => EngineFollowsTable
  <2>. SUFFICES ASSUME EngineInv, Quiet, ~mixed
                PROVE  Follows(Restored) /\ (faults = 0 => Follows(Runtime))
    BY DEF EngineFollowsTable
  <2>1. \A k \in Kept : FollowsKey(k)
    BY DEF EngineInv, Quiet, Behind
  <2>2. Restored \subseteq Kept /\ (faults = 0 => Kept = Runtime)
    BY SettingsAssumption DEF Kept
  <2>. QED
    BY <2>1, <2>2 DEF Follows, FollowsKey
<1>. QED
  BY InitShapes, InitEngine, StepShapes, StepSwitches, StepEngine, <1>1, PTL DEF Spec

------------------------------------------------------------------------------
(* Edits *)

\* The tab t is the only one that has saved, and nothing has failed.
Sole(t) == savers \subseteq {t} /\ faults = 0

\* Then every save is of t, however many forms of it saved one over another; once
\* the handlers are done an answer on its way to t has read the table after the
\* last of them; and with no save left t has shown what the table says.
CaughtUp(t) ==
  /\ \A r \in requests : r.tab = t /\ r.stage # "failed"
  /\ (\A r \in requests : r.stage = "refetching") =>
       (fetch[t].stage = "served" => fetch[t].table = table)
  /\ requests = {} => saved[t] = table

SoleSaverInv == \A t \in Tabs : Sole(t) => CaughtUp(t)

LEMMA StepSole ==
  ASSUME Shapes, SoleSaverInv, Next, NEW t \in Tabs, Sole(t)'
  PROVE  CaughtUp(t)'
<1>. USE DEF serverVars, tabVars, ghostVars, bounds, Move, Fault
<1>0. faults \in Nat
  BY DEF Shapes
<1>1. ASSUME faults' = faults + 1 PROVE FALSE
  BY <1>0, <1>1 DEF Sole
<1>2. ASSUME savers' = savers, faults' = faults PROVE CaughtUp(t)
  BY <1>2 DEF Sole, SoleSaverInv
<1>3. ASSUME UNCHANGED <<table, saved, requests, savers, faults>>,
             fetch'[t] = fetch[t] \/ fetch'[t].stage # "served" \/ fetch'[t].table = table
      PROVE  CaughtUp(t)'
  BY <1>2, <1>3 DEF CaughtUp
<1>4. ASSUME NEW u \in Tabs, NEW k \in Keys, NEW v \in Values, Set(u, k, v) PROVE CaughtUp(t)'
  BY <1>3, <1>4 DEF Set
<1>5. ASSUME NEW u \in Tabs, Save(u) PROVE CaughtUp(t)'
  <2>. DEFINE q == [tab |-> u, mount |-> mount[u], map |-> form[u], stage |-> "write",
                    left |-> {k \in Keys : form[u][k] # Absent}]
  <2>1. q.tab = u /\ q.stage = "write"
    OBVIOUS
  <2>2. requests' = requests \cup {q} /\ savers' = savers \cup {u} /\ faults' = faults
    BY <1>5 DEF Save, HandleSave
  <2>. HIDE DEF q
  <2>3. u = t /\ Sole(t)
    BY <2>2 DEF Sole
  <2>4. \A r \in requests : r.tab = t /\ r.stage # "failed"
    BY <2>3 DEF SoleSaverInv, CaughtUp
  <2>. QED
    BY <2>1, <2>2, <2>3, <2>4 DEF CaughtUp
<1>6. ASSUME NEW u \in Tabs, Remount(u) \/ Refetch(u) PROVE CaughtUp(t)'
  <2>1. fetch' = fetch \/ fetch' = [fetch EXCEPT ![u] = Asked]
    BY <1>6 DEF Remount, Refetch
  <2>2. fetch'[t] = fetch[t] \/ fetch'[t].stage # "served"
    BY <2>1 DEF Shapes, Asked
  <2>. QED
    BY <1>3, <1>6, <2>2 DEF Remount, Refetch
<1>7. ASSUME NEW u \in Tabs, GetSettings(u) PROVE CaughtUp(t)'
  <2>1. fetch'[t] = fetch[t] \/ fetch'[t].table = table
    BY <1>7 DEF GetSettings, Shapes
  <2>. QED
    BY <1>3, <1>7, <2>1 DEF GetSettings
<1>8. ASSUME NEW u \in Tabs, FetchLands(u) PROVE CaughtUp(t)'
  <2>1. /\ requests' = requests \ Settled(u) /\ fetch[u].stage = "served"
        /\ UNCHANGED <<table, savers, faults>>
    BY <1>8 DEF FetchLands
  <2>2. CaughtUp(t)
    BY <1>2, <2>1
  <2>3. CASE u = t
    <3>1. saved'[t] = fetch[t].table /\ fetch'[t].stage = "none"
      BY <1>8, <2>3 DEF FetchLands, Lands, Shapes, NoFetch
    <3>2. requests' = {} => \A r \in requests : r.stage = "refetching"
      BY <2>1 DEF Settled
    <3>. QED
      BY <2>1, <2>2, <2>3, <3>1, <3>2 DEF CaughtUp
  <2>4. CASE u # t
    <3>1. requests' = requests
      BY <2>1, <2>2, <2>4 DEF CaughtUp, Settled
    <3>2. saved'[t] = saved[t] /\ fetch'[t] = fetch[t]
      BY <1>8, <2>4 DEF FetchLands, Lands, Shapes
    <3>. QED
      BY <2>1, <2>2, <3>1, <3>2 DEF CaughtUp
  <2>. QED
    BY <2>3, <2>4
<1>9. ASSUME NEW u \in Tabs, FetchFails(u) PROVE CaughtUp(t)'
  BY <1>1, <1>9 DEF FetchFails
<1>10. ASSUME NEW r \in requests, WriteKey(r) \/ ApplyKey(r) PROVE CaughtUp(t)'
  <2>1. PICK q \in Request :
          /\ requests' = (requests \ {r}) \cup {q}
          /\ q.tab = r.tab /\ q.stage \in {"write", "apply", "ok"}
    BY <1>10, WriteKeyRequest, ApplyKeyRequest
  <2>2. CaughtUp(t)
    BY <1>2, <1>10 DEF WriteKey, ApplyKey
  <2>. QED
    BY <2>1, <2>2 DEF CaughtUp
<1>11. ASSUME NEW r \in requests, WriteFails(r) \/ AnswerLost(r) PROVE CaughtUp(t)'
  BY <1>1, <1>11 DEF WriteFails, AnswerLost
<1>12. ASSUME NEW r \in requests, Answer(r) PROVE CaughtUp(t)'
  <2>1. UNCHANGED <<table, saved, savers, faults>>
    BY <1>12 DEF Answer
  <2>2. CaughtUp(t)
    BY <1>2, <2>1
  <2>3. r.tab = t /\ r.stage # "failed"
    BY <2>2 DEF CaughtUp
  <2>4. Answered(r)
    BY <1>12, <2>3 DEF Answer
  <2>5. "refetching" \in Stages /\ requests' = Send(r, "refetching")
    BY <2>4 DEF Stages, Answered
  <2>6. PICK q \in Request :
          requests' = (requests \ {r}) \cup {q} /\ q.tab = r.tab /\ q.stage = "refetching"
    BY <2>5, SendRequest
  <2>7. fetch'[t].stage # "served"
    BY <2>3, <2>4 DEF Answered, Shapes, Asked
  <2>. QED
    BY <2>2, <2>3, <2>6, <2>7 DEF CaughtUp
<1>13. CASE Restart
  BY <1>1, <1>13 DEF Restart
<1>. QED
  BY <1>4, <1>5, <1>6, <1>7, <1>8, <1>9, <1>10, <1>11, <1>12, <1>13 DEF Next

\* What is typed outlives every refetch while no save of the tab is under way: the
\* fetch that lands then was served after the last save of the tab had stored its
\* keys, and the form was filled from the same table.  That a save waits for the
\* fetch it asks for, and cancels the one before, is what the invariant rests on.
THEOREM EditsSurvive == Spec => EditsSurviveRefetch
<1>1. Init => SoleSaverInv
  BY DEF Init, SoleSaverInv, CaughtUp, NoFetch
<1>2. Shapes /\ SoleSaverInv /\ [Next]_vars => SoleSaverInv'
  <2>. SUFFICES ASSUME Shapes, SoleSaverInv, [Next]_vars PROVE SoleSaverInv'
    OBVIOUS
  <2>1. CASE Next
    BY <2>1, StepSole DEF SoleSaverInv
  <2>2. CASE UNCHANGED vars
    BY <2>2 DEF vars, serverVars, tabVars, ghostVars, bounds, SoleSaverInv, Sole, CaughtUp
  <2>. QED
    BY <2>1, <2>2
<1>3. Shapes /\ SoleSaverInv /\ [Next]_vars =>
        [\A t \in Tabs :
           /\ savers' \subseteq {t} /\ faults' = 0
           /\ moves' = moves
           /\ \A r \in requests : r.tab # t
           => form'[t] = form[t]]_vars
  <2>. SUFFICES ASSUME Shapes, SoleSaverInv, Next, NEW t \in Tabs, savers' \subseteq {t},
                       faults' = 0, moves' = moves, \A r \in requests : r.tab # t
                PROVE  form'[t] = form[t]
    OBVIOUS
  <2>. USE DEF tabVars, ghostVars, bounds, Move, Fault
  <2>0. moves # moves + 1
    BY DEF Shapes
  <2>1. ASSUME NEW u \in Tabs, NEW k \in Keys, NEW v \in Values, Set(u, k, v) PROVE FALSE
    BY <2>0, <2>1 DEF Set
  <2>2. ASSUME NEW u \in Tabs, Remount(u) PROVE FALSE
    BY <2>0, <2>2 DEF Remount
  <2>3. ASSUME NEW u \in Tabs, FetchLands(u) PROVE form'[t] = form[t]
    <3>1. Sole(t)
      BY <2>3 DEF FetchLands, Sole
    <3>2. requests = {} /\ saved[t] = table /\ (fetch[t].stage = "served" => fetch[t].table = table)
      BY <3>1 DEF SoleSaverInv, CaughtUp
    <3>. QED
      BY <2>3, <3>2 DEF FetchLands, Lands, Shapes
  <2>4. ASSUME NEW u \in Tabs, Save(u) \/ Refetch(u) \/ GetSettings(u) \/ FetchFails(u)
        PROVE  form'[t] = form[t]
    BY <2>4 DEF Save, Refetch, GetSettings, FetchFails
  <2>5. ASSUME NEW r \in requests,
               WriteKey(r) \/ WriteFails(r) \/ ApplyKey(r) \/ AnswerLost(r) \/ Answer(r)
        PROVE  form'[t] = form[t]
    BY <2>5 DEF WriteKey, WriteFails, ApplyKey, AnswerLost, Answer
  <2>6. CASE Restart
    BY <2>6 DEF Restart
  <2>. QED
    BY <2>1, <2>2, <2>3, <2>4, <2>5, <2>6 DEF Next
<1>. QED
  BY InitShapes, StepShapes, <1>1, <1>2, <1>3, PTL DEF Spec, EditsSurviveRefetch

------------------------------------------------------------------------------
(* Saves *)

\* What a form holds was fetched last, or typed in this tab.
FormInv == \A t \in Tabs, k \in Keys : form[t][k] \in {saved[t][k], typed[t][k]}

LEMMA StepForm == Shapes /\ FormInv /\ [Next]_vars => FormInv'
<1>. SUFFICES ASSUME Shapes, FormInv, [Next]_vars PROVE FormInv'
  OBVIOUS
<1>. USE DEF tabVars, ghostVars
<1>1. UNCHANGED <<form, saved, typed>> => FormInv'
  BY DEF FormInv
<1>2. ASSUME NEW t \in Tabs, NEW k \in Keys, NEW v \in Values, Set(t, k, v) PROVE FormInv'
  BY <1>2 DEF Set, FormInv, Shapes, Maps
<1>3. ASSUME NEW t \in Tabs, Remount(t) PROVE FormInv'
  BY <1>3 DEF Remount, FormInv, Shapes
<1>4. ASSUME NEW t \in Tabs, FetchLands(t) PROVE FormInv'
  BY <1>4 DEF FetchLands, Lands, FormInv, Shapes
<1>5. ASSUME NEW t \in Tabs, Save(t) \/ Refetch(t) \/ GetSettings(t) \/ FetchFails(t)
      PROVE  FormInv'
  BY <1>1, <1>5 DEF Save, Refetch, GetSettings, FetchFails
<1>6. ASSUME NEW r \in requests,
             WriteKey(r) \/ WriteFails(r) \/ ApplyKey(r) \/ AnswerLost(r) \/ Answer(r)
      PROVE  FormInv'
  BY <1>1, <1>6 DEF WriteKey, WriteFails, ApplyKey, AnswerLost, Answer
<1>7. CASE Restart \/ UNCHANGED vars
  BY <1>1, <1>7 DEF Restart, vars
<1>. QED
  BY <1>2, <1>3, <1>4, <1>5, <1>6, <1>7 DEF Next

\* The tab t has shown what the table says, or waits to be told.
UpToDate(t) ==
  /\ requests = {} => saved[t] = table
  /\ requests = {} \/ (\E r \in requests : r.stage = "refetching") =>
       (fetch[t].stage = "served" => fetch[t].table = table)

\* Without faults and with one tab that saves, and waits, that tab is up to date.
OneSaverInv ==
  /\ IsFiniteSet(savers) /\ savers \subseteq Tabs
  /\ faults = 0 /\ ~mixed =>
       /\ \A r \in requests : r.tab \in savers /\ r.stage # "failed"
       /\ \A t \in Tabs : savers \subseteq {t} => UpToDate(t)

LEMMA StepOneSaver == Shapes /\ Switches /\ EngineInv /\ OneSaverInv /\ [Next]_vars => OneSaverInv'
<1>. SUFFICES ASSUME Shapes, Switches, EngineInv, OneSaverInv, [Next]_vars PROVE OneSaverInv'
  OBVIOUS
<1>. USE DEF serverVars, tabVars, ghostVars, bounds, Move, Fault
<1>0. faults \in Nat
  BY DEF Shapes
<1>1. IsFiniteSet(savers') /\ savers' \subseteq Tabs
  <2>1. \/ savers' = savers
        \/ \E t \in Tabs : savers' = savers \cup {t}
    BY DEF Next, Set, Save, Remount, Refetch, GetSettings, FetchLands, FetchFails, WriteKey,
           WriteFails, ApplyKey, AnswerLost, Answer, Restart, vars
  <2>. QED
    BY <2>1, FS_AddElement DEF OneSaverInv
<1>2. ASSUME faults' = faults + 1 PROVE OneSaverInv'
  BY <1>0, <1>1, <1>2 DEF OneSaverInv
<1>3. ASSUME UNCHANGED <<table, saved, fetch, requests, savers, mixed, faults>> PROVE OneSaverInv'
  BY <1>1, <1>3 DEF OneSaverInv, UpToDate
<1>4. ASSUME NEW t \in Tabs, NEW k \in Keys, NEW v \in Values, Set(t, k, v) PROVE OneSaverInv'
  BY <1>3, <1>4 DEF Set
<1>5. ASSUME NEW t \in Tabs, Save(t) PROVE OneSaverInv'
  <2>1. mixed' = FALSE => requests = {} /\ mixed = FALSE
    BY <1>5 DEF Save, Switches
  <2>. DEFINE q == [tab |-> t, mount |-> mount[t], map |-> form[t], stage |-> "write",
                    left |-> {k \in Keys : form[t][k] # Absent}]
  <2>2. q.tab = t /\ q.stage = "write"
    OBVIOUS
  <2>3. requests' = requests \cup {q} /\ savers' = savers \cup {t}
    BY <1>5 DEF Save, HandleSave
  <2>. HIDE DEF q
  <2>4. mixed' \in BOOLEAN
    BY <1>5 DEF Save, Switches
  <2>. QED
    BY <1>1, <2>1, <2>2, <2>3, <2>4 DEF OneSaverInv, UpToDate
<1>6. ASSUME NEW t \in Tabs, Remount(t) PROVE OneSaverInv'
  <2>1. \/ fetch' = fetch \/ fetch' = [fetch EXCEPT ![t] = Asked]
    BY <1>6 DEF Remount
  <2>2. UNCHANGED <<table, saved, requests, savers, mixed, faults>>
    BY <1>6 DEF Remount
  <2>3. \A u \in Tabs : fetch'[u].stage = "served" => fetch'[u] = fetch[u]
    BY <2>1 DEF Shapes, Asked
  <2>. QED
    BY <1>1, <2>2, <2>3 DEF OneSaverInv, UpToDate
<1>7. ASSUME NEW t \in Tabs, Refetch(t) PROVE OneSaverInv'
  <2>1. \A u \in Tabs : fetch'[u].stage = "served" => fetch'[u] = fetch[u]
    BY <1>7 DEF Refetch, Shapes, Asked
  <2>2. UNCHANGED <<table, saved, requests, savers, mixed, faults>>
    BY <1>7 DEF Refetch
  <2>. QED
    BY <1>1, <2>1, <2>2 DEF OneSaverInv, UpToDate
<1>8. ASSUME NEW t \in Tabs, GetSettings(t) PROVE OneSaverInv'
  <2>1. \A u \in Tabs : fetch'[u] = fetch[u] \/ fetch'[u].table = table
    BY <1>8 DEF GetSettings, Shapes
  <2>2. UNCHANGED <<table, saved, requests, savers, mixed, faults>>
    BY <1>8 DEF GetSettings
  <2>. QED
    BY <1>1, <2>1, <2>2 DEF OneSaverInv, UpToDate
<1>9. ASSUME NEW t \in Tabs, FetchLands(t) PROVE OneSaverInv'
  <2>1. /\ fetch[t].stage = "served" /\ requests' = requests \ Settled(t)
        /\ UNCHANGED <<table, savers, mixed, faults>>
    BY <1>9 DEF FetchLands
  <2>2. /\ saved'[t] = fetch[t].table /\ \A u \in Tabs \ {t} : saved'[u] = saved[u]
        /\ fetch'[t].stage = "none" /\ \A u \in Tabs \ {t} : fetch'[u] = fetch[u]
    BY <1>9 DEF FetchLands, Lands, Shapes, NoFetch
  <2>. SUFFICES ASSUME faults = 0, ~mixed
                PROVE  /\ \A r \in requests' : r.tab \in savers' /\ r.stage # "failed"
                       /\ \A u \in Tabs : savers' \subseteq {u} => UpToDate(u)'
    BY <1>1, <2>1 DEF OneSaverInv
  <2>3. \A r \in requests' : r.tab \in savers' /\ r.stage # "failed"
    BY <2>1 DEF OneSaverInv
  <2>4. ASSUME NEW u \in Tabs, savers \subseteq {u}, u # t PROVE UpToDate(u)'
    <3>1. requests' = requests
      BY <2>1, <2>4 DEF OneSaverInv, Settled
    <3>. QED
      BY <2>1, <2>2, <2>4, <3>1 DEF OneSaverInv, UpToDate
  <2>5. ASSUME savers \subseteq {t} PROVE UpToDate(t)'
    <3>1. UpToDate(t)
      BY <2>5 DEF OneSaverInv
    <3>2. requests' = {} => requests = {} \/ \E r \in requests : r.stage = "refetching"
      BY <2>1 DEF Settled
    <3>. QED
      BY <2>1, <2>2, <3>1, <3>2 DEF UpToDate
  <2>. QED
    BY <2>1, <2>3, <2>4, <2>5
<1>10. ASSUME NEW t \in Tabs, FetchFails(t) PROVE OneSaverInv'
  BY <1>2, <1>10 DEF FetchFails
<1>11. ASSUME NEW r \in requests, WriteKey(r) \/ ApplyKey(r) PROVE OneSaverInv'
  <2>1. PICK q \in Request :
          /\ requests' = (requests \ {r}) \cup {q}
          /\ q.tab = r.tab /\ q.stage \in {"write", "apply", "ok"}
    BY <1>11, WriteKeyRequest, ApplyKeyRequest
  <2>2. UNCHANGED <<savers, mixed, faults>>
    BY <1>11 DEF WriteKey, ApplyKey
  <2>3. ~mixed => requests' = {q}
    BY <2>1 DEF EngineInv, Alone
  <2>. QED
    BY <1>1, <2>1, <2>2, <2>3 DEF OneSaverInv, UpToDate
<1>12. ASSUME NEW r \in requests, WriteFails(r) \/ AnswerLost(r) PROVE OneSaverInv'
  BY <1>2, <1>12 DEF WriteFails, AnswerLost
<1>13. ASSUME NEW r \in requests, Answer(r) PROVE OneSaverInv'
  <2>1. UNCHANGED <<table, saved, savers, mixed, faults>>
    BY <1>13 DEF Answer
  <2>2. CASE r.stage = "ok" /\ Answered(r)
    <3>1. "refetching" \in Stages /\ requests' = Send(r, "refetching")
      BY <2>2 DEF Stages, Answered
    <3>2. PICK q \in Request :
            requests' = (requests \ {r}) \cup {q} /\ q.tab = r.tab /\ q.stage = "refetching"
      BY <3>1, SendRequest
    <3>3. r.tab \in Tabs /\ fetch'[r.tab].stage # "served"
      BY <2>2 DEF Answered, Shapes, Request, Asked
    <3>4. ~mixed => requests' = {q}
      BY <3>2 DEF EngineInv, Alone
    <3>. QED
      BY <1>1, <2>1, <3>2, <3>3, <3>4 DEF OneSaverInv, UpToDate
  <2>3. CASE r.stage = "failed"
    BY <1>1, <1>13, <2>1, <2>3 DEF Answer, OneSaverInv
  <2>. QED
    BY <1>13, <2>2, <2>3 DEF Answer
<1>14. CASE Restart
  BY <1>2, <1>14 DEF Restart
<1>15. CASE UNCHANGED vars
  BY <1>3, <1>15 DEF vars
<1>. QED
  BY <1>4, <1>5, <1>6, <1>7, <1>8, <1>9, <1>10, <1>11, <1>12, <1>13, <1>14, <1>15 DEF Next

LEMMA InitSavers == Init => FormInv /\ OneSaverInv
BY FS_EmptySet DEF Init, FormInv, OneSaverInv, UpToDate, NoFetch

\* While saves are not mixed, only a save makes the requests more.
LEMMA OthersDoNotGrow ==
  ASSUME Shapes, EngineInv, ~mixed, Next, \A t \in Tabs : ~Save(t),
         NEW r \in requests' \ requests
  PROVE  Cardinality(requests') = Cardinality(requests)
<1>1. \A p, q \in requests : p = q
  BY DEF EngineInv, Alone
<1>2. ASSUME requests' \subseteq requests PROVE FALSE
  BY <1>2
<1>3. ASSUME NEW p \in requests, NEW q, requests' = (requests \ {p}) \cup {q}
      PROVE  requests = {p} /\ requests' = {q}
  BY <1>1, <1>3
<1>4. \E p \in requests : \E q : requests' = (requests \ {p}) \cup {q}
  <2>1. ASSUME NEW p \in requests, WriteKey(p) \/ ApplyKey(p)
        PROVE  \E q : requests' = (requests \ {p}) \cup {q}
    BY <2>1, WriteKeyRequest, ApplyKeyRequest
  <2>2. ASSUME NEW p \in requests, WriteFails(p) \/ AnswerLost(p)
        PROVE  \E q : requests' = (requests \ {p}) \cup {q}
    BY <2>2 DEF WriteFails, AnswerLost, Send
  <2>3. ASSUME NEW p \in requests, Answer(p)
        PROVE  \E q : requests' = (requests \ {p}) \cup {q}
    BY <1>2, <2>3 DEF Answer, Answered, Send
  <2>4. ASSUME Restart PROVE \E p \in requests : \E q : requests' = (requests \ {p}) \cup {q}
    <3>. DEFINE Cut(p) == IF p.stage \in {"write", "apply"} THEN [p EXCEPT !.stage = "failed"] ELSE p
    <3>1. requests' = {Cut(p) : p \in requests}
      BY <2>4 DEF Restart
    <3>. HIDE DEF Cut
    <3>2. PICK p \in requests : r = Cut(p)
      BY <3>1
    <3>3. requests' = (requests \ {p}) \cup {Cut(p)}
      BY <1>1, <3>1
    <3>. QED
      BY <3>3
  <2>5. ASSUME NEW t \in Tabs, FetchLands(t) \/ FetchFails(t) PROVE FALSE
    BY <1>2, <2>5 DEF FetchLands, FetchFails
  <2>6. ASSUME NEW t \in Tabs, Remount(t) \/ Refetch(t) \/ GetSettings(t) PROVE FALSE
    BY <1>2, <2>6 DEF Remount, Refetch, GetSettings
  <2>7. ASSUME NEW t \in Tabs, NEW k \in Keys, NEW v \in Values, Set(t, k, v) PROVE FALSE
    BY <1>2, <2>7 DEF Set
  <2>. QED
    BY <2>1, <2>2, <2>3, <2>4, <2>5, <2>6, <2>7 DEF Next
<1>. QED
  BY <1>3, <1>4, FS_Singleton

\* A tab that is alone in saving, and waits for its saves, puts nothing back:
\* by the time it may save again its form has caught up with the table, but
\* for what was typed in it.
THEOREM SavesTyped == Spec => SavesOnlyWhatWasTyped
<1>1. Shapes /\ Switches /\ EngineInv /\ FormInv /\ OneSaverInv /\ [Next]_vars =>
        [~mixed' /\ Cardinality(savers') = 1 /\ faults = 0 =>
           \A r \in requests' \ requests : Cardinality(requests') > Cardinality(requests) =>
             \A k \in Keys : r.map[k] \in {Absent, table[k], typed[r.tab][k]}]_vars
  <2>. SUFFICES ASSUME Shapes, Switches, EngineInv, FormInv, OneSaverInv, Next,
                       ~mixed', Cardinality(savers') = 1, faults = 0,
                       NEW r \in requests' \ requests,
                       Cardinality(requests') > Cardinality(requests), NEW k \in Keys
                PROVE  r.map[k] \in {Absent, table[k], typed[r.tab][k]}
    OBVIOUS
  <2>1. ~mixed
    BY DEF Next, Set, Save, Remount, Refetch, GetSettings, FetchLands, FetchFails, WriteKey,
           WriteFails, ApplyKey, AnswerLost, Answer, Restart, ghostVars, Switches
  <2>2. PICK t \in Tabs : Save(t)
    <3>. SUFFICES ASSUME \A t \in Tabs : ~Save(t) PROVE FALSE
      OBVIOUS
    <3>1. Cardinality(requests') = Cardinality(requests)
      BY <2>1, OthersDoNotGrow
    <3>2. IsFiniteSet(requests) /\ Cardinality(requests) \in Nat
      <4>1. CASE requests = {}
        <5>1. IsFiniteSet({}) /\ Cardinality({}) = 0
          BY FS_EmptySet
        <5>. QED
          BY <4>1, <5>1
      <4>2. CASE requests # {}
        <5>1. PICK p \in requests : TRUE
          BY <4>2
        <5>2. requests = {p}
          BY <2>1, <5>1 DEF EngineInv, Alone
        <5>3. IsFiniteSet({p}) /\ Cardinality({p}) = 1
          BY FS_Singleton
        <5>. QED
          BY <5>2, <5>3
      <4>. QED
        BY <4>1, <4>2
    <3>. QED
      BY <3>1, <3>2
  <2>3. requests = {}
    BY <2>2 DEF Save, Switches
  <2>4. r.tab = t /\ r.map = form[t]
    BY <2>2 DEF Save, HandleSave
  <2>5. savers' = savers \cup {t}
    BY <2>2 DEF Save
  <2>6. savers \subseteq {t}
    <3>1. IsFiniteSet(savers')
      BY <2>5, FS_AddElement DEF OneSaverInv
    <3>2. \E x : savers' = {x}
      BY <3>1, FS_Singleton
    <3>. QED
      BY <2>5, <3>2
  <2>7. saved[t] = table
    BY <2>1, <2>3, <2>6 DEF OneSaverInv, UpToDate
  <2>8. form[t][k] \in {saved[t][k], typed[t][k]}
    BY DEF FormInv
  <2>. QED
    BY <2>4, <2>7, <2>8
<1>. QED
  BY InitShapes, InitEngine, InitSavers, StepShapes, StepSwitches, StepEngine, StepForm,
     StepOneSaver, <1>1, PTL DEF Spec, SavesOnlyWhatWasTyped
==============================================================================
