------------------------- MODULE DiagnosticsProofs -------------------------
(***************************************************************************)
(* Whatever hashes there are, and with any number of clean-ups, adds,      *)
(* removes and restarts under way: no torrent in memory loses its row to a *)
(* clean-up that looked at it while it was in memory, and a card has at    *)
(* most one clean-up under way and no state while it is not on the page.   *)
(***************************************************************************)
EXTENDS Diagnostics, FiniteSetTheorems, TLAPS

\* A row that a clean-up is about to delete belongs to no torrent in memory but
\* to those that came back behind its last check.
CheckedInv ==
  \A r \in requests : r.stage = "confirmed" => \A h \in r.hashes \cap live : h \in back

\* What is on its way has the type of what it will become, and the cards that
\* asked for clean-ups are this one or earlier ones.
OnItsWay ==
  /\ \/ sumFetch \in {NoFetch, Asked} \cup {Data(n) : n \in 0..Cardinality(Hashes)}
     \/ sumFetch.is = "looking"
  /\ \/ detFetch \in {NoFetch, Asked} \/ detFetch.is = "looking"
     \/ detFetch.is = "served" /\ detFetch.rows \subseteq Hashes
  /\ \A r \in requests : r.card <= card

IInv == TypeOK /\ OnItsWay /\ LiveHasRow /\ CheckedInv

LEMMA CountsRows ==
  ASSUME TypeOK, NEW L PROVE Cardinality(rows \ L) \in 0..Cardinality(Hashes)
<1>1. rows \ L \subseteq Hashes
  BY DEF TypeOK
<1> QED
  BY <1>1, HashesAssumption, FS_Subset, FS_CardinalityType

LEMMA InitIInv == Init => IInv
<1> SUFFICES ASSUME Init PROVE IInv
  OBVIOUS
<1>1. hardDelete \in BOOLEAN
  BY DEF Init
<1>2. ~open /\ ~confirmOpen /\ ~hardDelete /\ selected = {}
  BY DEF Init
<1>3. /\ requests = {} /\ rows = FirstLive \cup FirstOrphans /\ removed = {} /\ live = FirstLive
      /\ saving = {} /\ deleting = {}
      /\ summary = Loading /\ detail = NoData /\ card = 0 /\ sumFetch = Asked /\ detFetch = NoFetch
  BY DEF Init
<1> QED
  BY <1>1, <1>2, <1>3, HashesAssumption DEF IInv, TypeOK, OnItsWay, LiveHasRow, CheckedInv

\* What a step of one request does to the requests.
LEMMA StepOfRequest ==
  ASSUME NEW r \in requests, IInv,
         NEW stage \in {"sent", "looking", "detected", "confirmed", "ok", "failed"},
         NEW hashes \in SUBSET Hashes,
         Step(r, stage, hashes), UNCHANGED card
  PROVE  /\ requests' \subseteq Request
         /\ \A p, q \in requests' : p.card = q.card => p = q
         /\ \A q \in requests' : q.card <= card'
         /\ \A q \in requests' : q \in requests \/ (q.stage = stage /\ q.hashes = hashes)
<1> DEFINE new == [r EXCEPT !.stage = stage, !.hashes = hashes]
<1>1. requests' = (requests \ {r}) \cup {new}
  BY DEF Step
<1>2. requests \subseteq Request /\ \A p, q \in requests : p.card = q.card => p = q
  BY DEF IInv, TypeOK
<1>3. new \in Request /\ new.card = r.card /\ new.stage = stage /\ new.hashes = hashes
  BY <1>2 DEF Request
<1> HIDE DEF new
<1>4. \A q \in requests : q.card <= card
  BY DEF IInv, OnItsWay
<1> QED
  BY <1>1, <1>2, <1>3, <1>4

\* The requests after a step are typed, one for each card, and checked.
RequestsInv ==
  /\ requests \subseteq Request
  /\ \A r, q \in requests : r.card = q.card => r = q
  /\ \A r \in requests : r.card <= card
  /\ CheckedInv

\* The tables and the session's map.
TablesInv ==
  /\ rows \subseteq Hashes /\ removed \subseteq Hashes /\ live \subseteq Hashes
  /\ saving \subseteq live /\ deleting \cap live = {}
  /\ LiveHasRow

\* The page.
PageInv ==
  /\ summary \in {Loading, Failed} \cup {Data(n) : n \in 0..Cardinality(Hashes)}
  /\ \/ sumFetch \in {NoFetch, Asked} \cup {Data(n) : n \in 0..Cardinality(Hashes)}
     \/ sumFetch.is = "looking"
  /\ detail = NoData \/ detail \subseteq Hashes
  /\ \/ detFetch \in {NoFetch, Asked} \/ detFetch.is = "looking"
     \/ detFetch.is = "served" /\ detFetch.rows \subseteq Hashes
  /\ card \in Nat /\ selected \subseteq Hashes /\ hardDelete \in BOOLEAN
  /\ ~Mounted => ~open /\ ~confirmOpen /\ ~hardDelete /\ selected = {}

LEMMA InvInParts == IInv <=> RequestsInv /\ TablesInv /\ PageInv
  BY DEF IInv, TypeOK, OnItsWay, RequestsInv, TablesInv, PageInv

LEMMA TablesStep == IInv /\ [Next]_vars => TablesInv'
<1> SUFFICES ASSUME IInv, [Next]_vars PROVE TablesInv'
  OBVIOUS
<1>0. TablesInv /\ CheckedInv /\ requests \subseteq Request
  BY InvInParts DEF RequestsInv
<1> USE DEF TablesInv, LiveHasRow
<1>1. ASSUME NEW h \in Hashes, Add(h) PROVE TablesInv'
  BY <1>0, <1>1 DEF Add, tableVars
<1>2. ASSUME NEW h \in Hashes, PersistTorrent(h) PROVE TablesInv'
  BY <1>0, <1>2 DEF PersistTorrent, exceptions
<1>3. ASSUME NEW h \in Hashes, Remove(h) PROVE TablesInv'
  BY <1>0, <1>3 DEF Remove, tableVars, exceptions
<1>4. ASSUME NEW h \in Hashes,
             PersistTorrentFails(h) \/ DeleteTorrent(h) \/ DeleteTorrentFails(h)
      PROVE  TablesInv'
  BY <1>0, <1>4 DEF PersistTorrentFails, DeleteTorrent, DeleteTorrentFails, tableVars, exceptions
<1>5. ASSUME Restart PROVE TablesInv'
  BY <1>0, <1>5 DEF Restart, tableVars, exceptions
<1>6. ASSUME NEW r \in requests, Delete(r) PROVE TablesInv'
  <2>1. CASE Refused(r)
    BY <1>0, <1>6, <2>1 DEF Delete, tableVars, sessionVars, exceptions
  <2>2. CASE ~Refused(r)
    BY <1>0, <1>6, <2>2 DEF Delete, sessionVars, CheckedInv, exceptions
  <2> QED
    BY <2>1, <2>2
<1>7. ASSUME UNCHANGED <<tableVars, sessionVars, exceptions>> PROVE TablesInv'
  BY <1>0, <1>7 DEF tableVars, sessionVars, exceptions
<1>8. ASSUME NEW r \in requests,
             Detect(r) \/ DetectRows(r) \/ ReconfirmStep(r) \/ CleanupFails(r) \/ Answered(r)
      PROVE  UNCHANGED <<tableVars, sessionVars, exceptions>>
  BY <1>8 DEF Detect, DetectRows, ReconfirmStep, CleanupFails, Answered, CleanedUp, CleanUpFailed
<1>9. ASSUME \/ Listing \/ SkipDetection \/ SummaryFails \/ Detailing \/ DetailFails \/ ConfirmStep
      PROVE  UNCHANGED <<tableVars, sessionVars, exceptions>>
  BY <1>9 DEF Listing, Poll, LookSummary, ServeSummary, SkipDetection, SummaryLands, SummaryFails,
     Detailing, LookDetail, ServeDetail, DetailLands, DetailFails, ConfirmStep
<1>10. ASSUME \/ ToggleOpen \/ ToggleAll \/ ClearSelection \/ CleanUp \/ TickHardDelete \/ Cancel
              \/ \E h \in Hashes : ToggleRow(h) \/ TrashRow(h)
       PROVE  UNCHANGED <<tableVars, sessionVars, exceptions>>
  BY <1>10 DEF ToggleOpen, ToggleAll, ClearSelection, CleanUp, TickHardDelete, Cancel, ToggleRow,
     TrashRow, AtCard, AtTable, AtDialog
<1>11. ASSUME UNCHANGED vars PROVE UNCHANGED <<tableVars, sessionVars, exceptions>>
  BY <1>11 DEF vars
<1> QED
  BY <1>1, <1>2, <1>3, <1>4, <1>5, <1>6, <1>7, <1>8, <1>9, <1>10, <1>11 DEF Next, Server

LEMMA RequestsStep == IInv /\ [Next]_vars => RequestsInv'
<1> SUFFICES ASSUME IInv, [Next]_vars PROVE RequestsInv'
  OBVIOUS
<1>0. RequestsInv /\ TablesInv /\ PageInv
  BY InvInParts
<1> USE DEF RequestsInv, CheckedInv
<1>1. ASSUME NEW h \in Hashes, Add(h) PROVE RequestsInv'
  BY <1>0, <1>1 DEF Add, Behind, cardVars
<1>2. ASSUME NEW h \in Hashes, \/ PersistTorrent(h) \/ PersistTorrentFails(h) \/ Remove(h)
                               \/ DeleteTorrent(h) \/ DeleteTorrentFails(h)
      PROVE  RequestsInv'
  BY <1>0, <1>2 DEF PersistTorrent, PersistTorrentFails, Remove, DeleteTorrent,
     DeleteTorrentFails, cardVars, exceptions
<1>3. ASSUME Restart PROVE RequestsInv'
  <2>1. \A q \in requests' : \E r \in requests :
          q \in Request /\ q.card = r.card /\ q.stage # "confirmed"
            /\ q = [r EXCEPT !.stage = IF @ = "ok" THEN @ ELSE "failed"]
    BY <1>0, <1>3 DEF Restart, Request
  <2> QED
    BY <1>0, <1>3, <2>1 DEF Restart, cardVars, exceptions
<1>4. ASSUME NEW r \in requests, Detect(r) \/ DetectRows(r) \/ CleanupFails(r) PROVE RequestsInv'
  <2>1. r.hashes \in SUBSET Hashes
    BY <1>0 DEF Request
  <2>2. /\ UNCHANGED <<card, live, back>>
        /\ \E H \in SUBSET Hashes, st \in {"looking", "detected", "ok", "failed"} : Step(r, st, H)
    <3>1. CASE Detect(r)
      BY <2>1, <3>1 DEF Detect, sessionVars, cardVars, exceptions
    <3>2. CASE DetectRows(r)
      <4>1. r.hashes \cap rows \in SUBSET Hashes
        BY <2>1
      <4> QED
        BY <3>2, <4>1 DEF DetectRows, sessionVars, cardVars, exceptions
    <3>3. CASE CleanupFails(r)
      BY <2>1, <3>3 DEF CleanupFails, sessionVars, cardVars, exceptions
    <3> QED
      BY <1>4, <3>1, <3>2, <3>3
  <2>3. PICK H \in SUBSET Hashes, st \in {"looking", "detected", "ok", "failed"} : Step(r, st, H)
    BY <2>2
  <2> QED
    BY <1>0, <2>2, <2>3, StepOfRequest
<1>5. ASSUME NEW r \in requests, ReconfirmStep(r) PROVE RequestsInv'
  <2>1. r.hashes \ live \in SUBSET Hashes
    BY <1>0 DEF Request
  <2> QED
    BY <1>0, <1>5, <2>1, StepOfRequest DEF ReconfirmStep, Reconfirm, sessionVars, cardVars, exceptions
<1>6. ASSUME NEW r \in requests, Delete(r) PROVE RequestsInv'
  <2>1. r.hashes \in SUBSET Hashes
    BY <1>0 DEF Request
  <2>2. \E s \in {"failed", "ok"} : Step(r, s, r.hashes)
    BY <1>6 DEF Delete
  <2> QED
    BY <1>0, <1>6, <2>1, <2>2, StepOfRequest DEF Delete, sessionVars, cardVars, exceptions
<1>7. ASSUME ConfirmStep PROVE RequestsInv'
  <2> DEFINE new == [card |-> card, all |-> selected = {}, hashes |-> selected,
                     hard |-> hardDelete, stage |-> "sent"]
  <2>1. requests' = requests \cup {new} /\ UNCHANGED <<card, live, back>>
    BY <1>7 DEF ConfirmStep, Confirm, sessionVars, cardVars, exceptions
  <2>2. new.card = card /\ new.stage = "sent" /\ card \in Nat
    BY <1>0 DEF PageInv
  <2>3. hardDelete \in BOOLEAN
    BY DEF IInv, TypeOK
  <2>4. new \in Request
    BY <1>0, <2>3 DEF PageInv, Request
  <2>5. \A q \in requests : q.card # card
    BY <1>7 DEF ConfirmStep, Confirm, Pending
  <2> HIDE DEF new
  <2> QED
    BY <1>0, <2>1, <2>2, <2>4, <2>5
<1>8. ASSUME NEW r \in requests, Answered(r) PROVE RequestsInv'
  BY <1>0, <1>8 DEF Answered, CleanedUp, CleanUpFailed, sessionVars, cardVars, exceptions
<1>9. ASSUME card' \in {card, card + 1}, UNCHANGED <<requests, live, back>> PROVE RequestsInv'
  BY <1>0, <1>9 DEF PageInv, Request
<1>10. ASSUME Listing \/ SkipDetection \/ SummaryFails \/ Detailing \/ DetailFails
       PROVE  card' \in {card, card + 1} /\ UNCHANGED <<requests, live, back>>
  BY <1>10 DEF Listing, Poll, LookSummary, ServeSummary, SkipDetection, SummaryLands, SummaryFails,
     Detailing, LookDetail, ServeDetail, DetailLands, DetailFails, Unmount, sessionVars, cardVars,
     exceptions
<1>11. ASSUME \/ ToggleOpen \/ ToggleAll \/ ClearSelection \/ CleanUp \/ TickHardDelete \/ Cancel
              \/ \E h \in Hashes : ToggleRow(h) \/ TrashRow(h)
       PROVE  card' \in {card, card + 1} /\ UNCHANGED <<requests, live, back>>
  BY <1>11 DEF ToggleOpen, ToggleAll, ClearSelection, CleanUp, TickHardDelete, Cancel, ToggleRow,
     TrashRow, AtCard, AtTable, AtDialog, sessionVars, exceptions
<1>12. ASSUME UNCHANGED vars
       PROVE  card' \in {card, card + 1} /\ UNCHANGED <<requests, live, back>>
  BY <1>12 DEF vars, sessionVars, cardVars, exceptions
<1> QED
  BY <1>1, <1>2, <1>3, <1>4, <1>5, <1>6, <1>7, <1>8, <1>9, <1>10, <1>11, <1>12
  DEF Next, Server

LEMMA PageStep == IInv /\ [Next]_vars => PageInv'
<1> SUFFICES ASSUME IInv, [Next]_vars PROVE PageInv'
  OBVIOUS
<1>0. PageInv /\ TablesInv /\ TypeOK
  BY InvInParts DEF IInv
<1>1. ASSUME UNCHANGED <<sumVars, detVars, cardVars>> PROVE PageInv'
  BY <1>0, <1>1 DEF PageInv, sumVars, detVars, cardVars, Mounted
<1>2. ASSUME Listing \/ SkipDetection \/ SummaryFails PROVE PageInv'
  <2>1. CASE Poll \/ LookSummary \/ ServeSummary \/ SkipDetection
    <3>1. 0 \in 0..Cardinality(Hashes) /\ Cardinality(rows \ sumFetch.live) \in 0..Cardinality(Hashes)
      BY <1>0, CountsRows, HashesAssumption, FS_CardinalityType
    <3>2. \/ sumFetch' \in {Asked} \cup {Data(n) : n \in 0..Cardinality(Hashes)}
          \/ sumFetch'.is = "looking"
      BY <2>1, <3>1 DEF Poll, LookSummary, ServeSummary, SkipDetection, Looking
    <3>3. UNCHANGED <<summary, detVars, cardVars>>
      BY <2>1 DEF Poll, LookSummary, ServeSummary, SkipDetection
    <3> QED
      BY <1>0, <3>2, <3>3 DEF PageInv, detVars, cardVars, Mounted
  <2>2. CASE SummaryLands \/ SummaryFails
    <3>1. summary' \in {Failed} \cup {Data(n) : n \in 0..Cardinality(Hashes)}
      BY <1>0, <2>2 DEF SummaryLands, Show, SummaryFails, PageInv, NoFetch, Asked, Data
    <3>2. sumFetch' = NoFetch /\ UNCHANGED <<detail, stale, detFetch>>
      BY <2>2 DEF SummaryLands, SummaryFails, detVars
    <3>3. Unmount \/ (UNCHANGED cardVars /\ (Mounted => Mounted'))
      <4>1. CASE SummaryFails
        BY <4>1 DEF SummaryFails
      <4>2. CASE SummaryLands
        <5>1. summary' = sumFetch /\ sumFetch.is = "data"
          BY <4>2 DEF SummaryLands, Show
        <5>2. sumFetch.count \in Nat
          <6>1. PICK n \in 0..Cardinality(Hashes) : sumFetch = Data(n)
            BY <1>0, <5>1 DEF PageInv, NoFetch, Asked
          <6> QED
            BY <6>1 DEF Data
        <5>3. CASE Mounted /\ sumFetch.count = 0
          BY <4>2, <5>3 DEF SummaryLands
        <5>4. CASE ~(Mounted /\ sumFetch.count = 0)
          BY <4>2, <5>1, <5>2, <5>4 DEF SummaryLands, Mounted
        <5> QED
          BY <5>3, <5>4
      <4> QED
        BY <2>2, <4>1, <4>2
    <3>4. CASE Unmount
      <4>1. hardDelete' \in BOOLEAN
        BY <3>4 DEF Unmount
      <4>2. ~open' /\ ~confirmOpen' /\ ~hardDelete' /\ selected' = {} /\ card' = card + 1
        BY <3>4 DEF Unmount
      <4> QED
        BY <1>0, <3>1, <3>2, <4>1, <4>2 DEF PageInv
    <3>5. CASE UNCHANGED cardVars /\ (Mounted => Mounted')
      BY <1>0, <3>1, <3>2, <3>5 DEF PageInv, cardVars
    <3> QED
      BY <3>3, <3>4, <3>5
  <2> QED
    BY <1>2, <2>1, <2>2 DEF Listing
<1>3. ASSUME Detailing \/ DetailFails PROVE PageInv'
  <2>1. UNCHANGED <<sumVars, cardVars>>
    BY <1>3 DEF Detailing, LookDetail, ServeDetail, DetailLands, DetailFails
  <2>2. rows \ detFetch.live \subseteq Hashes
    BY <1>0 DEF TablesInv
  <2>3. /\ detail' = NoData \/ detail' \subseteq Hashes
        /\ \/ detFetch' \in {NoFetch, Asked} \/ detFetch'.is = "looking"
           \/ detFetch'.is = "served" /\ detFetch'.rows \subseteq Hashes
    BY <1>0, <1>3, <2>2 DEF Detailing, LookDetail, ServeDetail, DetailLands, DetailFails, PageInv,
       NoFetch, Asked, Looking
  <2> QED
    BY <1>0, <2>1, <2>3 DEF PageInv, sumVars, cardVars, Mounted
<1>4. ASSUME \/ ToggleOpen \/ ToggleAll \/ ClearSelection \/ CleanUp \/ TickHardDelete \/ Cancel
             \/ \E h \in Hashes : ToggleRow(h) \/ TrashRow(h)
      PROVE  PageInv'
  <2>1. Mounted /\ UNCHANGED <<sumVars, card, detail>>
    BY <1>4 DEF ToggleOpen, ToggleAll, ClearSelection, CleanUp, TickHardDelete, Cancel, ToggleRow,
       TrashRow, AtCard, AtTable, AtDialog, detVars
  <2>2. detFetch' \in {detFetch, Asked}
    BY <1>4 DEF ToggleOpen, ToggleAll, ClearSelection, CleanUp, TickHardDelete, Cancel, ToggleRow,
       TrashRow, AtCard, AtTable, AtDialog, detVars
  <2>3. selected' \subseteq Hashes
    BY <1>0, <1>4 DEF ToggleOpen, ToggleAll, ClearSelection, CleanUp, TickHardDelete, Cancel,
       ToggleRow, TrashRow, AtCard, AtTable, AtDialog, Rows, PageInv
  <2>4. hardDelete' \in BOOLEAN
    BY <1>0, <1>4 DEF ToggleOpen, ToggleAll, ClearSelection, CleanUp, TickHardDelete, Cancel,
       ToggleRow, TrashRow, AtCard, AtTable, AtDialog, PageInv
  <2> QED
    BY <1>0, <2>1, <2>2, <2>3, <2>4 DEF PageInv, sumVars, Mounted
<1>5. ASSUME NEW r \in requests, CleanedUp(r) PROVE PageInv'
  <2>1. summary' = summary /\ sumFetch' = Asked /\ detail' = detail /\ detFetch' \in {detFetch, Asked}
    BY <1>5 DEF CleanedUp, Invalidate
  <2>2. \/ UNCHANGED cardVars
        \/ ~confirmOpen' /\ ~hardDelete' /\ selected' = {} /\ UNCHANGED <<card, open>>
    BY <1>5 DEF CleanedUp
  <2>3. hardDelete' \in BOOLEAN
    BY <1>0, <1>5 DEF CleanedUp, PageInv, cardVars
  <2> QED
    BY <1>0, <2>1, <2>2, <2>3 DEF PageInv, cardVars, Mounted
<1>6. ASSUME NEW h \in Hashes, \/ Add(h) \/ PersistTorrent(h) \/ PersistTorrentFails(h) \/ Remove(h)
                               \/ DeleteTorrent(h) \/ DeleteTorrentFails(h)
      PROVE  UNCHANGED <<sumVars, detVars, cardVars>>
  BY <1>6 DEF Add, PersistTorrent, PersistTorrentFails, Remove, DeleteTorrent, DeleteTorrentFails
<1>7. ASSUME NEW r \in requests, Server(r) \/ CleanupFails(r) \/ CleanUpFailed(r)
      PROVE  UNCHANGED <<sumVars, detVars, cardVars>>
  BY <1>7 DEF Server, Detect, DetectRows, ReconfirmStep, Delete, CleanupFails, CleanUpFailed
<1>8. ASSUME ConfirmStep \/ UNCHANGED vars
      PROVE  UNCHANGED <<sumVars, detVars, cardVars>>
  BY <1>8 DEF ConfirmStep, vars
<1>9. ASSUME Restart PROVE PageInv'
  <2>1. /\ sumFetch' \in {sumFetch, Asked} /\ detFetch' \in {detFetch, Asked}
        /\ UNCHANGED <<summary, detail, cardVars>>
    BY <1>9 DEF Restart, Retried
  <2> QED
    BY <1>0, <2>1 DEF PageInv, cardVars, Mounted
<1> QED
  BY <1>1, <1>2, <1>3, <1>4, <1>5, <1>6, <1>7, <1>8, <1>9 DEF Next, Answered

LEMMA NextIInv == IInv /\ [Next]_vars => IInv'
<1> SUFFICES ASSUME IInv, [Next]_vars PROVE IInv'
  OBVIOUS
<1>1. RequestsInv' /\ TablesInv' /\ PageInv'
  BY RequestsStep, TablesStep, PageStep
<1> QED
  BY <1>1 DEF IInv, TypeOK, OnItsWay, RequestsInv, TablesInv, PageInv

LEMMA AlwaysIInv == Spec => []IInv
  BY InitIInv, NextIInv, PTL DEF Spec

\* The variables keep their types, each card has at most one clean-up under
\* way, and a card that is not on the page keeps neither selection nor dialog
\* (Diagnostics.tsx 40-54, 88-92, 322).
THEOREM CardsAreTyped == Spec => []TypeOK
  BY AlwaysIInv, PTL DEF IInv

\* No torrent in memory loses its row to a clean-up, except one that came back
\* between the clean-up's last look and its DELETE; a torrent whose INSERT failed
\* has none to lose (orphan_torrents.go 112-127, session.go 1848-1850).
THEOREM LiveRowsAreSafe == Spec => []LiveHasRow
  BY AlwaysIInv, PTL DEF IInv
-----------------------------------------------------------------------------
(* Rows that leave the page *)

\* A row cleaned up on this card is not in the table, unless it was added
\* again, and neither in what the page has nor in what is on its way to it.
GoneInv ==
  /\ gone \cap rows = {}
  /\ detFetch = NoFetch => Rows \cap gone = {}
  /\ detFetch.is = "served" => detFetch.rows \cap gone = {}

LEMMA StepGone == GoneInv /\ [Next]_vars => GoneInv'
<1> SUFFICES ASSUME GoneInv, [Next]_vars PROVE GoneInv'
  OBVIOUS
<1> USE DEF GoneInv, tableVars, detVars, NoFetch, Asked
<1>1. ASSUME gone' \subseteq gone, rows' \subseteq rows, UNCHANGED detVars PROVE GoneInv'
  BY <1>1 DEF Rows
<1>2. ASSUME NEW h \in Hashes, PersistTorrent(h) PROVE GoneInv'
  BY <1>2 DEF PersistTorrent, Rows
<1>3. ASSUME NEW h \in Hashes, \/ Add(h) \/ PersistTorrentFails(h) \/ Remove(h)
                               \/ DeleteTorrent(h) \/ DeleteTorrentFails(h)
      PROVE  GoneInv'
  BY <1>1, <1>3 DEF Add, PersistTorrentFails, Remove, DeleteTorrent, DeleteTorrentFails
<1>4. ASSUME NEW r \in requests, Server(r) \/ CleanupFails(r) \/ CleanUpFailed(r) PROVE GoneInv'
  <2>1. gone' = gone /\ rows' \subseteq rows /\ UNCHANGED detVars
    BY <1>4 DEF Server, Detect, DetectRows, ReconfirmStep, Delete, CleanupFails, CleanUpFailed
  <2> QED
    BY <1>1, <2>1
<1>5. ASSUME ConfirmStep \/ UNCHANGED vars PROVE GoneInv'
  BY <1>1, <1>5 DEF ConfirmStep, vars
<1>6. ASSUME Listing \/ SkipDetection \/ SummaryFails PROVE GoneInv'
  <2>1. gone' \in {gone, {}} /\ UNCHANGED <<rows, detVars>>
    BY <1>6 DEF Listing, Poll, LookSummary, ServeSummary, SkipDetection, SummaryLands, SummaryFails
  <2> QED
    BY <1>1, <2>1
<1>7. CASE LookDetail \/ ServeDetail
  \* What the server reads does not have the rows that are gone.
  <2>1. /\ UNCHANGED <<gone, rows>>
        /\ \/ detFetch' = Looking
           \/ detFetch' = [is |-> "served", rows |-> rows \ detFetch.live]
    BY <1>7 DEF LookDetail, ServeDetail
  <2> QED
    BY <2>1 DEF Looking
<1>8. CASE DetailLands
  <2>1. /\ detFetch.is = "served" /\ detail' = detFetch.rows /\ detFetch' = NoFetch
        /\ UNCHANGED <<gone, rows>>
    BY <1>8 DEF DetailLands
  <2> QED
    BY <2>1 DEF Rows
<1>9. CASE DetailFails \/ ToggleOpen
  <2>1. gone' = {} /\ UNCHANGED rows
    BY <1>9 DEF DetailFails, ToggleOpen, AtCard
  <2> QED
    BY <2>1
<1>10. ASSUME \/ ToggleAll \/ ClearSelection \/ CleanUp \/ TickHardDelete \/ Cancel
              \/ \E h \in Hashes : ToggleRow(h) \/ TrashRow(h)
       PROVE  GoneInv'
  <2>1. UNCHANGED <<gone, rows, detVars>>
    BY <1>10 DEF ToggleAll, ClearSelection, CleanUp, TickHardDelete, Cancel, ToggleRow, TrashRow,
       AtCard, AtTable, AtDialog
  <2> QED
    BY <1>1, <2>1
<1>11. ASSUME NEW r \in requests, CleanedUp(r) PROVE GoneInv'
  \* On an open card a new fetch takes the place of the one under way.
  <2>1. CASE open
    <3>1. detFetch' = Asked /\ gone' = gone \cup (r.hashes \ rows) /\ rows' = rows
      BY <1>11, <2>1 DEF CleanedUp, Invalidate
    <3> QED
      BY <3>1
  <2>2. CASE ~open
    <3>1. UNCHANGED <<detail, detFetch, gone, rows>>
      BY <1>11, <2>2 DEF CleanedUp, Invalidate
    <3> QED
      BY <3>1 DEF Rows
  <2> QED
    BY <2>1, <2>2
<1>12. CASE Restart
  <2>1. detFetch' = detFetch \/ (detFetch' = Asked /\ detFetch.is = "looking")
    BY <1>12 DEF Restart, Retried
  <2>2. UNCHANGED <<gone, rows, detail>>
    BY <1>12 DEF Restart
  <2> QED
    BY <2>1, <2>2 DEF Rows
<1> QED
  BY <1>2, <1>3, <1>4, <1>5, <1>6, <1>7, <1>8, <1>9, <1>10, <1>11, <1>12
  DEF Next, Answered, Detailing

\* Rows cleaned up on a card that stays open have left it as soon as no fetch is
\* under way, whichever fetches were (api/adminDiagnostics.ts 71-75).
THEOREM CleanedRowsLeave == Spec => []GoneRowsLeave
<1>1. Init => GoneInv
  BY DEF Init, GoneInv, NoFetch, Rows
<1>2. GoneInv => GoneRowsLeave
  BY DEF GoneInv, GoneRowsLeave
<1> QED
  BY <1>1, <1>2, StepGone, PTL DEF Spec
=============================================================================
