----------------------------- MODULE Diagnostics -----------------------------
(***************************************************************************)
(* The diagnostics page and what stands behind it: the orphan detector and *)
(* its clean-up, racing the session that adds and removes torrents; the    *)
(* two queries of the page, polled, invalidated and failing; the card with *)
(* its selection and its confirmation dialog.                              *)
(***************************************************************************)
EXTENDS Naturals, FiniteSets

CONSTANTS
  Hashes,        \* info hashes
  FirstLive,     \* torrents in memory, and in the table, at first
  FirstOrphans,  \* rows without a torrent at first
  MaxMoves,      \* bounds what the user does and the torrents added and removed
  MaxFaults      \* bounds failures and restarts

ASSUME HashesAssumption ==
  IsFiniteSet(Hashes) /\ FirstLive \subseteq Hashes /\ FirstOrphans \subseteq Hashes

VARIABLES
  rows, removed,          \* the torrents table, and its rows stamped as removed
  live,                   \* LiveHashes: the session's map
  saving, deleting,       \* Add and Remove between the map and the table
  requests,               \* POST .../cleanup
  summary, sumFetch,      \* the summaries query: the row count, and its fetch
  detail, stale, detFetch,\* the detail query: the rows, invalidated, its fetch
  card,                   \* how many cards were mounted
  open, confirmOpen, hardDelete, selected,   \* the card's state
  back, unsaved,          \* torrents added behind a check; those whose INSERT failed
  gone,                   \* rows cleaned up on this card
  moves, faults

tableVars == <<rows, removed>>
sessionVars == <<live, saving, deleting>>
exceptions == <<back, unsaved>>
sumVars == <<summary, sumFetch>>
detVars == <<detail, stale, detFetch>>
cardVars == <<card, open, confirmOpen, hardDelete, selected>>
bounds == <<moves, faults>>
vars ==
  <<tableVars, sessionVars, requests, sumVars, detVars, cardVars, exceptions, gone, bounds>>

NoData == {"no data"}
NoFetch == [is |-> "none"]
Asked == [is |-> "asked"]
Looking == [is |-> "looking", live |-> live]
Loading == [is |-> "loading"]
Failed == [is |-> "error"]
Data(n) == [is |-> "data", count |-> n]
Orphans == rows \ live
Mounted == summary.is = "data" /\ summary.count > 0
Pending == \E r \in requests : r.card = card

Request == [card : Nat, all : BOOLEAN, hashes : SUBSET Hashes, hard : BOOLEAN,
            stage : {"sent", "looking", "detected", "confirmed", "ok", "failed"}]

TypeOK ==
  /\ requests \subseteq Request
  /\ rows \subseteq Hashes /\ removed \subseteq Hashes /\ live \subseteq Hashes
  /\ saving \subseteq live /\ deleting \cap live = {}
  /\ summary \in {Loading, Failed} \cup {Data(n) : n \in 0..Cardinality(Hashes)}
  /\ detail = NoData \/ detail \subseteq Hashes
  /\ card \in Nat /\ selected \subseteq Hashes /\ hardDelete \in BOOLEAN
  /\ ~Mounted => ~open /\ ~confirmOpen /\ ~hardDelete /\ selected = {}
  /\ \A r, q \in requests : r.card = q.card => r = q

Move == moves < MaxMoves /\ moves' = moves + 1 /\ UNCHANGED faults
Fault == faults < MaxFaults /\ faults' = faults + 1 /\ UNCHANGED moves

------------------------------------------------------------------------------
(* The session. *)

\* A torrent is put into the map behind the check of a clean-up that will
\* delete its row.
Behind(h) == \E r \in requests : r.stage = "confirmed" /\ h \in r.hashes

Add(h) ==
  /\ Move
  /\ h \notin live \cup deleting
  /\ live' = live \cup {h} /\ saving' = saving \cup {h}
  /\ back' = IF Behind(h) THEN back \cup {h} ELSE back \ {h}
  /\ unsaved' = unsaved \ {h}
  /\ UNCHANGED <<tableVars, deleting, requests, sumVars, detVars, cardVars, gone>>

PersistTorrent(h) ==
  /\ h \in saving
  /\ rows' = rows \cup {h} /\ removed' = removed \ {h} /\ saving' = saving \ {h}
  /\ gone' = gone \ {h}
  /\ UNCHANGED <<live, deleting, requests, sumVars, detVars, cardVars, exceptions, bounds>>

\* The INSERT fails: that is logged, and the torrent goes on without its row.
PersistTorrentFails(h) ==
  /\ Fault
  /\ h \in saving
  /\ saving' = saving \ {h} /\ unsaved' = unsaved \cup {h}
  /\ UNCHANGED <<tableVars, live, deleting, requests, sumVars, detVars, cardVars, back, gone>>

Remove(h) ==
  /\ Move
  /\ h \in live \ saving
  /\ live' = live \ {h} /\ deleting' = deleting \cup {h}
  /\ UNCHANGED <<tableVars, saving, requests, sumVars, detVars, cardVars, exceptions, gone>>

\* The row is kept, stamped as removed; the detector reports it nevertheless.
DeleteTorrent(h) ==
  /\ h \in deleting
  /\ removed' = removed \cup ({h} \cap rows) /\ deleting' = deleting \ {h}
  /\ UNCHANGED <<rows, live, saving, requests, sumVars, detVars, cardVars, exceptions, gone,
                 bounds>>

DeleteTorrentFails(h) ==
  /\ Fault
  /\ h \in deleting
  /\ deleting' = deleting \ {h}
  /\ UNCHANGED <<tableVars, live, saving, requests, sumVars, detVars, cardVars, exceptions, gone>>

\* A query that the process was at work on is asked once more.
Retried(fetch) == IF fetch.is = "looking" THEN Asked ELSE fetch

\* Every row that is not stamped is a torrent again.
Restart ==
  /\ Fault
  /\ live' = rows \ removed /\ saving' = {} /\ deleting' = {}
  /\ requests' = {[r EXCEPT !.stage = IF @ = "ok" THEN @ ELSE "failed"] : r \in requests}
  /\ sumFetch' = Retried(sumFetch) /\ detFetch' = Retried(detFetch)
  /\ UNCHANGED <<tableVars, summary, detail, stale, cardVars, exceptions, gone>>

------------------------------------------------------------------------------
(* OrphanTorrents.Cleanup. *)

Step(r, stage, hashes) ==
  requests' = (requests \ {r}) \cup {[r EXCEPT !.stage = stage, !.hashes = hashes]}

\* "All" is detected again: first the session is asked for its hashes, then the
\* table.  A selection is taken as it came.
Detect(r) ==
  /\ r.stage = "sent"
  /\ IF r.all THEN Step(r, "looking", Hashes \ live) ELSE Step(r, "detected", r.hashes)
  /\ UNCHANGED <<tableVars, sessionVars, sumVars, detVars, cardVars, exceptions, gone, bounds>>

DetectRows(r) ==
  /\ r.stage = "looking"
  /\ LET orphans == r.hashes \cap rows IN
       Step(r, IF orphans = {} THEN "ok" ELSE "detected", orphans)
  /\ UNCHANGED <<tableVars, sessionVars, sumVars, detVars, cardVars, exceptions, gone, bounds>>

\* (mutant) The detection is trusted.
ReconfirmTrusts(r) == Step(r, "confirmed", r.hashes)

\* Torrents that are back in memory are left out.
Reconfirm(r) ==
  LET confirmed == r.hashes \ live IN
    Step(r, IF confirmed = {} THEN "failed" ELSE "confirmed", confirmed)

ReconfirmStep(r) ==
  /\ r.stage = "detected"
  /\ Reconfirm(r)
  /\ UNCHANGED <<tableVars, sessionVars, sumVars, detVars, cardVars, exceptions, gone, bounds>>

\* One transaction. A soft clean-up first copies the rows: the INSERT gives no
\* deleted_at, which the table requires, so any row to copy ends it.
Refused(r) == ~r.hard /\ r.hashes \cap rows # {}

Delete(r) ==
  /\ r.stage = "confirmed"
  /\ IF Refused(r)
     THEN Step(r, "failed", r.hashes) /\ UNCHANGED tableVars
     ELSE /\ rows' = rows \ r.hashes /\ removed' = removed \ r.hashes
          /\ Step(r, "ok", r.hashes)
  /\ UNCHANGED <<sessionVars, sumVars, detVars, cardVars, exceptions, gone, bounds>>

\* A query or a statement fails; the transaction, if there is one, leaves nothing.
CleanupFails(r) ==
  /\ Fault
  /\ r.stage \in {"looking", "confirmed"}
  /\ Step(r, "failed", r.hashes)
  /\ UNCHANGED <<tableVars, sessionVars, sumVars, detVars, cardVars, exceptions, gone>>

------------------------------------------------------------------------------
(* The page: both queries. *)

\* The card leaves the page, with its selection and its dialog.
Unmount ==
  /\ card' = card + 1
  /\ open' = FALSE /\ confirmOpen' = FALSE /\ hardDelete' = FALSE /\ selected' = {}

\* refetchInterval.
Poll ==
  /\ sumFetch = NoFetch /\ sumFetch' = Asked
  /\ UNCHANGED <<tableVars, sessionVars, requests, summary, detVars, cardVars, exceptions, gone,
                 bounds>>

\* The detector asks the session, then the table.
LookSummary ==
  /\ sumFetch = Asked /\ sumFetch' = Looking
  /\ UNCHANGED <<tableVars, sessionVars, requests, summary, detVars, cardVars, exceptions, gone,
                 bounds>>

ServeSummary ==
  /\ sumFetch.is = "looking" /\ sumFetch' = Data(Cardinality(rows \ sumFetch.live))
  /\ UNCHANGED <<tableVars, sessionVars, requests, summary, detVars, cardVars, exceptions, gone,
                 bounds>>

\* A detection that fails is left out of the list, as if there were no rows.
SkipDetection ==
  /\ Fault
  /\ sumFetch.is = "looking" /\ sumFetch' = Data(0)
  /\ UNCHANGED <<tableVars, sessionVars, requests, summary, detVars, cardVars, exceptions, gone>>

\* (mutant) The error page stays.
ShowKeepsError == summary' = IF summary = Failed THEN Failed ELSE sumFetch

Show == summary' = sumFetch

\* A count of zero in all shows "All clean" in place of the cards.
SummaryLands ==
  /\ sumFetch.is = "data"
  /\ Show /\ sumFetch' = NoFetch
  /\ IF Mounted /\ sumFetch.count = 0 THEN Unmount /\ gone' = {} ELSE UNCHANGED <<cardVars, gone>>
  /\ UNCHANGED <<tableVars, sessionVars, requests, detVars, exceptions, bounds>>

\* The error page replaces the cards even when there are older data.
SummaryFails ==
  /\ Fault
  /\ sumFetch # NoFetch
  /\ summary' = Failed /\ sumFetch' = NoFetch
  /\ IF Mounted THEN Unmount /\ gone' = {} ELSE UNCHANGED <<cardVars, gone>>
  /\ UNCHANGED <<tableVars, sessionVars, requests, detVars, exceptions>>

LookDetail ==
  /\ detFetch = Asked /\ detFetch' = Looking
  /\ UNCHANGED <<tableVars, sessionVars, requests, sumVars, detail, stale, cardVars, exceptions,
                 gone, bounds>>

ServeDetail ==
  /\ detFetch.is = "looking" /\ detFetch' = [is |-> "served", rows |-> rows \ detFetch.live]
  /\ UNCHANGED <<tableVars, sessionVars, requests, sumVars, detail, stale, cardVars, exceptions,
                 gone, bounds>>

DetailLands ==
  /\ detFetch.is = "served"
  /\ detail' = detFetch.rows /\ detFetch' = NoFetch /\ stale' = FALSE
  /\ UNCHANGED <<tableVars, sessionVars, requests, sumVars, cardVars, exceptions, gone, bounds>>

\* The older rows stay; without any the card says that no row matches.
DetailFails ==
  /\ Fault
  /\ detFetch # NoFetch
  /\ detFetch' = NoFetch /\ gone' = {}
  /\ UNCHANGED <<tableVars, sessionVars, requests, sumVars, detail, stale, cardVars, exceptions>>

------------------------------------------------------------------------------
(* DiagnosticCard. *)

Dialog == confirmOpen /\ open /\ detail # NoData
AtCard ==
  Move /\ Mounted /\ UNCHANGED <<tableVars, sessionVars, requests, sumVars, card, exceptions>>
AtTable == AtCard /\ open /\ detail # NoData /\ ~Dialog /\ UNCHANGED <<detVars, open, gone>>
Rows == IF detail = NoData THEN {} ELSE detail

\* Opening enables the detail query, closing disables it.
ToggleOpen ==
  /\ AtCard /\ ~Dialog
  /\ open' = ~open
  /\ gone' = {}
  /\ IF ~open /\ detFetch = NoFetch /\ (stale \/ detail = NoData)
     THEN detFetch' = Asked
     ELSE \/ UNCHANGED detFetch
          \/ ~open /\ detFetch = NoFetch /\ detFetch' = Asked
  /\ UNCHANGED <<detail, stale, confirmOpen, hardDelete, selected>>

ToggleRow(h) ==
  /\ AtTable /\ h \in Rows
  /\ selected' = IF h \in selected THEN selected \ {h} ELSE selected \cup {h}
  /\ UNCHANGED <<confirmOpen, hardDelete>>

\* "All" is told by the number alone.
ToggleAll ==
  /\ AtTable /\ Rows # {}
  /\ selected' = IF Cardinality(selected) = Cardinality(Rows) THEN {} ELSE Rows
  /\ UNCHANGED <<confirmOpen, hardDelete>>

ClearSelection ==
  /\ AtTable /\ Rows # {} /\ selected # {}
  /\ selected' = {}
  /\ UNCHANGED <<confirmOpen, hardDelete>>

TrashRow(h) ==
  /\ AtTable /\ h \in Rows
  /\ selected' = {h} /\ confirmOpen' = TRUE
  /\ UNCHANGED hardDelete

CleanUp ==
  /\ AtTable /\ Rows # {}
  /\ confirmOpen' = TRUE
  /\ UNCHANGED <<hardDelete, selected>>

AtDialog == AtCard /\ Dialog /\ UNCHANGED <<detVars, open, selected, gone>>

TickHardDelete == AtDialog /\ hardDelete' = ~hardDelete /\ UNCHANGED confirmOpen

\* The button waits for the clean-up under way; Escape and the backdrop do not.
Cancel == AtDialog /\ confirmOpen' = FALSE /\ hardDelete' = FALSE

\* (mutant) The button does not wait.
ConfirmAgain ==
  requests' = requests \cup {[card |-> card, all |-> selected = {}, hashes |-> selected,
                              hard |-> hardDelete, stage |-> "sent"]}

Confirm ==
  /\ ~Pending
  /\ requests' = requests \cup {[card |-> card, all |-> selected = {}, hashes |-> selected,
                                 hard |-> hardDelete, stage |-> "sent"]}

ConfirmStep ==
  /\ Move /\ Mounted /\ Dialog
  /\ Confirm
  /\ UNCHANGED <<tableVars, sessionVars, sumVars, detVars, cardVars, exceptions, gone>>

\* (mutant) Only the list of diagnostics is fetched again.
InvalidateList == sumFetch' = Asked /\ UNCHANGED <<stale, detFetch>>

\* invalidateQueries(["admin", "diagnostics"]): both queries.
Invalidate ==
  /\ sumFetch' = Asked
  /\ IF open THEN detFetch' = Asked /\ UNCHANGED stale
     ELSE stale' = TRUE /\ UNCHANGED detFetch

\* The card's own onSuccess runs only if the card is still there.
CleanedUp(r) ==
  /\ r.stage = "ok"
  /\ Invalidate
  /\ requests' = requests \ {r}
  /\ gone' = IF open THEN gone \cup (r.hashes \ rows) ELSE gone
  /\ IF r.card = card
     THEN /\ confirmOpen' = FALSE /\ hardDelete' = FALSE /\ selected' = {}
          /\ UNCHANGED <<card, open>>
     ELSE UNCHANGED cardVars
  /\ UNCHANGED <<tableVars, sessionVars, summary, detail, exceptions, bounds>>

CleanUpFailed(r) ==
  /\ r.stage = "failed"
  /\ requests' = requests \ {r}
  /\ UNCHANGED <<tableVars, sessionVars, sumVars, detVars, cardVars, exceptions, gone, bounds>>

------------------------------------------------------------------------------
Init ==
  /\ rows = FirstLive \cup FirstOrphans /\ removed = {} /\ live = FirstLive
  /\ saving = {} /\ deleting = {} /\ requests = {}
  /\ summary = Loading /\ sumFetch = Asked
  /\ detail = NoData /\ stale = FALSE /\ detFetch = NoFetch
  /\ card = 0 /\ open = FALSE /\ confirmOpen = FALSE /\ hardDelete = FALSE /\ selected = {}
  /\ back = {} /\ unsaved = {} /\ gone = {} /\ moves = 0 /\ faults = 0

Server(r) == Detect(r) \/ DetectRows(r) \/ ReconfirmStep(r) \/ Delete(r)
Answered(r) == CleanedUp(r) \/ CleanUpFailed(r)
Listing == Poll \/ LookSummary \/ ServeSummary \/ SummaryLands
Detailing == LookDetail \/ ServeDetail \/ DetailLands

Next ==
  \/ \E h \in Hashes : \/ Add(h) \/ PersistTorrent(h) \/ PersistTorrentFails(h) \/ Remove(h)
                       \/ DeleteTorrent(h) \/ DeleteTorrentFails(h) \/ ToggleRow(h) \/ TrashRow(h)
  \/ \E r \in requests : Server(r) \/ CleanupFails(r) \/ Answered(r)
  \/ Restart \/ Listing \/ SkipDetection \/ SummaryFails \/ Detailing \/ DetailFails
  \/ ToggleOpen \/ ToggleAll \/ ClearSelection \/ CleanUp \/ TickHardDelete \/ Cancel
  \/ ConfirmStep

Spec == Init /\ [][Next]_vars

\* The poll's timer and the server keep going; the user need not.
Fairness ==
  /\ WF_vars(Listing)
  /\ WF_vars(Detailing)
  /\ WF_vars(\E r \in requests : Server(r) \/ Answered(r))

LiveSpec == Spec /\ Fairness

------------------------------------------------------------------------------
(* Properties. *)

\* A clean-up does not take the row of a torrent that is in memory, though the
\* selection may be old, and "all" is detected in two reads that adds overlap: but
\* for a torrent whose INSERT failed, only one that comes back between the last
\* check and the DELETE loses its row (orphan_torrents.go 112-127).
LiveHasRow == \A h \in live \ saving : h \in rows \cup back \cup unsaved

\* Rows cleaned up on a card that stays open are gone from its table as soon as
\* no fetch is under way, whichever fetches were on their way
\* (api/adminDiagnostics.ts 71-75).
GoneRowsLeave == open /\ detFetch = NoFetch => Rows \cap gone = {}

\* In the end the badge counts the rows there are, after "All clean" and after
\* the error page too (api/adminDiagnostics.ts 47-53).
BadgeCatchesUp == <>[](summary = Data(Cardinality(Orphans)))
==============================================================================
