----------------------------- MODULE TorrentView -----------------------------
(***************************************************************************)
(* The pure part of the dashboard: the status the server reports for a     *)
(* torrent, the badge and the pills it appears under, the filters, the     *)
(* sort orders and the position a drag ends at.                            *)
(***************************************************************************)
EXTENDS Integers, Sequences, FiniteSets, SequencesExt

CONSTANTS
  Hashes,        \* info hashes
  Category,      \* Category[h], "" for none
  Tags,          \* Tags[h], a set
  Matches,       \* Matches[q], the hashes whose name contains q
  SortKey        \* SortKey[f][h], ascending: the name, or minus the number

ASSUME ViewAssumption ==
  /\ IsFiniteSet(Hashes)
  /\ "manual" \notin DOMAIN SortKey
  /\ \A f \in DOMAIN SortKey : SortKey[f] \in [Hashes -> Int]

StatusFilters == {"active", "downloading", "seeding", "completed", "paused",
                  "stalled", "failed", "queued"}
SortFields == {"manual"} \cup DOMAIN SortKey
Queries == {""} \cup DOMAIN Matches

\* What the server knows of a torrent, and the status it makes of it: without
\* metadata a torrent is downloading, paused or not.
Flags == [ready : BOOLEAN, complete : BOOLEAN, paused : BOOLEAN, queuePaused : BOOLEAN,
          idle : BOOLEAN, stalledAt : BOOLEAN]

StatusOf(m) ==
  CASE ~m.ready                               -> "downloading"
    [] m.ready /\ m.complete /\ m.paused      -> "completed"
    [] m.ready /\ m.complete /\ ~m.paused     -> "seeding"
    [] m.ready /\ ~m.complete /\ m.paused     -> IF m.queuePaused THEN "queued" ELSE "paused"
    [] m.ready /\ ~m.complete /\ ~m.paused    -> "downloading"

\* classifyStall speaks of downloading torrents only; `idle` is its verdict.
Info(h, m) ==
  [hash |-> h, status |-> StatusOf(m), stalledAt |-> m.stalledAt,
   stalled |-> m.idle /\ StatusOf(m) = "downloading"]

------------------------------------------------------------------------------
(* Badges and pills. *)

TorrentVisual(t) ==
  IF t.stalledAt \/ (t.status = "downloading" /\ t.stalled) THEN "stalled"
  ELSE IF t.status \in StatusFilters \ {"active"} THEN t.status ELSE "downloading"

IsFinished(t) == t.status \in {"completed", "seeding"}

\* (mutant) The stalled pill as it was before torrents were paused for a stall.
MatchesStatusLive(t, f) ==
  CASE f = "active"      -> ~IsFinished(t) /\ ~t.stalledAt
    [] f = "downloading" -> t.status = "downloading" /\ ~t.stalledAt
    [] f = "completed"   -> IsFinished(t)
    [] f = "paused"      -> t.status = "paused" /\ ~t.stalledAt
    [] f = "stalled"     -> t.status = "downloading" /\ t.stalled
    [] f \in {"seeding", "failed", "queued"} -> t.status = f

MatchesStatus(t, f) ==
  CASE f = "active"      -> ~IsFinished(t) /\ ~t.stalledAt
    [] f = "downloading" -> t.status = "downloading" /\ ~t.stalledAt
    [] f = "completed"   -> IsFinished(t)
    [] f = "paused"      -> t.status = "paused" /\ ~t.stalledAt
    [] f = "stalled"     -> t.stalledAt \/ (t.status = "downloading" /\ t.stalled)
    [] f \in {"seeding", "failed", "queued"} -> t.status = f

CountForStatus(list, f) == Cardinality({i \in DOMAIN list : MatchesStatus(list[i], f)})

\* (mutant) The last pill can be taken away.
TogglePillEmpty(pills, key) ==
  IF key = "active" THEN {"active"}
  ELSE IF key \in pills THEN pills \ {"active", key} ELSE (pills \ {"active"}) \cup {key}

\* A click on a pill: active stands alone, and no pill at all means active.
TogglePill(pills, key) ==
  LET next == IF key \in pills THEN pills \ {"active", key}
              ELSE (pills \ {"active"}) \cup {key}
  IN  IF key = "active" \/ next = {} THEN {"active"} ELSE next

------------------------------------------------------------------------------
(* Filters and order. *)

\* Array.prototype.filter and sort, which is stable: the elements of s at the
\* indices I by ascending key, those of equal key in the order they had.
Before(key, i, j) == key[i] < key[j] \/ (key[i] = key[j] /\ i <= j)
Place(I, key, i) == Cardinality({j \in I : Before(key, j, i)})
Arrange(s, I, key) == [p \in 1 .. Cardinality(I) |-> s[CHOOSE i \in I : Place(I, key, i) = p]]

Keep(s, I) == Arrange(s, I, [i \in I |-> 0])
StableSort(s, key) == Arrange(s, DOMAIN s, key)

Shows(t, pills, cats, tags, query) ==
  /\ \E f \in pills : MatchesStatus(t, f)
  /\ cats # {} => Category[t.hash] \in cats
  /\ tags # {} => Tags[t.hash] \cap tags # {}
  /\ query # "" => t.hash \in Matches[query]

SortTorrents(list, field) ==
  IF field = "manual" THEN list
  ELSE StableSort(list, [i \in DOMAIN list |-> SortKey[field][list[i].hash]])

\* Where a dragged order puts a torrent: one it does not name comes last.
LocalPlace(order, h) ==
  IF h \in Range(order) THEN (CHOOSE i \in DOMAIN order : order[i] = h) - 1 ELSE 9999

\* (mutant) The rows are those the dragged order names.
ApplyLocalOrderOnly(list, order) ==
  LET named == {i \in DOMAIN list : list[i].hash \in Range(order)}
  IN  Arrange(list, named, [i \in named |-> LocalPlace(order, list[i].hash)])

ApplyLocalOrder(list, order) ==
  StableSort(list, [i \in DOMAIN list |-> LocalPlace(order, list[i].hash)])

HashesOf(list) == [i \in DOMAIN list |-> list[i].hash]

ArrayMove(s, from, to) == InsertAt(RemoveAt(s, from), to, s[from])
==============================================================================
