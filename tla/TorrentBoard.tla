---------------------------- MODULE TorrentBoard -----------------------------
(***************************************************************************)
(* The dashboard's list: pills, filters, search, sort orders, and dragging *)
(* a row to a new place, with the two requests a drag sends and what the   *)
(* server makes of them in the order they reach it.                        *)
(***************************************************************************)
EXTENDS TorrentView

CONSTANTS
  Rows,          \* the hashes in the order of the table's rows
  FirstSets,     \* the sets of torrents the server may have at first
  FirstFlags,    \* the flags they may have
  MaxSteps,      \* bounds clicks, drags, changes by others and lost requests
  MaxChanges     \* bounds the changes by others among them

\* A torrent has one row.
ASSUME BoardAssumption ==
  /\ Rows \in Seq(Hashes) /\ Range(Rows) = Hashes
  /\ \A i, j \in DOMAIN Rows : Rows[i] = Rows[j] => i = j
  /\ \A S \in FirstSets : S \subseteq Hashes
  /\ FirstFlags \subseteq Flags

NoOrder == <<>>

VARIABLES
  managed,       \* the session's torrents: a function on the hashes it has
  prio,          \* the column torrents.priority
  orders,        \* PUT /torrents/reorder on their way or half done
  ranks,         \* PUT /torrents/{hash}/priority on their way
  list,          \* data of useTorrents, in the server's order
  pills, cats, tags, query, sortField,
  localOrder,    \* the dragged order, NoOrder for null
  dragged,       \* the order the last drag asked for
  alone,         \* nothing else touched the ranks since it began
  steps, changes

torrentVars == <<managed, prio>>
requestVars == <<orders, ranks>>
filterVars == <<pills, cats, tags, query>>
ghostVars == <<dragged, alone>>
bounds == <<steps, changes>>
boardVars == <<torrentVars, requestVars, list, filterVars, sortField, localOrder, ghostVars, bounds>>

\* Session.List: by priority, rows of equal priority in table order.
ServerOrder ==
  LET there == {i \in DOMAIN Rows : Rows[i] \in DOMAIN managed}
  IN  Arrange(Rows, there, [i \in there |-> prio[Rows[i]]])
ServerList == [i \in DOMAIN ServerOrder |-> Info(ServerOrder[i], managed[ServerOrder[i]])]

\* What the page shows.
Shown == {i \in DOMAIN list : Shows(list[i], pills, cats, tags, query)}
Filtered ==
  LET sorted == SortTorrents(Keep(list, Shown), sortField)
  IN  IF localOrder # NoOrder /\ sortField = "manual"
      THEN ApplyLocalOrder(sorted, localOrder) ELSE sorted

TorrentInfo == [hash : Hashes, status : StatusFilters \ {"active", "stalled"}, stalledAt : BOOLEAN,
          stalled : BOOLEAN]

BoardTypeOK ==
  /\ DOMAIN managed \subseteq Hashes /\ \A h \in DOMAIN managed : managed[h] \in Flags
  /\ prio \in [Hashes -> Nat]
  /\ \A o \in orders : Range(o.order) \subseteq Hashes /\ o.next \in 1 .. Len(o.order)
  /\ \A r \in ranks : r.hash \in Hashes /\ r.priority \in 1 .. Cardinality(Hashes)
  /\ Range(list) \subseteq TorrentInfo
  /\ pills \subseteq StatusFilters /\ pills # {}
  /\ "active" \in pills => pills = {"active"}
  /\ query \in Queries /\ sortField \in SortFields
  /\ Range(localOrder) \subseteq Hashes

------------------------------------------------------------------------------
(* Clicks. *)

Move == steps < MaxSteps /\ steps' = steps + 1
Click == Move /\ UNCHANGED changes
Toggle(S, x) == IF x \in S THEN S \ {x} ELSE S \cup {x}

ClickPill(key) ==
  /\ Click
  /\ pills' = TogglePill(pills, key)
  /\ UNCHANGED <<torrentVars, requestVars, list, cats, tags, query, sortField, localOrder, ghostVars>>

\* The chips are those of the categories and tags in the list.
ToggleCategory(c) ==
  /\ Click
  /\ c # "" /\ \E i \in DOMAIN list : Category[list[i].hash] = c
  /\ cats' = Toggle(cats, c)
  /\ UNCHANGED <<torrentVars, requestVars, list, pills, tags, query, sortField, localOrder, ghostVars>>

ToggleTag(g) ==
  /\ Click
  /\ \E i \in DOMAIN list : g \in Tags[list[i].hash]
  /\ tags' = Toggle(tags, g)
  /\ UNCHANGED <<torrentVars, requestVars, list, pills, cats, query, sortField, localOrder, ghostVars>>

Search(q) ==
  /\ Click
  /\ query' = q
  /\ UNCHANGED <<torrentVars, requestVars, list, pills, cats, tags, sortField, localOrder, ghostVars>>

\* "clear all filters" of the drawer, and of the empty list.
ClearFilters ==
  /\ Click
  /\ cats' = {} /\ tags' = {}
  /\ \/ cats \cup tags # {} /\ UNCHANGED <<pills, query>>
     \/ Filtered = <<>> /\ list # <<>> /\ pills' = {"active"} /\ query' = ""
  /\ UNCHANGED <<torrentVars, requestVars, list, sortField, localOrder, ghostVars>>

SelectSort(f) ==
  /\ Click /\ f # sortField
  /\ sortField' = f /\ localOrder' = NoOrder
  /\ UNCHANGED <<torrentVars, requestVars, list, filterVars, ghostVars>>

\* handleDragEnd, for row a dropped on the place of row b: the shown order is
\* changed at once, and two requests start together.
DragTo(order, from, to) ==
  /\ Click
  /\ localOrder' = order /\ sortField' = "manual"
  /\ ranks' = ranks \cup {[hash |-> Filtered[from].hash, priority |-> to]}
  /\ dragged' = order
  /\ alone' = (requestVars = <<{}, {}>> /\ Range(order) \subseteq DOMAIN managed)
  /\ UNCHANGED <<torrentVars, list, filterVars>>

\* (mutant) The order is sent as it was before the drag.
DragEndStale(from, to) ==
  LET hashes == HashesOf(Filtered)
  IN  /\ DragTo(ArrayMove(hashes, from, to), from, to)
      /\ orders' = orders \cup {[order |-> hashes, next |-> 1]}

DragEnd(from, to) ==
  LET newOrder == ArrayMove(HashesOf(Filtered), from, to)
  IN  /\ DragTo(newOrder, from, to)
      /\ orders' = orders \cup {[order |-> newOrder, next |-> 1]}

------------------------------------------------------------------------------
(* The server. *)

\* SetPriority does nothing for a torrent that is gone.
SetPriority(h, p) == prio' = IF h \in DOMAIN managed THEN [prio EXCEPT ![h] = p] ELSE prio

RankArrives(r) ==
  /\ SetPriority(r.hash, r.priority)
  /\ ranks' = ranks \ {r}
  /\ UNCHANGED <<managed, orders, list, filterVars, sortField, localOrder, ghostVars, bounds>>

\* reorder-torrents sets one priority after the other.
OrderStep(o) ==
  /\ SetPriority(o.order[o.next], o.next - 1)
  /\ orders' = (orders \ {o}) \cup
       (IF o.next = Len(o.order) THEN {} ELSE {[o EXCEPT !.next = @ + 1]})
  /\ UNCHANGED <<managed, ranks, list, filterVars, sortField, localOrder, ghostVars, bounds>>

\* A request is lost: no handler of the page asks for its error.
RequestLost ==
  /\ Click
  /\ \/ \E r \in ranks : ranks' = ranks \ {r} /\ UNCHANGED orders
     \/ \E o \in orders : o.next = 1 /\ orders' = orders \ {o} /\ UNCHANGED ranks
  /\ alone' = FALSE
  /\ UNCHANGED <<torrentVars, list, filterVars, sortField, localOrder, dragged>>

OthersChange == Move /\ changes < MaxChanges /\ changes' = changes + 1

\* Metadata, completion, pause, the gate and the stall watcher.  The gate leaves a
\* torrent without metadata alone; ForceStart clears paused only, so that the
\* other marks may outlive it.
StatusChange(h, m) ==
  /\ OthersChange
  /\ h \in DOMAIN managed /\ m # managed[h]
  /\ managed[h].ready => m.ready
  /\ m.complete => m.ready
  /\ m.queuePaused => m.ready
  /\ m.idle => StatusOf(m) = "downloading"
  /\ managed' = [managed EXCEPT ![h] = m]
  /\ UNCHANGED <<prio, requestVars, list, filterVars, sortField, localOrder, ghostVars>>

Removed(h) ==
  /\ OthersChange
  /\ h \in DOMAIN managed
  /\ managed' = [g \in DOMAIN managed \ {h} |-> managed[g]]
  /\ alone' = FALSE
  /\ UNCHANGED <<prio, requestVars, list, filterVars, sortField, localOrder, dragged>>

\* A new row has priority 0; the row of a torrent added again is the one its
\* removal has kept, with the priority it had.
Added(h) ==
  /\ OthersChange
  /\ h \in Hashes \ DOMAIN managed
  /\ \E m \in FirstFlags :
       managed' = [g \in DOMAIN managed \cup {h} |-> IF g = h THEN m ELSE managed[g]]
  /\ alone' = FALSE
  /\ UNCHANGED <<prio, requestVars, list, filterVars, sortField, localOrder, dragged>>

\* The list is fetched again (LiveFeed says when).
Refresh ==
  /\ list' = ServerList
  /\ UNCHANGED <<torrentVars, requestVars, filterVars, sortField, localOrder, ghostVars, bounds>>

------------------------------------------------------------------------------
\* The page may be opened by a link with a ?status=.
BoardInit ==
  /\ \E there \in FirstSets : managed \in [there -> FirstFlags]
  /\ prio = [h \in Hashes |-> 0]
  /\ orders = {} /\ ranks = {}
  /\ list = ServerList
  /\ \E f \in StatusFilters : pills = {f}
  /\ cats = {} /\ tags = {} /\ query = ""
  /\ sortField = "manual" /\ localOrder = NoOrder
  /\ dragged = NoOrder /\ alone = FALSE
  /\ steps = 0 /\ changes = 0

UserStep ==
  \/ \E key \in StatusFilters : ClickPill(key)
  \/ \E h \in Hashes : ToggleCategory(Category[h]) \/ \E g \in Tags[h] : ToggleTag(g)
  \/ \E q \in Queries : Search(q)
  \/ ClearFilters
  \/ \E f \in SortFields : SelectSort(f)
  \/ /\ sortField = "manual"
     /\ \E from, to \in DOMAIN Filtered : from # to /\ DragEnd(from, to)

ServerStep ==
  \/ \E r \in ranks : RankArrives(r)
  \/ \E o \in orders : OrderStep(o)
  \/ RequestLost
  \/ \E h \in Hashes : Removed(h) \/ Added(h) \/ \E m \in Flags : StatusChange(h, m)

BoardNext == UserStep \/ ServerStep \/ Refresh

BoardSpec == BoardInit /\ [][BoardNext]_boardVars

------------------------------------------------------------------------------
(* Properties. *)

\* Every row of the list is found under the pill its badge names, whatever
\* flags the server has set: no state is counted nowhere (torrentStatus.ts
\* 53-79 against TorrentList.tsx 63-77).
BadgeHasPill ==
  \A i \in DOMAIN list :
    /\ MatchesStatus(list[i], TorrentVisual(list[i]))
    /\ CountForStatus(list, TorrentVisual(list[i])) > 0

\* The dragged order only orders: a torrent added since the drag, or one the
\* drag did not show, has its row as long as the filters let it through, and
\* only one (TorrentList.tsx 607-615).
RowsAreTheMatches ==
  /\ Len(Filtered) = Cardinality(Shown)
  /\ Range(Filtered) = {list[i] : i \in Shown}

\* When both requests of a drag are done, in whatever order and however their
\* writes were mixed, every row the drag showed stands, among those rows, where
\* it was put or one place away (the two requests number the rows from 1 and
\* from 0).
ServerPlace(h) == CHOOSE p \in DOMAIN ServerOrder : ServerOrder[p] = h

DragLandsNearby ==
  alone /\ ranks = {} /\ orders = {} =>
    \A i \in DOMAIN dragged :
      LET upTo == {k \in DOMAIN dragged : ServerPlace(dragged[k]) <= ServerPlace(dragged[i])}
      IN  Cardinality(upTo) - i \in -1 .. 1
==============================================================================
