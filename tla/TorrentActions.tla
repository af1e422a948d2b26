--------------------------- MODULE TorrentActions ---------------------------
(***************************************************************************)
(* What the user does to torrents and categories from the web interface:   *)
(* the cards, the right-click menu and its small modals, the add modal,    *)
(* the detail page with its tracker form, the categories page, and the one *)
(* confirmation dialog they share.  Every component that is mounted has a  *)
(* number of its own: an answer reaches the callbacks of the component     *)
(* that asked, and only while it is mounted.  The menu needs no number:    *)
(* its callbacks only show a toast.                                        *)
(***************************************************************************)
EXTENDS Naturals, FiniteSets

CONSTANTS
  Hashes,        \* info hashes
  Names,         \* category names
  Known,         \* the hashes Pilot or Prism asked for
  FirstServer, FirstCategories,
  MaxMoves       \* bounds what the user sends and opens, and what others do

Statuses == {"gone", "downloading", "paused", "completed"}
Row == [status : Statuses, stalled : BOOLEAN]

\* An info hash is forty hexadecimal digits.
ASSUME ActionsAssumption ==
  /\ Hashes \cap {"list", "categories"} = {}
  /\ FirstServer \in [Hashes -> Row] /\ FirstCategories \subseteq Names

Pages == {"list", "categories"} \cup Hashes
None == [id |-> 0]

Confirmed == {"remove", "deleteFiles", "recheck", "deleteEverything", "deleteCategory"}
Submodals == {"category", "tags", "location"}

VARIABLES
  server,        \* server[h], the torrent as the server has it
  categories,    \* the server's categories
  list,          \* the torrents as last fetched
  page,          \* the page shown
  menu,          \* TorrentList's ctxMenu: the torrent as it was when right-clicked
  submodal,      \* TorrentList's submodal, and whether it opened over another of its kind
  add,           \* the AddModal
  form,          \* the page's own form: AddTrackerForm, or the new category
  reads,         \* files being read for an AddModal
  dialog,        \* opts of the ConfirmProvider: what the user is asked
  waiter,        \* resolveRef: the call that waits for the answer
  requests,      \* mutations sent and not answered
  mounts, sent,  \* components mounted and requests begun, for their numbers
  moves

serverVars == <<server, categories>>
pageVars == <<page, menu, submodal, add, form>>
confirmVars == <<dialog, waiter>>
counts == <<mounts, sent, moves>>
vars == <<serverVars, list, pageVars, reads, confirmVars, requests, counts>>

Mounted == {page.id, submodal.id, add.id} \ {0}
Questions == [kind : Confirmed, of : Hashes \cup Names, id : Nat] \cup {None}

TypeOK ==
  /\ server \in [Hashes -> Row] /\ list \in [Hashes -> Row] /\ categories \subseteq Names
  /\ page.at \in Pages
  /\ menu # None =>
       menu.of \in Hashes /\ menu.was \in Row /\ menu.was.status # "gone"
  /\ submodal # None =>
       submodal.kind \in Submodals /\ submodal.of \in Hashes /\ submodal.over \in BOOLEAN
  /\ add # None =>
       /\ add.file \in {"", "torrent", "damaged"} /\ add.uri \in BOOLEAN /\ add.error \in BOOLEAN
       /\ (add.file # "" => ~add.uri)
  /\ form \in [open : BOOLEAN, text : BOOLEAN]
  /\ dialog \in Questions /\ waiter \in Questions
  /\ \A r \in requests : r.stage \in {"sent", "ok", "failed"} /\ r.n \in 1 .. sent /\ r.current \in BOOLEAN
  /\ page.at # "list" => menu = None /\ submodal = None /\ add = None

------------------------------------------------------------------------------
(* Requests. *)

\* A mutation hook follows the request it sent last; the one before it is
\* dropped for good.
Dropped(kind, id) ==
  {IF q.kind = kind /\ q.from = id THEN [q EXCEPT !.current = FALSE] ELSE q : q \in requests}

\* mutate() of a hook of component `id`, about torrent or category `x`.
Mutate(kind, x, id) ==
  /\ sent' = sent + 1
  /\ requests' = Dropped(kind, id) \cup
       {[n |-> sent + 1, kind |-> kind, of |-> x, from |-> id, stage |-> "sent", current |-> TRUE]}

Latest(r) == r.current
Pending(kind, id) == \E r \in requests : r.kind = kind /\ r.from = id /\ Latest(r)

------------------------------------------------------------------------------
(* Pages. *)

\* What opens or sends something is counted, and what others do; what is chosen in
\* a menu or answered in a dialog that was counted, typing and closing are not.
Move == moves < MaxMoves /\ moves' = moves + 1
Mount == mounts' = mounts + 1

\* The router shows another page; the dialog belongs to none.  A torrent's
\* page is reached from the list.
GoTo(p) ==
  /\ page' = [at |-> p, id |-> mounts + 1]
  /\ menu' = None /\ submodal' = None /\ add' = None
  /\ form' = [open |-> p = "categories", text |-> FALSE]

Navigate(p) ==
  /\ Move
  /\ p # page.at
  /\ {p, page.at} \cap {"list", "categories"} # {}
  /\ Mount /\ GoTo(p)
  /\ UNCHANGED <<serverVars, list, reads, confirmVars, requests, sent>>

Shown(h) == list[h].status # "gone"

------------------------------------------------------------------------------
(* The confirmation dialog. *)

\* (mutant) A question that is still open keeps its caller.
ConfirmKeepsFirst(q) ==
  /\ dialog' = q
  /\ waiter' = IF waiter = None THEN q ELSE waiter

Confirm(q) == dialog' = q /\ waiter' = q

Ask(kind, x, id) ==
  /\ Confirm([kind |-> kind, of |-> x, id |-> id])
  /\ UNCHANGED <<serverVars, list, reads, requests, mounts, sent>>

\* close(result): the caller goes on at once, with what it captured.
Close == dialog' = None /\ waiter' = None

Accept ==
  /\ dialog # None
  /\ Close
  /\ IF waiter = None THEN UNCHANGED <<requests, sent>>
     ELSE Mutate(waiter.kind, waiter.of, waiter.id)
  /\ UNCHANGED <<serverVars, list, pageVars, reads, mounts, moves>>

\* Cancel, or a click on the backdrop.
Dismiss ==
  /\ dialog # None
  /\ Close
  /\ UNCHANGED <<serverVars, list, pageVars, reads, requests, counts>>

\* Every open modal and the menu listen to Escape on the document.
Escape ==
  /\ <<dialog, menu, submodal, add>> # <<None, None, None, None>>
  /\ Close /\ menu' = None /\ submodal' = None /\ add' = None
  /\ UNCHANGED <<serverVars, list, page, form, reads, requests, counts>>

------------------------------------------------------------------------------
(* Cards and the detail page. *)

\* The pause or resume button of a card, or of the detail page.
PauseButton(h) ==
  /\ Move
  /\ page.at \in {"list", h} /\ Shown(h)
  /\ Mutate(IF list[h].status = "paused" THEN "resume" ELSE "pause", h, page.id)
  /\ UNCHANGED <<serverVars, list, pageVars, reads, confirmVars, mounts>>

RemoveButton(h) ==
  /\ Move
  /\ page.at = "list" /\ Shown(h)
  /\ Ask("remove", h, page.id)
  /\ UNCHANGED pageVars

DetailDelete ==
  /\ Move
  /\ page.at \in Hashes /\ Shown(page.at)
  /\ Ask("deleteEverything", page.at, page.id)
  /\ UNCHANGED pageVars

------------------------------------------------------------------------------
(* The right-click menu: what it offers depends on the torrent as it was   *)
(* when the menu opened.                                                   *)

OpenMenu(h) ==
  /\ Move
  /\ page.at = "list" /\ Shown(h)
  /\ menu' = [of |-> h, was |-> list[h]]
  /\ UNCHANGED <<serverVars, list, page, submodal, add, form, reads, confirmVars, requests, mounts, sent>>

\* Outside click, scroll, resize.
CloseMenu ==
  /\ menu # None
  /\ menu' = None
  /\ UNCHANGED <<serverVars, list, page, submodal, add, form, reads, confirmVars, requests, counts>>

NoNumber == 0

Offered(was, h) ==
  {"forceStart", "reannounce"}
  \cup (IF was.status = "paused" THEN {"resume"} ELSE {"pause"})
  \cup (IF was.stalled /\ h \in Known THEN {"research"} ELSE {})

\* run(fn): the mutation starts, then the menu goes away.
MenuRun ==
  /\ menu # None
  /\ \E kind \in Offered(menu.was, menu.of) : Mutate(kind, menu.of, NoNumber)
  /\ menu' = None
  /\ UNCHANGED <<serverVars, list, page, submodal, add, form, reads, confirmVars, mounts, moves>>

\* handleRemove and handleRecheck close the menu and then ask.
MenuAsk(kind) ==
  /\ menu # None
  /\ Ask(kind, menu.of, NoNumber)
  /\ menu' = None
  /\ UNCHANGED <<page, submodal, add, form, moves>>

\* A submodal has no key: over one of its kind, reached with the keyboard, the
\* component stays and is handed another torrent.
ReplacesSubmodal(kind) == submodal # None /\ submodal.kind = kind

MenuSubmodal(kind) ==
  /\ menu # None
  /\ kind = "location" => menu.was.status \in {"paused", "completed"}
  /\ IF ReplacesSubmodal(kind)
     THEN submodal' = [submodal EXCEPT !.of = menu.of, !.over = TRUE] /\ UNCHANGED mounts
     ELSE Mount /\ submodal' = [kind |-> kind, of |-> menu.of, over |-> FALSE, id |-> mounts']
  /\ menu' = None
  /\ UNCHANGED <<serverVars, list, page, add, form, reads, confirmVars, requests, sent, moves>>

------------------------------------------------------------------------------
(* Modals and forms. *)

\* Enter submits whether a request is pending or not.  Clicks on the tags of
\* the tags modal remove them.
SubmodalSubmit ==
  /\ Move
  /\ submodal # None
  /\ \/ Mutate(submodal.kind, submodal.of, submodal.id)
     \/ submodal.kind = "tags" /\ Mutate("removeTags", submodal.of, submodal.id)
  /\ UNCHANGED <<serverVars, list, pageVars, reads, confirmVars, mounts>>

CancelSubmodal ==
  /\ submodal # None
  /\ submodal' = None
  /\ UNCHANGED <<serverVars, list, page, menu, add, form, reads, confirmVars, requests, counts>>

OpenAdd ==
  /\ Move
  /\ page.at = "list" /\ add = None
  /\ Mount
  /\ add' = [uri |-> FALSE, file |-> "", error |-> FALSE, id |-> mounts']
  /\ UNCHANGED <<serverVars, list, page, menu, submodal, form, reads, confirmVars, requests, sent>>

\* Typing, picking a file (validateTorrentFile), clearing it.
\* (mutant) A picked file leaves the typed address in place.
PickKeepsUri(f) == add' = [add EXCEPT !.file = f, !.error = FALSE]

HandlePickedFile(f) == add' = [add EXCEPT !.file = f, !.error = FALSE, !.uri = FALSE]

EditAdd ==
  /\ add # None
  /\ \/ add.file = "" /\ add' = [add EXCEPT !.uri = ~@]
     \/ \E f \in {"torrent", "damaged"} : HandlePickedFile(f)
     \/ add' = [add EXCEPT !.file = "", !.error = TRUE]
     \/ add.file # "" /\ ~add.error /\ add' = [add EXCEPT !.file = ""]
  /\ UNCHANGED <<serverVars, list, page, menu, submodal, form, reads, confirmVars, requests, counts>>

CancelAdd ==
  /\ add # None
  /\ add' = None
  /\ UNCHANGED <<serverVars, list, page, menu, submodal, form, reads, confirmVars, requests, counts>>

CanSubmit == add # None /\ (add.file # "" \/ add.uri) /\ ~add.error /\ ~Pending("add", add.id)

\* handleAdd: an address is sent, a file is read first and sent then.  While it is
\* read nothing is pending.
HandleAdd(h) ==
  /\ Move
  /\ CanSubmit
  /\ IF add.file = "" THEN Mutate("add", h, add.id) /\ UNCHANGED reads
     ELSE /\ sent' = sent + 1
          /\ reads' = reads \cup {[n |-> sent + 1, of |-> h, file |-> add.file, from |-> add.id]}
          /\ UNCHANGED requests
  /\ UNCHANGED <<serverVars, list, pageVars, confirmVars, mounts>>

\* The file is there, the modal may not be; a damaged one is reported in it.
ReadDone(f) ==
  /\ reads' = reads \ {f}
  /\ IF f.file = "torrent"
     THEN Mutate("add", f.of, f.from) /\ UNCHANGED add
     ELSE /\ add' = IF add.id = f.from THEN [add EXCEPT !.error = TRUE] ELSE add
          /\ UNCHANGED <<requests, sent>>
  /\ UNCHANGED <<serverVars, list, page, menu, submodal, form, confirmVars, mounts, moves>>

\* The tracker form of the detail page opens and is cancelled; the form of the
\* categories page is always there.
EditForm ==
  /\ page.at # "list"
  /\ \/ page.at \in Hashes /\ ~form.open /\ form' = [form EXCEPT !.open = TRUE]
     \/ page.at \in Hashes /\ form.open /\ form' = [open |-> FALSE, text |-> FALSE]
     \/ form.open /\ ~form.text /\ form' = [form EXCEPT !.text = TRUE]
  /\ UNCHANGED <<serverVars, list, page, menu, submodal, add, reads, confirmVars, requests, counts>>

\* The tracker form's button waits for its last request; Enter in the
\* categories form does not.
SubmitForm ==
  /\ Move
  /\ form.open /\ form.text
  /\ \/ /\ page.at \in Hashes /\ ~Pending("addTrackers", page.id)
        /\ Mutate("addTrackers", page.at, page.id)
     \/ /\ page.at = "categories"
        /\ \E c \in Names : Mutate("createCategory", c, page.id)
  /\ UNCHANGED <<serverVars, list, pageVars, reads, confirmVars, mounts>>

RemoveTracker ==
  /\ Move
  /\ page.at \in Hashes
  /\ ~Pending("removeTracker", page.id)
  /\ Mutate("removeTracker", page.at, page.id)
  /\ UNCHANGED <<serverVars, list, pageVars, reads, confirmVars, mounts>>

DeleteCategory(c) ==
  /\ Move
  /\ page.at = "categories" /\ c \in categories
  /\ Ask("deleteCategory", c, page.id)
  /\ UNCHANGED pageVars

------------------------------------------------------------------------------
(* The server, its answers, and others. *)

Effect(r, row) ==
  CASE r.kind = "pause" -> [row EXCEPT !.status = IF @ = "downloading" THEN "paused" ELSE @]
    [] r.kind = "resume" ->
         [status |-> IF row.status = "paused" THEN "downloading" ELSE row.status,
          stalled |-> FALSE]
    [] r.kind = "forceStart" -> [row EXCEPT !.status = IF @ = "paused" THEN "downloading" ELSE @]
    [] r.kind \in {"remove", "deleteFiles", "deleteEverything"} -> [status |-> "gone", stalled |-> FALSE]
    [] OTHER -> row

\* The server carries a request out, or refuses it, or it is lost on the way.
Serve(r) ==
  /\ r.stage = "sent"
  /\ \/ /\ r.kind = "add"
        /\ server' = [server EXCEPT ![r.of].status = IF @ = "gone" THEN "downloading" ELSE @]
        /\ UNCHANGED categories
     \/ /\ r.of \in Hashes /\ server[r.of].status # "gone"
        /\ server' = [server EXCEPT ![r.of] = Effect(r, @)]
        /\ UNCHANGED categories
     \/ /\ r.kind = "createCategory" /\ r.of \notin categories
        /\ categories' = categories \cup {r.of} /\ UNCHANGED server
     \/ /\ r.kind = "deleteCategory" /\ r.of \in categories
        /\ categories' = categories \ {r.of} /\ UNCHANGED server
  /\ requests' = (requests \ {r}) \cup {[r EXCEPT !.stage = "ok"]}
  /\ UNCHANGED <<list, pageVars, reads, confirmVars, counts>>

Refuse(r) ==
  /\ r.stage # "failed"
  /\ requests' = (requests \ {r}) \cup {[r EXCEPT !.stage = "failed"]}
  /\ UNCHANGED <<serverVars, list, pageVars, reads, confirmVars, counts>>

\* onSuccess of each call: the submodal and the add modal close, the detail
\* page goes back to the list, the forms are emptied.
OnSuccess(r) ==
  CASE r.kind \in {"category", "location"} -> submodal' = None /\ UNCHANGED <<page, menu, add, form>>
    [] r.kind = "add" -> add' = None /\ UNCHANGED <<page, menu, submodal, form>>
    [] r.kind = "deleteEverything" -> GoTo("list")
    [] r.kind = "addTrackers" ->
         form' = [open |-> FALSE, text |-> FALSE] /\ UNCHANGED <<page, menu, submodal, add>>
    [] r.kind = "createCategory" ->
         form' = [form EXCEPT !.text = FALSE] /\ UNCHANGED <<page, menu, submodal, add>>
    [] OTHER -> UNCHANGED pageVars

\* (mutant) The callbacks run whoever is mounted.
AnsweredAlways(r) ==
  /\ IF r.stage = "ok" THEN OnSuccess(r) ELSE UNCHANGED pageVars
  /\ mounts' = IF page' = page THEN mounts ELSE mounts + 1

\* An answer: the callbacks given to mutate() run if the component is still
\* mounted and has sent nothing since.
Answered(r) ==
  /\ IF r.stage = "ok" /\ r.from \in Mounted /\ Latest(r) THEN OnSuccess(r)
     ELSE UNCHANGED pageVars
  /\ mounts' = IF page' = page THEN mounts ELSE mounts + 1

Answer(r) ==
  /\ r.stage # "sent"
  /\ Answered(r)
  /\ requests' = requests \ {r}
  /\ UNCHANGED <<serverVars, list, reads, confirmVars, sent, moves>>

\* The list is fetched again (LiveFeed says when).
Refresh ==
  /\ list # server /\ list' = server
  /\ UNCHANGED <<serverVars, pageVars, reads, confirmVars, requests, counts>>

\* The engine, the watchers or another client.
Change(h, row) ==
  /\ Move
  /\ server[h].status # "gone" /\ row # server[h]
  /\ row.stalled => row.status = "paused"
  /\ server' = [server EXCEPT ![h] = row]
  /\ UNCHANGED <<categories, list, pageVars, reads, confirmVars, requests, mounts, sent>>

------------------------------------------------------------------------------
Init ==
  /\ server = FirstServer /\ categories = FirstCategories /\ list = server
  /\ page = [at |-> "list", id |-> 1]
  /\ menu = None /\ submodal = None /\ add = None
  /\ form = [open |-> FALSE, text |-> FALSE]
  /\ reads = {} /\ dialog = None /\ waiter = None /\ requests = {}
  /\ mounts = 1 /\ sent = 0 /\ moves = 0

UserStep ==
  \/ \E p \in Pages : Navigate(p)
  \/ Accept \/ Dismiss \/ Escape
  \/ \E h \in Hashes : PauseButton(h) \/ RemoveButton(h) \/ OpenMenu(h) \/ HandleAdd(h)
  \/ DetailDelete \/ CloseMenu \/ MenuRun
  \/ \E k \in {"remove", "deleteFiles", "recheck"} : MenuAsk(k)
  \/ \E k \in Submodals : MenuSubmodal(k)
  \/ SubmodalSubmit \/ CancelSubmodal \/ OpenAdd \/ EditAdd \/ CancelAdd
  \/ EditForm \/ SubmitForm \/ RemoveTracker
  \/ \E c \in Names : DeleteCategory(c)

OtherStep ==
  \/ \E f \in reads : ReadDone(f)
  \/ \E r \in requests : Serve(r) \/ Refuse(r) \/ Answer(r)
  \/ Refresh
  \/ \E h \in Hashes, row \in Row : Change(h, row)

Next == UserStep \/ OtherStep

Spec == Init /\ [][Next]_vars

------------------------------------------------------------------------------
(* Properties. *)

\* Nothing that asks first is sent but what the dialog showed when its button
\* was pressed: the torrent or category named there, and with the files only
\* if it said so, however many questions were asked over one another and
\* whatever became of the components that asked (ConfirmDialog.tsx 55-68).
SendsWhatWasShown ==
  [][\A r \in requests' \ requests :
       r.kind \in Confirmed /\ r.n \notin {q.n : q \in requests} =>
         dialog # None /\ dialog.kind = r.kind /\ dialog.of = r.of]_vars

\* An answer closes the modal, or leaves the page, that asked for it, never
\* another one opened since (TorrentList.tsx 137-140, 153-156, 1157-1160,
\* 1261-1264; TorrentDetail.tsx 58-61).  A modal of the same kind opened over the
\* one that asked, without closing it, is that very component (1082-1090): it is
\* closed by the answer about the first torrent.
AnswersCloseTheirOwn ==
  [][\A r \in requests : r.n \notin {q.n : q \in requests'} =>
       /\ submodal' # submodal =>
            /\ submodal.id = r.from /\ submodal.kind = r.kind
            /\ submodal.of = r.of \/ submodal.over
       /\ add' # add => add.id = r.from
       /\ page' # page => page.id = r.from /\ page.at = r.of]_vars
==============================================================================
