------------------------- MODULE TorrentActionsProofs -------------------------
(***************************************************************************)
(* Proofs about the confirmation dialog and the answers of mutations, for  *)
(* any torrents, categories and number of moves.                           *)
(***************************************************************************)
EXTENDS TorrentActions, TLAPS

------------------------------------------------------------------------------
(* Shapes *)

Kinds ==
  Confirmed \cup Submodals \cup
  {"pause", "resume", "forceStart", "reannounce", "research", "removeTags",
   "add", "addTrackers", "removeTracker", "createCategory"}

Files == {"torrent", "damaged"}
Request ==
  [n : Nat, kind : Kinds, of : Hashes \cup Names, from : Nat,
   stage : {"sent", "ok", "failed"}, current : BOOLEAN]
SubmodalRecord == [kind : Submodals, of : Hashes, over : BOOLEAN, id : Nat]
Read == [n : Nat, of : Hashes, file : Files, from : Nat]

ServerTypes ==
  server \in [Hashes -> Row] /\ list \in [Hashes -> Row] /\ categories \subseteq Names

PageTypes ==
  /\ mounts \in Nat
  /\ page \in [at : Pages, id : Nat]
  /\ menu # None => menu \in [of : Hashes, was : Row] /\ menu.was.status # "gone"
  /\ submodal # None => submodal \in SubmodalRecord
  /\ page.at # "list" => menu = None /\ submodal = None /\ add = None

AddTypes ==
  /\ add # None => add \in [uri : BOOLEAN, file : {""} \cup Files, error : BOOLEAN, id : Nat]
  /\ add # None /\ add.file # "" => ~add.uri

DialogTypes == dialog \in Questions /\ waiter = dialog

RequestTypes ==
  /\ sent \in Nat
  /\ requests \subseteq Request /\ \A r \in requests : r.n \in 1 .. sent
  /\ \A r \in requests : r.kind = "createCategory" => r.of \in Names
  /\ reads \subseteq Read /\ \A f \in reads : f.n \in 1 .. sent

Shapes ==
  /\ ServerTypes /\ PageTypes /\ AddTypes /\ DialogTypes /\ RequestTypes
  /\ form \in [open : BOOLEAN, text : BOOLEAN]

\* What a new request does to those before it: at most they are dropped.
LEMMA DroppedTypes ==
  ASSUME RequestTypes, NEW kind, NEW id, NEW q \in Dropped(kind, id)
  PROVE  /\ q \in Request
         /\ \E r \in requests : q.n = r.n /\ q.kind = r.kind /\ q.of = r.of /\ q.from = r.from
<1>1. PICK r \in requests :
        q = IF r.kind = kind /\ r.from = id THEN [r EXCEPT !.current = FALSE] ELSE r
  BY DEF Dropped
<1>2. r \in Request
  BY DEF RequestTypes
<1>3. [r EXCEPT !.current = FALSE] \in Request
  BY <1>2 DEF Request
<1>4. /\ [r EXCEPT !.current = FALSE].n = r.n
      /\ [r EXCEPT !.current = FALSE].kind = r.kind
      /\ [r EXCEPT !.current = FALSE].of = r.of
      /\ [r EXCEPT !.current = FALSE].from = r.from
  BY <1>2 DEF Request
<1>. QED
  BY <1>1, <1>2, <1>3, <1>4

\* A request that was there is still there under its number.
LEMMA DroppedKeepsNumbers ==
  ASSUME RequestTypes, NEW kind, NEW id, NEW r \in requests
  PROVE  \E q \in Dropped(kind, id) : q.n = r.n
<1>1. r \in Request
  BY DEF RequestTypes
<1>2. [r EXCEPT !.current = FALSE].n = r.n
  BY <1>1 DEF Request
<1>3. (IF r.kind = kind /\ r.from = id THEN [r EXCEPT !.current = FALSE] ELSE r)
        \in Dropped(kind, id)
  BY DEF Dropped
<1>. QED
  BY <1>2, <1>3

LEMMA MutateTypes ==
  ASSUME RequestTypes, NEW kind \in Kinds, NEW x \in Hashes \cup Names, NEW id \in Nat,
         kind = "createCategory" => x \in Names,
         Mutate(kind, x, id), reads' \subseteq reads
  PROVE  RequestTypes'
<1>. DEFINE new == [n |-> sent + 1, kind |-> kind, of |-> x, from |-> id, stage |-> "sent",
                    current |-> TRUE]
            old == Dropped(kind, id)
<1>1. sent \in Nat /\ sent' = sent + 1 /\ requests' = old \cup {new}
  BY DEF RequestTypes, Mutate
<1>2. new \in Request /\ new.n = sent + 1 /\ new.kind = kind /\ new.of = x
  BY <1>1 DEF Request
<1>3. \A q \in old : /\ q \in Request /\ q.n \in 1 .. sent
                     /\ q.kind = "createCategory" => q.of \in Names
  BY DroppedTypes DEF RequestTypes
<1>4. reads' \subseteq Read /\ \A f \in reads' : f.n \in 1 .. sent
  BY DEF RequestTypes
<1>. HIDE DEF new, old
<1>5. requests' \subseteq Request /\ \A q \in requests' : q.n \in 1 .. sent'
  BY <1>1, <1>2, <1>3
<1>6. \A q \in requests' : q.kind = "createCategory" => q.of \in Names
  BY <1>1, <1>2, <1>3
<1>. QED
  BY <1>1, <1>4, <1>5, <1>6 DEF RequestTypes

\* An answered or served request keeps everything but its stage.
LEMMA StageTypes ==
  ASSUME RequestTypes, NEW r \in requests, NEW s \in {"sent", "ok", "failed"}
  PROVE  /\ [r EXCEPT !.stage = s] \in Request
         /\ [r EXCEPT !.stage = s].n = r.n
         /\ [r EXCEPT !.stage = s].kind = r.kind
         /\ [r EXCEPT !.stage = s].of = r.of
         /\ [r EXCEPT !.stage = s].from = r.from
BY DEF RequestTypes, Request

LEMMA StagedTypes ==
  ASSUME RequestTypes, NEW r \in requests, NEW s \in {"sent", "ok", "failed"},
         requests' = (requests \ {r}) \cup {[r EXCEPT !.stage = s]},
         sent' = sent, reads' = reads
  PROVE  RequestTypes'
<1>. DEFINE q == [r EXCEPT !.stage = s]
<1>1. q \in Request /\ q.n = r.n /\ q.kind = r.kind /\ q.of = r.of
  BY StageTypes
<1>2. requests' = (requests \ {r}) \cup {q}
  OBVIOUS
<1>. HIDE DEF q
<1>. QED
  BY <1>1, <1>2 DEF RequestTypes

LEMMA InitShapes == Init => Shapes
BY ActionsAssumption
   DEF Init, Shapes, ServerTypes, PageTypes, AddTypes, DialogTypes, RequestTypes, Pages, Questions

\* The modal for adding stays, or goes; so does the form.
LEMMA AddKept ==
  ASSUME AddTypes, add' \in {add, None}
  PROVE  AddTypes'
<1>1. CASE add' = None
  BY <1>1 DEF AddTypes
<1>2. CASE add' = add
  BY <1>2 DEF AddTypes
<1>. QED
  BY <1>1, <1>2

LEMMA FormKept ==
  ASSUME form \in [open : BOOLEAN, text : BOOLEAN],
         \/ form' = form
         \/ form' = [open |-> FALSE, text |-> FALSE]
         \/ form' = [form EXCEPT !.open = TRUE]
         \/ form' = [form EXCEPT !.text = TRUE]
         \/ form' = [form EXCEPT !.text = FALSE]
  PROVE  form' \in [open : BOOLEAN, text : BOOLEAN]
<1>1. CASE form' = form
  BY <1>1
<1>2. CASE form' = [open |-> FALSE, text |-> FALSE]
  BY <1>2
<1>3. CASE form' = [form EXCEPT !.open = TRUE]
  BY <1>3
<1>4. CASE form' = [form EXCEPT !.text = TRUE]
  BY <1>4
<1>5. CASE form' = [form EXCEPT !.text = FALSE]
  BY <1>5
<1>. QED
  BY <1>1, <1>2, <1>3, <1>4, <1>5

LEMMA EffectTypes ==
  ASSUME NEW r \in Request, NEW row \in Row
  PROVE  Effect(r, row) \in Row
BY DEF Effect, Row, Statuses, Request

\* A page of its own id comes up with nothing over it.
LEMMA GoToTypes ==
  ASSUME NEW p \in Pages, mounts \in Nat, GoTo(p), mounts' = mounts + 1
  PROVE  PageTypes' /\ AddTypes' /\ form' \in [open : BOOLEAN, text : BOOLEAN]
<1>1. (p = "categories") \in BOOLEAN
  OBVIOUS
<1>2. form' \in [open : BOOLEAN, text : BOOLEAN]
  BY <1>1 DEF GoTo
<1>. QED
  BY <1>2 DEF GoTo, PageTypes, AddTypes

\* What an answered request does to the pages.
LEMMA SuccessTypes ==
  ASSUME Shapes, NEW r \in requests, OnSuccess(r),
         mounts' = IF page' = page THEN mounts ELSE mounts + 1
  PROVE  PageTypes' /\ AddTypes' /\ form' \in [open : BOOLEAN, text : BOOLEAN]
<1>. USE DEF pageVars
<1>1. CASE r.kind \in {"category", "location"}
  <2>1. submodal' = None /\ page' = page /\ menu' = menu /\ add' = add /\ form' = form
    BY <1>1 DEF OnSuccess
  <2>2. PageTypes'
    BY <2>1 DEF Shapes, PageTypes
  <2>. QED
    BY <2>1, <2>2, AddKept DEF Shapes
<1>2. CASE r.kind = "add"
  <2>1. add' = None /\ page' = page /\ menu' = menu /\ submodal' = submodal /\ form' = form
    BY <1>2 DEF OnSuccess
  <2>2. PageTypes'
    BY <2>1 DEF Shapes, PageTypes
  <2>. QED
    BY <2>1, <2>2, AddKept DEF Shapes
<1>3. CASE r.kind = "deleteEverything"
  <2>1. GoTo("list") /\ "list" \in Pages /\ mounts \in Nat
    BY <1>3 DEF OnSuccess, Pages, Shapes, PageTypes
  <2>2. page'.id = mounts + 1
    BY <2>1 DEF GoTo
  <2>3. CASE page' = page
    BY <2>1, <2>3 DEF GoTo, Shapes, PageTypes, AddTypes
  <2>4. CASE page' # page
    BY <2>1, <2>4, GoToTypes
  <2>. QED
    BY <2>3, <2>4
<1>4. CASE r.kind = "addTrackers"
  <2>1. /\ form' = [open |-> FALSE, text |-> FALSE]
        /\ page' = page /\ menu' = menu /\ submodal' = submodal /\ add' = add
    BY <1>4 DEF OnSuccess
  <2>2. PageTypes'
    BY <2>1 DEF Shapes, PageTypes
  <2>. QED
    BY <2>1, <2>2, AddKept DEF Shapes
<1>5. CASE r.kind = "createCategory"
  <2>1. form' = [form EXCEPT !.text = FALSE] /\ UNCHANGED <<page, menu, submodal, add>>
    BY <1>5 DEF OnSuccess
  <2>2. form' \in [open : BOOLEAN, text : BOOLEAN]
    BY <2>1 DEF Shapes
  <2>. QED
    BY <2>1, <2>2 DEF Shapes, PageTypes, AddTypes
<1>6. CASE r.kind \notin {"category", "location", "add", "deleteEverything", "addTrackers",
                          "createCategory"}
  BY <1>6 DEF OnSuccess, Shapes, PageTypes, AddTypes
<1>. QED
  BY <1>1, <1>2, <1>3, <1>4, <1>5, <1>6

\* Asking stores a question for both the dialog and its caller.
LEMMA AskTypes ==
  ASSUME Shapes, NEW kind \in Confirmed, NEW x \in Hashes \cup Names, NEW id \in Nat,
         Ask(kind, x, id)
  PROVE  ServerTypes' /\ DialogTypes' /\ RequestTypes'
BY DEF Ask, Confirm, Shapes, ServerTypes, DialogTypes, RequestTypes, Questions, serverVars

LEMMA StepShapes == Shapes /\ [Next]_vars => Shapes'
<1>. SUFFICES ASSUME Shapes, [Next]_vars PROVE Shapes'
  OBVIOUS
<1>. USE DEF serverVars, pageVars, confirmVars, counts
<1>1. ASSUME NEW p \in Pages, Navigate(p) PROVE Shapes'
  <2>1. PageTypes' /\ AddTypes' /\ form' \in [open : BOOLEAN, text : BOOLEAN]
    BY <1>1, GoToTypes DEF Navigate, Mount, Shapes, PageTypes
  <2>2. ServerTypes' /\ DialogTypes' /\ RequestTypes'
    BY <1>1 DEF Navigate, Shapes, ServerTypes, DialogTypes, RequestTypes
  <2>. QED
    BY <2>1, <2>2 DEF Shapes
<1>2. CASE Accept
  <2>1. ServerTypes' /\ PageTypes' /\ AddTypes' /\ DialogTypes' /\ form' = form
    BY <1>2 DEF Accept, Close, Shapes, ServerTypes, PageTypes, AddTypes, DialogTypes, Questions
  <2>2. waiter \in [kind : Confirmed, of : Hashes \cup Names, id : Nat]
    BY <1>2 DEF Accept, Shapes, DialogTypes, Questions
  <2>3. /\ waiter.kind \in Kinds /\ waiter.kind # "createCategory"
        /\ waiter.of \in Hashes \cup Names /\ waiter.id \in Nat
    BY <2>2 DEF Kinds, Confirmed
  <2>4. RequestTypes'
    BY <1>2, <2>3, MutateTypes DEF Accept, Shapes, DialogTypes
  <2>. QED
    BY <2>1, <2>4 DEF Shapes
<1>3. CASE Dismiss \/ Escape
  <2>1. ServerTypes' /\ RequestTypes'
    BY <1>3 DEF Dismiss, Escape, Shapes, ServerTypes, RequestTypes
  <2>2. DialogTypes'
    BY <1>3 DEF Dismiss, Escape, Close, DialogTypes, Questions
  <2>3. PageTypes'
    BY <1>3 DEF Dismiss, Escape, Shapes, PageTypes
  <2>4. AddTypes' /\ form' = form
    BY <1>3, AddKept DEF Dismiss, Escape, Shapes
  <2>. QED
    BY <2>1, <2>2, <2>3, <2>4 DEF Shapes
<1>4. ASSUME NEW h \in Hashes, PauseButton(h) PROVE Shapes'
  <2>1. RequestTypes'
    BY <1>4, MutateTypes DEF PauseButton, Shapes, PageTypes, Kinds
  <2>. QED
    BY <1>4, <2>1 DEF PauseButton, Shapes, ServerTypes, PageTypes, AddTypes, DialogTypes
<1>5. ASSUME NEW h \in Hashes, RemoveButton(h) PROVE Shapes'
  <2>1. ServerTypes' /\ DialogTypes' /\ RequestTypes'
    BY <1>5, AskTypes DEF RemoveButton, Shapes, PageTypes, Confirmed
  <2>. QED
    BY <1>5, <2>1 DEF RemoveButton, Ask, Shapes, PageTypes, AddTypes
<1>6. ASSUME NEW h \in Hashes, OpenMenu(h) PROVE Shapes'
  <2>1. menu' = [of |-> h, was |-> list[h]]
    BY <1>6 DEF OpenMenu
  <2>2. list[h] \in Row /\ list[h].status # "gone" /\ mounts \in Nat
    BY <1>6 DEF OpenMenu, Shown, Shapes, ServerTypes, PageTypes
  <2>3. menu' \in [of : Hashes, was : Row] /\ menu'.was.status # "gone"
    BY <2>1, <2>2
  <2>4. PageTypes'
    BY <1>6, <2>1, <2>2, <2>3 DEF OpenMenu, Shapes, PageTypes
  <2>5. ServerTypes' /\ DialogTypes' /\ RequestTypes'
    BY <1>6 DEF OpenMenu, Shapes, ServerTypes, DialogTypes, RequestTypes
  <2>. QED
    BY <1>6, <2>4, <2>5, AddKept DEF OpenMenu, Shapes
<1>7. ASSUME NEW h \in Hashes, HandleAdd(h) PROVE Shapes'
  <2>1. add \in [uri : BOOLEAN, file : {""} \cup Files, error : BOOLEAN, id : Nat]
    BY <1>7 DEF HandleAdd, CanSubmit, Shapes, AddTypes
  <2>2. add.id \in Nat /\ add.file \in {""} \cup Files
    BY <2>1
  <2>3. ASSUME add.file = "" PROVE RequestTypes'
    <3>1. Mutate("add", h, add.id) /\ reads' = reads
      BY <1>7, <2>3 DEF HandleAdd
    <3>. QED
      BY <2>2, <3>1, MutateTypes DEF Shapes, Kinds
  <2>4. ASSUME add.file # "" PROVE RequestTypes'
    <3>1. sent \in Nat /\ sent + 1 \in Nat
      BY DEF Shapes, RequestTypes
    <3>2. [n |-> sent + 1, of |-> h, file |-> add.file, from |-> add.id] \in Read
      BY <2>2, <2>4, <3>1 DEF Read
    <3>3. /\ sent' = sent + 1 /\ requests' = requests
          /\ reads' = reads \cup
               {[n |-> sent + 1, of |-> h, file |-> add.file, from |-> add.id]}
      BY <1>7, <2>4 DEF HandleAdd
    <3>. QED
      BY <3>1, <3>2, <3>3 DEF Shapes, RequestTypes
  <2>5. RequestTypes'
    BY <2>3, <2>4
  <2>. QED
    BY <1>7, <2>5, AddKept DEF HandleAdd, Shapes, ServerTypes, PageTypes, DialogTypes
<1>8. CASE DetailDelete
  <2>1. ServerTypes' /\ DialogTypes' /\ RequestTypes'
    BY <1>8, AskTypes DEF DetailDelete, Shapes, PageTypes, Confirmed
  <2>. QED
    BY <1>8, <2>1 DEF DetailDelete, Ask, Shapes, PageTypes, AddTypes
<1>9. CASE CloseMenu
  BY <1>9 DEF CloseMenu, Shapes, ServerTypes, PageTypes, AddTypes, DialogTypes, RequestTypes
<1>10. CASE MenuRun
  <2>1. menu \in [of : Hashes, was : Row]
    BY <1>10 DEF MenuRun, Shapes, PageTypes
  <2>2. Offered(menu.was, menu.of) \subseteq Kinds \ {"createCategory"}
    BY DEF Offered, Kinds
  <2>3. RequestTypes'
    BY <1>10, <2>1, <2>2, MutateTypes DEF MenuRun, NoNumber, Shapes
  <2>. QED
    BY <1>10, <2>3 DEF MenuRun, Shapes, ServerTypes, PageTypes, AddTypes, DialogTypes
<1>11. ASSUME NEW k \in {"remove", "deleteFiles", "recheck"}, MenuAsk(k) PROVE Shapes'
  <2>1. ServerTypes' /\ DialogTypes' /\ RequestTypes'
    BY <1>11, AskTypes DEF MenuAsk, NoNumber, Shapes, PageTypes, Confirmed
  <2>. QED
    BY <1>11, <2>1 DEF MenuAsk, Ask, Shapes, PageTypes, AddTypes
<1>12. ASSUME NEW k \in Submodals, MenuSubmodal(k) PROVE Shapes'
  <2>1. menu \in [of : Hashes, was : Row] /\ mounts \in Nat
    BY <1>12 DEF MenuSubmodal, Shapes, PageTypes
  <2>2. menu.of \in Hashes
    BY <2>1
  <2>3. mounts' \in Nat /\ submodal' \in SubmodalRecord
    <3>1. CASE ReplacesSubmodal(k)
      <4>1. submodal \in SubmodalRecord
        BY <3>1 DEF ReplacesSubmodal, Shapes, PageTypes
      <4>2. mounts' = mounts /\ submodal' = [submodal EXCEPT !.of = menu.of, !.over = TRUE]
        BY <1>12, <3>1 DEF MenuSubmodal
      <4>. QED
        BY <2>1, <2>2, <4>1, <4>2 DEF SubmodalRecord
    <3>2. CASE ~ReplacesSubmodal(k)
      <4>1. /\ mounts' = mounts + 1
            /\ submodal' = [kind |-> k, of |-> menu.of, over |-> FALSE, id |-> mounts']
        BY <1>12, <3>2 DEF MenuSubmodal, Mount
      <4>. QED
        BY <2>1, <2>2, <4>1 DEF SubmodalRecord
    <3>. QED
      BY <3>1, <3>2
  <2>4. PageTypes'
    BY <1>12, <2>3 DEF MenuSubmodal, Shapes, PageTypes
  <2>5. ServerTypes' /\ DialogTypes' /\ RequestTypes'
    BY <1>12 DEF MenuSubmodal, Shapes, ServerTypes, DialogTypes, RequestTypes
  <2>. QED
    BY <1>12, <2>4, <2>5, AddKept DEF MenuSubmodal, Shapes
<1>13. CASE SubmodalSubmit
  <2>1. submodal \in SubmodalRecord
    BY <1>13 DEF SubmodalSubmit, Shapes, PageTypes
  <2>2. /\ submodal.kind \in Kinds \ {"createCategory"} /\ "removeTags" \in Kinds
        /\ submodal.of \in Hashes /\ submodal.id \in Nat
    BY <2>1 DEF Kinds, Submodals, SubmodalRecord
  <2>3. RequestTypes'
    BY <1>13, <2>2, MutateTypes DEF SubmodalSubmit, Shapes
  <2>. QED
    BY <1>13, <2>3 DEF SubmodalSubmit, Shapes, ServerTypes, PageTypes, AddTypes, DialogTypes
<1>14. CASE CancelSubmodal
  BY <1>14 DEF CancelSubmodal, Shapes, ServerTypes, PageTypes, AddTypes, DialogTypes, RequestTypes
<1>15. CASE OpenAdd
  <2>1. add' = [uri |-> FALSE, file |-> "", error |-> FALSE, id |-> mounts']
    BY <1>15 DEF OpenAdd
  <2>2. mounts' \in Nat
    <3>1. mounts \in Nat /\ mounts' = mounts + 1
      BY <1>15 DEF OpenAdd, Mount, Shapes, PageTypes
    <3>. QED
      BY <3>1
  <2>3. AddTypes'
    BY <2>1, <2>2 DEF AddTypes
  <2>4. PageTypes'
    BY <1>15, <2>2 DEF OpenAdd, Shapes, PageTypes
  <2>. QED
    BY <1>15, <2>3, <2>4 DEF OpenAdd, Shapes, ServerTypes, DialogTypes, RequestTypes
<1>16. CASE EditAdd
  <2>1. add \in [uri : BOOLEAN, file : {""} \cup Files, error : BOOLEAN, id : Nat]
    BY <1>16 DEF EditAdd, Shapes, AddTypes
  <2>2. AddTypes'
    <3>1. CASE add.file = "" /\ add' = [add EXCEPT !.uri = ~@]
      BY <2>1, <3>1 DEF AddTypes
    <3>2. ASSUME NEW f \in {"torrent", "damaged"}, HandlePickedFile(f) PROVE AddTypes'
      BY <2>1, <3>2 DEF AddTypes, HandlePickedFile, Files
    <3>3. CASE add' = [add EXCEPT !.file = "", !.error = TRUE]
      BY <2>1, <3>3 DEF AddTypes
    <3>4. CASE add' = [add EXCEPT !.file = ""]
      BY <2>1, <3>4 DEF AddTypes
    <3>. QED
      BY <1>16, <3>1, <3>2, <3>3, <3>4 DEF EditAdd
  <2>3. page.at = "list"
    BY <1>16 DEF EditAdd, Shapes, PageTypes
  <2>. QED
    BY <1>16, <2>2, <2>3 DEF EditAdd, Shapes, ServerTypes, PageTypes, DialogTypes, RequestTypes
<1>28. CASE CancelAdd
  <2>1. ServerTypes' /\ DialogTypes' /\ RequestTypes' /\ form' = form
    BY <1>28 DEF CancelAdd, Shapes, ServerTypes, DialogTypes, RequestTypes
  <2>2. PageTypes' /\ AddTypes'
    BY <1>28, AddKept DEF CancelAdd, Shapes, PageTypes
  <2>. QED
    BY <2>1, <2>2 DEF Shapes
<1>17. CASE EditForm
  <2>1. form' \in [open : BOOLEAN, text : BOOLEAN]
    BY <1>17, FormKept DEF EditForm, Shapes
  <2>. QED
    BY <1>17, <2>1, AddKept DEF EditForm, Shapes, ServerTypes, PageTypes, DialogTypes, RequestTypes
<1>18. CASE SubmitForm
  <2>1. RequestTypes'
    BY <1>18, MutateTypes DEF SubmitForm, Shapes, PageTypes, Kinds
  <2>. QED
    BY <1>18, <2>1 DEF SubmitForm, Shapes, ServerTypes, PageTypes, AddTypes, DialogTypes
<1>19. CASE RemoveTracker
  <2>1. RequestTypes'
    BY <1>19, MutateTypes DEF RemoveTracker, Shapes, PageTypes, Kinds
  <2>. QED
    BY <1>19, <2>1 DEF RemoveTracker, Shapes, ServerTypes, PageTypes, AddTypes, DialogTypes
<1>20. ASSUME NEW c \in Names, DeleteCategory(c) PROVE Shapes'
  <2>1. ServerTypes' /\ DialogTypes' /\ RequestTypes'
    BY <1>20, AskTypes DEF DeleteCategory, Shapes, PageTypes, Confirmed
  <2>. QED
    BY <1>20, <2>1 DEF DeleteCategory, Ask, Shapes, PageTypes, AddTypes
<1>21. ASSUME NEW f \in reads, ReadDone(f) PROVE Shapes'
  <2>0. f \in Read
    BY DEF Shapes, RequestTypes
  <2>1. f.of \in Hashes \cup Names /\ f.from \in Nat /\ "add" \in Kinds
    BY <2>0 DEF Read, Kinds
  <2>5. reads' \subseteq reads
    BY <1>21 DEF ReadDone
  <2>2. ASSUME f.file = "torrent" PROVE RequestTypes'
    <3>1. Mutate("add", f.of, f.from)
      BY <1>21, <2>2 DEF ReadDone
    <3>. QED
      BY <2>1, <2>5, <3>1, MutateTypes DEF Shapes
  <2>3. ASSUME f.file # "torrent" PROVE RequestTypes'
    <3>1. requests' = requests /\ sent' = sent
      BY <1>21, <2>3 DEF ReadDone
    <3>. QED
      BY <2>5, <3>1 DEF Shapes, RequestTypes
  <2>4. AddTypes' /\ PageTypes'
    BY <1>21 DEF ReadDone, Shapes, PageTypes, AddTypes, None
  <2>. QED
    BY <1>21, <2>2, <2>3, <2>4 DEF ReadDone, Shapes, ServerTypes, DialogTypes
<1>22. ASSUME NEW r \in requests, Serve(r) PROVE Shapes'
  <2>1. RequestTypes'
    BY <1>22, StagedTypes DEF Serve, Shapes
  <2>2. r \in Request
    BY DEF Shapes, RequestTypes
  <2>3. server' \in [Hashes -> Row]
    <3>1. CASE server' = [server EXCEPT ![r.of].status = IF @ = "gone" THEN "downloading" ELSE @]
      <4>1. CASE r.of \in Hashes
        <5>1. server[r.of] \in Row
          BY <4>1 DEF Shapes, ServerTypes
        <5>2. [server[r.of] EXCEPT !.status = IF @ = "gone" THEN "downloading" ELSE @] \in Row
          BY <5>1 DEF Row, Statuses
        <5>. QED
          BY <3>1, <4>1, <5>2 DEF Shapes, ServerTypes
      <4>2. CASE r.of \notin Hashes
        BY <3>1, <4>2 DEF Shapes, ServerTypes
      <4>. QED
        BY <4>1, <4>2
    <3>2. CASE r.of \in Hashes /\ server' = [server EXCEPT ![r.of] = Effect(r, @)]
      BY <2>2, <3>2, EffectTypes DEF Shapes, ServerTypes
    <3>. QED
      BY <1>22, <3>1, <3>2 DEF Serve, Shapes, ServerTypes
  <2>4. categories' \subseteq Names
    <3>1. \/ categories' = categories \/ categories' = categories \ {r.of}
          \/ r.kind = "createCategory" /\ categories' = categories \cup {r.of}
      BY <1>22 DEF Serve
    <3>. QED
      BY <3>1 DEF Shapes, ServerTypes, RequestTypes
  <2>. QED
    BY <1>22, <2>1, <2>3, <2>4 DEF Serve, Shapes, ServerTypes, PageTypes, AddTypes, DialogTypes
<1>23. ASSUME NEW r \in requests, Refuse(r) PROVE Shapes'
  <2>1. RequestTypes'
    BY <1>23, StagedTypes DEF Refuse, Shapes
  <2>. QED
    BY <1>23, <2>1 DEF Refuse, Shapes, ServerTypes, PageTypes, AddTypes, DialogTypes
<1>24. ASSUME NEW r \in requests, Answer(r) PROVE Shapes'
  <2>1. PageTypes' /\ AddTypes' /\ form' \in [open : BOOLEAN, text : BOOLEAN]
    BY <1>24, SuccessTypes DEF Answer, Answered, Shapes, PageTypes, AddTypes
  <2>. QED
    BY <1>24, <2>1 DEF Answer, Shapes, ServerTypes, DialogTypes, RequestTypes
<1>25. CASE Refresh
  BY <1>25 DEF Refresh, Shapes, ServerTypes, PageTypes, AddTypes, DialogTypes, RequestTypes
<1>26. ASSUME NEW h \in Hashes, NEW row \in Row, Change(h, row) PROVE Shapes'
  BY <1>26 DEF Change, Shapes, ServerTypes, PageTypes, AddTypes, DialogTypes, RequestTypes
<1>27. CASE UNCHANGED vars
  BY <1>27 DEF vars, Shapes, ServerTypes, PageTypes, AddTypes, DialogTypes, RequestTypes
<1>. QED
  BY <1>1, <1>2, <1>3, <1>4, <1>5, <1>6, <1>7, <1>8, <1>9, <1>10, <1>11, <1>12, <1>13,
     <1>14, <1>15, <1>16, <1>17, <1>18, <1>19, <1>20, <1>21, <1>22, <1>23, <1>24, <1>25,
     <1>26, <1>27, <1>28 DEF Next, UserStep, OtherStep

\* Every variable stays in its type, and a page other than the list has no menu
\* and no modal over it, for any torrents and however often the user moves.
THEOREM ActionsTypes == Spec => []TypeOK
<1>1. Shapes => TypeOK
  BY DEF Shapes, ServerTypes, PageTypes, AddTypes, DialogTypes, RequestTypes, TypeOK, Request,
         Files, SubmodalRecord
<1>. QED
  BY InitShapes, StepShapes, <1>1, PTL DEF Spec

------------------------------------------------------------------------------
(* What is sent was shown *)

LEMMA MutateSendsIts ==
  ASSUME RequestTypes, NEW kind, NEW x, NEW id, Mutate(kind, x, id), NEW r \in requests',
         r.n \notin {q.n : q \in requests}
  PROVE  r.kind = kind /\ r.of = x /\ r.from = id
<1>1. r \notin Dropped(kind, id)
  BY DroppedTypes
<1>. QED
  BY <1>1 DEF Mutate

LEMMA StepSendsShown ==
  ASSUME Shapes, Next, NEW r \in requests' \ requests,
         r.kind \in Confirmed, r.n \notin {q.n : q \in requests}
  PROVE  dialog # None /\ dialog.kind = r.kind /\ dialog.of = r.of
<1>. USE DEF pageVars, confirmVars, counts
<1>0. RequestTypes
  BY DEF Shapes
<1>1. CASE Accept
  <2>1. waiter = dialog /\ dialog # None /\ Mutate(waiter.kind, waiter.of, waiter.id)
    BY <1>1 DEF Accept, Shapes, DialogTypes
  <2>. QED
    BY <2>1, <1>0, MutateSendsIts
<1>2. ASSUME NEW h \in Hashes, PauseButton(h) PROVE FALSE
  BY <1>2, <1>0, MutateSendsIts DEF PauseButton, Confirmed
<1>3. ASSUME NEW h \in Hashes, HandleAdd(h) PROVE FALSE
  BY <1>3, <1>0, MutateSendsIts DEF HandleAdd, Confirmed
<1>4. CASE MenuRun
  <2>1. r.kind \in Offered(menu.was, menu.of)
    BY <1>4, <1>0, MutateSendsIts DEF MenuRun
  <2>. QED
    BY <2>1 DEF Offered, Confirmed
<1>5. CASE SubmodalSubmit
  <2>1. r.kind \in {submodal.kind, "removeTags"}
    BY <1>5, <1>0, MutateSendsIts DEF SubmodalSubmit
  <2>2. submodal.kind \in Submodals
    BY <1>5 DEF SubmodalSubmit, Shapes, PageTypes, SubmodalRecord
  <2>. QED
    BY <2>1, <2>2 DEF Submodals, Confirmed
<1>6. CASE SubmitForm
  BY <1>6, <1>0, MutateSendsIts DEF SubmitForm, Confirmed
<1>7. CASE RemoveTracker
  BY <1>7, <1>0, MutateSendsIts DEF RemoveTracker, Confirmed
<1>8. ASSUME NEW f \in reads, ReadDone(f) PROVE FALSE
  BY <1>0, <1>8, MutateSendsIts DEF ReadDone, Confirmed
<1>9. ASSUME NEW q \in requests, Serve(q) \/ Refuse(q) PROVE FALSE
  <2>1. \E s \in {"ok", "failed"} : requests' = (requests \ {q}) \cup {[q EXCEPT !.stage = s]}
    BY <1>9 DEF Serve, Refuse
  <2>2. PICK s \in {"ok", "failed"} : requests' = (requests \ {q}) \cup {[q EXCEPT !.stage = s]}
    BY <2>1
  <2>3. r = [q EXCEPT !.stage = s]
    BY <2>2
  <2>4. r.n = q.n
    BY <2>3, StageTypes DEF Shapes
  <2>. QED
    BY <2>4
<1>10. ASSUME NEW q \in requests, Answer(q) PROVE FALSE
  BY <1>10 DEF Answer
<1>11. requests' = requests => FALSE
  OBVIOUS
<1>12. ASSUME NEW p \in Pages, Navigate(p) PROVE FALSE
  BY <1>11, <1>12 DEF Navigate
<1>13. CASE Dismiss \/ Escape \/ DetailDelete \/ CloseMenu \/ CancelSubmodal \/ OpenAdd
  BY <1>11, <1>13 DEF Dismiss, Escape, DetailDelete, Ask, CloseMenu, CancelSubmodal, OpenAdd
<1>14. CASE EditAdd \/ CancelAdd \/ EditForm \/ Refresh
  BY <1>11, <1>14 DEF EditAdd, CancelAdd, EditForm, Refresh
<1>15. ASSUME NEW h \in Hashes, RemoveButton(h) \/ OpenMenu(h) PROVE FALSE
  BY <1>11, <1>15 DEF RemoveButton, Ask, OpenMenu
<1>16. ASSUME NEW k \in {"remove", "deleteFiles", "recheck"}, MenuAsk(k) PROVE FALSE
  BY <1>11, <1>16 DEF MenuAsk, Ask
<1>17. ASSUME NEW k \in Submodals, MenuSubmodal(k) PROVE FALSE
  BY <1>11, <1>17 DEF MenuSubmodal
<1>18. ASSUME NEW c \in Names, DeleteCategory(c) PROVE FALSE
  BY <1>11, <1>18 DEF DeleteCategory, Ask
<1>19. ASSUME NEW h \in Hashes, NEW row \in Row, Change(h, row) PROVE FALSE
  BY <1>11, <1>19 DEF Change
<1>. QED
  BY <1>1, <1>2, <1>3, <1>4, <1>5, <1>6, <1>7, <1>8, <1>9, <1>10, <1>12, <1>13, <1>14,
     <1>15, <1>16, <1>17, <1>18, <1>19 DEF Next, UserStep, OtherStep

\* Nothing that asks first is ever sent but what the dialog showed when it was
\* accepted, because the call that waits is always the one that is shown:
\* confirm() replaces both, and every way out clears both.
THEOREM SendsShown == Spec => SendsWhatWasShown
<1>1. Shapes /\ [Next]_vars =>
        [\A r \in requests' \ requests :
           r.kind \in Confirmed /\ r.n \notin {q.n : q \in requests} =>
             dialog # None /\ dialog.kind = r.kind /\ dialog.of = r.of]_vars
  <2>. SUFFICES ASSUME Shapes, Next, NEW r \in requests' \ requests, r.kind \in Confirmed,
                       r.n \notin {q.n : q \in requests}
                PROVE  dialog # None /\ dialog.kind = r.kind /\ dialog.of = r.of
    OBVIOUS
  <2>. QED
    BY StepSendsShown
<1>. QED
  BY InitShapes, StepShapes, <1>1, PTL DEF Spec, SendsWhatWasShown

------------------------------------------------------------------------------
(* Answers close their own *)

\* Numbers of what is mounted, each its own.
Ids ==
  /\ page.id \in 1 .. mounts
  /\ submodal.id \in 0 .. mounts /\ add.id \in 0 .. mounts
  /\ page.id \notin {submodal.id, add.id}
  /\ submodal.id # 0 => submodal.id # add.id
  /\ submodal # None => submodal.id # 0
  /\ add # None => add.id # 0

\* Component `id` may have asked this of x: if it is still mounted, it is the one
\* whose callback such an answer runs, and it is still about x unless it was handed
\* another torrent.
Asker(kind, x, id) ==
  /\ id \in 0 .. mounts
  /\ kind \in {"category", "location"} =>
       /\ id \notin {0, page.id, add.id}
       /\ id = submodal.id => submodal.kind = kind /\ (submodal.of = x \/ submodal.over)
  /\ kind = "add" => id \notin {0, page.id, submodal.id}
  /\ kind = "deleteEverything" =>
       id \notin {0, submodal.id, add.id} /\ (id = page.id => page.at # "list" /\ page.at = x)

OwnInv ==
  /\ Ids
  /\ \A r \in requests : Asker(r.kind, r.of, r.from)
  /\ \A f \in reads : Asker("add", f.of, f.from)
  /\ dialog # None => Asker(dialog.kind, dialog.of, dialog.id)

\* What a step may do to the pages: keep a component, take it away, mount one
\* under the next number, or hand the submodal another torrent.
Layout ==
  /\ mounts' \in {mounts, mounts + 1}
  /\ page' = page \/ (page'.id = mounts + 1 /\ mounts' = mounts + 1)
  /\ \/ submodal'.id = 0
     \/ submodal'.id = mounts + 1 /\ mounts' = mounts + 1
     \/ /\ submodal'.id = submodal.id
        /\ submodal'.kind = submodal.kind
        /\ (submodal'.of = submodal.of /\ submodal'.over = submodal.over) \/ submodal'.over
  /\ add'.id \in {add.id, 0} \/ (add'.id = mounts + 1 /\ mounts' = mounts + 1)

LEMMA LayoutKeepsAskers ==
  ASSUME mounts \in Nat, Layout, NEW kind, NEW x, NEW id, Asker(kind, x, id)
  PROVE  Asker(kind, x, id)'
<1>1. id \in 0 .. mounts' /\ id # mounts + 1
  BY DEF Layout, Asker
<1>2. /\ id \notin {0, submodal.id} => id # submodal'.id
      /\ id \notin {0, add.id} => id # add'.id
      /\ id \notin {page.id} => id # page'.id
  BY <1>1 DEF Layout
<1>3. id = page'.id => page' = page
  BY <1>1 DEF Layout
<1>4. id # 0 /\ id = submodal'.id =>
        /\ id = submodal.id /\ submodal'.kind = submodal.kind
        /\ (submodal'.of = submodal.of /\ submodal'.over = submodal.over) \/ submodal'.over
  BY <1>1 DEF Layout
<1>5. kind \in {"category", "location"} =>
        /\ id \notin {0, page'.id, add'.id}
        /\ id = submodal'.id => submodal'.kind = kind /\ (submodal'.of = x \/ submodal'.over)
  BY <1>2, <1>4 DEF Asker
<1>6. kind = "add" => id \notin {0, page'.id, submodal'.id}
  BY <1>2 DEF Asker
<1>7. kind = "deleteEverything" =>
        id \notin {0, submodal'.id, add'.id} /\ (id = page'.id => page'.at # "list" /\ page'.at = x)
  BY <1>2, <1>3 DEF Asker
<1>. QED
  BY <1>1, <1>5, <1>6, <1>7 DEF Asker

LEMMA GoToLayout ==
  ASSUME Shapes, Ids, NEW p \in Pages, GoTo(p), mounts' = mounts + 1
  PROVE  Layout /\ Ids'
<1>1. /\ page'.id = mounts + 1
      /\ menu' = None /\ submodal' = None /\ add' = None
      /\ submodal'.id = 0 /\ add'.id = 0
  BY DEF GoTo, None
<1>2. mounts \in Nat
  BY DEF Shapes, PageTypes
<1>. QED
  BY <1>1, <1>2 DEF Layout, Ids

\* The next number goes to what is mounted, and nothing else moves.
LEMMA StepLayout ==
  ASSUME Shapes, Ids, Next
  PROVE  Layout /\ Ids'
<1>. USE DEF pageVars, counts, Mount
<1>0. mounts \in Nat /\ None.id = 0
  BY DEF Shapes, PageTypes, None
<1>1. ASSUME NEW p \in Pages, Navigate(p) PROVE Layout /\ Ids'
  BY <1>1, GoToLayout DEF Navigate
<1>2. CASE Escape
  BY <1>0, <1>2 DEF Escape, Layout, Ids
<1>3. ASSUME NEW h \in Hashes, OpenMenu(h) PROVE Layout /\ Ids'
  BY <1>0, <1>3 DEF OpenMenu, Layout, Ids
<1>4. CASE CloseMenu \/ MenuRun
  BY <1>0, <1>4 DEF CloseMenu, MenuRun, Mutate, Layout, Ids
<1>5. ASSUME NEW k \in {"remove", "deleteFiles", "recheck"}, MenuAsk(k) PROVE Layout /\ Ids'
  BY <1>0, <1>5 DEF MenuAsk, Ask, Layout, Ids
<1>6. ASSUME NEW k \in Submodals, MenuSubmodal(k) PROVE Layout /\ Ids'
  <2>1. page' = page /\ add' = add
    BY <1>6 DEF MenuSubmodal
  <2>2. CASE ReplacesSubmodal(k)
    <3>1. submodal \in SubmodalRecord /\ submodal # None
      BY <2>2 DEF ReplacesSubmodal, Shapes, PageTypes
    <3>2. mounts' = mounts /\ submodal' = [submodal EXCEPT !.of = menu.of, !.over = TRUE]
      BY <1>6, <2>2 DEF MenuSubmodal
    <3>3. submodal'.id = submodal.id /\ submodal'.kind = submodal.kind /\ submodal'.over
      BY <3>1, <3>2 DEF SubmodalRecord
    <3>. QED
      BY <1>0, <2>1, <3>1, <3>2, <3>3 DEF Layout, Ids
  <2>3. CASE ~ReplacesSubmodal(k)
    <3>1. mounts' = mounts + 1 /\ submodal'.id = mounts + 1
      BY <1>6, <2>3 DEF MenuSubmodal
    <3>. QED
      BY <1>0, <2>1, <3>1 DEF Layout, Ids
  <2>. QED
    BY <2>2, <2>3
<1>7. CASE CancelSubmodal
  BY <1>0, <1>7 DEF CancelSubmodal, Layout, Ids
<1>8. CASE OpenAdd
  <2>1. /\ mounts' = mounts + 1 /\ add'.id = mounts + 1
        /\ page' = page /\ menu' = menu /\ submodal' = submodal
    BY <1>8 DEF OpenAdd
  <2>. QED
    BY <1>0, <2>1 DEF Layout, Ids
<1>9. CASE EditAdd
  <2>1. add \in [uri : BOOLEAN, file : {""} \cup Files, error : BOOLEAN, id : Nat] /\ add # None
    BY <1>9 DEF EditAdd, Shapes, AddTypes
  <2>2. add'.id = add.id
    BY <1>9, <2>1 DEF EditAdd, HandlePickedFile
  <2>3. page' = page /\ submodal' = submodal /\ mounts' = mounts
    BY <1>9 DEF EditAdd
  <2>. QED
    BY <1>0, <2>1, <2>2, <2>3 DEF Layout, Ids
<1>19. CASE CancelAdd
  BY <1>0, <1>19 DEF CancelAdd, Layout, Ids
<1>10. ASSUME NEW f \in reads, ReadDone(f) PROVE Layout /\ Ids'
  <2>1. CASE add # None
    <3>1. add \in [uri : BOOLEAN, file : {""} \cup Files, error : BOOLEAN, id : Nat]
      BY <2>1 DEF Shapes, AddTypes
    <3>2. add'.id = add.id
      BY <1>10, <3>1 DEF ReadDone
    <3>3. page' = page /\ submodal' = submodal /\ mounts' = mounts
      BY <1>10 DEF ReadDone
    <3>. QED
      BY <1>0, <2>1, <3>2, <3>3 DEF Layout, Ids
  <2>2. CASE add = None
    <3>1. add' # None => add.id = f.from
      BY <1>10, <2>2 DEF ReadDone
    <3>2. add'.id = 0
      BY <1>0, <1>10, <2>2 DEF ReadDone, None
    <3>3. [add EXCEPT !.error = TRUE] = None
      BY <2>2 DEF None
    <3>4. add' = None
      BY <1>10, <2>2, <3>3 DEF ReadDone
    <3>5. page' = page /\ submodal' = submodal /\ mounts' = mounts
      BY <1>10 DEF ReadDone
    <3>. QED
      BY <1>0, <2>2, <3>4, <3>5 DEF Layout, Ids
  <2>. QED
    BY <2>1, <2>2
<1>11. ASSUME NEW r \in requests, Answer(r) PROVE Layout /\ Ids'
  <2>1. mounts' = IF page' = page THEN mounts ELSE mounts + 1
    BY <1>11 DEF Answer, Answered
  <2>2. CASE page' = page
    <3>1. submodal' \in {submodal, None} /\ add' \in {add, None}
      BY <1>11, <2>2 DEF Answer, Answered, OnSuccess, GoTo
    <3>2. /\ submodal' = submodal \/ submodal'.id = 0
          /\ add'.id \in {0, add.id}
      BY <1>0, <3>1
    <3>. QED
      BY <1>0, <2>1, <2>2, <3>1, <3>2 DEF Layout, Ids
  <2>3. CASE page' # page
    <3>1. GoTo("list")
      BY <1>11, <2>3 DEF Answer, Answered, OnSuccess
    <3>. QED
      BY <2>1, <2>3, <3>1, GoToLayout DEF Pages
  <2>. QED
    BY <2>2, <2>3
<1>12. UNCHANGED <<page, submodal, add, mounts>> => Layout /\ Ids'
  BY <1>0 DEF Layout, Ids
<1>13. CASE Accept \/ Dismiss \/ DetailDelete \/ SubmodalSubmit
  BY <1>12, <1>13 DEF Accept, Dismiss, DetailDelete, Ask, SubmodalSubmit
<1>14. CASE EditForm \/ SubmitForm \/ RemoveTracker \/ Refresh
  BY <1>12, <1>14 DEF EditForm, SubmitForm, RemoveTracker, Refresh
<1>15. ASSUME NEW h \in Hashes, PauseButton(h) \/ RemoveButton(h) \/ HandleAdd(h)
       PROVE  Layout /\ Ids'
  BY <1>12, <1>15 DEF PauseButton, RemoveButton, Ask, HandleAdd
<1>16. ASSUME NEW c \in Names, DeleteCategory(c) PROVE Layout /\ Ids'
  BY <1>12, <1>16 DEF DeleteCategory, Ask
<1>17. ASSUME NEW r \in requests, Serve(r) \/ Refuse(r) PROVE Layout /\ Ids'
  BY <1>12, <1>17 DEF Serve, Refuse
<1>18. ASSUME NEW h \in Hashes, NEW row \in Row, Change(h, row) PROVE Layout /\ Ids'
  BY <1>12, <1>18 DEF Change
<1>. QED
  BY <1>1, <1>2, <1>3, <1>4, <1>5, <1>6, <1>7, <1>8, <1>9, <1>10, <1>11, <1>13, <1>14,
     <1>15, <1>16, <1>17, <1>18, <1>19 DEF Next, UserStep, OtherStep

LEMMA MutateAskers ==
  ASSUME RequestTypes, OwnInv, Layout, mounts \in Nat, NEW kind, NEW x, NEW id,
         Mutate(kind, x, id), Asker(kind, x, id)
  PROVE  \A r \in requests' : Asker(r.kind, r.of, r.from)'
<1>. SUFFICES ASSUME NEW r \in requests' PROVE Asker(r.kind, r.of, r.from)'
  OBVIOUS
<1>1. Asker(r.kind, r.of, r.from)
  <2>1. CASE r \in Dropped(kind, id)
    <3>1. PICK q \in requests : r.kind = q.kind /\ r.of = q.of /\ r.from = q.from
      BY <2>1, DroppedTypes
    <3>2. Asker(q.kind, q.of, q.from)
      BY DEF OwnInv
    <3>. QED
      BY <3>1, <3>2
  <2>2. CASE r \notin Dropped(kind, id)
    <3>1. r.kind = kind /\ r.of = x /\ r.from = id
      BY <2>2 DEF Mutate
    <3>. QED
      BY <3>1
  <2>. QED
    BY <2>1, <2>2
<1>. QED
  BY <1>1, LayoutKeepsAskers

\* Who asks, asks for what is its own.
LEMMA StepAskers ==
  ASSUME Shapes, OwnInv, Next, Layout, mounts \in Nat
  PROVE  /\ \A r \in requests' : Asker(r.kind, r.of, r.from)'
         /\ \A f \in reads' : Asker("add", f.of, f.from)'
         /\ dialog' # None => Asker(dialog.kind, dialog.of, dialog.id)'
<1>. DEFINE Requests == \A r \in requests' : Asker(r.kind, r.of, r.from)'
            Reads == \A f \in reads' : Asker("add", f.of, f.from)'
            Dialog == dialog' # None => Asker(dialog.kind, dialog.of, dialog.id)'
<1>. SUFFICES Requests /\ Reads /\ Dialog
  OBVIOUS
<1>. USE DEF confirmVars
<1>1. requests' \subseteq requests => Requests
  BY LayoutKeepsAskers DEF OwnInv
<1>2. reads' \subseteq reads => Reads
  BY LayoutKeepsAskers DEF OwnInv
<1>3. dialog' \in {dialog, None} => Dialog
  BY LayoutKeepsAskers DEF OwnInv
<1>4. ASSUME NEW kind, NEW x, NEW id, Mutate(kind, x, id), Asker(kind, x, id) PROVE Requests
  BY <1>4, MutateAskers DEF Shapes
<1>5. ASSUME NEW kind, NEW x, NEW id, Ask(kind, x, id), Asker(kind, x, id) PROVE Requests /\ Reads /\ Dialog
  <2>1. dialog' = [kind |-> kind, of |-> x, id |-> id]
    BY <1>5 DEF Ask, Confirm
  <2>2. Dialog
    BY <1>5, <2>1, LayoutKeepsAskers
  <2>. QED
    BY <1>1, <1>2, <1>5, <2>2 DEF Ask
<1>6. /\ \A kind \in Kinds \ {"category", "location", "add", "deleteEverything"} :
           \A x : \A id \in {0, page.id, submodal.id} : Asker(kind, x, id)
      /\ page.at # "list" => Asker("deleteEverything", page.at, page.id)
  BY DEF OwnInv, Ids, Asker, Shapes, PageTypes
<1>8. submodal # None => Asker(submodal.kind, submodal.of, submodal.id)
  BY DEF OwnInv, Ids, Asker, Shapes, PageTypes, SubmodalRecord, Submodals
<1>9. add # None => \A x : Asker("add", x, add.id)
  BY DEF OwnInv, Ids, Asker
<1>10. CASE Accept
  BY <1>2, <1>3, <1>4, <1>10 DEF Accept, Close, Shapes, DialogTypes, OwnInv
<1>11. ASSUME NEW h \in Hashes, PauseButton(h) PROVE Requests /\ Reads /\ Dialog
  BY <1>2, <1>3, <1>4, <1>6, <1>11 DEF PauseButton, Kinds
<1>12. ASSUME NEW h \in Hashes, RemoveButton(h) PROVE Requests /\ Reads /\ Dialog
  BY <1>5, <1>6, <1>12 DEF RemoveButton, Kinds, Confirmed
<1>13. ASSUME NEW h \in Hashes, HandleAdd(h) PROVE Requests /\ Reads /\ Dialog
  <2>1. Asker("add", h, add.id)
    BY <1>9, <1>13 DEF HandleAdd, CanSubmit
  <2>2. CASE add.file = ""
    BY <1>2, <1>3, <1>4, <1>13, <2>1, <2>2 DEF HandleAdd
  <2>3. CASE add.file # ""
    <3>1. /\ reads' = reads \cup
               {[n |-> sent + 1, of |-> h, file |-> add.file, from |-> add.id]}
          /\ requests' = requests /\ dialog' = dialog
      BY <1>13, <2>3 DEF HandleAdd
    <3>2. ASSUME NEW f \in reads' PROVE Asker("add", f.of, f.from)'
      <4>1. Asker("add", f.of, f.from)
        BY <2>1, <3>1, <3>2 DEF OwnInv
      <4>. QED
        BY <4>1, LayoutKeepsAskers
    <3>. QED
      BY <1>1, <1>3, <3>1, <3>2
  <2>. QED
    BY <2>2, <2>3
<1>14. CASE DetailDelete
  <2>1. page.at # "list" /\ Ask("deleteEverything", page.at, page.id)
    BY <1>14, ActionsAssumption DEF DetailDelete
  <2>. QED
    BY <1>5, <1>6, <2>1
<1>15. CASE MenuRun
  <2>1. PICK kind \in Offered(menu.was, menu.of) : Mutate(kind, menu.of, NoNumber)
    BY <1>15 DEF MenuRun
  <2>2. kind \in Kinds \ {"category", "location", "add", "deleteEverything"}
    BY DEF Offered, Kinds
  <2>3. Asker(kind, menu.of, NoNumber)
    BY <1>6, <2>2 DEF NoNumber
  <2>. QED
    BY <1>2, <1>3, <1>4, <1>15, <2>1, <2>3 DEF MenuRun
<1>16. ASSUME NEW k \in {"remove", "deleteFiles", "recheck"}, MenuAsk(k)
       PROVE  Requests /\ Reads /\ Dialog
  BY <1>5, <1>6, <1>16 DEF MenuAsk, NoNumber, Kinds, Confirmed
<1>17. CASE SubmodalSubmit
  <2>1. Asker(submodal.kind, submodal.of, submodal.id)
    BY <1>8, <1>17 DEF SubmodalSubmit
  <2>2. Asker("removeTags", submodal.of, submodal.id)
    BY <1>6 DEF Kinds
  <2>3. Requests
    BY <1>4, <1>17, <2>1, <2>2 DEF SubmodalSubmit
  <2>. QED
    BY <1>2, <1>3, <1>17, <2>3 DEF SubmodalSubmit
<1>18. CASE SubmitForm
  <2>1. \E kind \in {"addTrackers", "createCategory"}, x \in Hashes \cup Names :
          Mutate(kind, x, page.id)
    BY <1>18 DEF SubmitForm
  <2>. QED
    BY <1>2, <1>3, <1>4, <1>6, <1>18, <2>1 DEF SubmitForm, Kinds
<1>19. CASE RemoveTracker
  BY <1>2, <1>3, <1>4, <1>6, <1>19 DEF RemoveTracker, Kinds
<1>20. ASSUME NEW c \in Names, DeleteCategory(c) PROVE Requests /\ Reads /\ Dialog
  BY <1>5, <1>6, <1>20 DEF DeleteCategory, Kinds, Confirmed
<1>21. ASSUME NEW f \in reads, ReadDone(f) PROVE Requests /\ Reads /\ Dialog
  <2>1. Asker("add", f.of, f.from)
    BY DEF OwnInv
  <2>2. Requests
    <3>1. CASE f.file = "torrent"
      BY <1>4, <1>21, <2>1, <3>1 DEF ReadDone
    <3>2. CASE f.file # "torrent"
      BY <1>1, <1>21, <3>2 DEF ReadDone
    <3>. QED
      BY <3>1, <3>2
  <2>. QED
    BY <1>2, <1>3, <1>21, <2>2 DEF ReadDone
<1>22. ASSUME NEW r \in requests, Serve(r) \/ Refuse(r) PROVE Requests /\ Reads /\ Dialog
  <2>1. PICK s \in {"ok", "failed"} : requests' = (requests \ {r}) \cup {[r EXCEPT !.stage = s]}
    BY <1>22 DEF Serve, Refuse
  <2>2. Requests
    <3>. SUFFICES ASSUME NEW q \in requests' PROVE Asker(q.kind, q.of, q.from)'
      OBVIOUS
    <3>1. CASE q \in requests
      BY <3>1, LayoutKeepsAskers DEF OwnInv
    <3>2. CASE q \notin requests
      <4>1. q.kind = r.kind /\ q.of = r.of /\ q.from = r.from
        <5>1. q = [r EXCEPT !.stage = s]
          BY <2>1, <3>2
        <5>. QED
          BY <5>1, StageTypes DEF Shapes
      <4>. QED
        BY <4>1, LayoutKeepsAskers DEF OwnInv
    <3>. QED
      BY <3>1, <3>2
  <2>. QED
    BY <1>2, <1>3, <1>22, <2>2 DEF Serve, Refuse
<1>23. (requests' \subseteq requests /\ reads' = reads /\ dialog' \in {dialog, None})
         => Requests /\ Reads /\ Dialog
  BY <1>1, <1>2, <1>3
<1>24. CASE Dismiss \/ Escape \/ CloseMenu \/ CancelSubmodal \/ OpenAdd
  BY <1>23, <1>24 DEF Dismiss, Escape, Close, CloseMenu, CancelSubmodal, OpenAdd
<1>25. CASE EditAdd \/ CancelAdd \/ EditForm \/ Refresh
  BY <1>23, <1>25 DEF EditAdd, CancelAdd, EditForm, Refresh
<1>26. ASSUME NEW p \in Pages, Navigate(p) PROVE Requests /\ Reads /\ Dialog
  BY <1>23, <1>26 DEF Navigate
<1>27. ASSUME NEW h \in Hashes, OpenMenu(h) PROVE Requests /\ Reads /\ Dialog
  BY <1>23, <1>27 DEF OpenMenu
<1>28. ASSUME NEW k \in Submodals, MenuSubmodal(k) PROVE Requests /\ Reads /\ Dialog
  BY <1>23, <1>28 DEF MenuSubmodal
<1>29. ASSUME NEW r \in requests, Answer(r) PROVE Requests /\ Reads /\ Dialog
  BY <1>23, <1>29 DEF Answer
<1>30. ASSUME NEW h \in Hashes, NEW row \in Row, Change(h, row) PROVE Requests /\ Reads /\ Dialog
  BY <1>23, <1>30 DEF Change
<1>. HIDE DEF Requests, Reads, Dialog
<1>. QED
  BY <1>10, <1>11, <1>12, <1>13, <1>14, <1>15, <1>16, <1>17, <1>18, <1>19, <1>20, <1>21,
     <1>22, <1>24, <1>25, <1>26, <1>27, <1>28, <1>29, <1>30 DEF Next, UserStep, OtherStep

LEMMA StepOwn == Shapes /\ OwnInv /\ [Next]_vars => OwnInv'
<1>1. ASSUME Shapes, OwnInv, Next PROVE OwnInv'
  <2>1. mounts \in Nat /\ Layout /\ Ids'
    BY <1>1, StepLayout DEF Shapes, PageTypes, OwnInv
  <2>. QED
    BY <1>1, <2>1, StepAskers DEF OwnInv
<1>2. ASSUME OwnInv, UNCHANGED vars PROVE OwnInv'
  BY <1>2 DEF OwnInv, Ids, Asker, vars, pageVars, confirmVars, counts
<1>. QED
  BY <1>1, <1>2

\* Requests that are gone were answered in this step.
LEMMA OnlyAnswersEnd ==
  ASSUME Shapes, Next, NEW r \in requests, r.n \notin {q.n : q \in requests'}
  PROVE  Answer(r)
<1>1. r \in requests' => FALSE
  OBVIOUS
<1>0. ASSUME NEW kind, NEW x, NEW id, Mutate(kind, x, id) PROVE FALSE
  <2>1. PICK q \in Dropped(kind, id) : q.n = r.n
    BY DroppedKeepsNumbers DEF Shapes
  <2>. QED
    BY <1>0, <2>1 DEF Mutate
<1>2. ASSUME NEW q \in requests, Serve(q) \/ Refuse(q) PROVE FALSE
  <2>1. PICK s \in {"ok", "failed"} : requests' = (requests \ {q}) \cup {[q EXCEPT !.stage = s]}
    BY <1>2 DEF Serve, Refuse
  <2>2. [q EXCEPT !.stage = s].n = q.n
    BY StageTypes DEF Shapes
  <2>. QED
    BY <2>1, <2>2
<1>3. ASSUME NEW q \in requests, Answer(q) PROVE Answer(r)
  BY <1>3 DEF Answer
<1>4. CASE Accept \/ Dismiss \/ Escape \/ DetailDelete \/ CloseMenu \/ MenuRun
  BY <1>0, <1>1, <1>4 DEF Accept, Dismiss, Escape, DetailDelete, Ask, CloseMenu, MenuRun
<1>5. CASE SubmodalSubmit \/ CancelSubmodal \/ OpenAdd \/ EditAdd \/ CancelAdd
  BY <1>0, <1>1, <1>5 DEF SubmodalSubmit, CancelSubmodal, OpenAdd, EditAdd, CancelAdd
<1>6. CASE EditForm \/ SubmitForm \/ RemoveTracker \/ Refresh
  BY <1>0, <1>1, <1>6 DEF EditForm, SubmitForm, RemoveTracker, Refresh
<1>7. ASSUME NEW p \in Pages, Navigate(p) PROVE FALSE
  BY <1>1, <1>7 DEF Navigate
<1>8. ASSUME NEW h \in Hashes, PauseButton(h) \/ RemoveButton(h) \/ OpenMenu(h) \/ HandleAdd(h)
      PROVE  FALSE
  BY <1>0, <1>1, <1>8 DEF PauseButton, RemoveButton, Ask, OpenMenu, HandleAdd
<1>9. ASSUME NEW k \in {"remove", "deleteFiles", "recheck"}, MenuAsk(k) PROVE FALSE
  BY <1>1, <1>9 DEF MenuAsk, Ask
<1>10. ASSUME NEW k \in Submodals, MenuSubmodal(k) PROVE FALSE
  BY <1>1, <1>10 DEF MenuSubmodal
<1>11. ASSUME NEW c \in Names, DeleteCategory(c) PROVE FALSE
  BY <1>1, <1>11 DEF DeleteCategory, Ask
<1>12. ASSUME NEW f \in reads, ReadDone(f) PROVE FALSE
  BY <1>0, <1>1, <1>12 DEF ReadDone
<1>13. ASSUME NEW h \in Hashes, NEW row \in Row, Change(h, row) PROVE FALSE
  BY <1>1, <1>13 DEF Change
<1>. QED
  BY <1>2, <1>3, <1>4, <1>5, <1>6, <1>7, <1>8, <1>9, <1>10, <1>11, <1>12, <1>13
     DEF Next, UserStep, OtherStep

\* What the callbacks of an answer change belongs to the component that asked.
LEMMA SuccessIsOwn ==
  ASSUME Shapes, OwnInv, NEW r \in requests, r.from \in Mounted, OnSuccess(r)
  PROVE  /\ submodal' # submodal =>
              /\ submodal.id = r.from /\ submodal.kind = r.kind
              /\ submodal.of = r.of \/ submodal.over
         /\ add' # add => add.id = r.from
         /\ page' # page => page.id = r.from /\ page.at = r.of
<1>. USE DEF pageVars
<1>1. Asker(r.kind, r.of, r.from) /\ r.from \in {page.id, submodal.id, add.id} /\ r.from # 0
  BY DEF OwnInv, Mounted
<1>2. CASE r.kind \in {"category", "location"}
  <2>1. r.from = submodal.id
    BY <1>1, <1>2 DEF Asker
  <2>2. submodal.kind = r.kind /\ (submodal.of = r.of \/ submodal.over)
    BY <1>1, <1>2, <2>1 DEF Asker
  <2>. QED
    BY <1>2, <2>1, <2>2 DEF OnSuccess
<1>3. CASE r.kind = "add"
  BY <1>1, <1>3 DEF Asker, OnSuccess
<1>4. CASE r.kind = "deleteEverything"
  <2>1. r.from = page.id /\ page.at # "list" /\ page.at = r.of
    BY <1>1, <1>4 DEF Asker
  <2>2. submodal = None /\ add = None
    BY <2>1 DEF Shapes, PageTypes
  <2>. QED
    BY <1>4, <2>1, <2>2 DEF OnSuccess, GoTo
<1>5. CASE r.kind \notin {"category", "location", "add", "deleteEverything"}
  BY <1>5 DEF OnSuccess
<1>. QED
  BY <1>2, <1>3, <1>4, <1>5

\* An answer never closes a modal, or leaves a page, opened since by someone
\* else: numbers are not used twice, and of what a component asks for the
\* callbacks touch only its own state.  The torrent is the one asked about,
\* except where a modal was handed another one.
THEOREM AnswersOwn == Spec => AnswersCloseTheirOwn
<1>1. Init => OwnInv
  BY DEF Init, OwnInv, Ids, None
<1>2. Shapes /\ OwnInv /\ [Next]_vars =>
        [\A r \in requests : r.n \notin {q.n : q \in requests'} =>
           /\ submodal' # submodal =>
                /\ submodal.id = r.from /\ submodal.kind = r.kind
                /\ submodal.of = r.of \/ submodal.over
           /\ add' # add => add.id = r.from
           /\ page' # page => page.id = r.from /\ page.at = r.of]_vars
  <2>. SUFFICES ASSUME Shapes, OwnInv, Next, NEW r \in requests,
                       r.n \notin {q.n : q \in requests'}
                PROVE  /\ submodal' # submodal =>
                            /\ submodal.id = r.from /\ submodal.kind = r.kind
                            /\ submodal.of = r.of \/ submodal.over
                       /\ add' # add => add.id = r.from
                       /\ page' # page => page.id = r.from /\ page.at = r.of
    OBVIOUS
  <2>1. Answer(r)
    BY OnlyAnswersEnd
  <2>2. (r.from \in Mounted /\ OnSuccess(r)) \/ UNCHANGED pageVars
    BY <2>1 DEF Answer, Answered
  <2>. QED
    BY <2>2, SuccessIsOwn DEF pageVars
<1>. QED
  BY InitShapes, StepShapes, StepOwn, <1>1, <1>2, PTL DEF Spec, AnswersCloseTheirOwn
==============================================================================
