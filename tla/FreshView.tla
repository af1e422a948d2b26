------------------------------ MODULE FreshView ------------------------------
(***************************************************************************)
(* What the torrent list promises its reader, whatever way the page learns *)
(* of changes: it shows a state the server was in, it never shows an older *)
(* one than it showed before, and while somebody looks at it it catches up *)
(* with the last change.  LiveFeed is shown to implement this module.      *)
(***************************************************************************)
EXTENDS Integers

CONSTANT MaxVersion   \* bounds the changes on the server

VARIABLES
  server,   \* version of the torrents on the server
  view,     \* version the page shows, Nothing before the first answer
  watched   \* somebody looks at the list

fvars == <<server, view, watched>>

Nothing == -1

Init == server = 0 /\ view = Nothing /\ watched = TRUE

Change == server < MaxVersion /\ server' = server + 1 /\ UNCHANGED <<view, watched>>

Refresh ==
  /\ view' \in view .. server
  /\ view' # Nothing
  /\ UNCHANGED <<server, watched>>

Look == watched' \in BOOLEAN /\ UNCHANGED <<server, view>>

Next == Change \/ Refresh \/ Look

CatchUp == watched /\ view' = server /\ Refresh

Safety == Init /\ [][Next]_fvars

Spec == Safety /\ WF_fvars(CatchUp)
==============================================================================
