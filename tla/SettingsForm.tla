----------------------------- MODULE SettingsForm -----------------------------
(***************************************************************************)
(* Runtime settings from end to end: the form the Settings and the Media   *)
(* Management page share, in every open tab; the settings query it is      *)
(* filled from; the handler that stores a save key by key and then hands   *)
(* it to the session key by key; and what a restart makes of the table.    *)
(***************************************************************************)
EXTENDS Integers, FiniteSets

CONSTANTS
  Tabs,          \* browser tabs
  Keys,          \* settings
  Runtime,       \* the keys applyRuntimeSettings passes on to the session
  Restored,      \* those NewSession reads back
  Typable,       \* Typable[k], what the field of k can be made to hold
  Numbers,       \* what of it strconv.Atoi parses; the empty field it does not
  Default,       \* Default[k], the value from the configuration
  FirstTable,    \* the settings table at first
  MaxMoves,      \* bounds fields changed, page changes and refetches
  MaxFaults      \* bounds failures and restarts

Absent == "absent"
Values == UNION {Typable[k] : k \in Keys}
Maps == [Keys -> Values \cup {Absent}]

\* The older names of the two global limits, which the handler accepts too: a table
\* that holds one has two keys for one limiter.  No page has a field for them.
Aliases == {"download_rate_limit", "upload_rate_limit"}

\* What a restart does not read back has not been saved before the first one.
ASSUME SettingsAssumption ==
  /\ Restored \subseteq Runtime /\ Runtime \subseteq Keys /\ Keys \cap Aliases = {}
  /\ Default \in [Runtime -> Numbers]
  /\ FirstTable \in Maps
  /\ \A k \in Runtime \ Restored : FirstTable[k] \notin Numbers

VARIABLES
  table,         \* the settings table
  engine,        \* the session's own values
  saved,         \* data of useSettings, per tab
  form, dirty,   \* useSettingsForm, per tab
  mount,         \* the number of the form mounted in the tab, even on the Settings page
  fetch,         \* the query's fetch: "none", "asked", or a table on its way
  requests,      \* PUT /settings, and what useMutation makes of their answers
  typed,         \* what was typed last in each tab
  savers,        \* the tabs that have saved
  mixed,         \* two saves overlapped, or one was cut short by an error
  moves, faults

serverVars == <<table, engine>>
tabVars == <<saved, form, dirty, mount>>
ghostVars == <<typed, savers, mixed>>
bounds == <<moves, faults>>
vars == <<serverVars, tabVars, fetch, requests, ghostVars, bounds>>

Stages == {"write", "apply", "ok", "failed", "refetching"}

TypeOK ==
  /\ table \in Maps /\ engine \in [Runtime -> Numbers]
  /\ saved \in [Tabs -> Maps] /\ form \in [Tabs -> Maps] /\ dirty \in [Tabs -> BOOLEAN]
  /\ \A t \in Tabs : fetch[t].stage \in {"none", "asked", "served"}
  /\ \A r \in requests : r.tab \in Tabs /\ r.map \in Maps /\ r.stage \in Stages
  /\ \A r, q \in requests : r.tab = q.tab /\ r.mount = q.mount => r = q

NoFetch == [stage |-> "none"]
Asked == [stage |-> "asked"]
Move == moves < MaxMoves /\ moves' = moves + 1 /\ UNCHANGED faults
Fault == faults < MaxFaults /\ faults' = faults + 1 /\ UNCHANGED moves
Send(r, stage) == (requests \ {r}) \cup {[r EXCEPT !.stage = stage]}

------------------------------------------------------------------------------
(* The form. *)

GetBool(f, k) == k \in Keys /\ f[k] \in {"true", "1"}

\* The fields of the Settings page, advanced ones included.
SettingsFields(f) ==
  {"download_dir", "global_download_limit", "global_upload_limit", "alt_download_limit",
   "alt_upload_limit", "schedule_enabled", "enable_dht", "enable_pex", "enable_utp",
   "enable_lsd", "encryption", "default_seed_time", "pause_on_complete", "max_connections",
   "max_connections_per_torrent", "listen_port", "stall_timeout", "max_active_downloads",
   "on_add_command", "on_complete_command"}
  \cup {k \in {"schedule_from_hour", "schedule_to_hour", "schedule_days"} :
          GetBool(f, "schedule_enabled")}
  \cup {k \in {"default_seed_ratio", "seed_limit_action"} : ~GetBool(f, "pause_on_complete")}

\* Those of the Media Management page while neither Pilot nor Prism is
\* connected; with one of them the page changes nothing.
MediaFields(f) ==
  {"rename_on_complete"}
  \cup {k \in {"episode_format", "series_folder_format", "season_folder_format",
               "movie_format", "movie_folder_format", "colon_replacement"} :
          GetBool(f, "rename_on_complete")}

Fields(t) == IF mount[t] % 2 = 0 THEN SettingsFields(form[t]) ELSE MediaFields(form[t])

\* set(key, value) from a field of the page shown.
Set(t, k, v) ==
  /\ Move
  /\ k \in Fields(t) /\ v \in Typable[k] \ {form[t][k]}
  /\ form' = [form EXCEPT ![t][k] = v]
  /\ dirty' = [dirty EXCEPT ![t] = TRUE]
  /\ typed' = [typed EXCEPT ![t][k] = v]
  /\ UNCHANGED <<serverVars, saved, mount, fetch, requests, savers, mixed>>

Saving(t) == \E r \in requests : r.tab = t /\ r.mount = mount[t]

\* (mutant) The button does not wait for the save under way.
HandleSaveAlways(t) ==
  /\ dirty[t]
  /\ requests' = requests \cup
       {[tab |-> t, mount |-> mount[t], map |-> form[t], stage |-> "write",
         left |-> {k \in Keys : form[t][k] # Absent}]}

\* SaveButton and handleSave: the whole form is sent.
HandleSave(t) ==
  /\ dirty[t] /\ ~Saving(t)
  /\ requests' = requests \cup
       {[tab |-> t, mount |-> mount[t], map |-> form[t], stage |-> "write",
         left |-> {k \in Keys : form[t][k] # Absent}]}

Save(t) ==
  /\ HandleSave(t)
  /\ savers' = savers \cup {t}
  /\ mixed' = (mixed \/ requests # {})
  /\ UNCHANGED <<serverVars, tabVars, fetch, typed, bounds>>

\* The other of the two pages: a new form, filled from the query's data, which
\* is fetched again once it is stale.
Remount(t) ==
  /\ Move
  /\ mount' = [mount EXCEPT ![t] = @ + 1]
  /\ form' = [form EXCEPT ![t] = saved[t]]
  /\ dirty' = [dirty EXCEPT ![t] = FALSE]
  /\ \/ UNCHANGED fetch
     \/ fetch[t] = NoFetch /\ fetch' = [fetch EXCEPT ![t] = Asked]
  /\ UNCHANGED <<serverVars, saved, requests, ghostVars>>

------------------------------------------------------------------------------
(* The settings query. *)

\* The window has the focus again, or the network is back.
Refetch(t) ==
  /\ Move
  /\ fetch[t] = NoFetch
  /\ fetch' = [fetch EXCEPT ![t] = Asked]
  /\ UNCHANGED <<serverVars, tabVars, requests, ghostVars>>

GetSettings(t) ==
  /\ fetch[t] = Asked
  /\ fetch' = [fetch EXCEPT ![t] = [stage |-> "served", table |-> table]]
  /\ UNCHANGED <<serverVars, tabVars, requests, ghostVars, bounds>>

\* The fetch has ended: saves that waited for it are over, and a form still
\* mounted that sent one is clean.
Settled(t) == {r \in requests : r.tab = t /\ r.stage = "refetching"}
Cleaned(t) == \E r \in Settled(t) : r.mount = mount[t]

\* Structural sharing: an answer equal to the data is the same object, and the
\* effect that fills the form does not run.
Lands(t, m) ==
  /\ saved' = [saved EXCEPT ![t] = m]
  /\ form' = [form EXCEPT ![t] = IF m = saved[t] THEN @ ELSE m]
  /\ dirty' = [dirty EXCEPT ![t] = @ /\ m = saved[t] /\ ~Cleaned(t)]

FetchLands(t) ==
  /\ fetch[t].stage = "served"
  /\ Lands(t, fetch[t].table)
  /\ fetch' = [fetch EXCEPT ![t] = NoFetch]
  /\ requests' = requests \ Settled(t)
  /\ UNCHANGED <<serverVars, mount, ghostVars, bounds>>

FetchFails(t) ==
  /\ Fault
  /\ fetch[t] # NoFetch
  /\ fetch' = [fetch EXCEPT ![t] = NoFetch]
  /\ dirty' = [dirty EXCEPT ![t] = @ /\ ~Cleaned(t)]
  /\ requests' = requests \ Settled(t)
  /\ UNCHANGED <<serverVars, saved, form, mount, ghostVars>>

------------------------------------------------------------------------------
(* PUT /settings. *)

\* One key after the other, in the map's order, each a statement of its own.
WriteKey(r) ==
  /\ r.stage = "write"
  /\ \/ \E k \in r.left :
          /\ table' = [table EXCEPT ![k] = r.map[k]]
          /\ requests' = (requests \ {r}) \cup {[r EXCEPT !.left = @ \ {k}]}
     \/ /\ r.left = {}
        /\ requests' = (requests \ {r}) \cup
             {[r EXCEPT !.stage = "apply",
                        !.left = {k \in Runtime : r.map[k] # Absent}]}
        /\ UNCHANGED table
  /\ UNCHANGED <<engine, tabVars, fetch, ghostVars, bounds>>

\* A statement fails: nothing after it is stored, nothing at all is applied.
WriteFails(r) ==
  /\ Fault
  /\ r.stage = "write" /\ r.left # {}
  /\ requests' = Send(r, "failed")
  /\ mixed' = TRUE
  /\ UNCHANGED <<serverVars, tabVars, fetch, typed, savers>>

\* A setter of the session; strconv.Atoi refuses the empty field.
Setter(k, v) == engine' = [engine EXCEPT ![k] = IF v \in Numbers THEN v ELSE @]

ApplyKey(r) ==
  /\ r.stage = "apply"
  /\ \/ \E k \in r.left :
          /\ Setter(k, r.map[k])
          /\ requests' = (requests \ {r}) \cup {[r EXCEPT !.left = @ \ {k}]}
     \/ r.left = {} /\ requests' = Send(r, "ok") /\ UNCHANGED engine
  /\ UNCHANGED <<table, tabVars, fetch, ghostVars, bounds>>

\* Everything is stored and applied, but the settings cannot be read for the answer,
\* or the answer is lost.
AnswerLost(r) ==
  /\ Fault
  /\ r.stage = "ok"
  /\ requests' = Send(r, "failed")
  /\ UNCHANGED <<serverVars, tabVars, fetch, ghostVars>>

\* (mutant) The save is over before the settings it stored are here.
AnsweredAtOnce(r) ==
  /\ requests' = requests \ {r}
  /\ fetch' = [fetch EXCEPT ![r.tab] = Asked]
  /\ dirty' = [dirty EXCEPT ![r.tab] = @ /\ r.mount # mount[r.tab]]

\* (mutant) The settings are not fetched again.
AnsweredOnly(r) ==
  /\ requests' = requests \ {r}
  /\ dirty' = [dirty EXCEPT ![r.tab] = @ /\ r.mount # mount[r.tab]]
  /\ UNCHANGED fetch

\* onSuccess of the hook: the query is invalidated, a fetch under way is
\* cancelled, and the save waits for the new one.
Answered(r) ==
  /\ requests' = Send(r, "refetching")
  /\ fetch' = [fetch EXCEPT ![r.tab] = Asked]
  /\ UNCHANGED dirty

Answer(r) ==
  /\ \/ r.stage = "ok" /\ Answered(r)
     \/ r.stage = "failed" /\ requests' = requests \ {r} /\ UNCHANGED <<fetch, dirty>>
  /\ UNCHANGED <<serverVars, saved, form, mount, ghostVars, bounds>>

\* NewSession starts from the configuration and reads some keys back.
Booted ==
  [k \in Runtime |-> IF k \in Restored /\ table[k] \in Numbers THEN table[k] ELSE Default[k]]

\* (mutant) The table is not read back.
RestartForgets == engine' = Default

Overlay == engine' = Booted

\* The process stops and starts: handlers at work are gone, their clients see
\* an error.
Restart ==
  /\ Fault
  /\ Overlay
  /\ requests' = {IF r.stage \in {"write", "apply"} THEN [r EXCEPT !.stage = "failed"] ELSE r :
                    r \in requests}
  /\ UNCHANGED <<table, tabVars, fetch, ghostVars>>

------------------------------------------------------------------------------
Init ==
  /\ table = FirstTable
  /\ engine = Booted
  /\ saved = [t \in Tabs |-> table] /\ form = saved /\ dirty = [t \in Tabs |-> FALSE]
  /\ mount = [t \in Tabs |-> 0] /\ fetch = [t \in Tabs |-> NoFetch]
  /\ requests = {}
  /\ typed = saved /\ savers = {} /\ mixed = FALSE
  /\ moves = 0 /\ faults = 0

Next ==
  \/ \E t \in Tabs, k \in Keys, v \in Values : Set(t, k, v)
  \/ \E t \in Tabs : Save(t) \/ Remount(t) \/ Refetch(t) \/ GetSettings(t) \/ FetchLands(t)
                     \/ FetchFails(t)
  \/ \E r \in requests : WriteKey(r) \/ WriteFails(r) \/ ApplyKey(r) \/ AnswerLost(r)
                            \/ Answer(r)
  \/ Restart

Spec == Init /\ [][Next]_vars

------------------------------------------------------------------------------
(* Properties. *)

Quiet == \A r \in requests : r.stage \notin {"write", "apply"}
Follows(K) == \A k \in K : table[k] \in Numbers => engine[k] = table[k]

\* While no handler is at work the session uses what the table says, through
\* restarts too for the keys that are read back, and through a restart between
\* the storing and the applying of a save; unless two saves overlapped or a
\* statement failed half way (settings.go 130-139, session.go 513-528).
EngineFollowsTable ==
  Quiet /\ ~mixed => Follows(Restored) /\ (faults = 0 => Follows(Runtime))

\* What is typed while no save of the tab is under way is not lost to a refetch,
\* as long as no other tab saves and nothing fails: whenever a fetch lands, asked
\* for before a save, during it or after it, it brings what the form was filled
\* from.  Only the fetch that ends a save may fill the form again
\* (SettingsForm.tsx 14-19; api/settings.ts 26, whose promise the save waits for).
EditsSurviveRefetch ==
  [][\A t \in Tabs :
       /\ savers' \subseteq {t} /\ faults' = 0
       /\ moves' = moves
       /\ \A r \in requests : r.tab # t
       => form'[t] = form[t]]_vars

\* Although every save sends the whole form, a tab that is alone in saving and
\* waits for its saves only changes what was typed there: it never puts back an
\* older value it had shown (SettingsForm.tsx 14-19, 43-51; api/settings.ts 26).
SavesOnlyWhatWasTyped ==
  [][~mixed' /\ Cardinality(savers') = 1 /\ faults = 0 =>
       \A r \in requests' \ requests : Cardinality(requests') > Cardinality(requests) =>
         \A k \in Keys : r.map[k] \in {Absent, table[k], typed[r.tab][k]}]_vars
==============================================================================
