--------------------------- MODULE MCSettingsForm ---------------------------
(* SettingsForm for TLC: the queue cap, which a restart reads back, the
   download limit, which it does not, and a key of the other page. *)
EXTENDS SettingsForm, TLC

TabSymmetry == Permutations(Tabs)
MCRuntime == {"max_active_downloads", "global_download_limit"}
MCKeys == MCRuntime \cup {"rename_on_complete"}
MCRestored == {"max_active_downloads"}
MCNumbers == {"0", "1"}
MCTypable == [k \in MCKeys |-> IF k \in MCRuntime THEN MCNumbers \cup {""} ELSE {"true", "false"}]
MCDefault == [k \in MCRuntime |-> "0"]
MCFirstTable == [k \in MCKeys |-> IF k \in MCRestored THEN "1" ELSE "absent"]
==============================================================================
