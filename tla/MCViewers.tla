------------------------------ MODULE MCViewers ------------------------------
(* Viewers for TLC: one word to search for, two of every choice; one tab has
   two pages of rows, searches have one. *)
EXTENDS Viewers
MCTexts == {"", "a"}
MCLogFilters == {"all", "error"}
MCTabs == {"all", "removed"}
MCLevels == {"info", "debug"}
MCFirstPages == [q \in MCTexts \X MCTabs |-> IF q = <<"", "all">> THEN 2 ELSE 1]
==============================================================================
