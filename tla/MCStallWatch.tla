---------------------------- MODULE MCStallWatch ----------------------------
(* Small instances of StallWatch for TLC. *)
EXTENDS StallWatch

CONSTANTS t1

OneTorrent == {t1}
AllOps     == {"pause", "resume", "force", "remove", "queue"}
=============================================================================
