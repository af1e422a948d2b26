---------------------------- MODULE MCDiagnostics ----------------------------
(* Diagnostics for TLC: one torrent in memory, one orphan. *)
EXTENDS Diagnostics
MCHashes == {"h1", "h2"}
MCFirstLive == {"h1"}
MCFirstOrphans == {"h2"}
==============================================================================
