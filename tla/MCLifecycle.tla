---------------------------- MODULE MCLifecycle ----------------------------
(* Small instances of Lifecycle for TLC. *)
EXTENDS Lifecycle, TLC

CONSTANTS t1, t2, w1, w2

OneTorrent  == {t1}
TwoTorrents == {t1, t2}
TwoWorkers  == {w1, w2}
Symmetry    == Permutations(TwoTorrents) \union Permutations(TwoWorkers)
=============================================================================
