---------------------------- MODULE MCQueueGate ----------------------------
(* Small instances of QueueGate for TLC. *)
EXTENDS QueueGate, TLC

CONSTANTS t1, t2, w1, w2

Torrents   == {t1, t2}
OneWorker  == {w1}
TwoWorkers == {w1, w2}
Symmetry   == Permutations(Torrents) \union Permutations(TwoWorkers)

Priorities  == {0, 1}
CapsZeroOne == {0, 1}
JustOne     == {1}

\* What the surroundings do in each instance.
OverlapOps == {"pause", "remove", "recheck", "droppanic"}
SerialOps  == AllOps \ {"recheck", "droppanic"}
RaceOps    == {"pause", "resume"}
=============================================================================
