---------------------------- MODULE QueueDecision ----------------------------
(***************************************************************************)
(* The arithmetic of the download queue, as a pure module: which position  *)
(* of a ranked candidate list runs, what the gate has to do about each     *)
(* candidate, and which rankings the priority column allows.               *)
(* Source: queueGateDecision and the sort of enforceMaxActiveDownloads.    *)
(***************************************************************************)
EXTENDS Integers, Sequences, FiniteSets

\* Mutant of ShouldRun: the cap is off by one.
ShouldRunOneMore(i, cap) == cap <= 0 \/ i <= cap + 1

\* Position i (from 1) of the ranked candidates runs under the cap; a cap of
\* zero or less means unlimited.
ShouldRun(i, cap) == cap <= 0 \/ i <= cap

\* What a pass does about each candidate, given the pausedness it observed.
\* "resume" entries are carried out before "queue" entries.
GateAction(i, isPaused, cap) ==
    CASE ShouldRun(i, cap) /\ isPaused   -> "resume"
      [] ~ShouldRun(i, cap) /\ ~isPaused -> "queue"
      [] OTHER                           -> "keep"

queueGateDecision(seen, cap) == [i \in DOMAIN seen |-> GateAction(i, seen[i], cap)]

\* t is ranked strictly ahead of u by the priority column as a pass read it: a
\* torrent whose row the query did not return is pushed to the end.
RankedAhead(t, u, priorityIdx) ==
    /\ t \in DOMAIN priorityIdx
    /\ u \in DOMAIN priorityIdx => priorityIdx[t] < priorityIdx[u]

\* Every order of the candidates the sort can produce. Rows of equal priority
\* come back in whatever order the query returns them, and candidates without a
\* row in whatever order the map is iterated.
Rankings(entries, priorityIdx) ==
    {s \in [1..Cardinality(entries) -> entries] :
        /\ \A t \in entries : \E i \in DOMAIN s : s[i] = t
        /\ \A i, j \in DOMAIN s : i # j => s[i] # s[j]
        /\ \A i, j \in DOMAIN s : i < j => ~RankedAhead(s[j], s[i], priorityIdx)}
=============================================================================
