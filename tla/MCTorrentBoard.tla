---------------------------- MODULE MCTorrentBoard ---------------------------
(* TorrentBoard for TLC: three torrents, one category, one tag, one search. *)
EXTENDS TorrentBoard

CONSTANTS h1, h2, h3

MCHashes == {h1, h2, h3}
MCRows == <<h1, h2, h3>>
MCCategory == (h1 :> "tv") @@ (h2 :> "") @@ (h3 :> "tv")
MCTags == (h1 :> {}) @@ (h2 :> {"hd"}) @@ (h3 :> {})
MCMatches == [a |-> {h1, h3}]
MCSortKey == [name |-> (h1 :> 2) @@ (h2 :> 1) @@ (h3 :> 2)]
Running == [ready |-> TRUE, complete |-> FALSE, paused |-> FALSE, queuePaused |-> FALSE,
            idle |-> FALSE, stalledAt |-> FALSE]
MCFirstSets == {MCHashes, {h1, h2}}
MCFirstFlags == {Running}
==============================================================================
