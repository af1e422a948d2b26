---------------------------- MODULE MCTorrentActions ---------------------------
(* TorrentActions for TLC: a torrent that downloads, a stalled one
   Pilot asked for, a category and the name of another. *)
EXTENDS TorrentActions

CONSTANTS h1, h2, tv, movies

MCHashes == {h1, h2}
MCNames == {tv, movies}
MCKnown == {h2}
MCFirstServer == [h \in MCHashes |-> IF h = h1 THEN [status |-> "downloading", stalled |-> FALSE]
                                     ELSE [status |-> "paused", stalled |-> TRUE]]
MCFirstCategories == {tv}
==============================================================================
