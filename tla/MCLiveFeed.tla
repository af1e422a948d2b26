----------------------------- MODULE MCLiveFeed ------------------------------
(* LiveFeed for TLC: two connections, buffers of one event. *)
EXTENDS LiveFeed
==============================================================================
