---------------------------- MODULE StallDecision ----------------------------
(***************************************************************************)
(* The stall heuristic as a pure module: classifyStall of session.go and   *)
(* the thresholds of stall.go.                                             *)
(*                                                                         *)
(* The code subtracts time stamps from `now`; here a torrent carries the   *)
(* ages themselves, counted in ticks of the abstract clock.  An age that   *)
(* has reached Horizon stays there: no threshold lies beyond it.           *)
(***************************************************************************)
EXTENDS Integers

CONSTANTS
    SessionStartupGrace,  \* uptime below which nothing is reported
    FirstPeerTimeout,     \* age above which "no peer ever" counts
    StallTimeout          \* inactivity of level 1

ASSUME ThresholdsAssumption ==
    /\ SessionStartupGrace \in Nat
    /\ FirstPeerTimeout \in Nat
    /\ StallTimeout \in Nat \ {0}
    /\ FirstPeerTimeout < 5 * StallTimeout

StallNone        == 0
StallLevel1      == 1
StallLevel2      == 2
StallLevel3      == 3
StallNoPeersEver == 4
Levels           == StallNone..StallNoPeersEver

Horizon == 5 * StallTimeout
Never   == -1
Ages    == 0..Horizon
OptAges == Ages \union {Never}

\* The fields of stallParams that decide the level.
StallParams ==
    [downloading : BOOLEAN, uptime : Nat, sinceAdded : Ages,
     sinceFirstPeer : OptAges, sinceActivity : OptAges,
     bytesMissing : BOOLEAN, hasInfo : BOOLEAN]

\* A level by inactivity alone: at one, two and five times the timeout.
ActivityLevel(n) ==
    IF n >= 5 * StallTimeout THEN StallLevel3
    ELSE IF n >= 2 * StallTimeout THEN StallLevel2
    ELSE IF n >= StallTimeout THEN StallLevel1
    ELSE StallNone

\* Mutant of Inactive: a torrent that never received data is never inactive, the
\* lastActivity.IsZero() guard stall_test.go is about.
InactiveAfterDataOnly(p) == IF p.sinceActivity # Never THEN p.sinceActivity ELSE 0

\* Time since data last arrived; before any did, since the torrent was added
\* or first had a peer, whichever is later.
Inactive(p) ==
    IF p.sinceActivity # Never THEN p.sinceActivity
    ELSE IF p.sinceFirstPeer # Never /\ p.sinceFirstPeer < p.sinceAdded
      THEN p.sinceFirstPeer
      ELSE p.sinceAdded

\* Mutant of NoPeersEver: only torrents with metadata count, the guard that
\* TestCheckStalls_NoPeersEver_FiresAfterTimeout is about.
NoPeersEverIfReady(p) ==
    p.hasInfo /\ p.sinceFirstPeer = Never /\ p.sinceAdded > FirstPeerTimeout

NoPeersEver(p) == p.sinceFirstPeer = Never /\ p.sinceAdded > FirstPeerTimeout

\* Rules 1 and 2, then 3, then 4 and 5, then 6.
classifyStall(p) ==
    IF ~p.downloading \/ p.uptime < SessionStartupGrace THEN StallNone
    ELSE IF NoPeersEver(p) THEN StallNoPeersEver
    ELSE IF ~p.bytesMissing \/ ~p.hasInfo THEN StallNone
    ELSE ActivityLevel(Inactive(p))
=============================================================================
