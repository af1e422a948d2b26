CONSTANTS
    t1 = t1
    NoTorrent = NoTorrent
    Torrent <- OneTorrent
    Ops <- AllOps
    SessionStartupGrace = 2
    FirstPeerTimeout = 1
    StallTimeout = 1
SPECIFICATION FairSpec
INVARIANTS TypeOK AnnouncedOncePerMark
PROPERTIES DeadIsReported StoppedTransferIsMarked
CHECK_DEADLOCK FALSE
