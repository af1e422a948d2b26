CONSTANTS
    t1 = t1
    t2 = t2
    w1 = w1
    w2 = w2
    NoTorrent = NoTorrent
    Torrent <- Torrents
    Worker <- OneWorker
    Priority <- Priorities
    Cap <- CapsZeroOne
    Ops <- SerialOps
    MaxOps = 2
SPECIFICATION FairSpec
INVARIANTS CapWhenIdle IdleIsBalanced PauseIsSticky
PROPERTIES NoIdleSlot
CHECK_DEADLOCK FALSE
