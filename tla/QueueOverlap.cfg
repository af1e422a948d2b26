CONSTANTS
    t1 = t1
    t2 = t2
    w1 = w1
    w2 = w2
    NoTorrent = NoTorrent
    Torrent <- Torrents
    Worker <- TwoWorkers
    Priority <- Priorities
    Cap <- JustOne
    Ops <- OverlapOps
    MaxOps = 1
SPECIFICATION Spec
SYMMETRY Symmetry
INVARIANTS TypeOK SettledIsBalanced
PROPERTIES SnapshotPausesAreKept
CHECK_DEADLOCK FALSE
