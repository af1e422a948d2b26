CONSTANTS
    t1 = t1
    t2 = t2
    w1 = w1
    w2 = w2
    NoTorrent = NoTorrent
    Torrent <- Torrents
    Worker <- TwoWorkers
    Priority <- Priorities
    Cap <- JustOne
    Ops <- RaceOps
    MaxOps = 2
SPECIFICATION Spec
INVARIANTS PauseIsSticky
CHECK_DEADLOCK FALSE
