CONSTANTS
    t1 = t1
    t2 = t2
    w1 = w1
    w2 = w2
    NoTorrent = NoTorrent
    Torrent <- TwoTorrents
    Worker <- TwoWorkers
    DriverFormats = {"rfc3339", "goString"}
    Overlap = FALSE
    MaxAdds = 3
    MaxCrashes = 2
SPECIFICATION Spec
SYMMETRY Symmetry
INVARIANTS TypeOK RemovedStaysRemoved SavedSurvivesRestart MemoryMatchesTable
CHECK_DEADLOCK FALSE
