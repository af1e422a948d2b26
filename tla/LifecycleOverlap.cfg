CONSTANTS
    t1 = t1
    t2 = t2
    w1 = w1
    w2 = w2
    NoTorrent = NoTorrent
    Torrent <- OneTorrent
    Worker <- TwoWorkers
    DriverFormats = {"rfc3339", "goString"}
    Overlap = TRUE
    MaxAdds = 2
    MaxCrashes = 0
SPECIFICATION Spec
INVARIANT ManagedHasLiveRow
CHECK_DEADLOCK FALSE
