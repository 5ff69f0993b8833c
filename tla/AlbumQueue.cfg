\* Two albums, the threads of one of which may fail to start, and three user, Lidarr or crash events.
CONSTANTS
    Albums = {a1, a2}
    Threads = {t1, t2}
    NoAlbum = NoAlbum
    NoThread = NoThread
    Manual = Manual
    ClientLimit = 1
    BotLimit = 2
    FailingStarts = {a2}
    MaxInputs = 3
SPECIFICATION FairSpec
INVARIANTS
    RunsApart
    NoOrphanDownloadingRow
    OwedKept
    PauseTakesEffect
PROPERTIES
    StopSticks
    OwedServed
