CONSTANTS
    Albums = {a1, a2}
    Threads = {t1, t2}
    NoAlbum = NoAlbum
    NoThread = NoThread
    Manual = Manual
    ClientLimit = 1
    BotLimit = 2
    FailingStarts = {}
    MaxInputs = 4
SYMMETRY Symmetry
SPECIFICATION Spec
INVARIANT GrabKept
