\* Three albums, of which the first two are never found and take every place from the
\* third, which comes later, once all are tried; one per check; the user queues the first
\* by hand.
CONSTANTS
    a1 = a1
    a2 = a2
    a3 = a3
    Catalogue <- MCThree
    NoAlbum = NoAlbum
    NeverFound = {a1, a2}
    MaxAlbums = 1
    Cooldown = 2
    MaxWait = 3
    MaxRetries = 0
    AtFirst = {a1, a2}
    ByHand = {a1}
    MaxRequests = 1
SPECIFICATION FairSpec
INVARIANT
    TypeOK
PROPERTIES
    RetriesSpaced
    FreshBeforeRetries
    RetriedEventually
