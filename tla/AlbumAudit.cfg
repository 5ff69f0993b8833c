\* Two albums of a track each; one track is downloaded twice, the other's file is cut short;
\* two ticks until a row expires.
CONSTANTS
    r1 = r1  r2 = r2  r3 = r3  t1 = t1  t2 = t2  a1 = a1  a2 = a2  NoRow = NoRow
    Rows = {r1, r2, r3}
    Tracks = {t1, t2}
    TrackOf <- MCTrackOf
    AlbumOf <- MCAlbumOf
    Actual <- MCActual
    SourceLength <- MCSource
    Verified = {}
    LastResort = {r2}
    Expected <- MCExpected
    Tolerance = 10
    Settle = 1
    Expiry = 2
    FirstLook = 3
    MaxTime = 5
    MaxDeaths = 1
SPECIFICATION FairSpec
INVARIANTS
    TypeOK
    CursorPassesNoOpenRow
PROPERTIES
    CursorCatchesUp
