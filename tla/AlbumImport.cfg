\* Two albums of an artist with two tracks each; two runs and one crash; both layouts of the folders.
CONSTANTS
    Albums = {a1, a2}
    Tracks = {t1, t2}
    Temp = Temp
    LidarrPaths = {"other", "same"}
    MaxRuns = 2
    MaxCrashes = 1
SYMMETRY Symmetry
SPECIFICATION Spec
INVARIANTS
    NothingLost
    OnlyTracksInLibrary
    NoPhantomImport
