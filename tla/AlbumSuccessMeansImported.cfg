CONSTANTS
    Albums = {a1}
    Tracks = {t1, t2}
    Temp = Temp
    LidarrPaths = {"other"}
    MaxRuns = 2
    MaxCrashes = 1
SPECIFICATION Spec
INVARIANT
    SuccessMeansImported
