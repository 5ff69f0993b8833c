\* Three uploads, one with a low score; a change of the AcoustID setting; the worker is fair.
CONSTANTS
    Candidates = {good, other, weak}
    NoCandidate = NoCandidate
    LowScore = {weak}
    Expected = 8
    Lengths <- MCLengths
    Tolerance = 1
    HasRecording = TRUE
    MaxToggles = 1
SPECIFICATION FairSpec
INVARIANTS
    TypeOK
    NoTempForgotten
    KeptFileSound
    LastResortNearest
PROPERTY TrackEnds
