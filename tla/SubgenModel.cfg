\* Two tasks, two workers, a detection and one failing load or unload; fair threads.
CONSTANTS
    Nobody = Nobody
    NoTask = NoTask
    Ids = {t1, t2}
    Workers = {w1, w2}
    Detections = {d1}
    MaxFailures = 1
SPECIFICATION FairSpec
INVARIANTS
    TypeOK
    OneCopy
PROPERTIES
    ClearsWhenQuiet
    MemoryReturned
    WorkEnds
\* Tasks and detections are bounded: everything ends.
CHECK_DEADLOCK FALSE
