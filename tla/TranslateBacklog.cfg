\* Two episodes, one of which cannot be read, and two movies, one of which has no English
\* subtitle; two failures in a row stop a run.
CONSTANTS
    e1 = e1  e2 = e2  m1 = m1  m2 = m2  NoItem = NoItem
    Items = {e1, e2, m1, m2}
    Wanted <- MCWanted
    NoSource = {m2}
    UnreadableItems = {e1}
    SkipAfter = 2
    FailureLimit = 2
    MaxPolls = 1
    MaxMishaps = 1
SPECIFICATION FairSpec
INVARIANTS
    TypeOK
    ExcludedAfterSeparateRuns
PROPERTIES
    QuietInCooldown
    EveryItemTried
