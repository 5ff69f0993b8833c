\* Two jobs that share two keys; one subtitle takes two batches; one resend.
CONSTANTS
    j1 = j1  j2 = j2  NoJob = NoJob
    Jobs = {j1, j2}
    Present = {j2}
    NumKeys = 2
    NumLines <- MCNumLines
    BatchSize = 3
    RetryNum = 1
SPECIFICATION FairSpec
INVARIANTS
    LinesAccounted
    OwnLimitsRespected
    RequestBound
PROPERTIES
    ImplementsJob
    JobsEnd
