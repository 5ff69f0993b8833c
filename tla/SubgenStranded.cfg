\* The same requests, all impatient, and two workers.
CONSTANTS
    r1 = r1  r2 = r2  r3 = r3  s1 = s1  w1 = w1  w2 = w2
    film = film  upload = upload  NoBox = NoBox  NoTask = NoTask
    Requests = {r1, r2, r3}
    Submissions = {s1}
    Workers = {w1, w2}
    Ids = {film, upload}
    IdOf <- MCMixed
    Want <- MCSame
    FileWant = "srt"
    Impatient = {r1, r2, r3}
SPECIFICATION Spec
INVARIANT NobodyStranded
\* Requests and submissions are bounded: everything ends.
CHECK_DEADLOCK FALSE
