\* A request for an upload, two requests and a submission for a film; one of the
\* requests for the film is patient; one worker; fair threads.
CONSTANTS
    r1 = r1  r2 = r2  r3 = r3  s1 = s1  w1 = w1  w2 = w2
    film = film  upload = upload  NoBox = NoBox  NoTask = NoTask
    Requests = {r1, r2, r3}
    Submissions = {s1}
    Workers = {w1}
    Ids = {film, upload}
    IdOf <- MCMixed
    Want <- MCSame
    FileWant = "srt"
    Impatient = {r1, r3}
SPECIFICATION FairSpec
INVARIANTS
    OwnerServed
    NoLeftovers
PROPERTIES
    ImplementsService
    OwnerAnswered
    QueueDrains
\* Requests and submissions are bounded: everything ends.
CHECK_DEADLOCK FALSE
