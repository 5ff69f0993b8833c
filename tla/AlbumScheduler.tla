--------------------------- MODULE AlbumScheduler ---------------------------
(***************************************************************************)
(* Which missing albums are queued, and when again:                        *)
(* src/stacks/lidarr-ytdl/patches/scheduler.py, with the backoff of        *)
(* failing tracks of processing.py.  The check reads Lidarr's list, the    *)
(* history and the queue one after the other, without a common lock, while *)
(* the queue's thread runs albums (module AlbumQueue).                     *)
(*                                                                         *)
(* Time is counted in checks.  Every album here misses one track.          *)
(***************************************************************************)
EXTENDS Naturals, FiniteSets, SequencesExt

CONSTANTS
    Catalogue,   \* Lidarr's list of albums, in its order
    NoAlbum,     \* "no album"
    NeverFound,  \* albums whose track is not on YouTube
    MaxAlbums,   \* scheduler_max_albums, 0 for no limit
    Cooldown,    \* scheduler_retry_after_hours, in checks
    MaxWait,     \* _TRACK_BACKOFF_MAX_SECONDS, in checks
    MaxRetries,  \* max_track_retries, 0 for no limit
    AtFirst,     \* albums that are missing at the first check
    ByHand,      \* albums that the user may queue
    MaxRequests  \* bound on how often

Albums == Range(Catalogue)

ASSUME CatalogueAssumption ==
    /\ Catalogue \in Seq(Albums) /\ IsInjective(Catalogue)
    /\ NoAlbum \notin Albums
    /\ NeverFound \subseteq Albums /\ AtFirst \subseteq Albums /\ ByHand \subseteq Albums
ASSUME LimitsAssumption ==
    /\ MaxAlbums \in Nat /\ MaxRetries \in Nat /\ MaxRequests \in Nat
    /\ Cooldown \in Nat \ {0} /\ MaxWait \in Nat
    /\ MaxWait >= Cooldown

\* lookback_seconds: two intervals.
Lookback == 2

\* Ages are counted as far as they are told apart; Never is the age of what has
\* not happened.
Old == IF Cooldown > Lookback THEN Cooldown ELSE Lookback
Never == Old + 1

VARIABLES
    missing,   \* albums that Lidarr lists as missing
    queue,     \* rows of the queue
    running,   \* album that is being downloaded, the head of the queue
    forced,    \* albums whose row has the force flag: they ignore the backoff
    requests,  \* ghost: albums the user queued so far
    age,       \* age[a]: age of the album's last entry in the history
    failures,  \* failures[a]: consecutive failed downloads of its track
    since,     \* since[a]: age of the last of them
    pc,        \* where the check is
    listed,    \* albums: Lidarr's list as the check read it
    recent,    \* recent_history_ids and attempted_ids
    todo,      \* places in Catalogue of the albums the check still has to queue
    raced,     \* ghost: albums that were run during this check
    auto,      \* scheduler_auto_download
    reported   \* _last_reported_ids

history == <<age, failures, since>>
check == <<pc, listed, recent, todo, raced, reported>>
vars == <<missing, queue, running, forced, requests, history, check, auto>>

TypeOK ==
    /\ missing \subseteq Albums /\ queue \in Seq(Albums) /\ IsInjective(queue)
    /\ running \in Albums \cup {NoAlbum} /\ forced \subseteq Albums
    /\ requests \in 0..MaxRequests
    /\ age \in [Albums -> 0..Never] /\ since \in [Albums -> 0..MaxWait]
    /\ failures \in [Albums -> Nat]
    /\ pc \in {"off", "due", "history", "queue", "enqueue"}
    /\ listed \subseteq Albums /\ recent \subseteq Albums /\ raced \subseteq Albums
    /\ todo \subseteq DOMAIN Catalogue
    /\ auto \in BOOLEAN /\ reported \subseteq Albums

Init ==
    /\ missing = AtFirst
    /\ queue = <<>> /\ running = NoAlbum /\ forced = {} /\ requests = 0
    /\ age = [a \in Albums |-> Never]
    /\ failures = [a \in Albums |-> 0]
    /\ since = [a \in Albums |-> MaxWait]
    /\ pc = "off" /\ listed = {} /\ recent = {} /\ todo = {} /\ raced = {}
    /\ auto \in BOOLEAN /\ reported = {}

-----------------------------------------------------------------------------
(* The queue. *)

\* A mutant of EnqueueAlbum: a second row is made.
EnqueueTwice(a) == queue' = Append(queue, a)

EnqueueAlbum(a) == queue' = IF Contains(queue, a) THEN queue ELSE Append(queue, a)

\* The user queues an album by hand; whether its row gets the force flag, and a row
\* that is there already too, is up to the web application.
Request(a) ==
    /\ a \in ByHand /\ requests < MaxRequests
    /\ requests' = requests + 1
    /\ EnqueueAlbum(a)
    /\ forced' \in {forced, forced \cup ({a} \ {running})}
    /\ UNCHANGED <<missing, running, history, check, auto>>

\* The queue's thread starts the next album.
StartAlbum ==
    /\ running = NoAlbum /\ queue # <<>>
    /\ running' = Head(queue)
    /\ raced' = IF pc \in {"off", "due"} THEN raced ELSE raced \cup {Head(queue)}
    /\ UNCHANGED <<missing, queue, forced, requests, history, pc, listed, recent, todo, reported,
                   auto>>

-----------------------------------------------------------------------------
(* Backing off. *)

\* A track's wait after its k-th failure in a row: it doubles, up to a limit.
Wait(k) ==
    LET doubled[n \in Nat] == IF n <= 1 THEN Cooldown ELSE 2 * doubled[n - 1]
    IN  IF doubled[k] > MaxWait THEN MaxWait ELSE doubled[k]

\* _compute_deferred_tracks, _track_retry_at.
Deferred(a) ==
    /\ failures[a] > 0
    /\ \/ MaxRetries > 0 /\ failures[a] >= MaxRetries
       \/ since[a] < Wait(failures[a])

AlbumEnds ==
    /\ running' = NoAlbum
    /\ queue' = Tail(queue)
    /\ age' = [age EXCEPT ![running] = 0]
    /\ forced' = forced \ {running}
    /\ UNCHANGED <<requests, missing, check, auto>>

\* A mutant of SinceAfterSkip: an entry in the history counts as a failure.
SkipResets == [since EXCEPT ![running] = 0]

SinceAfterSkip == since

\* Nothing to download: only the history is written.
AlbumSkipped ==
    /\ running # NoAlbum
    /\ running \notin forced /\ Deferred(running)
    /\ AlbumEnds
    /\ since' = SinceAfterSkip
    /\ UNCHANGED failures

\* The track is downloaded again and fails; counts beyond the limits of Wait and
\* MaxRetries are not told apart.
AlbumFails ==
    /\ running # NoAlbum
    /\ running \in forced \/ ~Deferred(running)
    /\ AlbumEnds
    /\ since' = [since EXCEPT ![running] = 0]
    /\ failures' = [failures EXCEPT ![running] =
                      IF @ > MaxRetries /\ Wait(@) = MaxWait THEN @ ELSE @ + 1]

AlbumDone ==
    /\ running # NoAlbum
    /\ running \in forced \/ ~Deferred(running)
    /\ running \notin NeverFound
    /\ AlbumEnds
    /\ failures' = [failures EXCEPT ![running] = 0]
    /\ UNCHANGED since

\* Lidarr lists an album as missing: it is new, or its file is gone.
Wanted(a) ==
    /\ a \notin missing
    /\ missing' = missing \cup {a}
    /\ UNCHANGED <<queue, running, forced, requests, history, check, auto>>

\* Lidarr sees the files of an album that was done.
Refresh(a) ==
    /\ a \in missing
    /\ age[a] # Never /\ failures[a] = 0
    /\ missing' = missing \ {a}
    /\ UNCHANGED <<queue, running, forced, requests, history, check, auto>>

-----------------------------------------------------------------------------
(* The check. *)

\* An interval passes and the check is due.
Tick ==
    /\ pc = "off"
    /\ pc' = "due"
    /\ age' = [a \in Albums |-> IF age[a] < Old THEN age[a] + 1 ELSE age[a]]
    /\ since' = [a \in Albums |-> IF since[a] < MaxWait THEN since[a] + 1 ELSE MaxWait]
    /\ UNCHANGED <<missing, queue, running, forced, requests, failures, listed, recent, todo, raced,
                   reported, auto>>

CheckEnds == pc' = "off" /\ listed' = {} /\ recent' = {} /\ todo' = {} /\ raced' = {}

\* While an album is downloaded nothing is checked.
CheckSkipped ==
    /\ pc = "due"
    /\ running # NoAlbum
    /\ CheckEnds
    /\ UNCHANGED <<missing, queue, running, forced, requests, history, reported, auto>>

ReadMissing ==
    /\ pc = "due"
    /\ running = NoAlbum
    /\ listed' = missing
    /\ pc' = "history"
    /\ UNCHANGED <<missing, queue, running, forced, requests, history, recent, todo, raced,
                   reported, auto>>

\* A mutant of Attempted: the history is read from an interval too late.
SeenLately(a) == age[a] + 1 < Lookback \/ age[a] + 1 < Cooldown

Attempted(a) == age[a] < Lookback \/ age[a] < Cooldown

ReadHistory ==
    /\ pc = "history"
    /\ recent' = {a \in Albums : Attempted(a)}
    /\ pc' = "queue"
    /\ UNCHANGED <<missing, queue, running, forced, requests, history, listed, todo, raced,
                   reported, auto>>

\* new_albums: the places of those not queued, not tried lately, not being downloaded.
NewAlbums ==
    {n \in DOMAIN Catalogue :
        LET a == Catalogue[n]
        IN  a \in listed /\ ~Contains(queue, a) /\ a \notin recent /\ a # running}

\* A mutant of FreshFirst: upstream's scheduler.
NoOrder(S) == S

\* One pass first: albums without a history go before all others.
FreshFirst(S) ==
    LET fresh == {n \in S : age[Catalogue[n]] = Never}
    IN  IF fresh # {} THEN fresh ELSE S

\* scheduler_max_albums: the first of the list.
Limited(S) ==
    IF MaxAlbums > 0 THEN {n \in S : Cardinality({m \in S : m < n}) < MaxAlbums} ELSE S

\* The albums to queue are chosen; without auto-download they are only reported.
Choose ==
    /\ pc = "queue"
    /\ LET chosen == Limited(FreshFirst(NewAlbums)) IN
         IF auto
         THEN /\ todo' = chosen
              /\ pc' = "enqueue"
              /\ UNCHANGED <<listed, recent, raced, reported>>
         ELSE /\ reported' = IF chosen = {} THEN reported ELSE {Catalogue[n] : n \in chosen}
              /\ CheckEnds
    /\ UNCHANGED <<missing, queue, running, forced, requests, history, auto>>

\* The first of the chosen albums is queued.
QueueAlbum(n) ==
    /\ pc = "enqueue" /\ \A m \in todo : n <= m
    /\ EnqueueAlbum(Catalogue[n])
    /\ todo' = todo \ {n}
    /\ UNCHANGED <<missing, running, forced, requests, history, pc, listed, recent, raced, reported,
                   auto>>

QueueNext == \E n \in todo : QueueAlbum(n)

CheckDone ==
    /\ pc = "enqueue" /\ todo = {}
    /\ CheckEnds
    /\ UNCHANGED <<missing, queue, running, forced, requests, history, reported, auto>>

-----------------------------------------------------------------------------
Check == CheckSkipped \/ ReadMissing \/ ReadHistory \/ Choose \/ QueueNext \/ CheckDone
Ends == AlbumSkipped \/ AlbumFails \/ AlbumDone

Next ==
    \/ Tick \/ Check \/ StartAlbum \/ Ends
    \/ \E a \in Albums : Request(a) \/ Wanted(a) \/ Refresh(a)

Spec == Init /\ [][Next]_vars

FairSpec ==
    /\ Spec
    /\ WF_vars(Tick) /\ WF_vars(Check) /\ WF_vars(StartAlbum) /\ WF_vars(Ends)

-----------------------------------------------------------------------------
(* Properties. *)

Queues(a) == ~Contains(queue, a) /\ \E n \in todo : Catalogue[n] = a /\ QueueAlbum(n)

\* The check does not queue an album again before its cooldown is over, except one
\* that was run while the check was being made.
RetriesSpaced ==
    [][\A a \in Albums : Queues(a) => age[a] >= Cooldown \/ a \in raced]_vars

\* No retry is queued while an album that was never tried waits outside the queue.
FreshBeforeRetries ==
    [][\A a, b \in Albums :
         Queues(a) /\ age[a] # Never /\ a \notin raced /\ b \in listed /\ age[b] = Never
         => Contains(queue, b)]_vars

\* One pass first: every album that stays missing is tried, whatever its place in
\* Lidarr's list and however many of those before it fail for ever.
EachTried(a) == []<>(a \notin missing) \/ <>(age[a] # Never)

\* No more than MaxAlbums albums stand before it in the list: they cannot take every
\* place of every check, since the last of them to end is left alone by the next one.
NearFront(a) ==
    MaxAlbums = 0 \/ \E n \in DOMAIN Catalogue : Catalogue[n] = a /\ n - 1 <= MaxAlbums

Retried(a) == []<>(a \notin missing) \/ []<><<Ends /\ running = a /\ ~AlbumSkipped>>_vars

\* Every album that stays missing is tried, and those near the front of Lidarr's list
\* are tried again and again, "while still retrying eventually, in case the track appears
\* later".  The code promises no more: an album further down is never tried again while
\* enough of those before it keep failing, since a check queues the first of the list and
\* not those that have waited longest.
RetriedEventually ==
    \A a \in Albums :
        auto => IF MaxRetries = 0 /\ NearFront(a) THEN Retried(a) ELSE EachTried(a)

=============================================================================
