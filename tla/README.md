# Verification of the media hub's own programs

The repository is the configuration of a home media server: compose files, proxies, emulator
settings, and the programs that keep it running. Most of it is configuration or one-pass scripts.
The programs that carry logic of their own, over long times and beside one another, are what
this directory models:

* **lidarr-ytdl** (`src/stacks/lidarr-ytdl/patches/`), which downloads the albums Lidarr misses
  from YouTube: `processing.py` and `scheduler.py` are the patched modules of the container;
* **SubGen** (`src/stacks/subgen-r9/src/subgen.py`), a server that transcribes films and audio
  with Whisper, for Bazarr, for webhooks and for OpenAI-style clients;
* **the subtitle translator** (`src/stacks/arr-stack/`): `patches/gemini_translator.py`, the
  translation service patched into Bazarr, and `scripts/bazarr-translate-missing-es.py`, the
  script that works off the missing Spanish subtitles with it;
* **the audit** (`src/scripts/lidarr-ytdl-audit.py`), which looks again at what lidarr-ytdl has
  downloaded and deletes what is wrong.

Line numbers below are those of the repository's files. `P`, `S`, `G`, `T`, `B` and `A` stand for
`processing.py`, `scheduler.py`, `subgen.py`, `gemini_translator.py`,
`bazarr-translate-missing-es.py` and `lidarr-ytdl-audit.py`.

## 1. Inventory

### lidarr-ytdl

| Component | State | Operations | Interacts with |
|---|---|---|---|
| Album queue (P 204-234, 345-383, 584-592, 1360-1406, 3194-3293) | rows of the queue (SQLite), `download_process` (the foreground state), `_active_states`, stop flags, `_bot_block_streak`, the pause switch | enqueue, grab, stop, pause and resume, manual download, the dispatcher's pass, the entry and exit of `process_album_download`, `_run_queued_album`'s clean-up, restart | threads of albums, the web application, Lidarr's download client, SQLite |
| Album run (P 582-961, 1007-1061, 1211-1264, 1537-1640, 2766-3124) | download folder, library folder, `succeeded_tracks`, `failed_tracks`, Lidarr's own view of files | filter the tracks, download, copy, delete, refresh, hand over to Lidarr | the file system, Lidarr, the other albums of the artist |
| Track download (P 1270-1352, 1513-1608, 1713-2601) | candidates, temp files, bans of the run, the held unverified and last-resort candidates, the track's status | search, download, measure, verify by AcoustID, hold, ban, keep, re-download | YouTube, AcoustID, the user's skip and stop |
| Scheduler and backoff (S, P 1058-1208, 1559-1640) | history, queue, failure counts, last report | list what is missing, leave out what was tried lately, fresh albums first, limit, enqueue | Lidarr, the queue, the album runs |

What is hard: the dispatcher, the album threads, the web handlers and the scheduler share one
queue, one foreground state and several SQLite tables under a lock that is released between
steps; the process restarts at any moment; copies fail half way; YouTube and AcoustID answer
anything, in any order; the user stops and skips at any moment. What makes these components
correct: an album and the foreground run once at a time; what was asked for is begun, through
crashes; a pause and a stop take effect; no downloaded file is lost and no temp file reaches
the library; a track gets no banned or too short file; retries keep their distance and
albums never tried go first.

### SubGen

| Component | State | Operations | Interacts with |
|---|---|---|---|
| Task queue (G 298-341) | the heap, the ids queued, the ids processed | put, get (two critical sections), mark_done, is_idle, is_active | endpoints, submissions, workers, model clean-up |
| Blocking endpoints and workers (G 240-262, 358-424, 730-980, 1054-1189, 1403-1454, 1623-1686, 1949-1982) | `task_results`, TaskResults, a worker's task | join or create a TaskResult, put, wait or time out, clean up; look, probe and put a file; take, serve, mark done, follow up | coroutines of one event loop, worker threads |
| Model life (G 1179-1290, 1500-1586) | `model`, its lock, the clean-up timer and its lock, `active_direct_tasks` | start_model, detect outside the queue, schedule, cancel and fire a clean-up, unload | workers, detections, timers |
| Skip rules, languages, webhooks | none beyond the file probed | a decision table and path look-ups | the endpoints above |

What is hard: `get()` takes a task before it says so; identical requests share a TaskResult
that whoever ends first throws away; requests time out while their task is worked on; the
clean-up decides under two locks and acts under none; timers are cancelled while they fire.
What makes it correct: one transcription per id, nobody who queued a task is forgotten, nothing
is left in `task_results`, one copy of the model, memory given back when work has ceased.

### The subtitle translator

| Component | State | Operations | Interacts with |
|---|---|---|---|
| Gemini service of Bazarr (T 60-595) | cooldowns of the keys (one map for the process), and per job: current key, lines put in batches, batches to be sent, progress file, output file | begin a job, choose a key, take the next batch, send it, resend, halve, cool a key down, give up, write | other jobs through the cooldowns, Gemini, the disk, Bazarr |
| Backlog script (B) | blocklist file, cooldown file; in a run: worklist, item, failures in a row | list what is wanted, ask for a translation, look for the file and in Bazarr's log, count a failure, stop, cool down | Bazarr's API, its jobs, its log and the disk; cron |

What is hard: a batch is resent, halved and resent again in any mixture, and each part must keep
its lines; keys are shared by jobs that do not know of each other; the output is emptied before
anything is translated; the script has to guess from a log that several jobs write to why its file
is missing, and what it guesses lives on in files. What makes it correct: no line is lost or
sent twice, a whole file is written only when every line was answered, an exhausted key or quota is
left alone, requests are bounded, jobs end unless Gemini never answers, every item has its turn and is
given up only for cause.

### The audit

| Component | State | Operations | Interacts with |
|---|---|---|---|
| Audit (A) | the cursor file; in a run: the rows of the window, what Lidarr said, rows that wait | select the window, help Lidarr link, ask Lidarr, judge, postpone, delete, ban, save the cursor | the downloader's table, Lidarr's API, the downloader's API, the files |

What is hard: it follows a table that grows, judges rows by what another program has or has not
done with their files yet, deletes through two APIs, and has one number to remember it all by.
What makes it correct: the cursor passes no row that nobody has judged (but in two cases the code
allows, section 5), no row stops it for ever, and Lidarr is never left with a record of a file that
is gone.

### The rest of the repository

`PROJECT.json` lists every other part with the reason it is not modelled. In short:

* planned: `qa_voting.py` (an algorithm on lists of segments), SubGen's skip rules;
* candidates: `netmon.py`, `nextcloud-save-watch.py`;
* left out: sequential shell around find, rsync, systemctl and docker; one-pass conversions and
  reports; input devices of the arcade; configuration; the upstream `.orig` copies.

The web application, the SQLite models, Lidarr's client and the download-client API of
lidarr-ytdl are the container image's own and not in the repository: the models take them
from the calls `processing.py` and `scheduler.py` make, and mark them external.

## 2. Modules

| Module | Models | Composes |
|---|---|---|
| `AlbumQueue` | the album queue of P | |
| `AlbumQueueProofs` | its theorems, and those of `AlbumScheduler`, which fills the queue | `AlbumQueue`, `AlbumScheduler` |
| `AlbumImport` | the files of several albums over several runs | takes from `AlbumQueue` that an album has one run at a time, and the foreground one |
| `AlbumImportProofs` | its theorems | `AlbumImport` |
| `TrackDownload` | one track's candidates, files and outcome; `AlbumImport` knows of it that a track is done, fails or is skipped and may leave a temp file behind | |
| `TrackDownloadProofs` | its theorems | `TrackDownload` |
| `AlbumScheduler` | the check of S and the backoff of P, with the queue's thread as one step per start and end of an album | |
| `TaskService` | what SubGen's queue promises: one task per id, the most urgent first, an atomic get | |
| `DedupQueue` | SubGen's queue as it is, each operator one critical section | |
| `SubgenRequests` | endpoints, submissions and workers | `DedupQueue`; implements `TaskService` |
| `SubgenRequestsProofs` | its theorems, the refinement among them | `SubgenRequests` |
| `SubgenModel` | loading and unloading the model | `DedupQueue` |
| `SubgenModelProofs` | its theorems | `SubgenModel` |
| `TranslationJob` | what a translation job promises: success only over a whole file or one it has not touched; which files a failure, an early end or a restart may leave | |
| `GeminiTranslator` | Bazarr's Gemini service: jobs, batches, keys | implements `TranslationJob` |
| `GeminiTranslatorProofs` | its theorems, the refinement among them | `GeminiTranslator` |
| `TranslateBacklog` | the backlog script over several runs | `TranslationJob` for the jobs it asks for |
| `TranslateBacklogProofs` | its theorems | `TranslateBacklog` |
| `AlbumAudit` | the audit beside the downloader and Lidarr, which are reduced to what it sees of them | |
| `AlbumAuditProofs` | its theorems | `AlbumAudit` |
| `MC...` | constants and symmetries of the instances | the module of the name |

A definition named as a *mutant* in its comment is a plausible bug in the definition that
follows it. No specification uses it: `PROJECT.json` names, for every property, the mutant
that makes it fail.

### How state and actions correspond to the code

**AlbumQueue.** `order` and `status` are the rows; `client` the registered grabs; `fg` is
`download_process["active"]` with its owner; `active` is `_active_states`; `stop` the flag of
every state (one foreground, one per client thread); `disp` is the local state of
`_dispatch_next_from_queue`, `thread[t]` that of an album's thread. `Tick`, `ScanRow`,
`DropDuplicate`, `Route` and `Launch` are the steps of one pass, apart because the code takes and
releases `queue_lock` between them. `Enter` is the first critical section of
`process_album_download`, `Finish` its finally clause. `AfterRun` and `AfterRunDequeue` are
the two calls of `_run_queued_album` with nothing between them that would keep a grab out.
`BreakerPause` and `BreakerStop` are the two halves of `_trip_bot_block_breaker`. `Restart` is a
crash and the start of a new process. `owed`, `grabbed` and `late` are ghosts: albums asked
for and not begun, grabs not begun, starts since the last hold.

**AlbumImport.** `staging[a]`, `whole[a]`, `partial[a]` are what is in the download folder
and, whole or cut short, in the library. `Start` is `_filter_tracks` and the beginning of the
run, `NothingToDo` its end when nothing is missing, which hands a grab's files to Lidarr too;
`TrackDone`, `TrackFails`, `TrackSkipped` what a worker reports; `StartCopy`,
`CopyItem`, `SkipGone`, `CopyFails`, `CopyDone`, `CleanUp`, `Finish` the import, one action per
file because it may stop between any two; `SkipGone` is a listed file that has vanished meanwhile,
which the copy passes over (P 3108) on its way to success and the clean-up; `HandOver` a finished
grab; `LidarrScan`, `LidarrImport` Lidarr's own steps. An import moves any of the files it was
handed, so that it may meet a copy half way.

**TrackDownload.** `pc` is the place in `_process_track_body`; `temps` the temp files; `bestU` and
`heldF` are `best_unverified_candidate` and `held_fallback`; `banned` the bans of this run;
`Results` is what a search may return, any uploads in any order, and of a second search only those
that are `Untried`; `kept` says which upload became the track's file and for what reason. The user's
flags and the AcoustID setting change between any two steps.

**AlbumScheduler.** A check reads the missing albums, the history and the queue in three actions
(`ReadMissing`, `ReadHistory`, `Choose`), since the code has no common lock, and queues one album
per `QueueNext`. `todo` are places in `Catalogue`, Lidarr's list, so that "the first of the list" is
a matter of numbers; `QueueAlbum(n)` queues the first place left. `age` and `since` count checks, up
to the largest value the code compares with. `forced` are the albums whose row has the force flag.

**SubgenRequests.** `results` is `task_results`; a TaskResult is named after the request that
made it, and `box` holds what it holds. `at[r]` is where a coroutine is: `joined` lies
between get-or-create and `put`, with no await in between, so that `LoopFree` keeps other
coroutines out and lets the worker threads in. `Wake`, `TimeOut` and `CleanUp` are the
endpoint's wait and its finally clause. `Pop` and `Take` are the two halves of `get()`;
`ServeAsr`, `ServeFile` and `Detect` what the worker does with a task; `Finish` the put of the
transcription that follows a detection.

**SubgenModel.** `at[u]` is where a worker or a direct detection is in its use of the model,
`loader` and `cleaner` hold `model_load_lock` and `model_cleanup_lock`, `timer[t]` is a
`threading.Timer` and `current` the one `model_cleanup_timer` names. The unload is four
steps, since another thread may run between them.

**GeminiTranslator.** A subtitle is its number of lines. A part of a batch is a record of its first
line, the line after its last and its `retry_num`; `work[j]` is what is on the stack of calls of
`_process_batch`, `upto[j]` the loop's index. An answer is right (`Accepted`), says the key is over
its limit (`RateLimited`) or is anything else (`Refused`); which one comes is free at every
request. `Hang` is a request that is never answered, since none has a timeout: its job is in `hung`
until Bazarr is restarted. `SelectKey` is the ring of `_select_next_api_key`. `Open` empties the
output, `Write` fills it, `WriteFails` does so in part or not at all, `WrittenButFails` is an error
of what follows on the writing (T 129-149): the job has failed and its file is there, whole, cut
short or emptied by the rewriting that adds the translator's name. `GiveUp` is the handler that
removes the empty output, or swallows that it cannot (T 592-594). `NoKey` and `OpenFails` are the
two ends that never open it. The removals of the progress file and of an old output may fail
unnoticed too (`ClearProgress`, `RemoveOutput`). A job of `Present` finds an old translation; a
restart of Bazarr leaves the output of a job that was writing as far as it got. A cooldown may
expire at any moment: nothing said of keys rests on how long it lasts. `answered`, `requests` and
`coolBy` are ghosts: the lines whose answer was taken, what the job has cost since it began, who
last put a key on cooldown.

**TranslateBacklog.** `status` and `target` are the jobs', moved by the actions of
`TranslationJob`; `todo` is the rest of the worklist, as the places of Bazarr's list that
`get_wanted` has let through, worked off from the first (`Up`); `window` holds the lines of
Bazarr's log the next look may take in, `Verdict` is `classify_bazarr_log_error_since`. A job fails
for any cause at any time (`JobFails`): a limit of Gemini may be one per minute or the day's. The
lines Gemini's failures leave name no file, and one of them hides whatever is above it in the log
(`Logs`). `Request` starts a job unless there is one, `Poll...` are the outcomes of one look,
`PollDies` that of a target that is there and cannot be read, which nobody catches (B 283-290),
`Passed`, `Failed` and `Stop` what `main` does with a result. `attempts` and `cooldown` are the two
files. `Killed` includes a blocklist that was truncated and not yet written. A job that the script
has given up goes on.

**AlbumAudit.** `stamp`, `deleted` are the table; `file` and `linked` the library and Lidarr's
records. `Start` reads the window and helps Lidarr link what it has not (`link_unlinked`), `Ask` is
the one request per album, `PassOver`, `Postpone`, `Keep` and `Delete` the ends of the loop's body,
`Ban` the call after a deletion, `Finish` the cursor, `CursorLost` a cursor that cannot be read.
Lengths are numbers, compared as the code does. Three ghosts say why the audit is done with a
row: `settled` are those a run judged, replaced by a newer one of their track or gave up after an
hour; `unanswered` those that were passed over because Lidarr had no tracks for their album;
`forgotten` those that a lost cursor leaves behind, older than the day the next run looks back.

## 3. Runs

| Run | Bounds | Shows |
|---|---|---|
| `album_queue` | 2 albums, 2 threads, 3 inputs (enqueue, grab, stop, hold, manual download, restart, failing thread start); one album's threads may fail to start | `RunsApart`, `NoOrphanDownloadingRow`, `OwedKept`, `PauseTakesEffect`, `StopSticks`, and that what was asked for is begun (`OwedServed`) |
| `album_queue_grab_lost` | the same with 4 inputs | finding: `GrabKept` fails |
| `album_import` | 2 albums of an artist, 2 tracks, 2 runs, 1 crash, both layouts of the folders | `NothingLost`, `OnlyTracksInLibrary`, `NoPhantomImport` |
| `album_import_stranded` | 1 album | finding: `SuccessMeansImported` fails |
| `track_download` | 3 uploads (one with a low score), 4 lengths, one change of the AcoustID setting | `NoTempForgotten`, `KeptFileSound`, `LastResortNearest`, `TrackEnds` |
| `album_scheduler` | 3 albums, the first two never found, the third missing later; 1 album per check, cooldown 2 and longest wait 3 checks, 1 request by hand for the first | `RetriesSpaced`, `FreshBeforeRetries`, `RetriedEventually` |
| `subgen_requests` | 3 requests (2 impatient), 1 submission, 1 worker, 2 ids | `OwnerServed`, `NoLeftovers`, `ImplementsService`, `OwnerAnswered`, `QueueDrains` |
| `subgen_stranded` | 2 ids, 3 requests, every wait may time out | finding: `NobodyStranded` fails |
| `subgen_model` | 2 workers, 2 tasks, 1 direct detection, 1 failing load or unload | `OneCopy`, `ClearsWhenQuiet`, `MemoryReturned`, `WorkEnds` |
| `gemini_translator` | 2 jobs, 2 keys, subtitles of 4 lines (a batch of 3 and one of 1) and of 1 line (with an old translation), 1 resend, any request may hang | `LinesAccounted`, `OwnLimitsRespected`, `RequestBound`, `ImplementsJob`, `JobsEnd` |
| `translate_backlog` | 2 episodes (one unreadable), 2 movies (one without an English subtitle), given up after 2 failures, 2 failures in a row stop a run, 1 run killed; limits and unreadable targets as often as they like | `ExcludedAfterSeparateRuns`, `QuietInCooldown`, `EveryItemTried` |
| `album_audit` | 3 rows of 2 tracks of 2 albums, 5 ticks of the clock, a row waits for 2, 1 run that dies or cursor that is lost | `CursorPassesNoOpenRow`, `CursorCatchesUp` |

`album_scheduler`, `track_download`, `subgen_model`, `translate_backlog` and `album_audit` check
their `TypeOK` too: that of the scheduler says that no album is queued twice, that of the backlog
that no item is counted beyond `SKIP_AFTER_ATTEMPTS`, that of the audit that what is linked has a
file.

**Why the bounds are enough.** Each is the least at which the cases the properties tell apart all
happen. Two albums and two threads make a foreground run and a client run overlap, one album hold
two queue entries and a busy slot be met; three inputs are a request, a grab or stop that crosses
it and a crash or hold on top. Two albums of one artist share the artist's folder; two runs and a
crash are a copy cut short and what the next run makes of it. Three uploads let both fallbacks be
held while another is in hand, or a third compete with the better of two, with every length below,
near and above both limits. Three albums, two of which always fail, with one place per check and a
cooldown of two, are the least at which the failing ones take every place of the checks and the
third gets none but its first; a wait of three checks is the first that differs from the doubled
cooldown. Three requests are one that owns a task, one that shares its TaskResult and one that
comes after both; the submission adds the file's own task under the same id. One worker is enough
for the two steps of `get()` to meet a `put` between them; two workers that meet each other are
left to the proofs, which are for any number. A batch of three lines is the least whose halves
differ and one of which is halved again; the second batch is a single line, the second job's whole
subtitle too; two keys are the least that let one job go on while the other cools. Two failures
that exclude, with two that stop a run, are the least at which failures of one run and of several
differ; the unreadable episode is first in the list, so that all the others wait behind it. Two
rows of a track and a third of another album's are a retry in the same window or a later one, with
a row beside it that waits or whose album Lidarr says nothing of; two ticks let it expire before
the run after next, five leave room for a cursor that is lost after rows have become older than a
run without cursor looks back. All safety properties are also proved for all values (section 4).

**Bounds in the guards.** `MaxInputs` (AlbumQueue), `MaxRuns` and `MaxCrashes` (AlbumImport),
`MaxToggles` (TrackDownload), `MaxRequests` (AlbumScheduler), `MaxFailures` (SubgenModel),
`MaxMishaps` (TranslateBacklog: runs killed from outside), `MaxTime` and
`MaxDeaths` (AlbumAudit: downloads begin only while the clock leaves room to audit them).
`GeminiTranslator` has none: restarts, cooldowns and jobs come as often as they like. Requests,
submissions, tasks and detections are each made once. These systems then come to rest: where that is
so the cfg says `CHECK_DEADLOCK FALSE`, with the reason.

**Fairness.** `AlbumQueue`: the dispatcher loops for ever with a sleep, a started thread runs, a
manual download and an album run end (each download has a timeout); users, Lidarr, track results
and `Resume` are under no obligation. `TrackDownload`: the worker runs; the user is under no
obligation. `AlbumScheduler`: intervals pass, the check and the queue's thread run, an album ends.
`SubgenRequests` and `SubgenModel`: the event loop and the threads run, timers fire; nothing makes
requests arrive, and only impatient requests may time out. `GeminiTranslator`: Bazarr's thread of a
job goes on, unless it waits for an answer that never comes (T 387 sets no timeout): `JobsEnd` says
what holds of jobs whose requests come back. `TranslateBacklog`: cron starts the script every 30
minutes under `flock` (`src/docs/bazarr-subtitle-translator.md:165-170`), so that it has one run at
a time and always another; the script's steps are not blocked, and a cooldown passes. Nothing is
assumed of the jobs it asks for: they may hang for ever, or meet a limit every time. `AlbumAudit`:
time passes, the downloader gets to the end of its queue, and the audit, which does not start
beside it, is started again and again; nothing makes Lidarr link a file. All of it is weak
fairness: no property needs a lock or a scheduler that is fair in a stronger sense.

## 4. Proofs

All proofs are of the specifications above, unchanged, for every value of the constants that
the modules' `ASSUME`s allow: any finite set of albums, a client limit from 1 to 5 (what the
code clamps it to), any sets of requests, submissions and workers, any assignment of ids, any
finite set of uploads and any lengths, any lists of wanted items and any limits.

**AlbumQueueProofs.** `Typing`. `Runs` (`OneRunPerAlbum` and `ForegroundExclusive`) is
inductive: the test and the registration are one step. `NothingOwedIsLost` (`OwedKept`) needs
`OwedInv`: the album of a thread that has begun, and the album of a row about to be dropped as
a duplicate, are not owed, and a client album about to be launched is registered; without these
an owed row could be deleted by a run that had begun it long ago. `NoOrphans` needs the threads
of the album to start. `PauseTheorem` rests on `HeldInv`: while downloads are held and the
dispatcher is under way, nothing has started yet, so the one launch allowed is still to come.
`StopTheorem` (an action property) uses `Runs`: only the thread that enters resets a stop flag,
and it enters only when nobody has the state.

The scheduler that fills the queue is proved in the same module, of an instance `Scheduler` of
`AlbumScheduler`, under its assumptions (`SchedulerAssumption`). `SchedulerTypes` needs `Rows`: the
album that is downloaded is the head of the queue, so that what leaves the queue at its end is that
album. The check reads three things one after the other, and `Choosing` says what each reading is
still good for when it is used. `Raced`: an album that is under way during a check is in `raced`.
`Spaced`: what the history did not name as recent, and what was chosen, is past its cooldown or has
run meanwhile; an album that ends now falls under `Raced`. `FreshKept`: nothing recent is untried,
and once a retry that has not run meanwhile is chosen, every listed album without a history is in
the queue. It is in the queue, and not merely chosen, since a fresh album among the new ones would
have displaced the retry; the running album is in the queue by `Rows`. `SpacedTheorem`
(`RetriesSpaced`) and `FreshTheorem` (`FreshBeforeRetries`) follow step by step. `LimitTheorem` is
about no run's property: a check never has more than `scheduler_max_albums` albums to queue.
`FirstPlaces`, that the places with fewer than K places of the set before them are at most K, is
proved from the least place that is not among them (`LeastExists`).

**AlbumImportProofs.** `Typing`. `NothingLostTheorem` (`NothingLost`) needs `CopyCovers`: during
a copy every track in the download folder is still to be copied or whole in the library, and
when the copy is over all are; only then is the folder deleted. A file that Lidarr has moved from
under the copy is one of those whole in the library. `ImportTheorem` (`OnlyTracksInLibrary`,
`NoPhantomImport`: no copy brings a temp file into the library, and a stop before the first track is
done is followed by no import) needs that no temp file is listed for a copy and that a track is cut
only under a stop. That Lidarr takes no temp file from a grab is an assumption (`LidarrImport`).

**SubgenRequestsProofs.** `TypesCorrect`, with the fact that whoever waits waits for a
TaskResult that exists and whoever works has a task. `OneTaskTheorem` (`OneTaskPerId`) is
where the two-step `get()` matters: the property speaks of the heap and of hands, `put` asks
two sets of ids. `QueueInv` ties them: whatever is in the heap, and whatever was popped
and not yet taken, is among `queued`; whatever is being worked on is among `processing`;
the sets are disjoint; ids in the heap and in hands are distinct. `LeftoversTheorem`
(`NoLeftovers`) is inductive. `OwnerTheorem` (`OwnerServed`) follows task by task: a put
leaves what is in play, a pop moves one task to a hand, and the worker sets the TaskResult that
came with the task. `Refinement` (`Spec => ImplementsService`) maps the tasks in the heap to
the service's `waiting` and the hands to its `hand`; a pop is `Begin`, a `mark_done` is `End`, an
accepted put is `Submit`, all else stutters. It uses `QueueInv` and that a task waits under
its kind's priority. `RefusedForCause` (`[]Backed`) is the converse of what `QueueInv` says of the
sets: every id among `queued` has a task in the heap or with a worker who has popped it, every id
among `processing` one with a worker who will mark it done. `put()` refuses an id that is in one of
the sets, so an id left there without a task would never be transcribed again.

**GeminiTranslatorProofs.** `Typing`, with `Stages`: a job that has not opened its output has
nothing in batches, one that sends has a key and an empty output. `LinesTheorem` (`LinesAccounted`)
rests on `Acc`, the account of one job: its lines so far are the answered ones and those of the
parts to be sent, and no two of these overlap. `AccTake`, `AccAnswer` and `AccReplace` say that a
new batch, an answer, and a replacement by parts with the same lines keep the account;
`HalvesLines` that `Halves` is such a replacement, for a part of any length. `LimitsTheorem`
(`OwnLimitsRespected`) needs `SelectKeyLemma`: what the ring returns is configured and not cooling,
or nothing; that the ring has a first free place is `LeastExists`. `RequestTheorem`
(`RequestBound`) rests on `JobWithin`: what a job has sent, and `RetryNum + 1` times what it may
still send, stay within the bound. A part of n lines can become 2 n - 1 parts, so what is left is
`Left`: twice the lines not yet answered, less one for each part to be sent and each batch to be
made. A batch that is made keeps `Left` (`TakeBatchWithin`), an answer lowers it, halving lowers it
by one. A resend leaves it, and is paid for by the part's own `retry_num`: only the foremost part
has one that is not full, since it is sent first and its halves begin anew. `JobTheorem` (`Spec =>
ImplementsJob`) maps `status` and `target` to themselves; batches, answers, keys and requests that
hang stutter. What it promises is what the code keeps: ok only over a whole file or one not
touched; after a failure that names Gemini no file, or the empty one that could not be removed;
after any other, whatever the writing has left; and until a job has failed or ended only a restart
shows a file it was writing to. That a restart finds a whole file only where every line was
answered is `AllAnsweredLines`.

**SubgenModelProofs.** `Typing`, with `Counted`: `active_direct_tasks` is the number of detections
between the start and the end of their use of the model. `OneCopyTheorem` (`OneCopy`) rests on
`Locked`: who loads holds `model_load_lock` and has found no model, and who clears holds
`model_cleanup_lock`, with the model at each step of the unload as its last assignment left it.
`QuietTheorem` (`ClearsWhenQuiet`, an action property) relates three views of the same work: the
clean-up asks the queue's sets and the counter, the property speaks of workers and detections.
`OncePlaced` says that a task is in one place (not submitted, in the heap, or with one worker),
`Reported` that a worker at work has its id among `processing`, so that an idle queue is one nobody
works for. `LocksTheorem` (`[]Released`): whichever load or unload fails, each lock is held only by
one who is inside, and the global is neither a model nor `None` only while a cleanup is between its
assignments. `MemoryTheorem` (`[]Remembered`) is the safety half of `MemoryReturned`: as long as
nothing has failed, a loaded model that nobody uses has a timer that will still look at it. The
hard step is a `delete_model`, or a cleanup, that finds the system at work and leaves the model
alone: by `Accounted` (an id being processed has a worker who is not past `mark_done`) and
`Counted` there is then somebody else (`SomebodyLeft`) who will call `delete_model` himself.

**TrackDownloadProofs.** `Typing`, with `Bounded`: the worker is on the list while it tries a
candidate. Whatever the theorems say of uploads held and banned depends on one fact of the list,
`Distinct`: no upload is on it twice, although it is extended by a search that knows only what is
on it. `Tried` adds that whatever was banned, offered or held lies before the current position. So
the current candidate is none of them (`CurrentNotPast`), and measuring, banning or removing it
leaves what is held alone (`HeldSoundStep`). `Fits` says that a candidate to be verified was
measured as long enough, `Gated` that one with a low score gets no further unless AcoustID is
asked, or the setting was changed, and that only the playlist's own upload is kept as official.
`HeldNearest` is the invariant of `_hold_fallback`, `HoldKeepsNearest` that it survives one more
offer. `SoundStep` then decides by the step that ends the track: of eleven kinds four keep a file,
and each has what `KeptTheorem` (`KeptFileSound`) and `LastResortTheorem` (`LastResortNearest`)
ask. `TempsTheorem` (`NoTempForgotten`) needs `Absent`, that there is no temp file before the first
download and none of an upload that is about to be downloaded again, and that what is in hand is
where the list stands (`InHandAtHand`).

**TranslateBacklogProofs.** `QuietTheorem` (`QuietInCooldown`) from `Resting`: the cooldown is in
force only between runs, and between runs no item is waited for. `ExcludedTheorem`
(`ExcludedAfterSeparateRuns`) needs `Fresh`: for what is still to do, for the item waited for and,
during the episodes, for every movie, no failure of this run has been counted. A failure is counted
only for such an item (`CleanCounted`), which then is not to do any more; that needs that no item is
on Bazarr's lists twice. A blocklist that is lost only takes counts away. `Typing` rests on these
two and on `Bounded`: at the start of its last run an item had at most as many failures as exclude
it. A run adds one failure at most, and none to an item it found excluded, so the bound lasts from
run to run. That what a look takes in of the log consists of lines again is `SuffixType`,
`TelltaleType` and `OlderType`; `Telltale`, the lines that may tell of a cause, in their order, is
put by counting those before each, not with `SelectSeq`, of which the provers know nothing.
`JobsTheorem` (`Spec => Job!Spec`) says that the jobs go through the states of `TranslationJob`, the
promise that `GeminiTranslator` is shown to keep: no kill of the script and no give-up changes one,
and none is started beside a running one of its item.

**AlbumAuditProofs.** `Typing`, and `CursorTheorem` (`CursorPassesNoOpenRow`). The latter is not
inductive: it needs `Audited`, that every row up to the run's `cutoff` is accounted for by one of
the three ghosts (`Accounted`), waits, or is the one still to be judged for its track, that the
rows that wait lie within the window, and that cutoff and cursor lie before now, so that no
download can slip in under them; and `NewCursorLemma`, that the new cursor lies before every row
that waits and is not beyond the cutoff. `CursorMovesTheorem` (`CursorMovesOn`) is the safety half
of `CursorCatchesUp`: a run that gets to its end does not set the cursor back, and leaves it at its
cutoff or less than `PENDING_EXPIRY` before now, so that no row holds it for longer. It needs
`Ahead`: whatever a run judges or postpones lies after its cursor, and the cursor before its
cutoff. That is so even for a run without a cursor, because it looks a day back and leaves only the
last five minutes alone (`Settle <= FirstLook`).

**Assumptions.** The named `ASSUME`s of the modules: names that stand for nothing are not members
of the sets, sets that are counted or searched are finite, no item is on Bazarr's lists twice (they
are queries of its tables), limits lie in the range the code gives them. TLC evaluates them in
every run.

**Only model-checked.** Liveness (`OwedServed`, `TrackEnds`, `RetriedEventually`, `OwnerAnswered`,
`QueueDrains`, `MemoryReturned`, `WorkEnds`, `JobsEnd`, `EveryItemTried`, `CursorCatchesUp`): TLAPS
has no support for the ENABLED that fairness needs. The three findings (section 5) are
counterexamples. What `Wait(k)`, the doubling backoff, computes is a recursive function over all k
and would need induction over data; no safety property depends on its value, only on the fact that
the history is kept in its range.

## 5. Findings

Each is a run that checks what a comment or document of the repository says and fails.

1. **An album is a success without being imported** (`album_import_stranded`, P 748, P 1232).
   After a crash between the downloads and the copy, or a failed copy, the next run finds
   the files in the download folder, has nothing to download and returns success; they are
   never copied.
2. **A grab is lost** (`album_queue_grab_lost`, P 3208). A grab that lands between
   `is_client_album` and `dequeue_album` has its row deleted; only a restart queues it again.
3. **A request waits for nothing** (`subgen_stranded`, G 833). A request that times out deletes the
   entry of its id while the task runs; the next identical one makes a new TaskResult that
   nobody sets.

Read in the code while modelling, and part of the models' behaviour, but without a run of their own:

* **A model is unloaded under a task** (G 1538). The clean-up looks, lets go of its locks and
  unloads; a task that begins in between finds the model and fails with it.
* **A last resort is left on disk.** Only `accepted` and the branch at P 2340 look after
  `held_fallback`. Its temp file stays in the download folder when the track is skipped in the loop
  (P 1938-1942), during a download (P 2022-2024) or during the second download of an unverified
  upload (P 2449-2452), when that upload is kept (P 2503) or cannot be had again (P 2504-2573), and
  when it is refused for its score (P 2398-2425): then the track fails though a last resort was
  there. `NoTempForgotten` names this file and these ends, and says that nothing else is left;
  where an exception meets a stop, what was in hand or held stays. The copy to the library leaves
  temp files out.
* **A low score passes where AcoustID cannot be asked** (P 2114-2115). `will_verify` lets a
  candidate with a low score be tried because AcoustID will decide; when `verify_fingerprint`
  returns `None` the candidate is kept. `LowScoreNeedsExcuse`, a part of `KeptFileSound`, lists
  this with the other ways: the official playlist's upload, a last resort, and AcoustID switched
  off between the two reads of the setting. `KeptLongEnough` says nothing of files whose length
  could not be read and of those downloaded again, which are not measured.
* **The wrong item is blamed** (B 166-172). A line about malformed answers names no file; when a job
  that the script has given up writes one, it is counted against the item that is being
  waited for.
* **A last resort is deleted** (A 104-106, "never deleted here"). When the row of a newer download
  that was kept as a last resort is not in the window yet, its file is judged by the older row,
  which has no such mark (`is_downloaders_file` asks only that the file is not older than the row).
* **A row is passed over unjudged** (against "Never advance past a row we could not judge yet", A
  284). When Lidarr answers a request for an album with an HTTP error, its rows are skipped and do
  not hold the cursor (A 228-234). When the saved cursor cannot be read, the next run looks back a
  day and saves a cursor beyond all older rows (A 164-169). `CursorPassesNoOpenRow` names these two
  exceptions (`unanswered`, `forgotten`) and says that there is no third.
* **A retry starves** (S 89-91, against "then retry as before", S 79, and "while still retrying
  eventually", P 1147-1148). With `scheduler_max_albums` set, a check queues the first of Lidarr's
  list and not those that have waited longest. Where more albums near the front are never found
  than are queued within a cooldown, one further down gets its first try and no other.
  `RetriedEventually` promises retries only to as many albums at the front as no other can
  displace, and a first try to all.
* **The empty output stays** (T 592-594). When a failed job cannot remove the output it has emptied,
  the error is swallowed. The empty file is then what a player and the next look find.
* **A failed job leaves its translation** (T 129-149). An error in adding the translator's name, or
  in entering the finished translation in the history, ends the job as failed, with the whole file
  there, a part of it or an empty one.
* **A job hangs for ever** (T 387). Requests have no timeout; the job, its key and its empty output
  stay as they are until Bazarr is restarted (`JobsEnd` excepts it, and `RequestBound` counts its
  request).
* **A limit or an unreadable target starves the backlog** (B 283-290, B 294-297, B 339-344, against
  B 33-37, "stops ... blocking everything queued behind it"). Any answer 429, be it to one long
  subtitle's own requests, counts as the day's quota: it ends the run, and nothing is counted
  against the item. So does a target that is there and cannot be read, of which only a missing file
  is caught. An item at the head of the list to which either happens every time is asked for first
  in every run, and the items behind it never. `EveryItemTried` excepts runs ended so again and
  again, and no others.
* **Halves are not independent** (T 430-447, "retry the halves independently"). When the first half
  is finally refused its exception ends the job and the second is never sent.
* **Silent success** (T 497-510). With no key, or none that is free, the job ends as a translation
  that succeeded; if the old file is there, it is taken for the new one.

Also: the client limit counts a grab only once its thread has
registered, so one more may start; one album may start right after a pause (`PauseTakesEffect`
says: one); a stop after the last track is still reported as a success; an album that
ends between the scheduler's reads of the history and of the queue is queued again at once (the
exception in `RetriesSpaced`); retries resume as soon as every fresh album is queued, before it is
tried; requests that name the same video file share the first one's answer, whatever task or
language the others asked for; the transcription that follows a detection is dropped when a
request of the same id comes in between; two clean-up timers may be under way at once.

## 6. What is not modelled

Inside the modelled components: wording of messages and notifications, progress numbers, the scoring
of search results (an upload has a low score or has not), tagging, artwork and lyrics, the web API's
views of the state, statistics. What Whisper, AcoustID, YouTube and Lidarr answer is
nondeterministic. What subtitles say, and the indices within an answer, are left out: an answer has
as many lines as the batch or is refused. The translator's interrupt flag is set by nobody
(`setup_signal_handlers` has no caller). The audit's dry run and its options for testing, and paths
and languages of the backlog script, are left out. asyncio's thread pool is taken to be large enough
for the waits. A thread preempted inside a single Python statement that the GIL protects is not
split. Outside: section 1.

## 7. Plan

Done: the modules of section 2, in the order AlbumQueue, AlbumImport, TrackDownload,
AlbumScheduler, SubgenRequests, SubgenModel, GeminiTranslator, TranslateBacklog, AlbumAudit, and
the proofs of section 4.

Models to come, by importance:

1. `QaVoting`: the voting of two transcriptions as an operator, against a reference definition
   over bounded inputs.
2. `SubgenSkip`: the skip rules and the choice of a language as a decision table.
3. A composition of `AlbumQueue` and `AlbumScheduler` through an abstract queue, as `TaskService`
   is for SubGen: what the scheduler assumes of the queue as a specification the queue implements.
