----------------------------- MODULE AlbumQueue -----------------------------
(***************************************************************************)
(* The album queue of the Lidarr YouTube downloader                        *)
(* (src/stacks/lidarr-ytdl/patches/processing.py): one dispatcher thread   *)
(* that starts an album every two seconds, the album threads it starts,    *)
(* the stop button, the pause switch, the bot-check circuit breaker and a  *)
(* restart of the process.                                                 *)
(*                                                                         *)
(* An album runs either in the "foreground" state, the module-level        *)
(* download_process that manual single-track downloads use as well, or,    *)
(* when it is a grab of Lidarr's download client, in a state of its own.   *)
(* The rows of the queue (models.py, SQLite) and the registry of grabs     *)
(* (download_client.py, SQLite) are not in the repository: they are        *)
(* modelled from the calls processing.py makes.                            *)
(***************************************************************************)
EXTENDS Integers, SequencesExt

CONSTANTS
    Albums,       \* Lidarr album ids
    Threads,      \* album threads alive at once
    NoAlbum,      \* "no album"
    NoThread,     \* "no thread"
    Manual,       \* a manual single-track download, as owner of the foreground
    ClientLimit,  \* _client_concurrency_limit()
    BotLimit,     \* _BOT_BLOCK_LIMIT
    FailingStarts, \* the albums whose Thread.start() may raise ("can't start new thread")
    MaxInputs     \* bound on user, Lidarr and crash events in one behaviour

ASSUME AlbumsAssumption == NoAlbum \notin Albums /\ IsFiniteSet(Albums)
ASSUME ThreadsAssumption ==
    /\ NoThread \notin Threads /\ Manual \notin Threads /\ NoThread # Manual
    /\ "foreground" \notin Threads
ASSUME LimitsAssumption ==
    /\ ClientLimit \in 1..5
    /\ BotLimit \in Nat \ {0}
    /\ MaxInputs \in Nat
ASSUME StartAssumption == FailingStarts \subseteq Albums

VARIABLES
    order,      \* the album ids of the queue rows, in queue order
    status,     \* the status of an album's row
    client,     \* albums for which download_client.is_client_album is true
    held,       \* automatic_downloads_held()
    disp,       \* the dispatcher: where it is, the rows still to scan, its album
    thread,     \* the album threads
    fg,         \* who has download_process["active"]
    active,     \* _active_states: the thread that registered the album
    stop,       \* the "stop" flag of every download state
    streak,     \* _bot_block_streak
    inputs,     \* environment events so far
    owed,       \* ghost: albums queued by hand and neither begun nor stopped
    grabbed,    \* ghost: Lidarr grabs neither begun nor stopped
    late        \* ghost: threads started since downloads were last held

rows == <<order, status>>
ghosts == <<owed, grabbed, late>>
vars == <<order, status, client, held, disp, thread, fg, active, stop, streak,
          inputs, owed, grabbed, late>>

RowStatus == {"absent", "queued", "downloading"}
Kinds == {"foreground", "client"}
\* Where a thread is; Inside: in process_album_download, after it has registered.
ThreadPc == {"idle", "starting", "running", "pausing", "stopping", "busy", "ended", "dequeue"}
Inside == {"running", "pausing", "stopping"}
States == Threads \cup {"foreground"}

ThreadRecord == [pc : ThreadPc, album : Albums \cup {NoAlbum}, kind : Kinds]
DispRecord ==
    [pc : {"idle", "scan", "duplicate", "route", "launch"},
     todo : Seq(Albums), album : Albums \cup {NoAlbum}, kind : Kinds]

NullThread == [pc |-> "idle", album |-> NoAlbum, kind |-> "foreground"]
NullDisp == [pc |-> "idle", todo |-> <<>>, album |-> NoAlbum, kind |-> "foreground"]

TypeOK ==
    /\ order \in Seq(Albums)
    /\ status \in [Albums -> RowStatus]
    /\ client \in SUBSET Albums
    /\ held \in BOOLEAN
    /\ disp \in DispRecord
    /\ thread \in [Threads -> ThreadRecord]
    /\ fg \in Threads \cup {Manual, NoThread}
    /\ active \in [Albums -> Threads \cup {NoThread}]
    /\ stop \in [States -> BOOLEAN]
    /\ streak \in 0..(BotLimit - 1)
    /\ inputs \in 0..MaxInputs
    /\ owed \in SUBSET Albums
    /\ grabbed \in SUBSET Albums
    /\ late \in Nat

Init ==
    /\ order = <<>>
    /\ status = [a \in Albums |-> "absent"]
    /\ client = {}
    /\ held = FALSE
    /\ disp = NullDisp
    /\ thread = [t \in Threads |-> NullThread]
    /\ fg = NoThread
    /\ active = [a \in Albums |-> NoThread]
    /\ stop = [s \in States |-> FALSE]
    /\ streak = 0
    /\ inputs = 0
    /\ owed = {}
    /\ grabbed = {}
    /\ late = 0

-----------------------------------------------------------------------------
(* The rows of the queue (models.py). *)

Drop(s, a) ==
    IF \E i \in 1..Len(s) : s[i] = a
    THEN RemoveAt(s, CHOOSE i \in 1..Len(s) : s[i] = a)
    ELSE s

\* models.enqueue_album: a no-op when the album has a row already.
EnqueueAlbum(a) ==
    IF status[a] = "absent"
    THEN /\ order' = Append(order, a)
         /\ status' = [status EXCEPT ![a] = "queued"]
    ELSE UNCHANGED rows

\* models.dequeue_album
DequeueAlbum(a) ==
    /\ order' = Drop(order, a)
    /\ status' = [status EXCEPT ![a] = "absent"]

\* models.set_queue_status: an UPDATE, so a no-op on a row that is gone.
SetQueueStatus(a, s) ==
    /\ status' = IF status[a] = "absent" THEN status ELSE [status EXCEPT ![a] = s]
    /\ UNCHANGED order

\* models.clear_queue
ClearQueue ==
    /\ order' = <<>>
    /\ status' = [a \in Albums |-> "absent"]

-----------------------------------------------------------------------------
(* The shared download states. *)

\* The state container a thread was given by the dispatcher.
StateOf(t) == IF thread[t].kind = "foreground" THEN "foreground" ELSE t

\* is_album_active
IsAlbumActive(a) == active[a] # NoThread

\* _active_state_is_client
ActiveStateIsClient(a) ==
    \E t \in Threads : active[a] = t /\ thread[t].kind = "client"

\* active_client_album_count() >= _client_concurrency_limit()
AtClientLimit ==
    Cardinality({a \in Albums : ActiveStateIsClient(a)}) >= ClientLimit

\* stop_download: one critical section under queue_lock. It flags the foreground
\* state, whoever has it, and every registered state, and clears the queue.
StopDownload ==
    /\ stop' = [s \in States |->
                  \/ stop[s]
                  \/ s = "foreground"
                  \/ \E a \in Albums : active[a] # NoThread /\ s = StateOf(active[a])]
    /\ ClearQueue
    /\ owed' = {}
    /\ grabbed' = {}

-----------------------------------------------------------------------------
(* Users, Lidarr and crashes. *)

Input ==
    /\ inputs < MaxInputs
    /\ inputs' = inputs + 1

\* Nothing is doing anything about the album at the moment.
Idle(a) ==
    /\ \A t \in Threads : thread[t].album # a
    /\ disp.album # a

\* A user, or the scheduler, queues an album. The request is owed a run unless
\* the album is in somebody's hands, whose run the code takes it for.
Enqueue(a) ==
    /\ Input
    /\ EnqueueAlbum(a)
    /\ owed' = IF Idle(a) THEN owed \cup {a} ELSE owed
    /\ UNCHANGED <<client, held, disp, thread, fg, active, stop, streak, grabbed, late>>

\* Lidarr's download client grabs an album: the job is registered, then queued.
LidarrGrab(a) ==
    /\ Input
    /\ client' = client \cup {a}
    /\ EnqueueAlbum(a)
    /\ grabbed' = IF a \in client THEN grabbed ELSE grabbed \cup {a}
    /\ UNCHANGED <<held, disp, thread, fg, active, stop, streak, owed, late>>

\* The stop button.
UserStop ==
    /\ Input
    /\ StopDownload
    /\ UNCHANGED <<client, held, disp, thread, fg, active, streak, late>>

\* Nothing automatic may start from here on: the user pauses the queue, a full
\* disk pauses it (_pause_queue_for_full_disk) or a self-restart is pending.
Hold ==
    /\ held' = TRUE
    /\ late' = IF held THEN late ELSE 0

UserHold ==
    /\ Input
    /\ Hold
    /\ UNCHANGED <<rows, client, disp, thread, fg, active, stop, streak, owed, grabbed>>

Resume ==
    /\ held
    /\ held' = FALSE
    /\ UNCHANGED <<rows, client, disp, thread, fg, active, stop, streak, inputs, ghosts>>

\* A manual single-track download takes the foreground state and resets it.
ManualStart ==
    /\ fg = NoThread
    /\ Input
    /\ fg' = Manual
    /\ stop' = [stop EXCEPT !["foreground"] = FALSE]
    /\ UNCHANGED <<rows, client, held, disp, thread, active, streak, ghosts>>

ManualEnd ==
    /\ fg = Manual
    /\ fg' = NoThread
    /\ stop' = [stop EXCEPT !["foreground"] = FALSE]
    /\ UNCHANGED <<rows, client, held, disp, thread, active, streak, inputs, ghosts>>

\* The process dies and starts again: the threads and everything in memory are
\* gone; rows marked 'downloading' go back to 'queued' and the persisted grabs
\* that have no row are queued again.
Restart ==
    /\ Input
    /\ disp' = NullDisp
    /\ thread' = [t \in Threads |-> NullThread]
    /\ fg' = NoThread
    /\ active' = [a \in Albums |-> NoThread]
    /\ stop' = [s \in States |-> FALSE]
    /\ streak' = 0
    /\ LET lost == {a \in client : status[a] = "absent"}
       IN \E s \in SetToSeqs(lost) :
            /\ order' = order \o s
            /\ status' = [a \in Albums |->
                            IF status[a] = "downloading" \/ a \in lost
                            THEN "queued" ELSE status[a]]
    /\ UNCHANGED <<client, held, ghosts>>

-----------------------------------------------------------------------------
(* _dispatch_next_from_queue, one pass every two seconds. *)

\* a's row comes before b's.
Before(a, b) ==
    \E i, j \in 1..Len(order) : i < j /\ order[i] = a /\ order[j] = b

\* The albums of the queued rows, in queue order.
QueuedRows ==
    {s \in SetToSeqs({a \in Albums : status[a] = "queued"}) :
        \A i, j \in 1..Len(s) : i < j => Before(s[i], s[j])}

\* The pause check and the snapshot of the rows.
Tick ==
    /\ disp.pc = "idle"
    /\ ~held
    /\ \E s \in QueuedRows : disp' = [NullDisp EXCEPT !.pc = "scan", !.todo = s]
    /\ UNCHANGED <<rows, client, held, thread, fg, active, stop, streak, inputs, ghosts>>

\* The pass found nothing to start.
ScanEnd ==
    /\ disp.pc = "scan"
    /\ disp.todo = <<>>
    /\ disp' = NullDisp
    /\ UNCHANGED <<rows, client, held, thread, fg, active, stop, streak, inputs, ghosts>>

\* The next row of the snapshot: is_album_active.
ScanRow ==
    /\ disp.pc = "scan"
    /\ disp.todo # <<>>
    /\ disp' = [disp EXCEPT
                  !.pc = IF IsAlbumActive(Head(disp.todo)) THEN "duplicate" ELSE "route",
                  !.todo = Tail(@),
                  !.album = Head(disp.todo)]
    /\ UNCHANGED <<rows, client, held, thread, fg, active, stop, streak, inputs, ghosts>>

NextRow == [disp EXCEPT !.pc = "scan", !.album = NoAlbum]

\* The album was running: its row is a duplicate, unless it is a grab that
\* landed while the album runs outside the download client.
DropDuplicate ==
    /\ disp.pc = "duplicate"
    /\ LET keep == disp.album \in client /\ ~ActiveStateIsClient(disp.album)
       IN IF keep THEN UNCHANGED rows ELSE DequeueAlbum(disp.album)
    /\ disp' = NextRow
    /\ UNCHANGED <<client, held, thread, fg, active, stop, streak, inputs, ghosts>>

\* A grab needs room under the limit, any other album the free foreground; a
\* blocked album keeps its position.
Route ==
    /\ disp.pc = "route"
    /\ disp' = IF disp.album \in client
               THEN IF AtClientLimit THEN NextRow
                    ELSE [disp EXCEPT !.pc = "launch", !.kind = "client"]
               ELSE IF fg # NoThread THEN NextRow
                    ELSE [disp EXCEPT !.pc = "launch", !.kind = "foreground"]
    /\ UNCHANGED <<rows, client, held, thread, fg, active, stop, streak, inputs, ghosts>>

\* A mutant of ClaimRow: every row goes before its run, as if nothing could
\* happen in between.
ClaimByDequeue == DequeueAlbum(disp.album)

\* The row's update before the thread starts: a foreground album keeps its row
\* until its run ends, a grab's row goes (the grab is persisted elsewhere).
ClaimRow ==
    IF disp.kind = "foreground"
    THEN SetQueueStatus(disp.album, "downloading")
    ELSE DequeueAlbum(disp.album)

\* A mutant of AfterLaunch: the pass goes on with the next row.
AfterLaunchContinue == NextRow

\* One album is started, then the pass returns.
AfterLaunch == NullDisp

Launch(t) ==
    /\ disp.pc = "launch"
    /\ thread[t].pc = "idle"
    /\ ClaimRow
    /\ thread' = [thread EXCEPT ![t] = [pc |-> "starting", album |-> disp.album,
                                        kind |-> disp.kind]]
    /\ late' = IF held THEN late + 1 ELSE late
    /\ disp' = AfterLaunch
    /\ UNCHANGED <<client, held, fg, active, stop, streak, inputs, owed, grabbed>>

\* Thread.start() raises after the row was updated; process_download_queue
\* logs it and goes on with the next pass.
LaunchFails ==
    /\ disp.pc = "launch"
    /\ disp.album \in FailingStarts
    /\ Input
    /\ ClaimRow
    /\ disp' = NullDisp
    /\ UNCHANGED <<client, held, thread, fg, active, stop, streak, ghosts>>

-----------------------------------------------------------------------------
(* process_album_download, in an album thread. *)

SetPc(t, pc) == thread' = [thread EXCEPT ![t].pc = pc]

\* Mutants of SlotBusy: one of its two tests is missing.
SlotBusyByAlbum(t) == active[thread[t].album] # NoThread
SlotBusyByState(t) == thread[t].kind = "foreground" /\ fg # NoThread

\* The test of the first critical section.
SlotBusy(t) ==
    \/ thread[t].kind = "foreground" /\ fg # NoThread
    \/ active[thread[t].album] # NoThread

\* The state is free and the album is not running: reset the state, which
\* clears its stop flag, and register.
Enter(t) ==
    /\ thread[t].pc = "starting"
    /\ ~SlotBusy(t)
    /\ SetPc(t, "running")
    /\ fg' = IF thread[t].kind = "foreground" THEN t ELSE fg
    /\ active' = [active EXCEPT ![thread[t].album] = t]
    /\ stop' = [stop EXCEPT ![StateOf(t)] = FALSE]
    /\ owed' = owed \ {thread[t].album}
    /\ grabbed' = IF thread[t].kind = "client" THEN grabbed \ {thread[t].album} ELSE grabbed
    /\ UNCHANGED <<rows, client, held, disp, streak, inputs, late>>

\* {"error": "Busy"}: nothing is touched.
EnterBusy(t) ==
    /\ thread[t].pc = "starting"
    /\ SlotBusy(t)
    /\ SetPc(t, "busy")
    /\ UNCHANGED <<rows, client, held, disp, fg, active, stop, streak, inputs, ghosts>>

\* A track of the album is downloaded: _note_download_result(True).
TrackOk(t) ==
    /\ thread[t].pc = "running"
    /\ ~stop[StateOf(t)]
    /\ streak' = 0
    /\ UNCHANGED <<rows, client, held, disp, thread, fg, active, stop, inputs, ghosts>>

\* Does one more "not a bot" failure trip the breaker?
Trips == streak + 1 >= BotLimit

\* YouTube answers "not a bot". The breaker trips at the limit.
TrackBotBlocked(t) ==
    /\ thread[t].pc = "running"
    /\ ~stop[StateOf(t)]
    /\ streak' = IF Trips THEN 0 ELSE streak + 1
    /\ thread' = IF Trips THEN [thread EXCEPT ![t].pc = "pausing"] ELSE thread
    /\ UNCHANGED <<rows, client, held, disp, fg, active, stop, inputs, ghosts>>

\* _trip_bot_block_breaker: the queue is paused first ...
BreakerPause(t) ==
    /\ thread[t].pc = "pausing"
    /\ Hold
    /\ SetPc(t, "stopping")
    /\ UNCHANGED <<rows, client, disp, fg, active, stop, streak, inputs, owed, grabbed>>

\* ... then everything is stopped and the queue cleared.
BreakerStop(t) ==
    /\ thread[t].pc = "stopping"
    /\ StopDownload
    /\ SetPc(t, "running")
    /\ UNCHANGED <<client, held, disp, fg, active, streak, inputs, late>>

\* A track finds the download disk full.
DiskFull(t) ==
    /\ thread[t].pc = "running"
    /\ ~held
    /\ Hold
    /\ UNCHANGED <<rows, client, disp, thread, fg, active, stop, streak, inputs, owed, grabbed>>

\* The run is over, with whatever result: the finally clause resets the state
\* and unregisters the album.
Finish(t) ==
    /\ thread[t].pc = "running"
    /\ SetPc(t, "ended")
    /\ fg' = IF thread[t].kind = "foreground" THEN NoThread ELSE fg
    /\ active' = [active EXCEPT ![thread[t].album] = NoThread]
    /\ stop' = [stop EXCEPT ![StateOf(t)] = FALSE]
    /\ UNCHANGED <<rows, client, held, disp, streak, inputs, ghosts>>

-----------------------------------------------------------------------------
(* _run_queued_album's finally clause, and download_client.run_album_job. *)

ThreadEnds(t) == thread' = [thread EXCEPT ![t] = NullThread]

\* is_client_album is read after the run: a grab that landed meanwhile puts the
\* row back to 'queued'; otherwise the row is to be deleted.
AfterRun(t) ==
    /\ thread[t].pc = "ended"
    /\ thread[t].kind = "foreground"
    /\ IF thread[t].album \in client
       THEN SetQueueStatus(thread[t].album, "queued") /\ ThreadEnds(t)
       ELSE UNCHANGED rows /\ SetPc(t, "dequeue")
    /\ UNCHANGED <<client, held, disp, fg, active, stop, streak, inputs, ghosts>>

AfterRunDequeue(t) ==
    /\ thread[t].pc = "dequeue"
    /\ DequeueAlbum(thread[t].album)
    /\ ThreadEnds(t)
    /\ UNCHANGED <<client, held, disp, fg, active, stop, streak, inputs, ghosts>>

\* A mutant of AfterBusy: the row is left as it is.
AfterBusyForgets(t) ==
    /\ thread[t].pc = "busy"
    /\ ThreadEnds(t)
    /\ UNCHANGED <<rows, client, held, disp, fg, active, stop, streak, inputs, ghosts>>

\* A busy slot: the row keeps its turn.
AfterBusy(t) ==
    /\ thread[t].pc = "busy"
    /\ IF thread[t].kind = "foreground"
       THEN SetQueueStatus(thread[t].album, "queued")
       ELSE UNCHANGED rows
    /\ ThreadEnds(t)
    /\ UNCHANGED <<client, held, disp, fg, active, stop, streak, inputs, ghosts>>

\* run_album_job drops the job once the grab has run.
ClientJobDone(t) ==
    /\ thread[t].pc = "ended"
    /\ thread[t].kind = "client"
    /\ client' = client \ {thread[t].album}
    /\ ThreadEnds(t)
    /\ UNCHANGED <<rows, held, disp, fg, active, stop, streak, inputs, ghosts>>

-----------------------------------------------------------------------------
Environment ==
    \/ \E a \in Albums : Enqueue(a) \/ LidarrGrab(a)
    \/ UserStop \/ UserHold \/ Resume \/ ManualStart \/ Restart

Dispatcher ==
    \/ Tick \/ ScanEnd \/ ScanRow \/ DropDuplicate \/ Route \/ LaunchFails
    \/ \E t \in Threads : Launch(t)

Tracks(t) == TrackOk(t) \/ TrackBotBlocked(t) \/ DiskFull(t)

AlbumThread(t) ==
    \/ Enter(t) \/ EnterBusy(t)
    \/ BreakerPause(t) \/ BreakerStop(t) \/ Finish(t)
    \/ AfterRun(t) \/ AfterRunDequeue(t) \/ AfterBusy(t) \/ ClientJobDone(t)

Next ==
    \/ Environment
    \/ Dispatcher
    \/ ManualEnd
    \/ \E t \in Threads : Tracks(t) \/ AlbumThread(t)

Spec == Init /\ [][Next]_vars

\* The dispatcher loops for ever, a started thread runs, a manual download and
\* an album run end. Users, Lidarr and track results are under no obligation.
Fairness ==
    /\ WF_vars(Dispatcher)
    /\ WF_vars(ManualEnd)
    /\ \A t \in Threads : WF_vars(AlbumThread(t)) /\ WF_vars(Finish(t))

FairSpec == Spec /\ Fairness

-----------------------------------------------------------------------------
(* Properties. *)

\* Two album runs never share the foreground state, and the state is marked
\* active exactly while one of them (or a manual download) has it: the check
\* and the registration at the top of process_album_download are one critical
\* section, the reset in its finally clause another.
ForegroundExclusive ==
    /\ \A t \in Threads :
         (thread[t].kind = "foreground" /\ thread[t].pc \in Inside) <=> fg = t
    /\ \A t, u \in Threads :
         /\ thread[t].kind = "foreground" /\ thread[t].pc \in Inside
         /\ thread[u].kind = "foreground" /\ thread[u].pc \in Inside
         => t = u

\* An album never runs twice at once, whichever slots its two queue entries
\* were given, and is_album_active tells exactly whether it runs.
OneRunPerAlbum ==
    \A t \in Threads, a \in Albums :
        active[a] = t <=> thread[t].album = a /\ thread[t].pc \in Inside

\* The runs of albums are kept apart in both respects, whatever two entries of an
\* album, grabs, stops and threads that find the slot taken do to each other.
RunsApart == OneRunPerAlbum /\ ForegroundExclusive

\* A row marked 'downloading' belongs to a foreground thread that will put it
\* back or delete it: no row is stuck in that status, in which the dispatcher
\* never looks at it again, but that of an album whose own thread did not start.
NoOrphanDownloadingRow ==
    \A a \in Albums \ FailingStarts : status[a] = "downloading" =>
        \E t \in Threads : /\ thread[t].album = a
                           /\ thread[t].kind = "foreground"
                           /\ thread[t].pc # "idle"

\* An album queued while nobody was working on it is persisted, as a row or as
\* a registered grab, until it has begun or the user has stopped everything:
\* a crash at any moment does not lose it.
OwedKept ==
    \A a \in owed : status[a] # "absent" \/ a \in client

\* The pause is seen before every start but the one that may be under way: a
\* pass starts one album and returns to the check.
PauseTakesEffect == late <= 1

\* A stopped run stays stopped: nobody resets the flag of a state that a run
\* still uses, so the tracks it has left are skipped.
StopSticks ==
    [][\A t \in Threads :
         /\ thread[t].pc \in Inside /\ thread'[t].pc \in Inside
         /\ stop[StateOf(t)]
         => stop'[StateOf(t)]]_vars

\* An album queued while nobody was working on it is begun eventually (or
\* stopped), unless downloads are held at some moment on the way: neither the
\* runs of other albums nor another album's failing start can prevent it.
OwedServed == \A a \in Albums \ FailingStarts : (a \in owed) ~> (a \notin owed \/ held)

\* A grab that has not begun has a row to begin from, or a thread.
GrabKept ==
    \A a \in grabbed :
        \/ status[a] # "absent"
        \/ \E t \in Threads : thread[t].album = a

=============================================================================
