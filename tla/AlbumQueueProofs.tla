-------------------------- MODULE AlbumQueueProofs --------------------------
(* Type correctness and the safety properties of AlbumQueue, for any set of *)
(* albums and threads and any limits, and of AlbumScheduler, which fills    *)
(* the queue.                                                               *)
EXTENDS AlbumQueue, FiniteSetTheorems, WellFoundedInduction, TLAPS

USE LimitsAssumption DEF rows, ghosts

-----------------------------------------------------------------------------
(* Lemmas about the rows and the records. *)

\* Deleting a row leaves a sequence of album ids.
LEMMA DropType ==
    ASSUME NEW S, NEW s \in Seq(S), NEW a
    PROVE  Drop(s, a) \in Seq(S)
<1>1. CASE \E i \in 1..Len(s) : s[i] = a
  <2>1. PICK i \in 1..Len(s) : i = CHOOSE j \in 1..Len(s) : s[j] = a
    BY <1>1
  <2> QED  BY <1>1, <2>1 DEF Drop, RemoveAt
<1>2. CASE ~ \E i \in 1..Len(s) : s[i] = a
  BY <1>2 DEF Drop
<1> QED  BY <1>1, <1>2

\* An ordering of a set of albums is a sequence of album ids.
LEMMA OrderingType ==
    ASSUME NEW A \in SUBSET Albums, NEW s \in SetToSeqs(A)
    PROVE  s \in Seq(Albums)
<1>1. Cardinality(A) \in Nat
  BY AlbumsAssumption, FS_Subset, FS_CardinalityType
<1>2. s \in [1..Cardinality(A) -> A]
  BY DEF SetToSeqs
<1>3. s \in [1..Cardinality(A) -> Albums]
  BY <1>2
<1> QED  BY <1>1, <1>3

RowsOK == order \in Seq(Albums) /\ status \in [Albums -> RowStatus]

\* The row operations keep the types of the rows.
LEMMA RowsType ==
    ASSUME RowsOK, NEW a \in Albums \cup {NoAlbum}
    PROVE  /\ a \in Albums /\ EnqueueAlbum(a) => RowsOK'
           /\ DequeueAlbum(a) => RowsOK'
           /\ \A s \in RowStatus : SetQueueStatus(a, s) => RowsOK'
           /\ UNCHANGED rows => RowsOK'
<1> USE DEF RowsOK
<1>1. ASSUME a \in Albums, EnqueueAlbum(a) PROVE RowsOK'
  BY <1>1 DEF EnqueueAlbum, RowStatus
<1>2. ASSUME DequeueAlbum(a) PROVE RowsOK'
  BY <1>2, DropType DEF DequeueAlbum, RowStatus
<1>3. ASSUME NEW s \in RowStatus, SetQueueStatus(a, s) PROVE RowsOK'
  BY <1>3 DEF SetQueueStatus
<1> QED  BY <1>1, <1>2, <1>3

\* A thread moves on, starts and ends.
LEMMA ThreadType ==
    ASSUME thread \in [Threads -> ThreadRecord], NEW t \in Threads
    PROVE  /\ thread[t].album \in Albums \cup {NoAlbum}
           /\ thread[t].kind \in Kinds
           /\ \A p \in ThreadPc : SetPc(t, p) => thread' \in [Threads -> ThreadRecord]
           /\ ThreadEnds(t) => thread' \in [Threads -> ThreadRecord]
           /\ StateOf(t) \in States
           /\ NullThread \in ThreadRecord
<1>1. thread[t] \in ThreadRecord
  OBVIOUS
<1>2. thread[t].album \in Albums \cup {NoAlbum} /\ thread[t].kind \in Kinds
  BY <1>1 DEF ThreadRecord
<1>3. ASSUME NEW p \in ThreadPc, SetPc(t, p) PROVE thread' \in [Threads -> ThreadRecord]
  <2>1. [thread[t] EXCEPT !.pc = p] \in ThreadRecord
    BY <1>1 DEF ThreadRecord
  <2> QED  BY <1>3, <2>1 DEF SetPc
<1>4. NullThread \in ThreadRecord
  BY DEF NullThread, ThreadRecord, ThreadPc, Kinds
<1>5. ASSUME ThreadEnds(t) PROVE thread' \in [Threads -> ThreadRecord]
  BY <1>4, <1>5 DEF ThreadEnds
<1>6. StateOf(t) \in States
  BY DEF StateOf, States
<1> QED  BY <1>2, <1>3, <1>4, <1>5, <1>6

\* The dispatcher's record.
LEMMA DispType ==
    ASSUME disp \in DispRecord
    PROVE  /\ disp.todo \in Seq(Albums)
           /\ disp.album \in Albums \cup {NoAlbum}
           /\ disp.kind \in Kinds
           /\ NullDisp \in DispRecord
           /\ NextRow \in DispRecord
<1>1. NullDisp \in DispRecord
  <2>1. <<>> \in Seq(Albums)
    OBVIOUS
  <2> QED  BY <2>1 DEF NullDisp, DispRecord, Kinds
<1>2. NextRow \in DispRecord
  BY DEF DispRecord, NextRow
<1> QED  BY <1>1, <1>2 DEF DispRecord

-----------------------------------------------------------------------------
\* Type correctness of the queue, its threads and their shared states.
THEOREM Typing == Spec => []TypeOK
<1>1. Init => TypeOK
  <2> SUFFICES ASSUME Init PROVE TypeOK
    OBVIOUS
  <2>1. NullDisp \in DispRecord /\ NullThread \in ThreadRecord
    <3>1. <<>> \in Seq(Albums)
      OBVIOUS
    <3> QED  BY <3>1 DEF NullDisp, DispRecord, NullThread, ThreadRecord, ThreadPc, Kinds
  <2>2. order \in Seq(Albums) /\ status \in [Albums -> RowStatus]
    BY DEF Init, RowStatus
  <2>3. streak \in 0..(BotLimit - 1) /\ inputs \in 0..MaxInputs /\ late \in Nat
    BY DEF Init
  <2> QED  BY <2>1, <2>2, <2>3 DEF Init, TypeOK
<1>2. TypeOK /\ [Next]_vars => TypeOK'
  <2> SUFFICES ASSUME TypeOK, [Next]_vars PROVE TypeOK'
    OBVIOUS
  <2> USE DEF TypeOK
  <2>0. RowsOK
    BY DEF RowsOK
  <2>1. ASSUME NEW a \in Albums, Enqueue(a) PROVE TypeOK'
    BY <2>0, <2>1, RowsType DEF Enqueue, Input, RowsOK
  <2>2. ASSUME NEW a \in Albums, LidarrGrab(a) PROVE TypeOK'
    BY <2>0, <2>2, RowsType DEF LidarrGrab, Input, RowsOK
  <2>3. CASE UserStop
    BY <2>3 DEF UserStop, Input, StopDownload, ClearQueue, RowStatus
  <2>4. CASE UserHold
    BY <2>4 DEF UserHold, Input, Hold
  <2>5. CASE Resume
    BY <2>5 DEF Resume
  <2>6. CASE ManualStart
    BY <2>6 DEF ManualStart, Input, States
  <2>7. CASE Restart
    <3>1. order' \in Seq(Albums) /\ status' \in [Albums -> RowStatus]
      <4>1. PICK s \in SetToSeqs({a \in client : status[a] = "absent"}) :
              /\ order' = order \o s
              /\ status' = [a \in Albums |->
                              IF status[a] = "downloading"
                                 \/ a \in {b \in client : status[b] = "absent"}
                              THEN "queued" ELSE status[a]]
        BY <2>7 DEF Restart
      <4>2. s \in Seq(Albums)
        <5>1. {a \in client : status[a] = "absent"} \in SUBSET Albums
          OBVIOUS
        <5> QED  BY <5>1, OrderingType
      <4>3. order' \in Seq(Albums)
        BY <4>1, <4>2
      <4>4. status' \in [Albums -> RowStatus]
        BY <4>1 DEF RowStatus
      <4> QED  BY <4>3, <4>4
    <3>2. disp' \in DispRecord /\ thread' \in [Threads -> ThreadRecord]
      BY <2>7, ThreadType, DispType DEF Restart
    <3>3. inputs' \in 0..MaxInputs
      BY <2>7 DEF Restart, Input
    <3> QED  BY <2>7, <3>1, <3>2, <3>3 DEF Restart
  <2>8. CASE ManualEnd
    BY <2>8 DEF ManualEnd
  <2>9. CASE Tick
    <3>1. PICK s \in QueuedRows : disp' = [NullDisp EXCEPT !.pc = "scan", !.todo = s]
      BY <2>9 DEF Tick
    <3>2. s \in Seq(Albums)
      <4>1. {a \in Albums : status[a] = "queued"} \in SUBSET Albums
        OBVIOUS
      <4> QED  BY <4>1, OrderingType DEF QueuedRows
    <3>3. disp' \in DispRecord
      BY <3>1, <3>2 DEF NullDisp, DispRecord, Kinds
    <3> QED  BY <2>9, <3>3 DEF Tick
  <2>10. CASE ScanEnd
    BY <2>10, DispType DEF ScanEnd
  <2>11. CASE ScanRow
    <3>1. disp.todo # <<>> /\ disp.todo \in Seq(Albums)
      BY <2>11, DispType DEF ScanRow
    <3>2. Head(disp.todo) \in Albums /\ Tail(disp.todo) \in Seq(Albums)
      BY <3>1
    <3>3. disp' \in DispRecord
      BY <2>11, <3>2 DEF ScanRow, DispRecord
    <3> QED  BY <2>11, <3>3 DEF ScanRow
  <2>12. CASE DropDuplicate
    <3>1. RowsOK'
      BY <2>0, <2>12, RowsType, DispType DEF DropDuplicate
    <3> QED  BY <2>12, <3>1, DispType DEF DropDuplicate, RowsOK
  <2>13. CASE Route
    <3>1. disp' \in DispRecord
      BY <2>13, DispType DEF Route, DispRecord, Kinds
    <3> QED  BY <2>13, <3>1 DEF Route
  <2>14. CASE LaunchFails
    <3>1. RowsOK'
      BY <2>0, <2>14, RowsType, DispType DEF LaunchFails, ClaimRow, RowStatus
    <3> QED  BY <2>14, <3>1, DispType DEF LaunchFails, Input, RowsOK
  <2>15. ASSUME NEW t \in Threads, Launch(t) PROVE TypeOK'
    <3>1. RowsOK'
      BY <2>0, <2>15, RowsType, DispType DEF Launch, ClaimRow, RowStatus
    <3>2. thread' \in [Threads -> ThreadRecord]
      <4>1. [pc |-> "starting", album |-> disp.album, kind |-> disp.kind] \in ThreadRecord
        BY DispType DEF ThreadRecord, ThreadPc
      <4> QED  BY <2>15, <4>1 DEF Launch
    <3> QED  BY <2>15, <3>1, <3>2, DispType DEF Launch, AfterLaunch, RowsOK
  <2>16. ASSUME NEW t \in Threads, Tracks(t) PROVE TypeOK'
    <3>1. CASE TrackOk(t)
      BY <3>1 DEF TrackOk
    <3>2. CASE TrackBotBlocked(t)
      <4>1. thread' \in [Threads -> ThreadRecord]
        BY <3>2, ThreadType DEF TrackBotBlocked, Trips, SetPc, ThreadPc
      <4> QED  BY <3>2, <4>1 DEF TrackBotBlocked, Trips
    <3>3. CASE DiskFull(t)
      BY <3>3 DEF DiskFull, Hold
    <3> QED  BY <2>16, <3>1, <3>2, <3>3 DEF Tracks
  <2>17. ASSUME NEW t \in Threads, Enter(t) PROVE TypeOK'
    <3>1. thread' \in [Threads -> ThreadRecord]
      BY <2>17, ThreadType DEF Enter, ThreadPc
    <3> QED  BY <2>17, <3>1, ThreadType DEF Enter
  <2>18. ASSUME NEW t \in Threads, EnterBusy(t) PROVE TypeOK'
    BY <2>18, ThreadType DEF EnterBusy, ThreadPc
  <2>19. ASSUME NEW t \in Threads, BreakerPause(t) PROVE TypeOK'
    BY <2>19, ThreadType DEF BreakerPause, Hold, ThreadPc
  <2>20. ASSUME NEW t \in Threads, BreakerStop(t) PROVE TypeOK'
    BY <2>20, ThreadType DEF BreakerStop, StopDownload, ClearQueue, ThreadPc, RowStatus
  <2>21. ASSUME NEW t \in Threads, Finish(t) PROVE TypeOK'
    <3>1. thread' \in [Threads -> ThreadRecord]
      BY <2>21, ThreadType DEF Finish, ThreadPc
    <3> QED  BY <2>21, <3>1, ThreadType DEF Finish
  <2>22. ASSUME NEW t \in Threads, AfterRun(t) PROVE TypeOK'
    <3>1. RowsOK'
      BY <2>0, <2>22, RowsType, ThreadType DEF AfterRun, RowStatus
    <3>2. thread' \in [Threads -> ThreadRecord]
      BY <2>22, ThreadType DEF AfterRun, ThreadPc
    <3> QED  BY <2>22, <3>1, <3>2 DEF AfterRun, RowsOK
  <2>23. ASSUME NEW t \in Threads, AfterRunDequeue(t) PROVE TypeOK'
    BY <2>0, <2>23, RowsType, ThreadType DEF AfterRunDequeue, RowsOK
  <2>24. ASSUME NEW t \in Threads, AfterBusy(t) PROVE TypeOK'
    <3>1. RowsOK'
      BY <2>0, <2>24, RowsType, ThreadType DEF AfterBusy, RowStatus
    <3> QED  BY <2>24, <3>1, ThreadType DEF AfterBusy, RowsOK
  <2>25. ASSUME NEW t \in Threads, ClientJobDone(t) PROVE TypeOK'
    BY <2>25, ThreadType DEF ClientJobDone
  <2>26. CASE UNCHANGED vars
    BY <2>26 DEF vars
  <2> QED
    BY <2>1, <2>2, <2>3, <2>4, <2>5, <2>6, <2>7, <2>8, <2>9, <2>10, <2>11, <2>12,
       <2>13, <2>14, <2>15, <2>16, <2>17, <2>18, <2>19, <2>20, <2>21, <2>22, <2>23,
       <2>24, <2>25, <2>26
       DEF Next, Environment, Dispatcher, AlbumThread
<1> QED  BY <1>1, <1>2, PTL DEF Spec
-----------------------------------------------------------------------------
(* Who runs what. *)

\* What a thread's step does to the threads.
LEMMA ThreadMoves ==
    ASSUME thread \in [Threads -> ThreadRecord], NEW t \in Threads
    PROVE  /\ \A p : SetPc(t, p) =>
                /\ thread'[t].pc = p
                /\ thread'[t].album = thread[t].album
                /\ thread'[t].kind = thread[t].kind
                /\ \A u \in Threads : u # t => thread'[u] = thread[u]
           /\ ThreadEnds(t) =>
                /\ thread'[t] = NullThread
                /\ \A u \in Threads : u # t => thread'[u] = thread[u]
BY DEF SetPc, ThreadEnds, ThreadRecord

LEMMA RunsStep == TypeOK /\ RunsApart /\ [Next]_vars => RunsApart'
<1> SUFFICES ASSUME TypeOK, RunsApart, [Next]_vars PROVE RunsApart'
  OBVIOUS
<1> USE DEF RunsApart, OneRunPerAlbum, ForegroundExclusive
<1>0. /\ thread \in [Threads -> ThreadRecord]
      /\ active \in [Albums -> Threads \cup {NoThread}]
      /\ \A t \in Threads : thread[t].album \in Albums \cup {NoAlbum}
  BY ThreadType DEF TypeOK
<1>1. CASE UNCHANGED <<thread, fg, active>>
  BY <1>1
<1>2. CASE ManualStart \/ ManualEnd
  BY <1>2, ThreadsAssumption DEF ManualStart, ManualEnd
<1>3. CASE Restart
  BY <1>3, ThreadsAssumption DEF Restart, NullThread, Inside
<1>4. ASSUME NEW t \in Threads, Launch(t) PROVE RunsApart'
  <2>1. /\ thread'[t].pc = "starting"
        /\ \A u \in Threads : u # t => thread'[u] = thread[u]
    BY <1>0, <1>4 DEF Launch
  <2> QED  BY <1>4, <2>1 DEF Launch, Inside
<1>5. ASSUME NEW t \in Threads, Enter(t) PROVE RunsApart'
  <2>1. /\ thread'[t].pc = "running"
        /\ thread'[t].album = thread[t].album
        /\ thread'[t].kind = thread[t].kind
        /\ \A u \in Threads : u # t => thread'[u] = thread[u]
    BY <1>0, <1>5, ThreadMoves DEF Enter
  <2>2. OneRunPerAlbum'
    BY <1>0, <1>5, <2>1, ThreadsAssumption DEF Enter, SlotBusy, Inside
  <2>3. ForegroundExclusive'
    BY <1>0, <1>5, <2>1, ThreadsAssumption DEF Enter, SlotBusy, Inside
  <2> QED  BY <2>2, <2>3
<1>6. ASSUME NEW t \in Threads, EnterBusy(t) PROVE RunsApart'
  BY <1>0, <1>6, ThreadMoves DEF EnterBusy, Inside
<1>7. ASSUME NEW t \in Threads, TrackBotBlocked(t) PROVE RunsApart'
  <2>1. CASE SetPc(t, "pausing")
    BY <1>0, <1>7, <2>1, ThreadMoves DEF TrackBotBlocked, Inside
  <2> QED  BY <1>1, <1>7, <2>1 DEF TrackBotBlocked, SetPc
<1>8. ASSUME NEW t \in Threads, BreakerPause(t) \/ BreakerStop(t) PROVE RunsApart'
  BY <1>0, <1>8, ThreadMoves DEF BreakerPause, BreakerStop, Inside
<1>9. ASSUME NEW t \in Threads, Finish(t) PROVE RunsApart'
  <2>1. /\ thread'[t].pc = "ended"
        /\ thread'[t].album = thread[t].album
        /\ thread'[t].kind = thread[t].kind
        /\ \A u \in Threads : u # t => thread'[u] = thread[u]
    BY <1>0, <1>9, ThreadMoves DEF Finish
  <2>2. OneRunPerAlbum'
    BY <1>0, <1>9, <2>1, ThreadsAssumption DEF Finish, Inside
  <2>3. ForegroundExclusive'
    BY <1>0, <1>9, <2>1, ThreadsAssumption DEF Finish, Inside
  <2> QED  BY <2>2, <2>3
<1>10. ASSUME NEW t \in Threads,
              AfterRun(t) \/ AfterRunDequeue(t) \/ AfterBusy(t) \/ ClientJobDone(t)
       PROVE  RunsApart'
  <2>1. thread[t].pc \notin Inside /\ UNCHANGED <<fg, active>>
    BY <1>10 DEF AfterRun, AfterRunDequeue, AfterBusy, ClientJobDone, Inside
  <2>2. CASE ThreadEnds(t)
    BY <1>0, <2>1, <2>2, ThreadMoves DEF NullThread, Inside
  <2>3. CASE SetPc(t, "dequeue")
    BY <1>0, <2>1, <2>3, ThreadMoves DEF Inside
  <2> QED  BY <1>10, <2>2, <2>3 DEF AfterRun, AfterRunDequeue, AfterBusy, ClientJobDone
<1>11. ASSUME NEW a \in Albums, Enqueue(a) \/ LidarrGrab(a) PROVE RunsApart'
  BY <1>1, <1>11 DEF Enqueue, LidarrGrab
<1>12. CASE UserStop \/ UserHold \/ Resume \/ UNCHANGED vars
  BY <1>1, <1>12 DEF UserStop, UserHold, Resume, vars
<1>13. CASE Tick \/ ScanEnd \/ ScanRow \/ DropDuplicate \/ Route \/ LaunchFails
  BY <1>1, <1>13 DEF Tick, ScanEnd, ScanRow, DropDuplicate, Route, LaunchFails
<1>14. ASSUME NEW t \in Threads, TrackOk(t) \/ DiskFull(t) PROVE RunsApart'
  BY <1>1, <1>14 DEF TrackOk, DiskFull
<1> QED
  BY <1>2, <1>3, <1>4, <1>5, <1>6, <1>7, <1>8, <1>9, <1>10, <1>11, <1>12, <1>13, <1>14
     DEF Next, Environment, Dispatcher, Tracks, AlbumThread

\* No two album runs share the foreground state and no album runs twice at
\* once, whatever is queued, grabbed, stopped or restarted in the meantime.
THEOREM Runs == Spec => []RunsApart
<1>1. Init => RunsApart
  BY ThreadsAssumption
     DEF Init, RunsApart, OneRunPerAlbum, ForegroundExclusive, NullThread, Inside
<1> QED  BY <1>1, RunsStep, Typing, PTL DEF Spec, RunsApart
-----------------------------------------------------------------------------
(* What is asked for is not lost. *)

\* OwedKept is inductive once it is known who may delete a row: a thread that
\* has begun the album, a dispatcher that saw it begun, and a dispatcher about
\* to start a registered grab.
OwedInv ==
    /\ OwedKept
    /\ \A t \in Threads :
         thread[t].pc \in Inside \cup {"ended", "dequeue"} => thread[t].album \notin owed
    /\ disp.pc = "duplicate" => disp.album \notin owed
    /\ disp.pc = "launch" /\ disp.kind = "client" /\ disp.album \in owed
         => disp.album \in client

\* What the row operations do to the status of the rows.
LEMMA RowsStep ==
    ASSUME status \in [Albums -> RowStatus], NEW a
    PROVE  /\ EnqueueAlbum(a) /\ a \in Albums =>
                /\ status'[a] # "absent"
                /\ \A b \in Albums : b # a => status'[b] = status[b]
           /\ DequeueAlbum(a) => \A b \in Albums : b # a => status'[b] = status[b]
           /\ \A s \in {"queued", "downloading"} : SetQueueStatus(a, s) =>
                /\ \A b \in Albums : b # a => status'[b] = status[b]
                /\ \A b \in Albums : status[b] # "absent" => status'[b] # "absent"
                /\ \A b \in Albums : b = a => status'[b] \in {"absent", s}
BY DEF EnqueueAlbum, DequeueAlbum, SetQueueStatus, RowStatus

LEMMA OwedStep == TypeOK /\ RunsApart /\ OwedInv /\ [Next]_vars => OwedInv'
<1> SUFFICES ASSUME TypeOK, RunsApart, OwedInv, [Next]_vars PROVE OwedInv'
  OBVIOUS
<1> USE DEF OwedInv, OwedKept
<1>0. /\ thread \in [Threads -> ThreadRecord]
      /\ status \in [Albums -> RowStatus]
      /\ owed \in SUBSET Albums
      /\ disp \in DispRecord
      /\ active \in [Albums -> Threads \cup {NoThread}]
  BY DEF TypeOK
<1>1. ASSUME NEW a \in Albums, Enqueue(a) PROVE OwedInv'
  <2>1. /\ status'[a] # "absent"
        /\ \A b \in Albums : b # a => status'[b] = status[b]
        /\ UNCHANGED <<client, disp, thread>>
    BY <1>0, <1>1, RowsStep DEF Enqueue
  <2>2. owed' = owed \/ (owed' = owed \cup {a} /\ Idle(a))
    BY <1>1 DEF Enqueue
  <2>3. OwedKept'
    BY <1>0, <2>1, <2>2
  <2> QED  BY <2>1, <2>2, <2>3 DEF Idle
<1>2. ASSUME NEW a \in Albums, LidarrGrab(a) PROVE OwedInv'
  <2>1. /\ status'[a] # "absent"
        /\ \A b \in Albums : b # a => status'[b] = status[b]
        /\ client \subseteq client'
        /\ UNCHANGED <<owed, disp, thread>>
    BY <1>0, <1>2, RowsStep DEF LidarrGrab
  <2>2. OwedKept'
    BY <1>0, <2>1
  <2> QED  BY <2>1, <2>2
<1>3. ASSUME owed' = {} PROVE OwedInv'
  BY <1>3
<1>4. CASE UNCHANGED <<status, client, disp, thread, owed>>
  BY <1>4
<1>5. CASE Restart
  <2>1. \A a \in Albums : status[a] # "absent" => status'[a] # "absent"
    BY <1>0, <1>5 DEF Restart
  <2> QED  BY <1>0, <1>5, <2>1 DEF Restart, NullDisp, NullThread, Inside
<1>6. CASE Tick \/ ScanEnd
  <2>1. CASE Tick
    <3>1. PICK s : disp' = [NullDisp EXCEPT !.pc = "scan", !.todo = s]
      BY <2>1 DEF Tick
    <3>2. disp'.pc = "scan"
      BY <3>1 DEF NullDisp
    <3> QED  BY <2>1, <3>2 DEF Tick
  <2>2. CASE ScanEnd
    BY <2>2 DEF ScanEnd, NullDisp
  <2> QED  BY <1>6, <2>1, <2>2
<1>7. CASE ScanRow
  <2>1. /\ disp'.pc \in {"duplicate", "route"}
        /\ disp'.pc = "duplicate" => IsAlbumActive(disp'.album)
        /\ disp'.album \in Albums
    <3>1. disp.todo \in Seq(Albums) /\ disp.todo # <<>>
      BY <1>0, <1>7, DispType DEF ScanRow
    <3>2. Head(disp.todo) \in Albums
      BY <3>1
    <3> QED  BY <1>0, <1>7, <3>2 DEF ScanRow, DispRecord
  <2>2. disp'.pc = "duplicate" => disp'.album \notin owed
    BY <1>0, <2>1 DEF IsAlbumActive, RunsApart, OneRunPerAlbum
  <2> QED  BY <1>7, <2>1, <2>2 DEF ScanRow
<1>8. CASE DropDuplicate
  <2>1. \A b \in Albums : b # disp.album => status'[b] = status[b]
    BY <1>0, <1>8, RowsStep DEF DropDuplicate
  <2>2. disp'.pc = "scan"
    BY <1>0, <1>8 DEF DropDuplicate, NextRow, DispRecord
  <2> QED  BY <1>0, <1>8, <2>1, <2>2 DEF DropDuplicate
<1>9. CASE Route
  <2>1. /\ disp'.album = disp.album \/ disp'.pc = "scan"
        /\ disp'.pc \in {"launch", "scan"}
        /\ disp'.pc = "launch" /\ disp'.kind = "client" => disp'.album \in client
    BY <1>0, <1>9 DEF Route, NextRow, DispRecord
  <2> QED  BY <1>9, <2>1 DEF Route
<1>10. ASSUME ClaimRow, disp.pc = "launch"
       PROVE  \A a \in owed : status'[a] # "absent" \/ a \in client
  <2>1. CASE disp.kind = "foreground"
    BY <1>0, <1>10, <2>1, RowsStep DEF ClaimRow
  <2>2. CASE disp.kind = "client"
    <3>1. \A b \in Albums : b # disp.album => status'[b] = status[b]
      BY <1>0, <1>10, <2>2, RowsStep DEF ClaimRow
    <3> QED  BY <1>0, <1>10, <2>2, <3>1
  <2> QED  BY <1>0, <2>1, <2>2, DispType DEF Kinds
<1>11. CASE LaunchFails
  BY <1>10, <1>11 DEF LaunchFails, NullDisp
<1>12. ASSUME NEW t \in Threads, Launch(t) PROVE OwedInv'
  <2>1. /\ thread'[t].pc = "starting"
        /\ \A u \in Threads : u # t => thread'[u] = thread[u]
    BY <1>0, <1>12 DEF Launch
  <2> QED  BY <1>10, <1>12, <2>1 DEF Launch, AfterLaunch, NullDisp, Inside
<1>13. ASSUME NEW t \in Threads, Enter(t) PROVE OwedInv'
  BY <1>0, <1>13, ThreadMoves DEF Enter
<1>14. ASSUME NEW t \in Threads, EnterBusy(t) PROVE OwedInv'
  BY <1>0, <1>14, ThreadMoves DEF EnterBusy, Inside
<1>15. ASSUME NEW t \in Threads, TrackBotBlocked(t) PROVE OwedInv'
  <2>1. CASE SetPc(t, "pausing")
    BY <1>0, <1>15, <2>1, ThreadMoves DEF TrackBotBlocked, Inside
  <2> QED  BY <1>4, <1>15, <2>1 DEF TrackBotBlocked, SetPc
<1>16. ASSUME NEW t \in Threads, BreakerPause(t) PROVE OwedInv'
  BY <1>0, <1>16, ThreadMoves DEF BreakerPause, Inside
<1>17. ASSUME NEW t \in Threads, Finish(t) PROVE OwedInv'
  BY <1>0, <1>17, ThreadMoves DEF Finish, Inside
<1>18. ASSUME NEW t \in Threads, AfterRun(t) \/ AfterBusy(t) PROVE OwedInv'
  <2>1. /\ \A a \in Albums : status[a] # "absent" => status'[a] # "absent"
        /\ UNCHANGED <<client, disp, owed>>
    BY <1>0, <1>18, RowsStep DEF AfterRun, AfterBusy
  <2>2. CASE ThreadEnds(t)
    BY <1>0, <2>1, <2>2, ThreadMoves DEF NullThread, Inside
  <2>3. CASE SetPc(t, "dequeue") /\ thread[t].pc = "ended"
    BY <1>0, <2>1, <2>3, ThreadMoves
  <2> QED  BY <1>18, <2>2, <2>3 DEF AfterRun, AfterBusy
<1>19. ASSUME NEW t \in Threads, AfterRunDequeue(t) PROVE OwedInv'
  <2>1. \A b \in Albums : b # thread[t].album => status'[b] = status[b]
    BY <1>0, <1>19, RowsStep DEF AfterRunDequeue
  <2>2. OwedKept'
    BY <1>0, <1>19, <2>1 DEF AfterRunDequeue
  <2> QED  BY <1>0, <1>19, <2>2, ThreadMoves DEF AfterRunDequeue, NullThread, Inside
<1>20. ASSUME NEW t \in Threads, ClientJobDone(t) PROVE OwedInv'
  BY <1>0, <1>20, ThreadMoves DEF ClientJobDone, NullThread, Inside
<1>21. CASE UserHold \/ Resume \/ ManualStart \/ ManualEnd \/ UNCHANGED vars
  BY <1>4, <1>21 DEF UserHold, Resume, ManualStart, ManualEnd, vars
<1>22. ASSUME NEW t \in Threads, TrackOk(t) \/ DiskFull(t) PROVE OwedInv'
  BY <1>4, <1>22 DEF TrackOk, DiskFull
<1>23. ASSUME NEW t \in Threads, BreakerStop(t) PROVE OwedInv'
  BY <1>3, <1>23 DEF BreakerStop, StopDownload
<1>24. CASE UserStop
  BY <1>3, <1>24 DEF UserStop, StopDownload
<1> QED
  BY <1>1, <1>2, <1>5, <1>6, <1>7, <1>8, <1>9, <1>11, <1>12, <1>13, <1>14, <1>15, <1>16,
     <1>17, <1>18, <1>19, <1>20, <1>21, <1>22, <1>23, <1>24
     DEF Next, Environment, Dispatcher, Tracks, AlbumThread

\* An album queued while nobody works on it is persisted until it has begun or
\* the user has stopped everything, whatever crashes, fails to start or is
\* grabbed by Lidarr in the meantime.
THEOREM NothingOwedIsLost == Spec => []OwedKept
<1>1. Init => RunsApart /\ OwedInv
  BY ThreadsAssumption
     DEF Init, RunsApart, OneRunPerAlbum, ForegroundExclusive, OwedInv, OwedKept,
         NullThread, NullDisp, Inside
<1>2. OwedInv => OwedKept
  BY DEF OwedInv
<1> QED  BY <1>1, <1>2, RunsStep, OwedStep, Typing, PTL DEF Spec
-----------------------------------------------------------------------------
(* No row is stuck in 'downloading', if its album's thread can be started. *)

LEMMA OrphanStep ==
    TypeOK /\ NoOrphanDownloadingRow /\ [Next]_vars => NoOrphanDownloadingRow'
<1> SUFFICES ASSUME TypeOK, NoOrphanDownloadingRow, [Next]_vars
             PROVE  NoOrphanDownloadingRow'
  OBVIOUS
<1> USE DEF NoOrphanDownloadingRow
<1>0. /\ thread \in [Threads -> ThreadRecord]
      /\ status \in [Albums -> RowStatus]
      /\ disp \in DispRecord
  BY DEF TypeOK
<1>1. CASE /\ UNCHANGED thread
           /\ \A a \in Albums \ FailingStarts :
                  status'[a] = "downloading" => status[a] = "downloading"
  BY <1>1
<1>2. ASSUME NEW a \in Albums, Enqueue(a) \/ LidarrGrab(a) PROVE NoOrphanDownloadingRow'
  BY <1>0, <1>1, <1>2 DEF Enqueue, LidarrGrab, EnqueueAlbum
<1>3. CASE UserStop \/ UserHold \/ Resume \/ ManualStart \/ ManualEnd
  BY <1>1, <1>3 DEF UserStop, UserHold, Resume, ManualStart, ManualEnd, StopDownload, ClearQueue
<1>4. CASE Restart
  BY <1>0, <1>4 DEF Restart
<1>5. CASE Tick \/ ScanEnd \/ ScanRow \/ Route \/ UNCHANGED vars
  BY <1>1, <1>5 DEF Tick, ScanEnd, ScanRow, Route, vars
<1>6. CASE DropDuplicate
  BY <1>0, <1>1, <1>6 DEF DropDuplicate, DequeueAlbum
<1>7. CASE LaunchFails
  BY <1>0, <1>7 DEF LaunchFails, ClaimRow, SetQueueStatus, DequeueAlbum
<1>8. ASSUME NEW t \in Threads, Launch(t) PROVE NoOrphanDownloadingRow'
  <2>1. /\ thread[t].pc = "idle"
        /\ thread'[t].pc = "starting"
        /\ thread'[t].album = disp.album
        /\ thread'[t].kind = disp.kind
        /\ \A u \in Threads : u # t => thread'[u] = thread[u]
    BY <1>0, <1>8 DEF Launch
  <2>2. \A a \in Albums \ FailingStarts : status'[a] = "downloading" =>
          status[a] = "downloading" \/ (a = disp.album /\ disp.kind = "foreground")
    BY <1>0, <1>8 DEF Launch, ClaimRow, SetQueueStatus, DequeueAlbum
  <2> QED  BY <2>1, <2>2
<1>9. ASSUME NEW t \in Threads, thread[t].pc # "idle", UNCHANGED rows,
             NEW p \in ThreadPc \ {"idle"}, SetPc(t, p)
      PROVE  NoOrphanDownloadingRow'
  BY <1>0, <1>9, ThreadMoves
<1>10. ASSUME NEW t \in Threads,
              Enter(t) \/ EnterBusy(t) \/ TrackBotBlocked(t) \/ BreakerPause(t) \/ Finish(t)
       PROVE  NoOrphanDownloadingRow'
  BY <1>1, <1>9, <1>10
     DEF Enter, EnterBusy, TrackBotBlocked, BreakerPause, Finish, ThreadPc, SetPc
<1>11. ASSUME NEW t \in Threads, BreakerStop(t) PROVE NoOrphanDownloadingRow'
  BY <1>0, <1>11 DEF BreakerStop, StopDownload, ClearQueue
<1>12. ASSUME NEW t \in Threads, TrackOk(t) \/ DiskFull(t) PROVE NoOrphanDownloadingRow'
  BY <1>1, <1>12 DEF TrackOk, DiskFull
<1>13. ASSUME NEW t \in Threads, ThreadEnds(t),
              \A a \in Albums \ FailingStarts : status'[a] = "downloading" =>
                 /\ status[a] = "downloading"
                 /\ a # thread[t].album \/ thread[t].kind = "client"
       PROVE  NoOrphanDownloadingRow'
  BY <1>0, <1>13, ThreadMoves
<1>14. ASSUME NEW t \in Threads, AfterRun(t) PROVE NoOrphanDownloadingRow'
  BY <1>0, <1>9, <1>13, <1>14 DEF AfterRun, SetQueueStatus, ThreadPc
<1>15. ASSUME NEW t \in Threads, AfterRunDequeue(t) PROVE NoOrphanDownloadingRow'
  BY <1>0, <1>13, <1>15 DEF AfterRunDequeue, DequeueAlbum
<1>16. ASSUME NEW t \in Threads, AfterBusy(t) PROVE NoOrphanDownloadingRow'
  BY <1>0, <1>13, <1>16, ThreadType DEF AfterBusy, SetQueueStatus, Kinds
<1>17. ASSUME NEW t \in Threads, ClientJobDone(t) PROVE NoOrphanDownloadingRow'
  BY <1>0, <1>13, <1>17 DEF ClientJobDone
<1> QED
  BY <1>2, <1>3, <1>4, <1>5, <1>6, <1>7, <1>8, <1>10, <1>11, <1>12, <1>14, <1>15, <1>16, <1>17
     DEF Next, Environment, Dispatcher, Tracks, AlbumThread

\* Where its album's threads always start, a row marked 'downloading' has a thread that
\* will put it back or delete it.
THEOREM NoOrphans ==
    Spec => []NoOrphanDownloadingRow
<1>1. Init => NoOrphanDownloadingRow
  BY DEF Init, NoOrphanDownloadingRow
<1> QED  BY <1>1, OrphanStep, Typing, PTL DEF Spec

-----------------------------------------------------------------------------
(* Holding downloads takes effect. *)

\* Once downloads are held, only a pass that is under way may still start an
\* album, and it has not started one yet.
HeldInv == PauseTakesEffect /\ (held /\ disp.pc # "idle" => late = 0)

LEMMA HeldStep == TypeOK /\ HeldInv /\ [Next]_vars => HeldInv'
<1> SUFFICES ASSUME TypeOK, HeldInv, [Next]_vars PROVE HeldInv'
  OBVIOUS
<1> USE DEF HeldInv, PauseTakesEffect
<1>0. late \in Nat /\ held \in BOOLEAN
  BY DEF TypeOK
<1>1. CASE UNCHANGED <<held, late>> /\ (disp'.pc # "idle" => disp.pc # "idle")
  BY <1>1
<1>2. ASSUME NEW a \in Albums, Enqueue(a) \/ LidarrGrab(a) PROVE HeldInv'
  BY <1>1, <1>2 DEF Enqueue, LidarrGrab
<1>3. CASE UserStop \/ ManualStart \/ ManualEnd \/ UNCHANGED vars
  BY <1>1, <1>3 DEF UserStop, ManualStart, ManualEnd, vars
<1>4. CASE Restart \/ ScanEnd \/ LaunchFails
  BY <1>1, <1>4 DEF Restart, ScanEnd, LaunchFails, NullDisp
<1>5. CASE ScanRow \/ DropDuplicate \/ Route
  BY <1>1, <1>5 DEF ScanRow, DropDuplicate, Route
<1>6. CASE Tick
  BY <1>6 DEF Tick
<1>7. CASE Resume
  BY <1>7 DEF Resume
<1>8. ASSUME Hold, UNCHANGED disp PROVE HeldInv'
  BY <1>0, <1>8 DEF Hold
<1>9. CASE UserHold
  BY <1>8, <1>9 DEF UserHold
<1>10. ASSUME NEW t \in Threads, Launch(t) PROVE HeldInv'
  BY <1>0, <1>10 DEF Launch, AfterLaunch, NullDisp
<1>11. ASSUME NEW t \in Threads, BreakerPause(t) \/ DiskFull(t) PROVE HeldInv'
  BY <1>8, <1>11 DEF BreakerPause, DiskFull
<1>12. ASSUME NEW t \in Threads, AlbumThread(t), ~BreakerPause(t) PROVE HeldInv'
  BY <1>1, <1>12 DEF AlbumThread, Enter, EnterBusy, BreakerStop, Finish, AfterRun,
                     AfterRunDequeue, AfterBusy, ClientJobDone
<1>13. ASSUME NEW t \in Threads, TrackOk(t) \/ TrackBotBlocked(t) PROVE HeldInv'
  BY <1>1, <1>13 DEF TrackOk, TrackBotBlocked
<1> QED
  BY <1>2, <1>3, <1>4, <1>5, <1>6, <1>7, <1>9, <1>10, <1>11, <1>12, <1>13
     DEF Next, Environment, Dispatcher, Tracks

\* After the queue is paused, by a user, a full disk or the bot breaker, at
\* most one more album starts.
THEOREM PauseTheorem == Spec => []PauseTakesEffect
<1>1. Init => HeldInv
  BY DEF Init, HeldInv, PauseTakesEffect
<1>2. HeldInv => PauseTakesEffect
  BY DEF HeldInv
<1> QED  BY <1>1, <1>2, HeldStep, Typing, PTL DEF Spec
-----------------------------------------------------------------------------
(* A stopped run stays stopped. *)

LEMMA StopStep ==
    ASSUME TypeOK, RunsApart, [Next]_vars,
           NEW t \in Threads, thread[t].pc \in Inside, thread'[t].pc \in Inside,
           stop[StateOf(t)]
    PROVE  stop'[StateOf(t)]
<1> USE DEF RunsApart, OneRunPerAlbum, ForegroundExclusive
<1>0. /\ thread \in [Threads -> ThreadRecord]
      /\ stop \in [States -> BOOLEAN]
      /\ \A u \in Threads : StateOf(u) \in States
  BY ThreadType DEF TypeOK
<1>1. ASSUME NEW u \in Threads, u # t,
             (thread[u].kind = "foreground" /\ fg \in {u, NoThread}) \/ thread[u].kind = "client",
             stop' = [stop EXCEPT ![StateOf(u)] = FALSE]
      PROVE  stop'[StateOf(t)]
  <2>1. StateOf(u) # StateOf(t)
    BY <1>1, ThreadsAssumption DEF StateOf
  <2> QED  BY <1>0, <1>1, <2>1
<1>2. CASE ManualStart \/ ManualEnd
  <2>1. StateOf(t) # "foreground"
    BY <1>2, ThreadsAssumption DEF ManualStart, ManualEnd, StateOf
  <2> QED  BY <1>0, <1>2, <2>1 DEF ManualStart, ManualEnd
<1>3. CASE Restart
  BY <1>0, <1>3 DEF Restart, NullThread, Inside
<1>4. ASSUME NEW u \in Threads, Enter(u) PROVE stop'[StateOf(t)]
  <2>1. u # t
    BY <1>4 DEF Enter, Inside
  <2>2. thread[u].kind \in Kinds
    BY <1>0, ThreadType
  <2> QED  BY <1>1, <1>4, <2>1, <2>2 DEF Enter, SlotBusy, Kinds
<1>5. ASSUME NEW u \in Threads, Finish(u) PROVE stop'[StateOf(t)]
  <2>1. u # t
    BY <1>0, <1>5, ThreadMoves DEF Finish, Inside
  <2>2. thread[u].kind \in Kinds
    BY <1>0, ThreadType
  <2> QED  BY <1>1, <1>5, <2>1, <2>2 DEF Finish, Kinds, Inside
<1>6. ASSUME StopDownload PROVE stop'[StateOf(t)]
  BY <1>0, <1>6 DEF StopDownload
<1>7. CASE UNCHANGED stop
  BY <1>7
<1> QED
  BY <1>2, <1>3, <1>4, <1>5, <1>6, <1>7
     DEF Next, Environment, Dispatcher, Tracks, AlbumThread, Enqueue, LidarrGrab, UserStop,
         UserHold, Resume, Tick, ScanEnd, ScanRow, DropDuplicate, Route, LaunchFails, Launch,
         EnterBusy, TrackOk, TrackBotBlocked, DiskFull, BreakerPause, BreakerStop, AfterRun,
         AfterRunDequeue, AfterBusy, ClientJobDone, vars

\* Nobody clears the stop flag of a state that a run still uses: a new run, a
\* manual download and the end of another run leave it alone.
THEOREM StopTheorem == Spec => StopSticks
<1>1. TypeOK /\ RunsApart /\ [Next]_vars =>
        [\A t \in Threads :
           /\ thread[t].pc \in Inside /\ thread'[t].pc \in Inside
           /\ stop[StateOf(t)]
           => stop'[StateOf(t)]]_vars
  BY StopStep
<1> QED  BY <1>1, Runs, Typing, PTL DEF Spec, StopSticks, RunsApart

-----------------------------------------------------------------------------
(* The scheduler that fills the queue, for any list of albums and any       *)
(* limits: the theorems are about the instance Scheduler of AlbumScheduler, *)
(* whose constants and variables are declared here.                         *)

CONSTANTS Catalogue, NeverFound, MaxAlbums, Cooldown, MaxWait, MaxRetries, AtFirst, ByHand,
          MaxRequests
VARIABLES missing, queue, running, forced, requests, age, failures, since, pc, listed, recent, todo,
          raced, auto, reported

Scheduler == INSTANCE AlbumScheduler

\* What AlbumScheduler assumes of Lidarr's list and of the limits.
SchedulerAssumption == Scheduler!CatalogueAssumption /\ Scheduler!LimitsAssumption

\* Album a is in the queue q.
Queued(q, a) == \E i \in 1..Len(q) : q[i] = a

\* What is downloaded is the head of the queue, and no album is queued twice.
Rows ==
    /\ queue \in Seq(Scheduler!Albums)
    /\ \A i, j \in 1..Len(queue) : queue[i] = queue[j] => i = j
    /\ running \in Scheduler!Albums \cup {NoAlbum}
    /\ running # NoAlbum => queue # <<>> /\ Head(queue) = running

Tables ==
    /\ age \in [Scheduler!Albums -> 0..Scheduler!Never]
    /\ since \in [Scheduler!Albums -> 0..MaxWait]
    /\ failures \in [Scheduler!Albums -> Nat]

Sets ==
    /\ missing \subseteq Scheduler!Albums /\ requests \in 0..MaxRequests
    /\ forced \subseteq Scheduler!Albums
    /\ pc \in {"off", "due", "history", "queue", "enqueue"}
    /\ listed \subseteq Scheduler!Albums /\ recent \subseteq Scheduler!Albums
    /\ raced \subseteq Scheduler!Albums /\ reported \subseteq Scheduler!Albums
    /\ todo \subseteq DOMAIN Catalogue

Switches == auto \in BOOLEAN

\* An album that ran during the check is one that the check has to expect in it.
Raced == running # NoAlbum /\ pc \in {"history", "queue", "enqueue"} => running \in raced

Types == Rows /\ Tables /\ Sets /\ Switches

LEMMA TypesImplyTypeOK == Types => Scheduler!TypeOK
<1> SUFFICES ASSUME Types PROVE Scheduler!TypeOK
  OBVIOUS
<1>1. queue \in Seq(Scheduler!Albums) /\ Scheduler!IsInjective(queue)
  BY DEF Types, Rows, Scheduler!IsInjective
<1>2. auto \in BOOLEAN
  BY DEF Types, Switches
<1> QED  BY <1>1, <1>2 DEF Types, Rows, Tables, Sets, Scheduler!TypeOK

LEMMA TypesInit == SchedulerAssumption /\ Scheduler!Init => Types
<1> SUFFICES ASSUME SchedulerAssumption, Scheduler!Init PROVE Types
  OBVIOUS
<1>1. Scheduler!Never \in Nat /\ MaxWait \in Nat /\ MaxRequests \in Nat
  BY DEF SchedulerAssumption, Scheduler!LimitsAssumption, Scheduler!Never, Scheduler!Old,
         Scheduler!Lookback
<1>2. Rows
  BY DEF Scheduler!Init, Rows
<1>3. Tables
  BY <1>1 DEF Scheduler!Init, Tables
<1>4. Sets
  BY <1>1 DEF Scheduler!Init, Sets, SchedulerAssumption, Scheduler!CatalogueAssumption
<1>5. Switches
  BY DEF Scheduler!Init, Switches
<1> QED  BY <1>2, <1>3, <1>4, <1>5 DEF Types

\* An album that is queued joins the end, unless it is in the queue.
LEMMA EnqueueRows ==
    ASSUME SchedulerAssumption, Rows, NEW a \in Scheduler!Albums, Scheduler!EnqueueAlbum(a),
           running' = running
    PROVE  /\ Rows'
           /\ \A b : Queued(queue, b) => Queued(queue', b)
           /\ Queued(queue', a)
<1>1. CASE Queued(queue, a)
  <2>1. queue' = queue
    BY <1>1 DEF Scheduler!EnqueueAlbum, Scheduler!Contains, Queued
  <2> QED  BY <1>1, <2>1 DEF Rows
<1>2. CASE ~ Queued(queue, a)
  <2>1. queue \in Seq(Scheduler!Albums) /\ queue' = Append(queue, a)
    BY <1>2 DEF Scheduler!EnqueueAlbum, Scheduler!Contains, Queued, Rows
  <2>2. /\ queue' \in Seq(Scheduler!Albums) /\ Len(queue') = Len(queue) + 1
        /\ queue'[Len(queue) + 1] = a
        /\ \A i \in 1..Len(queue) : queue'[i] = queue[i]
        /\ queue # <<>> => Head(queue') = Head(queue)
        /\ queue' # <<>> /\ Len(queue) \in Nat
    BY <2>1
  <2>3. \A i, j \in 1..Len(queue') : queue'[i] = queue'[j] => i = j
    BY <1>2, <2>2 DEF Rows, Queued
  <2>4. Rows'
    BY <2>2, <2>3 DEF Rows
  <2>5. \A b : Queued(queue, b) => Queued(queue', b)
    BY <2>2 DEF Queued
  <2>6. Queued(queue', a)
    BY <2>2 DEF Queued
  <2> QED  BY <2>4, <2>5, <2>6
<1> QED  BY <1>1, <1>2

\* The album that was downloaded leaves the queue, and only it.
LEMMA LeaveRows ==
    ASSUME SchedulerAssumption, Rows, running # NoAlbum, Scheduler!AlbumEnds
    PROVE  /\ Rows' /\ running \in Scheduler!Albums
           /\ \A b : b # running /\ Queued(queue, b) => Queued(queue', b)
<1>1. /\ queue \in Seq(Scheduler!Albums) /\ queue # <<>> /\ Head(queue) = running
      /\ queue' = Tail(queue) /\ running' = NoAlbum
  BY DEF Rows, Scheduler!AlbumEnds
<1>2. /\ queue' \in Seq(Scheduler!Albums) /\ Len(queue') = Len(queue) - 1
      /\ \A i \in 1..Len(queue') : queue'[i] = queue[i + 1]
      /\ queue[1] = running /\ Len(queue) \in Nat \ {0}
  BY <1>1
<1>3. \A i, j \in 1..Len(queue') : queue'[i] = queue'[j] => i = j
  <2> SUFFICES ASSUME NEW i \in 1..Len(queue'), NEW j \in 1..Len(queue'), queue'[i] = queue'[j]
               PROVE  i = j
    OBVIOUS
  <2>1. i + 1 \in 1..Len(queue) /\ j + 1 \in 1..Len(queue) /\ queue[i + 1] = queue[j + 1]
    BY <1>2
  <2> QED  BY <2>1 DEF Rows
<1>4. \A b : b # running /\ Queued(queue, b) => Queued(queue', b)
  <2> SUFFICES ASSUME NEW b, b # running, NEW i \in 1..Len(queue), queue[i] = b
               PROVE  Queued(queue', b)
    BY DEF Queued
  <2>1. i # 1 /\ i - 1 \in 1..Len(queue') /\ queue'[i - 1] = b
    <3>1. i # 1
      BY <1>2
    <3>2. i - 1 \in 1..Len(queue')
      BY <1>2, <3>1
    <3>3. queue'[i - 1] = queue[(i - 1) + 1] /\ (i - 1) + 1 = i
      BY <1>2, <3>2
    <3> QED  BY <3>1, <3>2, <3>3
  <2> QED  BY <2>1 DEF Queued
<1> QED  BY <1>1, <1>2, <1>3, <1>4 DEF Rows

\* The places of Catalogue are those of albums.
LEMMA PlacesAreAlbums == \A n \in DOMAIN Catalogue : Catalogue[n] \in Scheduler!Albums
BY DEF Scheduler!Albums, Scheduler!Range

\* What is chosen is among the new albums, and the fresh ones go first.
LEMMA ChosenAreNew ==
    ASSUME NEW n \in Scheduler!Limited(Scheduler!FreshFirst(Scheduler!NewAlbums))
    PROVE  /\ n \in Scheduler!NewAlbums
           /\ age[Catalogue[n]] # Scheduler!Never =>
                 \A m \in Scheduler!NewAlbums : age[Catalogue[m]] # Scheduler!Never
<1>1. n \in Scheduler!FreshFirst(Scheduler!NewAlbums)
  BY DEF Scheduler!Limited
<1> QED  BY <1>1 DEF Scheduler!FreshFirst

-----------------------------------------------------------------------------
(* A step of the scheduler, or of the queue's thread, keeps the types. *)

LEMMA UserTypes ==
    ASSUME SchedulerAssumption, Types, NEW a \in Scheduler!Albums,
           Scheduler!Request(a) \/ Scheduler!Wanted(a) \/ Scheduler!Refresh(a)
    PROVE  Types'
<1> USE DEF Scheduler!history, Scheduler!check
<1>1. Rows'
  BY EnqueueRows DEF Types, Rows, Scheduler!Request, Scheduler!Wanted, Scheduler!Refresh
<1>2. Tables' /\ Switches'
  BY DEF Types, Tables, Switches, Scheduler!Request, Scheduler!Wanted, Scheduler!Refresh
<1>3. requests' \in 0..MaxRequests
  BY DEF Types, Sets, Scheduler!Request, Scheduler!Wanted, Scheduler!Refresh,
         SchedulerAssumption, Scheduler!LimitsAssumption
<1>4. Sets'
  BY <1>3 DEF Types, Sets, Scheduler!Request, Scheduler!Wanted, Scheduler!Refresh
<1> QED  BY <1>1, <1>2, <1>4 DEF Types

LEMMA TickTypes == SchedulerAssumption /\ Types /\ Scheduler!Tick => Types'
<1> SUFFICES ASSUME SchedulerAssumption, Types, Scheduler!Tick PROVE Types'
  OBVIOUS
<1>1. Scheduler!Old \in Nat /\ Scheduler!Never = Scheduler!Old + 1 /\ MaxWait \in Nat
  BY DEF SchedulerAssumption, Scheduler!LimitsAssumption, Scheduler!Never, Scheduler!Old,
         Scheduler!Lookback
<1>2. age \in [Scheduler!Albums -> 0..Scheduler!Never] /\ since \in [Scheduler!Albums -> 0..MaxWait]
  BY DEF Types, Tables
<1>3. /\ age' \in [Scheduler!Albums -> 0..Scheduler!Never]
      /\ since' \in [Scheduler!Albums -> 0..MaxWait]
  BY <1>1, <1>2 DEF Scheduler!Tick
<1>4. Rows' /\ Sets' /\ Switches'
  BY DEF Types, Rows, Sets, Switches, Scheduler!Tick
<1>5. Tables'
  BY <1>3 DEF Types, Tables, Scheduler!Tick
<1> QED  BY <1>4, <1>5 DEF Types

LEMMA CheckTypes == SchedulerAssumption /\ Types /\ Scheduler!Check => Types'
<1> SUFFICES ASSUME SchedulerAssumption, Types, Scheduler!Check PROVE Types'
  OBVIOUS
<1> USE DEF Scheduler!history, Scheduler!check
<1>1. CASE Scheduler!CheckSkipped \/ Scheduler!ReadMissing \/ Scheduler!ReadHistory
           \/ Scheduler!CheckDone
  <2>1. UNCHANGED <<missing, queue, running, forced, requests, age, failures, since, auto,
                  reported>>
    BY <1>1 DEF Scheduler!CheckSkipped, Scheduler!ReadMissing, Scheduler!ReadHistory,
                Scheduler!CheckDone
  <2>2. Rows' /\ Tables' /\ Switches'
    BY <2>1 DEF Types, Rows, Tables, Switches
  <2>3. Sets'
    BY <1>1, <2>1 DEF Types, Sets, Scheduler!CheckSkipped, Scheduler!ReadMissing,
                Scheduler!ReadHistory, Scheduler!CheckDone, Scheduler!CheckEnds
  <2> QED  BY <2>2, <2>3 DEF Types
<1>2. CASE Scheduler!Choose
  <2>1. UNCHANGED <<missing, queue, running, forced, requests, age, failures, since, auto>>
    BY <1>2 DEF Scheduler!Choose
  <2>2. Rows' /\ Tables' /\ Switches'
    BY <2>1 DEF Types, Rows, Tables, Switches
  <2> DEFINE chosen == Scheduler!Limited(Scheduler!FreshFirst(Scheduler!NewAlbums))
  <2>3. chosen \subseteq DOMAIN Catalogue
    BY ChosenAreNew DEF Scheduler!NewAlbums
  <2>4. {Catalogue[n] : n \in chosen} \subseteq Scheduler!Albums
    BY <2>3, PlacesAreAlbums
  <2>5. \/ /\ todo' = chosen /\ pc' = "enqueue"
           /\ UNCHANGED <<listed, recent, raced, reported>>
        \/ /\ reported' \in {reported, {Catalogue[n] : n \in chosen}}
           /\ Scheduler!CheckEnds
    BY <1>2 DEF Scheduler!Choose
  <2> HIDE DEF chosen
  <2>6. Sets'
    BY <2>1, <2>3, <2>4, <2>5 DEF Types, Sets, Scheduler!CheckEnds
  <2> QED  BY <2>2, <2>6 DEF Types
<1>3. CASE Scheduler!QueueNext
  <2>1. PICK n \in todo : Scheduler!QueueAlbum(n)
    BY <1>3 DEF Scheduler!QueueNext
  <2>2. Catalogue[n] \in Scheduler!Albums
    BY PlacesAreAlbums DEF Types, Sets
  <2>3. Scheduler!EnqueueAlbum(Catalogue[n]) /\ running' = running
    BY <2>1 DEF Scheduler!QueueAlbum
  <2>4. Rows'
    BY <2>2, <2>3, EnqueueRows DEF Types
  <2>5. Tables' /\ Switches' /\ Sets'
    BY <2>1 DEF Types, Tables, Switches, Sets, Scheduler!QueueAlbum
  <2> QED  BY <2>4, <2>5 DEF Types
<1> QED  BY <1>1, <1>2, <1>3 DEF Scheduler!Check

LEMMA StartTypes == Types /\ Scheduler!StartAlbum => Types'
<1> SUFFICES ASSUME Types, Scheduler!StartAlbum PROVE Types'
  OBVIOUS
<1>1. queue \in Seq(Scheduler!Albums) /\ queue # <<>> /\ Head(queue) \in Scheduler!Albums
  BY DEF Types, Rows, Scheduler!StartAlbum
<1>2. Rows'
  BY <1>1 DEF Types, Rows, Scheduler!StartAlbum
<1>3. Tables'
  BY DEF Types, Tables, Scheduler!StartAlbum, Scheduler!history
<1>4. Sets'
  BY <1>1 DEF Types, Sets, Scheduler!StartAlbum
<1>5. auto' = auto
  BY DEF Scheduler!StartAlbum
<1>6. Switches'
  BY <1>5 DEF Types, Switches
<1> QED  BY <1>2, <1>3, <1>4, <1>6 DEF Types

\* An album that ends is attempted now; the others' histories stay.
LEMMA EndHistory ==
    ASSUME SchedulerAssumption, Types, Scheduler!Ends
    PROVE  /\ running # NoAlbum /\ running \in Scheduler!Albums /\ Scheduler!AlbumEnds
           /\ age' = [age EXCEPT ![running] = 0]
           /\ Tables'
<1>1. running # NoAlbum /\ Scheduler!AlbumEnds /\ running \in Scheduler!Albums
  BY DEF Scheduler!Ends, Scheduler!AlbumSkipped, Scheduler!AlbumFails, Scheduler!AlbumDone,
         Types, Rows
<1>2. age' = [age EXCEPT ![running] = 0]
  BY <1>1 DEF Scheduler!AlbumEnds
<1>3. Scheduler!Never \in Nat /\ MaxWait \in Nat
  BY DEF SchedulerAssumption, Scheduler!LimitsAssumption, Scheduler!Never, Scheduler!Old,
         Scheduler!Lookback
<1>4. since' \in [Scheduler!Albums -> 0..MaxWait]
  BY <1>1, <1>3 DEF Types, Tables, Scheduler!Ends, Scheduler!AlbumSkipped, Scheduler!AlbumFails,
         Scheduler!AlbumDone, Scheduler!SinceAfterSkip
<1>5. failures' \in [Scheduler!Albums -> Nat]
  BY <1>1, <1>3 DEF Types, Tables, Scheduler!Ends, Scheduler!AlbumSkipped, Scheduler!AlbumFails,
         Scheduler!AlbumDone
<1>6. age' \in [Scheduler!Albums -> 0..Scheduler!Never]
  <2>1. 0 \in 0..Scheduler!Never
    BY <1>3
  <2> QED  BY <1>1, <1>2, <2>1 DEF Types, Tables
<1> QED  BY <1>1, <1>2, <1>4, <1>5, <1>6 DEF Tables

LEMMA EndsTypes == SchedulerAssumption /\ Types /\ Scheduler!Ends => Types'
<1> SUFFICES ASSUME SchedulerAssumption, Types, Scheduler!Ends PROVE Types'
  OBVIOUS
<1>1. Rows'
  BY EndHistory, LeaveRows DEF Types
<1>2. Sets' /\ Switches'
  BY EndHistory DEF Types, Sets, Switches, Scheduler!AlbumEnds, Scheduler!check
<1> QED  BY <1>1, <1>2, EndHistory DEF Types

LEMMA TypesStep ==
    SchedulerAssumption /\ Types /\ [Scheduler!Next]_Scheduler!vars => Types'
<1> SUFFICES ASSUME SchedulerAssumption, Types, UNCHANGED Scheduler!vars PROVE Types'
  BY UserTypes, TickTypes, CheckTypes, StartTypes, EndsTypes DEF Scheduler!Next
<1> QED  BY DEF Types, Rows, Tables, Sets, Switches, Scheduler!vars, Scheduler!history,
                Scheduler!check

\* Type correctness of the scheduler; with Rows, the queue lists no album twice.
THEOREM SchedulerTypes == SchedulerAssumption => (Scheduler!Spec => []Scheduler!TypeOK)
<1> SUFFICES ASSUME SchedulerAssumption PROVE Scheduler!Spec => []Scheduler!TypeOK
  OBVIOUS
<1>1. Scheduler!Init => Types
  BY TypesInit
<1>2. Types /\ [Scheduler!Next]_Scheduler!vars => Types'
  BY TypesStep
<1> QED  BY <1>1, <1>2, TypesImplyTypeOK, PTL DEF Scheduler!Spec

-----------------------------------------------------------------------------
(* When albums are queued again. *)

Rested(a) == age[a] >= Cooldown \/ a \in raced

\* What the check may still choose, or has chosen, is past its cooldown.
Spaced ==
    /\ pc = "queue" => \A a \in Scheduler!Albums \ recent : Rested(a)
    /\ pc = "enqueue" => \A n \in todo : Rested(Catalogue[n])

\* Albums never tried are not left out as recent, and a retry is chosen only when
\* those that the check knows are queued.
FreshKept ==
    /\ pc = "queue" => \A a \in recent : age[a] # Scheduler!Never
    /\ pc = "enqueue"
       /\ (\E n \in todo : age[Catalogue[n]] # Scheduler!Never /\ Catalogue[n] \notin raced)
       => \A b \in listed : age[b] = Scheduler!Never => Queued(queue, b)

Choosing == Types /\ Raced /\ Spaced /\ FreshKept

LEMMA ChoosingInit == SchedulerAssumption /\ Scheduler!Init => Choosing
BY TypesInit DEF Choosing, Raced, Spaced, FreshKept, Scheduler!Init

LEMMA AgeTypes ==
    ASSUME SchedulerAssumption, Types
    PROVE  /\ Scheduler!Never \in Nat \ {0} /\ Cooldown \in Nat
           /\ Cooldown < Scheduler!Never /\ Scheduler!Lookback < Scheduler!Never
           /\ Scheduler!Lookback \in Nat
           /\ \A a \in Scheduler!Albums : age[a] \in Nat
<1>1. /\ Scheduler!Never \in Nat \ {0} /\ Cooldown \in Nat
      /\ Cooldown < Scheduler!Never /\ Scheduler!Lookback < Scheduler!Never
      /\ Scheduler!Lookback \in Nat
  BY DEF SchedulerAssumption, Scheduler!LimitsAssumption, Scheduler!Never, Scheduler!Old,
         Scheduler!Lookback
<1>2. \A x \in 0..Scheduler!Never : x \in Nat
  BY <1>1
<1>3. \A a \in Scheduler!Albums : age[a] \in 0..Scheduler!Never
  BY DEF Types, Tables
<1> QED  BY <1>1, <1>2, <1>3

\* Outside a check nothing is claimed.
LEMMA NoChoice == ASSUME pc' \in {"off", "due"} PROVE Raced' /\ Spaced' /\ FreshKept'
BY DEF Raced, Spaced, FreshKept

\* While the check and the histories stand still, the queue may grow.
LEMMA QueueGrows ==
    ASSUME Raced, Spaced, FreshKept, UNCHANGED <<running, age, pc, listed, recent, raced>>,
           todo' \subseteq todo, \A b : Queued(queue, b) => Queued(queue', b)
    PROVE  Raced' /\ Spaced' /\ FreshKept'
<1>1. Raced' /\ Spaced'
  BY DEF Raced, Spaced, Rested
<1>2. FreshKept'
  BY DEF FreshKept
<1> QED  BY <1>1, <1>2

LEMMA UserChoosing ==
    ASSUME SchedulerAssumption, Choosing, NEW a \in Scheduler!Albums,
           Scheduler!Request(a) \/ Scheduler!Wanted(a) \/ Scheduler!Refresh(a)
    PROVE  Choosing'
<1>1. UNCHANGED <<running, age, pc, listed, recent, raced, todo>>
  BY DEF Scheduler!Request, Scheduler!Wanted, Scheduler!Refresh, Scheduler!history,
         Scheduler!check
<1>2. \A b : Queued(queue, b) => Queued(queue', b)
  <2>1. CASE Scheduler!Request(a)
    BY <2>1, EnqueueRows DEF Scheduler!Request, Choosing, Types
  <2>2. CASE Scheduler!Wanted(a) \/ Scheduler!Refresh(a)
    BY <2>2 DEF Scheduler!Wanted, Scheduler!Refresh
  <2> QED  BY <2>1, <2>2
<1>3. Raced' /\ Spaced' /\ FreshKept'
  BY <1>1, <1>2, QueueGrows DEF Choosing
<1> QED  BY <1>3, UserTypes DEF Choosing

LEMMA ReadHistoryChoosing ==
    ASSUME SchedulerAssumption, Choosing, Scheduler!ReadHistory
    PROVE  Raced' /\ Spaced' /\ FreshKept'
<1>1. /\ recent' = {a \in Scheduler!Albums : Scheduler!Attempted(a)}
      /\ pc = "history" /\ pc' = "queue"
      /\ UNCHANGED <<queue, running, age, raced>>
  BY DEF Scheduler!ReadHistory, Scheduler!history
<1>2. Raced'
  BY <1>1 DEF Choosing, Raced
<1>3. ASSUME NEW a \in Scheduler!Albums \ recent' PROVE age[a] >= Cooldown
  BY <1>1, <1>3, AgeTypes DEF Choosing, Scheduler!Attempted
<1>4. ASSUME NEW a \in recent' PROVE age[a] # Scheduler!Never
  BY <1>1, <1>4, AgeTypes DEF Choosing, Scheduler!Attempted
<1>5. Spaced'
  BY <1>1, <1>3 DEF Spaced, Rested
<1>6. FreshKept'
  BY <1>1, <1>4 DEF FreshKept
<1> QED  BY <1>2, <1>5, <1>6

LEMMA ChooseChoosing ==
    ASSUME SchedulerAssumption, Choosing, Scheduler!Choose
    PROVE  Raced' /\ Spaced' /\ FreshKept'
<1> DEFINE chosen == Scheduler!Limited(Scheduler!FreshFirst(Scheduler!NewAlbums))
<1>1. pc = "queue" /\ UNCHANGED <<queue, running, age>>
  BY DEF Scheduler!Choose, Scheduler!history
<1>2. \/ pc' = "off"
      \/ todo' = chosen /\ pc' = "enqueue" /\ UNCHANGED <<listed, recent, raced>>
  BY DEF Scheduler!Choose, Scheduler!CheckEnds
<1>3. CASE pc' = "off"
  BY <1>3, NoChoice
<1>4. CASE todo' = chosen /\ pc' = "enqueue" /\ UNCHANGED <<listed, recent, raced>>
  <2>1. Raced'
    BY <1>1, <1>4 DEF Choosing, Raced
  <2>2. ASSUME NEW n \in todo'
        PROVE  n \in DOMAIN Catalogue /\ Catalogue[n] \in Scheduler!Albums \ recent
    BY <1>4, <2>2, ChosenAreNew, PlacesAreAlbums DEF Scheduler!NewAlbums
  <2>3. Spaced'
    BY <1>1, <1>4, <2>2 DEF Choosing, Spaced, Rested
  <2>4. ASSUME NEW n \in todo', age[Catalogue[n]] # Scheduler!Never,
               NEW b \in listed, age[b] = Scheduler!Never
        PROVE  Queued(queue, b)
    <3>1. \A m \in Scheduler!NewAlbums : age[Catalogue[m]] # Scheduler!Never
      BY <1>4, <2>4, ChosenAreNew
    <3>2. PICK m \in DOMAIN Catalogue : Catalogue[m] = b
      BY DEF Choosing, Types, Sets, Scheduler!Albums, Scheduler!Range
    <3>3. m \notin Scheduler!NewAlbums
      BY <2>4, <3>1, <3>2
    <3>4. b \notin recent
      BY <1>1, <2>4 DEF Choosing, FreshKept
    <3>5. Scheduler!Contains(queue, b) \/ b = running
      BY <3>2, <3>3, <3>4 DEF Scheduler!NewAlbums
    <3>6. ASSUME b = running PROVE Queued(queue, b)
      <4>1. b # NoAlbum
        BY DEF Choosing, Types, Sets, SchedulerAssumption, Scheduler!CatalogueAssumption
      <4>2. queue \in Seq(Scheduler!Albums) /\ queue # <<>> /\ Head(queue) = b
        BY <3>6, <4>1 DEF Choosing, Types, Rows
      <4>3. 1 \in 1..Len(queue) /\ queue[1] = b
        BY <4>2
      <4> QED  BY <4>3 DEF Queued
    <3> QED  BY <3>5, <3>6 DEF Scheduler!Contains, Queued
  <2>5. FreshKept'
    BY <1>1, <1>4, <2>4 DEF FreshKept
  <2> QED  BY <2>1, <2>3, <2>5
<1> QED  BY <1>2, <1>3, <1>4

LEMMA QueueNextChoosing ==
    ASSUME SchedulerAssumption, Choosing, Scheduler!QueueNext
    PROVE  Raced' /\ Spaced' /\ FreshKept'
<1>1. PICK n \in todo : Scheduler!QueueAlbum(n)
  BY DEF Scheduler!QueueNext
<1>2. /\ UNCHANGED <<running, age, pc, listed, recent, raced>>
      /\ todo' \subseteq todo
      /\ Scheduler!EnqueueAlbum(Catalogue[n])
  BY <1>1 DEF Scheduler!QueueAlbum, Scheduler!history
<1>3. Catalogue[n] \in Scheduler!Albums
  BY PlacesAreAlbums DEF Choosing, Types, Sets
<1>4. \A b : Queued(queue, b) => Queued(queue', b)
  BY <1>2, <1>3, EnqueueRows DEF Choosing, Types
<1> QED  BY <1>2, <1>4, QueueGrows DEF Choosing

LEMMA CheckChoosing == SchedulerAssumption /\ Choosing /\ Scheduler!Check => Choosing'
<1> SUFFICES ASSUME SchedulerAssumption, Choosing, Scheduler!Check PROVE Choosing'
  OBVIOUS
<1>1. CASE Scheduler!CheckSkipped \/ Scheduler!CheckDone
  BY <1>1, NoChoice, CheckTypes DEF Choosing, Scheduler!CheckSkipped, Scheduler!CheckDone,
            Scheduler!CheckEnds
<1>2. CASE Scheduler!ReadMissing
  <2>1. Raced' /\ Spaced' /\ FreshKept'
    BY <1>2 DEF Scheduler!ReadMissing, Raced, Spaced, FreshKept
  <2> QED  BY <2>1, CheckTypes DEF Choosing
<1> QED  BY <1>1, <1>2, ReadHistoryChoosing, ChooseChoosing, QueueNextChoosing, CheckTypes
         DEF Scheduler!Check, Choosing

LEMMA StartChoosing == SchedulerAssumption /\ Choosing /\ Scheduler!StartAlbum => Choosing'
<1> SUFFICES ASSUME Choosing, Scheduler!StartAlbum
             PROVE  Raced' /\ Spaced' /\ FreshKept'
  BY StartTypes DEF Choosing
<1>1. /\ UNCHANGED <<queue, age, pc, listed, recent, todo>>
      /\ running' = Head(queue) /\ raced \subseteq raced'
      /\ pc \notin {"off", "due"} => Head(queue) \in raced'
  BY DEF Scheduler!StartAlbum, Scheduler!history
<1>2. Raced' /\ Spaced'
  BY <1>1 DEF Choosing, Raced, Spaced, Rested
<1>3. FreshKept'
  BY <1>1 DEF Choosing, FreshKept
<1> QED  BY <1>2, <1>3

\* An album that ends during the check is one it expects in the race.
LEMMA EndsChoosing == SchedulerAssumption /\ Choosing /\ Scheduler!Ends => Choosing'
<1> SUFFICES ASSUME SchedulerAssumption, Choosing, Scheduler!Ends
             PROVE  Raced' /\ Spaced' /\ FreshKept'
  BY EndsTypes DEF Choosing
<1>1. /\ running # NoAlbum /\ running \in Scheduler!Albums /\ Scheduler!AlbumEnds
      /\ age' = [age EXCEPT ![running] = 0]
      /\ \A b : b # running /\ Queued(queue, b) => Queued(queue', b)
  BY EndHistory, LeaveRows DEF Choosing, Types
<1>2. /\ running' = NoAlbum /\ UNCHANGED <<pc, listed, recent, todo, raced>>
  BY <1>1 DEF Scheduler!AlbumEnds, Scheduler!check
<1>3. /\ \A a \in Scheduler!Albums : a # running => age'[a] = age[a]
      /\ age'[running] = 0 /\ Scheduler!Never # 0
  BY <1>1, AgeTypes DEF Choosing, Types, Tables
<1>4. Raced'
  BY <1>2 DEF Raced
<1>5. pc \in {"queue", "enqueue"} => running \in raced
  BY <1>1 DEF Choosing, Raced
<1>6. \A n \in todo : Catalogue[n] \in Scheduler!Albums
  BY PlacesAreAlbums DEF Choosing, Types, Sets
<1>7. Spaced'
  BY <1>2, <1>3, <1>5, <1>6 DEF Choosing, Spaced, Rested
<1>8. recent \subseteq Scheduler!Albums /\ listed \subseteq Scheduler!Albums
  BY DEF Choosing, Types, Sets
<1>9. pc' = "queue" => \A a \in recent' : age'[a] # Scheduler!Never
  BY <1>2, <1>3, <1>8 DEF Choosing, FreshKept
<1>10. ASSUME pc' = "enqueue", NEW n \in todo', age'[Catalogue[n]] # Scheduler!Never,
              Catalogue[n] \notin raced', NEW b \in listed', age'[b] = Scheduler!Never
       PROVE  Queued(queue', b)
  <2>1. Catalogue[n] # running /\ b # running
    BY <1>2, <1>3, <1>5, <1>10
  <2>2. age[Catalogue[n]] # Scheduler!Never /\ age[b] = Scheduler!Never
    BY <1>2, <1>3, <1>6, <1>8, <1>10, <2>1
  <2>3. Queued(queue, b)
    BY <1>2, <1>10, <2>2 DEF Choosing, FreshKept
  <2> QED  BY <1>1, <2>1, <2>3
<1>11. FreshKept'
  BY <1>9, <1>10 DEF FreshKept
<1> QED  BY <1>4, <1>7, <1>11

LEMMA ChoosingStep ==
    SchedulerAssumption /\ Choosing /\ [Scheduler!Next]_Scheduler!vars => Choosing'
<1> SUFFICES ASSUME SchedulerAssumption, Choosing, [Scheduler!Next]_Scheduler!vars
             PROVE  Choosing'
  OBVIOUS
<1>1. CASE Scheduler!Tick
  BY <1>1, NoChoice, TypesStep DEF Choosing, Scheduler!Tick, Scheduler!Next
<1>2. CASE UNCHANGED Scheduler!vars
  <2>1. Raced' /\ Spaced' /\ FreshKept'
    BY <1>2, QueueGrows DEF Choosing, Scheduler!vars, Scheduler!history, Scheduler!check
  <2> QED  BY <2>1, TypesStep DEF Choosing
<1> QED  BY <1>1, <1>2, UserChoosing, CheckChoosing, StartChoosing, EndsChoosing
         DEF Scheduler!Next

\* What the check queues was chosen.
LEMMA QueuesChosen ==
    ASSUME NEW a \in Scheduler!Albums, Scheduler!Queues(a)
    PROVE  /\ pc = "enqueue" /\ ~ Queued(queue, a)
           /\ \E n \in todo : Catalogue[n] = a
BY DEF Scheduler!Queues, Scheduler!QueueAlbum, Scheduler!Contains, Queued

\* Whatever ends or starts between the readings of a check, an album is not queued
\* again before its cooldown is over, unless it ran during the check.
THEOREM SpacedTheorem == SchedulerAssumption => (Scheduler!Spec => Scheduler!RetriesSpaced)
<1> SUFFICES ASSUME SchedulerAssumption PROVE Scheduler!Spec => Scheduler!RetriesSpaced
  OBVIOUS
<1>1. Scheduler!Init => Choosing
  BY ChoosingInit
<1>2. Choosing /\ [Scheduler!Next]_Scheduler!vars => Choosing'
  BY ChoosingStep
<1>3. Choosing /\ [Scheduler!Next]_Scheduler!vars =>
        [\A a \in Scheduler!Albums :
           Scheduler!Queues(a) => age[a] >= Cooldown \/ a \in raced]_Scheduler!vars
  BY QueuesChosen DEF Choosing, Spaced, Rested
<1> QED  BY <1>1, <1>2, <1>3, PTL DEF Scheduler!Spec, Scheduler!RetriesSpaced

\* Albums that always fail do not crowd out those never tried.
THEOREM FreshTheorem == SchedulerAssumption => (Scheduler!Spec => Scheduler!FreshBeforeRetries)
<1> SUFFICES ASSUME SchedulerAssumption PROVE Scheduler!Spec => Scheduler!FreshBeforeRetries
  OBVIOUS
<1>1. Scheduler!Init => Choosing
  BY ChoosingInit
<1>2. Choosing /\ [Scheduler!Next]_Scheduler!vars => Choosing'
  BY ChoosingStep
<1>3. ASSUME Choosing, NEW a \in Scheduler!Albums, NEW b \in Scheduler!Albums,
             Scheduler!Queues(a), age[a] # Scheduler!Never, a \notin raced,
             b \in listed, age[b] = Scheduler!Never
      PROVE  Scheduler!Contains(queue, b)
  <2>1. Queued(queue, b)
    BY <1>3, QueuesChosen DEF Choosing, FreshKept
  <2> QED  BY <2>1 DEF Queued, Scheduler!Contains
<1>4. Choosing /\ [Scheduler!Next]_Scheduler!vars =>
        [\A a, b \in Scheduler!Albums :
           Scheduler!Queues(a) /\ age[a] # Scheduler!Never /\ a \notin raced /\ b \in listed
             /\ age[b] = Scheduler!Never
           => Scheduler!Contains(queue, b)]_Scheduler!vars
  BY <1>3
<1> QED  BY <1>1, <1>2, <1>4, PTL DEF Scheduler!Spec, Scheduler!FreshBeforeRetries

-----------------------------------------------------------------------------
(* The limit of a check. *)

\* The relation of module WellFoundedInduction is that of the numbers.
LEMMA LessRelation == \A x, y \in Nat : <<x, y>> \in OpToRel(<, Nat) <=> x < y
BY DEF OpToRel

LEMMA LessWellFounded ==
    \E R : IsWellFoundedOn(R, Nat) /\ \A x, y \in Nat : <<x, y>> \in R <=> x < y
BY NatLessThanWellFounded, LessRelation, Zenon

LEMMA LeastExists ==
    ASSUME NEW S, S \subseteq Nat, S # {}
    PROVE  \E x \in S : \A y \in S : x <= y
<1>1. PICK R : IsWellFoundedOn(R, Nat) /\ \A x, y \in Nat : <<x, y>> \in R <=> x < y
  BY LessWellFounded
<1>2. IsWellFoundedOn(R, Nat)
  BY <1>1
<1>3. PICK x \in S : \A y \in S : ~ (<<y, x>> \in R)
  BY <1>2, WFMin
<1>4. \A y \in S : ~ (y < x)
  BY <1>1, <1>3
<1>5. x \in Nat /\ \A y \in S : y \in Nat
  BY <1>3
<1>6. \A y \in S : x <= y
  BY <1>4, <1>5
<1> QED  BY <1>6

LEMMA PlacesFinite ==
    ASSUME NEW N \in Nat, NEW P \in SUBSET (1 .. N)
    PROVE  IsFiniteSet(P) /\ Cardinality(P) \in Nat
<1>1. 1 \in Int /\ N \in Int
  OBVIOUS
<1>2. IsFiniteSet(1 .. N)
  BY <1>1, FS_Interval, Zenon
<1> QED  BY <1>2, FS_Subset, FS_CardinalityType

\* The places of a set can be counted off: before one of them there are k - 1.
LEMMA CountedOff ==
    ASSUME NEW N \in Nat, NEW P \in SUBSET (1 .. N), NEW k \in 1 .. Cardinality(P)
    PROVE  \E n \in P : Cardinality({m \in P : m < n}) = k - 1
<1> DEFINE Below(x) == {m \in P : m < x}
           Far == {x \in Nat : Cardinality(Below(x)) >= k}
<1>0. \A m \in P : m \in Nat /\ 0 < m /\ m < N + 1
  OBVIOUS
<1>1. IsFiniteSet(P) /\ Cardinality(P) \in Nat
  BY PlacesFinite
<1>2. ASSUME NEW x \in Nat PROVE IsFiniteSet(Below(x)) /\ Cardinality(Below(x)) \in Nat
  <2>1. Below(x) \in SUBSET P
    OBVIOUS
  <2> QED  BY <1>1, <2>1, FS_Subset, FS_CardinalityType
<1>3. ASSUME NEW x \in Nat
      PROVE  Cardinality(Below(x + 1)) =
               IF x \in P THEN Cardinality(Below(x)) + 1 ELSE Cardinality(Below(x))
  <2>0. \A m \in P : m < x + 1 <=> m < x \/ m = x
    BY <1>0
  <2>1. CASE x \in P
    <3>1. Below(x + 1) = Below(x) \union {x}
      BY <2>0, <2>1
    <3>2. x \notin Below(x)
      OBVIOUS
    <3> HIDE DEF Below
    <3> QED  BY <1>2, <2>1, <3>1, <3>2, FS_AddElement
  <2>2. CASE x \notin P
    <3>1. Below(x + 1) = Below(x)
      BY <2>0, <2>2
    <3> QED  BY <2>2, <3>1
  <2> QED  BY <2>1, <2>2
<1>4. N + 1 \in Far
  <2>1. Below(N + 1) = P
    BY <1>0
  <2>2. Cardinality(P) >= k
    BY <1>1
  <2> HIDE DEF Below
  <2>3. Cardinality(Below(N + 1)) >= k /\ N + 1 \in Nat
    BY <2>1, <2>2
  <2> QED  BY <2>3
<1>5. PICK x \in Far : \A y \in Far : x <= y
  BY <1>4, LeastExists
<1>6. x # 0
  <2>1. \A m \in P : ~ (m < 0)
    BY <1>0
  <2>2. Below(0) = {}
    BY <2>1
  <2>3. Cardinality(Below(0)) = 0
    BY <2>2, FS_EmptySet
  <2> QED  BY <2>3
<1> DEFINE n == x - 1
<1>7. n \in Nat /\ n + 1 = x /\ n \notin Far
  BY <1>5, <1>6
<1> HIDE DEF Below
<1>8. Cardinality(Below(n)) < k /\ Cardinality(Below(n + 1)) >= k
  BY <1>2, <1>5, <1>7
<1> HIDE DEF n
<1>9. n \in P /\ Cardinality(Below(n)) = k - 1
  BY <1>2, <1>3, <1>7, <1>8
<1> QED  BY <1>9 DEF Below

\* The places with fewer than K before them are the first K of P, or all of P.
LEMMA FirstPlaces ==
    ASSUME NEW N \in Nat, NEW P \in SUBSET (1 .. N), NEW K \in Nat \ {0},
           NEW L, L = {n \in P : Cardinality({m \in P : m < n}) < K}
    PROVE  /\ IsFiniteSet(L) /\ Cardinality(L) <= K
           /\ L = P \/ Cardinality(L) = K
           /\ \A n \in L, m \in P : m <= n => m \in L
<1> DEFINE Below(x) == {m \in P : m < x}
<1>1. IsFiniteSet(P) /\ Cardinality(P) \in Nat
  BY PlacesFinite
<1>2. \A m \in P : m \in Nat
  OBVIOUS
<1>3. ASSUME NEW x \in P, NEW y \in P, x <= y
      PROVE  /\ IsFiniteSet(Below(y)) /\ Cardinality(Below(y)) \in Nat
             /\ Cardinality(Below(x)) \in Nat
             /\ Cardinality(Below(x)) <= Cardinality(Below(y))
  <2>1. Below(y) \in SUBSET P
    OBVIOUS
  <2>2. Below(x) \in SUBSET Below(y)
    <3>1. \A z \in P : z < x => z < y
      BY <1>2, <1>3
    <3> QED  BY <3>1
  <2> HIDE DEF Below
  <2> QED  BY <1>1, <2>1, <2>2, FS_Subset, FS_CardinalityType
<1>4. ASSUME NEW x \in P, NEW y \in P, x < y
      PROVE  Cardinality(Below(x)) < Cardinality(Below(y))
  <2>1. Below(x) \in SUBSET Below(y)
    <3>1. \A z \in P : z < x => z < y
      BY <1>2, <1>4
    <3> QED  BY <3>1
  <2>2. x \in Below(y) /\ x \notin Below(x)
    BY <1>2, <1>4
  <2>3. /\ IsFiniteSet(Below(y)) /\ Cardinality(Below(y)) \in Nat
        /\ Cardinality(Below(x)) \in Nat
    BY <1>2, <1>3, <1>4
  <2> HIDE DEF Below
  <2>4. Cardinality(Below(x)) <= Cardinality(Below(y)) /\ Below(x) # Below(y)
    BY <2>1, <2>2, <2>3, FS_Subset
  <2>5. Cardinality(Below(x)) # Cardinality(Below(y))
    BY <2>1, <2>3, <2>4, FS_Subset
  <2> QED  BY <2>3, <2>4, <2>5
<1>5. \A n \in P : n \in L <=> Cardinality(Below(n)) < K
  OBVIOUS
<1>6. L \in SUBSET P /\ IsFiniteSet(L) /\ Cardinality(L) \in Nat
  <2>1. L \in SUBSET P
    OBVIOUS
  <2> QED  BY <1>1, <2>1, FS_Subset, FS_CardinalityType
<1> HIDE DEF Below
<1>7. ASSUME NEW n \in L, NEW m \in P, m <= n PROVE m \in L
  <2>1. n \in P /\ Cardinality(Below(n)) < K
    BY <1>5, <1>6
  <2>2. /\ Cardinality(Below(m)) <= Cardinality(Below(n))
        /\ Cardinality(Below(m)) \in Nat /\ Cardinality(Below(n)) \in Nat
    BY <1>3, <1>7, <2>1
  <2> QED  BY <1>5, <2>1, <2>2
<1>8. Cardinality(L) <= K /\ (L = P \/ Cardinality(L) = K)
  <2>1. CASE Cardinality(P) <= K
    <3>1. ASSUME NEW n \in P PROVE Cardinality(Below(n)) < K
      <4>1. Below(n) \in SUBSET P /\ n \notin Below(n)
        BY <1>2 DEF Below
      <4>2. Below(n) # P
        BY <4>1
      <4>3. /\ Cardinality(Below(n)) <= Cardinality(P)
            /\ Cardinality(Below(n)) # Cardinality(P)
            /\ Cardinality(Below(n)) \in Nat
        BY <1>1, <4>1, <4>2, FS_Subset, FS_CardinalityType
      <4> QED  BY <1>1, <2>1, <4>3
    <3>2. L = P
      BY <1>5, <1>6, <3>1
    <3> QED  BY <2>1, <3>2
  <2>2. CASE Cardinality(P) > K
    <3>1. K + 1 \in 1 .. Cardinality(P) /\ (K + 1) - 1 = K
      BY <1>1, <2>2
    <3>2. \E n \in P : Cardinality({m \in P : m < n}) = (K + 1) - 1
      BY <3>1, CountedOff
    <3>3. PICK n \in P : Cardinality(Below(n)) = K
      BY <3>1, <3>2 DEF Below
    <3>4. \A m \in P : m < n <=> m \in L
      <4>1. ASSUME NEW m \in P, m < n PROVE m \in L
        BY <1>4, <1>5, <3>3, <4>1
      <4>2. ASSUME NEW m \in P, ~ (m < n) PROVE m \notin L
        <5>1. n <= m
          BY <1>2, <4>2
        <5>2. Cardinality(Below(m)) \in Nat /\ K <= Cardinality(Below(m))
          BY <1>3, <3>3, <5>1
        <5> QED  BY <1>5, <5>2
      <4> QED  BY <4>1, <4>2
    <3>5. L = Below(n)
      BY <1>6, <3>4 DEF Below
    <3>6. Cardinality(L) = K
      BY <3>3, <3>5
    <3> QED  BY <3>6
  <2> QED  BY <1>1, <2>1, <2>2
<1> QED  BY <1>6, <1>7, <1>8

\* The instance counts as this module does.
LEMMA SameCardinality == \A S : Scheduler!Cardinality(S) = Cardinality(S)
BY DEF Scheduler!Cardinality, Cardinality

WithinLimit == MaxAlbums > 0 => Cardinality(todo) <= MaxAlbums

\* A check queues at most scheduler_max_albums albums, however many are missing.
THEOREM LimitTheorem == SchedulerAssumption => (Scheduler!Spec => []WithinLimit)
<1> SUFFICES ASSUME SchedulerAssumption PROVE Scheduler!Spec => []WithinLimit
  OBVIOUS
<1>1. MaxAlbums \in Nat /\ Catalogue \in Seq(Scheduler!Albums)
  BY DEF SchedulerAssumption, Scheduler!LimitsAssumption, Scheduler!CatalogueAssumption
<1>2. Len(Catalogue) \in Nat /\ DOMAIN Catalogue = 1 .. Len(Catalogue)
  BY <1>1
<1>3. Scheduler!Init => Types /\ WithinLimit
  <2>1. Scheduler!Init => todo = {}
    BY DEF Scheduler!Init
  <2>2. todo = {} => WithinLimit
    BY <1>1, FS_EmptySet DEF WithinLimit
  <2> QED  BY <2>1, <2>2, TypesInit
<1>4. Types /\ WithinLimit /\ [Scheduler!Next]_Scheduler!vars => (Types /\ WithinLimit)'
  <2> SUFFICES ASSUME Types, WithinLimit, [Scheduler!Next]_Scheduler!vars, MaxAlbums > 0
               PROVE  Cardinality(todo') <= MaxAlbums
    BY TypesStep DEF WithinLimit
  <2>1. todo \in SUBSET (1 .. Len(Catalogue)) /\ IsFiniteSet(todo)
    <3>1. todo \in SUBSET (1 .. Len(Catalogue))
      BY <1>2 DEF Types, Sets
    <3> QED  BY <1>2, <3>1, PlacesFinite
  <2>2. CASE Scheduler!Choose
    <3> DEFINE S == Scheduler!FreshFirst(Scheduler!NewAlbums)
    <3>1. todo' = Scheduler!Limited(S) \/ todo' = {}
      BY <2>2 DEF Scheduler!Choose, Scheduler!CheckEnds
    <3>2. S \in SUBSET (1 .. Len(Catalogue))
      BY <1>2 DEF Scheduler!FreshFirst, Scheduler!NewAlbums
    <3> HIDE DEF S
    <3>3. Scheduler!Limited(S) = {n \in S : Cardinality({m \in S : m < n}) < MaxAlbums}
      BY SameCardinality DEF Scheduler!Limited
    <3>4. MaxAlbums \in Nat \ {0}
      BY <1>1
    <3>5. Cardinality(Scheduler!Limited(S)) <= MaxAlbums
      BY <1>2, <3>2, <3>3, <3>4, FirstPlaces
    <3>6. Cardinality({}) = 0
      BY FS_EmptySet
    <3>7. CASE todo' = Scheduler!Limited(S)
      BY <3>5, <3>7
    <3>8. CASE todo' = {}
      BY <1>1, <3>6, <3>8
    <3> QED  BY <3>1, <3>7, <3>8
  <2>3. CASE todo' \in SUBSET todo
    <3>1. Cardinality(todo') <= Cardinality(todo) /\ Cardinality(todo) \in Nat
          /\ Cardinality(todo') \in Nat
      BY <2>1, <2>3, FS_Subset, FS_CardinalityType
    <3> QED  BY <1>1, <3>1 DEF WithinLimit
  <2>4. ~ Scheduler!Choose => todo' \in SUBSET todo
    BY DEF Scheduler!Next, Scheduler!Tick, Scheduler!Check, Scheduler!CheckSkipped,
           Scheduler!ReadMissing, Scheduler!ReadHistory, Scheduler!QueueNext,
           Scheduler!QueueAlbum, Scheduler!CheckDone, Scheduler!CheckEnds,
           Scheduler!StartAlbum, Scheduler!Ends, Scheduler!AlbumSkipped, Scheduler!AlbumFails,
           Scheduler!AlbumDone, Scheduler!AlbumEnds, Scheduler!Request, Scheduler!Wanted,
           Scheduler!Refresh, Scheduler!vars, Scheduler!check
  <2> QED  BY <2>2, <2>3, <2>4
<1> QED  BY <1>3, <1>4, PTL DEF Scheduler!Spec
=============================================================================
