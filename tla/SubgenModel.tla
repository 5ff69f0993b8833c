----------------------------- MODULE SubgenModel -----------------------------
(***************************************************************************)
(* When subgen loads the Whisper model and when it gives its memory back   *)
(* (src/stacks/subgen-r9/src/subgen.py), with CLEAR_VRAM_ON_COMPLETE.      *)
(* Workers, which take tasks from the queue (module DedupQueue), and       *)
(* detections, which use the model outside the queue, load it when they    *)
(* find none.  Whoever ends last starts a timer, and the timer unloads the *)
(* model if nothing is at work when it fires.                              *)
(***************************************************************************)
EXTENDS DedupQueue, FiniteSets

CONSTANTS
    Workers,      \* concurrent_transcriptions
    Detections,   \* requests to /detect-language
    Nobody,       \* holder of a lock that is free
    NoTask,       \* what an idle worker has
    MaxFailures   \* bound on loads and unloads of the model that fail

Users == Workers \union Detections
Task(id) == [id |-> id, kind |-> "asr"]

\* Timers are named by numbers; every end of a task or detection starts at most
\* one, so there are always enough.
MaxTimers == Cardinality(Ids) + Cardinality(Detections)
Timers == 1 .. MaxTimers
NoTimer == 0

ASSUME ModelAssumption ==
    /\ Workers \intersect Detections = {}
    /\ Nobody \notin Users \union Timers
    /\ NoTask \notin {Task(id) : id \in Ids}
    /\ IsFiniteSet(Ids) /\ IsFiniteSet(Detections)
    /\ MaxFailures \in Nat

VARIABLES
    waiting,   \* ids of the tasks that have not been submitted
    at,        \* at[u]: where a worker or a detection is
    task,      \* task[w]: the task of worker w
    model,     \* the global: "none", "loaded", "unloaded" (the object is there,
               \* its weights are not) or "undefined" (after del)
    loader,    \* holder of model_load_lock
    active,    \* active_direct_tasks
    timer,     \* timer[t]: where cleanup timer t is
    current,   \* model_cleanup_timer
    cleaner,   \* holder of model_cleanup_lock
    failures   \* ghost: failed loads and unloads so far

modelVars == <<model, loader, failures>>
timerVars == <<timer, current, cleaner>>
vars == <<queueVars, waiting, at, task, active, modelVars, timerVars>>

Init ==
    /\ QueueInit
    /\ waiting = Ids
    /\ at = [u \in Users |-> IF u \in Workers THEN "idle" ELSE "new"]
    /\ task = [w \in Workers |-> NoTask]
    /\ model = "none"
    /\ loader = Nobody
    /\ active = 0
    /\ timer = [t \in Timers |-> "off"]
    /\ current = NoTimer
    /\ cleaner = Nobody
    /\ failures = 0

Move(u, from, to) ==
    /\ at[u] = from
    /\ at' = [at EXCEPT ![u] = to]

-----------------------------------------------------------------------------
(* Work comes and goes.                                                    *)

Submit(id) ==
    /\ id \in waiting
    /\ waiting' = waiting \ {id}
    /\ QPut(Task(id))
    /\ UNCHANGED <<at, task, active, modelVars, timerVars>>

Pop(w) ==
    /\ Move(w, "idle", "popped")
    /\ \E p \in Priorities :
          /\ QPop(p)
          /\ task' = [task EXCEPT ![w] = Head(heap[p])]
    /\ UNCHANGED <<waiting, active, modelVars, timerVars>>

Take(w) ==
    /\ Move(w, "popped", "starting")
    /\ QTake(task[w])
    /\ UNCHANGED <<waiting, task, active, modelVars, timerVars>>

\* A mutant of Detect: the detection is not counted.
DetectUncounted(d) ==
    /\ Move(d, "new", "starting")
    /\ UNCHANGED <<queueVars, waiting, task, active, modelVars, timerVars>>

Detect(d) ==
    /\ Move(d, "new", "starting")
    /\ active' = active + 1
    /\ UNCHANGED <<queueVars, waiting, task, modelVars, timerVars>>

MarkDone(w) ==
    /\ Move(w, "served", "leaving")
    /\ QMarkDone(task[w])
    /\ UNCHANGED <<waiting, task, active, modelVars, timerVars>>

DetectionDone(d) ==
    /\ d \in Detections
    /\ Move(d, "ending", "leaving")
    /\ active' = active - 1
    /\ UNCHANGED <<queueVars, waiting, task, modelVars, timerVars>>

-----------------------------------------------------------------------------
(* Using the model: start_model, then model.transcribe.                    *)

\* A mutant of StartModel: without model_load_lock.
StartUnlocked(u) ==
    /\ \/ /\ model = "none"
          /\ Move(u, "starting", "loading")
       \/ /\ model # "none"
          /\ Move(u, "starting", "ready")
    /\ UNCHANGED <<queueVars, waiting, task, active, modelVars, timerVars>>

\* A name that is not defined raises.
StartModel(u) ==
    /\ loader = Nobody
    /\ \/ /\ model = "none"
          /\ Move(u, "starting", "loading")
          /\ loader' = u
       \/ /\ model \in {"loaded", "unloaded"}
          /\ Move(u, "starting", "ready")
          /\ UNCHANGED loader
       \/ /\ model = "undefined"
          /\ Move(u, "starting", "ending")
          /\ UNCHANGED loader
    /\ UNCHANGED <<queueVars, waiting, task, active, model, failures, timerVars>>

Loaded(u) ==
    /\ Move(u, "loading", "ready")
    /\ model' = "loaded"
    /\ loader' = Nobody
    /\ UNCHANGED <<queueVars, waiting, task, active, failures, timerVars>>

\* A mutant of LoadFails: the lock is kept.
LoadFailsLocked(u) ==
    /\ failures < MaxFailures
    /\ Move(u, "loading", "ending")
    /\ failures' = failures + 1
    /\ UNCHANGED <<queueVars, waiting, task, active, model, loader, timerVars>>

LoadFails(u) ==
    /\ failures < MaxFailures
    /\ Move(u, "loading", "ending")
    /\ loader' = Nobody
    /\ failures' = failures + 1
    /\ UNCHANGED <<queueVars, waiting, task, active, model, timerVars>>

\* Without the model the call raises.
Transcribe(u) ==
    /\ Move(u, "ready", IF model = "loaded" THEN "using" ELSE "ending")
    /\ UNCHANGED <<queueVars, waiting, task, active, modelVars, timerVars>>

Transcribed(u) ==
    /\ Move(u, "using", "ending")
    /\ UNCHANGED <<queueVars, waiting, task, active, modelVars, timerVars>>

-----------------------------------------------------------------------------
(* delete_model, which a worker calls twice, at the end of the task, before*)
(* mark_done, and after it; and schedule_model_cleanup.                    *)

\* A mutant of SystemIsIdle: detections are forgotten.
QueueIsIdle == QIsIdle

SystemIsIdle == QIsIdle /\ active = 0

Rest(u) ==
    IF u \in Detections THEN "gone"
    ELSE IF task[u].id \in processing THEN "served" ELSE "idle"

\* Where delete_model is called.
Calls(u) == at[u] = "leaving" \/ (u \in Workers /\ at[u] = "ending")

\* A mutant of DeleteModel: no new timer while there is one.
DeleteModelOnce(u) ==
    /\ Calls(u)
    /\ at' = [at EXCEPT ![u] =
            IF SystemIsIdle /\ current = NoTimer THEN "scheduling" ELSE Rest(u)]
    /\ UNCHANGED <<queueVars, waiting, task, active, modelVars, timerVars>>

DeleteModel(u) ==
    /\ Calls(u)
    /\ at' = [at EXCEPT ![u] = IF SystemIsIdle THEN "scheduling" ELSE Rest(u)]
    /\ UNCHANGED <<queueVars, waiting, task, active, modelVars, timerVars>>

\* cancel() stops a timer that has not fired, and no other.  The caller waits at
\* most a second for the thread of the timer it cancelled, so it may go on before
\* that thread has done anything.
ScheduleCleanup(u) ==
    /\ cleaner = Nobody
    /\ Move(u, "scheduling", Rest(u))
    /\ \E t \in Timers :
          /\ timer[t] = "off"
          /\ \A s \in 1 .. t - 1 : timer[s] # "off"
          /\ timer' = [s \in Timers |->
                IF s = t THEN "armed"
                ELSE IF s = current /\ timer[s] = "armed" THEN "off"
                ELSE timer[s]]
          /\ current' = t
    /\ UNCHANGED <<queueVars, waiting, task, active, modelVars, cleaner>>

-----------------------------------------------------------------------------
(* perform_model_cleanup, in the timer's thread.                           *)

Advance(t, from, to) ==
    /\ timer[t] = from
    /\ timer' = [timer EXCEPT ![t] = to]

Fire(t) ==
    /\ Advance(t, "armed", "fired")
    /\ UNCHANGED <<queueVars, waiting, at, task, active, modelVars, current, cleaner>>

LookIdle(t) ==
    /\ cleaner = Nobody
    /\ cleaner' = t
    /\ Advance(t, "fired", IF SystemIsIdle THEN "clearing" ELSE "closing")
    /\ UNCHANGED <<queueVars, waiting, at, task, active, modelVars, current>>

Unload(t) ==
    /\ \/ /\ model = "none"
          /\ Advance(t, "clearing", "closing")
          /\ UNCHANGED <<model, failures>>
       \/ /\ model = "loaded"
          /\ Advance(t, "clearing", "deleting")
          /\ model' = "unloaded"
          /\ UNCHANGED failures
       \/ /\ model = "loaded" /\ failures < MaxFailures
          /\ Advance(t, "clearing", "closing")
          /\ failures' = failures + 1
          /\ UNCHANGED model
    /\ UNCHANGED <<queueVars, waiting, at, task, active, loader, current, cleaner>>

\* del model, then model = None.
Delete(t) ==
    /\ Advance(t, "deleting", "assigning")
    /\ model' = "undefined"
    /\ UNCHANGED <<queueVars, waiting, at, task, active, loader, failures, current, cleaner>>

Assign(t) ==
    /\ Advance(t, "assigning", "closing")
    /\ model' = "none"
    /\ UNCHANGED <<queueVars, waiting, at, task, active, loader, failures, current, cleaner>>

Close(t) ==
    /\ Advance(t, "closing", "off")
    /\ current' = NoTimer
    /\ cleaner' = Nobody
    /\ UNCHANGED <<queueVars, waiting, at, task, active, modelVars>>

-----------------------------------------------------------------------------
UserStep(u) ==
    \/ StartModel(u) \/ Loaded(u) \/ LoadFails(u)
    \/ Transcribe(u) \/ Transcribed(u)
    \/ DetectionDone(u) \/ DeleteModel(u) \/ ScheduleCleanup(u)

WorkerStep(w) == Pop(w) \/ Take(w) \/ MarkDone(w) \/ UserStep(w)

TimerStep(t) ==
    Fire(t) \/ LookIdle(t) \/ Unload(t) \/ Delete(t) \/ Assign(t) \/ Close(t)

Next ==
    \/ \E id \in Ids : Submit(id)
    \/ \E w \in Workers : WorkerStep(w)
    \/ \E d \in Detections : Detect(d) \/ UserStep(d)
    \/ \E t \in Timers : TimerStep(t)

Spec == Init /\ [][Next]_vars

\* Threads run and timers fire.  Nobody has to submit anything.
Fairness ==
    /\ \A w \in Workers : WF_vars(WorkerStep(w))
    /\ \A d \in Detections : WF_vars(UserStep(d))
    /\ \A t \in Timers : WF_vars(TimerStep(t))

FairSpec == Spec /\ Fairness

-----------------------------------------------------------------------------
(* Properties.                                                             *)

\* Between the start and the end of a task or a detection.
AtWork(u) ==
    at[u] \in {"starting", "loading", "ready", "using", "ending", "served"}

\* Every variable has its type.
TypeOK ==
    /\ heap \in [Priorities -> Seq({Task(id) : id \in Ids})]
    /\ queued \subseteq Ids
    /\ processing \subseteq Ids
    /\ waiting \subseteq Ids
    /\ at \in [Users -> {"idle", "new", "popped", "starting", "loading", "ready",
            "using", "ending", "served", "leaving", "scheduling", "gone"}]
    /\ task \in [Workers -> {Task(id) : id \in Ids} \union {NoTask}]
    /\ model \in {"none", "loaded", "unloaded", "undefined"}
    /\ loader \in Users \union {Nobody}
    /\ active \in Nat
    /\ timer \in [Timers -> {"off", "armed", "fired", "clearing", "deleting",
            "assigning", "closing"}]
    /\ current \in Timers \union {NoTimer}
    /\ cleaner \in Timers \union {Nobody}
    /\ failures \in 0 .. MaxFailures

\* A second copy of the model, for which the card has no memory, is never
\* loaded: whoever loads finds none, and nobody else loads, although the
\* cleanup changes the global without model_load_lock (start_model, lines
\* 1500-1505; perform_model_cleanup, 1541-1548).
OneCopy ==
    \A u \in Users : at[u] = "loading" =>
        /\ model = "none"
        /\ \A v \in Users : at[v] = "loading" => v = u

\* The cleanup decides to clear the model only when no worker has a task that
\* it has reported to the queue and no detection runs (lines 1538-1541).
ClearsWhenQuiet ==
    [][\A t \in Timers :
          timer[t] = "fired" /\ timer'[t] = "clearing" =>
              \A u \in Users : ~AtWork(u)]_vars

\* Nothing is submitted, queued or at work.
Quiet ==
    /\ \A p \in Priorities : heap[p] = << >>
    /\ \A u \in Users : at[u] \in {"idle", "new", "gone"}

\* "The very last worker to finish the last item will trigger the timer" (lines
\* 1584-1585): when work has ceased the model's memory is given back, whoever
\* ended last and whatever timers were cancelled, unless an unload failed.
MemoryReturned == Quiet ~> (model = "none" \/ ~Quiet \/ failures > 0)

\* Tasks and detections end, however the locks of the load and of the cleanup
\* are taken, and also when a load fails.
WorkEnds == \A u \in Users : AtWork(u) ~> ~AtWork(u)
=============================================================================
