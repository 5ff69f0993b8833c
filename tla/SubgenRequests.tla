--------------------------- MODULE SubgenRequests ---------------------------
(***************************************************************************)
(* How subgen answers a request for a transcription                        *)
(* (src/stacks/subgen-r9/src/subgen.py).  An endpoint gets or creates the  *)
(* TaskResult of the task's id, puts the task in the queue (module         *)
(* DedupQueue), waits for the TaskResult and removes it from task_results. *)
(* Webhooks and the folder scan put files in the same queue, under the     *)
(* file's path, which is also the id of a request that names its video     *)
(* file.  Worker threads take tasks and set TaskResults.                   *)
(***************************************************************************)
EXTENDS DedupQueue

CONSTANTS
    Requests,     \* requests for a transcription of uploaded audio
    Submissions,  \* calls of gen_subtitles_queue, each for one file
    Workers,      \* concurrent_transcriptions
    IdOf,         \* id of the task of a request or of a submission
    Want,         \* Want[r]: task, language and format that r asks for
    FileWant,     \* what a transcription of a file produces
    NoBox,        \* no TaskResult
    NoTask,       \* no task
    Impatient     \* the requests whose wait may reach asr_timeout

\* A TaskResult is named after the request that created it.
Boxes == Requests
Wants == {Want[r] : r \in Requests} \union {FileWant}
Tasks == [id : Ids, kind : Kinds, box : Boxes \union {NoBox}, want : Wants]

ASSUME IdOfAssumption == IdOf \in [Requests \union Submissions -> Ids]
ASSUME WantAssumption ==
    Want \in [Requests -> Wants] /\ FileWant \notin {"none", "error", "timeout"}
ASSUME NamesAssumption ==
    /\ NoBox \notin Requests
    /\ NoTask \notin Tasks
    /\ Requests \intersect Submissions = {}
    /\ \A r \in Requests : Want[r] \notin {"none", "error", "timeout"}
    /\ Impatient \subseteq Requests

VARIABLES
    results,  \* task_results: id -> TaskResult
    box,      \* box[b]: what TaskResult b holds
    at,       \* at[r]: where request r is
    uses,     \* uses[r]: the TaskResult that r waits for
    owns,     \* ghost: owns[r]: did the queue take the task of r?
    answer,   \* answer[r]: what r was answered
    sub,      \* sub[s]: where submission s is
    doing,    \* doing[w]: where worker w is
    task,     \* task[w]: the task it has taken from the queue
    next      \* next[w]: the transcription that follows a detection

requestVars == <<results, at, uses, owns, answer>>
workVars == <<doing, task, next>>
vars == <<queueVars, requestVars, box, sub, workVars>>

EmptyBox == [done |-> FALSE, error |-> FALSE, result |-> "none"]

Init ==
    /\ QueueInit
    /\ results = [i \in Ids |-> NoBox]
    /\ box = [b \in Boxes |-> EmptyBox]
    /\ at = [r \in Requests |-> "new"]
    /\ uses = [r \in Requests |-> NoBox]
    /\ owns = [r \in Requests |-> FALSE]
    /\ answer = [r \in Requests |-> "none"]
    /\ sub = [s \in Submissions |-> "new"]
    /\ doing = [w \in Workers |-> "idle"]
    /\ task = [w \in Workers |-> NoTask]
    /\ next = [w \in Workers |-> NoTask]

-----------------------------------------------------------------------------
(* Requests.  The endpoints are coroutines of one event loop: from Join to *)
(* Enqueue no other coroutine runs, while the workers are threads.         *)

LoopFree == \A r \in Requests : at[r] # "joined"

AsrTask(r) ==
    [id |-> IdOf[r], kind |-> "asr", box |-> uses[r], want |-> Want[r]]

Join(r) ==
    /\ at[r] = "new"
    /\ LoopFree
    /\ at' = [at EXCEPT ![r] = "joined"]
    /\ LET b == IF results[IdOf[r]] = NoBox THEN r ELSE results[IdOf[r]]
       IN /\ results' = [results EXCEPT ![IdOf[r]] = b]
          /\ uses' = [uses EXCEPT ![r] = b]
    /\ UNCHANGED <<queueVars, box, owns, answer, sub, workVars>>

Enqueue(r) ==
    /\ at[r] = "joined"
    /\ at' = [at EXCEPT ![r] = "waiting"]
    /\ QPut(AsrTask(r))
    /\ owns' = [owns EXCEPT ![r] = Accepts(AsrTask(r))]
    /\ UNCHANGED <<results, box, uses, answer, sub, workVars>>

Wake(r) ==
    /\ at[r] = "waiting"
    /\ LoopFree
    /\ LET b == box[uses[r]]
       IN /\ b.done
          /\ answer' = [answer EXCEPT ![r] = IF b.error THEN "error" ELSE b.result]
    /\ at' = [at EXCEPT ![r] = "answered"]
    /\ UNCHANGED <<queueVars, results, box, uses, owns, sub, workVars>>

TimeOut(r) ==
    /\ r \in Impatient
    /\ at[r] = "waiting"
    /\ LoopFree
    /\ ~box[uses[r]].done
    /\ answer' = [answer EXCEPT ![r] = "timeout"]
    /\ at' = [at EXCEPT ![r] = "answered"]
    /\ UNCHANGED <<queueVars, results, box, uses, owns, sub, workVars>>

\* A mutant of CleanUp: a request that timed out leaves its entry.
CleanUpAfterResult(r) ==
    /\ at[r] = "answered"
    /\ LoopFree
    /\ at' = [at EXCEPT ![r] = "gone"]
    /\ results' = [results EXCEPT ![IdOf[r]] = IF answer[r] = "timeout" THEN @ ELSE NoBox]
    /\ UNCHANGED <<queueVars, box, uses, owns, answer, sub, workVars>>

\* finally: the entry of the id goes, whosever it is.
CleanUp(r) ==
    /\ at[r] = "answered"
    /\ LoopFree
    /\ at' = [at EXCEPT ![r] = "gone"]
    /\ results' = [results EXCEPT ![IdOf[r]] = NoBox]
    /\ UNCHANGED <<queueVars, box, uses, owns, answer, sub, workVars>>

Request(r) == Join(r) \/ Enqueue(r) \/ Wake(r) \/ TimeOut(r) \/ CleanUp(r)

-----------------------------------------------------------------------------
(* Submissions: gen_subtitles_queue.                                       *)

FileTask(id, kind) ==
    [id |-> id, kind |-> kind, box |-> NoBox, want |-> FileWant]

Look(s) ==
    /\ sub[s] = "new"
    /\ sub' = [sub EXCEPT ![s] = IF Known(IdOf[s]) THEN "ignored" ELSE "probing"]
    /\ UNCHANGED <<queueVars, requestVars, box, workVars>>

\* No audio, or should_skip_file.
Skip(s) ==
    /\ sub[s] = "probing"
    /\ sub' = [sub EXCEPT ![s] = "skipped"]
    /\ UNCHANGED <<queueVars, requestVars, box, workVars>>

\* A file whose language is not known is sent to the detection first.
Submit(s) ==
    /\ sub[s] = "probing"
    /\ \E kind \in {"detect_language", "transcribe"} : QPut(FileTask(IdOf[s], kind))
    /\ sub' = [sub EXCEPT ![s] = "submitted"]
    /\ UNCHANGED <<requestVars, box, workVars>>

Submission(s) == Look(s) \/ Skip(s) \/ Submit(s)

-----------------------------------------------------------------------------
(* Workers: transcription_worker.                                          *)

Move(w, from, to) ==
    /\ doing[w] = from
    /\ doing' = [doing EXCEPT ![w] = to]

Pop(w) ==
    /\ Move(w, "idle", "popped")
    /\ \E p \in Priorities :
          /\ QPop(p)
          /\ task' = [task EXCEPT ![w] = Head(heap[p])]
    /\ UNCHANGED <<requestVars, box, sub, next>>

Take(w) ==
    /\ Move(w, "popped", "busy")
    /\ QTake(task[w])
    /\ UNCHANGED <<requestVars, box, sub, task, next>>

\* A mutant of Set: an error wakes nobody.
SetErrorSilently(b, want) ==
    \/ box' = [box EXCEPT ![b].done = TRUE, ![b].result = want]
    \/ box' = [box EXCEPT ![b].error = TRUE]

\* set_result and set_error: an error, once set, stays.
Set(b, want) ==
    \/ box' = [box EXCEPT ![b].done = TRUE, ![b].result = want]
    \/ box' = [box EXCEPT ![b].done = TRUE, ![b].error = TRUE]

\* A mutant of ServeAsr: the TaskResult is looked up, as gen_subtitles does.
ServeFiled(w) ==
    /\ Move(w, "busy", "served")
    /\ task[w].kind = "asr"
    /\ LET b == results[task[w].id]
       IN IF b = NoBox THEN UNCHANGED box ELSE Set(b, task[w].want)
    /\ UNCHANGED <<queueVars, requestVars, sub, task, next>>

\* asr_task_worker sets the TaskResult that came with the task.
ServeAsr(w) ==
    /\ Move(w, "busy", "served")
    /\ task[w].kind = "asr"
    /\ Set(task[w].box, task[w].want)
    /\ UNCHANGED <<queueVars, requestVars, sub, task, next>>

\* gen_subtitles sets the TaskResult that is filed under the path, if any.
ServeFile(w) ==
    /\ Move(w, "busy", "served")
    /\ task[w].kind = "transcribe"
    /\ LET b == results[task[w].id]
       IN IF b = NoBox THEN UNCHANGED box ELSE Set(b, task[w].want)
    /\ UNCHANGED <<queueVars, requestVars, sub, task, next>>

\* detect_language_task, with or without success.
Detect(w) ==
    /\ Move(w, "busy", "served")
    /\ task[w].kind = "detect_language"
    /\ next' = [next EXCEPT ![w] = FileTask(task[w].id, "transcribe")]
    /\ UNCHANGED <<queueVars, requestVars, box, sub, task>>

MarkDone(w) ==
    /\ Move(w, "served", "marked")
    /\ QMarkDone(task[w])
    /\ UNCHANGED <<requestVars, box, sub, task, next>>

Finish(w) ==
    /\ Move(w, "marked", "idle")
    /\ task' = [task EXCEPT ![w] = NoTask]
    /\ next' = [next EXCEPT ![w] = NoTask]
    /\ IF next[w] = NoTask THEN UNCHANGED queueVars ELSE QPut(next[w])
    /\ UNCHANGED <<requestVars, box, sub>>

Worker(w) ==
    \/ Pop(w) \/ Take(w) \/ MarkDone(w) \/ Finish(w)
    \/ ServeAsr(w) \/ ServeFile(w) \/ Detect(w)

Next ==
    \/ \E r \in Requests : Request(r)
    \/ \E s \in Submissions : Submission(s)
    \/ \E w \in Workers : Worker(w)

Spec == Init /\ [][Next]_vars

\* The event loop and the threads run; nothing makes requests arrive.
Fairness ==
    /\ \A r \in Requests : WF_vars(Enqueue(r) \/ Wake(r) \/ TimeOut(r) \/ CleanUp(r))
    /\ \A w \in Workers : WF_vars(Worker(w))

FairSpec == Spec /\ Fairness

-----------------------------------------------------------------------------
(* Properties.                                                             *)

Pending(r) == at[r] \in {"joined", "waiting", "answered"}

\* Worker w has task t in hand and still has to set its TaskResult.
Holds(w, t) == doing[w] \in {"popped", "busy"} /\ task[w] = t

InHeap(t) == \E p \in Priorities : \E n \in 1 .. Len(heap[p]) : heap[p][n] = t

\* Worker w has a task that is not marked as done.
InHand(w) == doing[w] \in {"popped", "busy", "served"}

InPlay(t) == InHeap(t) \/ \E w \in Workers : Holds(w, t)

\* Every variable has its type.
TypeOK ==
    /\ heap \in [Priorities -> Seq(Tasks)]
    /\ queued \subseteq Ids
    /\ processing \subseteq Ids
    /\ results \in [Ids -> Boxes \union {NoBox}]
    /\ box \in [Boxes -> [done : BOOLEAN, error : BOOLEAN, result : Wants \union {"none"}]]
    /\ at \in [Requests -> {"new", "joined", "waiting", "answered", "gone"}]
    /\ uses \in [Requests -> Boxes \union {NoBox}]
    /\ owns \in [Requests -> BOOLEAN]
    /\ answer \in [Requests -> Wants \union {"none", "error", "timeout"}]
    /\ sub \in [Submissions -> {"new", "ignored", "probing", "skipped", "submitted"}]
    /\ doing \in [Workers -> {"idle", "popped", "busy", "served", "marked"}]
    /\ task \in [Workers -> Tasks \union {NoTask}]
    /\ next \in [Workers -> Tasks \union {NoTask}]

\* A task waits at most once, no task waits that a worker has, and no two
\* workers have the same one, although get() lets go of a task before it
\* says so: the queue's promise, on which two transcriptions of one file
\* into the same subtitle never run at once (DedupQueue put and get, lines
\* 306-327; mark_done, 329-332).
OneTaskPerId ==
    /\ \A p, q \in Priorities :
          \A m \in 1 .. Len(heap[p]), n \in 1 .. Len(heap[q]) :
              heap[p][m].id = heap[q][n].id => p = q /\ m = n
    /\ \A v, w \in Workers :
          InHand(v) /\ InHand(w) /\ task[v].id = task[w].id => v = w
    /\ \A w \in Workers : InHand(w) =>
          \A p \in Priorities : \A n \in 1 .. Len(heap[p]) :
              heap[p][n].id # task[w].id

\* What the queue's users see: the tasks in the heap, and those that workers
\* have taken from it, whatever the two sets of ids say.
Key(t) == [id |-> t.id, kind |-> t.kind]
KeysOf(q) == {Key(q[n]) : n \in 1 .. Len(q)}
Waiting == UNION {KeysOf(heap[p]) : p \in Priorities}
Hand == [w \in Workers |-> IF InHand(w) THEN {Key(task[w])} ELSE {}]

Service == INSTANCE TaskService WITH waiting <- Waiting, hand <- Hand

\* The queue with its heap, its two sets and its get() in two steps, used by
\* endpoints, submissions and workers, implements the abstract service: never
\* two tasks of an id, the most urgent first (DedupQueue, lines 306-332).
ImplementsService == Service!Spec

\* A request whose task the queue took is not forgotten: while it waits, its
\* TaskResult is set, or the task that will set it waits or is being worked
\* on.  Other requests of the same id may come, time out and remove the
\* entry of task_results meanwhile (asr, lines 776-803 and 830-835).
OwnerServed ==
    \A r \in Requests : at[r] = "waiting" /\ owns[r] =>
        \/ box[uses[r]].done
        \/ InPlay(AsrTask(r))

\* task_results does not grow: an entry is filed under the id of the request
\* that made it, and goes at the latest when that request is over ("Entries
\* are cleaned up in /asr endpoint finally block to prevent unbounded growth",
\* line 260).
NoLeftovers ==
    \A i \in Ids : results[i] # NoBox =>
        IdOf[results[i]] = i /\ Pending(results[i])

\* A request whose task was taken is answered, if its own wait is long enough:
\* no other request, timed out or not, and no submission can keep its task in
\* the queue, or its TaskResult unset, for ever.
OwnerAnswered ==
    \A r \in Requests \ Impatient : at[r] = "waiting" /\ owns[r] ~> at[r] = "gone"

\* Whatever the queue took is dealt with: once nothing more arrives the queue
\* empties and every worker comes to rest (transcription_worker, lines
\* 358-424).
QueueDrains ==
    <>[](QIsIdle /\ queued = {} /\ \A w \in Workers : doing[w] = "idle")

\* "If identical audio + task + language is already being processed, waits for
\* that task to complete and returns the same result" (asr, lines 736-737):
\* whoever waits, waits for something that will be set.
NobodyStranded ==
    \A r \in Requests : at[r] = "waiting" =>
        \/ box[uses[r]].done
        \/ \E t \in Tasks : InPlay(t) /\
              \/ t.kind = "asr" /\ t.box = uses[r]
              \/ t.kind # "asr" /\ results[t.id] = uses[r]
        \/ \E w \in Workers : next[w] # NoTask /\ results[next[w].id] = uses[r]

=============================================================================
