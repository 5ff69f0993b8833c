----------------------------- MODULE DedupQueue -----------------------------
(***************************************************************************)
(* The task queue of src/stacks/subgen-r9/src/subgen.py: a priority queue  *)
(* that holds a task at most once, under the task's id.  Tasks are records *)
(* with an id and a kind; the modules that use the queue say what else     *)
(* they carry.  Every operator here is one critical section of the code:   *)
(* get() is two of them, QPop and QTake, and between them the task is      *)
(* neither in the queue nor among those being processed.                   *)
(***************************************************************************)
EXTENDS Naturals, Sequences

CONSTANT Ids   \* task ids: file paths and hashes of uploads

VARIABLES
    heap,       \* heap[p]: tasks of priority p, the oldest first
    queued,     \* ids that wait in the queue
    processing  \* ids that a worker handles

queueVars == <<heap, queued, processing>>

Kinds == {"detect_language", "asr", "transcribe"}
Priorities == 0 .. 2

\* A mutant of Priority: detections wait behind the requests.
PriorityOfWaiters(kind) ==
    [detect_language |-> 1, asr |-> 0, transcribe |-> 2][kind]

\* Detection before requests that somebody waits for, before files.
Priority(kind) ==
    [detect_language |-> 0, asr |-> 1, transcribe |-> 2][kind]

QueueInit ==
    /\ heap = [p \in Priorities |-> << >>]
    /\ queued = {}
    /\ processing = {}

Known(id) == id \in queued \union processing

\* put(): the answer is whether the task was taken.
Accepts(t) == ~Known(t.id)

QPut(t) ==
    IF Accepts(t)
    THEN /\ heap' = [heap EXCEPT ![Priority(t.kind)] = Append(@, t)]
         /\ queued' = queued \union {t.id}
         /\ UNCHANGED processing
    ELSE UNCHANGED queueVars

\* The most urgent priority that has tasks.
Urgent(p) ==
    /\ heap[p] # << >>
    /\ \A q \in Priorities : q < p => heap[q] = << >>

\* get(), first half: PriorityQueue.get takes the head of priority p off the heap ...
QPop(p) ==
    /\ Urgent(p)
    /\ heap' = [heap EXCEPT ![p] = Tail(@)]
    /\ UNCHANGED <<queued, processing>>

\* ... second half: under the lock, the id changes sets.
QTake(t) ==
    /\ queued' = queued \ {t.id}
    /\ processing' = processing \union {t.id}
    /\ UNCHANGED heap

\* A mutant of QMarkDone: the id stays among those being worked on.
QForget(t) ==
    /\ queued' = queued \ {t.id}
    /\ UNCHANGED <<heap, processing>>

QMarkDone(t) ==
    /\ processing' = processing \ {t.id}
    /\ UNCHANGED <<heap, queued>>

QIsIdle ==
    /\ \A p \in Priorities : heap[p] = << >>
    /\ processing = {}
=============================================================================
