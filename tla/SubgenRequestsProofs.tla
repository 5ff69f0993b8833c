------------------------ MODULE SubgenRequestsProofs ------------------------
(***************************************************************************)
(* Theorems about subgen's requests (module SubgenRequests), for any       *)
(* number of requests, submissions and workers, and any ids they share:    *)
(* type correctness, the queue's promise to hold and hand out a task once, *)
(* that a request that queued its own task is served, that no entry of     *)
(* task_results outlives its requests, and that the queue refuses no id    *)
(* of which there is no task.                                              *)
(***************************************************************************)
EXTENDS SubgenRequests, SequenceTheorems, TLAPS

-----------------------------------------------------------------------------
(* Tasks and the heap.                                                     *)

\* A task has the fields of a task.
LEMMA TaskFields ==
    \A t \in Tasks : t.id \in Ids /\ t.kind \in Kinds /\ t.box \in Boxes \union {NoBox}
                     /\ t.want \in Wants
BY DEF Tasks

\* What endpoints, webhooks and detections put in the queue are tasks.
LEMMA TaskTypes ==
    /\ \A r \in Requests : uses[r] \in Boxes \union {NoBox} => AsrTask(r) \in Tasks
    /\ \A i \in Ids, k \in Kinds : FileTask(i, k) \in Tasks
<1>1. \A r \in Requests : IdOf[r] \in Ids /\ Want[r] \in Wants
  BY IdOfAssumption DEF Wants
<1>2. FileWant \in Wants
  BY DEF Wants
<1> QED  BY <1>1, <1>2 DEF AsrTask, FileTask, Tasks, Kinds

\* Every kind of task has a priority.
LEMMA PriorityType == \A k \in Kinds : Priority(k) \in Priorities
<1> SUFFICES ASSUME NEW k \in Kinds PROVE Priority(k) \in Priorities
  OBVIOUS
<1>1. CASE k = "detect_language"
  BY <1>1 DEF Priority, Priorities
<1>2. CASE k = "asr"
  BY <1>2 DEF Priority, Priorities
<1>3. CASE k = "transcribe"
  BY <1>3 DEF Priority, Priorities
<1> QED  BY <1>1, <1>2, <1>3 DEF Kinds

HeapType == heap \in [Priorities -> Seq(Tasks)]

\* An accepted task goes to the end of its priority; the others keep their place.
LEMMA PutHeap ==
    ASSUME HeapType, NEW t \in Tasks,
           heap' = [heap EXCEPT ![Priority(t.kind)] = Append(@, t)]
    PROVE  /\ HeapType'
           /\ \A p \in Priorities : \A n \in 1 .. Len(heap'[p]) :
                 \/ n \in 1 .. Len(heap[p]) /\ heap'[p][n] = heap[p][n]
                 \/ /\ p = Priority(t.kind)
                    /\ n = Len(heap[p]) + 1
                    /\ heap'[p][n] = t
           /\ \A p \in Priorities : \A n \in 1 .. Len(heap[p]) :
                 n \in 1 .. Len(heap'[p]) /\ heap'[p][n] = heap[p][n]
           /\ \E p \in Priorities : \E n \in 1 .. Len(heap'[p]) : heap'[p][n] = t
<1> DEFINE q == Priority(t.kind)
<1>1. q \in Priorities
  BY PriorityType, TaskFields
<1> HIDE DEF q
<1>2. \A p \in Priorities : heap[p] \in Seq(Tasks)
  BY DEF HeapType
<1>3. /\ heap'[q] = Append(heap[q], t)
      /\ \A p \in Priorities : p # q => heap'[p] = heap[p]
  BY <1>1 DEF HeapType, q
<1>4. HeapType'
  BY <1>1, <1>2 DEF HeapType, q
<1>5. /\ Len(heap'[q]) = Len(heap[q]) + 1
      /\ heap'[q][Len(heap[q]) + 1] = t
      /\ \A n \in 1 .. Len(heap[q]) : heap'[q][n] = heap[q][n]
      /\ Len(heap[q]) \in Nat
  BY <1>1, <1>2, <1>3
<1> QED  BY <1>1, <1>3, <1>4, <1>5 DEF q

\* The head of a priority is taken, the tasks behind it move up.
LEMMA PopHeap ==
    ASSUME HeapType, NEW p \in Priorities, heap[p] # << >>,
           heap' = [heap EXCEPT ![p] = Tail(@)]
    PROVE  /\ HeapType'
           /\ Head(heap[p]) = heap[p][1]
           /\ 1 \in 1 .. Len(heap[p])
           /\ heap[p][1] \in Tasks
           /\ \A n \in 1 .. Len(heap'[p]) :
                 n + 1 \in 1 .. Len(heap[p]) /\ heap'[p][n] = heap[p][n + 1]
           /\ \A n \in 1 .. Len(heap[p]) :
                 n = 1 \/ (n - 1 \in 1 .. Len(heap'[p]) /\ heap'[p][n - 1] = heap[p][n])
           /\ \A q \in Priorities : q # p => heap'[q] = heap[q]
<1>1. heap[p] \in Seq(Tasks)
  BY DEF HeapType
<1>2. heap'[p] = Tail(heap[p]) /\ \A q \in Priorities : q # p => heap'[q] = heap[q]
  BY DEF HeapType
<1>3. /\ Head(heap[p]) \in Tasks
      /\ Tail(heap[p]) \in Seq(Tasks)
      /\ Len(Tail(heap[p])) = Len(heap[p]) - 1
      /\ \A n \in 1 .. Len(Tail(heap[p])) : Tail(heap[p])[n] = heap[p][n + 1]
  BY <1>1, HeadTailProperties
<1>4. Len(heap[p]) \in Nat \ {0}
  BY <1>1, EmptySeq
<1>5. Head(heap[p]) = heap[p][1]
  BY <1>1
<1>6. HeapType'
  BY <1>3 DEF HeapType
<1> HIDE DEF HeapType
<1>7. \A n \in 1 .. Len(heap[p]) :
        n = 1 \/ (n - 1 \in 1 .. Len(heap'[p]) /\ heap'[p][n - 1] = heap[p][n])
  <2> SUFFICES ASSUME NEW n \in 1 .. Len(heap[p]), n # 1
               PROVE  n - 1 \in 1 .. Len(heap'[p]) /\ heap'[p][n - 1] = heap[p][n]
    OBVIOUS
  <2>1. n - 1 \in 1 .. Len(Tail(heap[p])) /\ (n - 1) + 1 = n
    BY <1>3, <1>4
  <2> QED  BY <1>2, <1>3, <2>1
<1>8. \A n \in 1 .. Len(heap'[p]) :
        n + 1 \in 1 .. Len(heap[p]) /\ heap'[p][n] = heap[p][n + 1]
  <2> SUFFICES ASSUME NEW n \in 1 .. Len(heap'[p])
               PROVE  n + 1 \in 1 .. Len(heap[p]) /\ heap'[p][n] = heap[p][n + 1]
    OBVIOUS
  <2>1. n \in 1 .. Len(Tail(heap[p]))
    BY <1>2
  <2>2. n + 1 \in 1 .. Len(heap[p])
    BY <1>3, <1>4, <2>1
  <2> QED  BY <1>2, <1>3, <2>1, <2>2
<1> QED  BY <1>2, <1>3, <1>4, <1>5, <1>6, <1>7, <1>8

-----------------------------------------------------------------------------
(* Types.                                                                  *)

BoxRecord == [done : BOOLEAN, error : BOOLEAN, result : Wants \union {"none"}]

\* Setting a TaskResult that exists wakes those who wait for it; one that is set
\* stays set.
LEMMA SetBox ==
    ASSUME box \in [Boxes -> BoxRecord], NEW b, NEW want \in Wants, Set(b, want)
    PROVE  /\ box' \in [Boxes -> BoxRecord]
           /\ b \in Boxes => box'[b].done
           /\ \A c \in Boxes : box[c].done => box'[c].done
<1>1. CASE box' = [box EXCEPT ![b].done = TRUE, ![b].result = want]
  BY <1>1 DEF BoxRecord
<1>2. CASE box' = [box EXCEPT ![b].done = TRUE, ![b].error = TRUE]
  BY <1>2 DEF BoxRecord
<1> QED  BY <1>1, <1>2 DEF Set

\* A request that has joined waits for a TaskResult, and a worker that is not idle
\* has a task.
Bound ==
    /\ \A r \in Requests : at[r] # "new" => uses[r] \in Boxes
    /\ \A w \in Workers : doing[w] # "idle" => task[w] \in Tasks

TypeInv == TypeOK /\ Bound

\* A put keeps the queue's types, whether it takes the task or not.
LEMMA PutType ==
    ASSUME TypeOK, NEW t \in Tasks, QPut(t)
    PROVE  HeapType' /\ queued' \subseteq Ids /\ processing' \subseteq Ids
<1>1. HeapType /\ queued \subseteq Ids /\ processing \subseteq Ids
  BY DEF TypeOK, HeapType
<1>2. CASE Accepts(t)
  BY <1>1, <1>2, PutHeap, TaskFields DEF QPut
<1>3. CASE ~Accepts(t)
  BY <1>1, <1>3 DEF QPut, queueVars, HeapType
<1> QED  BY <1>2, <1>3

LEMMA TypeStep == TypeInv /\ [Next]_vars => TypeInv'
<1> SUFFICES ASSUME TypeInv, [Next]_vars PROVE TypeInv'
  OBVIOUS
<1>0. /\ HeapType /\ queued \subseteq Ids /\ processing \subseteq Ids
      /\ box \in [Boxes -> BoxRecord]
      /\ \A r \in Requests : IdOf[r] \in Ids /\ Want[r] \in Wants
      /\ \A s \in Submissions : IdOf[s] \in Ids
  BY IdOfAssumption DEF TypeInv, TypeOK, HeapType, BoxRecord, Wants
<1> USE DEF TypeInv, TypeOK, Bound
<1>1. ASSUME NEW r \in Requests, Join(r) PROVE TypeInv'
  BY <1>0, <1>1 DEF Join, Boxes, queueVars, workVars
<1>2. ASSUME NEW r \in Requests, Enqueue(r) PROVE TypeInv'
  <2>1. AsrTask(r) \in Tasks
    BY <1>2, TaskTypes DEF Enqueue
  <2>2. HeapType' /\ queued' \subseteq Ids /\ processing' \subseteq Ids
    BY <1>2, <2>1, PutType DEF Enqueue
  <2> QED  BY <1>2, <2>2 DEF Enqueue, HeapType, workVars, Accepts, Known
<1>3. ASSUME NEW r \in Requests, Wake(r) PROVE TypeInv'
  <2>1. box[uses[r]].result \in Wants \union {"none"}
    BY <1>0, <1>3 DEF Wake, BoxRecord
  <2> QED  BY <1>3, <2>1 DEF Wake, queueVars, workVars
<1>4. ASSUME NEW r \in Requests, TimeOut(r) PROVE TypeInv'
  BY <1>4 DEF TimeOut, queueVars, workVars
<1>5. ASSUME NEW r \in Requests, CleanUp(r) PROVE TypeInv'
  BY <1>5 DEF CleanUp, queueVars, workVars
<1>6. ASSUME NEW s \in Submissions, Look(s) \/ Skip(s) PROVE TypeInv'
  BY <1>6 DEF Look, Skip, queueVars, requestVars, workVars
<1>7. ASSUME NEW s \in Submissions, Submit(s) PROVE TypeInv'
  <2>1. PICK kind \in {"detect_language", "transcribe"} : QPut(FileTask(IdOf[s], kind))
    BY <1>7 DEF Submit
  <2>2. FileTask(IdOf[s], kind) \in Tasks
    BY <1>0, TaskTypes DEF Kinds
  <2>3. HeapType' /\ queued' \subseteq Ids /\ processing' \subseteq Ids
    BY <2>1, <2>2, PutType
  <2> QED  BY <1>7, <2>3 DEF Submit, HeapType, requestVars, workVars
<1>8. ASSUME NEW w \in Workers, Pop(w) PROVE TypeInv'
  <2>1. PICK p \in Priorities : QPop(p) /\ task' = [task EXCEPT ![w] = Head(heap[p])]
    BY <1>8 DEF Pop
  <2>2. HeapType' /\ Head(heap[p]) \in Tasks
    BY <1>0, <2>1, PopHeap DEF QPop, Urgent
  <2> QED  BY <1>8, <2>1, <2>2 DEF Pop, QPop, Move, HeapType, requestVars
<1>9. ASSUME NEW w \in Workers, Take(w) PROVE TypeInv'
  <2>1. task[w] \in Tasks /\ task[w].id \in Ids
    BY <1>9, TaskFields DEF Take, Move
  <2> QED  BY <1>9, <2>1 DEF Take, QTake, Move, requestVars
<1>10. ASSUME NEW w \in Workers, ServeAsr(w) \/ ServeFile(w) PROVE TypeInv'
  <2>1. task[w] \in Tasks /\ task[w].want \in Wants
    BY <1>10, TaskFields DEF ServeAsr, ServeFile, Move
  <2>2. box' \in [Boxes -> BoxRecord]
    BY <1>0, <1>10, <2>1, SetBox DEF ServeAsr, ServeFile
  <2> QED  BY <1>10, <2>2 DEF ServeAsr, ServeFile, Move, BoxRecord, queueVars, requestVars
<1>11. ASSUME NEW w \in Workers, Detect(w) PROVE TypeInv'
  <2>1. FileTask(task[w].id, "transcribe") \in Tasks
    BY <1>11, TaskFields, TaskTypes DEF Detect, Move, Kinds
  <2> QED  BY <1>11, <2>1 DEF Detect, Move, queueVars, requestVars
<1>12. ASSUME NEW w \in Workers, MarkDone(w) PROVE TypeInv'
  BY <1>12 DEF MarkDone, QMarkDone, Move, requestVars
<1>13. ASSUME NEW w \in Workers, Finish(w) PROVE TypeInv'
  <2>1. HeapType' /\ queued' \subseteq Ids /\ processing' \subseteq Ids
    BY <1>0, <1>13, PutType DEF Finish, queueVars, HeapType
  <2> QED  BY <1>13, <2>1 DEF Finish, Move, HeapType, requestVars
<1>14. CASE UNCHANGED vars
  BY <1>14 DEF vars, queueVars, requestVars, workVars
<1> QED
  BY <1>1, <1>2, <1>3, <1>4, <1>5, <1>6, <1>7, <1>8, <1>9, <1>10, <1>11, <1>12, <1>13, <1>14
     DEF Next, Request, Submission, Worker

\* Every variable keeps its type: no request reads a TaskResult that is not there,
\* no worker works on nothing.
THEOREM Typing == Spec => []TypeInv
<1>1. Init => TypeInv
  BY IdOfAssumption
     DEF Init, QueueInit, TypeInv, TypeOK, Bound, EmptyBox, Priorities, Tasks
<1> QED  BY <1>1, TypeStep, PTL DEF Spec

\* The type invariant that the runs check.
THEOREM TypesCorrect == Spec => []TypeOK
BY Typing, PTL DEF TypeInv

-----------------------------------------------------------------------------
(* One task per id.  The promise itself is not inductive: what put() asks  *)
(* before it takes a task are the two sets of ids, so the sets have to     *)
(* name every task that waits or is in a worker's hands.  A popped task is *)
(* still among the queued ids; that is why nobody can put a second one     *)
(* between the two halves of get().                                        *)

\* The sets of ids name what waits and what is worked on.
Named ==
    /\ \A p \in Priorities : \A n \in 1 .. Len(heap[p]) : heap[p][n].id \in queued
    /\ \A w \in Workers : doing[w] = "popped" => task[w].id \in queued
    /\ \A w \in Workers : doing[w] \in {"busy", "served"} => task[w].id \in processing
    /\ queued \intersect processing = {}

HeapDistinct ==
    \A p, q \in Priorities :
        \A m \in 1 .. Len(heap[p]), n \in 1 .. Len(heap[q]) :
            heap[p][m].id = heap[q][n].id => p = q /\ m = n

HandsDistinct ==
    \A v, w \in Workers :
        InHand(v) /\ InHand(w) /\ task[v].id = task[w].id => v = w

HandsEmptied ==
    \A w \in Workers : InHand(w) =>
        \A p \in Priorities : \A n \in 1 .. Len(heap[p]) : heap[p][n].id # task[w].id

QueueInv == Named /\ HeapDistinct /\ HandsDistinct /\ HandsEmptied

\* What a worker has in hand after a step it had before, and no further back.
HandsKept ==
    \A w \in Workers :
        /\ InHand(w)' => InHand(w) /\ task'[w] = task[w]
        /\ doing'[w] = "popped" => doing[w] = "popped"
        /\ doing'[w] \in {"busy", "served"} => doing[w] \in {"busy", "served"}

\* A step that leaves the queue alone and takes nothing into a hand.
LEMMA QueueUntouched ==
    ASSUME QueueInv, HandsKept, UNCHANGED queueVars
    PROVE  QueueInv'
BY DEF QueueInv, Named, HeapDistinct, HandsDistinct, HandsEmptied, HandsKept, InHand,
       queueVars

\* A put: the task is new to both sets, so to the heap and to every hand.
LEMMA QueuePut ==
    ASSUME TypeInv, QueueInv, HandsKept, NEW t \in Tasks, QPut(t)
    PROVE  QueueInv'
<1>1. CASE ~Accepts(t)
  BY <1>1, QueueUntouched DEF QPut
<1>2. CASE Accepts(t)
  <2>1. /\ t.id \notin queued
        /\ t.id \notin processing
        /\ queued' = queued \union {t.id}
        /\ processing' = processing
    BY <1>2 DEF Accepts, Known, QPut
  <2>2. \A p \in Priorities : \A n \in 1 .. Len(heap'[p]) :
           \/ n \in 1 .. Len(heap[p]) /\ heap'[p][n] = heap[p][n]
           \/ p = Priority(t.kind) /\ n = Len(heap[p]) + 1 /\ heap'[p][n] = t
    <3>1. HeapType
      BY DEF TypeInv, TypeOK, HeapType
    <3> QED  BY <1>2, <3>1, PutHeap DEF QPut
  <2>3. Named'
    <3>1. \A p \in Priorities : \A n \in 1 .. Len(heap'[p]) : heap'[p][n].id \in queued'
      BY <2>1, <2>2 DEF QueueInv, Named
    <3>2. \A w \in Workers :
            /\ doing'[w] = "popped" => task'[w].id \in queued'
            /\ doing'[w] \in {"busy", "served"} => task'[w].id \in processing'
      BY <2>1 DEF QueueInv, Named, HandsKept, InHand
    <3>3. queued' \intersect processing' = {}
      BY <2>1 DEF QueueInv, Named
    <3> QED  BY <3>1, <3>2, <3>3 DEF Named
  <2>4. HeapDistinct'
    <3> SUFFICES ASSUME NEW p \in Priorities, NEW q \in Priorities,
                        NEW m \in 1 .. Len(heap'[p]), NEW n \in 1 .. Len(heap'[q]),
                        heap'[p][m].id = heap'[q][n].id
                 PROVE  p = q /\ m = n
      BY DEF HeapDistinct
    <3>1. \A x \in Priorities : \A k \in 1 .. Len(heap[x]) : heap[x][k].id # t.id
      BY <2>1 DEF QueueInv, Named
    <3>2. CASE m \in 1 .. Len(heap[p]) /\ heap'[p][m] = heap[p][m]
      <4>1. n \in 1 .. Len(heap[q]) /\ heap'[q][n] = heap[q][n]
        BY <2>2, <3>1, <3>2
      <4> QED  BY <3>2, <4>1 DEF QueueInv, HeapDistinct
    <3>3. CASE p = Priority(t.kind) /\ m = Len(heap[p]) + 1 /\ heap'[p][m] = t
      <4>1. q = Priority(t.kind) /\ n = Len(heap[q]) + 1
        BY <2>2, <3>1, <3>3
      <4> QED  BY <3>3, <4>1
    <3> QED  BY <2>2, <3>2, <3>3
  <2>5. HandsDistinct'
    BY DEF QueueInv, HandsDistinct, HandsKept
  <2>6. HandsEmptied'
    <3> SUFFICES ASSUME NEW w \in Workers, InHand(w)',
                        NEW p \in Priorities, NEW n \in 1 .. Len(heap'[p])
                 PROVE  heap'[p][n].id # task'[w].id
      BY DEF HandsEmptied
    <3>1. InHand(w) /\ task'[w] = task[w]
      BY DEF HandsKept
    <3>2. task[w].id # t.id
      BY <2>1, <3>1 DEF QueueInv, Named, InHand
    <3> QED  BY <2>2, <3>1, <3>2 DEF QueueInv, HandsEmptied
  <2> QED  BY <2>3, <2>4, <2>5, <2>6 DEF QueueInv
<1> QED  BY <1>1, <1>2

\* The first half of get(): the task leaves the heap for the hand of w.
LEMMA QueuePop ==
    ASSUME TypeInv, QueueInv, NEW w \in Workers, Pop(w)
    PROVE  QueueInv'
<1>1. PICK p \in Priorities : QPop(p) /\ task' = [task EXCEPT ![w] = Head(heap[p])]
  BY DEF Pop
<1>2. /\ Head(heap[p]) = heap[p][1]
      /\ 1 \in 1 .. Len(heap[p])
      /\ \A n \in 1 .. Len(heap'[p]) :
            n + 1 \in 1 .. Len(heap[p]) /\ heap'[p][n] = heap[p][n + 1]
      /\ \A q \in Priorities : q # p => heap'[q] = heap[q]
  BY <1>1, PopHeap DEF QPop, Urgent, TypeInv, TypeOK, HeapType
<1>3. /\ doing[w] = "idle" /\ doing'[w] = "popped"
      /\ task'[w] = heap[p][1]
      /\ \A v \in Workers : v # w => doing'[v] = doing[v] /\ task'[v] = task[v]
      /\ queued' = queued /\ processing' = processing
  BY <1>1, <1>2 DEF Pop, Move, QPop, TypeInv, TypeOK
<1>4. \A q \in Priorities : \A n \in 1 .. Len(heap'[q]) :
         \E m \in 1 .. Len(heap[q]) :
            /\ heap'[q][n] = heap[q][m]
            /\ m = IF q = p THEN n + 1 ELSE n
  BY <1>2
<1>5. Named'
  <2>1. \A q \in Priorities : \A n \in 1 .. Len(heap'[q]) : heap'[q][n].id \in queued'
    BY <1>3, <1>4 DEF QueueInv, Named
  <2>2. heap[p][1].id \in queued
    BY <1>2 DEF QueueInv, Named
  <2>3. \A v \in Workers :
          /\ doing'[v] = "popped" => task'[v].id \in queued'
          /\ doing'[v] \in {"busy", "served"} => task'[v].id \in processing'
    BY <1>3, <2>2 DEF QueueInv, Named
  <2> QED  BY <1>3, <2>1, <2>3 DEF QueueInv, Named
<1>6. HeapDistinct'
  <2> SUFFICES ASSUME NEW q \in Priorities, NEW u \in Priorities,
                      NEW m \in 1 .. Len(heap'[q]), NEW n \in 1 .. Len(heap'[u]),
                      heap'[q][m].id = heap'[u][n].id
               PROVE  q = u /\ m = n
    BY DEF HeapDistinct
  <2>1. PICK k \in 1 .. Len(heap[q]) :
           heap'[q][m] = heap[q][k] /\ k = IF q = p THEN m + 1 ELSE m
    BY <1>4
  <2>2. PICK l \in 1 .. Len(heap[u]) :
           heap'[u][n] = heap[u][l] /\ l = IF u = p THEN n + 1 ELSE n
    BY <1>4
  <2>3. q = u /\ k = l
    BY <2>1, <2>2 DEF QueueInv, HeapDistinct
  <2> QED  BY <2>1, <2>2, <2>3
<1>7. HandsDistinct'
  BY <1>2, <1>3 DEF QueueInv, HandsDistinct, HandsEmptied, InHand
<1>8. HandsEmptied'
  <2> SUFFICES ASSUME NEW v \in Workers, InHand(v)',
                      NEW q \in Priorities, NEW n \in 1 .. Len(heap'[q])
               PROVE  heap'[q][n].id # task'[v].id
    BY DEF HandsEmptied
  <2>1. PICK m \in 1 .. Len(heap[q]) :
           heap'[q][n] = heap[q][m] /\ m = IF q = p THEN n + 1 ELSE n
    BY <1>4
  <2>2. CASE v # w
    BY <1>3, <2>1, <2>2 DEF QueueInv, HandsEmptied, InHand
  <2>3. CASE v = w
    <3>1. heap[q][m].id = heap[p][1].id => q = p /\ m = 1
      BY <1>2 DEF QueueInv, HeapDistinct
    <3> QED  BY <1>3, <2>1, <2>3, <3>1
  <2> QED  BY <2>2, <2>3
<1> QED  BY <1>5, <1>6, <1>7, <1>8 DEF QueueInv

\* The second half of get(): the id changes sets; no other task has it.
LEMMA QueueTake ==
    ASSUME TypeInv, QueueInv, NEW w \in Workers, Take(w)
    PROVE  QueueInv'
<1>1. /\ doing[w] = "popped" /\ doing'[w] = "busy"
      /\ \A v \in Workers : v # w => doing'[v] = doing[v]
      /\ task' = task /\ heap' = heap
      /\ queued' = queued \ {task[w].id}
      /\ processing' = processing \union {task[w].id}
  BY DEF Take, Move, QTake, TypeInv, TypeOK
<1>2. Named'
  BY <1>1 DEF QueueInv, Named, HandsDistinct, HandsEmptied, InHand
<1> QED  BY <1>1, <1>2 DEF QueueInv, HeapDistinct, HandsDistinct, HandsEmptied, InHand

\* mark_done: the id of w goes, those of the other workers stay.
LEMMA QueueMark ==
    ASSUME TypeInv, QueueInv, NEW w \in Workers, MarkDone(w)
    PROVE  QueueInv'
<1>1. /\ doing[w] = "served" /\ doing'[w] = "marked"
      /\ \A v \in Workers : v # w => doing'[v] = doing[v]
      /\ task' = task /\ heap' = heap /\ queued' = queued
      /\ processing' = processing \ {task[w].id}
  BY DEF MarkDone, Move, QMarkDone, TypeInv, TypeOK
<1>2. Named'
  BY <1>1 DEF QueueInv, Named, HandsDistinct, InHand
<1> QED  BY <1>1, <1>2 DEF QueueInv, HeapDistinct, HandsDistinct, HandsEmptied, InHand

LEMMA QueueStep == TypeInv /\ QueueInv /\ [Next]_vars => QueueInv'
<1> SUFFICES ASSUME TypeInv, QueueInv, [Next]_vars PROVE QueueInv'
  OBVIOUS
<1>1. ASSUME UNCHANGED <<doing, task>> PROVE HandsKept
  BY <1>1 DEF HandsKept, InHand
<1>2. ASSUME NEW r \in Requests, Enqueue(r) PROVE QueueInv'
  <2>1. AsrTask(r) \in Tasks
    BY <1>2, TaskTypes DEF Enqueue, TypeInv, Bound
  <2> QED  BY <1>1, <1>2, <2>1, QueuePut DEF Enqueue, workVars
<1>3. ASSUME NEW r \in Requests, Join(r) \/ Wake(r) \/ TimeOut(r) \/ CleanUp(r)
      PROVE  QueueInv'
  BY <1>1, <1>3, QueueUntouched DEF Join, Wake, TimeOut, CleanUp, queueVars, workVars
<1>4. ASSUME NEW s \in Submissions, Look(s) \/ Skip(s) PROVE QueueInv'
  BY <1>1, <1>4, QueueUntouched DEF Look, Skip, queueVars, workVars
<1>5. ASSUME NEW s \in Submissions, Submit(s) PROVE QueueInv'
  <2>1. PICK kind \in {"detect_language", "transcribe"} : QPut(FileTask(IdOf[s], kind))
    BY <1>5 DEF Submit
  <2>2. FileTask(IdOf[s], kind) \in Tasks
    BY IdOfAssumption, TaskTypes DEF Kinds
  <2> QED  BY <1>1, <1>5, <2>1, <2>2, QueuePut DEF Submit, workVars
<1>6. ASSUME NEW w \in Workers, ServeAsr(w) \/ ServeFile(w) \/ Detect(w) PROVE QueueInv'
  <2>1. HandsKept
    BY <1>6 DEF ServeAsr, ServeFile, Detect, Move, HandsKept, InHand, TypeInv, TypeOK
  <2> QED  BY <1>6, <2>1, QueueUntouched DEF ServeAsr, ServeFile, Detect, queueVars
<1>7. ASSUME NEW w \in Workers, Finish(w) PROVE QueueInv'
  <2>1. HandsKept
    BY <1>7 DEF Finish, Move, HandsKept, InHand, TypeInv, TypeOK
  <2>2. CASE next[w] = NoTask
    BY <1>7, <2>1, <2>2, QueueUntouched DEF Finish
  <2>3. CASE next[w] # NoTask
    <3>1. next[w] \in Tasks
      BY <2>3 DEF TypeInv, TypeOK
    <3> QED  BY <1>7, <2>1, <2>3, <3>1, QueuePut DEF Finish
  <2> QED  BY <2>2, <2>3
<1>8. CASE UNCHANGED vars
  BY <1>1, <1>8, QueueUntouched DEF vars, queueVars, workVars
<1> QED
  BY <1>2, <1>3, <1>4, <1>5, <1>6, <1>7, <1>8, QueuePop, QueueTake, QueueMark
     DEF Next, Request, Submission, Worker

\* No task waits twice, none waits that a worker has, no two workers have the same.
THEOREM OneTaskTheorem == Spec => []OneTaskPerId
<1>1. Init => QueueInv
  BY DEF Init, QueueInit, QueueInv, Named, HeapDistinct, HandsDistinct, HandsEmptied,
         InHand, Priorities
<1>2. QueueInv => OneTaskPerId
  BY DEF QueueInv, HeapDistinct, HandsDistinct, HandsEmptied, InHand, OneTaskPerId
<1> QED  BY <1>1, <1>2, QueueStep, Typing, PTL DEF Spec

-----------------------------------------------------------------------------
(* The sets of ids and the tasks.  put() refuses an id that is in one of   *)
(* the sets, for as long as it is: an id that stayed there without a task  *)
(* would never be transcribed again.                                       *)

WaitsAs(i) ==
    \/ \E p \in Priorities : \E n \in 1 .. Len(heap[p]) : heap[p][n].id = i
    \/ \E w \in Workers : doing[w] = "popped" /\ task[w].id = i

WorkedOn(i) == \E w \in Workers : doing[w] \in {"busy", "served"} /\ task[w].id = i

Backed ==
    /\ \A i \in queued : WaitsAs(i)
    /\ \A i \in processing : WorkedOn(i)

\* The hands that count keep their tasks.
HandsHold ==
    \A w \in Workers :
        /\ doing[w] = "popped" => doing'[w] = "popped" /\ task'[w] = task[w]
        /\ doing[w] \in {"busy", "served"} =>
              doing'[w] \in {"busy", "served"} /\ task'[w] = task[w]

LEMMA BackedUntouched ==
    ASSUME Backed, HandsHold, UNCHANGED queueVars
    PROVE  Backed'
<1>1. \A i : WaitsAs(i) => WaitsAs(i)'
  BY DEF WaitsAs, HandsHold, queueVars
<1>2. \A i : WorkedOn(i) => WorkedOn(i)'
  BY DEF WorkedOn, HandsHold
<1> QED  BY <1>1, <1>2 DEF Backed, queueVars

LEMMA BackedPut ==
    ASSUME TypeInv, Backed, HandsHold, NEW t \in Tasks, QPut(t)
    PROVE  Backed'
<1>1. CASE ~Accepts(t)
  BY <1>1, BackedUntouched DEF QPut
<1>2. CASE Accepts(t)
  <2>1. queued' = queued \union {t.id} /\ processing' = processing
    BY <1>2 DEF QPut
  <2>2. /\ \A p \in Priorities : \A n \in 1 .. Len(heap[p]) :
              n \in 1 .. Len(heap'[p]) /\ heap'[p][n] = heap[p][n]
        /\ \E p \in Priorities : \E n \in 1 .. Len(heap'[p]) : heap'[p][n] = t
    <3>1. HeapType
      BY DEF TypeInv, TypeOK, HeapType
    <3> QED  BY <1>2, <3>1, PutHeap DEF QPut
  <2>3. \A i : WaitsAs(i) => WaitsAs(i)'
    BY <2>2 DEF WaitsAs, HandsHold
  <2>4. WaitsAs(t.id)'
    BY <2>2 DEF WaitsAs
  <2>5. \A i : WorkedOn(i) => WorkedOn(i)'
    BY DEF WorkedOn, HandsHold
  <2> QED  BY <2>1, <2>3, <2>4, <2>5 DEF Backed
<1> QED  BY <1>1, <1>2

LEMMA BackedPop ==
    ASSUME TypeInv, Backed, NEW w \in Workers, Pop(w)
    PROVE  Backed'
<1>1. PICK p \in Priorities : QPop(p) /\ task' = [task EXCEPT ![w] = Head(heap[p])]
  BY DEF Pop
<1>2. /\ Head(heap[p]) = heap[p][1]
      /\ \A n \in 1 .. Len(heap[p]) :
            n = 1 \/ (n - 1 \in 1 .. Len(heap'[p]) /\ heap'[p][n - 1] = heap[p][n])
      /\ \A q \in Priorities : q # p => heap'[q] = heap[q]
  BY <1>1, PopHeap DEF QPop, Urgent, TypeInv, TypeOK, HeapType
<1>3. /\ doing[w] = "idle" /\ doing'[w] = "popped"
      /\ task'[w] = heap[p][1]
      /\ \A v \in Workers : v # w => doing'[v] = doing[v] /\ task'[v] = task[v]
      /\ queued' = queued /\ processing' = processing
  BY <1>1, <1>2 DEF Pop, Move, QPop, TypeInv, TypeOK
<1>4. ASSUME NEW i, WaitsAs(i) PROVE WaitsAs(i)'
  <2>1. ASSUME NEW q \in Priorities, NEW n \in 1 .. Len(heap[q]), heap[q][n].id = i
        PROVE  WaitsAs(i)'
    <3>1. CASE q # p
      BY <1>2, <2>1, <3>1 DEF WaitsAs
    <3>2. CASE q = p /\ n = 1
      BY <1>3, <2>1, <3>2 DEF WaitsAs
    <3>3. CASE q = p /\ n # 1
      <4>1. n - 1 \in 1 .. Len(heap'[p]) /\ heap'[p][n - 1].id = i
        BY <1>2, <2>1, <3>3
      <4> QED  BY <4>1 DEF WaitsAs
    <3> QED  BY <3>1, <3>2, <3>3
  <2>2. ASSUME NEW v \in Workers, doing[v] = "popped", task[v].id = i PROVE WaitsAs(i)'
    BY <1>3, <2>2 DEF WaitsAs
  <2> QED  BY <1>4, <2>1, <2>2 DEF WaitsAs
<1>5. \A i : WorkedOn(i) => WorkedOn(i)'
  BY <1>3 DEF WorkedOn
<1> QED  BY <1>3, <1>4, <1>5 DEF Backed

\* An id leaves a set with the task that backs it, and no other task does.
LEMMA BackedTakeMark ==
    ASSUME TypeInv, Backed, NEW w \in Workers, Take(w) \/ MarkDone(w)
    PROVE  Backed'
<1> DEFINE id == task[w].id
<1>1. CASE Take(w)
  <2>1. /\ doing[w] = "popped" /\ doing'[w] = "busy"
        /\ \A v \in Workers : v # w => doing'[v] = doing[v]
        /\ task' = task /\ heap' = heap
        /\ queued' = queued \ {id}
        /\ processing' = processing \union {id}
    BY <1>1 DEF Take, Move, QTake, TypeInv, TypeOK
  <2>2. \A i : i # id /\ WaitsAs(i) => WaitsAs(i)'
    BY <2>1 DEF WaitsAs
  <2>3. \A i : WorkedOn(i) => WorkedOn(i)'
    BY <2>1 DEF WorkedOn
  <2>4. WorkedOn(id)'
    BY <2>1 DEF WorkedOn
  <2> QED  BY <2>1, <2>2, <2>3, <2>4 DEF Backed
<1>2. CASE MarkDone(w)
  <2>1. /\ doing[w] = "served" /\ doing'[w] = "marked"
        /\ \A v \in Workers : v # w => doing'[v] = doing[v]
        /\ task' = task /\ heap' = heap /\ queued' = queued
        /\ processing' = processing \ {id}
    BY <1>2 DEF MarkDone, Move, QMarkDone, TypeInv, TypeOK
  <2>2. \A i : WaitsAs(i) => WaitsAs(i)'
    BY <2>1 DEF WaitsAs
  <2>3. \A i : i # id /\ WorkedOn(i) => WorkedOn(i)'
    BY <2>1 DEF WorkedOn
  <2> QED  BY <2>1, <2>2, <2>3 DEF Backed
<1> QED  BY <1>1, <1>2

LEMMA BackedStep == TypeInv /\ Backed /\ [Next]_vars => Backed'
<1> SUFFICES ASSUME TypeInv, Backed, [Next]_vars PROVE Backed'
  OBVIOUS
<1>1. ASSUME UNCHANGED <<doing, task>> PROVE HandsHold
  BY <1>1 DEF HandsHold
<1>2. ASSUME NEW r \in Requests, Enqueue(r) PROVE Backed'
  <2>1. AsrTask(r) \in Tasks
    BY <1>2, TaskTypes DEF Enqueue, TypeInv, Bound
  <2> QED  BY <1>1, <1>2, <2>1, BackedPut DEF Enqueue, workVars
<1>3. ASSUME NEW r \in Requests, Join(r) \/ Wake(r) \/ TimeOut(r) \/ CleanUp(r)
      PROVE  Backed'
  BY <1>1, <1>3, BackedUntouched DEF Join, Wake, TimeOut, CleanUp, queueVars, workVars
<1>4. ASSUME NEW s \in Submissions, Look(s) \/ Skip(s) PROVE Backed'
  BY <1>1, <1>4, BackedUntouched DEF Look, Skip, queueVars, workVars
<1>5. ASSUME NEW s \in Submissions, Submit(s) PROVE Backed'
  <2>1. PICK kind \in {"detect_language", "transcribe"} : QPut(FileTask(IdOf[s], kind))
    BY <1>5 DEF Submit
  <2>2. FileTask(IdOf[s], kind) \in Tasks
    BY IdOfAssumption, TaskTypes DEF Kinds
  <2> QED  BY <1>1, <1>5, <2>1, <2>2, BackedPut DEF Submit, workVars
<1>6. ASSUME NEW w \in Workers, ServeAsr(w) \/ ServeFile(w) \/ Detect(w) PROVE Backed'
  <2>1. HandsHold
    BY <1>6 DEF ServeAsr, ServeFile, Detect, Move, HandsHold, TypeInv, TypeOK
  <2> QED  BY <1>6, <2>1, BackedUntouched DEF ServeAsr, ServeFile, Detect, queueVars
<1>7. ASSUME NEW w \in Workers, Finish(w) PROVE Backed'
  <2>1. HandsHold
    BY <1>7 DEF Finish, Move, HandsHold, TypeInv, TypeOK
  <2>2. CASE next[w] = NoTask
    BY <1>7, <2>1, <2>2, BackedUntouched DEF Finish
  <2>3. CASE next[w] # NoTask
    <3>1. next[w] \in Tasks
      BY <2>3 DEF TypeInv, TypeOK
    <3> QED  BY <1>7, <2>1, <2>3, <3>1, BackedPut DEF Finish
  <2> QED  BY <2>2, <2>3
<1>8. CASE UNCHANGED vars
  BY <1>1, <1>8, BackedUntouched DEF vars, queueVars, workVars
<1> QED
  BY <1>2, <1>3, <1>4, <1>5, <1>6, <1>7, <1>8, BackedPop, BackedTakeMark
     DEF Next, Request, Submission, Worker

\* Whenever put() refuses an id there is a task of it, in the heap or with a worker
\* who will mark it done: no order of timeouts, detections that follow each other and
\* the two halves of get() leaves an id in the sets for good.
THEOREM RefusedForCause == Spec => []Backed
<1>1. Init => Backed
  BY DEF Init, QueueInit, Backed
<1> QED  BY <1>1, BackedStep, Typing, PTL DEF Spec

-----------------------------------------------------------------------------
(* The entries of task_results.                                            *)

\* An entry is filed under its request's id, so the request's own clean-up, at the
\* latest, takes it away, also when requests of the same id came and went.
LEMMA LeftoversStep == TypeInv /\ NoLeftovers /\ [Next]_vars => NoLeftovers'
<1> SUFFICES ASSUME TypeInv, NoLeftovers, [Next]_vars PROVE NoLeftovers'
  OBVIOUS
<1>0. \A r \in Requests : IdOf[r] \in Ids /\ r # NoBox
  BY IdOfAssumption, NamesAssumption
<1> USE DEF NoLeftovers, Pending
<1>1. ASSUME NEW r \in Requests, Join(r) PROVE NoLeftovers'
  <2> SUFFICES ASSUME NEW i \in Ids, results'[i] # NoBox
               PROVE  /\ IdOf[results'[i]] = i
                      /\ at'[results'[i]] \in {"joined", "waiting", "answered"}
    OBVIOUS
  <2>1. at[r] = "new" /\ at' = [at EXCEPT ![r] = "joined"]
    BY <1>1 DEF Join
  <2>2. CASE results[IdOf[r]] = NoBox /\ i = IdOf[r]
    <3>1. results'[i] = r
      BY <1>0, <1>1, <2>2 DEF Join, TypeInv, TypeOK
    <3> QED  BY <2>1, <2>2, <3>1 DEF TypeInv, TypeOK
  <2>3. CASE ~(results[IdOf[r]] = NoBox /\ i = IdOf[r])
    <3>1. results'[i] = results[i]
      BY <1>0, <1>1, <2>3 DEF Join, TypeInv, TypeOK
    <3>2. /\ results[i] \in Requests /\ IdOf[results[i]] = i
          /\ at[results[i]] \in {"joined", "waiting", "answered"}
      BY <3>1 DEF TypeInv, TypeOK, Boxes
    <3>3. at'[results[i]] = at[results[i]]
      BY <2>1, <3>2 DEF TypeInv, TypeOK
    <3> QED  BY <3>1, <3>2, <3>3
  <2> QED  BY <2>2, <2>3
<1>2. ASSUME NEW r \in Requests, Enqueue(r) \/ Wake(r) \/ TimeOut(r) PROVE NoLeftovers'
  <2>1. results' = results
    BY <1>2 DEF Enqueue, Wake, TimeOut
  <2>2. /\ at'[r] \in {"waiting", "answered"}
        /\ \A q \in Requests : q # r => at'[q] = at[q]
    BY <1>2 DEF Enqueue, Wake, TimeOut, TypeInv, TypeOK
  <2>3. \A i \in Ids : results[i] # NoBox => results[i] \in Requests
    BY DEF TypeInv, TypeOK, Boxes
  <2> QED  BY <2>1, <2>2, <2>3
<1>3. ASSUME NEW r \in Requests, CleanUp(r) PROVE NoLeftovers'
  <2>1. /\ results'[IdOf[r]] = NoBox
        /\ \A i \in Ids : i # IdOf[r] => results'[i] = results[i]
        /\ \A q \in Requests : q # r => at'[q] = at[q]
    BY <1>0, <1>3 DEF CleanUp, TypeInv, TypeOK
  <2>2. \A i \in Ids : results[i] # NoBox => results[i] \in Requests
    BY DEF TypeInv, TypeOK, Boxes
  <2> QED  BY <2>1, <2>2
<1>4. ASSUME NEW s \in Submissions, Submission(s) PROVE NoLeftovers'
  BY <1>4 DEF Submission, Look, Skip, Submit, requestVars
<1>5. ASSUME NEW w \in Workers, Worker(w) PROVE NoLeftovers'
  BY <1>5 DEF Worker, Pop, Take, ServeAsr, ServeFile, Detect, MarkDone, Finish, requestVars
<1>6. CASE UNCHANGED vars
  BY <1>6 DEF vars, requestVars
<1> QED  BY <1>1, <1>2, <1>3, <1>4, <1>5, <1>6 DEF Next, Request

\* task_results holds nothing but entries of requests that are under way.
THEOREM LeftoversTheorem == Spec => []NoLeftovers
<1>1. Init => NoLeftovers
  BY DEF Init, NoLeftovers
<1> QED  BY <1>1, LeftoversStep, Typing, PTL DEF Spec

-----------------------------------------------------------------------------
(* A request that queued its own task.                                     *)

\* A put leaves in play what is in play, and brings in what it accepts.
LEMMA PutInPlay ==
    ASSUME TypeInv, NEW t \in Tasks, QPut(t), NEW u
    PROVE  /\ InHeap(u) => InHeap(u)'
           /\ Accepts(t) => InHeap(t)'
<1>1. HeapType
  BY DEF TypeInv, TypeOK, HeapType
<1>2. CASE Accepts(t)
  BY <1>1, <1>2, PutHeap DEF QPut, InHeap
<1>3. CASE ~Accepts(t)
  BY <1>3 DEF QPut, queueVars, InHeap
<1> QED  BY <1>2, <1>3

\* The task that w pops is in its hand, the others are still in the heap.
LEMMA PopInPlay ==
    ASSUME TypeInv, NEW w \in Workers, Pop(w), NEW u, InHeap(u)
    PROVE  InHeap(u)' \/ Holds(w, u)'
<1>1. PICK p \in Priorities : QPop(p) /\ task' = [task EXCEPT ![w] = Head(heap[p])]
  BY DEF Pop
<1>2. HeapType
  BY DEF TypeInv, TypeOK, HeapType
<1>3. /\ Head(heap[p]) = heap[p][1]
      /\ \A n \in 1 .. Len(heap[p]) :
            n = 1 \/ (n - 1 \in 1 .. Len(heap'[p]) /\ heap'[p][n - 1] = heap[p][n])
      /\ \A q \in Priorities : q # p => heap'[q] = heap[q]
  BY <1>1, <1>2, PopHeap DEF QPop, Urgent
<1>4. PICK q \in Priorities : \E n \in 1 .. Len(heap[q]) : heap[q][n] = u
  BY DEF InHeap
<1>5. PICK n \in 1 .. Len(heap[q]) : heap[q][n] = u
  BY <1>4
<1>6. CASE q = p /\ n = 1
  <2>1. task'[w] = u /\ doing'[w] = "popped"
    BY <1>1, <1>3, <1>5, <1>6 DEF Pop, Move, TypeInv, TypeOK
  <2> QED  BY <2>1 DEF Holds
<1>7. CASE ~(q = p /\ n = 1)
  BY <1>3, <1>5, <1>7 DEF InHeap
<1> QED  BY <1>6, <1>7

\* A set TaskResult stays set, whatever happens.
LEMMA DoneStays ==
    ASSUME TypeInv, [Next]_vars, NEW b \in Boxes, box[b].done
    PROVE  box'[b].done
<1>1. box \in [Boxes -> BoxRecord]
  BY DEF TypeInv, TypeOK, BoxRecord
<1>2. ASSUME NEW w \in Workers, ServeAsr(w) \/ ServeFile(w) PROVE box'[b].done
  <2>1. task[w].want \in Wants
    BY <1>2, TaskFields DEF ServeAsr, ServeFile, Move, TypeInv, Bound
  <2> QED  BY <1>1, <1>2, <2>1, SetBox DEF ServeAsr, ServeFile
<1>3. CASE UNCHANGED box
  BY <1>3
<1> QED
  BY <1>2, <1>3
     DEF Next, Request, Join, Enqueue, Wake, TimeOut, CleanUp, Submission, Look, Skip, Submit,
         Worker, Pop, Take, Detect, MarkDone, Finish, vars, requestVars

\* A task in play stays in play until the TaskResult that came with it is set: only
\* puts, pops and the worker's own steps move it, and the worker that has it sets that
\* TaskResult, not the one that is now filed under the id.
LEMMA PlayStep ==
    ASSUME TypeInv, [Next]_vars,
           NEW u \in Tasks, u.kind = "asr", u.box \in Boxes, InPlay(u)
    PROVE  box'[u.box].done \/ InPlay(u)'
<1>1. ASSUME NEW t \in Tasks, QPut(t), HandsKept,
             \A v \in Workers : Holds(v, u) => Holds(v, u)'
      PROVE  InPlay(u)'
  BY <1>1, PutInPlay DEF InPlay
<1>2. ASSUME UNCHANGED heap, \A v \in Workers : Holds(v, u) => Holds(v, u)'
      PROVE  InPlay(u)'
  BY <1>2 DEF InPlay, InHeap
<1>3. ASSUME UNCHANGED <<doing, task>>
      PROVE  HandsKept /\ \A v \in Workers : Holds(v, u) => Holds(v, u)'
  BY <1>3 DEF HandsKept, InHand, Holds
<1>4. ASSUME NEW r \in Requests, Enqueue(r) PROVE InPlay(u)'
  <2>1. AsrTask(r) \in Tasks
    BY <1>4, TaskTypes DEF Enqueue, TypeInv, Bound
  <2> QED  BY <1>1, <1>3, <1>4, <2>1 DEF Enqueue, workVars
<1>5. ASSUME NEW r \in Requests, Join(r) \/ Wake(r) \/ TimeOut(r) \/ CleanUp(r)
      PROVE  InPlay(u)'
  BY <1>2, <1>3, <1>5 DEF Join, Wake, TimeOut, CleanUp, queueVars, workVars
<1>6. ASSUME NEW s \in Submissions, Look(s) \/ Skip(s) PROVE InPlay(u)'
  BY <1>2, <1>3, <1>6 DEF Look, Skip, queueVars, workVars
<1>7. ASSUME NEW s \in Submissions, Submit(s) PROVE InPlay(u)'
  <2>1. PICK kind \in {"detect_language", "transcribe"} : QPut(FileTask(IdOf[s], kind))
    BY <1>7 DEF Submit
  <2>2. FileTask(IdOf[s], kind) \in Tasks
    BY IdOfAssumption, TaskTypes DEF Kinds
  <2> QED  BY <1>1, <1>3, <1>7, <2>1, <2>2 DEF Submit, workVars
<1>8. ASSUME NEW w \in Workers, Pop(w) PROVE InPlay(u)'
  <2>1. \A v \in Workers : Holds(v, u) => Holds(v, u)'
    BY <1>8 DEF Pop, Move, Holds, TypeInv, TypeOK
  <2>2. InHeap(u) => InHeap(u)' \/ Holds(w, u)'
    BY <1>8, PopInPlay
  <2> QED  BY <2>1, <2>2 DEF InPlay
<1>9. ASSUME NEW w \in Workers, Take(w) PROVE InPlay(u)'
  <2>1. \A v \in Workers : Holds(v, u) => Holds(v, u)'
    BY <1>9 DEF Take, Move, Holds, TypeInv, TypeOK
  <2> QED  BY <1>2, <1>9, <2>1 DEF Take, QTake
<1>10. ASSUME NEW w \in Workers, ServeAsr(w) \/ ServeFile(w) \/ Detect(w)
       PROVE  box'[u.box].done \/ InPlay(u)'
  <2>1. CASE Holds(w, u)
    <3>1. ServeAsr(w) /\ task[w] = u /\ u.want \in Wants
      BY <1>10, <2>1, TaskFields DEF ServeAsr, ServeFile, Detect, Holds
    <3>2. Set(u.box, u.want) /\ box \in [Boxes -> BoxRecord]
      BY <3>1 DEF ServeAsr, TypeInv, TypeOK, BoxRecord
    <3> QED  BY <3>1, <3>2, SetBox
  <2>2. CASE ~Holds(w, u)
    <3>1. \A v \in Workers : Holds(v, u) => Holds(v, u)'
      BY <1>10, <2>2 DEF ServeAsr, ServeFile, Detect, Move, Holds, TypeInv, TypeOK
    <3> QED  BY <1>2, <1>10, <3>1 DEF ServeAsr, ServeFile, Detect, queueVars
  <2> QED  BY <2>1, <2>2
<1>11. ASSUME NEW w \in Workers, MarkDone(w) PROVE InPlay(u)'
  <2>1. \A v \in Workers : Holds(v, u) => Holds(v, u)'
    BY <1>11 DEF MarkDone, Move, Holds, TypeInv, TypeOK
  <2> QED  BY <1>2, <1>11, <2>1 DEF MarkDone, QMarkDone
<1>12. ASSUME NEW w \in Workers, Finish(w) PROVE InPlay(u)'
  <2>1. HandsKept /\ \A v \in Workers : Holds(v, u) => Holds(v, u)'
    BY <1>12 DEF Finish, Move, HandsKept, InHand, Holds, TypeInv, TypeOK
  <2>2. CASE next[w] = NoTask
    BY <1>2, <1>12, <2>1, <2>2 DEF Finish, queueVars
  <2>3. CASE next[w] # NoTask
    <3>1. next[w] \in Tasks
      BY <2>3 DEF TypeInv, TypeOK
    <3> QED  BY <1>1, <1>12, <2>1, <2>3, <3>1 DEF Finish
  <2> QED  BY <2>2, <2>3
<1>13. CASE UNCHANGED vars
  BY <1>2, <1>3, <1>13 DEF vars, queueVars, workVars
<1> QED
  BY <1>4, <1>5, <1>6, <1>7, <1>8, <1>9, <1>10, <1>11, <1>12, <1>13
     DEF Next, Request, Submission, Worker

LEMMA OwnerStep == TypeInv /\ OwnerServed /\ [Next]_vars => OwnerServed'
<1> SUFFICES ASSUME TypeInv, OwnerServed, [Next]_vars,
                    NEW r \in Requests, at'[r] = "waiting", owns'[r]
             PROVE  box'[uses'[r]].done \/ InPlay(AsrTask(r))'
  BY DEF OwnerServed
<1>1. CASE Enqueue(r)
  <2>1. PICK t : t = AsrTask(r)
    OBVIOUS
  <2>2. t = AsrTask(r)' /\ t \in Tasks /\ QPut(t)
    BY <1>1, <2>1, TaskTypes DEF Enqueue, AsrTask, TypeInv, Bound
  <2>3. Accepts(t)
    BY <1>1, <2>1 DEF Enqueue, TypeInv, TypeOK
  <2>4. InHeap(t)'
    BY <2>2, <2>3, PutInPlay
  <2> QED  BY <2>2, <2>4 DEF InPlay
<1>2. CASE ~Enqueue(r)
  <2>1. at[r] = "waiting" /\ owns[r] /\ uses'[r] = uses[r]
    BY <1>2
       DEF Next, Request, Join, Enqueue, Wake, TimeOut, CleanUp, Submission, Look, Skip,
           Submit, Worker, Pop, Take, ServeAsr, ServeFile, Detect, MarkDone, Finish, vars,
           requestVars, TypeInv, TypeOK
  <2>2. PICK t : t = AsrTask(r)
    OBVIOUS
  <2>3. t = AsrTask(r)' /\ t \in Tasks /\ t.kind = "asr" /\ t.box = uses[r] /\ uses[r] \in Boxes
    BY <2>1, <2>2, TaskTypes DEF AsrTask, TypeInv, Bound
  <2>4. CASE box[uses[r]].done
    BY <2>1, <2>3, <2>4, DoneStays
  <2>5. CASE InPlay(t)
    BY <2>1, <2>3, <2>5, PlayStep
  <2> QED  BY <2>1, <2>2, <2>4, <2>5 DEF OwnerServed
<1> QED  BY <1>1, <1>2

\* Whoever queued a task gets its TaskResult set or has the task in play: no other
\* request of the id, in time or timed out, and no submission can take it away.
THEOREM OwnerTheorem == Spec => []OwnerServed
<1>1. Init => OwnerServed
  BY DEF Init, OwnerServed
<1> QED  BY <1>1, OwnerStep, Typing, PTL DEF Spec

-----------------------------------------------------------------------------
(* The queue implements the abstract service (module TaskService).  A pop  *)
(* is the service's Begin, a mark_done its End, a put that is accepted its *)
(* Submit; the second half of get() and everything else is invisible.      *)
(* Beside QueueInv, what is needed is that a task waits under the priority *)
(* of its kind.                                                            *)

Placed == \A p \in Priorities : \A n \in 1 .. Len(heap[p]) : Priority(heap[p][n].kind) = p

\* A put keeps tasks under their priorities.
LEMMA PutPlaced ==
    ASSUME TypeInv, Placed, NEW t \in Tasks, QPut(t)
    PROVE  Placed'
<1>1. HeapType
  BY DEF TypeInv, TypeOK, HeapType
<1>2. CASE Accepts(t)
  BY <1>1, <1>2, PutHeap DEF QPut, Placed
<1>3. CASE ~Accepts(t)
  BY <1>3 DEF QPut, queueVars, Placed
<1> QED  BY <1>2, <1>3

LEMMA PlacedStep == TypeInv /\ Placed /\ [Next]_vars => Placed'
<1> SUFFICES ASSUME TypeInv, Placed, [Next]_vars PROVE Placed'
  OBVIOUS
<1>1. ASSUME NEW r \in Requests, Enqueue(r) PROVE Placed'
  <2>1. AsrTask(r) \in Tasks
    BY <1>1, TaskTypes DEF Enqueue, TypeInv, Bound
  <2> QED  BY <1>1, <2>1, PutPlaced DEF Enqueue
<1>2. ASSUME NEW s \in Submissions, Submit(s) PROVE Placed'
  <2>1. PICK kind \in {"detect_language", "transcribe"} : QPut(FileTask(IdOf[s], kind))
    BY <1>2 DEF Submit
  <2>2. FileTask(IdOf[s], kind) \in Tasks
    BY IdOfAssumption, TaskTypes DEF Kinds
  <2> QED  BY <2>1, <2>2, PutPlaced
<1>3. ASSUME NEW w \in Workers, Finish(w) PROVE Placed'
  <2>1. CASE next[w] = NoTask
    BY <1>3, <2>1 DEF Finish, queueVars, Placed
  <2>2. CASE next[w] # NoTask
    <3>1. next[w] \in Tasks
      BY <2>2 DEF TypeInv, TypeOK
    <3> QED  BY <1>3, <2>2, <3>1, PutPlaced DEF Finish
  <2> QED  BY <2>1, <2>2
<1>4. ASSUME NEW w \in Workers, Pop(w) PROVE Placed'
  <2>1. PICK p \in Priorities : QPop(p)
    BY <1>4 DEF Pop
  <2>2. HeapType
    BY DEF TypeInv, TypeOK, HeapType
  <2>3. /\ \A n \in 1 .. Len(heap'[p]) :
              n + 1 \in 1 .. Len(heap[p]) /\ heap'[p][n] = heap[p][n + 1]
        /\ \A q \in Priorities : q # p => heap'[q] = heap[q]
    BY <2>1, <2>2, PopHeap DEF QPop, Urgent
  <2>4. \A n \in 1 .. Len(heap'[p]) : Priority(heap'[p][n].kind) = p
    BY <2>3 DEF Placed
  <2>5. \A q \in Priorities : q # p =>
           \A n \in 1 .. Len(heap'[q]) : Priority(heap'[q][n].kind) = q
    BY <2>3 DEF Placed
  <2>6. \A k : Priority(k)' = Priority(k)
    BY DEF Priority
  <2> QED  BY <2>4, <2>5, <2>6 DEF Placed
<1>5. CASE UNCHANGED heap
  BY <1>5 DEF Placed
<1> QED
  BY <1>1, <1>2, <1>3, <1>4, <1>5
     DEF Next, Request, Join, Wake, TimeOut, CleanUp, Submission, Look, Skip, Worker, Take,
         QTake, ServeAsr, ServeFile, Detect, MarkDone, QMarkDone, vars, queueVars

ServiceStep == [Service!Next]_<<Waiting, Hand>>

\* The keys that wait, elementwise.
LEMMA WaitingKeys ==
    \A k : k \in Waiting <=>
        \E p \in Priorities : \E n \in 1 .. Len(heap[p]) : k = Key(heap[p][n])
BY DEF Waiting, KeysOf

LEMMA WaitingKeysNext ==
    \A k : k \in Waiting' <=>
        \E p \in Priorities : \E n \in 1 .. Len(heap'[p]) : k = Key(heap'[p][n])
BY DEF Waiting, KeysOf, Key

\* Hands that hold the same tasks look the same.
LEMMA SameHands ==
    ASSUME \A w \in Workers :
              /\ InHand(w)' <=> InHand(w)
              /\ InHand(w) => task'[w] = task[w]
    PROVE  Hand' = Hand
BY DEF Hand, Key

\* A put is a Submit, or nothing.
LEMMA PutSubmits ==
    ASSUME TypeInv, QueueInv, NEW t \in Tasks, QPut(t), Hand' = Hand
    PROVE  ServiceStep
<1>1. CASE ~Accepts(t)
  <2>1. Waiting' = Waiting
    BY <1>1 DEF QPut, queueVars, Waiting, KeysOf, Key
  <2> QED  BY <2>1 DEF ServiceStep
<1>2. CASE Accepts(t)
  <2>1. HeapType
    BY DEF TypeInv, TypeOK, HeapType
  <2>2. /\ \A p \in Priorities : \A n \in 1 .. Len(heap'[p]) :
              (n \in 1 .. Len(heap[p]) /\ heap'[p][n] = heap[p][n]) \/ heap'[p][n] = t
        /\ \A p \in Priorities : \A n \in 1 .. Len(heap[p]) :
              n \in 1 .. Len(heap'[p]) /\ heap'[p][n] = heap[p][n]
        /\ \E p \in Priorities : \E n \in 1 .. Len(heap'[p]) : heap'[p][n] = t
    BY <1>2, <2>1, PutHeap DEF QPut
  <2>3. Waiting' = Waiting \union {Key(t)}
    <3>1. \A k \in Waiting' : k \in Waiting \/ k = Key(t)
      BY <2>2, WaitingKeys, WaitingKeysNext
    <3>2. \A k \in Waiting : k \in Waiting'
      BY <2>2, WaitingKeys, WaitingKeysNext
    <3>3. Key(t) \in Waiting'
      BY <2>2, WaitingKeysNext
    <3> QED  BY <3>1, <3>2, <3>3
  <2>4. t.id \notin queued /\ t.id \notin processing
    BY <1>2 DEF Accepts, Known
  <2>5. \A u \in Waiting : u.id # t.id
    BY <2>4, WaitingKeys DEF QueueInv, Named, Key
  <2>6. \A w \in Workers : \A u \in Hand[w] : u.id # t.id
    BY <2>4 DEF QueueInv, Named, Hand, InHand, Key
  <2>7. Key(t) \in Service!Tasks /\ Key(t).id = t.id
    BY TaskFields DEF Key, Service!Tasks, Kinds
  <2>8. Service!Submit(Key(t))
    BY <2>3, <2>5, <2>6, <2>7 DEF Service!Submit, Service!InPlay
  <2> QED  BY <2>7, <2>8 DEF ServiceStep, Service!Next
<1> QED  BY <1>1, <1>2

\* The order of priorities is the order of urgency.
LEMMA UrgencyIsPriority ==
    \A k, l \in Kinds : Service!MoreUrgent(k, l) => Priority(k) < Priority(l)
BY DEF Kinds, Service!MoreUrgent, Priority

\* A pop is a Begin.
LEMMA PopBegins ==
    ASSUME TypeInv, QueueInv, Placed, NEW w \in Workers, Pop(w)
    PROVE  ServiceStep
<1>1. PICK p \in Priorities : QPop(p) /\ task' = [task EXCEPT ![w] = Head(heap[p])]
  BY DEF Pop
<1> DEFINE t == heap[p][1]
<1>2. HeapType
  BY DEF TypeInv, TypeOK, HeapType
<1>3. /\ Head(heap[p]) = t /\ 1 \in 1 .. Len(heap[p]) /\ t \in Tasks
      /\ \A n \in 1 .. Len(heap'[p]) :
            n + 1 \in 1 .. Len(heap[p]) /\ heap'[p][n] = heap[p][n + 1]
      /\ \A n \in 1 .. Len(heap[p]) :
            n = 1 \/ (n - 1 \in 1 .. Len(heap'[p]) /\ heap'[p][n - 1] = heap[p][n])
      /\ \A q \in Priorities : q # p => heap'[q] = heap[q]
  BY <1>1, <1>2, PopHeap DEF QPop, Urgent
<1>4. /\ doing[w] = "idle" /\ doing'[w] = "popped" /\ task'[w] = t
      /\ \A v \in Workers : v # w => doing'[v] = doing[v] /\ task'[v] = task[v]
  BY <1>1, <1>3 DEF Pop, Move, TypeInv, TypeOK
<1>5. Hand[w] = {} /\ Hand' = [Hand EXCEPT ![w] = {Key(t)}]
  BY <1>4 DEF Hand, InHand, Key
<1>6. Waiting' = Waiting \ {Key(t)}
  <2>1. \A k \in Waiting' : k \in Waiting /\ k # Key(t)
    <3> SUFFICES ASSUME NEW k \in Waiting' PROVE k \in Waiting /\ k # Key(t)
      OBVIOUS
    <3>1. PICK q \in Priorities : \E n \in 1 .. Len(heap'[q]) : k = Key(heap'[q][n])
      BY WaitingKeysNext
    <3>2. PICK n \in 1 .. Len(heap'[q]) : k = Key(heap'[q][n])
      BY <3>1
    <3>3. PICK m \in 1 .. Len(heap[q]) : heap'[q][n] = heap[q][m] /\ (q # p \/ m = n + 1)
      BY <1>3
    <3>4. ~(q = p /\ m = 1)
      BY <3>3
    <3>5. heap[q][m].id # heap[p][1].id
      BY <1>3, <3>4 DEF QueueInv, HeapDistinct
    <3> QED  BY <3>2, <3>3, <3>5, WaitingKeys DEF Key
  <2>2. \A k \in Waiting : k = Key(t) \/ k \in Waiting'
    BY <1>3, WaitingKeys, WaitingKeysNext
  <2> QED  BY <2>1, <2>2
<1>7. Key(t) \in Waiting
  BY <1>3, WaitingKeys
<1>8. \A u \in Waiting : ~Service!MoreUrgent(u.kind, Key(t).kind)
  <2> SUFFICES ASSUME NEW u \in Waiting, Service!MoreUrgent(u.kind, t.kind) PROVE FALSE
    BY DEF Key
  <2>1. PICK q \in Priorities : \E n \in 1 .. Len(heap[q]) : u = Key(heap[q][n])
    BY WaitingKeys
  <2>2. PICK n \in 1 .. Len(heap[q]) : u = Key(heap[q][n])
    BY <2>1
  <2>3. u.kind \in Kinds /\ t.kind \in Kinds /\ heap[q] # << >>
    <3>1. heap[q] \in Seq(Tasks) /\ heap[q][n] \in Tasks
      BY <1>2, <2>2 DEF HeapType
    <3> QED  BY <1>3, <2>2, <3>1, TaskFields, EmptySeq DEF Key
  <2>4. Priority(u.kind) = q /\ Priority(t.kind) = p
    BY <1>3, <2>2 DEF Placed, Key
  <2>5. q < p
    BY <2>3, <2>4, UrgencyIsPriority
  <2> QED  BY <1>1, <2>3, <2>5 DEF QPop, Urgent
<1>9. Service!Begin(w, Key(t))
  BY <1>5, <1>6, <1>7, <1>8 DEF Service!Begin
<1> QED  BY <1>7, <1>9 DEF ServiceStep, Service!Next

\* Every step of the program is a step of the service or leaves it alone.
LEMMA StepRefines == TypeInv /\ QueueInv /\ Placed /\ [Next]_vars => ServiceStep
<1> SUFFICES ASSUME TypeInv, QueueInv, Placed, [Next]_vars PROVE ServiceStep
  OBVIOUS
<1>1. ASSUME UNCHANGED heap PROVE Waiting' = Waiting
  BY <1>1 DEF Waiting, KeysOf, Key
<1>2. ASSUME UNCHANGED <<doing, task>> PROVE Hand' = Hand
  BY <1>2 DEF Hand, InHand, Key
<1>3. ASSUME UNCHANGED <<heap, doing, task>> PROVE ServiceStep
  BY <1>1, <1>2, <1>3 DEF ServiceStep
<1>4. ASSUME NEW r \in Requests, Enqueue(r) PROVE ServiceStep
  <2>1. AsrTask(r) \in Tasks
    BY <1>4, TaskTypes DEF Enqueue, TypeInv, Bound
  <2> QED  BY <1>2, <1>4, <2>1, PutSubmits DEF Enqueue, workVars
<1>5. ASSUME NEW r \in Requests, Join(r) \/ Wake(r) \/ TimeOut(r) \/ CleanUp(r)
      PROVE  ServiceStep
  BY <1>3, <1>5 DEF Join, Wake, TimeOut, CleanUp, queueVars, workVars
<1>6. ASSUME NEW s \in Submissions, Look(s) \/ Skip(s) PROVE ServiceStep
  BY <1>3, <1>6 DEF Look, Skip, queueVars, workVars
<1>7. ASSUME NEW s \in Submissions, Submit(s) PROVE ServiceStep
  <2>1. PICK kind \in {"detect_language", "transcribe"} : QPut(FileTask(IdOf[s], kind))
    BY <1>7 DEF Submit
  <2>2. FileTask(IdOf[s], kind) \in Tasks
    BY IdOfAssumption, TaskTypes DEF Kinds
  <2> QED  BY <1>2, <1>7, <2>1, <2>2, PutSubmits DEF Submit, workVars
<1>8. ASSUME NEW w \in Workers, Take(w) \/ ServeAsr(w) \/ ServeFile(w) \/ Detect(w)
      PROVE  ServiceStep
  <2>1. Hand' = Hand
    BY <1>8, SameHands
       DEF Take, ServeAsr, ServeFile, Detect, Move, InHand, TypeInv, TypeOK
  <2>2. UNCHANGED heap
    BY <1>8 DEF Take, QTake, ServeAsr, ServeFile, Detect, queueVars
  <2> QED  BY <1>1, <2>1, <2>2 DEF ServiceStep
<1>9. ASSUME NEW w \in Workers, MarkDone(w) PROVE ServiceStep
  <2>1. /\ doing[w] = "served" /\ doing'[w] = "marked"
        /\ \A v \in Workers : v # w => doing'[v] = doing[v]
        /\ task' = task /\ heap' = heap
    BY <1>9 DEF MarkDone, Move, QMarkDone, TypeInv, TypeOK
  <2>2. Hand[w] # {} /\ Hand' = [Hand EXCEPT ![w] = {}]
    BY <2>1 DEF Hand, InHand, Key
  <2> QED  BY <1>1, <2>1, <2>2 DEF ServiceStep, Service!Next, Service!End
<1>10. ASSUME NEW w \in Workers, Finish(w) PROVE ServiceStep
  <2>1. Hand' = Hand
    <3>1. \A v \in Workers :
            /\ InHand(v)' <=> InHand(v)
            /\ InHand(v) => task'[v] = task[v]
      BY <1>10 DEF Finish, Move, InHand, TypeInv, TypeOK
    <3> QED  BY <3>1, SameHands
  <2>2. CASE next[w] = NoTask
    BY <1>1, <1>10, <2>1, <2>2 DEF Finish, queueVars, ServiceStep
  <2>3. CASE next[w] # NoTask
    <3>1. next[w] \in Tasks
      BY <2>3 DEF TypeInv, TypeOK
    <3> QED  BY <1>10, <2>1, <2>3, <3>1, PutSubmits DEF Finish
  <2> QED  BY <2>2, <2>3
<1>11. CASE UNCHANGED vars
  BY <1>3, <1>11 DEF vars, queueVars, workVars
<1> QED
  BY <1>4, <1>5, <1>6, <1>7, <1>8, <1>9, <1>10, <1>11, PopBegins
     DEF Next, Request, Submission, Worker

\* The queue in two steps and two sets is an atomic queue to those who use it.
THEOREM Refinement == Spec => ImplementsService
<1>1. Init => Service!Init
  BY DEF Init, QueueInit, Service!Init, Waiting, KeysOf, Hand, InHand, Priorities
<1>2. Init => QueueInv /\ Placed
  BY DEF Init, QueueInit, QueueInv, Named, HeapDistinct, HandsDistinct, HandsEmptied,
         InHand, Placed, Priorities
<1> QED
  BY <1>1, <1>2, QueueStep, PlacedStep, StepRefines, Typing, PTL
     DEF Spec, ImplementsService, Service!Spec, ServiceStep

=============================================================================
