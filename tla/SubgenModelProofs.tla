-------------------------- MODULE SubgenModelProofs --------------------------
(***************************************************************************)
(* Theorems about SubgenModel, for any tasks, workers and detections and   *)
(* any number of failing loads and unloads: typing, that one copy of the   *)
(* model is loaded at a time, that it is cleared only when nothing is at   *)
(* work, that no lock outlives its holder's work, and that a model nobody  *)
(* uses any more has a timer that will look at it.                         *)
(***************************************************************************)
EXTENDS SubgenModel, SequenceTheorems, FiniteSetTheorems, TLAPS

Tasks == {Task(id) : id \in Ids}

\* From start_model to the end of the transcription.
Serving == {"starting", "loading", "ready", "using", "ending"}

---------------------------------------------------------------------------
(* The inductive invariants.                                               *)

\* Where workers and detections can be, and that who is not idle has a task.
Places ==
    /\ \A w \in Workers :
          /\ at[w] \in Serving \union {"idle", "popped", "served", "leaving", "scheduling"}
          /\ at[w] # "idle" => task[w] \in Tasks
    /\ \A d \in Detections :
          at[d] \in Serving \union {"new", "leaving", "scheduling", "gone"}

\* active_direct_tasks counts the detections.
Detecting == {d \in Detections : at[d] \in Serving}
Counted == active = Cardinality(Detecting)

TypeInv == TypeOK /\ Places /\ Counted

\* A task is in one place: not yet submitted, in the heap, or with one worker, who
\* has reported it to the queue as long as he is at work on it.
Holds(h, t) == \E p \in Priorities : \E n \in 1 .. Len(h[p]) : h[p][n] = t

OncePlaced ==
    /\ \A p, q \in Priorities :
          \A n \in 1 .. Len(heap[p]), m \in 1 .. Len(heap[q]) :
              heap[p][n] = heap[q][m] => p = q /\ n = m
    /\ \A id \in Ids : Holds(heap, Task(id)) => id \notin processing
    /\ \A id \in waiting :
          /\ id \notin queued \union processing
          /\ ~ Holds(heap, Task(id))
          /\ \A w \in Workers : task[w] # Task(id)
    /\ \A w \in Workers : ~ Holds(heap, task[w])
    /\ \A w, v \in Workers : task[w] = task[v] /\ task[w] # NoTask => w = v

Reported ==
    \A w \in Workers :
        /\ at[w] \in Serving \union {"served"} => task[w].id \in processing
        /\ at[w] \in {"popped", "leaving", "scheduling"} => task[w].id \notin processing

\* Who loads holds model_load_lock and has found no model; who clears holds
\* model_cleanup_lock, and the model is what its last assignment left.
Clearing == {"clearing", "deleting", "assigning", "closing"}

Locked ==
    /\ \A u \in Users : at[u] = "loading" => loader = u /\ model = "none"
    /\ \A t \in Timers :
          /\ timer[t] \in Clearing => cleaner = t
          /\ timer[t] = "deleting" => model = "unloaded"
          /\ timer[t] = "assigning" => model = "undefined"

\* A lock has a holder only while he is inside, and the model is neither loaded nor
\* None only between two assignments of a cleanup.
Released ==
    /\ loader # Nobody => loader \in Users /\ at[loader] = "loading"
    /\ cleaner # Nobody => cleaner \in Timers /\ timer[cleaner] \in Clearing
    /\ model = "unloaded" => \E t \in Timers : timer[t] = "deleting"
    /\ model = "undefined" => \E t \in Timers : timer[t] = "assigning"

\* Somebody is at work on whatever is being processed.
Accounted ==
    \A id \in processing :
        \E w \in Workers : at[w] \in Serving \union {"served"} /\ task[w].id = id

\* A model that nobody uses has a timer that will still look at it.
Watching == {"armed", "fired", "clearing"}
Remembered ==
    model = "loaded" /\ Quiet /\ failures = 0 => \E t \in Timers : timer[t] \in Watching

---------------------------------------------------------------------------
(* Tasks and the heap.                                                     *)

LEMMA TaskFields ==
    /\ \A id \in Ids : Task(id) \in Tasks /\ Task(id).id = id /\ Priority(Task(id).kind) = 1
    /\ \A t \in Tasks : t.id \in Ids /\ t = Task(t.id) /\ t # NoTask
    /\ NoTask \notin Tasks
BY ModelAssumption DEF Tasks, Task, Priority

LEMMA Numbers ==
    /\ MaxTimers \in Nat
    /\ \A t \in Timers : t \in Nat /\ t # NoTimer /\ t # Nobody
    /\ Nobody \notin Users /\ Users = Workers \union Detections
<1>1. Cardinality(Ids) \in Nat /\ Cardinality(Detections) \in Nat
  BY ModelAssumption, FS_CardinalityType
<1>2. MaxTimers \in Nat
  BY <1>1 DEF MaxTimers
<1> QED  BY <1>2, ModelAssumption DEF Timers, NoTimer, Users

HeapType == heap \in [Priorities -> Seq(Tasks)]

\* A submitted task goes to the end of its priority; the others keep their place.
LEMMA PutHeap ==
    ASSUME HeapType, NEW t \in Tasks,
           heap' = [heap EXCEPT ![Priority(t.kind)] = Append(@, t)]
    PROVE  /\ HeapType'
           /\ Len(heap'[1]) = Len(heap[1]) + 1 /\ heap'[1][Len(heap[1]) + 1] = t
           /\ Len(heap[1]) \in Nat
           /\ \A n \in 1 .. Len(heap[1]) : heap'[1][n] = heap[1][n]
           /\ \A p \in Priorities : p # 1 => heap'[p] = heap[p]
<1>1. Priority(t.kind) = 1 /\ 1 \in Priorities
  BY TaskFields DEF Priorities
<1>2. heap[1] \in Seq(Tasks)
  BY <1>1 DEF HeapType
<1>3. /\ heap'[1] = Append(heap[1], t)
      /\ \A p \in Priorities : p # 1 => heap'[p] = heap[p]
  BY <1>1 DEF HeapType
<1>4. HeapType'
  BY <1>1, <1>2 DEF HeapType
<1> QED  BY <1>2, <1>3, <1>4

\* The head of a priority is taken, the tasks behind it move up.
LEMMA PopHeap ==
    ASSUME HeapType, NEW p \in Priorities, heap[p] # << >>,
           heap' = [heap EXCEPT ![p] = Tail(@)]
    PROVE  /\ HeapType'
           /\ Head(heap[p]) = heap[p][1] /\ heap[p][1] \in Tasks
           /\ Len(heap[p]) \in Nat /\ Len(heap[p]) > 0
           /\ Len(heap'[p]) = Len(heap[p]) - 1
           /\ \A n \in 1 .. Len(heap'[p]) : heap'[p][n] = heap[p][n + 1]
           /\ \A q \in Priorities : q # p => heap'[q] = heap[q]
<1>1. heap[p] \in Seq(Tasks)
  BY DEF HeapType
<1>2. heap'[p] = Tail(heap[p]) /\ \A q \in Priorities : q # p => heap'[q] = heap[q]
  BY DEF HeapType
<1>3. /\ Head(heap[p]) \in Tasks
      /\ Tail(heap[p]) \in Seq(Tasks)
      /\ Len(Tail(heap[p])) = Len(heap[p]) - 1
      /\ \A n \in 1 .. Len(Tail(heap[p])) : Tail(heap[p])[n] = heap[p][n + 1]
  BY <1>1, HeadTailProperties
<1>4. Len(heap[p]) \in Nat /\ Len(heap[p]) > 0
  BY <1>1, EmptySeq
<1>5. Head(heap[p]) = heap[p][1]
  BY <1>1
<1>6. HeapType'
  BY <1>3 DEF HeapType
<1> QED  BY <1>2, <1>3, <1>4, <1>5, <1>6, Zenon

---------------------------------------------------------------------------
(* Types.                                                                  *)

\* A user goes from one place to another: who is counted stays counted.
LEMMA MoveKeeps ==
    ASSUME TypeInv, NEW u \in Users, NEW x, at' = [at EXCEPT ![u] = x],
           UNCHANGED <<task, active>>,
           x \in Serving \union {"idle", "served", "leaving", "scheduling", "gone"},
           u \in Workers => x # "gone" /\ (x = "idle" \/ at[u] # "idle"),
           u \in Detections => /\ x \notin {"idle", "served"}
                               /\ x \in Serving <=> at[u] \in Serving
    PROVE  /\ at' \in [Users -> Serving \union {"idle", "new", "popped", "served",
                        "leaving", "scheduling", "gone"}]
           /\ Places'
           /\ Counted'
<1>0. /\ at \in [Users -> Serving \union {"idle", "new", "popped", "served",
                        "leaving", "scheduling", "gone"}]
      /\ Users = Workers \union Detections
      /\ Workers \intersect Detections = {}
  BY ModelAssumption, Numbers DEF TypeInv, TypeOK, Serving
<1>1. at' \in [Users -> Serving \union {"idle", "new", "popped", "served",
                        "leaving", "scheduling", "gone"}]
  BY <1>0
<1>2. \A v \in Users : at'[v] = IF v = u THEN x ELSE at[v]
  BY <1>0
<1>3. Places'
  BY <1>0, <1>2 DEF Places, TypeInv
<1>4. Detecting' = Detecting
  BY <1>0, <1>2 DEF Detecting
<1>5. Counted'
  BY <1>4 DEF Counted, TypeInv
<1> QED  BY <1>1, <1>3, <1>5

OtherTypes ==
    /\ HeapType
    /\ queued \subseteq Ids
    /\ processing \subseteq Ids
    /\ waiting \subseteq Ids
    /\ task \in [Workers -> Tasks \union {NoTask}]
    /\ active \in Nat
    /\ model \in {"none", "loaded", "unloaded", "undefined"}
    /\ loader \in Users \union {Nobody}
    /\ timer \in [Timers -> {"off", "armed", "fired", "clearing", "deleting",
            "assigning", "closing"}]
    /\ current \in Timers \union {NoTimer}
    /\ cleaner \in Timers \union {Nobody}
    /\ failures \in 0 .. MaxFailures

AtType == at \in [Users -> Serving \union {"idle", "new", "popped", "served",
                        "leaving", "scheduling", "gone"}]

LEMMA TypeParts ==
    /\ TypeOK <=> OtherTypes /\ AtType
    /\ TypeOK' <=> OtherTypes' /\ AtType'
BY DEF TypeOK, OtherTypes, AtType, HeapType, Tasks, Serving

LEMMA DetectingFinite ==
    IsFiniteSet(Detecting) /\ Cardinality(Detecting) \in Nat
<1>1. Detecting \in SUBSET Detections
  BY DEF Detecting
<1>2. IsFiniteSet(Detecting)
  BY <1>1, ModelAssumption, FS_Subset
<1> QED  BY <1>2, FS_CardinalityType

LEMMA TypeInit == Init => TypeInv
<1> SUFFICES ASSUME Init PROVE TypeInv
  OBVIOUS
<1>1. HeapType
  BY EmptySeq DEF Init, QueueInit, HeapType
<1>2. TypeOK
  <2>1. OtherTypes
    BY <1>1, ModelAssumption DEF Init, QueueInit, OtherTypes
  <2>2. AtType
    BY DEF Init, AtType
  <2> QED  BY <2>1, <2>2, TypeParts
<1>3. Places
  BY ModelAssumption DEF Init, Places, Users
<1>4. Counted
  <2>1. Detecting = {}
    BY ModelAssumption DEF Init, Detecting, Users, Serving
  <2> QED  BY <2>1, FS_EmptySet DEF Init, Counted
<1> QED  BY <1>2, <1>3, <1>4 DEF TypeInv

\* A worker or a detection moves, and may take or give back model_load_lock.
LEMMA UserTypes ==
    ASSUME TypeInv, NEW u \in Users, UserStep(u), ~ DetectionDone(u)
    PROVE  TypeInv'
<1>0. /\ OtherTypes /\ AtType /\ Places /\ Users = Workers \union Detections
      /\ Workers \intersect Detections = {}
  BY ModelAssumption, TypeParts, Numbers DEF TypeInv
<1>1. PICK x :
          /\ at' = [at EXCEPT ![u] = x]
          /\ x \in Serving \union {"idle", "served", "leaving", "scheduling", "gone"}
          /\ u \in Workers => x # "gone" /\ (x = "idle" \/ at[u] # "idle")
          /\ u \in Detections => /\ x \notin {"idle", "served"}
                                 /\ x \in Serving <=> at[u] \in Serving
  <2>1. CASE StartModel(u)
    BY <2>1 DEF StartModel, Move, Serving
  <2>2. CASE Loaded(u) \/ LoadFails(u) \/ Transcribe(u) \/ Transcribed(u)
    BY <2>2 DEF Loaded, LoadFails, Transcribe, Transcribed, Move, Serving
  <2>3. CASE DeleteModel(u)
    <3>1. at[u] \in {"leaving", "ending"} /\ (u \in Detections => at[u] = "leaving")
      BY <1>0, <2>3 DEF DeleteModel, Calls
    <3>2. PICK x \in {"scheduling", Rest(u)} : at' = [at EXCEPT ![u] = x]
      BY <2>3 DEF DeleteModel
    <3>3. u \in Workers => Rest(u) \in {"served", "idle"}
      BY <1>0 DEF Rest
    <3>4. u \in Detections => Rest(u) = "gone"
      BY DEF Rest
    <3> QED  BY <1>0, <3>1, <3>2, <3>3, <3>4 DEF Serving
  <2>4. CASE ScheduleCleanup(u)
    <3>1. at[u] = "scheduling" /\ at' = [at EXCEPT ![u] = Rest(u)]
      BY <2>4 DEF ScheduleCleanup, Move
    <3>2. u \in Workers => Rest(u) \in {"served", "idle"}
      BY <1>0 DEF Rest
    <3>3. u \in Detections => Rest(u) = "gone"
      BY DEF Rest
    <3> QED  BY <1>0, <3>1, <3>2, <3>3 DEF Serving
  <2> QED  BY <2>1, <2>2, <2>3, <2>4 DEF UserStep
<1>2. UNCHANGED <<queueVars, waiting, task, active>>
  BY DEF UserStep, StartModel, Loaded, LoadFails, Transcribe, Transcribed, DeleteModel,
         ScheduleCleanup
<1>3. Places' /\ Counted' /\ AtType'
  BY <1>1, <1>2, MoveKeeps DEF AtType
<1>4. OtherTypes'
  <2>1. CASE StartModel(u)
    BY <1>0, <1>2, <2>1 DEF StartModel, OtherTypes, HeapType, queueVars, timerVars
  <2>2. CASE Loaded(u) \/ Transcribe(u) \/ Transcribed(u) \/ DeleteModel(u)
    BY <1>0, <1>2, <2>2 DEF Loaded, Transcribe, Transcribed, DeleteModel, OtherTypes,
                  HeapType, queueVars, timerVars, modelVars
  <2>3. CASE LoadFails(u)
    BY <1>0, <1>2, <2>3, ModelAssumption
       DEF LoadFails, OtherTypes, HeapType, queueVars, timerVars
  <2>4. CASE ScheduleCleanup(u)
    <3>1. PICK t \in Timers :
              /\ timer' = [s \in Timers |->
                    IF s = t THEN "armed"
                    ELSE IF s = current /\ timer[s] = "armed" THEN "off"
                    ELSE timer[s]]
              /\ current' = t
      BY <2>4 DEF ScheduleCleanup
    <3>2. timer' \in [Timers -> {"off", "armed", "fired", "clearing", "deleting",
              "assigning", "closing"}]
      BY <1>0, <3>1 DEF OtherTypes
    <3> QED  BY <1>0, <1>2, <2>4, <3>1, <3>2
             DEF ScheduleCleanup, OtherTypes, HeapType, queueVars, modelVars
  <2> QED  BY <2>1, <2>2, <2>3, <2>4 DEF UserStep
<1> QED  BY <1>3, <1>4, TypeParts DEF TypeInv

\* A detection that starts is counted, and one that ends is counted no more.
LEMMA DetectionTypes ==
    ASSUME TypeInv, NEW d \in Detections, Detect(d) \/ DetectionDone(d)
    PROVE  TypeInv'
<1>0. /\ OtherTypes /\ AtType /\ Places /\ Counted /\ d \in Users /\ d \notin Workers
      /\ Users = Workers \union Detections
  BY ModelAssumption, TypeParts, Numbers DEF TypeInv
<1>1. IsFiniteSet(Detecting) /\ active = Cardinality(Detecting) /\ active \in Nat
  BY <1>0, DetectingFinite DEF Counted
<1>2. AtType' /\ Places'
  BY <1>0 DEF Detect, DetectionDone, Move, AtType, Places, Serving
<1>3. Counted' /\ active' \in Nat
  <2>1. CASE Detect(d)
    <3>1. Detecting' = Detecting \union {d} /\ d \notin Detecting
      BY <1>0, <2>1 DEF Detect, Move, Detecting, AtType, Serving
    <3>2. Cardinality(Detecting') = active + 1
      BY <1>1, <3>1, FS_AddElement
    <3> QED  BY <1>1, <2>1, <3>2 DEF Detect, Counted
  <2>2. CASE DetectionDone(d)
    <3>1. Detecting' = Detecting \ {d} /\ d \in Detecting
      BY <1>0, <2>2 DEF DetectionDone, Move, Detecting, AtType, Serving
    <3>2. Cardinality(Detecting') = active - 1 /\ IsFiniteSet(Detecting')
      BY <1>1, <3>1, FS_RemoveElement
    <3>3. Cardinality(Detecting') \in Nat
      BY <3>2, FS_CardinalityType
    <3> QED  BY <2>2, <3>2, <3>3 DEF DetectionDone, Counted
  <2> QED  BY <2>1, <2>2
<1>4. OtherTypes'
  BY <1>0, <1>3 DEF Detect, DetectionDone, OtherTypes, HeapType, queueVars, modelVars,
                    timerVars
<1> QED  BY <1>2, <1>3, <1>4, TypeParts DEF TypeInv

LEMMA QueueTypes ==
    ASSUME TypeInv,
           \/ \E id \in Ids : Submit(id)
           \/ \E w \in Workers : Pop(w) \/ Take(w) \/ MarkDone(w)
    PROVE  TypeInv'
<1>0. /\ OtherTypes /\ AtType /\ Places /\ Counted
      /\ Users = Workers \union Detections
      /\ Workers \intersect Detections = {}
  BY ModelAssumption, TypeParts, Numbers DEF TypeInv
<1>1. ASSUME NEW id \in Ids, Submit(id) PROVE TypeInv'
  <2>1. HeapType' /\ queued' \subseteq Ids /\ processing' \subseteq Ids
    <3>1. Task(id) \in Tasks /\ Task(id).id = id
      BY TaskFields
    <3>2. CASE Accepts(Task(id))
      BY <1>0, <1>1, <3>1, <3>2, PutHeap DEF Submit, QPut, OtherTypes
    <3>3. CASE ~ Accepts(Task(id))
      BY <1>0, <1>1, <3>3 DEF Submit, QPut, queueVars, OtherTypes, HeapType
    <3> QED  BY <3>2, <3>3
  <2>2. OtherTypes'
    BY <1>0, <1>1, <2>1 DEF Submit, OtherTypes, modelVars, timerVars
  <2>3. AtType' /\ Places' /\ Counted'
    BY <1>0, <1>1 DEF Submit, AtType, Places, Counted, Detecting
  <2> QED  BY <2>2, <2>3, TypeParts DEF TypeInv
<1>2. ASSUME NEW w \in Workers, Pop(w) PROVE TypeInv'
  <2>1. PICK p \in Priorities : QPop(p) /\ task' = [task EXCEPT ![w] = Head(heap[p])]
    BY <1>2 DEF Pop
  <2>2. HeapType' /\ Head(heap[p]) \in Tasks
    BY <1>0, <2>1, PopHeap DEF QPop, Urgent, OtherTypes
  <2>3. OtherTypes'
    BY <1>0, <1>2, <2>1, <2>2 DEF Pop, QPop, OtherTypes, modelVars, timerVars
  <2>4. at' = [at EXCEPT ![w] = "popped"] /\ w \notin Detections
    BY <1>0, <1>2 DEF Pop, Move
  <2>5. AtType' /\ Detecting' = Detecting
    BY <1>0, <2>4 DEF AtType, Detecting
  <2>6. Places'
    BY <1>0, <2>1, <2>2, <2>4 DEF AtType, Places, OtherTypes
  <2> QED  BY <1>0, <1>2, <2>3, <2>5, <2>6, TypeParts DEF TypeInv, Counted, Pop
<1>3. ASSUME NEW w \in Workers, Take(w) \/ MarkDone(w) PROVE TypeInv'
  <2>1. /\ at[w] # "idle" /\ UNCHANGED <<task, active>>
        /\ \E x \in {"starting", "leaving"} : at' = [at EXCEPT ![w] = x]
    BY <1>3 DEF Take, MarkDone, Move
  <2>2. AtType' /\ Places' /\ Counted'
    BY <1>0, <2>1, MoveKeeps DEF AtType, Serving
  <2>3. task[w].id \in Ids
    BY <1>0, <2>1, TaskFields DEF Places
  <2>4. OtherTypes'
    BY <1>0, <1>3, <2>3 DEF Take, MarkDone, QTake, QMarkDone, OtherTypes, HeapType,
                            modelVars, timerVars
  <2> QED  BY <2>2, <2>4, TypeParts DEF TypeInv
<1> QED  BY <1>1, <1>2, <1>3

LEMMA TimerTypes ==
    ASSUME TypeInv, NEW t \in Timers, TimerStep(t)
    PROVE  TypeInv'
<1>0. OtherTypes /\ AtType /\ Places /\ Counted
  BY TypeParts DEF TypeInv
<1>1. UNCHANGED <<queueVars, waiting, at, task, active, loader>>
  BY DEF TimerStep, Fire, LookIdle, Unload, Delete, Assign, Close, modelVars
<1>2. AtType' /\ Places' /\ Counted'
  BY <1>0, <1>1 DEF AtType, Places, Counted, Detecting
<1>3. timer' \in [Timers -> {"off", "armed", "fired", "clearing", "deleting",
          "assigning", "closing"}]
  BY <1>0 DEF TimerStep, Fire, LookIdle, Unload, Delete, Assign, Close, Advance, OtherTypes
<1>4. /\ model' \in {"none", "loaded", "unloaded", "undefined"}
      /\ current' \in Timers \union {NoTimer}
      /\ cleaner' \in Timers \union {Nobody}
  BY <1>0 DEF TimerStep, Fire, LookIdle, Unload, Delete, Assign, Close, OtherTypes, modelVars
<1>5. failures' \in 0 .. MaxFailures
  BY <1>0, ModelAssumption
     DEF TimerStep, Fire, LookIdle, Unload, Delete, Assign, Close, OtherTypes, modelVars
<1>6. OtherTypes'
  BY <1>0, <1>1, <1>3, <1>4, <1>5 DEF OtherTypes, HeapType, queueVars
<1> QED  BY <1>2, <1>6, TypeParts DEF TypeInv

LEMMA TypeStep == TypeInv /\ [Next]_vars => TypeInv'
<1> SUFFICES ASSUME TypeInv, [Next]_vars PROVE TypeInv'
  OBVIOUS
<1>0. Users = Workers \union Detections
  BY Numbers
<1>1. ASSUME NEW w \in Workers, WorkerStep(w) PROVE TypeInv'
  <2>1. ~ UserStep(w) => Pop(w) \/ Take(w) \/ MarkDone(w)
    BY <1>1 DEF WorkerStep
  <2>2. ~ DetectionDone(w)
    BY ModelAssumption DEF DetectionDone
  <2> QED  BY <1>0, <2>1, <2>2, QueueTypes, UserTypes
<1>2. ASSUME NEW d \in Detections, Detect(d) \/ UserStep(d) PROVE TypeInv'
  BY <1>0, <1>2, DetectionTypes, UserTypes
<1>3. CASE UNCHANGED vars
  <2>1. OtherTypes /\ AtType
    BY TypeParts DEF TypeInv
  <2>2. OtherTypes' /\ AtType'
    BY <1>3, <2>1 DEF vars, queueVars, modelVars, timerVars, OtherTypes, HeapType, AtType
  <2>3. Places' /\ Counted'
    BY <1>3 DEF vars, TypeInv, Places, Counted, Detecting
  <2> QED  BY <2>2, <2>3, TypeParts DEF TypeInv
<1> QED  BY <1>1, <1>2, <1>3, QueueTypes, TimerTypes DEF Next

\* Every variable keeps its type, however workers, detections and timers
\* interleave; active_direct_tasks is at all times the number of the detections
\* between their start and their end, so it never goes below 0.
THEOREM Typing == Spec => [](TypeOK /\ Counted)
<1>1. Spec => []TypeInv
  BY TypeInit, TypeStep, PTL DEF Spec
<1>2. TypeInv => TypeOK /\ Counted
  BY DEF TypeInv
<1> QED  BY <1>1, <1>2, PTL

---------------------------------------------------------------------------
(* One copy of the model.                                                  *)

LEMMA LockedUser ==
    ASSUME TypeInv, Locked, NEW u \in Users, UserStep(u)
    PROVE  Locked'
<1>0. OtherTypes /\ AtType /\ Nobody \notin Users
  BY TypeParts, Numbers DEF TypeInv
<1>1. CASE StartModel(u)
  <2>1. CASE model = "none"
    <3>1. /\ loader = Nobody /\ loader' = u /\ at' = [at EXCEPT ![u] = "loading"]
          /\ UNCHANGED <<model, timerVars>>
      BY <1>1, <2>1 DEF StartModel, Move
    <3> QED  BY <1>0, <2>1, <3>1 DEF Locked, AtType, timerVars
  <2>2. CASE model # "none"
    <3>1. /\ \E x \in {"ready", "ending"} : at' = [at EXCEPT ![u] = x]
          /\ UNCHANGED <<model, loader, timerVars>>
      BY <1>1, <2>2 DEF StartModel, Move
    <3> QED  BY <1>0, <3>1 DEF Locked, AtType, timerVars
  <2> QED  BY <2>1, <2>2
<1>2. CASE Loaded(u) \/ LoadFails(u)
  <2>1. /\ at[u] = "loading" /\ UNCHANGED timerVars
        /\ model' \in {model, "loaded"}
        /\ \E x \in {"ready", "ending"} : at' = [at EXCEPT ![u] = x]
    BY <1>2 DEF Loaded, LoadFails, Move
  <2>2. loader = u /\ model = "none"
    BY <2>1 DEF Locked
  <2>3. \A v \in Users : at'[v] # "loading"
    BY <1>0, <2>1, <2>2 DEF Locked, AtType
  <2> QED  BY <2>1, <2>2, <2>3 DEF Locked, timerVars
<1>3. CASE Transcribe(u) \/ Transcribed(u) \/ DetectionDone(u) \/ DeleteModel(u)
  <2>1. UNCHANGED <<modelVars, timerVars>>
    BY <1>3 DEF Transcribe, Transcribed, DetectionDone, DeleteModel
  <2>2. \A v \in Users : at'[v] = "loading" => at[v] = "loading"
    BY <1>0, <1>3 DEF Transcribe, Transcribed, DetectionDone, DeleteModel, Move, Rest, AtType
  <2> QED  BY <2>1, <2>2 DEF Locked, modelVars, timerVars
<1>4. CASE ScheduleCleanup(u)
  <2>1. UNCHANGED <<modelVars, cleaner>>
    BY <1>4 DEF ScheduleCleanup
  <2>2. \A v \in Users : at'[v] = "loading" => at[v] = "loading"
    BY <1>0, <1>4 DEF ScheduleCleanup, Move, Rest, AtType
  <2>3. \A t \in Timers : timer'[t] \in {"armed", "off", timer[t]}
    BY <1>4 DEF ScheduleCleanup
  <2>4. \A t \in Timers : timer'[t] \in Clearing => timer'[t] = timer[t]
    BY <2>3 DEF Clearing
  <2>5. \A t \in Timers : timer'[t] \in {"deleting", "assigning"} => timer'[t] \in Clearing
    BY DEF Clearing
  <2> QED  BY <2>1, <2>2, <2>4, <2>5 DEF Locked, modelVars
<1> QED  BY <1>1, <1>2, <1>3, <1>4 DEF UserStep

LEMMA LockedTimer ==
    ASSUME TypeInv, Locked, NEW t \in Timers, TimerStep(t)
    PROVE  Locked'
<1>0. OtherTypes /\ \A s \in Timers : s # Nobody
  BY TypeParts, Numbers DEF TypeInv
<1>1. UNCHANGED <<at, loader>>
  BY DEF TimerStep, Fire, LookIdle, Unload, Delete, Assign, Close, modelVars
<1>2. PICK x : timer' = [timer EXCEPT ![t] = x]
  BY DEF TimerStep, Fire, LookIdle, Unload, Delete, Assign, Close, Advance
<1>3. timer'[t] = x /\ \A s \in Timers : s # t => timer'[s] = timer[s]
  BY <1>0, <1>2 DEF OtherTypes
<1>4. CASE Fire(t) \/ LookIdle(t) \/ Close(t)
  <2>1. model' = model
    BY <1>4 DEF Fire, LookIdle, Close, modelVars
  <2>2. x \in {"fired", "clearing", "closing", "off"}
    BY <1>0, <1>3, <1>4 DEF Fire, LookIdle, Close, Advance, OtherTypes
  <2>3. \A s \in Timers : timer'[s] \in Clearing => cleaner' = s
    <3>1. CASE Fire(t)
      <4>1. x = "fired"
        BY <1>0, <1>3, <3>1 DEF Fire, Advance, OtherTypes
      <4> QED  BY <1>3, <3>1, <4>1 DEF Fire, Locked, Clearing
    <3>2. CASE LookIdle(t)
      <4>1. \A s \in Timers : timer[s] \notin Clearing
        BY <1>0, <3>2 DEF LookIdle, Locked
      <4> QED  BY <1>3, <3>2, <4>1 DEF LookIdle
    <3>3. CASE Close(t)
      <4>1. timer[t] = "closing" /\ x = "off"
        BY <1>0, <1>3, <3>3 DEF Close, Advance, OtherTypes
      <4>2. \A s \in Timers : timer[s] \in Clearing => s = t
        BY <4>1 DEF Locked, Clearing
      <4> QED  BY <1>3, <4>1, <4>2 DEF Clearing
    <3> QED  BY <1>4, <3>1, <3>2, <3>3
  <2> QED  BY <1>1, <1>3, <2>1, <2>2, <2>3 DEF Locked
<1>5. CASE Unload(t) \/ Delete(t) \/ Assign(t)
  <2>1. timer[t] \in {"clearing", "deleting", "assigning"} /\ UNCHANGED cleaner
    BY <1>5 DEF Unload, Delete, Assign, Advance
  <2>2. /\ cleaner = t
        /\ \A s \in Timers : s # t => timer[s] \notin Clearing
    BY <2>1 DEF Locked, Clearing
  <2>3. \A s \in Timers : timer'[s] \in Clearing => cleaner' = s
    BY <1>3, <2>1, <2>2
  <2>4. \A s \in Timers : s # t => timer'[s] \notin {"deleting", "assigning"}
    BY <1>3, <2>2 DEF Clearing
  <2>5. /\ timer'[t] = "deleting" => model' = "unloaded"
        /\ timer'[t] = "assigning" => model' = "undefined"
    BY <1>0, <1>5 DEF Unload, Delete, Assign, Advance, OtherTypes
  <2>6. \A u \in Users : at[u] = "loading" => model' = "none"
    BY <1>5 DEF Unload, Delete, Assign, Advance, Locked
  <2> QED  BY <1>1, <2>3, <2>4, <2>5, <2>6 DEF Locked
<1> QED  BY <1>4, <1>5 DEF TimerStep

LEMMA LockedStep == TypeInv /\ Locked /\ [Next]_vars => Locked'
<1> SUFFICES ASSUME TypeInv, Locked, [Next]_vars PROVE Locked'
  OBVIOUS
<1>0. Users = Workers \union Detections /\ AtType
  BY Numbers, TypeParts DEF TypeInv
<1>1. ASSUME NEW u \in Users, UserStep(u) PROVE Locked'
  BY <1>1, LockedUser
<1>2. ASSUME UNCHANGED <<modelVars, timerVars>>,
             \/ UNCHANGED at
             \/ \E u \in Users, x \in {"popped", "starting", "leaving"} :
                    at' = [at EXCEPT ![u] = x]
      PROVE  Locked'
  <2>1. \A v \in Users : at'[v] = "loading" => at[v] = "loading"
    BY <1>0, <1>2 DEF AtType
  <2> QED  BY <1>2, <2>1 DEF Locked, modelVars, timerVars
<1>3. ASSUME NEW id \in Ids, Submit(id) PROVE Locked'
  BY <1>2, <1>3 DEF Submit
<1>4. ASSUME NEW w \in Workers, WorkerStep(w) PROVE Locked'
  BY <1>0, <1>1, <1>2, <1>4 DEF WorkerStep, Pop, Take, MarkDone, Move
<1>5. ASSUME NEW d \in Detections, Detect(d) \/ UserStep(d) PROVE Locked'
  BY <1>0, <1>1, <1>2, <1>5 DEF Detect, Move
<1>6. CASE UNCHANGED vars
  BY <1>2, <1>6 DEF vars
<1> QED  BY <1>3, <1>4, <1>5, <1>6, LockedTimer DEF Next

\* The load of start_model and the three steps of perform_model_cleanup hold
\* different locks; yet nobody loads while the global is not None, or while
\* another loads, however many tasks, detections and timers there are.
THEOREM OneCopyTheorem == Spec => []OneCopy
<1>1. Init => Locked
  BY DEF Init, Locked, Clearing, Users
<1>2. Spec => []TypeInv
  BY TypeInit, TypeStep, PTL DEF Spec
<1>3. TypeInv /\ Locked => OneCopy
  BY DEF Locked, OneCopy
<1> QED  BY <1>1, <1>2, <1>3, LockedStep, PTL DEF Spec

---------------------------------------------------------------------------
(* The cleanup and the tasks at work.                                      *)

Once == OncePlaced /\ Reported

\* A put adds the task to those that are in the heap.
LEMMA OnceSubmit ==
    ASSUME TypeInv, Once, NEW id \in Ids, Submit(id)
    PROVE  Once'
<1> DEFINE t == Task(id)
           N == Len(heap[1])
<1>1. t \in Tasks /\ t.id = id /\ HeapType /\ task \in [Workers -> Tasks \union {NoTask}]
      /\ NoTask \notin Tasks /\ waiting \subseteq Ids
  BY TaskFields, TypeParts DEF TypeInv, OtherTypes
<1>2. /\ id \in waiting /\ waiting' = waiting \ {id}
      /\ UNCHANGED <<at, task, processing>> /\ Accepts(t)
      /\ queued' = queued \union {id}
      /\ heap' = [heap EXCEPT ![Priority(t.kind)] = Append(@, t)]
  BY <1>1 DEF Submit, QPut, Accepts, Known, Once, OncePlaced, queueVars
<1> HIDE DEF t
<1>3. /\ Len(heap'[1]) = N + 1 /\ heap'[1][N + 1] = t
      /\ N \in Nat
      /\ \A n \in 1 .. N : heap'[1][n] = heap[1][n]
      /\ \A p \in Priorities : p # 1 => heap'[p] = heap[p]
  BY <1>1, <1>2, PutHeap
<1>4. ~ Holds(heap, t) /\ \A w \in Workers : task[w] # t
  BY <1>2 DEF Once, OncePlaced, t
<1>5. \A p \in Priorities : \A n \in 1 .. Len(heap'[p]) :
          \/ p = 1 /\ n = N + 1 /\ heap'[p][n] = t
          \/ n \in 1 .. Len(heap[p]) /\ heap'[p][n] = heap[p][n]
  BY <1>3
<1>6. \A x : Holds(heap', x) => Holds(heap, x) \/ x = t
  BY <1>5 DEF Holds
<1>7. \A p, q \in Priorities :
          \A n \in 1 .. Len(heap'[p]), m \in 1 .. Len(heap'[q]) :
              heap'[p][n] = heap'[q][m] => p = q /\ n = m
  <2> SUFFICES ASSUME NEW p \in Priorities, NEW q \in Priorities,
                      NEW n \in 1 .. Len(heap'[p]), NEW m \in 1 .. Len(heap'[q]),
                      heap'[p][n] = heap'[q][m]
               PROVE  p = q /\ n = m
    OBVIOUS
  <2>1. \A r \in Priorities : \A k \in 1 .. Len(heap[r]) : heap[r][k] # t
    BY <1>4 DEF Holds
  <2>2. CASE heap'[p][n] = t
    BY <1>5, <2>1, <2>2
  <2>3. CASE heap'[p][n] # t
    <3>1. /\ n \in 1 .. Len(heap[p]) /\ heap'[p][n] = heap[p][n]
          /\ m \in 1 .. Len(heap[q]) /\ heap'[q][m] = heap[q][m]
      BY <1>5, <2>3
    <3>2. \A a, b \in Priorities : \A k \in 1 .. Len(heap[a]), l \in 1 .. Len(heap[b]) :
              heap[a][k] = heap[b][l] => a = b /\ k = l
      BY DEF Once, OncePlaced
    <3>3. heap[p][n] = heap[q][m]
      BY <3>1
    <3>4. \A k \in 1 .. Len(heap[p]), l \in 1 .. Len(heap[q]) :
              heap[p][k] = heap[q][l] => p = q /\ k = l
      BY <3>2
    <3>5. n \in 1 .. Len(heap[p]) /\ m \in 1 .. Len(heap[q])
      BY <3>1
    <3>6. heap[p][n] = heap[q][m] => p = q /\ n = m
      BY <3>4, <3>5
    <3> QED  BY <3>3, <3>6
  <2> QED  BY <2>2, <2>3
<1>8. \A i \in Ids : Holds(heap', Task(i)) => i \notin processing
  <2>1. \A i \in Ids : Task(i) = t => i = id
    BY TaskFields DEF t
  <2> QED  BY <1>2, <1>6, <2>1 DEF Once, OncePlaced
<1>9. \A i \in waiting' :
          /\ i \notin queued' \union processing
          /\ ~ Holds(heap', Task(i))
          /\ \A w \in Workers : task[w] # Task(i)
  <2>1. \A i \in waiting' : Task(i) # t
    BY <1>1, <1>2, TaskFields DEF t
  <2> QED  BY <1>2, <1>6, <2>1 DEF Once, OncePlaced
<1>10. \A w \in Workers : ~ Holds(heap', task'[w])
  <2>1. \A w \in Workers : ~ Holds(heap, task[w]) /\ task[w] # t /\ task'[w] = task[w]
    BY <1>2, <1>4 DEF Once, OncePlaced
  <2> QED  BY <1>6, <2>1
<1>11. OncePlaced'
  BY <1>2, <1>7, <1>8, <1>9, <1>10 DEF Once, OncePlaced, Holds
<1> QED  BY <1>2, <1>11 DEF Once, Reported

\* The head of the heap is with the worker who popped it.
LEMMA OncePop ==
    ASSUME TypeInv, Once, NEW w \in Workers, Pop(w)
    PROVE  Once'
<1>1. PICK p \in Priorities : QPop(p) /\ task' = [task EXCEPT ![w] = Head(heap[p])]
  BY DEF Pop
<1>2. /\ at' = [at EXCEPT ![w] = "popped"] /\ w \in Users
      /\ UNCHANGED <<waiting, queued, processing>>
      /\ heap[p] # << >> /\ heap' = [heap EXCEPT ![p] = Tail(@)]
  BY <1>1, Numbers DEF Pop, Move, QPop, Urgent
<1>3. /\ HeapType /\ AtType /\ task \in [Workers -> Tasks \union {NoTask}]
      /\ waiting \subseteq Ids
  BY TypeParts DEF TypeInv, OtherTypes
<1> DEFINE t == heap[p][1]
<1>4. /\ Head(heap[p]) = t /\ t \in Tasks
      /\ Len(heap[p]) \in Nat /\ Len(heap[p]) > 0
      /\ Len(heap'[p]) = Len(heap[p]) - 1
      /\ \A n \in 1 .. Len(heap'[p]) : heap'[p][n] = heap[p][n + 1]
      /\ \A q \in Priorities : q # p => heap'[q] = heap[q]
  BY <1>2, <1>3, PopHeap
<1>5. Holds(heap, t) /\ \A n \in 2 .. Len(heap[p]) : heap[p][n] # t
  <2>1. 1 \in 1 .. Len(heap[p])
    BY <1>4
  <2>2. \A n \in 2 .. Len(heap[p]) : n \in 1 .. Len(heap[p]) /\ n # 1
    BY <1>4
  <2> QED  BY <2>1, <2>2 DEF Once, OncePlaced, Holds
<1> HIDE DEF t
<1>6. \A q \in Priorities : \A n \in 1 .. Len(heap'[q]) :
          \/ q # p /\ n \in 1 .. Len(heap[q]) /\ heap'[q][n] = heap[q][n]
          \/ q = p /\ n + 1 \in 1 .. Len(heap[q]) /\ heap'[q][n] = heap[q][n + 1] /\ n > 0
  BY <1>4
<1>7. ASSUME NEW x, Holds(heap', x) PROVE Holds(heap, x) /\ x # t
  <2>0. PICK q \in Priorities : \E n \in 1 .. Len(heap'[q]) : heap'[q][n] = x
    BY <1>7 DEF Holds
  <2>1. PICK n \in 1 .. Len(heap'[q]) : heap'[q][n] = x
    BY <2>0
  <2>2. CASE q = p
    <3>1. n + 1 \in 2 .. Len(heap[p]) /\ n + 1 \in 1 .. Len(heap[p]) /\ heap[p][n + 1] = x
      BY <1>4, <1>6, <2>1, <2>2
    <3> QED  BY <1>5, <3>1 DEF Holds
  <2>3. CASE q # p
    <3>1. n \in 1 .. Len(heap[q]) /\ heap[q][n] = x
      BY <1>6, <2>1, <2>3
    <3>2. 1 \in 1 .. Len(heap[p])
      BY <1>4
    <3>3. x # t
      BY <2>3, <3>1, <3>2 DEF Once, OncePlaced, t
    <3> QED  BY <3>1, <3>3 DEF Holds
  <2> QED  BY <2>2, <2>3
<1>8. \A r, q \in Priorities :
          \A n \in 1 .. Len(heap'[r]), m \in 1 .. Len(heap'[q]) :
              heap'[r][n] = heap'[q][m] => r = q /\ n = m
  <2> SUFFICES ASSUME NEW r \in Priorities, NEW q \in Priorities,
                      NEW n \in 1 .. Len(heap'[r]), NEW m \in 1 .. Len(heap'[q]),
                      heap'[r][n] = heap'[q][m]
               PROVE  r = q /\ n = m
    OBVIOUS
  <2>1. \A a, b \in Priorities : \A k \in 1 .. Len(heap[a]), l \in 1 .. Len(heap[b]) :
            heap[a][k] = heap[b][l] => a = b /\ k = l
    BY DEF Once, OncePlaced
  <2>2. CASE r = p /\ q = p
    <3>1. /\ n + 1 \in 1 .. Len(heap[p]) /\ m + 1 \in 1 .. Len(heap[p])
          /\ heap[p][n + 1] = heap[p][m + 1]
      BY <1>6, <2>2
    <3>2. n + 1 = m + 1
      BY <2>1, <3>1
    <3> QED  BY <2>2, <3>2
  <2>3. CASE r = p /\ q # p
    BY <1>6, <2>1, <2>3
  <2>4. CASE r # p /\ q = p
    BY <1>6, <2>1, <2>4
  <2>5. CASE r # p /\ q # p
    BY <1>6, <2>1, <2>5
  <2> QED  BY <2>2, <2>3, <2>4, <2>5
<1>9. /\ \A v \in Workers : task'[v] = IF v = w THEN t ELSE task[v]
      /\ \A v \in Workers : at'[v] = IF v = w THEN "popped" ELSE at[v]
  BY <1>1, <1>2, <1>3, <1>4, Numbers DEF AtType
<1>10. \A v \in Workers : task[v] # t
  BY <1>5 DEF Once, OncePlaced
<1>11. \A i \in waiting : Task(i) # t
  BY <1>5 DEF Once, OncePlaced
<1>12. t.id \notin processing
  <2>1. t.id \in Ids /\ t = Task(t.id)
    BY <1>4, TaskFields
  <2> QED  BY <1>5, <2>1 DEF Once, OncePlaced
<1>13. OncePlaced'
  <2>1. \A i \in Ids : Holds(heap', Task(i)) => i \notin processing'
    BY <1>2, <1>7 DEF Once, OncePlaced
  <2>2. \A i \in waiting' :
          /\ i \notin queued' \union processing'
          /\ ~ Holds(heap', Task(i))
          /\ \A v \in Workers : task'[v] # Task(i)
    BY <1>2, <1>7, <1>9, <1>11 DEF Once, OncePlaced
  <2>3. \A v \in Workers : ~ Holds(heap', task[v]) /\ ~ Holds(heap', t)
    BY <1>7 DEF Once, OncePlaced
  <2>4. \A v, x \in Workers : task'[v] = task'[x] /\ task'[v] # NoTask => v = x
    BY <1>9, <1>10 DEF Once, OncePlaced
  <2>5. \A v \in Workers : ~ Holds(heap', task'[v])
    BY <1>9, <2>3
  <2> QED  BY <1>8, <2>1, <2>2, <2>4, <2>5 DEF OncePlaced, Holds
<1>14. Reported'
  BY <1>2, <1>9, <1>12 DEF Once, Reported, Serving
<1> QED  BY <1>13, <1>14 DEF Once

\* get() and mark_done report the task of a worker, and of no other.
LEMMA OnceTakeDone ==
    ASSUME TypeInv, Once, NEW w \in Workers, Take(w) \/ MarkDone(w)
    PROVE  Once'
<1>1. /\ UNCHANGED <<heap, waiting, task>> /\ at[w] \in {"popped", "served"}
      /\ queued' \subseteq queued
  BY DEF Take, MarkDone, Move, QTake, QMarkDone
<1>2. /\ AtType /\ w \in Users /\ waiting \subseteq Ids
      /\ task \in [Workers -> Tasks \union {NoTask}]
      /\ Workers \subseteq Users
  BY TypeParts, Numbers DEF TypeInv, OtherTypes
<1> DEFINE t == task[w]
<1>3. t \in Tasks /\ t # NoTask /\ t.id \in Ids /\ t = Task(t.id)
  BY <1>1, TaskFields DEF TypeInv, Places
<1>4. \A v \in Workers : v # w /\ at[v] # "idle" => task[v] # t /\ task[v].id # t.id
  <2> SUFFICES ASSUME NEW v \in Workers, v # w, at[v] # "idle"
               PROVE  task[v] # t /\ task[v].id # t.id
    OBVIOUS
  <2>1. task[v] \in Tasks /\ task[v] = Task(task[v].id)
    BY TaskFields DEF TypeInv, Places
  <2>2. task[v] # t
    BY <1>3 DEF Once, OncePlaced
  <2> QED  BY <1>3, <2>1, <2>2
<1>5. t.id \notin waiting /\ ~ Holds(heap, t)
  BY <1>3 DEF Once, OncePlaced
<1> HIDE DEF t
<1>6. CASE Take(w)
  <2>1. processing' = processing \union {t.id} /\ at' = [at EXCEPT ![w] = "starting"]
    BY <1>6 DEF Take, QTake, Move, t
  <2>2. \A v \in Workers : at'[v] = IF v = w THEN "starting" ELSE at[v]
    BY <1>2, <2>1 DEF AtType
  <2>3. Reported'
    <3> SUFFICES ASSUME NEW v \in Workers
                 PROVE  /\ at'[v] \in Serving \union {"served"} => task[v].id \in processing'
                        /\ at'[v] \in {"popped", "leaving", "scheduling"}
                              => task[v].id \notin processing'
      BY <1>1 DEF Reported
    <3>1. CASE v = w
      BY <2>1, <2>2, <3>1 DEF t
    <3>2. CASE v # w
      BY <1>4, <2>1, <2>2, <3>2 DEF Once, Reported
    <3> QED  BY <3>1, <3>2
  <2>4. \A i \in Ids : Holds(heap, Task(i)) => i \notin processing'
    BY <1>3, <1>5, <2>1 DEF Once, OncePlaced
  <2>5. \A i \in waiting : i \notin queued' \union processing'
    BY <1>1, <1>5, <2>1 DEF Once, OncePlaced
  <2> QED  BY <1>1, <2>3, <2>4, <2>5 DEF Once, OncePlaced, Holds
<1>7. CASE MarkDone(w)
  <2>1. processing' = processing \ {t.id} /\ at' = [at EXCEPT ![w] = "leaving"]
    BY <1>7 DEF MarkDone, QMarkDone, Move, t
  <2>2. \A v \in Workers : at'[v] = IF v = w THEN "leaving" ELSE at[v]
    BY <1>2, <2>1 DEF AtType
  <2>3. Reported'
    <3> SUFFICES ASSUME NEW v \in Workers
                 PROVE  /\ at'[v] \in Serving \union {"served"} => task[v].id \in processing'
                        /\ at'[v] \in {"popped", "leaving", "scheduling"}
                              => task[v].id \notin processing'
      BY <1>1 DEF Reported
    <3>1. CASE v = w
      BY <2>1, <2>2, <3>1 DEF t, Serving
    <3>2. CASE v # w
      <4>1. at'[v] = at[v]
        BY <2>2, <3>2
      <4>2. at[v] \in Serving \union {"served"} => task[v].id # t.id
        BY <1>4, <3>2 DEF Serving
      <4> QED  BY <2>1, <4>1, <4>2 DEF Once, Reported
    <3> QED  BY <3>1, <3>2
  <2> QED  BY <1>1, <2>1, <2>3 DEF Once, OncePlaced, Holds
<1> QED  BY <1>6, <1>7

\* Whoever calls delete_model while his task is being processed sees a system that
\* is not idle, and goes on to mark_done.
LEMMA WorkerMoves ==
    ASSUME TypeInv, Once, NEW u \in Workers, UserStep(u), NEW x, at' = [at EXCEPT ![u] = x]
    PROVE  \/ x \in Serving \union {"served"} /\ at[u] \in Serving
           \/ x = "idle" /\ at[u] \in {"leaving", "scheduling"}
           \/ x = "scheduling" /\ at[u] = "leaving"
<1>0. AtType /\ u \in Users /\ u \notin Detections
  BY ModelAssumption, TypeParts, Numbers DEF TypeInv
<1>1. at'[u] = x
  BY <1>0 DEF AtType
<1>2. CASE StartModel(u) \/ Loaded(u) \/ LoadFails(u) \/ Transcribe(u) \/ Transcribed(u)
  BY <1>0, <1>1, <1>2
     DEF StartModel, Loaded, LoadFails, Transcribe, Transcribed, Move, Serving, AtType
<1>3. CASE DetectionDone(u)
  BY <1>0, <1>3 DEF DetectionDone
<1>4. CASE DeleteModel(u)
  <2>1. x = IF SystemIsIdle THEN "scheduling" ELSE Rest(u)
    BY <1>0, <1>1, <1>4 DEF DeleteModel, AtType
  <2>2. CASE at[u] = "ending"
    <3>1. task[u].id \in processing
      BY <2>2 DEF Once, Reported, Serving
    <3>2. ~ SystemIsIdle /\ Rest(u) = "served"
      BY <1>0, <3>1 DEF SystemIsIdle, QIsIdle, Rest
    <3> QED  BY <2>1, <2>2, <3>2 DEF Serving
  <2>3. CASE at[u] = "leaving"
    <3>1. task[u].id \notin processing
      BY <2>3 DEF Once, Reported
    <3>2. Rest(u) = "idle"
      BY <1>0, <3>1 DEF Rest
    <3> QED  BY <2>1, <2>3, <3>2
  <2> QED  BY <1>4, <2>2, <2>3 DEF DeleteModel, Calls
<1>5. CASE ScheduleCleanup(u)
  <2>1. at[u] = "scheduling" /\ x = Rest(u)
    BY <1>0, <1>1, <1>5 DEF ScheduleCleanup, Move, AtType
  <2>2. task[u].id \notin processing
    BY <2>1 DEF Once, Reported
  <2> QED  BY <1>0, <2>1, <2>2 DEF Rest
<1> QED  BY <1>2, <1>3, <1>4, <1>5 DEF UserStep

\* What a task or detection does with the model leaves the queue alone.
LEMMA OnceUser ==
    ASSUME TypeInv, Once, NEW u \in Users, UserStep(u)
    PROVE  Once'
<1>0. AtType /\ Users = Workers \union Detections /\ Workers \intersect Detections = {}
  BY ModelAssumption, TypeParts, Numbers DEF TypeInv
<1>1. UNCHANGED <<heap, queued, processing, waiting, task>>
  BY DEF UserStep, StartModel, Loaded, LoadFails, Transcribe, Transcribed, DetectionDone,
         DeleteModel, ScheduleCleanup, queueVars
<1>2. OncePlaced'
  BY <1>1 DEF Once, OncePlaced, Holds
<1>3. PICK x : at' = [at EXCEPT ![u] = x]
  BY DEF UserStep, StartModel, Loaded, LoadFails, Transcribe, Transcribed, DetectionDone,
         DeleteModel, ScheduleCleanup, Move
<1>4. \A v \in Workers : at'[v] = IF v = u THEN x ELSE at[v]
  BY <1>0, <1>3 DEF AtType
<1>5. ASSUME u \in Workers
      PROVE  \/ x \in Serving \union {"served"} /\ at[u] \in Serving
             \/ x = "idle"
             \/ x = "scheduling" /\ at[u] = "leaving"
  BY <1>3, <1>5, WorkerMoves
<1>6. Reported'
  <2> SUFFICES ASSUME NEW v \in Workers
               PROVE  /\ at'[v] \in Serving \union {"served"} => task[v].id \in processing
                      /\ at'[v] \in {"popped", "leaving", "scheduling"}
                            => task[v].id \notin processing
    BY <1>1 DEF Reported
  <2>1. CASE v # u
    BY <1>4, <2>1 DEF Once, Reported
  <2>2. CASE v = u
    BY <1>4, <1>5, <2>2 DEF Once, Reported, Serving
  <2> QED  BY <2>1, <2>2
<1> QED  BY <1>2, <1>6 DEF Once

LEMMA OnceStep == TypeInv /\ Once /\ [Next]_vars => Once'
<1> SUFFICES ASSUME TypeInv, Once, [Next]_vars PROVE Once'
  OBVIOUS
<1>0. /\ AtType /\ Users = Workers \union Detections
      /\ Workers \intersect Detections = {}
  BY ModelAssumption, Numbers, TypeParts DEF TypeInv
<1>1. ASSUME NEW w \in Workers, WorkerStep(w) PROVE Once'
  BY <1>0, <1>1, OncePop, OnceTakeDone, OnceUser DEF WorkerStep
<1>2. ASSUME NEW d \in Detections, Detect(d) PROVE Once'
  <2>1. \A v \in Workers : at'[v] = at[v]
    BY <1>0, <1>2 DEF Detect, Move, AtType
  <2> QED  BY <1>2, <2>1 DEF Detect, queueVars, Once, OncePlaced, Reported, Holds
<1>3. ASSUME NEW d \in Detections, UserStep(d) PROVE Once'
  BY <1>0, <1>3, OnceUser
<1>4. ASSUME NEW t \in Timers, TimerStep(t) PROVE Once'
  BY <1>4 DEF TimerStep, Fire, LookIdle, Unload, Delete, Assign, Close, queueVars,
              Once, OncePlaced, Reported, Holds
<1>5. CASE UNCHANGED vars
  BY <1>5 DEF vars, queueVars, Once, OncePlaced, Reported, Holds
<1> QED  BY <1>1, <1>2, <1>3, <1>4, <1>5, OnceSubmit DEF Next

LEMMA OnceInit == Init => Once
<1> SUFFICES ASSUME Init PROVE Once
  OBVIOUS
<1>1. \A p \in Priorities : Len(heap[p]) = 0
  BY DEF Init, QueueInit
<1>2. \A x : ~ Holds(heap, x)
  BY <1>1 DEF Holds
<1>3. \A id \in Ids : Task(id) # NoTask
  BY ModelAssumption
<1>4. OncePlaced
  BY <1>1, <1>2, <1>3 DEF Init, QueueInit, OncePlaced
<1>5. Reported
  BY DEF Init, Reported, Users, Serving
<1> QED  BY <1>4, <1>5 DEF Once

\* When perform_model_cleanup looks at an idle system, no worker has a task and no
\* detection runs: the sets of the queue and active_direct_tasks tell it so.
LEMMA IdleIsQuiet ==
    ASSUME TypeInv, Once, SystemIsIdle, NEW u \in Users
    PROVE  ~ AtWork(u)
<1>1. CASE u \in Workers
  BY <1>1 DEF Once, Reported, SystemIsIdle, QIsIdle, AtWork, Serving
<1>2. CASE u \in Detections
  <2>1. Detecting = {}
    BY DetectingFinite, FS_EmptySet DEF TypeInv, Counted, SystemIsIdle
  <2> QED  BY <1>2, <2>1 DEF Detecting, TypeInv, Places, AtWork, Serving
<1> QED  BY <1>1, <1>2 DEF Users

\* Neither the gap in get(), where a task is in neither set of the queue, nor a
\* timer that fired before work came, nor a detection outside the queue makes
\* perform_model_cleanup decide to clear while somebody is between the start and
\* the end of his work.
THEOREM QuietTheorem == Spec => ClearsWhenQuiet
<1>1. TypeInv /\ Once /\ [Next]_vars =>
          [\A t \in Timers :
              timer[t] = "fired" /\ timer'[t] = "clearing" =>
                  \A u \in Users : ~AtWork(u)]_vars
  <2> SUFFICES ASSUME TypeInv, Once, Next, NEW t \in Timers,
                      timer[t] = "fired", timer'[t] = "clearing", NEW u \in Users
               PROVE  ~ AtWork(u)
    BY DEF Next
  <2>1. timer \in [Timers -> {"off", "armed", "fired", "clearing", "deleting",
            "assigning", "closing"}]
    BY DEF TypeInv, TypeOK
  <2>2. UNCHANGED timer \/ \E s \in Timers : TimerStep(s)
                        \/ \E v \in Users : ScheduleCleanup(v)
    BY DEF Next, Submit, WorkerStep, UserStep, Pop, Take, MarkDone, Detect, StartModel,
           Loaded, LoadFails, Transcribe, Transcribed, DetectionDone, DeleteModel, timerVars,
           Users
  <2>3. ~ \E v \in Users : ScheduleCleanup(v)
    BY DEF ScheduleCleanup
  <2>4. PICK s \in Timers : TimerStep(s)
    BY <2>2, <2>3
  <2>5. s = t /\ LookIdle(s)
    BY <2>1, <2>4 DEF TimerStep, Fire, LookIdle, Unload, Delete, Assign, Close, Advance
  <2>6. SystemIsIdle
    BY <2>1, <2>5 DEF LookIdle, Advance
  <2> QED  BY <2>6, IdleIsQuiet
<1>2. Spec => []TypeInv
  BY TypeInit, TypeStep, PTL DEF Spec
<1>3. Spec => []Once
  BY <1>2, OnceInit, OnceStep, PTL DEF Spec
<1> QED  BY <1>1, <1>2, <1>3, PTL DEF Spec, ClearsWhenQuiet

---------------------------------------------------------------------------
(* The locks.                                                              *)

LEMMA ReleasedUser ==
    ASSUME TypeInv, Locked, Released, NEW u \in Users, UserStep(u)
    PROVE  Released'
<1>0. OtherTypes /\ AtType /\ Nobody \notin Users
  BY TypeParts, Numbers DEF TypeInv
<1>1. CASE ScheduleCleanup(u)
  <2>1. UNCHANGED <<model, loader, cleaner>> /\ cleaner = Nobody /\ at[u] = "scheduling"
    BY <1>1 DEF ScheduleCleanup, modelVars, Move
  <2>2. \A v \in Users : at[v] = "loading" => at'[v] = "loading"
    BY <1>0, <1>1, <2>1 DEF ScheduleCleanup, Move, AtType
  <2>3. \A t \in Timers : timer[t] \in {"deleting", "assigning"} => timer'[t] = timer[t]
    BY <1>1 DEF ScheduleCleanup
  <2> QED  BY <2>1, <2>2, <2>3 DEF Released
<1>2. CASE StartModel(u)
  <2>1. /\ UNCHANGED <<model, timerVars>> /\ loader = Nobody
        /\ \/ loader' = Nobody
           \/ loader' = u /\ at' = [at EXCEPT ![u] = "loading"]
    BY <1>2 DEF StartModel, Move
  <2> QED  BY <1>0, <2>1 DEF Released, AtType, timerVars
<1>3. CASE Loaded(u) \/ LoadFails(u)
  <2>1. loader' = Nobody /\ model' \in {model, "loaded"} /\ UNCHANGED timerVars
    BY <1>3 DEF Loaded, LoadFails
  <2> QED  BY <2>1 DEF Released, timerVars
<1>4. CASE Transcribe(u) \/ Transcribed(u) \/ DetectionDone(u) \/ DeleteModel(u)
  <2>1. UNCHANGED <<modelVars, timerVars>> /\ at[u] # "loading"
    BY <1>4 DEF Transcribe, Transcribed, DetectionDone, DeleteModel, Move, Calls
  <2>2. PICK x : at' = [at EXCEPT ![u] = x]
    BY <1>4 DEF Transcribe, Transcribed, DetectionDone, DeleteModel, Move
  <2>3. \A v \in Users : at[v] = "loading" => at'[v] = "loading"
    BY <1>0, <2>1, <2>2 DEF AtType
  <2> QED  BY <2>1, <2>3 DEF Released, modelVars, timerVars
<1> QED  BY <1>1, <1>2, <1>3, <1>4 DEF UserStep

LEMMA ReleasedTimer ==
    ASSUME TypeInv, Locked, Released, NEW t \in Timers, TimerStep(t)
    PROVE  Released'
<1>0. OtherTypes /\ \A s \in Timers : s # Nobody
  BY TypeParts, Numbers DEF TypeInv
<1>1. UNCHANGED <<at, loader>>
  BY DEF TimerStep, Fire, LookIdle, Unload, Delete, Assign, Close, modelVars
<1>2. PICK x : timer' = [timer EXCEPT ![t] = x]
  BY DEF TimerStep, Fire, LookIdle, Unload, Delete, Assign, Close, Advance
<1>3. timer'[t] = x /\ \A s \in Timers : s # t => timer'[s] = timer[s]
  BY <1>0, <1>2 DEF OtherTypes
<1>4. CASE Fire(t) \/ LookIdle(t) \/ Close(t)
  <2>1. /\ model' = model /\ timer[t] \notin {"deleting", "assigning"}
    BY <1>4 DEF Fire, LookIdle, Close, Advance, modelVars
  <2>2. \/ cleaner' = Nobody
        \/ cleaner' = cleaner /\ timer[t] = "armed"
        \/ cleaner' = t /\ x \in Clearing
    BY <1>0, <1>3, <1>4 DEF Fire, LookIdle, Close, Advance, Clearing, OtherTypes
  <2>3. cleaner' # Nobody => cleaner' \in Timers /\ timer'[cleaner'] \in Clearing
    BY <1>3, <2>2 DEF Released, Clearing
  <2> QED  BY <1>1, <1>3, <2>1, <2>3 DEF Released
<1>5. CASE Unload(t) \/ Delete(t) \/ Assign(t)
  <2>1. cleaner' = cleaner /\ timer[t] \in {"clearing", "deleting", "assigning"}
    BY <1>5 DEF Unload, Delete, Assign, Advance
  <2>2. cleaner = t /\ x \in Clearing
    BY <1>0, <1>3, <1>5, <2>1
       DEF Locked, Unload, Delete, Assign, Advance, Clearing, OtherTypes
  <2>3. \/ model' = "none"
        \/ model' = "loaded"
        \/ model' = "unloaded" /\ x = "deleting"
        \/ model' = "undefined" /\ x = "assigning"
    BY <1>0, <1>3, <1>5 DEF Unload, Delete, Assign, Advance, OtherTypes
  <2> QED  BY <1>1, <1>3, <2>1, <2>2, <2>3 DEF Released
<1> QED  BY <1>4, <1>5 DEF TimerStep

LEMMA ReleasedStep == TypeInv /\ Locked /\ Released /\ [Next]_vars => Released'
<1> SUFFICES ASSUME TypeInv, Locked, Released, [Next]_vars PROVE Released'
  OBVIOUS
<1>0. Users = Workers \union Detections /\ AtType
  BY Numbers, TypeParts DEF TypeInv
<1>1. ASSUME UNCHANGED <<modelVars, timerVars>>,
             \/ UNCHANGED at
             \/ \E u \in Users : at[u] # "loading" /\ \E x : at' = [at EXCEPT ![u] = x]
      PROVE  Released'
  <2>1. \A v \in Users : at[v] = "loading" => at'[v] = "loading"
    BY <1>0, <1>1 DEF AtType
  <2> QED  BY <1>1, <2>1 DEF Released, modelVars, timerVars
<1>2. ASSUME NEW id \in Ids, Submit(id) PROVE Released'
  BY <1>1, <1>2 DEF Submit
<1>3. ASSUME NEW w \in Workers, WorkerStep(w) PROVE Released'
  BY <1>0, <1>1, <1>3, ReleasedUser DEF WorkerStep, Pop, Take, MarkDone, Move
<1>4. ASSUME NEW d \in Detections, Detect(d) \/ UserStep(d) PROVE Released'
  BY <1>0, <1>1, <1>4, ReleasedUser DEF Detect, Move
<1>5. CASE UNCHANGED vars
  BY <1>1, <1>5 DEF vars
<1> QED  BY <1>2, <1>3, <1>4, <1>5, ReleasedTimer DEF Next

\* Whichever load or unload fails, a lock is held only by one who is inside, and the
\* global is without a usable value only while a cleanup is between unload_model, del
\* and the assignment of None: nobody finds it so when no cleanup is under way.
THEOREM LocksTheorem == Spec => []Released
<1>1. Init => Locked /\ Released
  BY DEF Init, Locked, Released, Clearing, Users
<1>2. Spec => []TypeInv
  BY TypeInit, TypeStep, PTL DEF Spec
<1> QED  BY <1>1, <1>2, LockedStep, ReleasedStep, PTL DEF Spec

---------------------------------------------------------------------------
(* Giving the memory back.                                                 *)

LEMMA AccountedStep ==
    ASSUME TypeInv, Once, Accounted, [Next]_vars
    PROVE  Accounted'
<1>0. /\ AtType /\ Users = Workers \union Detections /\ Workers \intersect Detections = {}
      /\ task \in [Workers -> Tasks \union {NoTask}]
  BY ModelAssumption, Numbers, TypeParts DEF TypeInv, OtherTypes
<1>1. ASSUME NEW w \in Workers, UserStep(w) PROVE Accounted'
  <2>1. UNCHANGED <<processing, task>>
    BY <1>1 DEF UserStep, StartModel, Loaded, LoadFails, Transcribe, Transcribed, DetectionDone,
                DeleteModel, ScheduleCleanup, queueVars
  <2>2. PICK x : at' = [at EXCEPT ![w] = x]
    BY <1>1 DEF UserStep, StartModel, Loaded, LoadFails, Transcribe, Transcribed, DetectionDone,
                DeleteModel, ScheduleCleanup, Move
  <2>3. at[w] \in Serving \union {"served"} => x \in Serving \union {"served"}
    BY <1>1, <2>2, WorkerMoves DEF Serving
  <2>4. \A v \in Workers : at'[v] = IF v = w THEN x ELSE at[v]
    BY <1>0, <2>2 DEF AtType
  <2> QED  BY <2>1, <2>3, <2>4 DEF Accounted
<1>2. ASSUME NEW w \in Workers, Pop(w) PROVE Accounted'
  <2>1. at[w] = "idle" /\ processing' = processing
    BY <1>2 DEF Pop, Move, QPop
  <2>2. \A v \in Workers : v # w => at'[v] = at[v] /\ task'[v] = task[v]
    BY <1>0, <1>2 DEF Pop, Move, AtType
  <2> QED  BY <2>1, <2>2 DEF Accounted, Serving
<1>3. ASSUME NEW w \in Workers, Take(w) PROVE Accounted'
  <2>1. /\ at[w] = "popped" /\ task' = task
        /\ processing' = processing \union {task[w].id}
    BY <1>3 DEF Take, Move, QTake
  <2>2. \A v \in Workers : at'[v] = IF v = w THEN "starting" ELSE at[v]
    BY <1>0, <1>3 DEF Take, Move, AtType
  <2> QED  BY <2>1, <2>2 DEF Accounted, Serving
<1>4. ASSUME NEW w \in Workers, MarkDone(w) PROVE Accounted'
  <2>1. task' = task /\ processing' = processing \ {task[w].id}
    BY <1>4 DEF MarkDone, QMarkDone
  <2>2. \A v \in Workers : v # w => at'[v] = at[v]
    BY <1>0, <1>4 DEF MarkDone, Move, AtType
  <2> QED  BY <2>1, <2>2 DEF Accounted
<1>5. ASSUME UNCHANGED <<processing, task>>, \A v \in Workers : at'[v] = at[v]
      PROVE  Accounted'
  BY <1>5 DEF Accounted
<1>6. ASSUME NEW d \in Detections, Detect(d) \/ UserStep(d) PROVE Accounted'
  <2>1. UNCHANGED <<processing, task>> /\ \E x : at' = [at EXCEPT ![d] = x]
    BY <1>6 DEF Detect, UserStep, StartModel, Loaded, LoadFails, Transcribe, Transcribed,
                DetectionDone, DeleteModel, ScheduleCleanup, Move, queueVars
  <2>2. \A v \in Workers : at'[v] = at[v]
    BY <1>0, <2>1 DEF AtType
  <2> QED  BY <1>5, <2>1, <2>2
<1>7. ASSUME NEW id \in Ids, Submit(id) PROVE Accounted'
  BY <1>5, <1>7 DEF Submit, QPut, queueVars
<1>8. ASSUME NEW t \in Timers, TimerStep(t) PROVE Accounted'
  BY <1>5, <1>8
     DEF TimerStep, Fire, LookIdle, Unload, Delete, Assign, Close, queueVars
<1>9. CASE UNCHANGED vars
  BY <1>5, <1>9 DEF vars, queueVars
<1> QED  BY <1>1, <1>2, <1>3, <1>4, <1>6, <1>7, <1>8, <1>9 DEF Next, WorkerStep

\* If delete_model or the cleanup finds the system not idle, another is at work who
\* will call delete_model himself.
LEMMA SomebodyLeft ==
    ASSUME TypeInv, Accounted, ~ SystemIsIdle
    PROVE  \/ \E p \in Priorities : heap[p] # << >>
           \/ \E u \in Users : u \in Workers /\ at[u] \in Serving \union {"served"}
           \/ \E u \in Users : u \in Detections /\ at[u] \in Serving
<1>1. CASE active # 0
  <2>1. Detecting # {}
    BY <1>1, FS_EmptySet DEF TypeInv, Counted
  <2> QED  BY <2>1 DEF Detecting, Users
<1>2. CASE processing # {}
  BY <1>2 DEF Accounted, Users
<1> QED  BY <1>1, <1>2 DEF SystemIsIdle, QIsIdle

LEMMA RememberedUser ==
    ASSUME TypeInv, Once, Accounted, Remembered, NEW u \in Users, UserStep(u)
    PROVE  Remembered'
<1>0. /\ AtType /\ Users = Workers \union Detections /\ Workers \intersect Detections = {}
  BY ModelAssumption, Numbers, TypeParts DEF TypeInv
<1>1. heap' = heap
  BY DEF UserStep, StartModel, Loaded, LoadFails, Transcribe, Transcribed, DetectionDone,
         DeleteModel, ScheduleCleanup, queueVars
<1>2. PICK x : at' = [at EXCEPT ![u] = x]
  BY DEF UserStep, StartModel, Loaded, LoadFails, Transcribe, Transcribed, DetectionDone,
         DeleteModel, ScheduleCleanup, Move
<1>3. \A v \in Users : at'[v] = IF v = u THEN x ELSE at[v]
  BY <1>0, <1>2 DEF AtType
<1>4. ASSUME x \in Serving \union {"served", "leaving", "scheduling"} PROVE Remembered'
  <2>1. ~ Quiet'
    BY <1>3, <1>4 DEF Quiet, Serving
  <2> QED  BY <2>1 DEF Remembered
<1>5. CASE StartModel(u) \/ Loaded(u) \/ LoadFails(u) \/ Transcribe(u) \/ Transcribed(u)
           \/ DetectionDone(u)
  <2>1. x \in Serving \union {"leaving"}
    BY <1>0, <1>3, <1>5
       DEF StartModel, Loaded, LoadFails, Transcribe, Transcribed, DetectionDone, Move, Serving,
           AtType
  <2> QED  BY <1>4, <2>1
<1>6. CASE DeleteModel(u)
  <2>1. CASE SystemIsIdle
    <3>1. at'[u] = "scheduling"
      BY <1>0, <1>6, <2>1 DEF DeleteModel, AtType
    <3> QED  BY <1>3, <1>4, <3>1
  <2>2. CASE ~ SystemIsIdle
    <3>1. CASE \E p \in Priorities : heap[p] # << >>
      BY <1>1, <3>1 DEF Remembered, Quiet
    <3>2. ASSUME NEW v \in Users, v \in Workers, at[v] \in Serving \union {"served"}
          PROVE  Remembered'
      <4>1. CASE v = u
        <5>1. x \in Serving \union {"served"}
          BY <1>2, <3>2, <4>1, WorkerMoves DEF Serving
        <5> QED  BY <1>4, <5>1
      <4>2. CASE v # u
        <5>1. ~ Quiet'
          BY <1>3, <3>2, <4>2 DEF Quiet, Serving
        <5> QED  BY <5>1 DEF Remembered
      <4> QED  BY <4>1, <4>2
    <3>3. ASSUME NEW v \in Users, v \in Detections, at[v] \in Serving PROVE Remembered'
      <4>1. v # u
        BY <1>0, <1>6, <3>3 DEF DeleteModel, Calls, Serving
      <4>2. ~ Quiet'
        BY <1>3, <3>3, <4>1 DEF Quiet, Serving
      <4> QED  BY <4>2 DEF Remembered
    <3> QED  BY <2>2, <3>1, <3>2, <3>3, SomebodyLeft
  <2> QED  BY <2>1, <2>2
<1>7. CASE ScheduleCleanup(u)
  <2>1. \E t \in Timers : timer'[t] = "armed"
    BY <1>7 DEF ScheduleCleanup
  <2> QED  BY <2>1 DEF Remembered, Watching
<1> QED  BY <1>5, <1>6, <1>7 DEF UserStep

LEMMA RememberedTimer ==
    ASSUME TypeInv, Accounted, Remembered, NEW t \in Timers, TimerStep(t)
    PROVE  Remembered'
<1>0. OtherTypes
  BY TypeParts DEF TypeInv
<1>1. UNCHANGED <<heap, at>>
  BY DEF TimerStep, Fire, LookIdle, Unload, Delete, Assign, Close, queueVars
<1>2. Quiet' <=> Quiet
  BY <1>1 DEF Quiet
<1>3. PICK x : timer' = [timer EXCEPT ![t] = x]
  BY DEF TimerStep, Fire, LookIdle, Unload, Delete, Assign, Close, Advance
<1>4. timer'[t] = x /\ \A s \in Timers : s # t => timer'[s] = timer[s]
  BY <1>0, <1>3 DEF OtherTypes
<1>5. CASE Fire(t)
  <2>1. x = "fired" /\ UNCHANGED <<model, failures>>
    BY <1>0, <1>4, <1>5 DEF Fire, Advance, modelVars, OtherTypes
  <2> QED  BY <1>2, <1>4, <2>1 DEF Remembered, Watching
<1>6. CASE LookIdle(t)
  <2>1. CASE SystemIsIdle
    <3>1. x = "clearing"
      BY <1>0, <1>4, <1>6, <2>1 DEF LookIdle, Advance, OtherTypes
    <3> QED  BY <1>4, <3>1 DEF Remembered, Watching
  <2>2. CASE ~ SystemIsIdle
    <3>1. ~ Quiet
      BY <2>2, SomebodyLeft DEF Quiet, Serving
    <3> QED  BY <1>2, <3>1 DEF Remembered
  <2> QED  BY <2>1, <2>2
<1>7. CASE Unload(t) \/ Delete(t) \/ Assign(t)
  <2>1. model' # "loaded" \/ failures' = failures + 1
    BY <1>7 DEF Unload, Delete, Assign
  <2>2. failures \in 0 .. MaxFailures /\ MaxFailures \in Nat
    BY ModelAssumption, Zenon DEF TypeInv, TypeOK
  <2> QED  BY <2>1, <2>2 DEF Remembered
<1>8. CASE Close(t)
  <2>1. timer[t] = "closing" /\ UNCHANGED <<model, failures>>
    BY <1>8 DEF Close, Advance, modelVars
  <2> QED  BY <1>2, <1>4, <2>1 DEF Remembered, Watching
<1> QED  BY <1>5, <1>6, <1>7, <1>8 DEF TimerStep

LEMMA RememberedStep ==
    ASSUME TypeInv, Once, Accounted, Remembered, [Next]_vars
    PROVE  Remembered'
<1>0. /\ AtType /\ HeapType /\ Users = Workers \union Detections
  BY Numbers, TypeParts DEF TypeInv, OtherTypes
<1>1. ASSUME NEW u \in Users,
             \E x \in {"popped", "starting", "leaving"} : at' = [at EXCEPT ![u] = x]
      PROVE  Remembered'
  <2>1. at'[u] \in {"popped", "starting", "leaving"}
    BY <1>0, <1>1 DEF AtType
  <2>2. ~ Quiet'
    BY <2>1 DEF Quiet
  <2> QED  BY <2>2 DEF Remembered
<1>2. ASSUME NEW id \in Ids, Submit(id) PROVE Remembered'
  <2>1. UNCHANGED <<at, model, failures, timer>>
    BY <1>2 DEF Submit, modelVars, timerVars
  <2>2. CASE heap' = heap
    BY <2>1, <2>2 DEF Remembered, Quiet
  <2>3. CASE heap' # heap
    <3>1. Task(id) \in Tasks /\ Priority(Task(id).kind) = 1 /\ 1 \in Priorities
      BY TaskFields DEF Priorities
    <3>2. heap' = [heap EXCEPT ![Priority(Task(id).kind)] = Append(@, Task(id))]
      BY <1>2, <2>3 DEF Submit, QPut, queueVars
    <3>3. Len(heap'[1]) = Len(heap[1]) + 1 /\ Len(heap[1]) \in Nat
      BY <1>0, <3>1, <3>2, PutHeap
    <3>4. Len(heap'[1]) # 0
      BY <3>3
    <3>5. ~ Quiet'
      BY <3>1, <3>4 DEF Quiet
    <3> QED  BY <3>5 DEF Remembered
  <2> QED  BY <2>2, <2>3
<1>3. ASSUME NEW w \in Workers, WorkerStep(w) PROVE Remembered'
  BY <1>0, <1>1, <1>3, RememberedUser DEF WorkerStep, Pop, Take, MarkDone, Move
<1>4. ASSUME NEW d \in Detections, Detect(d) \/ UserStep(d) PROVE Remembered'
  BY <1>0, <1>1, <1>4, RememberedUser DEF Detect, Move
<1>5. CASE UNCHANGED vars
  BY <1>5 DEF vars, queueVars, modelVars, timerVars, Remembered, Quiet
<1> QED  BY <1>2, <1>3, <1>4, <1>5, RememberedTimer DEF Next

\* What MemoryReturned rests on: whatever timers are cancelled, fire late or find the
\* system at work, a model that nobody uses any more still has a timer that will look
\* at it, as long as no load or unload has failed.
THEOREM MemoryTheorem == Spec => []Remembered
<1>1. Init => Accounted /\ Remembered
  BY DEF Init, QueueInit, Accounted, Remembered
<1>2. Spec => []TypeInv
  BY TypeInit, TypeStep, PTL DEF Spec
<1>3. Spec => []Once
  BY <1>2, OnceInit, OnceStep, PTL DEF Spec
<1>4. TypeInv /\ Once /\ Accounted /\ [Next]_vars => Accounted'
  BY AccountedStep
<1>5. TypeInv /\ Once /\ Accounted /\ Remembered /\ [Next]_vars => Remembered'
  BY RememberedStep
<1> QED  BY <1>1, <1>2, <1>3, <1>4, <1>5, PTL DEF Spec
=============================================================================
