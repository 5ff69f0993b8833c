----------------------------- MODULE TaskService -----------------------------
(***************************************************************************)
(* What the task queue of subgen.py promises to those who use it, without  *)
(* its heap, its sets of ids and its locks: a task is accepted when no     *)
(* task of its id waits or is in a worker's hands, a worker gets one of    *)
(* the most urgent tasks, and the id is free again once it is done.        *)
(* Getting a task is one step.                                             *)
(***************************************************************************)
CONSTANTS Ids, Workers

VARIABLES
    waiting,  \* tasks that wait
    hand      \* hand[w]: the task that worker w has, if any, as a set

Tasks == [id : Ids, kind : {"detect_language", "asr", "transcribe"}]

\* A detection holds up a submission, a request holds up somebody who waits.
MoreUrgent(k, l) ==
    \/ k = "detect_language" /\ l # "detect_language"
    \/ k = "asr" /\ l = "transcribe"

Init ==
    /\ waiting = {}
    /\ hand = [w \in Workers |-> {}]

InPlay == waiting \union UNION {hand[w] : w \in Workers}

Submit(t) ==
    /\ \A u \in InPlay : u.id # t.id
    /\ waiting' = waiting \union {t}
    /\ UNCHANGED hand

Begin(w, t) ==
    /\ hand[w] = {}
    /\ t \in waiting
    /\ \A u \in waiting : ~MoreUrgent(u.kind, t.kind)
    /\ waiting' = waiting \ {t}
    /\ hand' = [hand EXCEPT ![w] = {t}]

End(w) ==
    /\ hand[w] # {}
    /\ hand' = [hand EXCEPT ![w] = {}]
    /\ UNCHANGED waiting

Next ==
    \/ \E t \in Tasks : Submit(t)
    \/ \E w \in Workers : End(w) \/ \E t \in waiting : Begin(w, t)

Spec == Init /\ [][Next]_<<waiting, hand>>
=============================================================================
