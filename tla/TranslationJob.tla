--------------------------- MODULE TranslationJob ---------------------------
(***************************************************************************)
(* What a translation job of Bazarr promises to those who ask for it: a    *)
(* job that ends as "ok" leaves a whole translation, or has not touched    *)
(* the file; one that has failed leaves no file, or the empty or half one  *)
(* that it could not remove, or a whole one that it could not enter in the *)
(* history; and until it has failed or ended, only a restart shows a file  *)
(* that is not the empty one it writes to.  Module GeminiTranslator        *)
(* implements it; module TranslateBacklog, the script that asks for the    *)
(* translations, is built on it.                                           *)
(***************************************************************************)
CONSTANT Jobs

VARIABLES
    status,   \* status[j]: how far job j is, or how it ended
    target    \* target[j]: the translated subtitle on disk

jobVars == <<status, target>>

\* What the log says of a job that failed; "other" is anything else.
Causes == {"rate_limited", "malformed", "permission", "other"}
Running == {"starting", "working"}
Statuses == {"idle", "ok"} \union Running \union Causes
Files == {"none", "old", "empty", "part", "new"}

Init ==
    /\ status = [j \in Jobs |-> "idle"]
    /\ target \in [Jobs -> {"none", "old"}]

Move(j, from, to, file) ==
    /\ status[j] \in from
    /\ status' = [status EXCEPT ![j] = to]
    /\ target' = [target EXCEPT ![j] = file]

\* A translation that is there is not asked for again.
Asked(j) == status[j] \notin Running /\ target[j] # "new"

\* A job may remove what an earlier one that broke off has left.
Start(j) == Asked(j) /\ \E f \in {target[j], "none"} : Move(j, Statuses, "starting", f)

\* The source cannot be read.
Refuse(j) == Asked(j) /\ Move(j, Statuses, "permission", target[j])

\* Before it opens the file a job may end as if it had made a translation, or with
\* an error; what an earlier job has left may suffer from that.
EndEarly(j) ==
    \/ Move(j, {"starting"}, "ok", target[j])
    \/ Move(j, {"starting"}, "other", target[j])
    \/ target[j] # "none" /\ \E f \in {"empty", "part"} : Move(j, {"starting"}, "other", f)

\* The file is opened for writing: what was there is gone.
Open(j) == Move(j, {"starting"}, "working", "empty")

Succeed(j) == Move(j, {"working"}, "ok", "new")

\* A request that fails for good, a disk that does, or what follows on the writing.
Fail(j) ==
    \/ \E c \in Causes \ {"permission"}, f \in {"none", "empty"} : Move(j, {"working"}, c, f)
    \/ \E f \in {"part", "new"} : Move(j, {"working"}, "other", f)

\* Bazarr is restarted: its jobs are gone, and the files are as they were, or as
\* far as a job has written them.
Restart ==
    /\ status' = [j \in Jobs |-> IF status[j] \in Running THEN "idle" ELSE status[j]]
    /\ target' \in [Jobs -> Files]
    /\ \A j \in Jobs : target'[j] # target[j] =>
          status[j] = "working" /\ target'[j] \in {"part", "new"}

Step(j) == EndEarly(j) \/ Open(j) \/ Succeed(j) \/ Fail(j)

Next == Restart \/ \E j \in Jobs : Start(j) \/ Refuse(j) \/ Step(j)

Spec == Init /\ [][Next]_jobVars
=============================================================================
