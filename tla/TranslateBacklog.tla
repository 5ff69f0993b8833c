-------------------------- MODULE TranslateBacklog --------------------------
(***************************************************************************)
(* The script that works off the missing Spanish subtitles                 *)
(* (src/stacks/arr-stack/scripts/bazarr-translate-missing-es.py): it asks  *)
(* Bazarr for one translation after the other, waits for the file, guesses *)
(* from Bazarr's log why there is none, counts failures per item in a file *)
(* and gives up for the day when Gemini has limited a job.  The jobs it    *)
(* asks for are those of module TranslationJob.                            *)
(***************************************************************************)
EXTENDS Naturals, Sequences, FiniteSets

CONSTANTS
    Items,              \* episodes and movies that lack Spanish
    NoItem,
    Wanted,             \* Wanted[kind]: Bazarr's wanted list, a sequence of items
    NoSource,           \* items without an external English subtitle
    UnreadableItems,    \* items whose English subtitle cannot be read (mode 000)
    SkipAfter,          \* SKIP_AFTER_ATTEMPTS
    FailureLimit,       \* CONSECUTIVE_FAILURE_LIMIT
    MaxPolls,           \* POLL_TIMEOUT / POLL_INTERVAL
    MaxMishaps          \* bound on runs that are killed

Kinds == {"episode", "movie"}

ASSUME BacklogAssumption ==
    /\ NoItem \notin Items
    /\ Wanted \in [Kinds -> Seq(Items)]
    /\ \A k, l \in Kinds : \A n \in DOMAIN Wanted[k], m \in DOMAIN Wanted[l] :
          Wanted[k][n] = Wanted[l][m] => k = l /\ n = m   \* no item is on them twice
    /\ NoSource \subseteq Items /\ UnreadableItems \subseteq Items
    /\ {SkipAfter, FailureLimit, MaxPolls} \subseteq Nat \ {0}
    /\ MaxMishaps \in Nat

VARIABLES
    status, target,   \* the translation jobs and their files, see TranslationJob
    window,           \* the lines of bazarr.log that the next look at it takes in
    run,              \* "idle", or the kind of item the script is at
    todo,             \* the rest of its worklist: the places of Wanted[run] still to do
    item,             \* the item it waits for
    polls,            \* how often it has looked
    streak,           \* consecutive_failures
    attempts,         \* the blocklist file
    cooldown,         \* the cooldown file: is it in force?
    tried,            \* ghost: items for which a translation has been asked
    before,           \* ghost: attempts when the run started
    mishaps           \* ghost: runs that were killed

jobVars == <<status, target>>
runVars == <<run, todo, item, polls, streak>>
fileVars == <<attempts, cooldown>>
ghosts == <<tried, before, mishaps>>
vars == <<jobVars, window, runVars, fileVars, ghosts>>

Job == INSTANCE TranslationJob WITH Jobs <- Items

\* A line that says how a job failed; only one about permissions names its item.
\* Its age is "new" until the script looks at the log, "recent" until it looks
\* again, and then more than 5 seconds.
Lines == [cause : {"rate_limited", "malformed", "permission"},
          item : Items \union {NoItem}, age : {"new", "recent", "old"}]

Init ==
    /\ status = [i \in Items |-> "idle"]
    /\ target = [i \in Items |-> "none"]
    /\ window = <<>>
    /\ run = "idle" /\ todo = {} /\ item = NoItem /\ polls = 0 /\ streak = 0
    /\ attempts = [i \in Items |-> 0]
    /\ cooldown = FALSE
    /\ tried = {} /\ before = attempts /\ mishaps = 0

---------------------------------------------------------------------------
(* Bazarr's jobs, and what they write to the log.                          *)

\* The script takes the newest line that says anything of its item.  One that
\* names none says it of every item, and hides all lines before it.
Logs(cause) ==
    window' = IF cause \in {"rate_limited", "malformed"}
              THEN <<[cause |-> cause, item |-> NoItem, age |-> "new"]>>
              ELSE window

JobOpens(i) ==
    /\ Job!Open(i)
    /\ UNCHANGED <<window, runVars, fileVars, ghosts>>

JobSucceeds(i) ==
    /\ Job!Succeed(i)
    /\ UNCHANGED <<window, runVars, fileVars, ghosts>>

\* Gemini may limit a job at any time, by the minute or by the day: one job costs
\* many requests.
JobFails(i) ==
    /\ Job!Fail(i)
    /\ Logs(status'[i])
    /\ UNCHANGED <<runVars, fileVars, ghosts>>

\* No key is free, or the file cannot be opened: nothing is logged that the
\* script would know.
JobEndsEarly(i) ==
    /\ Job!EndEarly(i)
    /\ UNCHANGED <<window, runVars, fileVars, ghosts>>

\* Midnight in California: the cooldown ends.
NewDay ==
    /\ cooldown
    /\ cooldown' = FALSE
    /\ UNCHANGED <<jobVars, window, runVars, attempts, ghosts>>

---------------------------------------------------------------------------
(* process_one: one item.                                                  *)

\* A mutant of Worklist: the blocklist is not looked at.
WorklistOfAll(kind) ==
    {n \in DOMAIN Wanted[kind] : target[Wanted[kind][n]] = "none"}

\* get_wanted: what is missing and has not failed too often.
Worklist(kind) ==
    {n \in DOMAIN Wanted[kind] :
        LET i == Wanted[kind][n] IN target[i] = "none" /\ attempts[i] < SkipAfter}

\* What main does with a result.
Stop ==
    /\ run' = "idle" /\ todo' = {} /\ streak' = 0
    /\ item' = NoItem /\ polls' = 0

Passed ==
    /\ streak' = 0
    /\ item' = NoItem /\ polls' = 0
    /\ UNCHANGED run

\* A mutant of Failed: the run goes on waiting for the same item.
FailedTriesAgain ==
    IF streak + 1 >= FailureLimit THEN Stop
    ELSE /\ streak' = streak + 1
         /\ polls' = 0
         /\ UNCHANGED <<run, todo, item>>

Failed ==
    IF streak + 1 >= FailureLimit THEN Stop
    ELSE /\ streak' = streak + 1
         /\ item' = NoItem /\ polls' = 0
         /\ UNCHANGED <<run, todo>>

\* A mutant of RecordFailure: the blocklist is not saved.
RecordNothing(i) == attempts' = attempts

RecordFailure(i) == attempts' = [attempts EXCEPT ![i] = @ + 1]

Busy == run # "idle" /\ item = NoItem /\ todo # {}

\* The place n of the worklist is up.
Up(n) == Busy /\ n \in todo /\ \A m \in todo : n <= m

Skip(n) ==
    /\ Up(n) /\ Wanted[run][n] \in NoSource
    /\ todo' = todo \ {n}
    /\ Passed
    /\ UNCHANGED <<jobVars, window, fileVars, ghosts>>

\* The window opens 5 seconds before the request: lines logged since the last
\* look but one may be in it.  Of those the ones about permissions are about
\* files of other items.
Suffixes(s) == {SubSeq(s, n, Len(s)) : n \in 1 .. Len(s) + 1}
Telltale(s) ==
    LET telling == {n \in 1 .. Len(s) : s[n].age # "old" /\ s[n].cause # "permission"}
        Place(k) == CHOOSE n \in telling : Cardinality({m \in telling : m < n}) = k - 1
    IN  IF telling = DOMAIN s THEN s ELSE [k \in 1 .. Cardinality(telling) |-> s[Place(k)]]

\* api_patch returns 204.  The job starts, unless there is one already.
Request(n) ==
    LET i == Wanted[run][n] IN
    /\ Up(n) /\ i \notin NoSource
    /\ todo' = todo \ {n}
    /\ item' = i /\ polls' = 0
    /\ tried' = tried \union {i}
    /\ \E w \in Suffixes(Telltale(window)) :
        \/ i \in UnreadableItems /\ Job!Refuse(i)
           /\ window' = Append(w, [cause |-> "permission", item |-> i, age |-> "new"])
        \/ i \notin UnreadableItems /\ Job!Start(i) /\ window' = w
        \/ ~Job!Asked(i) /\ UNCHANGED jobVars /\ window' = w
    /\ UNCHANGED <<run, streak, fileVars, before, mishaps>>

\* api_patch returns something else.
RequestFails(n) ==
    LET i == Wanted[run][n] IN
    /\ Up(n) /\ i \notin NoSource
    /\ tried' = tried \union {i}
    /\ RecordFailure(i)
    /\ IF streak + 1 >= FailureLimit THEN Stop
       ELSE /\ todo' = todo \ {n} /\ streak' = streak + 1
            /\ UNCHANGED <<run, item, polls>>
    /\ UNCHANGED <<jobVars, window, cooldown, before, mishaps>>

\* classify_bazarr_log_error_since: the newest line that says anything.
Telling(l) == l.cause = "permission" => l.item = item
Verdict ==
    LET hits == {n \in 1 .. Len(window) : Telling(window[n])}
    IN  IF hits = {} THEN "none"
        ELSE window[CHOOSE n \in hits : \A m \in hits : m <= n].cause

Older(s) ==
    [n \in 1 .. Len(s) |-> [s[n] EXCEPT !.age = IF @ = "new" THEN "recent" ELSE "old"]]

\* The script has slept and looks for the file, and then at the log, for the
\* last time if it is done with the item.
Looks(done) ==
    /\ item # NoItem
    /\ window' = IF done THEN Telltale(Older(window)) ELSE Older(window)
    /\ UNCHANGED <<jobVars, ghosts>>

FileThere == target[item] \notin {"none", "empty"}

PollFinds ==
    /\ Looks(TRUE)
    /\ FileThere
    /\ Passed
    /\ UNCHANGED <<todo, fileVars>>

\* The file is there and cannot be read, and only FileNotFoundError is caught: the
\* run ends, and what its failures so far were is not seen.
PollDies ==
    /\ Looks(TRUE)
    /\ target[item] # "none"
    /\ Stop
    /\ UNCHANGED fileVars

\* A mutant of PollRateLimited: the run goes on with the next item.
PollRateLimitedGoesOn ==
    /\ Looks(TRUE)
    /\ ~FileThere /\ Verdict = "rate_limited"
    /\ Passed
    /\ cooldown' = TRUE
    /\ UNCHANGED <<todo, attempts>>

\* The quota is taken to be spent: no more today.
PollRateLimited ==
    /\ Looks(TRUE)
    /\ ~FileThere /\ Verdict = "rate_limited"
    /\ Stop
    /\ cooldown' = TRUE
    /\ UNCHANGED attempts

PollUnreadable ==
    /\ Looks(TRUE)
    /\ ~FileThere /\ Verdict = "permission"
    /\ Failed
    /\ UNCHANGED fileVars

PollMalformed ==
    /\ Looks(TRUE)
    /\ ~FileThere /\ Verdict = "malformed"
    /\ RecordFailure(item)
    /\ Failed
    /\ UNCHANGED cooldown

PollNothing ==
    /\ Looks(polls + 1 = MaxPolls)
    /\ ~FileThere /\ Verdict = "none"
    /\ IF polls + 1 < MaxPolls
       THEN /\ polls' = polls + 1
            /\ UNCHANGED <<run, todo, item, streak, attempts>>
       ELSE RecordFailure(item) /\ Failed
    /\ UNCHANGED cooldown

---------------------------------------------------------------------------
(* main: one run of the script.                                            *)

StartRun ==
    /\ run = "idle" /\ ~cooldown
    /\ run' = "episode"
    /\ todo' = Worklist("episode")
    /\ before' = attempts
    /\ UNCHANGED <<jobVars, window, item, polls, streak, fileVars, tried, mishaps>>

\* The failures in a row are counted on from the episodes to the movies.
NextKind ==
    /\ run # "idle" /\ item = NoItem /\ todo = {}
    /\ IF run = "episode"
       THEN /\ run' = "movie" /\ todo' = Worklist("movie")
            /\ UNCHANGED <<item, polls, streak>>
       ELSE Stop
    /\ UNCHANGED <<jobVars, window, fileVars, ghosts>>

\* The script is killed, or dies of a timeout of curl; when it was writing the
\* blocklist, which is truncated first, the next run starts with an empty one.
Killed ==
    /\ run # "idle" /\ mishaps < MaxMishaps
    /\ mishaps' = mishaps + 1
    /\ Stop
    /\ \/ UNCHANGED attempts
       \/ (item # NoItem \/ Busy) /\ attempts' = [i \in Items |-> 0]
    /\ UNCHANGED <<jobVars, window, cooldown, tried, before>>

ScriptStep ==
    \/ StartRun \/ NextKind
    \/ \E n \in todo : Skip(n) \/ Request(n) \/ RequestFails(n)
    \/ PollFinds \/ PollRateLimited \/ PollUnreadable \/ PollMalformed \/ PollNothing

Next ==
    \/ ScriptStep \/ PollDies \/ Killed \/ NewDay
    \/ \E i \in Items :
        JobOpens(i) \/ JobSucceeds(i) \/ JobFails(i) \/ JobEndsEarly(i)

Spec == Init /\ [][Next]_vars

\* Cron starts the script again and again, its steps are never blocked, and
\* days go by.  Jobs may hang for ever: Gemini's answer has no timeout.
FairSpec == Spec /\ WF_vars(ScriptStep) /\ WF_vars(NewDay)

---------------------------------------------------------------------------
(* Properties.                                                             *)

TypeOK ==
    /\ status \in [Items -> Job!Statuses]
    /\ target \in [Items -> Job!Files]
    /\ window \in Seq(Lines)
    /\ run \in Kinds \union {"idle"}
    /\ todo \subseteq IF run = "idle" THEN {} ELSE DOMAIN Wanted[run]
    /\ item \in Items \union {NoItem}
    /\ polls \in 0 .. MaxPolls - 1
    /\ streak \in 0 .. FailureLimit - 1
    /\ attempts \in [Items -> 0 .. SkipAfter]
    /\ cooldown \in BOOLEAN

\* An item is given up after failures in SkipAfter separate runs: no run counts
\* two of them for one item, and none counts one for an item given up before.
ExcludedAfterSeparateRuns ==
    \A i \in Items :
        /\ attempts[i] <= before[i] + 1
        /\ before[i] >= SkipAfter => attempts[i] <= before[i]

\* While the cooldown is in force nothing is asked of Bazarr and no item is
\* blamed, whichever item was limited.
QuietInCooldown ==
    [][cooldown => tried' = tried /\ attempts' = attempts /\ run' = "idle"]_vars

\* No item waits for ever behind items that fail, hang or are excluded, as long as
\* fewer than FailureLimit items cannot be read; unless runs are ended again and
\* again before they count a failure, by a limit or by a file that cannot be read.
EveryItemTried ==
    \/ <>(Items \ NoSource \subseteq tried)
    \/ []<><<PollRateLimited \/ PollDies>>_vars
=============================================================================
