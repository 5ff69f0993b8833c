-------------------------- MODULE GeminiTranslator --------------------------
(***************************************************************************)
(* The translation jobs of Bazarr with the patched Gemini service          *)
(* (src/stacks/arr-stack/patches/gemini_translator.py).  A job cuts its    *)
(* subtitle into batches and sends them one after the other.  A batch that *)
(* is refused is cut in half, a single line is sent again, and an answer   *)
(* that says the key is over its limit puts the key on a cooldown that all *)
(* jobs of the process share.  What the lines say is left out: an answer   *)
(* is taken when it has as many lines as the batch.                        *)
(***************************************************************************)
EXTENDS Naturals, FiniteSets

CONSTANTS
    Jobs,       \* translations; each has its own subtitle file
    NoJob,
    Present,    \* those whose translation is there and is to be made again
    NumKeys,    \* configured Gemini keys, tried in the order 1 .. NumKeys
    NumLines,   \* NumLines[j]: lines of the subtitle of job j
    BatchSize,  \* gemini_batch_size
    RetryNum    \* retry_num of _process_batch (3)

ASSUME TranslatorAssumption ==
    /\ NoJob \notin Jobs
    /\ Present \subseteq Jobs
    /\ NumKeys \in Nat
    /\ NumLines \in [Jobs -> Nat \ {0}]
    /\ BatchSize \in Nat \ {0}
    /\ RetryNum \in Nat

VARIABLES
    status,     \* status[j]: see Statuses
    key,        \* current_api_key of j, 0 when there is none
    cooling,    \* _GEMINI_KEY_COOLDOWNS: keys whose cooldown has not expired
    upto,       \* i: the lines below it have been put in batches
    work,       \* batches, or parts of one, that are to be sent
    progress,   \* the saved progress file: "later" if it says a line > 1, else "none"
    target,     \* the output file
    answered,   \* ghost: lines of the batches whose answer was taken
    hung,       \* jobs whose request is never answered
    requests,   \* ghost: how many requests of the job have come back, while it sends
    coolBy      \* ghost: the job whose request has put the key on its cooldown

fileVars == <<progress, target>>
keyVars == <<key, cooling, coolBy>>
batchVars == <<upto, work, answered, requests>>
vars == <<status, hung, keyVars, batchVars, fileVars>>

Keys == 1 .. NumKeys
Running == {"starting", "working"}
Causes == {"rate_limited", "malformed", "permission", "other"}
Statuses == {"idle", "ok"} \union Running \union Causes
Files == {"none", "old", "empty", "part", "new"}

\* A part of a batch: the lines lo .. hi - 1, to be sent with this retry_num.
Parts(j) == [lo : 0 .. NumLines[j], hi : 0 .. NumLines[j], retry : 0 .. RetryNum]
LinesOf(p) == p.lo .. (p.hi - 1)
Size(p) == p.hi - p.lo
Least(m, n) == IF m <= n THEN m ELSE n

Batch(j, lo) ==
    [lo |-> lo, hi |-> Least(lo + BatchSize, NumLines[j]), retry |-> RetryNum]

\* The calls of _process_batch form a stack, and what is on it is sent in the
\* order of the lines.
Foremost(j, p) == p \in work[j] /\ \A q \in work[j] : p.lo <= q.lo

\* A mutant of SelectKey: the next key, whether or not it is on cooldown.
SelectKeyBlindly(k, cool) ==
    IF Keys \subseteq cool THEN 0 ELSE ((k % NumKeys) + 1)

\* _select_next_api_key: the first key after the current one, in a ring, that is
\* not on cooldown; the current one comes last.
RingKey(k, offset) == ((k + offset - 1) % NumKeys) + 1
SelectKey(k, cool) ==
    LET free == {o \in Keys : RingKey(k, o) \notin cool}
    IN  IF free = {} THEN 0
        ELSE RingKey(k, CHOOSE o \in free : \A q \in free : o <= q)

\* The job's error handlers swallow the errors of the progress file and of the
\* removal of the output: both may stay as they are.
SaveProgress(j, f) == \E g \in {f, progress[j]} : progress' = [progress EXCEPT ![j] = g]
ClearProgress(j) == SaveProgress(j, "none")
RemoveOutput(j) == \E f \in {"none", target[j]} : target' = [target EXCEPT ![j] = f]

\* What add_translator_info may leave of a file when it fails.
Rewritten(f) == {f} \union IF f = "none" THEN {} ELSE {"empty", "part"}

Init ==
    /\ status = [j \in Jobs |-> "idle"]
    /\ key = [j \in Jobs |-> 0]
    /\ cooling = {}
    /\ coolBy = [k \in Keys |-> NoJob]
    /\ upto = [j \in Jobs |-> 0]
    /\ work = [j \in Jobs |-> {}]
    /\ answered = [j \in Jobs |-> {}]
    /\ hung = {}
    /\ requests = [j \in Jobs |-> 0]
    /\ progress = [j \in Jobs |-> "none"]
    /\ target = [j \in Jobs |-> IF j \in Present THEN "old" ELSE "none"]

---------------------------------------------------------------------------
(* translate: the start of a job.                                           *)

\* A subtitle that is missing again, or still, is asked for again.
Asked(j) == status[j] \notin Running /\ target[j] # "new"

\* pysubs2.load raises before the try: nothing has been touched.
SourceUnreadable(j) ==
    /\ Asked(j)
    /\ status' = [status EXCEPT ![j] = "permission"]
    /\ UNCHANGED <<hung, keyVars, batchVars, fileVars>>

\* A new service object: it selects a key and, when a progress file says that
\* a run got past the first line, removes the output if it can.
Begin(j) ==
    /\ Asked(j)
    /\ status' = [status EXCEPT ![j] = "starting"]
    /\ key' = [key EXCEPT ![j] = SelectKey(0, cooling)]
    /\ upto' = [upto EXCEPT ![j] = 0]
    /\ work' = [work EXCEPT ![j] = {}]
    /\ answered' = [answered EXCEPT ![j] = {}]
    /\ requests' = [requests EXCEPT ![j] = 0]
    /\ IF progress[j] = "later" THEN RemoveOutput(j) ELSE UNCHANGED target
    /\ UNCHANGED <<hung, cooling, coolBy, progress>>

\* No key, or all of them cooling: _translate_with_gemini returns and translate
\* goes on as if it had translated: it rewrites what is there with its note, and
\* may fail at that or at the history.
NoKey(j) ==
    /\ status[j] = "starting" /\ key[j] = 0
    /\ \/ /\ status' = [status EXCEPT ![j] = "ok"]
          /\ UNCHANGED target
       \/ /\ status' = [status EXCEPT ![j] = "other"]
          /\ \E f \in Rewritten(target[j]) : target' = [target EXCEPT ![j] = f]
    /\ UNCHANGED <<hung, keyVars, batchVars, progress>>

\* open() raises: the handler fails on the unset total and cleans nothing up.
OpenFails(j) ==
    /\ status[j] = "starting" /\ key[j] # 0
    /\ status' = [status EXCEPT ![j] = "other"]
    /\ UNCHANGED <<hung, keyVars, batchVars, fileVars>>

TakeBatch(j) ==
    /\ work' = [work EXCEPT ![j] = {Batch(j, upto[j])}]
    /\ upto' = [upto EXCEPT ![j] = Batch(j, upto[j]).hi]
    /\ UNCHANGED <<answered, requests>>

\* The output is opened for writing, which empties it.
Open(j) ==
    /\ status[j] = "starting" /\ key[j] # 0
    /\ status' = [status EXCEPT ![j] = "working"]
    /\ target' = [target EXCEPT ![j] = "empty"]
    /\ SaveProgress(j, "none")
    /\ TakeBatch(j)
    /\ UNCHANGED <<hung, keyVars>>

\* A mutant of NextBatch: a last batch of one line is not taken.
NextBatchButLast(j) ==
    /\ status[j] = "working" /\ work[j] = {} /\ upto[j] < NumLines[j] - 1
    /\ TakeBatch(j)
    /\ UNCHANGED <<status, hung, keyVars, fileVars>>

NextBatch(j) ==
    /\ status[j] = "working" /\ work[j] = {} /\ upto[j] < NumLines[j]
    /\ TakeBatch(j)
    /\ UNCHANGED <<status, hung, keyVars, fileVars>>

---------------------------------------------------------------------------
(* _process_batch: one request and what becomes of its answer.             *)

\* What the job had in memory is gone with it.
Drop(j) ==
    /\ work' = [work EXCEPT ![j] = {}]
    /\ upto' = [upto EXCEPT ![j] = 0]
    /\ answered' = [answered EXCEPT ![j] = {}]

\* A mutant of GiveUp: the error is not raised again after the clean-up.
GiveUpSilently(j, cause) ==
    /\ status' = [status EXCEPT ![j] = "ok"]
    /\ Drop(j)
    /\ ClearProgress(j)
    /\ RemoveOutput(j)

\* The job gives up, and removes its empty output if it can.
GiveUp(j, cause) ==
    /\ status' = [status EXCEPT ![j] = cause]
    /\ Drop(j)
    /\ ClearProgress(j)
    /\ RemoveOutput(j)

\* requests.request has no timeout: it comes back only if the connection does.
Sent(j) ==
    /\ j \notin hung /\ UNCHANGED hung
    /\ requests' = [requests EXCEPT ![j] = IF status'[j] = "working" THEN @ + 1 ELSE 0]

Hang(j) ==
    /\ status[j] = "working" /\ work[j] # {} /\ j \notin hung
    /\ hung' = hung \union {j}
    /\ UNCHANGED <<status, keyVars, batchVars, fileVars>>

Replace(j, p, qs) ==
    /\ work' = [work EXCEPT ![j] = (@ \ {p}) \union qs]
    /\ UNCHANGED <<status, upto, answered, fileVars>>

Middle(p) == p.lo + Size(p) \div 2
\* A mutant of Halves: the line in the middle is in neither half.
HalvesWithGap(p) ==
    {[lo |-> p.lo, hi |-> Middle(p), retry |-> RetryNum],
     [lo |-> Middle(p) + 1, hi |-> p.hi, retry |-> RetryNum]}

Halves(p) ==
    {[lo |-> p.lo, hi |-> Middle(p), retry |-> RetryNum],
     [lo |-> Middle(p), hi |-> p.hi, retry |-> RetryNum]}

\* A mutant of Resend: retry_num is passed on as it is.
ResendForever(j, p) == p.retry > 0 /\ Replace(j, p, {p})

Resend(j, p) == p.retry > 0 /\ Replace(j, p, {[p EXCEPT !.retry = @ - 1]})
Split(j, p) == Size(p) > 1 /\ Replace(j, p, Halves(p))

\* The answer has as many lines as the batch.
Accepted(j) ==
    /\ status[j] = "working"
    /\ \E p \in work[j] :
        /\ Foremost(j, p)
        /\ work' = [work EXCEPT ![j] = @ \ {p}]
        /\ answered' = [answered EXCEPT ![j] = @ \union LinesOf(p)]
        /\ IF work[j] = {p} THEN SaveProgress(j, "later") ELSE UNCHANGED progress
    /\ UNCHANGED <<status, upto, keyVars, target>>
    /\ Sent(j)

\* Any failure but a limit: too few or too many lines, strange indices, no JSON
\* ("malformed"), or no answer at all ("other").
Refused(j) ==
    /\ status[j] = "working"
    /\ \E p \in work[j], cause \in {"malformed", "other"} :
        /\ Foremost(j, p)
        /\ \/ Split(j, p)
           \/ Size(p) = 1 /\ Resend(j, p)
           \/ Size(p) = 1 /\ p.retry = 0 /\ GiveUp(j, cause)
    /\ Sent(j)
    /\ UNCHANGED keyVars

\* _handle_rate_limited_key, and then the batch again, or its halves.
RateLimited(j) ==
    LET cool == cooling \union {key[j]}
        k == SelectKey(key[j], cool)
    IN  /\ status[j] = "working"
        /\ cooling' = cool
        /\ coolBy' = [coolBy EXCEPT ![key[j]] = j]
        /\ key' = [key EXCEPT ![j] = k]
        /\ \E p \in work[j] :
            /\ Foremost(j, p)
            /\ \/ k = 0 /\ GiveUp(j, "rate_limited")
               \/ k # 0 /\ Resend(j, p)
               \/ k # 0 /\ p.retry = 0 /\ Split(j, p)
               \/ k # 0 /\ p.retry = 0 /\ Size(p) = 1 /\ GiveUp(j, "other")
        /\ Sent(j)

---------------------------------------------------------------------------
(* The end of a job, and the world around it.                              *)

AllAnswered(j) == status[j] = "working" /\ work[j] = {} /\ upto[j] = NumLines[j]

Uncounted(j) == requests' = [requests EXCEPT ![j] = 0]

\* The output is written, gets its note, and the history its line.
Write(j) ==
    /\ AllAnswered(j)
    /\ status' = [status EXCEPT ![j] = "ok"]
    /\ target' = [target EXCEPT ![j] = "new"]
    /\ ClearProgress(j)
    /\ Uncounted(j)
    /\ UNCHANGED <<hung, keyVars, upto, work, answered>>

\* The disk fails: what got into the file stays, an empty file is removed if it
\* can be.
WriteFails(j) ==
    /\ AllAnswered(j)
    /\ status' = [status EXCEPT ![j] = "other"]
    /\ target' \in {[target EXCEPT ![j] = f] : f \in {"part", "empty", "none"}}
    /\ ClearProgress(j)
    /\ Drop(j)
    /\ Uncounted(j)
    /\ UNCHANGED <<hung, keyVars>>

\* The output is written, and then the note cannot be added, or the history not
\* be written: the job has failed and the file is there, whole or not.
WrittenButFails(j) ==
    /\ AllAnswered(j)
    /\ status' = [status EXCEPT ![j] = "other"]
    /\ \E f \in Rewritten("new") : target' = [target EXCEPT ![j] = f]
    /\ ClearProgress(j)
    /\ Uncounted(j)
    /\ UNCHANGED <<hung, keyVars, upto, work, answered>>

CooldownExpires(k) ==
    /\ k \in cooling
    /\ cooling' = cooling \ {k}
    /\ coolBy' = [coolBy EXCEPT ![k] = NoJob]
    /\ UNCHANGED <<status, hung, key, batchVars, fileVars>>

\* Bazarr is restarted: the jobs and the cooldowns were in its memory.  A job that
\* was writing its output may have got some of it, or all, to the disk.
Restart ==
    /\ target' \in [Jobs -> Files]
    /\ \A j \in Jobs : target'[j] # target[j] => AllAnswered(j) /\ target'[j] \in {"part", "new"}
    /\ status' = [j \in Jobs |-> IF status[j] \in Running THEN "idle" ELSE status[j]]
    /\ key' = [j \in Jobs |-> 0]
    /\ work' = [j \in Jobs |-> {}]
    /\ upto' = [j \in Jobs |-> IF status[j] \in Running THEN 0 ELSE upto[j]]
    /\ answered' = [j \in Jobs |-> IF target'[j] = "new" THEN answered[j] ELSE {}]
    /\ requests' = [j \in Jobs |-> 0]
    /\ cooling' = {} /\ coolBy' = [k \in Keys |-> NoJob]
    /\ hung' = {}
    /\ UNCHANGED progress

Step(j) ==
    \/ NoKey(j) \/ OpenFails(j) \/ Open(j) \/ NextBatch(j)
    \/ Accepted(j) \/ Refused(j) \/ RateLimited(j)
    \/ Write(j) \/ WriteFails(j) \/ WrittenButFails(j)

Next ==
    \/ \E j \in Jobs : SourceUnreadable(j) \/ Begin(j) \/ Step(j) \/ Hang(j)
    \/ \E k \in Keys : CooldownExpires(k)
    \/ Restart

Spec == Init /\ [][Next]_vars

\* Bazarr's thread of a job goes on, as long as what it waits for comes: an answer of
\* Gemini, or the end of the connection.
FairSpec == Spec /\ \A j \in Jobs : WF_vars(Step(j))

---------------------------------------------------------------------------
(* Properties.                                                             *)

TypeOK ==
    /\ status \in [Jobs -> Statuses]
    /\ key \in [Jobs -> Keys \union {0}]
    /\ cooling \subseteq Keys
    /\ coolBy \in [Keys -> Jobs \union {NoJob}]
    /\ work \in [Jobs -> SUBSET [lo : Nat, hi : Nat, retry : Nat]]
    /\ upto \in [Jobs -> Nat]
    /\ answered \in [Jobs -> SUBSET Nat]
    /\ \A j \in Jobs :
        /\ work[j] \subseteq Parts(j)
        /\ upto[j] <= NumLines[j]
        /\ answered[j] \subseteq 0 .. (NumLines[j] - 1)
    /\ hung \subseteq Jobs
    /\ requests \in [Jobs -> Nat]
    /\ progress \in [Jobs -> {"none", "later"}]
    /\ target \in [Jobs -> Files]

\* However batches are cut, refused and sent again, every line that has been put
\* in a batch is in a part that is still to be sent or in a batch whose answer
\* was taken, in one of the two and once; and a translation is written only when
\* all lines of the subtitle have had an answer.
ToBeSent(j) == UNION {LinesOf(p) : p \in work[j]}

LinesAccounted ==
    \A j \in Jobs :
        /\ status[j] = "working" =>
            /\ answered[j] \union ToBeSent(j) = 0 .. (upto[j] - 1)
            /\ answered[j] \intersect ToBeSent(j) = {}
            /\ \A p, q \in work[j] : p # q => LinesOf(p) \intersect LinesOf(q) = {}
        /\ target[j] = "new" => answered[j] = 0 .. (NumLines[j] - 1)

\* A job sends no request with a key that its own requests have put on cooldown:
\* only another job, after this one chose the key, can have done so.
OwnLimitsRespected ==
    \A j \in Jobs :
        status[j] \in Running /\ key[j] \in cooling => coolBy[key[j]] # j

\* What a job may cost: no part of a batch is sent more often than retry_num and
\* one more time, whatever Gemini answers and however limits and refusals mix; the
\* request that is out, which may never come back, counts.
Batches(j) == (NumLines[j] + BatchSize - 1) \div BatchSize
Out(j) == IF status[j] = "working" /\ work[j] # {} THEN 1 ELSE 0
RequestBound ==
    \A j \in Jobs :
        requests[j] + Out(j) <= (RetryNum + 1) * (2 * NumLines[j] - Batches(j))

\* To those who wait for it a job is one of module TranslationJob: it says ok only
\* over a whole file or one that it has not touched, a whole file takes the
\* place of the old one only when all is answered, and a failure names its reason.
Job == INSTANCE TranslationJob
ImplementsJob == Job!Spec

\* Every job ends, whatever Gemini answers, but one whose request is never answered.
JobsEnd ==
    \A j \in Jobs : status[j] \in Running ~> status[j] \notin Running \/ j \in hung
=============================================================================
