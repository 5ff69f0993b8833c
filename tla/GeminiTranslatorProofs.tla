----------------------- MODULE GeminiTranslatorProofs -----------------------
(***************************************************************************)
(* Theorems about GeminiTranslator, for any jobs, keys, subtitles, batch   *)
(* sizes and numbers of resends: typing, the account of the lines, the     *)
(* respect for limits, the bound on the requests, and that it implements   *)
(* TranslationJob.                                                         *)
(***************************************************************************)
EXTENDS GeminiTranslator, Integers, FiniteSetTheorems, WellFoundedInduction, TLAPS

---------------------------------------------------------------------------
(* The least number of a set.                                              *)

\* The relation of module WellFoundedInduction is that of the numbers.
LEMMA LessRelation == \A x, y \in Nat : <<x, y>> \in OpToRel(<, Nat) <=> x < y
BY DEF OpToRel

LEMMA LessWellFounded ==
    \E R : IsWellFoundedOn(R, Nat) /\ \A x, y \in Nat : <<x, y>> \in R <=> x < y
BY NatLessThanWellFounded, LessRelation, Zenon

\* A nonempty set of natural numbers has a least element.
LEMMA LeastExists ==
    ASSUME NEW S, S \subseteq Nat, S # {}
    PROVE  \E x \in S : \A y \in S : x <= y
<1>1. PICK R : IsWellFoundedOn(R, Nat) /\ \A x, y \in Nat : <<x, y>> \in R <=> x < y
  BY LessWellFounded
<1>2. IsWellFoundedOn(R, Nat)
  BY <1>1
<1>3. PICK x \in S : \A y \in S : ~ (<<y, x>> \in R)
  BY <1>2, WFMin
<1>4. \A y \in S : ~ (y < x)
  BY <1>1, <1>3
<1>5. x \in Nat /\ \A y \in S : y \in Nat
  BY <1>3
<1>6. \A y \in S : x <= y
  BY <1>4, <1>5
<1> QED  BY <1>6

---------------------------------------------------------------------------
(* The choice of a key.                                                    *)

LEMMA RingKeyType ==
    ASSUME NEW k \in Keys \union {0}, NEW o \in Keys
    PROVE  RingKey(k, o) \in Keys
<1>1. NumKeys \in Nat /\ NumKeys > 0 /\ k \in Nat /\ o \in Nat /\ o > 0
  BY TranslatorAssumption DEF Keys
<1>2. k + o - 1 \in Nat
  BY <1>1
<1>3. (k + o - 1) % NumKeys \in 0 .. (NumKeys - 1)
  BY <1>1, <1>2
<1> QED  BY <1>1, <1>3 DEF RingKey, Keys

\* The key that is chosen is one that is configured and not on cooldown, or none.
LEMMA SelectKeyLemma ==
    ASSUME NEW k \in Keys \union {0}, NEW cool
    PROVE  /\ SelectKey(k, cool) \in Keys \union {0}
           /\ SelectKey(k, cool) # 0 => SelectKey(k, cool) \notin cool
<1> DEFINE free == {o \in Keys : RingKey(k, o) \notin cool}
<1>1. CASE free = {}
  BY <1>1 DEF SelectKey
<1>2. CASE free # {}
  <2>1. free \subseteq Nat
    BY DEF Keys
  <2>2. \E o \in free : \A q \in free : o <= q
    BY <1>2, <2>1, LeastExists
  <2>3. (CHOOSE o \in free : \A q \in free : o <= q) \in free
    BY <2>2
  <2>4. SelectKey(k, cool) = RingKey(k, CHOOSE o \in free : \A q \in free : o <= q)
    BY <1>2 DEF SelectKey
  <2> QED  BY <2>3, <2>4, RingKeyType
<1> QED  BY <1>1, <1>2

---------------------------------------------------------------------------
(* Types.                                                                  *)

LEMMA BatchType ==
    ASSUME NEW j \in Jobs, NEW n \in 0 .. NumLines[j]
    PROVE  /\ Batch(j, n) \in Parts(j)
           /\ Batch(j, n).lo = n
           /\ Batch(j, n).hi \in n .. NumLines[j]
<1>1. NumLines[j] \in Nat /\ BatchSize \in Nat /\ RetryNum \in Nat
  BY TranslatorAssumption
<1>2. Least(n + BatchSize, NumLines[j]) \in n .. NumLines[j]
  BY <1>1 DEF Least
<1> QED  BY <1>1, <1>2 DEF Batch, Parts

LEMMA HalvesType ==
    ASSUME NEW j \in Jobs, NEW p \in Parts(j), Size(p) > 1
    PROVE  /\ Halves(p) \subseteq Parts(j)
           /\ Middle(p) \in (p.lo + 1) .. (p.hi - 1)
<1>1. NumLines[j] \in Nat /\ RetryNum \in Nat
  BY TranslatorAssumption
<1>2. p.lo \in 0 .. NumLines[j] /\ p.hi \in 0 .. NumLines[j] /\ p.hi - p.lo > 1
  BY DEF Parts, Size
<1>3. Middle(p) \in (p.lo + 1) .. (p.hi - 1)
  BY <1>1, <1>2 DEF Middle, Size
<1>4. Middle(p) \in 0 .. NumLines[j]
  BY <1>1, <1>2, <1>3
<1> QED  BY <1>1, <1>2, <1>3, <1>4 DEF Halves, Parts

LEMMA ResendType ==
    ASSUME NEW j \in Jobs, NEW p \in Parts(j), p.retry > 0
    PROVE  [p EXCEPT !.retry = @ - 1] \in Parts(j)
BY TranslatorAssumption DEF Parts

LEMMA PartLines ==
    ASSUME NEW j \in Jobs, NEW p \in Parts(j)
    PROVE  LinesOf(p) \subseteq 0 .. (NumLines[j] - 1)
BY TranslatorAssumption DEF Parts, LinesOf

\* The variables that the parts of a batch, and what becomes of them, are about.
PartsTyped ==
    /\ work \in [Jobs -> SUBSET [lo : Nat, hi : Nat, retry : Nat]]
    /\ upto \in [Jobs -> Nat]
    /\ answered \in [Jobs -> SUBSET Nat]
    /\ \A j \in Jobs :
        /\ work[j] \subseteq Parts(j)
        /\ upto[j] <= NumLines[j]
        /\ answered[j] \subseteq 0 .. (NumLines[j] - 1)

LEMMA PartsNat ==
    ASSUME NEW j \in Jobs
    PROVE  Parts(j) \subseteq [lo : Nat, hi : Nat, retry : Nat]
BY TranslatorAssumption DEF Parts

LEMMA TakeBatchType ==
    ASSUME PartsTyped, NEW j \in Jobs, TakeBatch(j)
    PROVE  PartsTyped'
<1> DEFINE b == Batch(j, upto[j])
<1>1. upto[j] \in 0 .. NumLines[j] /\ NumLines[j] \in Nat
  BY TranslatorAssumption DEF PartsTyped
<1>2. b \in Parts(j) /\ b.hi \in upto[j] .. NumLines[j]
  BY <1>1, BatchType
<1>3. b \in [lo : Nat, hi : Nat, retry : Nat]
  BY <1>2, PartsNat
<1> HIDE DEF b
<1>4. /\ work' = [work EXCEPT ![j] = {b}]
      /\ upto' = [upto EXCEPT ![j] = b.hi]
      /\ answered' = answered
  BY DEF TakeBatch, b
<1>5. work' \in [Jobs -> SUBSET [lo : Nat, hi : Nat, retry : Nat]]
  BY <1>3, <1>4 DEF PartsTyped
<1>6. upto' \in [Jobs -> Nat] /\ \A i \in Jobs : upto'[i] <= NumLines[i]
  BY <1>1, <1>2, <1>4 DEF PartsTyped
<1>7. \A i \in Jobs : work'[i] \subseteq Parts(i)
  BY <1>2, <1>4 DEF PartsTyped
<1> QED  BY <1>4, <1>5, <1>6, <1>7 DEF PartsTyped

LEMMA DropType ==
    ASSUME PartsTyped, NEW j \in Jobs, Drop(j)
    PROVE  PartsTyped'
<1>1. NumLines[j] \in Nat
  BY TranslatorAssumption
<1>2. work' \in [Jobs -> SUBSET [lo : Nat, hi : Nat, retry : Nat]]
  BY DEF PartsTyped, Drop
<1>3. \A i \in Jobs : work'[i] \subseteq Parts(i)
  BY DEF PartsTyped, Drop
<1>4. upto' \in [Jobs -> Nat] /\ \A i \in Jobs : upto'[i] <= NumLines[i]
  BY <1>1 DEF PartsTyped, Drop
<1>5. /\ answered' \in [Jobs -> SUBSET Nat]
      /\ \A i \in Jobs : answered'[i] \subseteq 0 .. (NumLines[i] - 1)
  BY DEF PartsTyped, Drop
<1> QED  BY <1>2, <1>3, <1>4, <1>5 DEF PartsTyped

\* A part is replaced by parts of the same subtitle.
LEMMA ReplaceType ==
    ASSUME PartsTyped, NEW j \in Jobs, NEW p \in work[j], NEW qs,
           qs \subseteq Parts(j), Replace(j, p, qs)
    PROVE  PartsTyped'
<1>1. qs \subseteq [lo : Nat, hi : Nat, retry : Nat]
  BY PartsNat
<1>2. work' = [work EXCEPT ![j] = (@ \ {p}) \union qs] /\ UNCHANGED <<upto, answered>>
  BY DEF Replace
<1>3. work' \in [Jobs -> SUBSET [lo : Nat, hi : Nat, retry : Nat]]
  BY <1>1, <1>2 DEF PartsTyped
<1>4. \A i \in Jobs : work'[i] \subseteq Parts(i)
  BY <1>2 DEF PartsTyped
<1> QED  BY <1>2, <1>3, <1>4 DEF PartsTyped

LEMMA ResendStep ==
    ASSUME PartsTyped, NEW j \in Jobs, NEW p \in work[j], Resend(j, p)
    PROVE  PartsTyped'
<1>1. p \in Parts(j) /\ p.retry > 0
  BY DEF PartsTyped, Resend
<1>2. {[p EXCEPT !.retry = @ - 1]} \subseteq Parts(j)
  BY <1>1, ResendType
<1> QED  BY <1>2, ReplaceType DEF Resend

LEMMA SplitStep ==
    ASSUME PartsTyped, NEW j \in Jobs, NEW p \in work[j], Split(j, p)
    PROVE  PartsTyped'
<1>1. p \in Parts(j) /\ Size(p) > 1
  BY DEF PartsTyped, Split
<1>2. Halves(p) \subseteq Parts(j)
  BY <1>1, HalvesType
<1> QED  BY <1>2, ReplaceType DEF Split

LEMMA AcceptedParts ==
    ASSUME PartsTyped, NEW j \in Jobs, Accepted(j)
    PROVE  PartsTyped'
<1>1. PICK p \in work[j] :
          /\ work' = [work EXCEPT ![j] = @ \ {p}]
          /\ answered' = [answered EXCEPT ![j] = @ \union LinesOf(p)]
          /\ UNCHANGED upto
  BY DEF Accepted
<1>2. LinesOf(p) \subseteq 0 .. (NumLines[j] - 1) /\ NumLines[j] \in Nat
  BY PartLines, TranslatorAssumption DEF PartsTyped
<1>3. 0 .. (NumLines[j] - 1) \subseteq Nat
  BY <1>2
<1>4. work' \in [Jobs -> SUBSET [lo : Nat, hi : Nat, retry : Nat]]
  BY <1>1 DEF PartsTyped
<1>5. \A i \in Jobs : work'[i] \subseteq Parts(i)
  BY <1>1 DEF PartsTyped
<1>6. answered' \in [Jobs -> SUBSET Nat]
  BY <1>1, <1>2, <1>3 DEF PartsTyped
<1>7. \A i \in Jobs : answered'[i] \subseteq 0 .. (NumLines[i] - 1)
  BY <1>1, <1>2 DEF PartsTyped
<1> QED  BY <1>1, <1>4, <1>5, <1>6, <1>7 DEF PartsTyped

\* The other variables.
OthersTyped ==
    /\ status \in [Jobs -> Statuses]
    /\ key \in [Jobs -> Keys \union {0}]
    /\ cooling \subseteq Keys
    /\ coolBy \in [Keys -> Jobs \union {NoJob}]
    /\ hung \subseteq Jobs
    /\ requests \in [Jobs -> Nat]
    /\ progress \in [Jobs -> {"none", "later"}]
    /\ target \in [Jobs -> Files]

\* A job that has not opened its output has put no line in a batch; a job that
\* sends has a key and an open output.
Stages ==
    \A j \in Jobs :
        /\ status[j] = "starting" =>
            /\ answered[j] = {} /\ upto[j] = 0 /\ work[j] = {}
            /\ target[j] # "new"
        /\ status[j] = "working" => key[j] # 0 /\ target[j] = "empty"

Typed == OthersTyped /\ PartsTyped /\ Stages

\* What may become of the progress file and of the output.
LEMMA SaveType ==
    ASSUME OthersTyped, NEW j \in Jobs, NEW f \in {"none", "later"}, SaveProgress(j, f)
    PROVE  progress' \in [Jobs -> {"none", "later"}]
BY DEF SaveProgress, OthersTyped

LEMMA ClearType ==
    ASSUME OthersTyped, NEW j \in Jobs, ClearProgress(j)
    PROVE  progress' \in [Jobs -> {"none", "later"}]
BY SaveType DEF ClearProgress

LEMMA RemoveType ==
    ASSUME OthersTyped, NEW j \in Jobs, RemoveOutput(j)
    PROVE  /\ target' \in [Jobs -> Files]
           /\ target'[j] \in {"none", target[j]}
           /\ \A i \in Jobs : i # j => target'[i] = target[i]
BY DEF RemoveOutput, OthersTyped, Files

LEMMA TypedTypeOK == OthersTyped /\ PartsTyped => TypeOK
BY DEF OthersTyped, PartsTyped, TypeOK

LEMMA TypedInit == Init => Typed
<1> SUFFICES ASSUME Init PROVE Typed
  OBVIOUS
<1>1. OthersTyped
  BY DEF Init, OthersTyped, Statuses, Running, Files
<1>2. PartsTyped
  BY TranslatorAssumption DEF Init, PartsTyped
<1>3. Stages
  BY DEF Init, Stages
<1> QED  BY <1>1, <1>2, <1>3 DEF Typed

LEMMA SourceUnreadableTyped ==
    ASSUME Typed, NEW j \in Jobs, SourceUnreadable(j)
    PROVE  Typed'
<1> USE DEF Typed
<1>1. OthersTyped'
  BY DEF SourceUnreadable, OthersTyped, fileVars, keyVars, batchVars, Statuses, Causes
<1>2. PartsTyped'
  BY DEF SourceUnreadable, PartsTyped, batchVars
<1>3. Stages'
  BY DEF SourceUnreadable, Stages, OthersTyped, fileVars, keyVars, batchVars
<1> QED  BY <1>1, <1>2, <1>3

LEMMA BeginTyped ==
    ASSUME Typed, NEW j \in Jobs, Begin(j)
    PROVE  Typed'
<1> USE DEF Typed
<1>1. SelectKey(0, cooling) \in Keys \union {0}
  BY SelectKeyLemma
<1>0. /\ target' \in [Jobs -> Files]
      /\ target'[j] \in {"none", target[j]}
      /\ \A i \in Jobs : i # j => target'[i] = target[i]
  BY RemoveType DEF Begin, OthersTyped
<1>2. OthersTyped'
  BY <1>0, <1>1 DEF Begin, OthersTyped, Statuses, Running
<1>3. PartsTyped'
  <2>1. Drop(j)
    BY DEF Begin, Drop
  <2> QED  BY <2>1, DropType
<1>4. Stages'
  BY <1>0 DEF Begin, Asked, Stages, OthersTyped, PartsTyped
<1> QED  BY <1>2, <1>3, <1>4

LEMMA EndEarlyTyped ==
    ASSUME Typed, NEW j \in Jobs, NoKey(j) \/ OpenFails(j)
    PROVE  Typed'
<1> USE DEF Typed
<1>0. target[j] \in Files
  BY DEF OthersTyped
<1>1. PICK s \in {"ok", "other"}, f \in Files :
          /\ status' = [status EXCEPT ![j] = s]
          /\ target' = target \/ target' = [target EXCEPT ![j] = f]
          /\ UNCHANGED <<hung, keyVars, batchVars, progress>>
  BY <1>0 DEF NoKey, OpenFails, Rewritten, Files, fileVars
<1>2. OthersTyped'
  BY <1>1 DEF OthersTyped, keyVars, batchVars, Statuses, Causes
<1>3. PartsTyped'
  BY <1>1 DEF PartsTyped, batchVars
<1>4. Stages'
  BY <1>1 DEF Stages, OthersTyped, keyVars, batchVars
<1> QED  BY <1>2, <1>3, <1>4

LEMMA OpenTyped ==
    ASSUME Typed, NEW j \in Jobs, Open(j)
    PROVE  Typed'
<1> USE DEF Typed
<1>1. OthersTyped'
  BY SaveType DEF Open, TakeBatch, OthersTyped, keyVars, Statuses, Running, Files
<1>2. PartsTyped'
  BY TakeBatchType DEF Open
<1>3. Stages'
  BY DEF Open, TakeBatch, Stages, OthersTyped, PartsTyped, keyVars
<1> QED  BY <1>1, <1>2, <1>3

LEMMA NextBatchTyped ==
    ASSUME Typed, NEW j \in Jobs, NextBatch(j)
    PROVE  Typed'
<1> USE DEF Typed
<1>1. OthersTyped'
  BY DEF NextBatch, TakeBatch, OthersTyped, keyVars, fileVars
<1>2. PartsTyped'
  BY TakeBatchType DEF NextBatch
<1>3. Stages'
  BY DEF NextBatch, TakeBatch, Stages, OthersTyped, PartsTyped, keyVars, fileVars
<1> QED  BY <1>1, <1>2, <1>3

LEMMA AcceptedTyped ==
    ASSUME Typed, NEW j \in Jobs, Accepted(j)
    PROVE  Typed'
<1> USE DEF Typed
<1>1. OthersTyped'
  BY SaveType DEF Accepted, Sent, OthersTyped, keyVars
<1>2. PartsTyped'
  BY AcceptedParts
<1>3. Stages'
  BY DEF Accepted, Sent, Stages, OthersTyped, PartsTyped, keyVars
<1> QED  BY <1>1, <1>2, <1>3

\* What becomes of a part that is not taken: the job gives up, or other parts of
\* the same subtitle take its place.
LEMMA OutcomeTyped ==
    ASSUME Typed, NEW j \in Jobs, status[j] = "working", NEW p \in work[j],
           NEW cause \in Causes,
           \/ GiveUp(j, cause)
           \/ Resend(j, p)
           \/ Split(j, p)
    PROVE  /\ status' \in [Jobs -> Statuses]
           /\ progress' \in [Jobs -> {"none", "later"}]
           /\ target' \in [Jobs -> Files]
           /\ PartsTyped'
           /\ \A i \in Jobs : status'[i] \in Running => status'[i] = status[i]
           /\ \A i \in Jobs : i # j =>
                 /\ status'[i] = status[i] /\ target'[i] = target[i]
                 /\ work'[i] = work[i] /\ upto'[i] = upto[i]
                 /\ answered'[i] = answered[i]
           /\ status'[j] = "working" => target'[j] = target[j]
           /\ status'[j] # "starting"
<1> USE DEF Typed
<1>1. CASE GiveUp(j, cause)
  <2>1. PartsTyped'
    BY <1>1, DropType DEF GiveUp
  <2>2. status' = [status EXCEPT ![j] = cause] /\ cause \notin Running /\ cause \in Statuses
    BY <1>1 DEF GiveUp, Causes, Running, Statuses
  <2>3. /\ target' \in [Jobs -> Files] /\ progress' \in [Jobs -> {"none", "later"}]
        /\ \A i \in Jobs : i # j => target'[i] = target[i]
    BY <1>1, RemoveType, ClearType DEF GiveUp
  <2>4. \A i \in Jobs : i # j =>
            work'[i] = work[i] /\ upto'[i] = upto[i] /\ answered'[i] = answered[i]
    BY <1>1 DEF GiveUp, Drop, PartsTyped
  <2> QED  BY <2>1, <2>2, <2>3, <2>4 DEF OthersTyped, Files, Running
<1>2. CASE Resend(j, p) \/ Split(j, p)
  <2>1. PICK qs : Replace(j, p, qs)
    BY <1>2 DEF Resend, Split
  <2>2. PartsTyped'
    BY <1>2, ResendStep, SplitStep
  <2> QED  BY <2>1, <2>2 DEF Replace, fileVars, OthersTyped, PartsTyped
<1> QED  BY <1>1, <1>2

LEMMA RefusedTyped ==
    ASSUME Typed, NEW j \in Jobs, Refused(j)
    PROVE  Typed'
<1> USE DEF Typed
<1>1. PICK p \in work[j], cause \in {"malformed", "other"} :
          Split(j, p) \/ Resend(j, p) \/ GiveUp(j, cause)
  BY DEF Refused
<1>2. status[j] = "working" /\ Sent(j) /\ UNCHANGED keyVars /\ cause \in Causes
  BY DEF Refused, Causes
<1>3. OthersTyped'
  BY <1>1, <1>2, OutcomeTyped DEF OthersTyped, Sent, keyVars
<1>4. Stages'
  BY <1>1, <1>2, OutcomeTyped DEF Stages, keyVars, Running
<1> QED  BY <1>1, <1>2, <1>3, <1>4, OutcomeTyped

LEMMA RateLimitedTyped ==
    ASSUME Typed, NEW j \in Jobs, RateLimited(j)
    PROVE  Typed'
<1> USE DEF Typed
<1> DEFINE cool == cooling \union {key[j]}
           k == SelectKey(key[j], cool)
<1>1. /\ status[j] = "working" /\ Sent(j)
      /\ cooling' = cool
      /\ coolBy' = [coolBy EXCEPT ![key[j]] = j]
      /\ key' = [key EXCEPT ![j] = k]
  BY DEF RateLimited
<1>2. PICK p \in work[j] :
          \/ k = 0 /\ GiveUp(j, "rate_limited")
          \/ k # 0 /\ (Resend(j, p) \/ Split(j, p) \/ GiveUp(j, "other"))
  BY DEF RateLimited
<1>3. PICK cause \in Causes :
          \/ GiveUp(j, cause)
          \/ k # 0 /\ (Resend(j, p) \/ Split(j, p))
  BY <1>2 DEF Causes
<1>4. key[j] \in Keys /\ k \in Keys \union {0}
  BY <1>1, SelectKeyLemma DEF OthersTyped, Stages
<1> HIDE DEF k
<1>5. OthersTyped'
  BY <1>1, <1>3, <1>4, OutcomeTyped DEF OthersTyped, Sent
<1>6. GiveUp(j, cause) => status'[j] # "working"
  BY DEF GiveUp, Causes, OthersTyped
<1>7. Stages'
  BY <1>1, <1>3, <1>4, <1>6, OutcomeTyped DEF Stages, Running, OthersTyped
<1> QED  BY <1>1, <1>3, <1>5, <1>7, OutcomeTyped

LEMMA WriteTyped ==
    ASSUME Typed, NEW j \in Jobs, Write(j) \/ WriteFails(j) \/ WrittenButFails(j)
    PROVE  Typed'
<1> USE DEF Typed
<1>1. CASE Write(j) \/ WrittenButFails(j)
  <2>0. PICK s \in {"ok", "other"}, f \in Files :
            /\ status' = [status EXCEPT ![j] = s]
            /\ target' = [target EXCEPT ![j] = f]
            /\ ClearProgress(j) /\ Uncounted(j)
            /\ UNCHANGED <<hung, keyVars, upto, work, answered>>
    BY <1>1 DEF Write, WrittenButFails, Rewritten, Files
  <2>1. OthersTyped'
    BY <2>0, ClearType DEF OthersTyped, keyVars, Statuses, Causes, Uncounted
  <2>2. PartsTyped'
    BY <2>0 DEF PartsTyped
  <2>3. Stages'
    BY <2>0 DEF Stages, OthersTyped, keyVars
  <2> QED  BY <2>1, <2>2, <2>3
<1>2. CASE WriteFails(j)
  <2>1. OthersTyped'
    <3>1. PICK f \in Files : target' = [target EXCEPT ![j] = f]
      BY <1>2 DEF WriteFails, Files
    <3> QED  BY <1>2, <3>1, ClearType
         DEF WriteFails, OthersTyped, keyVars, Statuses, Causes, Uncounted
  <2>2. PartsTyped'
    BY <1>2, DropType DEF WriteFails
  <2>3. Stages'
    BY <1>2 DEF WriteFails, Drop, Stages, OthersTyped, PartsTyped, keyVars
  <2> QED  BY <2>1, <2>2, <2>3
<1> QED  BY <1>1, <1>2

LEMMA CooldownExpiresTyped ==
    ASSUME Typed, NEW k \in Keys, CooldownExpires(k)
    PROVE  Typed'
<1>1. OthersTyped'
  BY DEF Typed, CooldownExpires, OthersTyped, fileVars, batchVars
<1>2. PartsTyped'
  BY DEF Typed, CooldownExpires, PartsTyped, batchVars
<1>3. Stages'
  BY DEF Typed, CooldownExpires, Stages, fileVars, batchVars
<1> QED  BY <1>1, <1>2, <1>3 DEF Typed

LEMMA HangTyped ==
    ASSUME Typed, NEW j \in Jobs, Hang(j)
    PROVE  Typed'
<1>1. OthersTyped'
  BY DEF Typed, Hang, OthersTyped, keyVars, fileVars, batchVars
<1>2. PartsTyped'
  BY DEF Typed, Hang, PartsTyped, batchVars
<1>3. Stages'
  BY DEF Typed, Hang, Stages, keyVars, fileVars, batchVars
<1> QED  BY <1>1, <1>2, <1>3 DEF Typed

LEMMA RestartTyped ==
    ASSUME Typed, Restart
    PROVE  Typed'
<1> USE DEF Typed
<1>1. OthersTyped'
  BY TranslatorAssumption DEF Restart, OthersTyped, Statuses
<1>2. PartsTyped'
  <2>1. work' \in [Jobs -> SUBSET [lo : Nat, hi : Nat, retry : Nat]]
        /\ \A i \in Jobs : work'[i] \subseteq Parts(i)
    BY DEF Restart
  <2>2. upto' \in [Jobs -> Nat] /\ \A i \in Jobs : upto'[i] <= NumLines[i]
    BY TranslatorAssumption DEF Restart, PartsTyped
  <2>3. answered' \in [Jobs -> SUBSET Nat]
        /\ \A i \in Jobs : answered'[i] \subseteq 0 .. (NumLines[i] - 1)
    BY DEF Restart, PartsTyped
  <2> QED  BY <2>1, <2>2, <2>3 DEF PartsTyped
<1>3. Stages'
  BY DEF Restart, Stages, Running
<1> QED  BY <1>1, <1>2, <1>3

LEMMA TypedStep == Typed /\ [Next]_vars => Typed'
<1> SUFFICES ASSUME Typed, [Next]_vars PROVE Typed'
  OBVIOUS
<1>1. ASSUME NEW j \in Jobs, SourceUnreadable(j) \/ Begin(j) \/ Hang(j) PROVE Typed'
  BY <1>1, SourceUnreadableTyped, BeginTyped, HangTyped
<1>2. ASSUME NEW j \in Jobs, Step(j) PROVE Typed'
  BY <1>2, EndEarlyTyped, OpenTyped, NextBatchTyped, AcceptedTyped, RefusedTyped,
     RateLimitedTyped, WriteTyped DEF Step
<1>3. ASSUME NEW k \in Keys, CooldownExpires(k) PROVE Typed'
  BY <1>3, CooldownExpiresTyped
<1>4. CASE Restart
  BY <1>4, RestartTyped
<1>5. CASE UNCHANGED vars
  BY <1>5 DEF Typed, OthersTyped, PartsTyped, Stages, vars, keyVars, batchVars, fileVars
<1> QED  BY <1>1, <1>2, <1>3, <1>4, <1>5 DEF Next

\* Every variable keeps its type, whatever the sizes of the subtitles and batches:
\* a part of a batch lies within its subtitle and is sent with a retry_num that
\* is between 0 and the configured one, and a job that sends has a key.
THEOREM Typing == Spec => [](TypeOK /\ Stages)
<1>1. Spec => []Typed
  BY TypedInit, TypedStep, PTL DEF Spec
<1>2. Typed => TypeOK /\ Stages
  BY TypedTypeOK DEF Typed
<1> QED  BY <1>1, <1>2, PTL

---------------------------------------------------------------------------
(* The account of the lines.                                               *)

\* The lines below u are in A or in a part of W: in one of them, and once.
Acc(W, A, u) ==
    /\ A \union UNION {LinesOf(p) : p \in W} = 0 .. (u - 1)
    /\ A \intersect UNION {LinesOf(p) : p \in W} = {}
    /\ \A p, q \in W : p # q => LinesOf(p) \intersect LinesOf(q) = {}

\* The next batch: the lines from u on, below b.hi.
LEMMA AccTake ==
    ASSUME NEW A, NEW u \in Nat, NEW b, b.lo = u, b.hi \in Nat, b.hi >= u,
           Acc({}, A, u)
    PROVE  Acc({b}, A, b.hi)
<1>1. A = 0 .. (u - 1)
  BY DEF Acc
<1>2. LinesOf(b) = u .. (b.hi - 1)
  BY DEF LinesOf
<1>3. UNION {LinesOf(p) : p \in {b}} = LinesOf(b)
  OBVIOUS
<1>4. 0 .. (u - 1) \union u .. (b.hi - 1) = 0 .. (b.hi - 1)
  OBVIOUS
<1>5. 0 .. (u - 1) \intersect u .. (b.hi - 1) = {}
  OBVIOUS
<1> QED  BY <1>1, <1>2, <1>3, <1>4, <1>5 DEF Acc

\* An answer is taken.
LEMMA AccAnswer ==
    ASSUME NEW W, NEW A, NEW u, NEW p \in W, Acc(W, A, u)
    PROVE  Acc(W \ {p}, A \union LinesOf(p), u)
<1>1. (A \union LinesOf(p)) \union UNION {LinesOf(q) : q \in W \ {p}}
        = A \union UNION {LinesOf(q) : q \in W}
  OBVIOUS
<1>2. (A \union LinesOf(p)) \intersect UNION {LinesOf(q) : q \in W \ {p}} = {}
  BY DEF Acc
<1> QED  BY <1>1, <1>2 DEF Acc

\* A part is replaced by parts that have its lines, each in one of them.
LEMMA AccReplace ==
    ASSUME NEW W, NEW A, NEW u, NEW p \in W, NEW Q, Acc(W, A, u),
           UNION {LinesOf(q) : q \in Q} = LinesOf(p),
           \A q, r \in Q : q # r => LinesOf(q) \intersect LinesOf(r) = {}
    PROVE  Acc((W \ {p}) \union Q, A, u)
<1> DEFINE V == (W \ {p}) \union Q
<1>1. UNION {LinesOf(q) : q \in V} = UNION {LinesOf(q) : q \in W}
  <2>1. ASSUME NEW x \in UNION {LinesOf(q) : q \in V}
        PROVE  x \in UNION {LinesOf(q) : q \in W}
    OBVIOUS
  <2>2. ASSUME NEW x \in UNION {LinesOf(q) : q \in W}
        PROVE  x \in UNION {LinesOf(q) : q \in V}
    <3>1. PICK q \in W : x \in LinesOf(q)
      OBVIOUS
    <3>2. CASE q = p
      BY <3>1, <3>2
    <3>3. CASE q # p
      BY <3>1, <3>3
    <3> QED  BY <3>2, <3>3
  <2> QED  BY <2>1, <2>2
<1>2. ASSUME NEW q \in V, NEW r \in V, q # r
      PROVE  LinesOf(q) \intersect LinesOf(r) = {}
  <2>1. \A t \in Q : LinesOf(t) \subseteq LinesOf(p)
    OBVIOUS
  <2>2. \A t \in W \ {p} : LinesOf(t) \intersect LinesOf(p) = {}
    BY DEF Acc
  <2>3. CASE q \in Q /\ r \in Q
    BY <1>2, <2>3
  <2>4. CASE q \in W \ {p} /\ r \in W \ {p}
    BY <1>2, <2>4 DEF Acc
  <2>5. CASE q \in W \ {p} /\ r \in Q
    BY <2>1, <2>2, <2>5
  <2>6. CASE q \in Q /\ r \in W \ {p}
    BY <2>1, <2>2, <2>6
  <2> QED  BY <2>3, <2>4, <2>5, <2>6
<1> QED  BY <1>1, <1>2 DEF Acc

LEMMA HalvesLines ==
    ASSUME NEW j \in Jobs, NEW p \in Parts(j), Size(p) > 1
    PROVE  /\ UNION {LinesOf(q) : q \in Halves(p)} = LinesOf(p)
           /\ \A q, r \in Halves(p) : q # r => LinesOf(q) \intersect LinesOf(r) = {}
<1>1. /\ p.lo \in Nat /\ p.hi \in Nat
      /\ Middle(p) \in Nat /\ p.lo < Middle(p) /\ Middle(p) < p.hi
  BY HalvesType, TranslatorAssumption DEF Parts
<1> DEFINE a == [lo |-> p.lo, hi |-> Middle(p), retry |-> RetryNum]
           b == [lo |-> Middle(p), hi |-> p.hi, retry |-> RetryNum]
<1>2. Halves(p) = {a, b}
  BY DEF Halves
<1>3. LinesOf(a) = p.lo .. (Middle(p) - 1) /\ LinesOf(b) = Middle(p) .. (p.hi - 1)
  BY DEF LinesOf
<1>4. LinesOf(p) = p.lo .. (p.hi - 1)
  BY DEF LinesOf
<1> HIDE DEF a, b
<1>5. LinesOf(a) \union LinesOf(b) = LinesOf(p)
  BY <1>1, <1>3, <1>4
<1>6. LinesOf(a) \intersect LinesOf(b) = {}
  BY <1>1, <1>3
<1>7. UNION {LinesOf(q) : q \in {a, b}} = LinesOf(a) \union LinesOf(b)
  OBVIOUS
<1> QED  BY <1>2, <1>5, <1>6, <1>7

\* LinesAccounted, and that no line is to be sent by a job that does not send.
JobAccounted(j) ==
    /\ status[j] = "working" => Acc(work[j], answered[j], upto[j])
    /\ target[j] = "new" => answered[j] = 0 .. (NumLines[j] - 1)

LEMMA AccountedIsAccounted == LinesAccounted <=> \A j \in Jobs : JobAccounted(j)
BY DEF LinesAccounted, JobAccounted, Acc, ToBeSent

\* Another job's account is not touched.
LEMMA OthersAccounted ==
    ASSUME Typed, NEW j \in Jobs, Begin(j) \/ SourceUnreadable(j) \/ Step(j) \/ Hang(j),
           NEW i \in Jobs, i # j, JobAccounted(i)
    PROVE  JobAccounted(i)'
<1>1. /\ status'[i] = status[i] /\ target'[i] = target[i] /\ work'[i] = work[i]
      /\ upto'[i] = upto[i] /\ answered'[i] = answered[i]
  <2> USE DEF Typed, OthersTyped, PartsTyped
  <2>1. CASE SourceUnreadable(j) \/ NoKey(j) \/ OpenFails(j) \/ Hang(j)
    BY <2>1 DEF SourceUnreadable, NoKey, OpenFails, Hang, batchVars, fileVars
  <2>6. CASE Begin(j)
    BY <2>6, RemoveType DEF Begin
  <2>2. CASE Open(j) \/ NextBatch(j)
    BY <2>2 DEF Open, NextBatch, TakeBatch, fileVars
  <2>3. CASE Accepted(j)
    BY <2>3 DEF Accepted
  <2>4. CASE Refused(j) \/ RateLimited(j)
    <3>1. status[j] = "working"
      BY <2>4 DEF Refused, RateLimited
    <3>2. PICK p \in work[j], cause \in Causes :
              GiveUp(j, cause) \/ Resend(j, p) \/ Split(j, p)
      BY <2>4 DEF Refused, RateLimited, Causes
    <3> QED  BY <3>1, <3>2, OutcomeTyped
  <2>5. CASE Write(j) \/ WriteFails(j) \/ WrittenButFails(j)
    BY <2>5 DEF Write, WriteFails, WrittenButFails, Drop
  <2> QED  BY <2>1, <2>2, <2>3, <2>4, <2>5, <2>6 DEF Step
<1> QED  BY <1>1 DEF JobAccounted

LEMMA TakeBatchAccounted ==
    ASSUME Typed, NEW j \in Jobs, work[j] = {}, Acc({}, answered[j], upto[j]),
           TakeBatch(j)
    PROVE  Acc(work'[j], answered'[j], upto'[j])
<1> DEFINE b == Batch(j, upto[j])
<1>1. upto[j] \in 0 .. NumLines[j] /\ NumLines[j] \in Nat
  BY TranslatorAssumption DEF Typed, PartsTyped
<1>2. b.lo = upto[j] /\ b.hi \in Nat /\ b.hi >= upto[j]
  BY <1>1, BatchType
<1> HIDE DEF b
<1>3. Acc({b}, answered[j], b.hi)
  BY <1>1, <1>2, AccTake
<1>4. work'[j] = {b} /\ upto'[j] = b.hi /\ answered'[j] = answered[j]
  BY DEF TakeBatch, Typed, PartsTyped, b
<1> QED  BY <1>3, <1>4

LEMMA OutcomeAccounted ==
    ASSUME Typed, NEW j \in Jobs, status[j] = "working", JobAccounted(j),
           NEW p \in work[j], NEW cause \in Causes,
           \/ GiveUp(j, cause)
           \/ Resend(j, p)
           \/ Split(j, p)
    PROVE  JobAccounted(j)'
<1>1. CASE GiveUp(j, cause)
  <2>1. target[j] = "empty" /\ target'[j] \in {"none", target[j]}
    BY <1>1, RemoveType DEF GiveUp, Typed, Stages
  <2> QED  BY <1>1, <2>1 DEF GiveUp, Causes, JobAccounted, Typed, OthersTyped
<1>2. CASE Resend(j, p) \/ Split(j, p)
  <2>1. p \in Parts(j)
    BY DEF Typed, PartsTyped
  <2>2. PICK qs :
            /\ Replace(j, p, qs)
            /\ UNION {LinesOf(q) : q \in qs} = LinesOf(p)
            /\ \A q, r \in qs : q # r => LinesOf(q) \intersect LinesOf(r) = {}
    <3>1. CASE Split(j, p)
      BY <2>1, <3>1, HalvesLines DEF Split
    <3>2. CASE Resend(j, p)
      <4> DEFINE q == [p EXCEPT !.retry = @ - 1]
      <4>1. q.lo = p.lo /\ q.hi = p.hi
        BY <2>1 DEF Parts
      <4>2. Replace(j, p, {q})
        BY <3>2 DEF Resend
      <4> HIDE DEF q
      <4>3. LinesOf(q) = LinesOf(p)
        BY <4>1 DEF LinesOf
      <4>4. UNION {LinesOf(r) : r \in {q}} = LinesOf(p)
        BY <4>3
      <4> QED  BY <4>2, <4>4
    <3> QED  BY <1>2, <3>1, <3>2
  <2>3. /\ work'[j] = (work[j] \ {p}) \union qs
        /\ UNCHANGED <<status, answered, upto, target>>
    BY <2>2 DEF Replace, fileVars, Typed, PartsTyped
  <2>4. Acc(work'[j], answered[j], upto[j])
    BY <2>2, <2>3, AccReplace DEF JobAccounted
  <2> QED  BY <2>3, <2>4 DEF JobAccounted
<1> QED  BY <1>1, <1>2

\* When no part is left to be sent and no batch to be taken, all is answered.
LEMMA AllAnsweredLines ==
    ASSUME NEW j \in Jobs, JobAccounted(j), AllAnswered(j)
    PROVE  answered[j] = 0 .. (NumLines[j] - 1)
<1>1. Acc({}, answered[j], NumLines[j])
  BY DEF AllAnswered, JobAccounted
<1>2. UNION {LinesOf(p) : p \in {}} = {}
  OBVIOUS
<1>3. answered[j] \union UNION {LinesOf(p) : p \in {}} = 0 .. (NumLines[j] - 1)
  BY <1>1 DEF Acc
<1> QED  BY <1>2, <1>3, Zenon

LEMMA SelfAccounted ==
    ASSUME Typed, Typed', NEW j \in Jobs, JobAccounted(j),
           Begin(j) \/ SourceUnreadable(j) \/ Step(j) \/ Hang(j)
    PROVE  JobAccounted(j)'
<1> USE DEF Typed, OthersTyped
<1>1. CASE SourceUnreadable(j) \/ Hang(j)
  BY <1>1 DEF SourceUnreadable, Hang, JobAccounted, batchVars, fileVars
<1>2. CASE Begin(j)
  <2>1. target'[j] # "new"
    BY <1>2, RemoveType DEF Begin, Asked
  <2> QED  BY <1>2, <2>1 DEF Begin, JobAccounted
<1>3. CASE NoKey(j) \/ OpenFails(j)
  <2>1. target[j] # "new" /\ target'[j] # "new"
    BY <1>3 DEF NoKey, OpenFails, Stages, Rewritten, fileVars
  <2> QED  BY <1>3, <2>1 DEF NoKey, OpenFails, JobAccounted
<1>4. CASE Open(j)
  <2>1. work[j] = {} /\ answered[j] = {} /\ upto[j] = 0
    BY <1>4 DEF Open, Stages
  <2>2. Acc({}, {}, 0)
    BY DEF Acc
  <2>3. Acc(work'[j], answered'[j], upto'[j])
    BY <1>4, <2>1, <2>2, TakeBatchAccounted DEF Open
  <2> QED  BY <1>4, <2>3 DEF Open, JobAccounted
<1>5. CASE NextBatch(j)
  <2>1. Acc(work'[j], answered'[j], upto'[j])
    BY <1>5, TakeBatchAccounted DEF NextBatch, JobAccounted
  <2> QED  BY <1>5, <2>1 DEF NextBatch, Stages, JobAccounted, fileVars
<1>6. CASE Accepted(j)
  <2>1. PICK p \in work[j] :
            /\ work' = [work EXCEPT ![j] = @ \ {p}]
            /\ answered' = [answered EXCEPT ![j] = @ \union LinesOf(p)]
    BY <1>6 DEF Accepted
  <2>2. status[j] = "working" /\ UNCHANGED <<status, upto, target>>
    BY <1>6 DEF Accepted
  <2>3. Acc(work[j] \ {p}, answered[j] \union LinesOf(p), upto[j])
    BY <2>2, AccAnswer DEF JobAccounted
  <2>4. Acc(work'[j], answered'[j], upto'[j])
    BY <2>1, <2>2, <2>3 DEF PartsTyped
  <2> QED  BY <2>2, <2>4 DEF JobAccounted, Stages
<1>7. CASE Refused(j) \/ RateLimited(j)
  <2>1. status[j] = "working"
    BY <1>7 DEF Refused, RateLimited
  <2>2. PICK p \in work[j], cause \in Causes :
            GiveUp(j, cause) \/ Resend(j, p) \/ Split(j, p)
    BY <1>7 DEF Refused, RateLimited, Causes
  <2> QED  BY <2>1, <2>2, OutcomeAccounted
<1>8. CASE Write(j) \/ WrittenButFails(j)
  <2>2. answered[j] = 0 .. (NumLines[j] - 1)
    BY <1>8, AllAnsweredLines DEF Write, WrittenButFails
  <2> QED  BY <1>8, <2>2 DEF Write, WrittenButFails, JobAccounted
<1>9. CASE WriteFails(j)
  BY <1>9 DEF WriteFails, JobAccounted
<1> QED  BY <1>1, <1>2, <1>3, <1>4, <1>5, <1>6, <1>7, <1>8, <1>9 DEF Step

LEMMA AccountedStep ==
    ASSUME Typed, Typed', \A j \in Jobs : JobAccounted(j), [Next]_vars,
           NEW i \in Jobs
    PROVE  JobAccounted(i)'
<1>1. ASSUME NEW j \in Jobs, SourceUnreadable(j) \/ Begin(j) \/ Step(j) \/ Hang(j)
      PROVE  JobAccounted(i)'
  BY <1>1, SelfAccounted, OthersAccounted
<1>2. ASSUME NEW k \in Keys, CooldownExpires(k) PROVE JobAccounted(i)'
  BY <1>2 DEF CooldownExpires, JobAccounted, batchVars, fileVars
<1>3. CASE Restart
  <2>1. /\ status'[i] # "working"
        /\ target'[i] = "new" => answered'[i] = answered[i]
        /\ target'[i] = target[i] \/ AllAnswered(i)
    BY <1>3 DEF Restart, Running
  <2>2. AllAnswered(i) => answered[i] = 0 .. (NumLines[i] - 1)
    BY AllAnsweredLines
  <2> QED  BY <2>1, <2>2 DEF JobAccounted
<1>4. CASE UNCHANGED vars
  BY <1>4 DEF vars, batchVars, fileVars, JobAccounted
<1> QED  BY <1>1, <1>2, <1>3, <1>4 DEF Next

\* No line is lost or sent twice by the batches, the halves and the resends of
\* translate and _process_batch, and only a whole translation is written.
THEOREM LinesTheorem == Spec => []LinesAccounted
<1>1. Init => LinesAccounted
  BY DEF Init, LinesAccounted
<1>2. Typed /\ Typed' /\ LinesAccounted /\ [Next]_vars => LinesAccounted'
  <2> SUFFICES ASSUME Typed, Typed', LinesAccounted, [Next]_vars
               PROVE  LinesAccounted'
    OBVIOUS
  <2>1. \A i \in Jobs : JobAccounted(i)'
    BY AccountedStep, AccountedIsAccounted
  <2>2. LinesAccounted' <=> \A i \in Jobs : JobAccounted(i)'
    BY DEF LinesAccounted, JobAccounted, Acc, ToBeSent
  <2> QED  BY <2>1, <2>2
<1>3. Spec => []Typed
  BY TypedInit, TypedStep, PTL DEF Spec
<1> QED  BY <1>1, <1>2, <1>3, PTL DEF Spec

---------------------------------------------------------------------------
(* The respect for limits.                                                 *)

JobRespects(j) == status[j] \in Running /\ key[j] \in cooling => coolBy[key[j]] # j

LEMMA RespectStep ==
    ASSUME Typed, Typed', \A j \in Jobs : JobRespects(j), [Next]_vars,
           NEW i \in Jobs
    PROVE  JobRespects(i)'
<1> USE DEF Typed, OthersTyped
<1>1. ASSUME NEW j \in Jobs, SourceUnreadable(j) \/ Hang(j) PROVE JobRespects(i)'
  BY <1>1 DEF SourceUnreadable, Hang, JobRespects, keyVars, Running
<1>2. ASSUME NEW j \in Jobs, Begin(j) PROVE JobRespects(i)'
  <2>1. SelectKey(0, cooling) \in Keys \union {0}
        /\ (SelectKey(0, cooling) # 0 => SelectKey(0, cooling) \notin cooling)
    BY SelectKeyLemma
  <2>2. 0 \notin cooling
    BY DEF Keys
  <2> HIDE DEF Typed
  <2>3. SelectKey(0, cooling) \notin cooling
    BY <2>1, <2>2
  <2>4. key' = [key EXCEPT ![j] = SelectKey(0, cooling)] /\ UNCHANGED <<cooling, coolBy>>
    BY <1>2 DEF Begin
  <2>5. status' = [status EXCEPT ![j] = "starting"]
    BY <1>2 DEF Begin
  <2> QED  BY <2>3, <2>4, <2>5 DEF JobRespects, Typed
<1>3. ASSUME NEW j \in Jobs, Step(j), ~ RateLimited(j) PROVE JobRespects(i)'
  <2>1. UNCHANGED keyVars
    BY <1>3 DEF Step, NoKey, OpenFails, Open, NextBatch, Accepted, Refused, Write,
                WriteFails, WrittenButFails
  <2>2. status'[i] \in Running => status[i] \in Running
    <3>1. CASE NoKey(j) \/ OpenFails(j) \/ Open(j) \/ NextBatch(j) \/ Accepted(j)
      BY <3>1 DEF NoKey, OpenFails, Open, NextBatch, Accepted, Running
    <3>2. CASE Refused(j)
      <4>1. PICK p \in work[j], cause \in Causes :
                GiveUp(j, cause) \/ Resend(j, p) \/ Split(j, p)
        BY <3>2 DEF Refused, Causes
      <4> QED  BY <3>2, <4>1, OutcomeTyped DEF Refused
    <3>3. CASE Write(j) \/ WriteFails(j) \/ WrittenButFails(j)
      BY <3>3 DEF Write, WriteFails, WrittenButFails, Running
    <3> QED  BY <1>3, <3>1, <3>2, <3>3 DEF Step
  <2> QED  BY <2>1, <2>2 DEF keyVars, JobRespects
<1>4. ASSUME NEW j \in Jobs, RateLimited(j) PROVE JobRespects(i)'
  <2> DEFINE cool == cooling \union {key[j]}
             k == SelectKey(key[j], cool)
  <2>1. /\ status[j] = "working"
        /\ cooling' = cool
        /\ coolBy' = [coolBy EXCEPT ![key[j]] = j]
        /\ key' = [key EXCEPT ![j] = k]
    BY <1>4 DEF RateLimited
  <2>2. key[j] \in Keys
    BY <2>1 DEF Stages
  <2>3. k # 0 => k \notin cool
    BY <2>2, SelectKeyLemma
  <2>4. 0 \notin cool
    BY <2>2 DEF Keys
  <2>5. k \notin cool
    BY <2>3, <2>4
  <2> HIDE DEF k
  <2>6. CASE i = j
    BY <2>1, <2>5, <2>6 DEF JobRespects
  <2>7. CASE i # j
    <3>1. status'[i] = status[i]
      <4>1. PICK p \in work[j], cause \in Causes :
                GiveUp(j, cause) \/ Resend(j, p) \/ Split(j, p)
        BY <1>4 DEF RateLimited, Causes
      <4> QED  BY <2>1, <2>7, <4>1, OutcomeTyped
    <3>2. key'[i] = key[i]
      BY <2>1, <2>7
    <3>3. CASE key[i] = key[j]
      BY <2>1, <2>2, <2>7, <3>2, <3>3 DEF JobRespects
    <3>4. CASE key[i] # key[j]
      <4>1. key'[i] \in cooling' => key[i] \in cooling
        BY <2>1, <3>2, <3>4
      <4>2. key[i] \in cooling => coolBy'[key[i]] = coolBy[key[i]]
        BY <2>1, <3>4
      <4> QED  BY <3>1, <3>2, <4>1, <4>2 DEF JobRespects
    <3> QED  BY <3>3, <3>4
  <2> QED  BY <2>6, <2>7
<1>5. ASSUME NEW k \in Keys, CooldownExpires(k) PROVE JobRespects(i)'
  BY <1>5 DEF CooldownExpires, JobRespects
<1>6. CASE Restart
  BY <1>6 DEF Restart, JobRespects
<1>7. CASE UNCHANGED vars
  BY <1>7 DEF vars, keyVars, JobRespects
<1> QED  BY <1>1, <1>2, <1>3, <1>4, <1>5, <1>6, <1>7 DEF Next

\* A job never goes on with a key that it has itself driven over its limit.
THEOREM LimitsTheorem == Spec => []OwnLimitsRespected
<1>1. Init => OwnLimitsRespected
  BY DEF Init, OwnLimitsRespected
<1>2. Typed /\ Typed' /\ OwnLimitsRespected /\ [Next]_vars => OwnLimitsRespected'
  BY RespectStep DEF OwnLimitsRespected, JobRespects
<1>3. Spec => []Typed
  BY TypedInit, TypedStep, PTL DEF Spec
<1> QED  BY <1>1, <1>2, <1>3, PTL DEF Spec

---------------------------------------------------------------------------
(* The requests that a job may send.                                       *)

\* What the division of the integers is, for any divisor.
LEMMA DivBounds ==
    ASSUME NEW a \in Int, NEW b \in Nat, b > 0
    PROVE  /\ a \div b \in Int
           /\ b * (a \div b) <= a
           /\ a < b * (a \div b) + b
OBVIOUS

\* One divisor less is one less of the quotient that is rounded up.
LEMMA CeilingStep ==
    ASSUME NEW n \in Nat, NEW b \in Nat, b > 0, n > b
    PROVE  (n - b + b - 1) \div b = (n + b - 1) \div b - 1
<1> DEFINE q == (n - 1) \div b
           r == (n - 1 + b) \div b
<1>1. q \in Int /\ b * q <= n - 1 /\ n - 1 < b * q + b
  BY DivBounds
<1>2. r \in Int /\ b * r <= n - 1 + b /\ n - 1 + b < b * r + b
  BY DivBounds
<1>3. n - b + b - 1 = n - 1 /\ n + b - 1 = n - 1 + b
  OBVIOUS
<1> HIDE DEF q, r
<1>4. r < q + 2
  <2>1. CASE r >= q + 2
    <3>1. b * r >= b * (q + 2)
      BY <1>1, <1>2, <2>1
    <3> QED  BY <3>1, <1>1, <1>2
  <2> QED  BY <2>1, <1>1, <1>2
<1>5. r > q
  <2>1. CASE r <= q
    <3>1. b * r <= b * q
      BY <1>1, <1>2, <2>1
    <3> QED  BY <3>1, <1>1, <1>2
  <2> QED  BY <2>1, <1>1, <1>2
<1>6. r = q + 1
  BY <1>1, <1>2, <1>4, <1>5
<1> QED  BY <1>6, <1>3, <1>1 DEF q, r

\* The batches that are to come when the lines below u have been taken.
BatchesFrom(j, u) == ((NumLines[j] - u) + BatchSize - 1) \div BatchSize

\* What the job has still to send, in parts of one line: a part of n lines can
\* become 2 n - 1 parts.
Left(j, W, A, u) ==
    2 * (NumLines[j] - Cardinality(A)) - Cardinality(W) - BatchesFrom(j, u)
Sends == RetryNum + 1
Bound(j) == Sends * (2 * NumLines[j] - Batches(j))

\* One part more to send is Sends requests more.
LEMMA ScaleLess ==
    ASSUME NEW x \in Int, NEW y \in Int, x < y
    PROVE  /\ Sends * x \in Int /\ Sends * y \in Int
           /\ Sends * x + Sends <= Sends * y
<1>1. Sends \in Nat
  BY TranslatorAssumption DEF Sends
<1>2. Sends * (x + 1) <= Sends * y
  BY <1>1
<1>3. Sends * (x + 1) = Sends * x + Sends
  BY <1>1
<1> QED  BY <1>1, <1>2, <1>3

LEMMA BatchesFromType ==
    ASSUME NEW j \in Jobs, NEW u \in 0 .. NumLines[j]
    PROVE  BatchesFrom(j, u) \in 0 .. (NumLines[j] - u)
<1>1. NumLines[j] \in Nat /\ BatchSize \in Nat /\ BatchSize > 0
  BY TranslatorAssumption
<1> DEFINE n == NumLines[j] - u
           q == (n + BatchSize - 1) \div BatchSize
<1>2. n \in Nat
  BY <1>1
<1> HIDE DEF n
<1>3. /\ q \in Int /\ BatchSize * q <= n + BatchSize - 1
      /\ n + BatchSize - 1 < BatchSize * q + BatchSize
  BY <1>1, <1>2, DivBounds
<1> HIDE DEF q
<1>4. q >= 0
  <2>1. CASE q <= -1
    <3>1. BatchSize * q <= BatchSize * (-1)
      BY <1>1, <1>3, <2>1
    <3> QED  BY <1>1, <1>2, <1>3, <3>1
  <2> QED  BY <1>3, <2>1
<1>5. q <= n
  <2>1. CASE q >= n + 1
    <3>1. BatchSize * q >= BatchSize * (n + 1)
      BY <1>1, <1>2, <1>3, <2>1
    <3>2. BatchSize * (n + 1) = BatchSize * n + BatchSize
      BY <1>1, <1>2
    <3>3. BatchSize * n >= n
      BY <1>1, <1>2
    <3> QED  BY <1>1, <1>2, <1>3, <3>1, <3>2, <3>3
  <2> QED  BY <1>2, <1>3, <2>1
<1> QED  BY <1>2, <1>3, <1>4, <1>5 DEF BatchesFrom, q, n

\* Taking a batch leaves one batch less.
LEMMA BatchesFromStep ==
    ASSUME NEW j \in Jobs, NEW u \in 0 .. NumLines[j], u < NumLines[j]
    PROVE  /\ Batch(j, u).hi \in 0 .. NumLines[j]
           /\ Batch(j, u).hi > u
           /\ BatchesFrom(j, Batch(j, u).hi) = BatchesFrom(j, u) - 1
<1>1. NumLines[j] \in Nat /\ BatchSize \in Nat /\ BatchSize > 0
  BY TranslatorAssumption
<1> DEFINE n == NumLines[j] - u
<1>2. n \in Nat /\ n > 0
  BY <1>1
<1>3. CASE n > BatchSize
  <2>1. Batch(j, u).hi = u + BatchSize
    BY <1>1, <1>3 DEF Batch, Least
  <2>2. NumLines[j] - (u + BatchSize) = n - BatchSize
    BY <1>1
  <2> HIDE DEF n
  <2>3. BatchesFrom(j, u + BatchSize) = (n - BatchSize + BatchSize - 1) \div BatchSize
    BY <2>2 DEF BatchesFrom
  <2>4. BatchesFrom(j, u) = (n + BatchSize - 1) \div BatchSize
    BY DEF BatchesFrom, n
  <2>5. BatchesFrom(j, u + BatchSize) = BatchesFrom(j, u) - 1
    BY <1>1, <1>2, <1>3, <2>3, <2>4, CeilingStep
  <2> QED  BY <1>1, <1>3, <2>1, <2>5 DEF n
<1>4. CASE n <= BatchSize
  <2>1. Batch(j, u).hi = NumLines[j]
    BY <1>1, <1>4 DEF Batch, Least
  <2>2. BatchesFrom(j, NumLines[j]) = 0
    BY <1>1, BatchesFromType
  <2>3. BatchesFrom(j, u) = 1
    <3> DEFINE q == (n + BatchSize - 1) \div BatchSize
    <3> HIDE DEF n
    <3>1. q \in Int /\ BatchSize * q <= n + BatchSize - 1
          /\ n + BatchSize - 1 < BatchSize * q + BatchSize
      BY <1>1, <1>2, DivBounds
    <3> HIDE DEF q
    <3>2. q < 2
      <4>1. CASE q >= 2
        <5>1. BatchSize * q >= BatchSize * 2
          BY <1>1, <3>1, <4>1
        <5> QED  BY <1>1, <1>2, <1>4, <3>1, <5>1
      <4> QED  BY <3>1, <4>1
    <3>3. q > 0
      <4>1. CASE q <= 0
        <5>1. BatchSize * q <= BatchSize * 0
          BY <1>1, <3>1, <4>1
        <5> QED  BY <1>1, <1>2, <3>1, <5>1
      <4> QED  BY <3>1, <4>1
    <3> QED  BY <3>1, <3>2, <3>3 DEF BatchesFrom, q, n
  <2> QED  BY <1>1, <2>1, <2>2, <2>3
<1> QED  BY <1>1, <1>2, <1>3, <1>4

Nonempty(W) == \A p \in W : p.lo < p.hi

LEMMA LinesCount ==
    ASSUME NEW a \in Nat, NEW b \in Nat, a <= b
    PROVE  IsFiniteSet(a .. (b - 1)) /\ Cardinality(a .. (b - 1)) = b - a
<1>1. a \in Int /\ b - 1 \in Int
  OBVIOUS
<1>2. /\ IsFiniteSet(a .. (b - 1))
      /\ Cardinality(a .. (b - 1)) = IF a > b - 1 THEN 0 ELSE (b - 1) - a + 1
  BY <1>1, FS_Interval, Zenon
<1>3. (IF a > b - 1 THEN 0 ELSE (b - 1) - a + 1) = b - a
  OBVIOUS
<1> QED  BY <1>2, <1>3

\* The parts are at most as many as the lines in them, which are not answered.
LEMMA PartsCounted ==
    ASSUME NEW j \in Jobs, NEW W \in SUBSET Parts(j), NEW A, NEW u \in 0 .. NumLines[j],
           Acc(W, A, u), Nonempty(W)
    PROVE  /\ IsFiniteSet(W) /\ IsFiniteSet(A)
           /\ Cardinality(W) \in Nat /\ Cardinality(A) \in Nat
           /\ Cardinality(A) + Cardinality(W) <= u
           /\ Left(j, W, A, u) \in Int
           /\ Left(j, W, A, u) >= Cardinality(W)
<1> DEFINE S == UNION {LinesOf(p) : p \in W}
           f == [p \in W |-> p.lo]
<1>1. NumLines[j] \in Nat /\ u \in Nat
  BY TranslatorAssumption
<1>2. A \union S = 0 .. (u - 1) /\ A \intersect S = {}
  BY DEF Acc
<1>3. IsFiniteSet(0 .. (u - 1)) /\ Cardinality(0 .. (u - 1)) = u
  BY <1>1, LinesCount
<1>4. \A p \in W : p.lo \in Nat /\ p.hi \in Nat /\ p.lo < p.hi
  BY <1>1 DEF Parts, Nonempty
<1>5. \A p \in W : p.lo \in LinesOf(p)
  BY <1>4 DEF LinesOf
<1>6. f \in [W -> S]
  BY <1>5
<1>7. \A p, q \in W : f[p] = f[q] => p = q
  <2>1. SUFFICES ASSUME NEW p \in W, NEW q \in W, p.lo = q.lo PROVE p = q
    OBVIOUS
  <2>2. LinesOf(p) \intersect LinesOf(q) # {}
    BY <1>5, <2>1
  <2> QED  BY <2>2 DEF Acc
<1>8. f \in Injection(W, S)
  BY <1>6, <1>7 DEF Injection, IsInjective
<1> HIDE DEF f, S
<1>9. IsFiniteSet(A) /\ IsFiniteSet(S)
  <2>1. A \in SUBSET (0 .. (u - 1)) /\ S \in SUBSET (0 .. (u - 1))
    BY <1>2
  <2> QED  BY <1>3, <2>1, FS_Subset
<1>10. IsFiniteSet(W) /\ Cardinality(W) <= Cardinality(S)
  BY <1>8, <1>9, FS_Injection
<1>11. Cardinality(W) \in Nat /\ Cardinality(A) \in Nat /\ Cardinality(S) \in Nat
  BY <1>9, <1>10, FS_CardinalityType
<1>12. u = Cardinality(A) + Cardinality(S)
  <2>1. Cardinality(A \union S)
          = Cardinality(A) + Cardinality(S) - Cardinality(A \intersect S)
    BY <1>9, FS_Union
  <2>2. Cardinality(A \intersect S) = 0
    BY <1>2, FS_EmptySet
  <2>3. Cardinality(A \union S) = u
    BY <1>2, <1>3
  <2> QED  BY <2>1, <2>2, <2>3, <1>11
<1>13. BatchesFrom(j, u) \in 0 .. (NumLines[j] - u)
  BY BatchesFromType
<1>14. Left(j, W, A, u) \in Int /\ Left(j, W, A, u) >= Cardinality(W)
  BY <1>1, <1>10, <1>11, <1>12, <1>13 DEF Left
<1> QED  BY <1>1, <1>9, <1>10, <1>11, <1>12, <1>14

\* What a job that has sent n requests may still send.  A part whose retry_num is
\* not the full one is the foremost, and has been sent before.
Within(j, W, A, u, n) ==
    /\ Nonempty(W)
    /\ \A p, q \in W : p.lo < q.lo => q.retry = RetryNum
    /\ W = {} => n + Sends * Left(j, W, A, u) <= Bound(j)
    /\ \A p \in W : (\A q \in W : p.lo <= q.lo) =>
            n + Sends * Left(j, W, A, u) <= Bound(j) + (RetryNum - p.retry)

LEMMA BoundType ==
    ASSUME NEW j \in Jobs
    PROVE  /\ Bound(j) \in Nat
           /\ Bound(j) = Sends * (2 * NumLines[j] - BatchesFrom(j, 0))
<1>1. NumLines[j] \in Nat /\ Sends \in Nat
  BY TranslatorAssumption DEF Sends
<1>2. Batches(j) = BatchesFrom(j, 0)
  BY <1>1 DEF Batches, BatchesFrom
<1>3. Batches(j) \in 0 .. NumLines[j]
  BY <1>1, <1>2, BatchesFromType
<1> DEFINE x == 2 * NumLines[j] - Batches(j)
<1>4. x \in Nat
  BY <1>1, <1>3
<1> HIDE DEF x
<1>5. Sends * x \in Nat
  BY <1>1, <1>4
<1> QED  BY <1>2, <1>5 DEF Bound, x

\* The two conditions on the requests, from one.
LEMMA WithinIntro ==
    ASSUME NEW j \in Jobs, NEW W \in SUBSET Parts(j), NEW A, NEW u, NEW n \in Nat,
           Nonempty(W), \A q \in W : q.retry = RetryNum,
           n + Sends * Left(j, W, A, u) <= Bound(j)
    PROVE  Within(j, W, A, u, n)
<1>1. RetryNum \in Nat /\ RetryNum - RetryNum = 0
  BY TranslatorAssumption
<1>2. Bound(j) + (RetryNum - RetryNum) = Bound(j)
  BY <1>1, BoundType
<1> QED  BY <1>1, <1>2 DEF Within

\* The parts that are left when the foremost is taken away come after it.
LEMMA AfterForemost ==
    ASSUME NEW j \in Jobs, NEW W \in SUBSET Parts(j), NEW A, NEW u,
           Acc(W, A, u), Nonempty(W),
           NEW p \in W, \A q \in W : p.lo <= q.lo
    PROVE  \A q \in W \ {p} : p.hi <= q.lo
<1> SUFFICES ASSUME NEW q \in W, q # p PROVE p.hi <= q.lo
  OBVIOUS
<1>1. /\ p.lo \in Nat /\ p.hi \in Nat /\ q.lo \in Nat /\ q.hi \in Nat
      /\ p.lo <= q.lo /\ q.lo < q.hi
  BY TranslatorAssumption DEF Parts, Nonempty
<1>2. LinesOf(p) \intersect LinesOf(q) = {}
  BY DEF Acc
<1>3. q.lo \in LinesOf(q)
  BY <1>1 DEF LinesOf
<1>4. q.lo \notin LinesOf(p)
  BY <1>2, <1>3
<1> QED  BY <1>1, <1>4 DEF LinesOf

LEMMA WithinTake ==
    ASSUME NEW j \in Jobs, NEW A, NEW u \in 0 .. NumLines[j], u < NumLines[j],
           NEW n \in Nat, Acc({}, A, u), Within(j, {}, A, u, n)
    PROVE  Within(j, {Batch(j, u)}, A, Batch(j, u).hi, n)
<1> DEFINE b == Batch(j, u)
<1>1. b.lo = u /\ b.hi \in 0 .. NumLines[j] /\ b.hi > u /\ b.retry = RetryNum
      /\ BatchesFrom(j, b.hi) = BatchesFrom(j, u) - 1
  BY BatchesFromStep DEF Batch
<1>2. NumLines[j] \in Nat /\ RetryNum \in Nat
  BY TranslatorAssumption
<1> HIDE DEF b
<1>3. Cardinality(A) \in Nat /\ Cardinality({}) = 0 /\ Cardinality({b}) = 1
  <2>1. Nonempty({})
    BY DEF Nonempty
  <2>2. {} \in SUBSET Parts(j)
    OBVIOUS
  <2>3. Cardinality(A) \in Nat
    BY <2>1, <2>2, PartsCounted
  <2> QED  BY <2>3, FS_EmptySet, FS_Singleton
<1>4. BatchesFrom(j, u) \in Int
  BY BatchesFromType
<1>5. Left(j, {b}, A, b.hi) = Left(j, {}, A, u)
  BY <1>1, <1>2, <1>3, <1>4 DEF Left
<1>6. n + Sends * Left(j, {}, A, u) <= Bound(j)
  BY DEF Within
<1>7. Nonempty({b}) /\ \A q \in {b} : q.retry = RetryNum
  BY <1>1 DEF Nonempty
<1>8. {b} \in SUBSET Parts(j)
  BY BatchType DEF b
<1>9. Within(j, {b}, A, b.hi, n)
  BY <1>5, <1>6, <1>7, <1>8, WithinIntro
<1> QED  BY <1>9 DEF b

LEMMA WithinAnswer ==
    ASSUME NEW j \in Jobs, NEW W \in SUBSET Parts(j), NEW A, NEW u \in 0 .. NumLines[j],
           NEW n \in Nat, Acc(W, A, u), Within(j, W, A, u, n),
           NEW p \in W, \A q \in W : p.lo <= q.lo
    PROVE  Within(j, W \ {p}, A \union LinesOf(p), u, n + 1)
<1> DEFINE V == W \ {p}
           B == A \union LinesOf(p)
           x == Left(j, W, A, u)
           y == Left(j, V, B, u)
<1>1. Nonempty(W) /\ Nonempty(V)
  BY DEF Within, Nonempty
<1>2. NumLines[j] \in Nat /\ RetryNum \in Nat /\ Sends \in Nat
  BY TranslatorAssumption DEF Sends
<1>3. p.lo \in Nat /\ p.hi \in Nat /\ p.lo < p.hi /\ p.retry \in 0 .. RetryNum
  BY <1>1, <1>2 DEF Parts, Nonempty
<1>4. Acc(V, B, u)
  BY AccAnswer
<1>5. \A q \in V : q.retry = RetryNum
  BY <1>1, <1>3, AfterForemost, <1>2 DEF Within, Parts
<1>6. /\ IsFiniteSet(W) /\ IsFiniteSet(A) /\ Cardinality(W) \in Nat
      /\ Cardinality(A) \in Nat /\ x \in Int
  BY <1>1, PartsCounted
<1>7. Cardinality(V) \in Nat /\ Cardinality(B) \in Nat /\ y \in Int
  BY <1>1, <1>4, PartsCounted
<1>8. Cardinality(V) = Cardinality(W) - 1
  BY <1>6, FS_RemoveElement
<1>9. Cardinality(B) = Cardinality(A) + (p.hi - p.lo)
  <2>1. IsFiniteSet(LinesOf(p)) /\ Cardinality(LinesOf(p)) = p.hi - p.lo
    BY <1>3, LinesCount DEF LinesOf
  <2>2. A \intersect LinesOf(p) = {}
    BY DEF Acc
  <2>3. Cardinality(B) = Cardinality(A) + Cardinality(LinesOf(p))
                           - Cardinality(A \intersect LinesOf(p))
    BY <1>6, <2>1, FS_Union
  <2>4. Cardinality(A \intersect LinesOf(p)) = 0
    BY <2>2, FS_EmptySet
  <2> QED  BY <1>3, <1>6, <2>1, <2>3, <2>4
<1>10. BatchesFrom(j, u) \in Int
  BY BatchesFromType
<1>11. y < x
  BY <1>2, <1>3, <1>6, <1>7, <1>8, <1>9, <1>10 DEF Left
<1>12. n + Sends * x <= Bound(j) + (RetryNum - p.retry)
  BY DEF Within
<1> HIDE DEF x, y, V, B
<1>13. Sends * x \in Int /\ Sends * y \in Int /\ Sends * y + Sends <= Sends * x
  BY <1>6, <1>7, <1>11, ScaleLess
<1>14. n + 1 + Sends * y <= Bound(j)
  BY <1>2, <1>3, <1>12, <1>13, BoundType DEF Sends
<1>15. V \in SUBSET Parts(j)
  BY DEF V
<1>16. Within(j, V, B, u, n + 1)
  BY <1>1, <1>5, <1>14, <1>15, WithinIntro DEF y
<1> QED  BY <1>16 DEF V, B

LEMMA WithinResend ==
    ASSUME NEW j \in Jobs, NEW W \in SUBSET Parts(j), NEW A, NEW u \in 0 .. NumLines[j],
           NEW n \in Nat, Acc(W, A, u), Within(j, W, A, u, n),
           NEW p \in W, \A q \in W : p.lo <= q.lo, p.retry > 0
    PROVE  Within(j, (W \ {p}) \union {[p EXCEPT !.retry = @ - 1]}, A, u, n + 1)
<1> DEFINE r == [p EXCEPT !.retry = @ - 1]
           V == (W \ {p}) \union {r}
<1>1. p \in Parts(j) /\ r \in Parts(j) /\ V \in SUBSET Parts(j)
  BY ResendType
<1>2. RetryNum \in Nat /\ NumLines[j] \in Nat
  BY TranslatorAssumption
<1>3. r.lo = p.lo /\ r.hi = p.hi /\ r.retry = p.retry - 1
  BY <1>1 DEF Parts
<1>4. p.lo \in Nat /\ p.hi \in Nat /\ p.retry \in 0 .. RetryNum /\ Nonempty(W)
  BY <1>1, <1>2 DEF Parts, Within
<1> HIDE DEF r
<1>5. \A q \in W \ {p} : q.lo \in Nat /\ p.hi <= q.lo
  BY <1>4, AfterForemost, <1>2 DEF Parts
<1>6. Nonempty(V)
  BY <1>3, <1>4 DEF Nonempty
<1>7. p.lo < p.hi
  BY <1>4 DEF Nonempty
<1>8. r \notin W
  <2>1. r # p
    BY <1>3, <1>4
  <2> QED  BY <1>3, <1>4, <1>5, <1>7, <2>1
<1>9. \A q \in W \ {p} : q.retry = RetryNum
  BY <1>4, <1>5, <1>7 DEF Within
<1>10. Left(j, V, A, u) = Left(j, W, A, u)
  <2>1. IsFiniteSet(W) /\ Cardinality(W) \in Nat
    BY <1>4, PartsCounted
  <2>2. IsFiniteSet(W \ {p}) /\ Cardinality(W \ {p}) = Cardinality(W) - 1
    BY <2>1, FS_RemoveElement
  <2>3. Cardinality(V) = Cardinality(W \ {p}) + 1
    BY <1>8, <2>2, FS_AddElement
  <2>4. Cardinality(V) = Cardinality(W)
    BY <2>1, <2>2, <2>3
  <2> QED  BY <2>4 DEF Left
<1>11. n + Sends * Left(j, W, A, u) <= Bound(j) + (RetryNum - p.retry)
  BY DEF Within
<1>12. Sends * Left(j, W, A, u) \in Int
  <2>1. Left(j, W, A, u) \in Int /\ Sends \in Int
    BY <1>4, <1>2, PartsCounted DEF Sends
  <2> QED  BY <2>1
<1>13. n + 1 + Sends * Left(j, V, A, u) <= Bound(j) + (RetryNum - r.retry)
  BY <1>2, <1>3, <1>4, <1>10, <1>11, <1>12, BoundType
<1>14. ASSUME NEW s \in V, NEW t \in V, s.lo < t.lo PROVE t.retry = RetryNum
  <2>1. CASE t = r
    BY <1>3, <1>4, <1>5, <1>7, <1>14, <2>1
  <2>2. CASE t # r
    BY <1>9, <2>2
  <2> QED  BY <2>1, <2>2
<1>15. ASSUME NEW s \in V, \A t \in V : s.lo <= t.lo PROVE s = r
  BY <1>3, <1>4, <1>5, <1>7, <1>15
<1>16. V # {}
  OBVIOUS
<1> HIDE DEF V
<1>17. Within(j, V, A, u, n + 1)
  BY <1>6, <1>13, <1>14, <1>15, <1>16 DEF Within
<1> QED  BY <1>17 DEF V, r

LEMMA WithinSplit ==
    ASSUME NEW j \in Jobs, NEW W \in SUBSET Parts(j), NEW A, NEW u \in 0 .. NumLines[j],
           NEW n \in Nat, Acc(W, A, u), Within(j, W, A, u, n),
           NEW p \in W, \A q \in W : p.lo <= q.lo, Size(p) > 1
    PROVE  Within(j, (W \ {p}) \union Halves(p), A, u, n + 1)
<1> DEFINE a == [lo |-> p.lo, hi |-> Middle(p), retry |-> RetryNum]
           b == [lo |-> Middle(p), hi |-> p.hi, retry |-> RetryNum]
           V == (W \ {p}) \union Halves(p)
<1>1. p \in Parts(j) /\ Halves(p) \subseteq Parts(j) /\ V \in SUBSET Parts(j)
  BY HalvesType
<1>2. RetryNum \in Nat /\ NumLines[j] \in Nat /\ Sends \in Nat
  BY TranslatorAssumption DEF Sends
<1>3. /\ p.lo \in Nat /\ p.hi \in Nat /\ p.retry \in 0 .. RetryNum
      /\ Middle(p) \in (p.lo + 1) .. (p.hi - 1)
      /\ Nonempty(W)
  BY <1>1, <1>2, HalvesType DEF Parts, Within
<1>4. \A q \in W \ {p} : q.lo \in Nat /\ p.hi <= q.lo
  BY <1>3, AfterForemost, <1>2 DEF Parts
<1>5. /\ a.lo = p.lo /\ a.hi = Middle(p) /\ a.retry = RetryNum
      /\ b.lo = Middle(p) /\ b.hi = p.hi /\ b.retry = RetryNum
  OBVIOUS
<1>6. Halves(p) = {a, b}
  BY DEF Halves
<1> HIDE DEF a, b
<1>7. Nonempty(V)
  BY <1>3, <1>5, <1>6 DEF Nonempty
<1>8. \A q \in W \ {p} : q.retry = RetryNum
  BY <1>3, <1>4 DEF Within
<1>9. \A q \in V : q.retry = RetryNum
  BY <1>5, <1>6, <1>8
<1>10. a \notin W \ {p} /\ b \notin (W \ {p}) \union {a}
  BY <1>3, <1>4, <1>5
<1>11. /\ IsFiniteSet(W) /\ Cardinality(W) \in Nat /\ Cardinality(A) \in Nat
       /\ Left(j, W, A, u) \in Int
  BY <1>3, PartsCounted
<1>12. Cardinality(V) = Cardinality(W) + 1
  <2>1. IsFiniteSet(W \ {p}) /\ Cardinality(W \ {p}) = Cardinality(W) - 1
    BY <1>11, FS_RemoveElement
  <2>2. /\ IsFiniteSet((W \ {p}) \union {a})
        /\ Cardinality((W \ {p}) \union {a}) = Cardinality(W \ {p}) + 1
    BY <1>10, <2>1, FS_AddElement
  <2>3. Cardinality(((W \ {p}) \union {a}) \union {b})
            = Cardinality((W \ {p}) \union {a}) + 1
    BY <1>10, <2>2, FS_AddElement
  <2>4. V = ((W \ {p}) \union {a}) \union {b}
    BY <1>6
  <2>5. Cardinality(V) = Cardinality(W \ {p}) + 1 + 1
    BY <2>2, <2>3, <2>4
  <2> QED  BY <1>11, <2>1, <2>5
<1> DEFINE x == Left(j, W, A, u)
           y == Left(j, V, A, u)
<1>13. BatchesFrom(j, u) \in Int
  BY BatchesFromType
<1>14. y \in Int /\ y < x
  BY <1>2, <1>11, <1>12, <1>13 DEF Left
<1>15. n + Sends * x <= Bound(j) + (RetryNum - p.retry)
  BY DEF Within
<1> HIDE DEF x, y, V
<1>16. Sends * x \in Int /\ Sends * y \in Int /\ Sends * y + Sends <= Sends * x
  BY <1>11, <1>14, ScaleLess DEF x
<1>17. n + 1 + Sends * y <= Bound(j)
  BY <1>2, <1>3, <1>15, <1>16, BoundType DEF Sends
<1>18. Within(j, V, A, u, n + 1)
  BY <1>1, <1>7, <1>9, <1>17, WithinIntro DEF y
<1> QED  BY <1>18 DEF V

\* A job that is about to send has a request left.
LEMMA WithinBound ==
    ASSUME NEW j \in Jobs, NEW W \in SUBSET Parts(j), NEW A, NEW u \in 0 .. NumLines[j],
           NEW n \in Nat, Acc(W, A, u), Within(j, W, A, u, n)
    PROVE  /\ W = {} => n <= Bound(j)
           /\ W # {} => n + 1 <= Bound(j)
<1> DEFINE x == Left(j, W, A, u)
<1>1. Sends \in Nat /\ RetryNum \in Nat /\ NumLines[j] \in Nat
  BY TranslatorAssumption DEF Sends
<1>2. x \in Int /\ x >= Cardinality(W) /\ Cardinality(W) \in Nat /\ IsFiniteSet(W)
  BY PartsCounted DEF Within
<1>3. Bound(j) \in Nat
  BY BoundType
<1>4. CASE W = {}
  <2>1. n + Sends * x <= Bound(j)
    BY <1>4 DEF Within
  <2> HIDE DEF x
  <2>2. Sends * x \in Nat
    BY <1>1, <1>2
  <2> QED  BY <1>3, <1>4, <2>1, <2>2
<1>5. CASE W # {}
  <2>1. \E p \in W : \A q \in W : p.lo <= q.lo
    <3> DEFINE S == {p.lo : p \in W}
    <3>1. S \subseteq Nat /\ S # {}
      BY <1>1, <1>5 DEF Parts
    <3>2. PICK m \in S : \A k \in S : m <= k
      BY <3>1, LeastExists
    <3> QED  BY <3>2
  <2>2. PICK p \in W : \A q \in W : p.lo <= q.lo
    BY <2>1
  <2>3. n + Sends * x <= Bound(j) + (RetryNum - p.retry)
    BY <2>2 DEF Within
  <2>4. p.retry \in 0 .. RetryNum
    BY DEF Parts
  <2>5. x > 0
    BY <1>2, <1>5, FS_EmptySet
  <2> HIDE DEF x
  <2>6. Sends * x \in Int /\ Sends * 0 + Sends <= Sends * x
    BY <1>2, <2>5, ScaleLess
  <2>7. Sends * 0 = 0
    BY <1>1
  <2> QED  BY <1>1, <1>3, <1>5, <2>3, <2>4, <2>6, <2>7 DEF Sends
<1> QED  BY <1>4, <1>5

\* The inductive invariant of a job, whatever stage it is in.
JobWithin(j) ==
    /\ status[j] = "starting" => requests[j] = 0
    /\ status[j] = "working" =>
          Within(j, work[j], answered[j], upto[j], requests[j])
    /\ status[j] # "working" => requests[j] <= Bound(j)

LEMMA TakeBatchWithin ==
    ASSUME Typed, NEW j \in Jobs, work[j] = {}, upto[j] < NumLines[j],
           Acc({}, answered[j], upto[j]), TakeBatch(j),
           Within(j, {}, answered[j], upto[j], requests[j])
    PROVE  Within(j, work'[j], answered'[j], upto'[j], requests'[j])
<1>1. upto[j] \in 0 .. NumLines[j] /\ requests[j] \in Nat
  BY TranslatorAssumption DEF Typed, PartsTyped, OthersTyped
<1>2. Within(j, {Batch(j, upto[j])}, answered[j], Batch(j, upto[j]).hi, requests[j])
  BY <1>1, WithinTake
<1>3. /\ work'[j] = {Batch(j, upto[j])} /\ upto'[j] = Batch(j, upto[j]).hi
      /\ answered'[j] = answered[j] /\ requests'[j] = requests[j]
  BY DEF TakeBatch, Typed, PartsTyped
<1> QED  BY <1>2, <1>3

LEMMA OutcomeWithin ==
    ASSUME Typed, NEW j \in Jobs, status[j] = "working", JobAccounted(j), JobWithin(j),
           NEW p \in work[j], NEW cause \in Causes, Foremost(j, p), Sent(j),
           \/ GiveUp(j, cause)
           \/ Resend(j, p)
           \/ Split(j, p)
    PROVE  JobWithin(j)'
<1>1. /\ work[j] \in SUBSET Parts(j) /\ upto[j] \in 0 .. NumLines[j]
      /\ requests[j] \in Nat
      /\ requests'[j] = IF status'[j] = "working" THEN requests[j] + 1 ELSE 0
  BY TranslatorAssumption DEF Typed, PartsTyped, OthersTyped, Sent
<1>2. /\ Acc(work[j], answered[j], upto[j])
      /\ Within(j, work[j], answered[j], upto[j], requests[j])
      /\ \A q \in work[j] : p.lo <= q.lo
  BY DEF JobAccounted, JobWithin, Foremost
<1>3. CASE GiveUp(j, cause)
  <2>1. status'[j] # "working" /\ status'[j] # "starting"
    BY <1>3 DEF GiveUp, Causes, Typed, OthersTyped
  <2> QED  BY <1>1, <2>1, BoundType DEF JobWithin, Bound, Batches
<1>4. CASE Resend(j, p)
  <2>1. p.retry > 0 /\ Replace(j, p, {[p EXCEPT !.retry = @ - 1]})
    BY <1>4 DEF Resend
  <2>2. Within(j, (work[j] \ {p}) \union {[p EXCEPT !.retry = @ - 1]},
               answered[j], upto[j], requests[j] + 1)
    BY <1>1, <1>2, <2>1, WithinResend
  <2>3. /\ work'[j] = (work[j] \ {p}) \union {[p EXCEPT !.retry = @ - 1]}
        /\ status'[j] = "working" /\ UNCHANGED <<answered, upto>>
    BY <2>1 DEF Replace, Typed, PartsTyped
  <2>4. Within(j, work'[j], answered'[j], upto'[j], requests'[j])
    BY <1>1, <2>2, <2>3
  <2> QED  BY <2>3, <2>4 DEF JobWithin
<1>5. CASE Split(j, p)
  <2>1. Size(p) > 1 /\ Replace(j, p, Halves(p))
    BY <1>5 DEF Split
  <2>2. Within(j, (work[j] \ {p}) \union Halves(p),
               answered[j], upto[j], requests[j] + 1)
    BY <1>1, <1>2, <2>1, WithinSplit
  <2>3. /\ work'[j] = (work[j] \ {p}) \union Halves(p)
        /\ status'[j] = "working" /\ UNCHANGED <<answered, upto>>
    BY <2>1 DEF Replace, Typed, PartsTyped
  <2>4. Within(j, work'[j], answered'[j], upto'[j], requests'[j])
    BY <1>1, <2>2, <2>3
  <2> QED  BY <2>3, <2>4 DEF JobWithin
<1> QED  BY <1>3, <1>4, <1>5

LEMMA SelfWithin ==
    ASSUME Typed, NEW j \in Jobs, JobAccounted(j), JobWithin(j),
           Begin(j) \/ SourceUnreadable(j) \/ Step(j) \/ Hang(j)
    PROVE  JobWithin(j)'
<1>0. /\ work[j] \in SUBSET Parts(j) /\ upto[j] \in 0 .. NumLines[j]
      /\ requests[j] \in Nat /\ Bound(j) \in Nat
  BY TranslatorAssumption, BoundType DEF Typed, PartsTyped, OthersTyped
<1>1. CASE SourceUnreadable(j)
  BY <1>1 DEF SourceUnreadable, Asked, Running, JobWithin, batchVars, Typed, OthersTyped
<1>9. CASE Hang(j)
  BY <1>9 DEF Hang, JobWithin, batchVars, Bound, Batches
<1>2. CASE Begin(j)
  BY <1>0, <1>2 DEF Begin, JobWithin, Typed, OthersTyped
<1>3. CASE NoKey(j) \/ OpenFails(j)
  BY <1>0, <1>3 DEF NoKey, OpenFails, JobWithin, batchVars, Typed, OthersTyped
<1>4. CASE Open(j)
  <2>1. /\ work[j] = {} /\ answered[j] = {} /\ upto[j] = 0 /\ requests[j] = 0
        /\ TakeBatch(j) /\ status'[j] = "working"
    BY <1>4 DEF Open, Typed, Stages, OthersTyped, JobWithin
  <2>2. Acc({}, {}, 0)
    BY DEF Acc
  <2>3. NumLines[j] \in Nat /\ NumLines[j] > 0
    BY TranslatorAssumption
  <2>4. Within(j, {}, {}, 0, 0)
    <3>1. Left(j, {}, {}, 0) = 2 * NumLines[j] - BatchesFrom(j, 0)
      <4>1. BatchesFrom(j, 0) \in Int
        BY <2>3, BatchesFromType
      <4>2. Cardinality({}) = 0
        BY FS_EmptySet
      <4> QED  BY <2>3, <4>1, <4>2 DEF Left
    <3>2. 0 + Sends * Left(j, {}, {}, 0) <= Bound(j)
      BY <1>0, <3>1, BoundType
    <3> QED  BY <3>2, WithinIntro DEF Nonempty
  <2>5. Within(j, work'[j], answered'[j], upto'[j], requests'[j])
    BY <2>1, <2>2, <2>3, <2>4, TakeBatchWithin
  <2> QED  BY <2>1, <2>5 DEF JobWithin
<1>5. CASE NextBatch(j)
  <2>1. /\ status[j] = "working" /\ status'[j] = "working" /\ work[j] = {}
        /\ upto[j] < NumLines[j] /\ TakeBatch(j)
    BY <1>5 DEF NextBatch
  <2>2. Within(j, work'[j], answered'[j], upto'[j], requests'[j])
    BY <2>1, TakeBatchWithin DEF JobWithin, JobAccounted
  <2> QED  BY <2>1, <2>2 DEF JobWithin
<1>6. CASE Accepted(j)
  <2>1. PICK p \in work[j] :
            /\ Foremost(j, p)
            /\ work' = [work EXCEPT ![j] = @ \ {p}]
            /\ answered' = [answered EXCEPT ![j] = @ \union LinesOf(p)]
    BY <1>6 DEF Accepted
  <2>2. status[j] = "working" /\ Sent(j) /\ UNCHANGED <<status, upto>>
    BY <1>6 DEF Accepted
  <2>3. Within(j, work[j] \ {p}, answered[j] \union LinesOf(p), upto[j], requests[j] + 1)
    BY <1>0, <2>1, <2>2, WithinAnswer DEF JobWithin, JobAccounted, Foremost
  <2>4. /\ work'[j] = work[j] \ {p} /\ answered'[j] = answered[j] \union LinesOf(p)
        /\ upto'[j] = upto[j] /\ requests'[j] = requests[j] + 1
    BY <2>1, <2>2 DEF Typed, PartsTyped, OthersTyped, Sent
  <2>5. Within(j, work'[j], answered'[j], upto'[j], requests'[j])
    BY <2>3, <2>4
  <2> QED  BY <2>2, <2>5 DEF JobWithin
<1>7. CASE Refused(j) \/ RateLimited(j)
  <2>1. status[j] = "working" /\ Sent(j)
    BY <1>7 DEF Refused, RateLimited
  <2>2. PICK p \in work[j], cause \in Causes :
            Foremost(j, p) /\ (GiveUp(j, cause) \/ Resend(j, p) \/ Split(j, p))
    BY <1>7 DEF Refused, RateLimited, Causes
  <2> QED  BY <2>1, <2>2, OutcomeWithin
<1>8. CASE Write(j) \/ WriteFails(j) \/ WrittenButFails(j)
  <2>1. /\ status'[j] # "working" /\ status'[j] # "starting"
        /\ requests'[j] = 0
    BY <1>8 DEF Write, WriteFails, WrittenButFails, Uncounted, Typed, OthersTyped
  <2> QED  BY <1>0, <2>1 DEF JobWithin, Bound, Batches
<1> QED  BY <1>1, <1>2, <1>3, <1>4, <1>5, <1>6, <1>7, <1>8, <1>9 DEF Step

\* Another job's requests are not touched.
LEMMA OthersWithin ==
    ASSUME Typed, NEW j \in Jobs, Begin(j) \/ SourceUnreadable(j) \/ Step(j) \/ Hang(j),
           NEW i \in Jobs, i # j, JobWithin(i)
    PROVE  JobWithin(i)'
<1>1. /\ status'[i] = status[i] /\ work'[i] = work[i] /\ upto'[i] = upto[i]
      /\ answered'[i] = answered[i] /\ requests'[i] = requests[i]
  <2> USE DEF Typed, OthersTyped, PartsTyped
  <2>1. CASE SourceUnreadable(j) \/ Begin(j) \/ NoKey(j) \/ OpenFails(j) \/ Hang(j)
    BY <2>1 DEF SourceUnreadable, Begin, NoKey, OpenFails, Hang, batchVars
  <2>2. CASE Open(j) \/ NextBatch(j)
    BY <2>2 DEF Open, NextBatch, TakeBatch
  <2>3. CASE Accepted(j)
    BY <2>3 DEF Accepted, Sent
  <2>4. CASE Refused(j) \/ RateLimited(j)
    <3>1. status[j] = "working" /\ Sent(j)
      BY <2>4 DEF Refused, RateLimited
    <3>2. PICK p \in work[j], cause \in Causes :
              GiveUp(j, cause) \/ Resend(j, p) \/ Split(j, p)
      BY <2>4 DEF Refused, RateLimited, Causes
    <3>3. requests'[i] = requests[i]
      BY <3>1 DEF Sent
    <3> QED  BY <3>1, <3>2, <3>3, OutcomeTyped
  <2>5. CASE Write(j) \/ WriteFails(j) \/ WrittenButFails(j)
    BY <2>5 DEF Write, WriteFails, WrittenButFails, Drop, Uncounted
  <2> QED  BY <2>1, <2>2, <2>3, <2>4, <2>5 DEF Step
<1> QED  BY <1>1 DEF JobWithin, Bound, Batches

LEMMA WithinStep ==
    ASSUME Typed, LinesAccounted, \A j \in Jobs : JobWithin(j), [Next]_vars,
           NEW i \in Jobs
    PROVE  JobWithin(i)'
<1>0. \A j \in Jobs : JobAccounted(j)
  BY AccountedIsAccounted
<1>1. ASSUME NEW j \in Jobs, SourceUnreadable(j) \/ Begin(j) \/ Step(j) \/ Hang(j)
      PROVE  JobWithin(i)'
  BY <1>0, <1>1, SelfWithin, OthersWithin
<1>2. ASSUME NEW k \in Keys, CooldownExpires(k) PROVE JobWithin(i)'
  BY <1>2 DEF CooldownExpires, JobWithin, batchVars, Bound, Batches
<1>3. CASE Restart
  <2>1. status'[i] # "working" /\ status'[i] # "starting" /\ requests'[i] = 0
    BY <1>3 DEF Restart, Running
  <2> QED  BY <2>1, BoundType DEF JobWithin, Bound, Batches
<1>4. CASE UNCHANGED vars
  BY <1>4 DEF vars, batchVars, JobWithin, Bound, Batches
<1> QED  BY <1>1, <1>2, <1>3, <1>4 DEF Next

\* A subtitle never costs more requests than its lines and batches allow, however
\* _process_batch mixes halving, resends and changes of key: the recursion of
\* each batch stays within retry_num + 1 sends of each part it can be cut into.
THEOREM RequestTheorem == Spec => []RequestBound
<1> DEFINE IInv == \A j \in Jobs : JobWithin(j)
<1>1. Init => IInv
  BY BoundType DEF Init, JobWithin
<1>2. Typed /\ LinesAccounted /\ IInv /\ [Next]_vars => IInv'
  BY WithinStep
<1>3. Typed /\ LinesAccounted /\ IInv => RequestBound
  <2> SUFFICES ASSUME Typed, LinesAccounted, IInv, NEW j \in Jobs
               PROVE  requests[j] + Out(j) <= Bound(j)
    BY DEF RequestBound, Bound, Sends
  <2>1. JobAccounted(j) /\ JobWithin(j)
    BY AccountedIsAccounted
  <2>2. /\ work[j] \in SUBSET Parts(j) /\ upto[j] \in 0 .. NumLines[j]
        /\ requests[j] \in Nat /\ Bound(j) \in Nat
    BY TranslatorAssumption, BoundType DEF Typed, PartsTyped, OthersTyped
  <2>3. CASE status[j] = "working"
    <3>1. /\ work[j] = {} => requests[j] <= Bound(j)
          /\ work[j] # {} => requests[j] + 1 <= Bound(j)
      BY <2>1, <2>2, <2>3, WithinBound DEF JobWithin, JobAccounted
    <3> QED  BY <2>2, <2>3, <3>1 DEF Out
  <2> QED  BY <2>1, <2>2, <2>3 DEF JobWithin, Out
<1>4. Spec => []Typed
  BY TypedInit, TypedStep, PTL DEF Spec
<1> QED  BY <1>1, <1>2, <1>3, <1>4, LinesTheorem, PTL DEF Spec

---------------------------------------------------------------------------
(* A translator's job is a job of TranslationJob.                          *)

LEMMA JobInit == Init => Job!Init
BY TranslatorAssumption DEF Init, Job!Init

\* How the rest of the system sees a step: a move of one job, or nothing.
LEMMA JobStep == Typed /\ [Next]_vars => [Job!Next]_<<status, target>>
<1> SUFFICES ASSUME Typed, [Next]_vars,
                    ~ UNCHANGED <<status, target>>
             PROVE  Job!Next
  OBVIOUS
<1> USE DEF Typed, OthersTyped, Job!Move, Job!Asked, Job!Running, Running
<1>1. ASSUME NEW j \in Jobs, SourceUnreadable(j) PROVE Job!Next
  <2>1. Job!Refuse(j)
    BY <1>1 DEF SourceUnreadable, Asked, fileVars, Job!Refuse, Job!Statuses,
                Job!Causes, Statuses, Causes
  <2> QED  BY <2>1 DEF Job!Next
<1>2. ASSUME NEW j \in Jobs, Begin(j) PROVE Job!Next
  <2>1. Job!Start(j)
    BY <1>2 DEF Begin, RemoveOutput, Asked, Job!Start, Job!Statuses, Job!Causes, Statuses,
                Causes
  <2> QED  BY <2>1 DEF Job!Next
<1>3. ASSUME NEW j \in Jobs, Step(j) PROVE Job!Next
  <2>1. CASE NoKey(j) \/ OpenFails(j)
    <3>1. Job!EndEarly(j)
      BY <2>1 DEF NoKey, OpenFails, Rewritten, fileVars, Job!EndEarly
    <3> QED  BY <3>1 DEF Job!Next, Job!Step
  <2>2. CASE Open(j)
    <3>1. Job!Open(j)
      BY <2>2 DEF Open, Job!Open
    <3> QED  BY <3>1 DEF Job!Next, Job!Step
  <2>3. CASE NextBatch(j) \/ Accepted(j)
    BY <2>3 DEF NextBatch, Accepted, fileVars
  <2>4. CASE Refused(j) \/ RateLimited(j)
    <3>1. PICK p \in work[j], cause \in Causes \ {"permission"} :
              GiveUp(j, cause) \/ Resend(j, p) \/ Split(j, p)
      BY <2>4 DEF Refused, RateLimited, Causes
    <3>2. ~ (Resend(j, p) \/ Split(j, p))
      BY DEF Resend, Split, Replace, fileVars
    <3>3. target[j] = "empty"
      BY <2>4 DEF Refused, RateLimited, Stages
    <3>4. Job!Fail(j)
      BY <2>4, <3>1, <3>2, <3>3
         DEF Refused, RateLimited, GiveUp, RemoveOutput, Job!Fail, Job!Causes, Causes
    <3> QED  BY <3>4 DEF Job!Next, Job!Step
  <2>5. CASE Write(j)
    <3>1. Job!Succeed(j)
      BY <2>5 DEF Write, AllAnswered, Job!Succeed
    <3> QED  BY <3>1 DEF Job!Next, Job!Step
  <2>6. CASE WriteFails(j) \/ WrittenButFails(j)
    <3>1. Job!Fail(j)
      BY <2>6 DEF WriteFails, WrittenButFails, Rewritten, AllAnswered, Job!Fail, Job!Causes
    <3> QED  BY <3>1 DEF Job!Next, Job!Step
  <2> QED  BY <1>3, <2>1, <2>2, <2>3, <2>4, <2>5, <2>6 DEF Step
<1>4. ASSUME NEW k \in Keys, CooldownExpires(k) PROVE Job!Next
  BY <1>4 DEF CooldownExpires, fileVars
<1>5. CASE Restart
  <2>1. Job!Restart
    BY <1>5 DEF Restart, AllAnswered, Job!Restart, Job!Files, Files
  <2> QED  BY <2>1 DEF Job!Next
<1>6. CASE UNCHANGED vars
  BY <1>6 DEF vars, fileVars
<1>7. ASSUME NEW j \in Jobs, Hang(j) PROVE Job!Next
  BY <1>7 DEF Hang, fileVars
<1> QED  BY <1>1, <1>2, <1>3, <1>4, <1>5, <1>6, <1>7 DEF Next

\* What translate does to the output file, its early ends, its handler of errors
\* and a restart are steps of a job as TranslationJob has it: ok only over a whole
\* translation or a file that it has not touched, and after a failure that names
\* Gemini no file, or the empty one that could not be removed.
THEOREM JobTheorem == Spec => ImplementsJob
<1>1. Init => Job!Init
  BY JobInit
<1>2. Typed /\ [Next]_vars => [Job!Next]_(Job!jobVars)
  BY JobStep DEF Job!jobVars
<1>3. Spec => []Typed
  BY TypedInit, TypedStep, PTL DEF Spec
<1> QED  BY <1>1, <1>2, <1>3, PTL DEF Spec, ImplementsJob, Job!Spec

=============================================================================
