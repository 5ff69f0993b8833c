----------------------- MODULE TranslateBacklogProofs -----------------------
(***************************************************************************)
(* Theorems about TranslateBacklog, for any items, lists and limits: the   *)
(* quiet while the cooldown is in force, that an item is given up only     *)
(* after failures in as many runs, type correctness, and that the jobs it  *)
(* asks for are those of TranslationJob.                                   *)
(***************************************************************************)
EXTENDS TranslateBacklog, FiniteSetTheorems, SequenceTheorems, WellFoundedInduction, TLAPS

\* The cooldown is in force only between runs, and between runs the script waits
\* for no item.
Resting ==
    /\ cooldown => run = "idle"
    /\ run = "idle" => item = NoItem

LEMMA RestingInit == Init => Resting
BY DEF Init, Resting

LEMMA RestingStep == Resting /\ [Next]_vars => Resting'
<1> SUFFICES ASSUME Resting, [Next]_vars PROVE Resting'
  OBVIOUS
<1> USE DEF Resting, runVars, fileVars
<1>1. CASE StartRun \/ NextKind
  BY <1>1 DEF StartRun, NextKind, Stop
<1>2. ASSUME NEW n \in todo, Skip(n) \/ Request(n) \/ RequestFails(n)
      PROVE  Resting'
  BY <1>2 DEF Skip, Request, RequestFails, Up, Busy, Passed, Stop
<1>3. CASE PollFinds \/ PollRateLimited \/ PollDies
  BY <1>3 DEF PollFinds, PollRateLimited, PollDies, Looks, Passed, Stop
<1>4. CASE PollUnreadable \/ PollMalformed \/ PollNothing
  BY <1>4 DEF PollUnreadable, PollMalformed, PollNothing, Looks, Failed, Stop
<1>5. CASE Killed \/ NewDay
  BY <1>5 DEF Killed, NewDay, Stop
<1>6. ASSUME NEW i \in Items,
             JobOpens(i) \/ JobSucceeds(i) \/ JobFails(i) \/ JobEndsEarly(i)
      PROVE  Resting'
  BY <1>6 DEF JobOpens, JobSucceeds, JobFails, JobEndsEarly
<1>7. CASE UNCHANGED vars
  BY <1>7 DEF vars
<1> QED  BY <1>1, <1>2, <1>3, <1>4, <1>5, <1>6, <1>7 DEF Next, ScriptStep

\* A step that starts in the cooldown asks for nothing and blames nothing.
LEMMA QuietStep ==
    ASSUME Resting, cooldown, [Next]_vars
    PROVE  tried' = tried /\ attempts' = attempts /\ run' = "idle"
<1> USE DEF Resting, runVars, fileVars, ghosts
<1>1. CASE ScriptStep
  <2>1. /\ ~ StartRun /\ ~ NextKind
        /\ \A n \in todo : ~ (Skip(n) \/ Request(n) \/ RequestFails(n))
    BY DEF StartRun, NextKind, Skip, Request, RequestFails, Up, Busy
  <2>2. ~ (PollFinds \/ PollRateLimited \/ PollUnreadable \/ PollMalformed \/ PollNothing)
    BY DEF PollFinds, PollRateLimited, PollUnreadable, PollMalformed, PollNothing, Looks
  <2> QED  BY <1>1, <2>1, <2>2 DEF ScriptStep
<1>2. CASE Killed \/ NewDay \/ PollDies
  BY <1>2 DEF Killed, NewDay, PollDies, Looks
<1>3. ASSUME NEW i \in Items,
             JobOpens(i) \/ JobSucceeds(i) \/ JobFails(i) \/ JobEndsEarly(i)
      PROVE  UNCHANGED <<tried, attempts, run>>
  BY <1>3 DEF JobOpens, JobSucceeds, JobFails, JobEndsEarly
<1>4. CASE UNCHANGED vars
  BY <1>4 DEF vars
<1> QED  BY <1>1, <1>2, <1>3, <1>4 DEF Next

\* After write_cooldown_until_next_quota_reset the script is quiet until midnight in California.
THEOREM QuietTheorem == Spec => QuietInCooldown
<1>1. Spec => []Resting
  BY RestingInit, RestingStep, PTL DEF Spec
<1>2. Resting /\ [Next]_vars =>
        [cooldown => tried' = tried /\ attempts' = attempts /\ run' = "idle"]_vars
  BY QuietStep
<1> QED  BY <1>1, <1>2, PTL DEF Spec, QuietInCooldown

---------------------------------------------------------------------------
(* The blocklist.                                                          *)

Numbers ==
    /\ attempts \in [Items -> Nat]
    /\ before \in [Items -> Nat]

Places ==
    /\ run \in Kinds \union {"idle"}
    /\ todo \subseteq IF run = "idle" THEN {} ELSE DOMAIN Wanted[run]
    /\ item # NoItem =>
          run # "idle" /\ \E n \in DOMAIN Wanted[run] : Wanted[run][n] = item

\* No failure of this run counts for item i so far.
Clean(i) == attempts[i] = before[i] /\ before[i] < SkipAfter

\* That is so for what is to do, for the item waited for, which is not to do any
\* more, and before the movies for every movie.
Fresh ==
    /\ \A n \in todo : Clean(Wanted[run][n]) /\ Wanted[run][n] # item
    /\ item # NoItem => Clean(item)
    /\ run = "episode" =>
          \A n \in DOMAIN Wanted["movie"] :
              attempts[Wanted["movie"][n]] = before[Wanted["movie"][n]]

Inv == Numbers /\ Places /\ Fresh /\ ExcludedAfterSeparateRuns

LEMMA WantedItems ==
    ASSUME NEW k \in Kinds, NEW n \in DOMAIN Wanted[k]
    PROVE  Wanted[k][n] \in Items
<1>1. Wanted[k] \in Seq(Items)
  BY BacklogAssumption
<1> QED  BY <1>1

LEMMA OnceWanted ==
    ASSUME NEW k \in Kinds, NEW l \in Kinds,
           NEW n \in DOMAIN Wanted[k], NEW m \in DOMAIN Wanted[l],
           Wanted[k][n] = Wanted[l][m]
    PROVE  k = l /\ n = m
BY BacklogAssumption

LEMMA InvInit == Init => Inv
<1> SUFFICES ASSUME Init PROVE Inv
  OBVIOUS
<1>1. attempts = [i \in Items |-> 0] /\ before = attempts
  BY DEF Init
<1>2. Numbers /\ Places /\ Fresh
  BY <1>1 DEF Init, Numbers, Places, Fresh
<1>3. ExcludedAfterSeparateRuns
  BY <1>1 DEF ExcludedAfterSeparateRuns
<1> QED  BY <1>2, <1>3 DEF Inv

\* Where nothing is counted the property stays, and so do the clean items.
LEMMA NothingCounted ==
    ASSUME Inv, UNCHANGED <<attempts, before>>
    PROVE  Numbers' /\ ExcludedAfterSeparateRuns'
BY DEF Inv, Numbers, ExcludedAfterSeparateRuns

\* Counting a failure of a clean item is what the property allows.
LEMMA CleanCounted ==
    ASSUME Inv, NEW i \in Items, Clean(i), RecordFailure(i), before' = before
    PROVE  /\ Numbers' /\ ExcludedAfterSeparateRuns'
           /\ \A j \in Items : j # i => attempts'[j] = attempts[j]
<1>1. /\ attempts \in [Items -> Nat] /\ before \in [Items -> Nat]
      /\ attempts' = [attempts EXCEPT ![i] = @ + 1]
      /\ SkipAfter \in Nat
  BY BacklogAssumption DEF Inv, Numbers, RecordFailure
<1>2. attempts' \in [Items -> Nat] /\ attempts'[i] = before[i] + 1 /\ before[i] < SkipAfter
  BY <1>1 DEF Clean
<1>3. \A j \in Items : j # i => attempts'[j] = attempts[j]
  BY <1>1
<1>4. ASSUME NEW j \in Items
      PROVE  /\ attempts'[j] <= before[j] + 1
             /\ before[j] >= SkipAfter => attempts'[j] <= before[j]
  <2>1. CASE j = i
    BY <1>1, <1>2, <2>1
  <2>2. CASE j # i
    BY <1>3, <2>2 DEF Inv, ExcludedAfterSeparateRuns
  <2> QED  BY <2>1, <2>2
<1>5. Numbers'
  BY <1>1, <1>2 DEF Numbers
<1>6. ExcludedAfterSeparateRuns'
  BY <1>4 DEF ExcludedAfterSeparateRuns
<1> QED  BY <1>3, <1>5, <1>6

\* A run that ends leaves nothing to do.
LEMMA Stopped == ASSUME Stop PROVE Places' /\ Fresh'
BY DEF Stop, Places, Fresh

LEMMA StartRunInv == Inv /\ Resting /\ StartRun => Inv'
<1> SUFFICES ASSUME Inv, Resting, StartRun PROVE Inv'
  OBVIOUS
<1>1. /\ run' = "episode" /\ todo' = Worklist("episode") /\ before' = attempts
      /\ attempts' = attempts /\ item' = NoItem
  BY DEF StartRun, Resting, fileVars
<1>2. attempts \in [Items -> Nat] /\ SkipAfter \in Nat
  BY BacklogAssumption DEF Inv, Numbers
<1>3. \A n \in todo' : /\ n \in DOMAIN Wanted["episode"]
                       /\ attempts[Wanted["episode"][n]] < SkipAfter
  BY <1>1 DEF Worklist
<1>4. \A n \in DOMAIN Wanted["episode"] : Wanted["episode"][n] \in Items
  BY WantedItems DEF Kinds
<1>5. Numbers' /\ ExcludedAfterSeparateRuns'
  BY <1>1, <1>2 DEF Numbers, ExcludedAfterSeparateRuns
<1>6. Places'
  BY <1>1, <1>3 DEF Places, Kinds
<1>7. Fresh'
  <2>1. \A n \in todo' : Wanted["episode"][n] # NoItem
    BY <1>3, <1>4, BacklogAssumption
  <2> QED  BY <1>1, <1>3, <2>1 DEF Fresh, Clean
<1> QED  BY <1>5, <1>6, <1>7 DEF Inv

LEMMA NextKindInv == Inv /\ NextKind => Inv'
<1> SUFFICES ASSUME Inv, NextKind PROVE Inv'
  OBVIOUS
<1>1. Numbers' /\ ExcludedAfterSeparateRuns'
  BY NothingCounted DEF NextKind, fileVars, ghosts
<1>2. CASE run = "episode"
  <2>1. /\ run' = "movie" /\ todo' = Worklist("movie") /\ item' = NoItem
        /\ UNCHANGED <<attempts, before>>
    BY <1>2 DEF NextKind, fileVars, ghosts
  <2>2. \A n \in todo' : /\ n \in DOMAIN Wanted["movie"]
                         /\ attempts[Wanted["movie"][n]] < SkipAfter
    BY <2>1 DEF Worklist
  <2>3. \A n \in DOMAIN Wanted["movie"] :
            attempts[Wanted["movie"][n]] = before[Wanted["movie"][n]]
    BY <1>2 DEF Inv, Fresh
  <2>4. \A n \in DOMAIN Wanted["movie"] : Wanted["movie"][n] \in Items
    BY WantedItems DEF Kinds
  <2>5. Places'
    BY <2>1, <2>2 DEF Places, Kinds
  <2>6. Fresh'
    <3>1. \A n \in todo' : Wanted["movie"][n] # NoItem
      BY <2>2, <2>4, BacklogAssumption
    <3> QED  BY <2>1, <2>2, <2>3, <3>1 DEF Fresh, Clean
  <2> QED  BY <1>1, <2>5, <2>6 DEF Inv
<1>3. CASE run # "episode"
  BY <1>1, <1>3, Stopped DEF NextKind, Inv
<1> QED  BY <1>2, <1>3

LEMMA ItemInv ==
    ASSUME Inv, NEW n \in todo, Skip(n) \/ Request(n) \/ RequestFails(n)
    PROVE  Inv'
<1> DEFINE i == Wanted[run][n]
<1>1. run \in Kinds /\ todo \subseteq DOMAIN Wanted[run] /\ item = NoItem
  BY DEF Inv, Places, Skip, Request, RequestFails, Up, Busy
<1>2. \A m \in todo : Wanted[run][m] \in Items /\ Clean(Wanted[run][m])
  BY <1>1, WantedItems DEF Inv, Fresh
<1>3. \A m \in todo \ {n} : Wanted[run][m] # i
  BY <1>1, OnceWanted
<1>4. i \in Items /\ i # NoItem
  BY <1>2, BacklogAssumption
<1>5. run = "episode" => \A m \in DOMAIN Wanted["movie"] :
          /\ Wanted["movie"][m] \in Items /\ Wanted["movie"][m] # i
          /\ attempts[Wanted["movie"][m]] = before[Wanted["movie"][m]]
  <2> SUFFICES ASSUME run = "episode", NEW m \in DOMAIN Wanted["movie"]
               PROVE  /\ Wanted["movie"][m] \in Items /\ Wanted["movie"][m] # i
                      /\ attempts[Wanted["movie"][m]] = before[Wanted["movie"][m]]
    OBVIOUS
  <2>1. "movie" \in Kinds /\ run # "movie"
    BY DEF Kinds
  <2>2. Wanted["movie"][m] # i
    BY <1>1, <2>1, OnceWanted
  <2> QED  BY <2>1, <2>2, WantedItems DEF Inv, Fresh
<1>6. CASE Skip(n) \/ Request(n)
  <2>1. /\ todo' = todo \ {n} /\ run' = run /\ item' \in {i, NoItem}
        /\ UNCHANGED <<attempts, before>>
    BY <1>6 DEF Skip, Request, Passed, fileVars, ghosts
  <2>2. Places'
    BY <1>1, <2>1 DEF Inv, Places
  <2>3. Fresh'
    BY <1>2, <1>3, <1>4, <1>5, <2>1, BacklogAssumption DEF Fresh, Clean
  <2> QED  BY <2>1, <2>2, <2>3, NothingCounted DEF Inv
<1>7. CASE RequestFails(n)
  <2>1. RecordFailure(i) /\ before' = before
    BY <1>7 DEF RequestFails
  <2>2. /\ Numbers' /\ ExcludedAfterSeparateRuns'
        /\ \A j \in Items : j # i => attempts'[j] = attempts[j]
    BY <1>2, <1>4, <2>1, CleanCounted
  <2>3. CASE Stop
    BY <2>2, <2>3, Stopped DEF Inv
  <2>4. CASE ~ Stop
    <3>1. todo' = todo \ {n} /\ run' = run /\ item' = NoItem
      BY <1>1, <1>7, <2>4 DEF RequestFails
    <3>2. Places'
      BY <1>1, <3>1 DEF Inv, Places
    <3>3. \A m \in todo' : /\ attempts'[Wanted[run][m]] = attempts[Wanted[run][m]]
                           /\ Wanted[run][m] # NoItem
      BY <1>2, <1>3, <2>2, <3>1, BacklogAssumption
    <3>4. Fresh'
      BY <1>2, <1>5, <2>1, <2>2, <3>1, <3>3 DEF Fresh, Clean
    <3> QED  BY <2>2, <3>2, <3>4 DEF Inv
  <2> QED  BY <2>3, <2>4
<1> QED  BY <1>6, <1>7

\* A poll waits on, or the item is done with: nothing is counted, or a failure of it.
LEMMA PollInv ==
    ASSUME Inv,
           PollFinds \/ PollDies \/ PollRateLimited \/ PollUnreadable \/ PollMalformed
             \/ PollNothing
    PROVE  Inv'
<1>1. item # NoItem /\ before' = before
  BY DEF PollFinds, PollDies, PollRateLimited, PollUnreadable, PollMalformed, PollNothing,
         Looks, ghosts
<1>2. /\ run \in Kinds /\ todo \subseteq DOMAIN Wanted[run]
      /\ Clean(item)
  BY <1>1 DEF Inv, Places, Fresh
<1>3. PICK p \in DOMAIN Wanted[run] : Wanted[run][p] = item
  BY <1>1 DEF Inv, Places
<1>4. item \in Items
  BY <1>2, <1>3, WantedItems
<1>5. \A m \in todo : /\ Wanted[run][m] \in Items /\ Wanted[run][m] # item
                      /\ Clean(Wanted[run][m])
  BY <1>2, WantedItems DEF Inv, Fresh
<1>6. run = "episode" => \A m \in DOMAIN Wanted["movie"] :
          /\ Wanted["movie"][m] \in Items /\ Wanted["movie"][m] # item
          /\ attempts[Wanted["movie"][m]] = before[Wanted["movie"][m]]
  <2> SUFFICES ASSUME run = "episode", NEW m \in DOMAIN Wanted["movie"]
               PROVE  /\ Wanted["movie"][m] \in Items /\ Wanted["movie"][m] # item
                      /\ attempts[Wanted["movie"][m]] = before[Wanted["movie"][m]]
    OBVIOUS
  <2>1. "movie" \in Kinds /\ run # "movie"
    BY DEF Kinds
  <2>2. Wanted["movie"][m] # item
    BY <1>2, <1>3, <2>1, OnceWanted
  <2> QED  BY <2>1, <2>2, WantedItems DEF Inv, Fresh
<1>7. \/ attempts' = attempts
      \/ RecordFailure(item)
  BY DEF PollFinds, PollDies, PollRateLimited, PollUnreadable, PollMalformed, PollNothing, fileVars
<1>8. /\ Numbers' /\ ExcludedAfterSeparateRuns'
      /\ \A j \in Items : j # item => attempts'[j] = attempts[j]
  BY <1>1, <1>2, <1>4, <1>7, NothingCounted, CleanCounted
<1>9. \/ Stop
      \/ item' = NoItem /\ UNCHANGED <<run, todo>>
      \/ UNCHANGED <<run, todo, item, attempts>>
  BY DEF PollFinds, PollDies, PollRateLimited, PollUnreadable, PollMalformed, PollNothing,
         Passed, Failed
<1>10. Places' /\ Fresh'
  <2>1. CASE Stop
    BY <2>1, Stopped
  <2>2. CASE item' = NoItem /\ UNCHANGED <<run, todo>>
    <3>1. \A m \in todo : attempts'[Wanted[run][m]] = attempts[Wanted[run][m]]
      BY <1>5, <1>8
    <3>2. Places'
      BY <2>2 DEF Inv, Places
    <3>3. Fresh'
      BY <1>1, <1>5, <1>6, <1>8, <2>2, <3>1, BacklogAssumption DEF Fresh, Clean
    <3> QED  BY <3>2, <3>3
  <2>3. CASE UNCHANGED <<run, todo, item, attempts>>
    BY <1>1, <2>3 DEF Inv, Places, Fresh, Clean
  <2> QED  BY <1>9, <2>1, <2>2, <2>3
<1> QED  BY <1>8, <1>10 DEF Inv

LEMMA InvStep == Inv /\ Resting /\ [Next]_vars => Inv'
<1> SUFFICES ASSUME Inv, Resting, [Next]_vars PROVE Inv'
  OBVIOUS
<1>1. CASE ScriptStep
  BY <1>1, StartRunInv, NextKindInv, ItemInv, PollInv DEF ScriptStep
<1>7. CASE PollDies
  BY <1>7, PollInv
<1>2. CASE Killed
  <2>1. before' = before /\ (attempts' = attempts \/ attempts' = [i \in Items |-> 0])
    BY <1>2 DEF Killed
  <2>2. attempts' = [i \in Items |-> 0] => Numbers' /\ ExcludedAfterSeparateRuns'
    BY <2>1 DEF Inv, Numbers, ExcludedAfterSeparateRuns
  <2>3. Places' /\ Fresh'
    BY <1>2, Stopped DEF Killed
  <2> QED  BY <2>1, <2>2, <2>3, NothingCounted DEF Inv
<1>3. CASE UNCHANGED <<run, todo, item, attempts, before>>
  <2>1. Places' /\ Fresh'
    BY <1>3 DEF Inv, Places, Fresh, Clean
  <2> QED  BY <1>3, <2>1, NothingCounted DEF Inv
<1>4. NewDay => UNCHANGED <<run, todo, item, attempts, before>>
  BY DEF NewDay, runVars, ghosts
<1>5. ASSUME NEW i \in Items,
             JobOpens(i) \/ JobSucceeds(i) \/ JobFails(i) \/ JobEndsEarly(i)
      PROVE  UNCHANGED <<run, todo, item, attempts, before>>
  BY <1>5 DEF JobOpens, JobSucceeds, JobFails, JobEndsEarly, runVars, fileVars, ghosts
<1>6. UNCHANGED vars => UNCHANGED <<run, todo, item, attempts, before>>
  BY DEF vars, runVars, fileVars, ghosts
<1> QED  BY <1>1, <1>2, <1>3, <1>4, <1>5, <1>6, <1>7 DEF Next

\* An item is excluded only after failures in SKIP_AFTER_ATTEMPTS separate runs,
\* whatever is killed, hangs or is logged late in between.
THEOREM ExcludedTheorem == Spec => []ExcludedAfterSeparateRuns
<1>1. Init => Inv /\ Resting
  BY InvInit, RestingInit
<1>2. Inv /\ Resting /\ [Next]_vars => (Inv /\ Resting)'
  BY InvStep, RestingStep
<1>3. Inv => ExcludedAfterSeparateRuns
  BY DEF Inv
<1> QED  BY <1>1, <1>2, <1>3, PTL DEF Spec

---------------------------------------------------------------------------
(* The lines that are left in the window.                                  *)

\* The relation of module WellFoundedInduction is that of the numbers.
LEMMA LessRelation == \A x, y \in Nat : <<x, y>> \in OpToRel(<, Nat) <=> x < y
BY DEF OpToRel

LEMMA LessWellFounded ==
    \E R : IsWellFoundedOn(R, Nat) /\ \A x, y \in Nat : <<x, y>> \in R <=> x < y
BY NatLessThanWellFounded, LessRelation, Zenon

LEMMA LeastExists ==
    ASSUME NEW S, S \subseteq Nat, S # {}
    PROVE  \E x \in S : \A y \in S : x <= y
<1>1. PICK R : IsWellFoundedOn(R, Nat) /\ \A x, y \in Nat : <<x, y>> \in R <=> x < y
  BY LessWellFounded
<1>2. IsWellFoundedOn(R, Nat)
  BY <1>1
<1>3. PICK x \in S : \A y \in S : ~ (<<y, x>> \in R)
  BY <1>2, WFMin
<1>4. \A y \in S : ~ (y < x)
  BY <1>1, <1>3
<1>5. x \in Nat /\ \A y \in S : y \in Nat
  BY <1>3
<1>6. \A y \in S : x <= y
  BY <1>4, <1>5
<1> QED  BY <1>6

LEMMA PlacesFinite ==
    ASSUME NEW N \in Nat, NEW P \in SUBSET (1 .. N)
    PROVE  IsFiniteSet(P) /\ Cardinality(P) \in Nat
<1>1. 1 \in Int /\ N \in Int
  OBVIOUS
<1>2. IsFiniteSet(1 .. N)
  BY <1>1, FS_Interval, Zenon
<1> QED  BY <1>2, FS_Subset, FS_CardinalityType

\* The places of a set can be counted off: before one of them there are k - 1.
LEMMA CountedOff ==
    ASSUME NEW N \in Nat, NEW P \in SUBSET (1 .. N), NEW k \in 1 .. Cardinality(P)
    PROVE  \E n \in P : Cardinality({m \in P : m < n}) = k - 1
<1> DEFINE Below(x) == {m \in P : m < x}
           Far == {x \in Nat : Cardinality(Below(x)) >= k}
<1>0. \A m \in P : m \in Nat /\ 0 < m /\ m < N + 1
  OBVIOUS
<1>1. IsFiniteSet(P) /\ Cardinality(P) \in Nat
  BY PlacesFinite
<1>2. ASSUME NEW x \in Nat PROVE IsFiniteSet(Below(x)) /\ Cardinality(Below(x)) \in Nat
  <2>1. Below(x) \in SUBSET P
    OBVIOUS
  <2> QED  BY <1>1, <2>1, FS_Subset, FS_CardinalityType
<1>3. ASSUME NEW x \in Nat
      PROVE  Cardinality(Below(x + 1)) =
               IF x \in P THEN Cardinality(Below(x)) + 1 ELSE Cardinality(Below(x))
  <2>0. \A m \in P : m < x + 1 <=> m < x \/ m = x
    BY <1>0
  <2>1. CASE x \in P
    <3>1. Below(x + 1) = Below(x) \union {x}
      BY <2>0, <2>1
    <3>2. x \notin Below(x)
      OBVIOUS
    <3> HIDE DEF Below
    <3> QED  BY <1>2, <2>1, <3>1, <3>2, FS_AddElement
  <2>2. CASE x \notin P
    <3>1. Below(x + 1) = Below(x)
      BY <2>0, <2>2
    <3> QED  BY <2>2, <3>1
  <2> QED  BY <2>1, <2>2
<1>4. N + 1 \in Far
  <2>1. Below(N + 1) = P
    BY <1>0
  <2>2. Cardinality(P) >= k
    BY <1>1
  <2> HIDE DEF Below
  <2>3. Cardinality(Below(N + 1)) >= k /\ N + 1 \in Nat
    BY <2>1, <2>2
  <2> QED  BY <2>3
<1>5. PICK x \in Far : \A y \in Far : x <= y
  BY <1>4, LeastExists
<1>6. x # 0
  <2>1. \A m \in P : ~ (m < 0)
    BY <1>0
  <2>2. Below(0) = {}
    BY <2>1
  <2>3. Cardinality(Below(0)) = 0
    BY <2>2, FS_EmptySet
  <2> QED  BY <2>3
<1> DEFINE n == x - 1
<1>7. n \in Nat /\ n + 1 = x /\ n \notin Far
  BY <1>5, <1>6
<1> HIDE DEF Below
<1>8. Cardinality(Below(n)) < k /\ Cardinality(Below(n + 1)) >= k
  BY <1>2, <1>5, <1>7
<1> HIDE DEF n
<1>9. n \in P /\ Cardinality(Below(n)) = k - 1
  BY <1>2, <1>3, <1>7, <1>8
<1> QED  BY <1>9 DEF Below

LEMMA TelltaleType ==
    ASSUME NEW s \in Seq(Lines)
    PROVE  Telltale(s) \in Seq(Lines)
<1> DEFINE telling == {n \in 1 .. Len(s) : s[n].age # "old" /\ s[n].cause # "permission"}
           Place(k) == CHOOSE n \in telling : Cardinality({m \in telling : m < n}) = k - 1
<1>1. Len(s) \in Nat /\ telling \in SUBSET (1 .. Len(s))
  OBVIOUS
<1>2. Cardinality(telling) \in Nat
  BY <1>1, PlacesFinite
<1>3. Telltale(s) = IF telling = DOMAIN s THEN s
                    ELSE [k \in 1 .. Cardinality(telling) |-> s[Place(k)]]
  BY DEF Telltale
<1> HIDE DEF telling
<1>4. ASSUME NEW k \in 1 .. Cardinality(telling) PROVE s[Place(k)] \in Lines
  <2>1. \E n \in telling : Cardinality({m \in telling : m < n}) = k - 1
    BY <1>1, CountedOff
  <2>2. (CHOOSE n \in telling : Cardinality({m \in telling : m < n}) = k - 1) \in telling
    BY <2>1, Zenon
  <2>3. Place(k) \in telling
    BY <2>2, Zenon
  <2> HIDE DEF Place
  <2>4. Place(k) \in 1 .. Len(s)
    BY <1>1, <2>3
  <2> QED  BY <2>4
<1> HIDE DEF Place
<1> QED  BY <1>2, <1>3, <1>4

LEMMA OlderType ==
    ASSUME NEW s \in Seq(Lines)
    PROVE  Older(s) \in Seq(Lines)
<1>1. ASSUME NEW n \in 1 .. Len(s)
      PROVE  [s[n] EXCEPT !.age = IF @ = "new" THEN "recent" ELSE "old"] \in Lines
  <2>1. s[n] \in Lines
    OBVIOUS
  <2>2. \A a \in {"recent", "old"} : [s[n] EXCEPT !.age = a] \in Lines
    BY <2>1 DEF Lines
  <2> QED  BY <2>2
<1> QED  BY <1>1 DEF Older

LEMMA SuffixType ==
    ASSUME NEW s \in Seq(Lines), NEW w \in Suffixes(s)
    PROVE  w \in Seq(Lines)
<1>1. PICK n \in 1 .. Len(s) + 1 : w = SubSeq(s, n, Len(s))
  BY DEF Suffixes
<1>2. n \in Int /\ Len(s) \in Int /\ \A m \in n .. Len(s) : s[m] \in Lines
  OBVIOUS
<1> QED  BY <1>1, <1>2, SubSeqProperties

---------------------------------------------------------------------------
(* Types.                                                                  *)

Log == window \in Seq(Lines)
JobTypes == status \in [Items -> Job!Statuses] /\ target \in [Items -> Job!Files]
Counters == polls \in 0 .. MaxPolls - 1 /\ streak \in 0 .. FailureLimit - 1
\* No run starts with more failures on record than exclude an item.
Bounded == before \in [Items -> 0 .. SkipAfter]

Types == Log /\ JobTypes /\ Counters /\ Bounded /\ cooldown \in BOOLEAN

\* No item fails more often than SkipAfter times, since the runs count at most one.
LEMMA AttemptsBounded ==
    ASSUME Inv, Bounded
    PROVE  attempts \in [Items -> 0 .. SkipAfter]
<1>1. SkipAfter \in Nat /\ attempts \in [Items -> Nat] /\ before \in [Items -> Nat]
  BY BacklogAssumption DEF Inv, Numbers
<1>2. ASSUME NEW i \in Items PROVE attempts[i] \in 0 .. SkipAfter
  <2>1. before[i] <= SkipAfter /\ attempts[i] \in Nat /\ before[i] \in Nat
    BY <1>1 DEF Bounded
  <2>2. attempts[i] <= before[i] + 1 /\ (before[i] >= SkipAfter => attempts[i] <= before[i])
    BY DEF Inv, ExcludedAfterSeparateRuns
  <2> QED  BY <1>1, <2>1, <2>2
<1> QED  BY <1>1, <1>2

LEMMA TypesImplyTypeOK == Inv /\ Types => TypeOK
<1> SUFFICES ASSUME Inv, Types PROVE TypeOK
  OBVIOUS
<1>1. item \in Items \union {NoItem}
  BY WantedItems DEF Inv, Places
<1>2. /\ run \in Kinds \union {"idle"}
      /\ todo \subseteq IF run = "idle" THEN {} ELSE DOMAIN Wanted[run]
  BY DEF Inv, Places
<1>3. attempts \in [Items -> 0 .. SkipAfter]
  BY AttemptsBounded DEF Types
<1>4. cooldown \in BOOLEAN
  BY DEF Types
<1> QED  BY <1>1, <1>2, <1>3, <1>4 DEF Types, Log, JobTypes, Counters, TypeOK

LEMMA TypesInit == Init => Types
<1> SUFFICES ASSUME Init PROVE Types
  OBVIOUS
<1>1. {SkipAfter, FailureLimit, MaxPolls} \subseteq Nat \ {0}
  BY BacklogAssumption
<1>2. Log /\ Counters
  BY <1>1 DEF Init, Log, Counters
<1>3. JobTypes
  BY DEF Init, JobTypes, Job!Statuses, Job!Files
<1>4. Bounded
  BY <1>1 DEF Init, Bounded
<1>5. cooldown \in BOOLEAN
  BY DEF Init
<1> QED  BY <1>2, <1>3, <1>4, <1>5 DEF Types

\* A job that moves on stays within what jobs and files can be.
LEMMA MoveTypes ==
    ASSUME JobTypes, NEW i \in Items, NEW from, NEW to \in Job!Statuses, NEW f \in Job!Files,
           Job!Move(i, from, to, f)
    PROVE  JobTypes'
BY DEF JobTypes, Job!Move

LEMMA JobStepTypes ==
    ASSUME JobTypes, NEW i \in Items,
           Job!Start(i) \/ Job!Refuse(i) \/ Job!Open(i) \/ Job!Succeed(i) \/ Job!Fail(i)
             \/ Job!EndEarly(i)
    PROVE  JobTypes'
<1>1. target[i] \in Job!Files
  BY DEF JobTypes
<1>2. /\ \A c \in Job!Causes : c \in Job!Statuses
      /\ "permission" \in Job!Causes /\ "other" \in Job!Causes
      /\ "starting" \in Job!Statuses /\ "working" \in Job!Statuses /\ "ok" \in Job!Statuses
      /\ "none" \in Job!Files /\ "empty" \in Job!Files /\ "part" \in Job!Files
      /\ "new" \in Job!Files
  BY DEF Job!Statuses, Job!Running, Job!Causes, Job!Files
<1>3. \E from, to, f : to \in Job!Statuses /\ f \in Job!Files /\ Job!Move(i, from, to, f)
  <2>1. CASE Job!Start(i)
    BY <1>1, <1>2, <2>1 DEF Job!Start
  <2>2. CASE Job!Refuse(i)
    BY <1>1, <1>2, <2>2 DEF Job!Refuse
  <2>3. CASE Job!Open(i) \/ Job!Succeed(i)
    BY <1>1, <1>2, <2>3 DEF Job!Open, Job!Succeed
  <2>4. CASE Job!Fail(i)
    BY <1>1, <1>2, <2>4 DEF Job!Fail
  <2>5. CASE Job!EndEarly(i)
    BY <1>1, <1>2, <2>5 DEF Job!EndEarly
  <2> QED  BY <2>1, <2>2, <2>3, <2>4, <2>5
<1> QED  BY <1>3, MoveTypes

LEMMA LogStep ==
    ASSUME Inv, Log, [Next]_vars
    PROVE  Log'
<1> USE DEF Log, jobVars
<1>1. /\ window \in Seq(Lines) /\ Telltale(window) \in Seq(Lines)
      /\ Older(window) \in Seq(Lines)
  BY TelltaleType, OlderType
<1>2. Telltale(Older(window)) \in Seq(Lines)
  BY <1>1, TelltaleType
<1>3. CASE StartRun \/ NextKind \/ Killed
  BY <1>3 DEF StartRun, NextKind, Killed
<1>4. ASSUME NEW n \in todo, Skip(n) \/ RequestFails(n) PROVE Log'
  BY <1>4 DEF Skip, RequestFails
<1>5. ASSUME NEW n \in todo, Request(n) PROVE Log'
  <2>1. Wanted[run][n] \in Items
    BY <1>5, WantedItems DEF Inv, Places, Request, Up, Busy
  <2>2. [cause |-> "permission", item |-> Wanted[run][n], age |-> "new"] \in Lines
    BY <2>1 DEF Lines
  <2>3. PICK w \in Suffixes(Telltale(window)) :
           \/ window' = Append(w, [cause |-> "permission", item |-> Wanted[run][n], age |-> "new"])
           \/ window' = w
    BY <1>5 DEF Request
  <2>4. w \in Seq(Lines)
    BY <1>1, SuffixType
  <2>5. window' \in Seq(Lines)
    BY <2>2, <2>3, <2>4
  <2> QED  BY <1>5, <2>5 DEF Request
<1>6. CASE PollFinds \/ PollDies \/ PollRateLimited \/ PollUnreadable \/ PollMalformed
           \/ PollNothing
  BY <1>1, <1>2, <1>6
     DEF PollFinds, PollDies, PollRateLimited, PollUnreadable, PollMalformed, PollNothing, Looks
<1>7. CASE NewDay
  BY <1>7 DEF NewDay
<1>8. ASSUME NEW i \in Items, JobOpens(i) \/ JobSucceeds(i) \/ JobEndsEarly(i) PROVE Log'
  BY <1>1, <1>8 DEF JobOpens, JobSucceeds, JobEndsEarly
<1>9. ASSUME NEW i \in Items, JobFails(i) PROVE Log'
  <2>1. \A c \in {"rate_limited", "malformed"} :
           <<[cause |-> c, item |-> NoItem, age |-> "new"]>> \in Seq(Lines)
    BY DEF Lines
  <2> QED  BY <1>9, <2>1 DEF JobFails, Logs
<1>10. CASE UNCHANGED vars
  BY <1>10 DEF vars
<1> QED  BY <1>3, <1>4, <1>5, <1>6, <1>7, <1>8, <1>9, <1>10 DEF Next, ScriptStep

LEMMA JobTypesStep ==
    ASSUME Inv, JobTypes, [Next]_vars
    PROVE  JobTypes'
<1>1. ASSUME UNCHANGED <<status, target>> PROVE JobTypes'
  BY <1>1 DEF JobTypes
<1> USE DEF jobVars
<1>2. CASE StartRun \/ NextKind \/ Killed \/ NewDay
  BY <1>1, <1>2 DEF StartRun, NextKind, Killed, NewDay
<1>3. ASSUME NEW n \in todo, Skip(n) \/ RequestFails(n) PROVE JobTypes'
  BY <1>1, <1>3 DEF Skip, RequestFails
<1>4. ASSUME NEW n \in todo, Request(n) PROVE JobTypes'
  <2>1. Wanted[run][n] \in Items
    BY <1>4, WantedItems DEF Inv, Places, Request, Up, Busy
  <2>2. \/ Job!Refuse(Wanted[run][n]) \/ Job!Start(Wanted[run][n])
        \/ UNCHANGED <<status, target>>
    BY <1>4 DEF Request
  <2> QED  BY <1>1, <2>1, <2>2, JobStepTypes
<1>5. CASE PollFinds \/ PollDies \/ PollRateLimited \/ PollUnreadable \/ PollMalformed
           \/ PollNothing
  BY <1>1, <1>5 DEF PollFinds, PollDies, PollRateLimited, PollUnreadable, PollMalformed,
                         PollNothing, Looks
<1>6. ASSUME NEW i \in Items,
             JobOpens(i) \/ JobSucceeds(i) \/ JobFails(i) \/ JobEndsEarly(i)
      PROVE  JobTypes'
  BY <1>6, JobStepTypes DEF JobOpens, JobSucceeds, JobFails, JobEndsEarly
<1>7. CASE UNCHANGED vars
  BY <1>1, <1>7 DEF vars
<1> QED  BY <1>2, <1>3, <1>4, <1>5, <1>6, <1>7 DEF Next, ScriptStep

LEMMA CountersStep ==
    ASSUME Counters, [Next]_vars
    PROVE  Counters'
<1> USE DEF Counters, runVars
<1>1. FailureLimit \in Nat \ {0} /\ MaxPolls \in Nat \ {0}
  BY BacklogAssumption
<1>2. CASE StartRun \/ NextKind \/ Killed \/ NewDay
  BY <1>1, <1>2 DEF StartRun, NextKind, Killed, NewDay, Stop
<1>3. ASSUME NEW n \in todo, Skip(n) \/ Request(n) \/ RequestFails(n) PROVE Counters'
  BY <1>1, <1>3 DEF Skip, Request, RequestFails, Passed, Stop
<1>4. CASE PollFinds \/ PollDies \/ PollRateLimited \/ PollUnreadable \/ PollMalformed
           \/ PollNothing
  <2>1. \/ polls' = 0 /\ streak' = 0
        \/ polls' = 0 /\ streak' = streak + 1 /\ ~ (streak + 1 >= FailureLimit)
        \/ polls' = polls + 1 /\ polls + 1 < MaxPolls /\ streak' = streak
    BY <1>4 DEF PollFinds, PollDies, PollRateLimited, PollUnreadable, PollMalformed,
                PollNothing, Passed, Failed, Stop
  <2> QED  BY <1>1, <2>1
<1>6. ASSUME NEW i \in Items,
             JobOpens(i) \/ JobSucceeds(i) \/ JobFails(i) \/ JobEndsEarly(i)
      PROVE  Counters'
  BY <1>6 DEF JobOpens, JobSucceeds, JobFails, JobEndsEarly
<1>7. CASE UNCHANGED vars
  BY <1>7 DEF vars
<1> QED  BY <1>2, <1>3, <1>4, <1>6, <1>7 DEF Next, ScriptStep

\* Only the start of a run looks at the blocklist anew.
LEMMA BoundedStep ==
    ASSUME Inv, Bounded, [Next]_vars
    PROVE  Bounded'
<1>1. CASE StartRun
  BY <1>1, AttemptsBounded DEF StartRun, Bounded
<1>2. ~ StartRun => before' = before
  BY DEF Next, ScriptStep, NextKind, Skip, Request, RequestFails, PollFinds, PollDies,
         PollRateLimited, PollUnreadable, PollMalformed, PollNothing, Looks, Killed, NewDay,
         JobOpens, JobSucceeds, JobFails, JobEndsEarly, vars, ghosts
<1> QED  BY <1>1, <1>2 DEF Bounded

LEMMA CooldownStep ==
    ASSUME cooldown \in BOOLEAN, [Next]_vars
    PROVE  cooldown' \in BOOLEAN
<1>1. cooldown' \in {TRUE, FALSE, cooldown}
  BY DEF Next, ScriptStep, StartRun, NextKind, Skip, Request, RequestFails, PollFinds, PollDies,
         PollRateLimited, PollUnreadable, PollMalformed, PollNothing, Killed, NewDay, JobOpens,
         JobSucceeds, JobFails, JobEndsEarly, vars, fileVars
<1> QED  BY <1>1

\* Type correctness of the jobs, the log's window, the worklist and the files; with
\* it, no item fails more than SKIP_AFTER_ATTEMPTS times.
THEOREM Typing == Spec => []TypeOK
<1>1. Init => Inv /\ Resting /\ Types
  BY InvInit, RestingInit, TypesInit
<1>2. Inv /\ Resting /\ Types /\ [Next]_vars => (Inv /\ Resting /\ Types)'
  <2> SUFFICES ASSUME Inv, Resting, Types, [Next]_vars PROVE Inv' /\ Resting' /\ Types'
    OBVIOUS
  <2>1. Inv' /\ Resting'
    BY InvStep, RestingStep
  <2>2. Log' /\ JobTypes' /\ Counters' /\ Bounded' /\ cooldown' \in BOOLEAN
    BY LogStep, JobTypesStep, CountersStep, BoundedStep, CooldownStep DEF Types
  <2> QED  BY <2>1, <2>2 DEF Types
<1>3. Inv /\ Types => TypeOK
  BY TypesImplyTypeOK
<1> QED  BY <1>1, <1>2, <1>3, PTL DEF Spec

---------------------------------------------------------------------------
(* The jobs.                                                               *)

\* Whatever the script and the days do, jobs and files go through the states of
\* TranslationJob, which GeminiTranslator implements: a kill of the script, a give-up
\* or midnight changes no job, and no second job is started beside a running one.
THEOREM JobsTheorem == Spec => Job!Spec
<1>1. Init => Job!Init
  BY DEF Init, Job!Init
<1>2. Init => Inv /\ Resting
  BY InvInit, RestingInit
<1>3. Inv /\ Resting /\ [Next]_vars => (Inv /\ Resting)'
  BY InvStep, RestingStep
<1>4. Inv /\ [Next]_vars => [Job!Next]_Job!jobVars
  <2> SUFFICES ASSUME Inv, [Next]_vars PROVE Job!Next \/ UNCHANGED jobVars
    BY DEF jobVars, Job!jobVars
  <2>1. CASE StartRun \/ NextKind \/ Killed \/ NewDay
    BY <2>1 DEF StartRun, NextKind, Killed, NewDay
  <2>2. ASSUME NEW n \in todo, Skip(n) \/ RequestFails(n) PROVE UNCHANGED jobVars
    BY <2>2 DEF Skip, RequestFails
  <2>3. ASSUME NEW n \in todo, Request(n) PROVE Job!Next \/ UNCHANGED jobVars
    <3>1. Wanted[run][n] \in Items
      BY <2>3, WantedItems DEF Inv, Places, Request, Up, Busy
    <3>2. Job!Refuse(Wanted[run][n]) \/ Job!Start(Wanted[run][n]) \/ UNCHANGED jobVars
      BY <2>3 DEF Request
    <3> QED  BY <3>1, <3>2 DEF Job!Next
  <2>4. CASE PollFinds \/ PollDies \/ PollRateLimited \/ PollUnreadable \/ PollMalformed
           \/ PollNothing
    BY <2>4
       DEF PollFinds, PollDies, PollRateLimited, PollUnreadable, PollMalformed, PollNothing,
           Looks
  <2>5. ASSUME NEW i \in Items,
               JobOpens(i) \/ JobSucceeds(i) \/ JobFails(i) \/ JobEndsEarly(i)
        PROVE  Job!Next
    BY <2>5 DEF JobOpens, JobSucceeds, JobFails, JobEndsEarly, Job!Next, Job!Step
  <2>6. CASE UNCHANGED vars
    BY <2>6 DEF vars
  <2> QED  BY <2>1, <2>2, <2>3, <2>4, <2>5, <2>6 DEF Next, ScriptStep
<1> QED  BY <1>1, <1>2, <1>3, <1>4, PTL DEF Spec, Job!Spec
=============================================================================
