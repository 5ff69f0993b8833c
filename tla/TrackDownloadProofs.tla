------------------------- MODULE TrackDownloadProofs -------------------------
(***************************************************************************)
(* Theorems about TrackDownload, for any finite set of uploads, any lengths *)
(* and any number of changes of the setting: typing, that no temp file is  *)
(* forgotten, that the file kept is sound, and that the last resort is the *)
(* nearest of all that were offered for it.                                *)
(***************************************************************************)
EXTENDS TrackDownload, SequenceTheorems, FiniteSetTheorems, TLAPS

InWork == {"fetch", "measure", "verify", "keep"}

\* The candidates that were tried.
Past == {cands[i] : i \in 1 .. (pos - 1)}

---------------------------------------------------------------------------
(* The inductive invariants.                                               *)

\* The position is on the list or just behind it; on it while one is tried.
Bounded ==
    /\ pc = "start" => cands = <<>> /\ pos = 1
    /\ pos <= Len(cands) + 1
    /\ pc \in InWork => pos <= Len(cands)

TypeInv == TypeOK /\ Bounded

\* No upload is on the list twice, and what was banned or held was tried before.
Distinct == \A i, j \in 1 .. Len(cands) : cands[i] = cands[j] => i = j

Tried ==
    /\ banned \subseteq Past
    /\ offered \subseteq Past
    /\ Held \ {NoCandidate} \subseteq Past

\* c was not measured as too short even for a shorter cut.
LongEnough(c) ==
    length[c] > 0 /\ Expected > 0 =>
        length[c] >= Expected - Tolerance \/ 4 * length[c] >= 3 * Expected

HeldSound == \A c \in Held \ {NoCandidate} : c \notin banned /\ LongEnough(c)

\* The held file is the nearest of those offered, if there were any.
HeldNearest ==
    pc # "end" =>
        /\ heldF.cand = NoCandidate => offered = {}
        /\ heldF.cand # NoCandidate =>
              /\ heldF.diff = Diff(heldF.cand)
              /\ \A c \in offered : heldF.diff <= Diff(c)

\* What is known of the current candidate at each stage of its trial: its length,
\* and whether its match score lets it be kept.
Fits ==
    pc \in {"verify", "keep"} =>
        /\ LongEnough(Current)
        /\ ~ short /\ length[Current] > 0 /\ Expected > 0 =>
              length[Current] >= Expected - Tolerance

Gated ==
    /\ toggles = 0 /\ pc \notin {"start", "end"} => will = ShouldVerify
    /\ pc \in InWork /\ ~ will => Current \notin LowScore
    /\ pc = "keep" =>
          /\ how \in {"verified", "acoustid error", "official", "not verifiable"}
          /\ how = "official" => Current = official
          /\ toggles = 0 /\ how = "not verifiable" => Current \notin LowScore
    /\ pc = "redownload" => bestU # NoCandidate /\ GoodScore(bestU)

Undecided == pc # "end" => status = "pending" /\ kept = NullKept /\ failures = 0

---------------------------------------------------------------------------
(* The list of candidates.                                                 *)

\* A search returns uploads it was asked for, each once.
LEMMA ResultsAreLists ==
    ASSUME NEW S \in SUBSET Candidates, NEW s \in Results(S)
    PROVE  /\ s \in Seq(S)
           /\ \A i, j \in 1 .. Len(s) : s[i] = s[j] => i = j
<1>1. PICK T \in SUBSET S : s \in SetToSeqs(T)
  BY DEF Results
<1>2. Cardinality(T) \in Nat
  BY CandidatesAssumption, FS_Subset, FS_CardinalityType
<1>3. s \in [1 .. Cardinality(T) -> T]
  BY <1>1 DEF SetToSeqs
<1>4. \A i, j \in 1 .. Cardinality(T) : i # j => s[i] # s[j]
  BY <1>1 DEF SetToSeqs
<1>5. s \in Seq(T) /\ Len(s) = Cardinality(T)
  BY <1>2, <1>3
<1>6. s \in Seq(S)
  BY <1>5
<1>. QED
  BY <1>4, <1>5, <1>6

---------------------------------------------------------------------------
(* Typing.  TypeOK in four parts: control, switches, the list and the files. *)

TypeControl ==
    /\ pc \in {"start", "loop", "fetch", "measure", "verify", "keep", "endgame",
               "redownload", "end"}
    /\ status \in {"pending", "done", "failed", "skipped", "interrupted"}
    /\ flag \in {"none", "skip", "stop"}
    /\ toggles \in 0 .. MaxToggles /\ how \in Reasons
    /\ kept.cand \in Candidates \cup {NoCandidate} /\ kept.how \in Reasons
    /\ failures \in Nat

TypeSwitches ==
    /\ acoustid \in BOOLEAN /\ will \in BOOLEAN /\ searched \in BOOLEAN
    /\ short \in BOOLEAN /\ diskFull \in BOOLEAN /\ paused \in BOOLEAN

TypeList ==
    /\ official \in Candidates \cup {NoCandidate}
    /\ cands \in Seq(Candidates) /\ pos \in Nat \ {0}
    /\ Bounded

TypeFiles ==
    /\ temps \subseteq Candidates /\ banned \subseteq Candidates
    /\ length \in [Candidates -> Lengths \cup {-1}]
    /\ bestU \in Candidates \cup {NoCandidate}
    /\ heldF.cand \in Candidates \cup {NoCandidate} /\ heldF.diff \in Nat
    /\ offered \subseteq Candidates /\ noted \subseteq Candidates

LEMMA TypeParts ==
    /\ TypeInv <=> TypeControl /\ TypeSwitches /\ TypeList /\ TypeFiles
    /\ TypeInv' <=> TypeControl' /\ TypeSwitches' /\ TypeList' /\ TypeFiles'
<1>1. TypeInv <=> TypeControl /\ TypeSwitches /\ TypeList /\ TypeFiles
  BY DEF TypeInv, TypeOK, TypeControl, TypeSwitches, TypeList, TypeFiles
<1>2. TypeInv' <=> TypeControl' /\ TypeSwitches' /\ TypeList' /\ TypeFiles'
  BY DEF TypeInv, TypeOK, TypeControl, TypeSwitches, TypeList, TypeFiles
<1>. QED
  BY <1>1, <1>2

\* While a candidate is tried, it is one.
LEMMA CurrentIsUpload == TypeList /\ pc \in InWork => Current \in Candidates
  BY DEF TypeList, Bounded, Current

LEMMA DiffIsNat ==
    ASSUME TypeFiles, NEW c \in Candidates
    PROVE  Diff(c) \in Nat
<1>1. length[c] \in Lengths \cup {-1}
  BY DEF TypeFiles
<1>2. \A l \in Lengths : l \in Int
  BY LengthsAssumption
<1>3. -1 \in Int
  OBVIOUS
<1>4. length[c] \in Int
  BY <1>1, <1>2, <1>3
<1>. QED
  BY <1>4, LengthsAssumption DEF Diff

LEMMA TypeControlStep == TypeControl /\ TypeList /\ TypeFiles /\ [Next]_vars => TypeControl'
<1>. SUFFICES ASSUME TypeControl /\ TypeList /\ TypeFiles, [Next]_vars PROVE TypeControl'
  OBVIOUS
<1>. USE DEF TypeControl
<1>. USE DEF settings, list, files, results
<1>1. CASE Begin
  BY <1>1 DEF Begin
<1>2. CASE SkippedAtOnce
  BY <1>2 DEF SkippedAtOnce, End
<1>3. CASE Extend
  BY <1>3 DEF Extend
<1>4. CASE Exhausted
  BY <1>4 DEF Exhausted
<1>5. CASE SkippedInLoop
  BY <1>5 DEF SkippedInLoop, End
<1>6. CASE RejectLowScore
  BY <1>6 DEF RejectLowScore
<1>7. CASE Try
  BY <1>7 DEF Try
<1>8. CASE LiveStream
  BY <1>8 DEF LiveStream, NextCandidate
<1>9. CASE DownloadSkipped
  BY <1>9 DEF DownloadSkipped, End
<1>10. CASE Downloaded
  BY <1>10 DEF Downloaded
<1>11. CASE \E full \in BOOLEAN : DownloadFailed(full)
  BY <1>11 DEF DownloadFailed, NextCandidate
<1>12. CASE \E full \in BOOLEAN : PostprocessError(full)
  BY <1>12 DEF PostprocessError
<1>13. CASE \E real, listed \in Lengths : RejectShort(real, listed)
  BY <1>13 DEF RejectShort, NextCandidate
<1>14. CASE \E real, listed \in Lengths : Measured(real, listed)
  BY <1>14 DEF Measured
<1>15. CASE \E why \in {"verified", "acoustid error", "official"} : Confirmed(why)
  BY <1>15 DEF Confirmed, Keep, Reasons
<1>16. CASE NotVerifiable
  BY <1>16 DEF NotVerifiable, Keep, Reasons
<1>17. CASE HoldOtherRecording
  BY <1>17 DEF HoldOtherRecording, NextCandidate, HoldFallback
<1>18. CASE Mismatch
  BY <1>18 DEF Mismatch, NextCandidate
<1>19. CASE Unverified
  BY <1>19 DEF Unverified, NextCandidate
<1>20. CASE HoldShortCut
  BY <1>20 DEF HoldShortCut, NextCandidate, HoldFallback
<1>21. CASE KeepCandidate
  BY <1>21, CurrentIsUpload DEF KeepCandidate, End, Accept, InWork
<1>22. CASE KeepLastResort
  BY <1>22, TypeFiles DEF KeepLastResort, End, Accept, TypeFiles, Reasons
<1>23. CASE KeepUnverified
  BY <1>23, TypeFiles DEF KeepUnverified, End, Accept, TypeFiles, Reasons
<1>24. CASE Redownload
  BY <1>24 DEF Redownload
<1>25. CASE RedownloadSkipped
  BY <1>25 DEF RedownloadSkipped, End
<1>26. CASE Redownloaded
  BY <1>26, TypeFiles DEF Redownloaded, End, Accept, TypeFiles, Reasons
<1>27. CASE RedownloadFailed
  BY <1>27 DEF RedownloadFailed, End, Fail
<1>28. CASE GiveUp
  BY <1>28 DEF GiveUp, End, Fail
<1>29. CASE InternalError
  BY <1>29 DEF InternalError, End
<1>30. CASE \E f \in {"skip", "stop"} : UserFlag(f)
  BY <1>30 DEF UserFlag
<1>31. CASE ToggleAcoustid
  BY <1>31, SettingsAssumption DEF ToggleAcoustid
<1>32. CASE HeldFileGone
  BY <1>32 DEF HeldFileGone
<1>33. CASE UNCHANGED vars
  BY <1>33 DEF vars
<1>. QED
  BY <1>1, <1>2, <1>3, <1>4, <1>5, <1>6, <1>7, <1>8, <1>9, <1>10, <1>11, <1>12, <1>13,
     <1>14, <1>15, <1>16, <1>17, <1>18, <1>19, <1>20, <1>21, <1>22, <1>23, <1>24, <1>25,
     <1>26, <1>27, <1>28, <1>29, <1>30, <1>31, <1>32, <1>33 DEF Next, Worker

LEMMA TypeSwitchesStep == TypeSwitches /\ [Next]_vars => TypeSwitches'
<1>. SUFFICES ASSUME TypeSwitches, [Next]_vars PROVE TypeSwitches'
  OBVIOUS
<1>. USE SettingsAssumption
<1>. USE DEF TypeSwitches
<1>. USE DEF settings, list, files, results
<1>1. CASE Begin
  BY <1>1 DEF Begin
<1>2. CASE SkippedAtOnce
  BY <1>2 DEF SkippedAtOnce, End
<1>3. CASE Extend
  BY <1>3 DEF Extend
<1>4. CASE Exhausted
  BY <1>4 DEF Exhausted
<1>5. CASE SkippedInLoop
  BY <1>5 DEF SkippedInLoop, End
<1>6. CASE RejectLowScore
  BY <1>6 DEF RejectLowScore
<1>7. CASE Try
  BY <1>7 DEF Try
<1>8. CASE LiveStream
  BY <1>8 DEF LiveStream, NextCandidate
<1>9. CASE DownloadSkipped
  BY <1>9 DEF DownloadSkipped, End
<1>10. CASE Downloaded
  BY <1>10 DEF Downloaded
<1>11. CASE \E full \in BOOLEAN : DownloadFailed(full)
  BY <1>11 DEF DownloadFailed, NextCandidate
<1>12. CASE \E full \in BOOLEAN : PostprocessError(full)
  BY <1>12 DEF PostprocessError
<1>13. CASE \E real, listed \in Lengths : RejectShort(real, listed)
  BY <1>13 DEF RejectShort, NextCandidate
<1>14. CASE \E real, listed \in Lengths : Measured(real, listed)
  BY <1>14 DEF Measured, TooShort
<1>15. CASE \E why \in {"verified", "acoustid error", "official"} : Confirmed(why)
  BY <1>15 DEF Confirmed, Keep
<1>16. CASE NotVerifiable
  BY <1>16 DEF NotVerifiable, Keep
<1>17. CASE HoldOtherRecording
  BY <1>17 DEF HoldOtherRecording, NextCandidate, HoldFallback
<1>18. CASE Mismatch
  BY <1>18 DEF Mismatch, NextCandidate
<1>19. CASE Unverified
  BY <1>19 DEF Unverified, NextCandidate
<1>20. CASE HoldShortCut
  BY <1>20 DEF HoldShortCut, NextCandidate, HoldFallback
<1>21. CASE KeepCandidate
  BY <1>21 DEF KeepCandidate, End, Accept
<1>22. CASE KeepLastResort
  BY <1>22 DEF KeepLastResort, End, Accept
<1>23. CASE KeepUnverified
  BY <1>23 DEF KeepUnverified, End, Accept
<1>24. CASE Redownload
  BY <1>24 DEF Redownload
<1>25. CASE RedownloadSkipped
  BY <1>25 DEF RedownloadSkipped, End
<1>26. CASE Redownloaded
  BY <1>26 DEF Redownloaded, End, Accept
<1>27. CASE RedownloadFailed
  BY <1>27 DEF RedownloadFailed, End, Fail
<1>28. CASE GiveUp
  BY <1>28 DEF GiveUp, End, Fail
<1>29. CASE InternalError
  BY <1>29 DEF InternalError, End
<1>30. CASE \E f \in {"skip", "stop"} : UserFlag(f)
  BY <1>30 DEF UserFlag
<1>31. CASE ToggleAcoustid
  BY <1>31 DEF ToggleAcoustid
<1>32. CASE HeldFileGone
  BY <1>32 DEF HeldFileGone
<1>33. CASE UNCHANGED vars
  BY <1>33 DEF vars
<1>. QED
  BY <1>1, <1>2, <1>3, <1>4, <1>5, <1>6, <1>7, <1>8, <1>9, <1>10, <1>11, <1>12, <1>13,
     <1>14, <1>15, <1>16, <1>17, <1>18, <1>19, <1>20, <1>21, <1>22, <1>23, <1>24, <1>25,
     <1>26, <1>27, <1>28, <1>29, <1>30, <1>31, <1>32, <1>33 DEF Next, Worker

LEMMA TypeListStep == TypeList /\ [Next]_vars => TypeList'
<1>. SUFFICES ASSUME TypeList, [Next]_vars PROVE TypeList'
  OBVIOUS
<1>. USE DEF TypeList, Bounded, InWork
<1>. USE DEF settings, list, files, results
<1>1. CASE Begin
  <2>1. \A s \in Results(Candidates) : s \in Seq(Candidates)
    BY ResultsAreLists
  <2>2. \A c \in Candidates : <<c>> \in Seq(Candidates)
    OBVIOUS
  <2>3. official \in Candidates \/ official = NoCandidate
    OBVIOUS
  <2>4. cands' \in Seq(Candidates)
    BY <1>1, <2>1, <2>2, <2>3 DEF Begin
  <2>. QED
    BY <1>1, <2>4 DEF Begin
<1>2. CASE SkippedAtOnce
  BY <1>2 DEF SkippedAtOnce, End
<1>3. CASE Extend
  BY <1>3, ResultsAreLists DEF Extend, Untried
<1>4. CASE Exhausted
  BY <1>4 DEF Exhausted
<1>5. CASE SkippedInLoop
  BY <1>5 DEF SkippedInLoop, End
<1>6. CASE RejectLowScore
  BY <1>6 DEF RejectLowScore
<1>7. CASE Try
  BY <1>7 DEF Try
<1>8. CASE LiveStream
  BY <1>8 DEF LiveStream, NextCandidate, Current
<1>9. CASE DownloadSkipped
  BY <1>9 DEF DownloadSkipped, End
<1>10. CASE Downloaded
  BY <1>10 DEF Downloaded, Current
<1>11. CASE \E full \in BOOLEAN : DownloadFailed(full)
  BY <1>11 DEF DownloadFailed, NextCandidate
<1>12. CASE \E full \in BOOLEAN : PostprocessError(full)
  BY <1>12 DEF PostprocessError
<1>13. CASE \E real, listed \in Lengths : RejectShort(real, listed)
  BY <1>13 DEF RejectShort, NextCandidate, Current
<1>14. CASE \E real, listed \in Lengths : Measured(real, listed)
  BY <1>14 DEF Measured, Current
<1>15. CASE \E why \in {"verified", "acoustid error", "official"} : Confirmed(why)
  BY <1>15 DEF Confirmed, Keep
<1>16. CASE NotVerifiable
  BY <1>16 DEF NotVerifiable, Keep, Current
<1>17. CASE HoldOtherRecording
  BY <1>17 DEF HoldOtherRecording, NextCandidate, HoldFallback, Current, Diff, HeldIsBetter
<1>18. CASE Mismatch
  BY <1>18 DEF Mismatch, NextCandidate, Current, BestAfterMismatch
<1>19. CASE Unverified
  BY <1>19 DEF Unverified, NextCandidate, Current, UnverifiedTemps
<1>20. CASE HoldShortCut
  BY <1>20 DEF HoldShortCut, NextCandidate, HoldFallback, Current, Diff, HeldIsBetter
<1>21. CASE KeepCandidate
  BY <1>21 DEF KeepCandidate, End, Accept, Current, NullHeld
<1>22. CASE KeepLastResort
  BY <1>22 DEF KeepLastResort, End, Accept, NullHeld
<1>23. CASE KeepUnverified
  BY <1>23 DEF KeepUnverified, End, Accept
<1>24. CASE Redownload
  BY <1>24 DEF Redownload
<1>25. CASE RedownloadSkipped
  BY <1>25 DEF RedownloadSkipped, End
<1>26. CASE Redownloaded
  BY <1>26 DEF Redownloaded, End, Accept
<1>27. CASE RedownloadFailed
  BY <1>27 DEF RedownloadFailed, End, Fail
<1>28. CASE GiveUp
  BY <1>28 DEF GiveUp, End, Fail
<1>29. CASE InternalError
  BY <1>29 DEF InternalError, End
<1>30. CASE \E f \in {"skip", "stop"} : UserFlag(f)
  BY <1>30 DEF UserFlag
<1>31. CASE ToggleAcoustid
  BY <1>31 DEF ToggleAcoustid
<1>32. CASE HeldFileGone
  BY <1>32 DEF HeldFileGone
<1>33. CASE UNCHANGED vars
  BY <1>33 DEF vars
<1>. QED
  BY <1>1, <1>2, <1>3, <1>4, <1>5, <1>6, <1>7, <1>8, <1>9, <1>10, <1>11, <1>12, <1>13,
     <1>14, <1>15, <1>16, <1>17, <1>18, <1>19, <1>20, <1>21, <1>22, <1>23, <1>24, <1>25,
     <1>26, <1>27, <1>28, <1>29, <1>30, <1>31, <1>32, <1>33 DEF Next, Worker

LEMMA TypeFilesStep == TypeList /\ TypeFiles /\ [Next]_vars => TypeFiles'
<1>. SUFFICES ASSUME TypeList /\ TypeFiles, [Next]_vars PROVE TypeFiles'
  OBVIOUS
<1>. USE LengthsAssumption
<1>. USE DEF TypeFiles
<1>. USE DEF settings, list, files, results
<1>1. CASE Begin
  BY <1>1 DEF Begin
<1>2. CASE SkippedAtOnce
  BY <1>2 DEF SkippedAtOnce, End
<1>3. CASE Extend
  BY <1>3 DEF Extend
<1>4. CASE Exhausted
  BY <1>4 DEF Exhausted
<1>5. CASE SkippedInLoop
  BY <1>5 DEF SkippedInLoop, End
<1>6. CASE RejectLowScore
  BY <1>6 DEF RejectLowScore
<1>7. CASE Try
  BY <1>7 DEF Try
<1>8. CASE LiveStream
  BY <1>8, CurrentIsUpload DEF LiveStream, NextCandidate, InWork
<1>9. CASE DownloadSkipped
  BY <1>9 DEF DownloadSkipped, End
<1>10. CASE Downloaded
  BY <1>10, CurrentIsUpload DEF Downloaded, InWork
<1>11. CASE \E full \in BOOLEAN : DownloadFailed(full)
  BY <1>11 DEF DownloadFailed, NextCandidate
<1>12. CASE \E full \in BOOLEAN : PostprocessError(full)
  BY <1>12 DEF PostprocessError
<1>13. CASE \E real, listed \in Lengths : RejectShort(real, listed)
  BY <1>13, CurrentIsUpload DEF RejectShort, NextCandidate, InWork
<1>14. CASE \E real, listed \in Lengths : Measured(real, listed)
  BY <1>14, CurrentIsUpload DEF Measured, InWork
<1>15. CASE \E why \in {"verified", "acoustid error", "official"} : Confirmed(why)
  BY <1>15 DEF Confirmed, Keep
<1>16. CASE NotVerifiable
  BY <1>16, CurrentIsUpload DEF NotVerifiable, Keep, InWork
<1>17. CASE HoldOtherRecording
  BY <1>17, CurrentIsUpload, DiffIsNat DEF HoldOtherRecording, NextCandidate,
     HoldFallback, InWork
<1>18. CASE Mismatch
  BY <1>18, CurrentIsUpload DEF Mismatch, NextCandidate, InWork, BestAfterMismatch
<1>19. CASE Unverified
  BY <1>19, CurrentIsUpload DEF Unverified, NextCandidate, InWork, UnverifiedTemps
<1>20. CASE HoldShortCut
  BY <1>20, CurrentIsUpload, DiffIsNat DEF HoldShortCut, NextCandidate, HoldFallback, InWork
<1>21. CASE KeepCandidate
  BY <1>21 DEF KeepCandidate, End, Accept, NullHeld
<1>22. CASE KeepLastResort
  BY <1>22 DEF KeepLastResort, End, Accept, NullHeld
<1>23. CASE KeepUnverified
  BY <1>23 DEF KeepUnverified, End, Accept
<1>24. CASE Redownload
  BY <1>24 DEF Redownload
<1>25. CASE RedownloadSkipped
  BY <1>25 DEF RedownloadSkipped, End
<1>26. CASE Redownloaded
  <2>1. length' \in [Candidates -> Lengths \cup {-1}]
    BY <1>26 DEF Redownloaded
  <2>. QED
    BY <1>26, <2>1 DEF Redownloaded, files
<1>27. CASE RedownloadFailed
  BY <1>27 DEF RedownloadFailed, End, Fail
<1>28. CASE GiveUp
  BY <1>28 DEF GiveUp, End, Fail
<1>29. CASE InternalError
  BY <1>29 DEF InternalError, End
<1>30. CASE \E f \in {"skip", "stop"} : UserFlag(f)
  BY <1>30 DEF UserFlag
<1>31. CASE ToggleAcoustid
  BY <1>31 DEF ToggleAcoustid
<1>32. CASE HeldFileGone
  BY <1>32 DEF HeldFileGone
<1>33. CASE UNCHANGED vars
  BY <1>33 DEF vars
<1>. QED
  BY <1>1, <1>2, <1>3, <1>4, <1>5, <1>6, <1>7, <1>8, <1>9, <1>10, <1>11, <1>12, <1>13,
     <1>14, <1>15, <1>16, <1>17, <1>18, <1>19, <1>20, <1>21, <1>22, <1>23, <1>24, <1>25,
     <1>26, <1>27, <1>28, <1>29, <1>30, <1>31, <1>32, <1>33 DEF Next, Worker

LEMMA TypeStep == TypeInv /\ [Next]_vars => TypeInv'
  BY TypeParts, TypeControlStep, TypeSwitchesStep, TypeListStep, TypeFilesStep

LEMMA InitTyped == Init => TypeInv
<1>. SUFFICES ASSUME Init PROVE TypeInv
  OBVIOUS
<1>1. TypeControl
  BY SettingsAssumption DEF Init, TypeControl, NullKept, Reasons
<1>2. TypeSwitches
  BY DEF Init, TypeSwitches
<1>3. TypeList
  BY DEF Init, TypeList, Bounded, InWork
<1>4. TypeFiles
  BY DEF Init, TypeFiles, NullHeld
<1>. QED
  BY <1>1, <1>2, <1>3, <1>4, TypeParts

\* Every variable of the track's worker has its type, and the worker is on the list
\* of candidates whenever it tries one.
THEOREM Typing == Spec => []TypeOK
<1>1. TypeInv /\ [Next]_vars => TypeInv'
  BY TypeStep
<1>2. TypeInv => TypeOK
  BY DEF TypeInv
<1>. QED
  BY <1>1, <1>2, InitTyped, PTL DEF Spec

---------------------------------------------------------------------------
(* What has been tried.                                                    *)

\* The current candidate was not tried before, so nothing known of the past is
\* disturbed by what happens to it.
LEMMA CurrentNotPast ==
    TypeInv /\ Distinct /\ pc \in InWork => Current \in Candidates /\ Current \notin Past
<1>. SUFFICES ASSUME TypeInv, Distinct, pc \in InWork
              PROVE  Current \in Candidates /\ Current \notin Past
  OBVIOUS
<1>1. Current \in Candidates
  BY CurrentIsUpload, TypeParts
<1>2. pos \in 1 .. Len(cands)
  BY DEF TypeInv, TypeOK, Bounded
<1>3. ASSUME NEW i \in 1 .. (pos - 1) PROVE cands[i] # cands[pos]
  <2>1. i \in 1 .. Len(cands) /\ i # pos
    BY <1>2
  <2>. QED
    BY <1>2, <2>1 DEF Distinct
<1>. QED
  BY <1>1, <1>3 DEF Past, Current

\* Going on to the next candidate adds the current one to the past.
LEMMA PastTakesCurrent ==
    ASSUME TypeInv, pos <= Len(cands), cands' = cands, pos' = pos + 1
    PROVE  Past' = Past \cup {Current}
<1>1. pos \in Nat \ {0}
  BY DEF TypeInv, TypeOK
<1>2. 1 .. ((pos + 1) - 1) = (1 .. (pos - 1)) \cup {pos}
  BY <1>1
<1>. QED
  BY <1>2 DEF Past, Current

\* The list changes only by Begin and by Extend.
LEMMA OnlyListSteps == [Next]_vars => cands' = cands \/ Begin \/ Extend
<1>. SUFFICES ASSUME [Next]_vars PROVE cands' = cands \/ Begin \/ Extend
  OBVIOUS
<1>. QED
  BY DEF Next, Worker, SkippedAtOnce, End, Exhausted, SkippedInLoop,
     RejectLowScore, Try, LiveStream, NextCandidate, DownloadSkipped, Downloaded,
     DownloadFailed, PostprocessError, RejectShort, Measured, Confirmed, Keep,
     NotVerifiable, HoldOtherRecording, HoldFallback, Mismatch, Unverified, HoldShortCut,
     KeepCandidate, Accept, KeepLastResort, KeepUnverified, Redownload, RedownloadSkipped,
     Redownloaded, RedownloadFailed, Fail, GiveUp, InternalError, UserFlag,
     ToggleAcoustid, HeldFileGone, vars, settings, list, files, results

\* A search is asked for what is not on the list, so no upload comes twice.
LEMMA DistinctStep == TypeInv /\ Distinct /\ [Next]_vars => Distinct'
<1>. SUFFICES ASSUME TypeInv, Distinct, [Next]_vars, cands' # cands PROVE Distinct'
  BY DEF Distinct
<1>1. CASE Begin
  <2>1. CASE cands' = <<official>>
    BY <2>1 DEF Distinct
  <2>2. ASSUME NEW c \in Candidates, cands' = <<c>> PROVE Distinct'
    BY <2>2 DEF Distinct
  <2>3. ASSUME NEW s \in Results(Candidates), cands' = s PROVE Distinct'
    BY <2>3, ResultsAreLists DEF Distinct
  <2>. QED
    BY <1>1, <2>1, <2>2, <2>3 DEF Begin
<1>2. CASE Extend
  <2>1. PICK s \in Results(Untried) : cands' = cands \o s
    BY <1>2 DEF Extend
  <2>2. /\ s \in Seq(Untried)
        /\ \A i, j \in 1 .. Len(s) : s[i] = s[j] => i = j
    BY ResultsAreLists DEF Untried
  <2>3. cands \in Seq(Candidates)
    BY DEF TypeInv, TypeOK
  <2>4. \A i \in 1 .. Len(cands) : cands[i] \in Range(cands)
    BY <2>3 DEF Range
  <2>5. \A i \in 1 .. Len(s) : s[i] \notin Range(cands)
    BY <2>2 DEF Untried
  <2>. DEFINE m == Len(cands)
              n == Len(s)
  <2>6. m \in Nat /\ n \in Nat
    BY <2>2, <2>3
  <2>7. Len(cands') = m + n
    BY <2>1, <2>2, <2>3
  <2>8. \A i \in 1 .. m : cands'[i] = cands[i]
    BY <2>1, <2>2, <2>3
  <2>9. \A i \in (m + 1) .. (m + n) : i - m \in 1 .. n /\ cands'[i] = s[i - m]
    BY <2>1, <2>2, <2>3
  <2>10. ASSUME NEW i \in 1 .. (m + n), NEW j \in 1 .. (m + n), cands'[i] = cands'[j]
         PROVE  i = j
    <3>1. CASE i <= m /\ j <= m
      <4>1. i \in 1 .. m /\ j \in 1 .. m
        BY <2>6, <3>1
      <4>. QED
        BY <2>8, <2>10, <4>1 DEF Distinct
    <3>2. CASE i > m /\ j > m
      <4>1. i \in (m + 1) .. (m + n) /\ j \in (m + 1) .. (m + n)
        BY <2>6, <3>2
      <4>2. i - m = j - m
        BY <2>2, <2>9, <2>10, <4>1
      <4>. QED
        BY <2>6, <4>2
    <3>3. CASE i <= m /\ j > m
      <4>1. i \in 1 .. m /\ j \in (m + 1) .. (m + n)
        BY <2>6, <3>3
      <4>. QED
        BY <2>4, <2>5, <2>8, <2>9, <2>10, <4>1
    <3>4. CASE i > m /\ j <= m
      <4>1. j \in 1 .. m /\ i \in (m + 1) .. (m + n)
        BY <2>6, <3>4
      <4>. QED
        BY <2>4, <2>5, <2>8, <2>9, <2>10, <4>1
    <3>. QED
      BY <2>6, <3>1, <3>2, <3>3, <3>4
  <2>. QED
    BY <2>7, <2>10 DEF Distinct
<1>. QED
  BY <1>1, <1>2, OnlyListSteps

\* The worker never goes back on the list.
LEMMA PosSteps == [Next]_vars => pos' = pos \/ pos' = pos + 1
<1>. SUFFICES ASSUME [Next]_vars PROVE pos' = pos \/ pos' = pos + 1
  OBVIOUS
<1>. QED
  BY DEF Next, Worker, Begin, SkippedAtOnce, End, Extend, Exhausted, SkippedInLoop,
     RejectLowScore, Try, LiveStream, NextCandidate, DownloadSkipped, Downloaded,
     DownloadFailed, PostprocessError, RejectShort, Measured, Confirmed, Keep,
     NotVerifiable, HoldOtherRecording, HoldFallback, Mismatch, Unverified, HoldShortCut,
     KeepCandidate, Accept, KeepLastResort, KeepUnverified, Redownload, RedownloadSkipped,
     Redownloaded, RedownloadFailed, Fail, GiveUp, InternalError, UserFlag,
     ToggleAcoustid, HeldFileGone, vars, settings, list, files, results

\* What was tried stays so.
LEMMA PastGrows == TypeInv /\ [Next]_vars => Past \subseteq Past'
<1>. SUFFICES ASSUME TypeInv, [Next]_vars PROVE Past \subseteq Past'
  OBVIOUS
<1>1. CASE Begin
  <2>1. pos = 1
    BY <1>1 DEF Begin, TypeInv, Bounded
  <2>. QED
    BY <2>1 DEF Past
<1>2. CASE Extend
  <2>1. PICK s \in Results(Untried) : cands' = cands \o s
    BY <1>2 DEF Extend
  <2>2. s \in Seq(Candidates) /\ cands \in Seq(Candidates) /\ pos \in Nat
    BY ResultsAreLists DEF Untried, TypeInv, TypeOK
  <2>3. pos' = pos /\ pos <= Len(cands) + 1
    BY <1>2 DEF Extend, TypeInv, Bounded
  <2>4. \A i \in 1 .. (pos - 1) : cands'[i] = cands[i]
    BY <2>1, <2>2, <2>3
  <2>. QED
    BY <2>3, <2>4 DEF Past
<1>3. CASE cands' = cands
  <2>1. pos \in Nat /\ (pos' = pos \/ pos' = pos + 1)
    BY <1>3, PosSteps DEF TypeInv, TypeOK
  <2>. QED
    BY <1>3, <2>1 DEF Past
<1>. QED
  BY <1>1, <1>2, <1>3, OnlyListSteps

\* Only the current candidate is banned or held, and then the worker goes on.
LEMMA TriedStep == TypeInv /\ Tried /\ [Next]_vars => Tried'
<1>. SUFFICES ASSUME TypeInv, Tried, [Next]_vars PROVE Tried'
  OBVIOUS
<1>. USE PastGrows
<1>. USE DEF Tried, Held
<1>. USE DEF settings, list, files, results
<1>1. CASE Begin
  BY <1>1 DEF Begin
<1>2. CASE SkippedAtOnce
  BY <1>2 DEF SkippedAtOnce, End
<1>3. CASE Extend
  BY <1>3 DEF Extend
<1>4. CASE Exhausted
  BY <1>4 DEF Exhausted
<1>5. CASE SkippedInLoop
  BY <1>5 DEF SkippedInLoop, End
<1>6. CASE RejectLowScore
  BY <1>6 DEF RejectLowScore
<1>7. CASE Try
  BY <1>7 DEF Try
<1>8. CASE LiveStream
  BY <1>8, PastTakesCurrent DEF LiveStream, NextCandidate, TypeInv, Bounded, InWork
<1>9. CASE DownloadSkipped
  BY <1>9 DEF DownloadSkipped, End
<1>10. CASE Downloaded
  BY <1>10 DEF Downloaded
<1>11. CASE \E full \in BOOLEAN : DownloadFailed(full)
  BY <1>11, PastTakesCurrent DEF DownloadFailed, NextCandidate, TypeInv, Bounded, InWork
<1>12. CASE \E full \in BOOLEAN : PostprocessError(full)
  BY <1>12 DEF PostprocessError
<1>13. CASE \E real, listed \in Lengths : RejectShort(real, listed)
  BY <1>13, PastTakesCurrent DEF RejectShort, NextCandidate, TypeInv, Bounded, InWork
<1>14. CASE \E real, listed \in Lengths : Measured(real, listed)
  BY <1>14 DEF Measured
<1>15. CASE \E why \in {"verified", "acoustid error", "official"} : Confirmed(why)
  BY <1>15 DEF Confirmed, Keep
<1>16. CASE NotVerifiable
  BY <1>16 DEF NotVerifiable, Keep
<1>17. CASE HoldOtherRecording
  BY <1>17, PastTakesCurrent
  DEF HoldOtherRecording, NextCandidate, HoldFallback, TypeInv, Bounded, InWork
<1>18. CASE Mismatch
  BY <1>18, PastTakesCurrent DEF Mismatch, NextCandidate,
     TypeInv, Bounded, InWork, BestAfterMismatch
<1>19. CASE Unverified
  BY <1>19, PastTakesCurrent DEF Unverified, NextCandidate, TypeInv, Bounded, InWork
<1>20. CASE HoldShortCut
  BY <1>20, PastTakesCurrent
  DEF HoldShortCut, NextCandidate, HoldFallback, TypeInv, Bounded, InWork
<1>21. CASE KeepCandidate
  BY <1>21 DEF KeepCandidate, End, Accept, NullHeld
<1>22. CASE KeepLastResort
  BY <1>22 DEF KeepLastResort, End, Accept, NullHeld
<1>23. CASE KeepUnverified
  BY <1>23 DEF KeepUnverified, End, Accept
<1>24. CASE Redownload
  BY <1>24 DEF Redownload
<1>25. CASE RedownloadSkipped
  BY <1>25 DEF RedownloadSkipped, End
<1>26. CASE Redownloaded
  BY <1>26 DEF Redownloaded, End, Accept
<1>27. CASE RedownloadFailed
  BY <1>27 DEF RedownloadFailed, End, Fail
<1>28. CASE GiveUp
  BY <1>28 DEF GiveUp, End, Fail
<1>29. CASE InternalError
  BY <1>29 DEF InternalError, End
<1>30. CASE \E f \in {"skip", "stop"} : UserFlag(f)
  BY <1>30 DEF UserFlag
<1>31. CASE ToggleAcoustid
  BY <1>31 DEF ToggleAcoustid
<1>32. CASE HeldFileGone
  BY <1>32 DEF HeldFileGone
<1>33. CASE UNCHANGED vars
  BY <1>33 DEF vars
<1>. QED
  BY <1>1, <1>2, <1>3, <1>4, <1>5, <1>6, <1>7, <1>8, <1>9, <1>10, <1>11, <1>12, <1>13,
     <1>14, <1>15, <1>16, <1>17, <1>18, <1>19, <1>20, <1>21, <1>22, <1>23, <1>24, <1>25,
     <1>26, <1>27, <1>28, <1>29, <1>30, <1>31, <1>32, <1>33 DEF Next, Worker

---------------------------------------------------------------------------
(* A track has no outcome before its end.                                  *)

LEMMA UndecidedStep == Undecided /\ [Next]_vars => Undecided'
<1>. SUFFICES ASSUME Undecided, [Next]_vars PROVE Undecided'
  OBVIOUS
<1>. USE DEF Undecided
<1>. QED
  BY DEF Next, Worker, Begin, SkippedAtOnce, End, Extend, Exhausted, SkippedInLoop,
     RejectLowScore, Try, LiveStream, NextCandidate, DownloadSkipped, Downloaded,
     DownloadFailed, PostprocessError, RejectShort, Measured, Confirmed, Keep,
     NotVerifiable, HoldOtherRecording, HoldFallback, Mismatch, Unverified, HoldShortCut,
     KeepCandidate, Accept, KeepLastResort, KeepUnverified, Redownload, RedownloadSkipped,
     Redownloaded, RedownloadFailed, Fail, GiveUp, InternalError, UserFlag,
     ToggleAcoustid, HeldFileGone, vars, settings, list, files, results

---------------------------------------------------------------------------
(* The temp files.                                                         *)

\* There is no temp file before the first download, and what is downloaded again has
\* none until it is there.
Absent ==
    /\ pc = "start" => temps = {}
    /\ pc = "redownload" => bestU \notin temps

LEMMA AbsentStep == Absent /\ [Next]_vars => Absent'
<1>. SUFFICES ASSUME Absent, [Next]_vars PROVE Absent'
  OBVIOUS
<1>. USE DEF Absent
<1>. QED
  BY DEF Next, Worker, Begin, SkippedAtOnce, End, Extend, Exhausted, SkippedInLoop,
     RejectLowScore, Try, LiveStream, NextCandidate, DownloadSkipped, Downloaded,
     DownloadFailed, PostprocessError, RejectShort, Measured, Confirmed, Keep,
     NotVerifiable, HoldOtherRecording, HoldFallback, Mismatch, Unverified, HoldShortCut,
     KeepCandidate, Accept, KeepLastResort, KeepUnverified, Redownload, RedownloadSkipped,
     Redownloaded, RedownloadFailed, Fail, GiveUp, InternalError, UserFlag,
     ToggleAcoustid, HeldFileGone, vars, settings, list, files, results

\* What is in hand is where the list stands.
LEMMA InHandAtHand == TypeInv => InHand \subseteq AtHand
<1>. SUFFICES ASSUME TypeInv, pc \in {"measure", "verify", "keep"} PROVE Current \in AtHand
  BY DEF InHand
<1>1. pos \in Nat \ {0} /\ pos <= Len(cands) /\ cands \in Seq(Candidates)
  BY DEF TypeInv, TypeOK, Bounded, InWork
<1>2. pos \in {pos} \cap DOMAIN cands
  BY <1>1
<1>. QED
  BY <1>2 DEF AtHand, Current

LEMMA TempsStep ==
    TypeInv /\ Undecided /\ Absent /\ NoTempForgotten /\ [Next]_vars => NoTempForgotten'
<1>. SUFFICES ASSUME TypeInv, Undecided, Absent, NoTempForgotten, [Next]_vars
              PROVE  NoTempForgotten'
  OBVIOUS
<1>a. NoCandidate \notin temps
  BY CandidatesAssumption DEF TypeInv, TypeOK
<1>. USE <1>a
<1>. USE DEF NoTempForgotten, LastResortLeft, AtHand, Held, InHand, Undecided, Current
<1>. USE DEF settings, list, files, results
<1>1. CASE Begin
  BY <1>1 DEF Begin
<1>2. CASE SkippedAtOnce
  BY <1>2 DEF SkippedAtOnce, End, Absent
<1>3. CASE Extend
  BY <1>3 DEF Extend
<1>4. CASE Exhausted
  BY <1>4 DEF Exhausted
<1>5. CASE SkippedInLoop
  BY <1>5 DEF SkippedInLoop, End
<1>6. CASE RejectLowScore
  BY <1>6 DEF RejectLowScore
<1>7. CASE Try
  BY <1>7 DEF Try
<1>8. CASE LiveStream
  BY <1>8 DEF LiveStream, NextCandidate, InWork
<1>9. CASE DownloadSkipped
  BY <1>9 DEF DownloadSkipped, End
<1>10. CASE Downloaded
  BY <1>10 DEF Downloaded, InWork, NextCandidate
<1>11. CASE \E full \in BOOLEAN : DownloadFailed(full)
  BY <1>11 DEF DownloadFailed, NextCandidate, InWork
<1>12. CASE \E full \in BOOLEAN : PostprocessError(full)
  BY <1>12 DEF PostprocessError
<1>13. CASE \E real, listed \in Lengths : RejectShort(real, listed)
  BY <1>13 DEF RejectShort, NextCandidate, InWork
<1>14. CASE \E real, listed \in Lengths : Measured(real, listed)
  BY <1>14 DEF Measured
<1>15. CASE \E why \in {"verified", "acoustid error", "official"} : Confirmed(why)
  BY <1>15 DEF Confirmed, Keep
<1>16. CASE NotVerifiable
  BY <1>16 DEF NotVerifiable, Keep
<1>17. CASE HoldOtherRecording
  BY <1>17 DEF HoldOtherRecording, NextCandidate, HoldFallback, InWork, HeldIsBetter
<1>18. CASE Mismatch
  BY <1>18 DEF Mismatch, NextCandidate, InWork, BestAfterMismatch
<1>19. CASE Unverified
  BY <1>19 DEF Unverified, NextCandidate, InWork, UnverifiedTemps
<1>20. CASE HoldShortCut
  BY <1>20 DEF HoldShortCut, NextCandidate, HoldFallback, InWork, HeldIsBetter
<1>21. CASE KeepCandidate
  BY <1>21 DEF KeepCandidate, End, Accept, InWork, NullHeld
<1>22. CASE KeepLastResort
  BY <1>22 DEF KeepLastResort, End, Accept, InWork, NullHeld
<1>23. CASE KeepUnverified
  BY <1>23 DEF KeepUnverified, End, Accept
<1>24. CASE Redownload
  BY <1>24 DEF Redownload
<1>25. CASE RedownloadSkipped
  BY <1>25 DEF RedownloadSkipped, End, Absent
<1>26. CASE Redownloaded
  BY <1>26 DEF Redownloaded, End, Accept, Absent
<1>27. CASE RedownloadFailed
  BY <1>27 DEF RedownloadFailed, End, Fail, Absent
<1>28. CASE GiveUp
  BY <1>28 DEF GiveUp, End, Fail
<1>29. CASE InternalError
  <2>1. pc # "end" /\ pc' = "end" /\ UNCHANGED <<cands, pos, bestU, heldF>>
    BY <1>29 DEF InternalError, End
  <2>2. temps \subseteq AtHand \cup Held
    BY <2>1, InHandAtHand
  <2>3. CASE status' = "interrupted" /\ temps' = temps
    BY <2>1, <2>2, <2>3
  <2>4. CASE status' = "failed" /\ temps' = {}
    BY <2>1, <2>4
  <2>. QED
    BY <1>29, <2>3, <2>4 DEF InternalError, End
<1>30. CASE \E f \in {"skip", "stop"} : UserFlag(f)
  BY <1>30 DEF UserFlag
<1>31. CASE ToggleAcoustid
  BY <1>31 DEF ToggleAcoustid
<1>32. CASE HeldFileGone
  BY <1>32 DEF HeldFileGone
<1>33. CASE UNCHANGED vars
  BY <1>33 DEF vars
<1>. QED
  BY <1>1, <1>2, <1>3, <1>4, <1>5, <1>6, <1>7, <1>8, <1>9, <1>10, <1>11, <1>12, <1>13,
     <1>14, <1>15, <1>16, <1>17, <1>18, <1>19, <1>20, <1>21, <1>22, <1>23, <1>24, <1>25,
     <1>26, <1>27, <1>28, <1>29, <1>30, <1>31, <1>32, <1>33 DEF Next, Worker

\* While a worker runs, what is on disk is in hand or held.  When it has returned, the
\* only file it may have left behind is its last resort, and none if it kept that or
\* a verified upload; but where a stop met an exception, what was in hand or held.
THEOREM TempsTheorem == Spec => []NoTempForgotten
<1>. DEFINE Inv == TypeInv /\ Undecided /\ Absent /\ NoTempForgotten
<1>1. Init => Inv
  BY InitTyped DEF Init, Undecided, Absent, NoTempForgotten, NullKept
<1>2. Inv /\ [Next]_vars => Inv'
  BY TypeStep, UndecidedStep, AbsentStep, TempsStep
<1>3. Inv => NoTempForgotten
  OBVIOUS
<1>. QED
  BY <1>1, <1>2, <1>3, PTL DEF Spec

---------------------------------------------------------------------------
(* What is known of the current candidate.                                 *)

\* A candidate reaches its verification only if it was not too short.
LEMMA FitsStep == TypeInv /\ Fits /\ [Next]_vars => Fits'
<1>. SUFFICES ASSUME TypeInv, Fits, [Next]_vars PROVE Fits'
  OBVIOUS
<1>a. length \in [Candidates -> Lengths \cup {-1}]
  BY DEF TypeInv, TypeOK
<1>. USE <1>a, LengthsAssumption
<1>. USE DEF Fits, LongEnough, Current
<1>. USE DEF settings, list, files, results
<1>1. CASE Begin
  BY <1>1 DEF Begin
<1>2. CASE SkippedAtOnce
  BY <1>2 DEF SkippedAtOnce, End
<1>3. CASE Extend
  BY <1>3 DEF Extend
<1>4. CASE Exhausted
  BY <1>4 DEF Exhausted
<1>5. CASE SkippedInLoop
  BY <1>5 DEF SkippedInLoop, End
<1>6. CASE RejectLowScore
  BY <1>6 DEF RejectLowScore
<1>7. CASE Try
  BY <1>7 DEF Try
<1>8. CASE LiveStream
  BY <1>8 DEF LiveStream, NextCandidate
<1>9. CASE DownloadSkipped
  BY <1>9 DEF DownloadSkipped, End
<1>10. CASE Downloaded
  BY <1>10 DEF Downloaded
<1>11. CASE \E full \in BOOLEAN : DownloadFailed(full)
  BY <1>11 DEF DownloadFailed, NextCandidate
<1>12. CASE \E full \in BOOLEAN : PostprocessError(full)
  BY <1>12 DEF PostprocessError
<1>13. CASE \E real, listed \in Lengths : RejectShort(real, listed)
  BY <1>13 DEF RejectShort, NextCandidate
<1>14. CASE \E real, listed \in Lengths : Measured(real, listed)
  BY <1>14, CurrentIsUpload, TypeParts DEF Measured, InWork, TooShort, CloseEnough
<1>15. CASE \E why \in {"verified", "acoustid error", "official"} : Confirmed(why)
  <2>1. pc = "verify" /\ UNCHANGED <<cands, pos, length, short>>
    BY <1>15 DEF Confirmed, list, files
  <2>. QED
    BY <2>1
<1>16. CASE NotVerifiable
  BY <1>16 DEF NotVerifiable, Keep
<1>17. CASE HoldOtherRecording
  BY <1>17 DEF HoldOtherRecording, NextCandidate, HoldFallback
<1>18. CASE Mismatch
  BY <1>18 DEF Mismatch, NextCandidate
<1>19. CASE Unverified
  BY <1>19 DEF Unverified, NextCandidate
<1>20. CASE HoldShortCut
  BY <1>20 DEF HoldShortCut, NextCandidate, HoldFallback
<1>21. CASE KeepCandidate
  BY <1>21 DEF KeepCandidate, End, Accept
<1>22. CASE KeepLastResort
  BY <1>22 DEF KeepLastResort, End, Accept
<1>23. CASE KeepUnverified
  BY <1>23 DEF KeepUnverified, End, Accept
<1>24. CASE Redownload
  BY <1>24 DEF Redownload
<1>25. CASE RedownloadSkipped
  BY <1>25 DEF RedownloadSkipped, End
<1>26. CASE Redownloaded
  BY <1>26 DEF Redownloaded, End, Accept
<1>27. CASE RedownloadFailed
  BY <1>27 DEF RedownloadFailed, End, Fail
<1>28. CASE GiveUp
  BY <1>28 DEF GiveUp, End, Fail
<1>29. CASE InternalError
  BY <1>29 DEF InternalError, End
<1>30. CASE \E f \in {"skip", "stop"} : UserFlag(f)
  BY <1>30 DEF UserFlag
<1>31. CASE ToggleAcoustid
  BY <1>31 DEF ToggleAcoustid
<1>32. CASE HeldFileGone
  BY <1>32 DEF HeldFileGone
<1>33. CASE UNCHANGED vars
  BY <1>33 DEF vars
<1>. QED
  BY <1>1, <1>2, <1>3, <1>4, <1>5, <1>6, <1>7, <1>8, <1>9, <1>10, <1>11, <1>12, <1>13,
     <1>14, <1>15, <1>16, <1>17, <1>18, <1>19, <1>20, <1>21, <1>22, <1>23, <1>24, <1>25,
     <1>26, <1>27, <1>28, <1>29, <1>30, <1>31, <1>32, <1>33 DEF Next, Worker

LEMMA ToggleCounts == TypeInv /\ ToggleAcoustid => toggles' # 0
<1>. SUFFICES ASSUME TypeInv, ToggleAcoustid PROVE toggles' # 0
  OBVIOUS
<1>1. toggles \in Nat
  BY SettingsAssumption DEF TypeInv, TypeOK
<1>2. toggles' = toggles + 1
  BY DEF ToggleAcoustid
<1>. QED
  BY <1>1, <1>2

\* A low score passes only where AcoustID is asked.
LEMMA GatedStep == TypeInv /\ Gated /\ [Next]_vars => Gated'
<1>. SUFFICES ASSUME TypeInv, Gated, [Next]_vars PROVE Gated'
  OBVIOUS
<1>a. toggles \in Nat
  BY SettingsAssumption DEF TypeInv, TypeOK
<1>. USE <1>a
<1>. USE DEF Gated, Current, ShouldVerify, InWork, GoodScore
<1>. USE DEF settings, list, files, results
<1>1. CASE Begin
  BY <1>1 DEF Begin, Current, ShouldVerify
<1>2. CASE SkippedAtOnce
  BY <1>2 DEF SkippedAtOnce, End
<1>3. CASE Extend
  BY <1>3 DEF Extend
<1>4. CASE Exhausted
  BY <1>4 DEF Exhausted
<1>5. CASE SkippedInLoop
  BY <1>5 DEF SkippedInLoop, End
<1>6. CASE RejectLowScore
  BY <1>6 DEF RejectLowScore
<1>7. CASE Try
  BY <1>7 DEF Try
<1>8. CASE LiveStream
  BY <1>8 DEF LiveStream, NextCandidate
<1>9. CASE DownloadSkipped
  BY <1>9 DEF DownloadSkipped, End
<1>10. CASE Downloaded
  BY <1>10 DEF Downloaded
<1>11. CASE \E full \in BOOLEAN : DownloadFailed(full)
  BY <1>11 DEF DownloadFailed, NextCandidate
<1>12. CASE \E full \in BOOLEAN : PostprocessError(full)
  BY <1>12 DEF PostprocessError
<1>13. CASE \E real, listed \in Lengths : RejectShort(real, listed)
  BY <1>13 DEF RejectShort, NextCandidate
<1>14. CASE \E real, listed \in Lengths : Measured(real, listed)
  BY <1>14 DEF Measured
<1>15. CASE \E why \in {"verified", "acoustid error", "official"} : Confirmed(why)
  <2>1. /\ pc = "verify" /\ pc' = "keep"
        /\ how' \in {"verified", "acoustid error", "official"}
        /\ how' = "official" => Current = official
    BY <1>15 DEF Confirmed, Keep
  <2>2. UNCHANGED <<toggles, acoustid, will, official, cands, pos>>
    BY <1>15 DEF Confirmed, list, settings
  <2>. QED
    BY <2>1, <2>2
<1>16. CASE NotVerifiable
  BY <1>16 DEF NotVerifiable, Keep
<1>17. CASE HoldOtherRecording
  BY <1>17 DEF HoldOtherRecording, NextCandidate, HoldFallback
<1>18. CASE Mismatch
  BY <1>18 DEF Mismatch, NextCandidate
<1>19. CASE Unverified
  BY <1>19 DEF Unverified, NextCandidate
<1>20. CASE HoldShortCut
  BY <1>20 DEF HoldShortCut, NextCandidate, HoldFallback
<1>21. CASE KeepCandidate
  BY <1>21 DEF KeepCandidate, End, Accept
<1>22. CASE KeepLastResort
  BY <1>22 DEF KeepLastResort, End, Accept
<1>23. CASE KeepUnverified
  BY <1>23 DEF KeepUnverified, End, Accept
<1>24. CASE Redownload
  BY <1>24 DEF Redownload
<1>25. CASE RedownloadSkipped
  BY <1>25 DEF RedownloadSkipped, End
<1>26. CASE Redownloaded
  BY <1>26 DEF Redownloaded, End, Accept
<1>27. CASE RedownloadFailed
  BY <1>27 DEF RedownloadFailed, End, Fail
<1>28. CASE GiveUp
  BY <1>28 DEF GiveUp, End, Fail
<1>29. CASE InternalError
  BY <1>29 DEF InternalError, End
<1>30. CASE \E f \in {"skip", "stop"} : UserFlag(f)
  <2>1. UNCHANGED <<pc, toggles, acoustid, will, official, cands, pos, how, bestU>>
    BY <1>30 DEF UserFlag, list, files
  <2>. QED
    BY <2>1
<1>31. CASE ToggleAcoustid
  <2>1. toggles' # 0
    BY <1>31, ToggleCounts
  <2>2. UNCHANGED <<pc, will, official, cands, pos, how, bestU>>
    BY <1>31 DEF ToggleAcoustid, list, files
  <2>. QED
    BY <2>1, <2>2
<1>32. CASE HeldFileGone
  BY <1>32 DEF HeldFileGone
<1>33. CASE UNCHANGED vars
  BY <1>33 DEF vars
<1>. QED
  BY <1>1, <1>2, <1>3, <1>4, <1>5, <1>6, <1>7, <1>8, <1>9, <1>10, <1>11, <1>12, <1>13,
     <1>14, <1>15, <1>16, <1>17, <1>18, <1>19, <1>20, <1>21, <1>22, <1>23, <1>24, <1>25,
     <1>26, <1>27, <1>28, <1>29, <1>30, <1>31, <1>32, <1>33 DEF Next, Worker

---------------------------------------------------------------------------
(* What is held is sound.                                                  *)

LEMMA CurrentLongEnough == Fits /\ pc \in {"verify", "keep"} => LongEnough(Current)
  BY DEF Fits

\* An upload that is held is not banned later, nor its length measured again.
LEMMA HeldSoundStep ==
    TypeInv /\ Distinct /\ Tried /\ Fits /\ HeldSound /\ [Next]_vars => HeldSound'
<1>. SUFFICES ASSUME TypeInv, Distinct, Tried, Fits, HeldSound, [Next]_vars
              PROVE  HeldSound'
  OBVIOUS
<1>a. length \in [Candidates -> Lengths \cup {-1}]
  BY DEF TypeInv, TypeOK
<1>b. banned \subseteq Past /\ Held \ {NoCandidate} \subseteq Past
  BY DEF Tried
<1>. USE <1>a, <1>b
<1>. USE DEF HeldSound, Held, LongEnough
<1>. USE DEF settings, list, files, results
<1>1. CASE Begin
  BY <1>1 DEF Begin
<1>2. CASE SkippedAtOnce
  BY <1>2 DEF SkippedAtOnce, End
<1>3. CASE Extend
  BY <1>3 DEF Extend
<1>4. CASE Exhausted
  BY <1>4 DEF Exhausted
<1>5. CASE SkippedInLoop
  BY <1>5 DEF SkippedInLoop, End
<1>6. CASE RejectLowScore
  BY <1>6 DEF RejectLowScore
<1>7. CASE Try
  BY <1>7 DEF Try
<1>8. CASE LiveStream
  BY <1>8, CurrentNotPast DEF LiveStream, NextCandidate, InWork
<1>9. CASE DownloadSkipped
  BY <1>9 DEF DownloadSkipped, End
<1>10. CASE Downloaded
  BY <1>10 DEF Downloaded
<1>11. CASE \E full \in BOOLEAN : DownloadFailed(full)
  BY <1>11 DEF DownloadFailed, NextCandidate
<1>12. CASE \E full \in BOOLEAN : PostprocessError(full)
  BY <1>12 DEF PostprocessError
<1>13. CASE \E real, listed \in Lengths : RejectShort(real, listed)
  BY <1>13, CurrentNotPast DEF RejectShort, NextCandidate, InWork
<1>14. CASE \E real, listed \in Lengths : Measured(real, listed)
  BY <1>14, CurrentNotPast DEF Measured, InWork
<1>15. CASE \E why \in {"verified", "acoustid error", "official"} : Confirmed(why)
  BY <1>15 DEF Confirmed, Keep
<1>16. CASE NotVerifiable
  BY <1>16 DEF NotVerifiable, Keep
<1>17. CASE HoldOtherRecording
  BY <1>17, CurrentNotPast, CurrentLongEnough DEF HoldOtherRecording, NextCandidate,
     HoldFallback, InWork
<1>18. CASE Mismatch
  BY <1>18, CurrentNotPast DEF Mismatch, NextCandidate, InWork, BestAfterMismatch
<1>19. CASE Unverified
  BY <1>19, CurrentNotPast, CurrentLongEnough DEF Unverified, NextCandidate, InWork
<1>20. CASE HoldShortCut
  BY <1>20, CurrentNotPast, CurrentLongEnough DEF HoldShortCut, NextCandidate,
     HoldFallback, InWork
<1>21. CASE KeepCandidate
  BY <1>21 DEF KeepCandidate, End, Accept, NullHeld
<1>22. CASE KeepLastResort
  BY <1>22 DEF KeepLastResort, End, Accept, NullHeld
<1>23. CASE KeepUnverified
  BY <1>23 DEF KeepUnverified, End, Accept
<1>24. CASE Redownload
  BY <1>24 DEF Redownload
<1>25. CASE RedownloadSkipped
  BY <1>25 DEF RedownloadSkipped, End
<1>26. CASE Redownloaded
  BY <1>26 DEF Redownloaded, End, Accept
<1>27. CASE RedownloadFailed
  BY <1>27 DEF RedownloadFailed, End, Fail
<1>28. CASE GiveUp
  BY <1>28 DEF GiveUp, End, Fail
<1>29. CASE InternalError
  BY <1>29 DEF InternalError, End
<1>30. CASE \E f \in {"skip", "stop"} : UserFlag(f)
  BY <1>30 DEF UserFlag
<1>31. CASE ToggleAcoustid
  BY <1>31 DEF ToggleAcoustid
<1>32. CASE HeldFileGone
  BY <1>32 DEF HeldFileGone
<1>33. CASE UNCHANGED vars
  BY <1>33 DEF vars
<1>. QED
  BY <1>1, <1>2, <1>3, <1>4, <1>5, <1>6, <1>7, <1>8, <1>9, <1>10, <1>11, <1>12, <1>13,
     <1>14, <1>15, <1>16, <1>17, <1>18, <1>19, <1>20, <1>21, <1>22, <1>23, <1>24, <1>25,
     <1>26, <1>27, <1>28, <1>29, <1>30, <1>31, <1>32, <1>33 DEF Next, Worker

---------------------------------------------------------------------------
(* The held file is the nearest.                                           *)

\* _hold_fallback keeps the nearer of two, so the nearest of all.
LEMMA HoldKeepsNearest ==
    ASSUME TypeInv, HeldNearest, pc # "end", NEW c \in Candidates,
           HoldFallback(c), length' = length
    PROVE  HeldNearest'
<1>1. \A d \in Candidates : Diff(d) \in Nat
  BY DiffIsNat, TypeParts
<1>2. offered \subseteq Candidates /\ heldF.diff \in Nat /\ NoCandidate \notin Candidates
  BY CandidatesAssumption DEF TypeInv, TypeOK
<1>3. /\ heldF'.cand # NoCandidate /\ heldF'.diff = Diff(heldF'.cand)
      /\ \A d \in offered' : heldF'.diff <= Diff(d)
  <2>1. CASE HeldIsBetter(c)
    BY <2>1 DEF HoldFallback, HeldIsBetter, HeldNearest
  <2>2. CASE ~ HeldIsBetter(c)
    <3>1. heldF' = [cand |-> c, diff |-> Diff(c)] /\ offered' = offered \cup {c}
      BY <2>2 DEF HoldFallback
    <3>2. ASSUME NEW d \in offered PROVE Diff(c) <= Diff(d)
      BY <1>1, <1>2, <2>2 DEF HeldIsBetter, HeldNearest
    <3>. QED
      BY <1>1, <1>2, <3>1, <3>2
  <2>. QED
    BY <2>1, <2>2
<1>. QED
  BY <1>3 DEF HeldNearest, Diff

LEMMA HeldNearestStep ==
    TypeInv /\ Distinct /\ Tried /\ HeldNearest /\ [Next]_vars => HeldNearest'
<1>. SUFFICES ASSUME TypeInv, Distinct, Tried, HeldNearest, [Next]_vars
              PROVE  HeldNearest'
  OBVIOUS
<1>a. length \in [Candidates -> Lengths \cup {-1}] /\ NoCandidate \notin Candidates
  BY CandidatesAssumption DEF TypeInv, TypeOK
<1>b. offered \subseteq Past /\ heldF.cand \in Past \cup {NoCandidate}
  BY DEF Tried, Held
<1>. USE <1>a, <1>b
<1>. USE DEF HeldNearest, Diff
<1>. USE DEF settings, list, files, results
<1>1. CASE Begin
  BY <1>1 DEF Begin
<1>2. CASE SkippedAtOnce
  BY <1>2 DEF SkippedAtOnce, End
<1>3. CASE Extend
  BY <1>3 DEF Extend
<1>4. CASE Exhausted
  BY <1>4 DEF Exhausted
<1>5. CASE SkippedInLoop
  BY <1>5 DEF SkippedInLoop, End
<1>6. CASE RejectLowScore
  BY <1>6 DEF RejectLowScore
<1>7. CASE Try
  BY <1>7 DEF Try
<1>8. CASE LiveStream
  BY <1>8 DEF LiveStream, NextCandidate
<1>9. CASE DownloadSkipped
  BY <1>9 DEF DownloadSkipped, End
<1>10. CASE Downloaded
  BY <1>10 DEF Downloaded
<1>11. CASE \E full \in BOOLEAN : DownloadFailed(full)
  BY <1>11 DEF DownloadFailed, NextCandidate
<1>12. CASE \E full \in BOOLEAN : PostprocessError(full)
  BY <1>12 DEF PostprocessError
<1>13. CASE \E real, listed \in Lengths : RejectShort(real, listed)
  BY <1>13, CurrentNotPast DEF RejectShort, NextCandidate, InWork
<1>14. CASE \E real, listed \in Lengths : Measured(real, listed)
  BY <1>14, CurrentNotPast DEF Measured, InWork
<1>15. CASE \E why \in {"verified", "acoustid error", "official"} : Confirmed(why)
  <2>1. pc # "end" /\ UNCHANGED <<heldF, offered, length>>
    BY <1>15 DEF Confirmed, files
  <2>. QED
    BY <2>1
<1>16. CASE NotVerifiable
  BY <1>16 DEF NotVerifiable, Keep
<1>17. CASE HoldOtherRecording
  BY <1>17, HoldKeepsNearest, CurrentNotPast DEF HoldOtherRecording, NextCandidate,
     HoldFallback, InWork
<1>18. CASE Mismatch
  BY <1>18 DEF Mismatch, NextCandidate, BestAfterMismatch
<1>19. CASE Unverified
  BY <1>19 DEF Unverified, NextCandidate
<1>20. CASE HoldShortCut
  BY <1>20, HoldKeepsNearest, CurrentNotPast DEF HoldShortCut, NextCandidate,
     HoldFallback, InWork
<1>21. CASE KeepCandidate
  BY <1>21 DEF KeepCandidate, End, Accept
<1>22. CASE KeepLastResort
  BY <1>22 DEF KeepLastResort, End, Accept
<1>23. CASE KeepUnverified
  BY <1>23 DEF KeepUnverified, End, Accept
<1>24. CASE Redownload
  BY <1>24 DEF Redownload
<1>25. CASE RedownloadSkipped
  BY <1>25 DEF RedownloadSkipped, End
<1>26. CASE Redownloaded
  BY <1>26 DEF Redownloaded, End, Accept
<1>27. CASE RedownloadFailed
  BY <1>27 DEF RedownloadFailed, End, Fail
<1>28. CASE GiveUp
  BY <1>28 DEF GiveUp, End, Fail
<1>29. CASE InternalError
  BY <1>29 DEF InternalError, End
<1>30. CASE \E f \in {"skip", "stop"} : UserFlag(f)
  BY <1>30 DEF UserFlag
<1>31. CASE ToggleAcoustid
  BY <1>31 DEF ToggleAcoustid
<1>32. CASE HeldFileGone
  BY <1>32 DEF HeldFileGone
<1>33. CASE UNCHANGED vars
  BY <1>33 DEF vars
<1>. QED
  BY <1>1, <1>2, <1>3, <1>4, <1>5, <1>6, <1>7, <1>8, <1>9, <1>10, <1>11, <1>12, <1>13,
     <1>14, <1>15, <1>16, <1>17, <1>18, <1>19, <1>20, <1>21, <1>22, <1>23, <1>24, <1>25,
     <1>26, <1>27, <1>28, <1>29, <1>30, <1>31, <1>32, <1>33 DEF Next, Worker

---------------------------------------------------------------------------
(* The file that is kept.                                                  *)

IInv ==
    /\ TypeInv /\ Undecided
    /\ Distinct /\ Tried
    /\ Fits /\ Gated
    /\ HeldSound /\ HeldNearest

LEMMA IInvInit == Init => IInv
<1>. SUFFICES ASSUME Init PROVE IInv
  OBVIOUS
<1>1. TypeInv
  BY InitTyped
<1>2. Undecided /\ Fits /\ Gated
  BY DEF Init, Undecided, Fits, Gated, InWork
<1>3. Distinct /\ Tried
  BY DEF Init, Distinct, Tried, Held, NullHeld
<1>4. HeldSound /\ HeldNearest
  BY DEF Init, HeldSound, HeldNearest, Held, NullHeld
<1>. QED
  BY <1>1, <1>2, <1>3, <1>4 DEF IInv

LEMMA IInvStep == IInv /\ [Next]_vars => IInv'
  BY TypeStep, UndecidedStep, DistinctStep, TriedStep, FitsStep, GatedStep, HeldSoundStep,
     HeldNearestStep DEF IInv

Sound == KeptFileSound /\ LastResortNearest

\* A track without a file, in this state and in the next one.
LEMMA NothingKept ==
    ASSUME kept = NullKept, status # "done", TypeInv,
           failures = IF status = "failed" THEN 1 ELSE 0
    PROVE  Sound
<1>1. NoCandidate \notin banned /\ NoCandidate \notin LowScore
  BY CandidatesAssumption DEF TypeInv, TypeOK
<1>. QED
  BY <1>1 DEF Sound, NullKept, KeptFileSound, OutcomeOnce, BannedNeverKept, KeptLongEnough,
              LowScoreNeedsExcuse, LastResortNearest

LEMMA NothingKeptNext ==
    ASSUME kept' = NullKept, status' # "done", TypeInv',
           failures' = IF status' = "failed" THEN 1 ELSE 0
    PROVE  Sound'
<1>1. NoCandidate \notin banned' /\ NoCandidate \notin LowScore
  BY CandidatesAssumption DEF TypeInv, TypeOK
<1>. QED
  BY <1>1 DEF Sound, NullKept, KeptFileSound, OutcomeOnce, BannedNeverKept, KeptLongEnough,
              LowScoreNeedsExcuse, LastResortNearest

\* Nothing happens to a track that has ended.
LEMMA EndStays ==
    pc = "end" /\ [Next]_vars =>
        /\ UNCHANGED <<status, failures, kept, official, banned, length, offered>>
        /\ toggles' = toggles \/ toggles' = toggles + 1
<1>. SUFFICES ASSUME pc = "end", [Next]_vars
              PROVE  /\ UNCHANGED <<status, failures, kept, official, banned, length,
                                     offered>>
                     /\ toggles' = toggles \/ toggles' = toggles + 1
  OBVIOUS
<1>. QED
  BY DEF Next, Worker, Begin, SkippedAtOnce, End, Extend, Exhausted, SkippedInLoop,
     RejectLowScore, Try, LiveStream, NextCandidate, DownloadSkipped, Downloaded,
     DownloadFailed, PostprocessError, RejectShort, Measured, Confirmed, Keep,
     NotVerifiable, HoldOtherRecording, HoldFallback, Mismatch, Unverified, HoldShortCut,
     KeepCandidate, Accept, KeepLastResort, KeepUnverified, Redownload, RedownloadSkipped,
     Redownloaded, RedownloadFailed, Fail, GiveUp, InternalError, UserFlag,
     ToggleAcoustid, HeldFileGone, vars, settings, list, files, results

\* What a step to the end does: it keeps the file of one upload, or none.
LEMMA EndStep ==
    ASSUME Undecided, [Next]_vars, pc # "end", pc' = "end"
    PROVE  \/ KeepCandidate \/ KeepLastResort \/ KeepUnverified \/ Redownloaded
           \/ /\ kept' = NullKept /\ status' # "done"
              /\ failures' = IF status' = "failed" THEN 1 ELSE 0
<1>. USE DEF Undecided
<1>. USE DEF settings, list, files, results
<1>1. CASE Begin
  BY <1>1 DEF Begin
<1>2. CASE SkippedAtOnce
  BY <1>2 DEF SkippedAtOnce, End
<1>3. CASE Extend
  BY <1>3 DEF Extend
<1>4. CASE Exhausted
  BY <1>4 DEF Exhausted
<1>5. CASE SkippedInLoop
  BY <1>5 DEF SkippedInLoop, End
<1>6. CASE RejectLowScore
  BY <1>6 DEF RejectLowScore
<1>7. CASE Try
  BY <1>7 DEF Try
<1>8. CASE LiveStream
  BY <1>8 DEF LiveStream, NextCandidate
<1>9. CASE DownloadSkipped
  BY <1>9 DEF DownloadSkipped, End
<1>10. CASE Downloaded
  BY <1>10 DEF Downloaded
<1>11. CASE \E full \in BOOLEAN : DownloadFailed(full)
  BY <1>11 DEF DownloadFailed, NextCandidate
<1>12. CASE \E full \in BOOLEAN : PostprocessError(full)
  BY <1>12 DEF PostprocessError
<1>13. CASE \E real, listed \in Lengths : RejectShort(real, listed)
  BY <1>13 DEF RejectShort, NextCandidate
<1>14. CASE \E real, listed \in Lengths : Measured(real, listed)
  BY <1>14 DEF Measured
<1>15. CASE \E why \in {"verified", "acoustid error", "official"} : Confirmed(why)
  BY <1>15 DEF Confirmed, Keep
<1>16. CASE NotVerifiable
  BY <1>16 DEF NotVerifiable, Keep
<1>17. CASE HoldOtherRecording
  BY <1>17 DEF HoldOtherRecording, NextCandidate, HoldFallback
<1>18. CASE Mismatch
  BY <1>18 DEF Mismatch, NextCandidate
<1>19. CASE Unverified
  BY <1>19 DEF Unverified, NextCandidate
<1>20. CASE HoldShortCut
  BY <1>20 DEF HoldShortCut, NextCandidate, HoldFallback
<1>21. CASE KeepCandidate
  BY <1>21
<1>22. CASE KeepLastResort
  BY <1>22
<1>23. CASE KeepUnverified
  BY <1>23
<1>24. CASE Redownload
  BY <1>24 DEF Redownload
<1>25. CASE RedownloadSkipped
  BY <1>25 DEF RedownloadSkipped, End
<1>26. CASE Redownloaded
  BY <1>26
<1>27. CASE RedownloadFailed
  BY <1>27 DEF RedownloadFailed, End, Fail
<1>28. CASE GiveUp
  BY <1>28 DEF GiveUp, End, Fail
<1>29. CASE InternalError
  BY <1>29 DEF InternalError, End
<1>30. CASE \E f \in {"skip", "stop"} : UserFlag(f)
  BY <1>30 DEF UserFlag
<1>31. CASE ToggleAcoustid
  BY <1>31 DEF ToggleAcoustid
<1>32. CASE HeldFileGone
  BY <1>32 DEF HeldFileGone
<1>33. CASE UNCHANGED vars
  BY <1>33 DEF vars
<1>. QED
  BY <1>1, <1>2, <1>3, <1>4, <1>5, <1>6, <1>7, <1>8, <1>9, <1>10, <1>11, <1>12, <1>13,
     <1>14, <1>15, <1>16, <1>17, <1>18, <1>19, <1>20, <1>21, <1>22, <1>23, <1>24, <1>25,
     <1>26, <1>27, <1>28, <1>29, <1>30, <1>31, <1>32, <1>33 DEF Next, Worker

\* -1 stands for a length that was not measured.
LEMMA Unmeasured == ~ (-1 > 0)
  OBVIOUS

LEMMA SoundStep == IInv /\ Sound /\ [Next]_vars => Sound'
<1>. SUFFICES ASSUME IInv, Sound, [Next]_vars PROVE Sound'
  OBVIOUS
<1>a. IInv'
  BY IInvStep
<1>b. TypeInv /\ TypeInv'
  BY <1>a DEF IInv
<1>c. length \in [Candidates -> Lengths \cup {-1}] /\ toggles \in Nat
  BY <1>b, SettingsAssumption DEF TypeInv, TypeOK
<1>1. CASE pc = "end"
  <2>1. UNCHANGED <<status, failures, kept, official, banned, length, offered>>
    BY <1>1, EndStays
  <2>2. toggles' = 0 => toggles = 0
    BY <1>1, <1>c, EndStays
  <2>. QED
    BY <2>1, <2>2 DEF Sound, KeptFileSound, OutcomeOnce, BannedNeverKept, KeptLongEnough,
                      LowScoreNeedsExcuse, LastResortNearest, Diff
<1>2. CASE pc' # "end"
  <2>1. Undecided'
    BY <1>a DEF IInv
  <2>. QED
    BY <1>2, <1>b, <2>1, NothingKeptNext DEF Undecided
<1>3. CASE pc # "end" /\ pc' = "end"
  <2>. USE DEF Sound, KeptFileSound, OutcomeOnce, BannedNeverKept, KeptLongEnough,
               LowScoreNeedsExcuse, LastResortNearest
  <2>1. Undecided /\ NoCandidate \notin Candidates
    BY CandidatesAssumption DEF IInv
  <2>2. status = "pending" /\ failures = 0
    BY <1>3, <2>1 DEF Undecided
  <2>3. CASE KeepCandidate
    <3>1. pc = "keep" /\ ~ short /\ kept' = [cand |-> Current, how |-> how]
      BY <2>3 DEF KeepCandidate, Accept
    <3>2. status' = "done"
          /\ UNCHANGED <<failures, official, banned, length, offered, toggles>>
      BY <2>3 DEF KeepCandidate, End, settings, list
    <3>3. Current \in Candidates /\ Current \notin banned
      BY <3>1, CurrentNotPast DEF IInv, Tried, InWork
    <3>4. /\ how \in {"verified", "acoustid error", "official", "not verifiable"}
          /\ how = "official" => Current = official
          /\ toggles = 0 /\ how = "not verifiable" => Current \notin LowScore
      BY <3>1 DEF IInv, Gated
    <3>5. /\ LongEnough(Current)
          /\ length[Current] > 0 /\ Expected > 0 => length[Current] >= Expected - Tolerance
      BY <3>1 DEF IInv, Fits
    <3>6. OutcomeOnce' /\ BannedNeverKept'
      BY <2>1, <2>2, <3>1, <3>2, <3>3
    <3>7. KeptLongEnough'
      BY <3>1, <3>2, <3>5
    <3>8. LowScoreNeedsExcuse' /\ LastResortNearest'
      BY <3>1, <3>2, <3>4
    <3>. QED
      BY <3>6, <3>7, <3>8
  <2>4. CASE KeepLastResort
    <3>1. pc = "endgame" /\ heldF.cand # NoCandidate
          /\ kept' = [cand |-> heldF.cand, how |-> "last resort"]
      BY <2>4 DEF KeepLastResort, Accept
    <3>2. status' = "done" /\ UNCHANGED <<failures, banned, length, offered>>
      BY <2>4 DEF KeepLastResort, End
    <3>3. heldF.cand \notin banned /\ LongEnough(heldF.cand)
      BY <3>1 DEF IInv, HeldSound, Held
    <3>4. \A c \in offered : Diff(heldF.cand) <= Diff(c)
      BY <3>1 DEF IInv, HeldNearest
    <3>5. OutcomeOnce' /\ BannedNeverKept' /\ LowScoreNeedsExcuse'
      BY <2>2, <3>1, <3>2, <3>3
    <3>6. KeptLongEnough'
      BY <3>1, <3>2, <3>3 DEF LongEnough
    <3>7. LastResortNearest'
      BY <3>1, <3>2, <3>4 DEF Diff
    <3>. QED
      BY <3>5, <3>6, <3>7
  <2>5. CASE KeepUnverified \/ Redownloaded
    <3>1. bestU # NoCandidate /\ bestU \notin LowScore
          /\ kept' = [cand |-> bestU, how |-> "unverified"]
      BY <2>5 DEF KeepUnverified, Redownloaded, Accept, IInv, Gated, GoodScore
    <3>2. status' = "done" /\ UNCHANGED <<failures, banned>>
      BY <2>5 DEF KeepUnverified, Redownloaded, End
    <3>3. length' = length \/ length' = [length EXCEPT ![bestU] = -1]
      BY <2>5 DEF KeepUnverified, Redownloaded
    <3>4. bestU \notin banned /\ LongEnough(bestU)
      BY <3>1 DEF IInv, HeldSound, Held
    <3>5. OutcomeOnce' /\ BannedNeverKept' /\ LowScoreNeedsExcuse' /\ LastResortNearest'
      BY <2>2, <3>1, <3>2, <3>4
    <3>6. length'[bestU] = length[bestU] \/ length'[bestU] = -1
      BY <1>b, <1>c, <3>1, <3>3 DEF TypeInv, TypeOK
    <3>7. KeptLongEnough'
      <4>1. kept'.cand = bestU /\ kept'.how = "unverified"
        BY <3>1
      <4>2. CASE length'[bestU] = -1
        BY <4>1, <4>2, Unmeasured
      <4>3. CASE length'[bestU] = length[bestU]
        BY <3>4, <4>1, <4>3 DEF LongEnough
      <4>. QED
        BY <3>6, <4>2, <4>3
    <3>. QED
      BY <3>5, <3>7
  <2>. QED
    BY <1>3, <1>b, <2>1, <2>3, <2>4, <2>5, EndStep, NothingKeptNext
<1>. QED
  BY <1>1, <1>2, <1>3

LEMMA SoundAlways == Spec => []Sound
<1>1. Init => IInv /\ Sound
  BY IInvInit, NothingKept DEF IInv, Init
<1>2. IInv /\ Sound /\ [Next]_vars => (IInv /\ Sound)'
  BY IInvStep, SoundStep
<1>. QED
  BY <1>1, <1>2, PTL DEF Spec

\* A track is done exactly when it has a file.  The file is of no upload banned in the
\* run; if its length was measured and the track's is known, it is long enough; and
\* if its upload has a low score, AcoustID confirmed it or could not be asked, or it
\* is the official playlist's or the last resort, or AcoustID was switched off in the
\* settings during the run.
THEOREM KeptTheorem == Spec => []KeptFileSound
<1>1. Sound => KeptFileSound
  BY DEF Sound
<1>. QED
  BY <1>1, SoundAlways, PTL

\* A last resort is the nearest in length of all that were ever offered for it.
THEOREM LastResortTheorem == Spec => []LastResortNearest
<1>1. Sound => LastResortNearest
  BY DEF Sound
<1>. QED
  BY <1>1, SoundAlways, PTL

=============================================================================
