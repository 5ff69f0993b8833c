--------------------------- MODULE TrackDownload ---------------------------
(***************************************************************************)
(* One track of an album (_process_track_body in                           *)
(* src/stacks/lidarr-ytdl/patches/processing.py): the candidates from the  *)
(* album's official playlist and from a search are downloaded in turn,     *)
(* measured and fingerprinted, until one is kept; candidates that are not  *)
(* good enough are banned or held as a fallback.  The user may skip the    *)
(* track or stop the album at any moment.                                  *)
(*                                                                         *)
(* YouTube, AcoustID and the file system answer nondeterministically.      *)
(* Lengths are in units of ten seconds.                                    *)
(***************************************************************************)
EXTENDS Integers, SequencesExt

CONSTANTS
    Candidates,    \* uploads that a playlist or a search may return
    NoCandidate,   \* "no upload"
    LowScore,      \* those whose match score is below min_match_score
    Expected,      \* the MusicBrainz length of the track, 0 if unknown
    Lengths,       \* lengths a file or a listing may have, 0 if unknown
    Tolerance,     \* duration_tolerance
    HasRecording,  \* does the track have a MusicBrainz recording id?
    MaxToggles     \* bound on changes of the AcoustID setting

ASSUME CandidatesAssumption ==
    /\ IsFiniteSet(Candidates)
    /\ NoCandidate \notin Candidates /\ LowScore \subseteq Candidates
ASSUME LengthsAssumption ==
    Expected \in Nat /\ Lengths \subseteq Nat /\ Tolerance \in Nat
ASSUME SettingsAssumption == HasRecording \in BOOLEAN /\ MaxToggles \in Nat

VARIABLES
    pc,         \* where the track's worker is
    status,     \* track_state["status"], as far as it says how the track ended
    flag,       \* "none", "skip" (this track), "stop" (the whole album)
    acoustid,   \* is AcoustID configured at the moment?
    toggles,    \* changes of that setting so far
    will,       \* will_verify, read once before the loop
    official,   \* the upload of the official playlist, matched by title
    cands,      \* candidates
    pos,        \* index of the candidate being tried
    searched,   \* searched[0]
    temps,      \* uploads whose temp file is on disk
    banned,     \* uploads banned in this run
    length,     \* the measured length of a file, -1 if it was never measured
    short,      \* short_note of the current candidate
    how,        \* why the current candidate is about to be kept
    bestU,      \* best_unverified_candidate, whose file is held_unverified
    heldF,      \* held_fallback
    offered,    \* ghost: uploads that were offered to _hold_fallback
    diskFull,   \* last_download_error says "no space left"
    paused,     \* the queue was paused by _pause_queue_for_full_disk
    noted,      \* uploads passed to _note_unverified_keep
    kept,       \* the upload that became the track's file, and why
    failures    \* entries of failed_tracks, and download rows with success=False

settings == <<flag, acoustid, toggles>>
list == <<will, official, cands, pos, searched>>
files == <<temps, banned, length, bestU, heldF, offered>>
results == <<status, diskFull, paused, noted, kept, failures>>
vars == <<pc, settings, list, files, short, how, results>>

Current == cands[pos]
SkipCheck == flag # "none"
NullHeld == [cand |-> NoCandidate, diff |-> 0]
NullKept == [cand |-> NoCandidate, how |-> "none"]
Reasons == {"none", "verified", "acoustid error", "official", "not verifiable",
            "last resort", "unverified"}

TypeOK ==
    /\ pc \in {"start", "loop", "fetch", "measure", "verify", "keep", "endgame",
               "redownload", "end"}
    /\ status \in {"pending", "done", "failed", "skipped", "interrupted"}
    /\ flag \in {"none", "skip", "stop"}
    /\ acoustid \in BOOLEAN /\ toggles \in 0..MaxToggles /\ will \in BOOLEAN
    /\ official \in Candidates \cup {NoCandidate}
    /\ cands \in Seq(Candidates) /\ pos \in Nat \ {0} /\ searched \in BOOLEAN
    /\ temps \subseteq Candidates /\ banned \subseteq Candidates
    /\ length \in [Candidates -> Lengths \cup {-1}]
    /\ short \in BOOLEAN /\ how \in Reasons
    /\ bestU \in Candidates \cup {NoCandidate}
    /\ heldF.cand \in Candidates \cup {NoCandidate} /\ heldF.diff \in Nat
    /\ offered \subseteq Candidates
    /\ diskFull \in BOOLEAN /\ paused \in BOOLEAN /\ noted \subseteq Candidates
    /\ kept.cand \in Candidates \cup {NoCandidate} /\ kept.how \in Reasons
    /\ failures \in Nat

Init ==
    /\ pc = "start" /\ status = "pending"
    /\ flag = "none" /\ acoustid \in BOOLEAN /\ toggles = 0 /\ will = FALSE
    /\ official \in Candidates \cup {NoCandidate}
    /\ cands = <<>> /\ pos = 1 /\ searched = FALSE
    /\ temps = {} /\ banned = {} /\ length = [c \in Candidates |-> -1]
    /\ short = FALSE /\ how = "none"
    /\ bestU = NoCandidate /\ heldF = NullHeld /\ offered = {}
    /\ diskFull = FALSE /\ paused = FALSE /\ noted = {}
    /\ kept = NullKept /\ failures = 0

-----------------------------------------------------------------------------
(* The user and the settings. *)

\* Skip the track, or stop the album.
UserFlag(f) ==
    /\ pc # "end"
    /\ flag = "none" \/ (flag = "skip" /\ f = "stop")
    /\ flag' = f
    /\ UNCHANGED <<pc, acoustid, toggles, list, files, short, how, results>>

\* AcoustID is switched on or off in the settings.
ToggleAcoustid ==
    /\ toggles < MaxToggles
    /\ toggles' = toggles + 1
    /\ acoustid' = ~acoustid
    /\ UNCHANGED <<pc, flag, list, files, short, how, results>>

-----------------------------------------------------------------------------
(* How a track ends. *)

End(s) ==
    /\ pc' = "end"
    /\ status' = s

\* _accept_track_file: the temp file becomes the track's file.
Accept(c, why) == kept' = [cand |-> c, how |-> why]

\* _record_track_failure, after the pause for a full disk.
Fail ==
    /\ End("failed")
    /\ failures' = failures + 1
    /\ paused' = (paused \/ diskFull)

-----------------------------------------------------------------------------
(* Candidates. *)

\* What a search may return of the uploads S, in its order of preference.
Results(S) == UNION {SetToSeqs(T) : T \in SUBSET S}

\* The worker starts: the playlist's upload, matched by title or, if there is no
\* such title, by position, is the only candidate; or a search gives the
\* candidates, possibly none.  will_verify is fixed here.
Begin ==
    /\ pc = "start"
    /\ ~SkipCheck
    /\ \/ official # NoCandidate /\ cands' = <<official>> /\ searched' = FALSE
       \/ /\ official = NoCandidate
          /\ \/ \E c \in Candidates : cands' = <<c>> /\ searched' = FALSE
             \/ \E s \in Results(Candidates) : cands' = s /\ searched' = TRUE
    /\ pc' = "loop"
    /\ will' = (acoustid /\ HasRecording)
    /\ UNCHANGED <<settings, official, pos, files, short, how, results>>

SkippedAtOnce ==
    /\ pc = "start"
    /\ SkipCheck
    /\ End("skipped")
    /\ UNCHANGED <<settings, list, files, short, how, diskFull, paused, noted, kept, failures>>

\* _extend_with_search leaves out what has been tried.
Untried == Candidates \ Range(cands)

\* A mutant of MaySearch: searched[0] is never looked at.
MaySearchAgain == ~SkipCheck

MaySearch == ~searched /\ ~SkipCheck

\* The playlist's upload was not usable: search, once.
Extend ==
    /\ pc = "loop"
    /\ pos > Len(cands)
    /\ MaySearch
    /\ \E s \in Results(Untried) : cands' = cands \o s
    /\ searched' = TRUE
    /\ UNCHANGED <<pc, settings, will, official, pos, files, short, how, results>>

Exhausted ==
    /\ pc = "loop"
    /\ pos > Len(cands)
    /\ ~MaySearch
    /\ pc' = "endgame"
    /\ UNCHANGED <<settings, list, files, short, how, results>>

\* The flag is read before every candidate.
SkippedInLoop ==
    /\ pc = "loop"
    /\ pos <= Len(cands)
    /\ SkipCheck
    /\ temps' = temps \ {bestU}
    /\ End("skipped")
    /\ UNCHANGED <<settings, list, banned, length, bestU, heldF, offered, short, how,
                   diskFull, paused, noted, kept, failures>>

GoodScore(c) == c \notin LowScore

\* Nothing will verify the candidate and its score is too low.
RejectLowScore ==
    /\ pc = "loop"
    /\ pos <= Len(cands)
    /\ ~SkipCheck
    /\ ~will /\ ~GoodScore(Current)
    /\ pos' = pos + 1
    /\ UNCHANGED <<pc, settings, will, official, cands, searched, files, short, how, results>>

Try ==
    /\ pc = "loop"
    /\ pos <= Len(cands)
    /\ ~SkipCheck
    /\ will \/ GoodScore(Current)
    /\ pc' = "fetch"
    /\ UNCHANGED <<settings, list, files, short, how, results>>

NextCandidate ==
    /\ pc' = "loop"
    /\ pos' = pos + 1

-----------------------------------------------------------------------------
(* Downloading and measuring a candidate. *)

\* _is_live_stream: the URL is banned, nothing is downloaded.
LiveStream ==
    /\ pc = "fetch"
    /\ banned' = banned \cup {Current}
    /\ NextCandidate
    /\ UNCHANGED <<settings, will, official, cands, searched, temps, length, bestU, heldF,
                   offered, short, how, results>>

\* The user's flag reached the download.
DownloadSkipped ==
    /\ pc = "fetch"
    /\ SkipCheck
    /\ temps' = temps \ {bestU, Current}
    /\ End("skipped")
    /\ UNCHANGED <<settings, list, banned, length, bestU, heldF, offered, short, how,
                   diskFull, paused, noted, kept, failures>>

\* The download fails: for a reason that is remembered in last_download_error,
\* or by an exception or a missing file, which are not.
DownloadFailed(full) ==
    /\ pc = "fetch"
    /\ diskFull' = full
    /\ NextCandidate
    /\ UNCHANGED <<settings, will, official, cands, searched, files, short, how, status, paused,
                   noted, kept, failures>>

\* ffmpeg failed on this host: no other candidate would do better.
PostprocessError(full) ==
    /\ pc = "fetch"
    /\ diskFull' = full
    /\ pc' = "endgame"
    /\ UNCHANGED <<settings, list, files, short, how, status, paused, noted, kept, failures>>

Downloaded ==
    /\ pc = "fetch"
    /\ temps' = temps \cup {Current}
    /\ pc' = "measure"
    /\ UNCHANGED <<settings, list, banned, length, bestU, heldF, offered, short, how, results>>

\* _too_short, for a file of length real listed at the length listed.
TooShort(real, listed) ==
    /\ real > 0
    /\ \/ Expected > 0 /\ real < Expected - Tolerance
       \/ listed > 0 /\ real < listed - Tolerance

\* A mutant of CloseEnough: any short file counts as a shorter cut.
AnyCut(real) == Expected > 0

\* Within SHORT_FALLBACK_FRACTION: a shorter cut of the right song.
CloseEnough(real) == Expected > 0 /\ 4 * real >= 3 * Expected

\* The file is rejected and its URL banned.
RejectShort(real, listed) ==
    /\ pc = "measure"
    /\ TooShort(real, listed) /\ ~CloseEnough(real)
    /\ length' = [length EXCEPT ![Current] = real]
    /\ temps' = temps \ {Current}
    /\ banned' = banned \cup {Current}
    /\ NextCandidate
    /\ UNCHANGED <<settings, will, official, cands, searched, bestU, heldF, offered, short, how,
                   results>>

Measured(real, listed) ==
    /\ pc = "measure"
    /\ ~TooShort(real, listed) \/ CloseEnough(real)
    /\ length' = [length EXCEPT ![Current] = real]
    /\ short' = TooShort(real, listed)
    /\ pc' = "verify"
    /\ UNCHANGED <<settings, list, temps, banned, bestU, heldF, offered, how, results>>

-----------------------------------------------------------------------------
(* Verifying it: should_verify is read again for every candidate. *)

ShouldVerify == acoustid /\ HasRecording

Keep(why) ==
    /\ pc' = "keep"
    /\ how' = why

\* AcoustID confirms the recording, cannot be asked (verify_fingerprint returns
\* None), or does not confirm an upload of the official playlist.
Confirmed(why) ==
    /\ pc = "verify"
    /\ ShouldVerify
    /\ why = "official" => Current = official
    /\ Keep(why)
    /\ UNCHANGED <<settings, list, files, short, results>>

\* There is nothing to verify with.
NotVerifiable ==
    /\ pc = "verify"
    /\ ~ShouldVerify
    /\ Keep("not verifiable")
    /\ noted' = noted \cup {Current}
    /\ UNCHANGED <<settings, list, files, short, status, diskFull, paused, kept, failures>>

\* A mutant of Diff: abs() is forgotten.
SignedDiff(c) == length[c] - Expected

Diff(c) ==
    IF length[c] >= Expected THEN length[c] - Expected ELSE Expected - length[c]

\* A mutant of HeldIsBetter: the later one always wins.
HeldIsNeverBetter(c) == FALSE

HeldIsBetter(c) == heldF.cand # NoCandidate /\ heldF.diff <= Diff(c)

\* _hold_fallback: of two, the one whose length is nearer stays on disk.
HoldFallback(c) ==
    /\ IF HeldIsBetter(c)
       THEN temps' = temps \ {c} /\ UNCHANGED heldF
       ELSE temps' = temps \ {heldF.cand} /\ heldF' = [cand |-> c, diff |-> Diff(c)]
    /\ offered' = offered \cup {c}

\* AcoustID hears another recording of the same song, of about the length.
HoldOtherRecording ==
    /\ pc = "verify"
    /\ ShouldVerify
    /\ Current # official
    /\ Expected > 0 /\ 4 * Diff(Current) <= Expected
    /\ HoldFallback(Current)
    /\ NextCandidate
    /\ UNCHANGED <<settings, will, official, cands, searched, banned, length, bestU, short, how,
                   results>>

BestAfterMismatch == bestU

\* AcoustID hears another song: rejected and banned.
Mismatch ==
    /\ pc = "verify"
    /\ ShouldVerify
    /\ Current # official
    /\ temps' = temps \ {Current}
    /\ banned' = banned \cup {Current}
    /\ bestU' = BestAfterMismatch
    /\ NextCandidate
    /\ UNCHANGED <<settings, will, official, cands, searched, length, heldF, offered, short, how,
                   results>>

\* A mutant of UnverifiedTemps: the file of a second one is forgotten.
UnverifiedTempsKept == temps

UnverifiedTemps == IF bestU = NoCandidate THEN temps ELSE temps \ {Current}

\* AcoustID has no data: the first such upload is held, others are removed.
Unverified ==
    /\ pc = "verify"
    /\ ShouldVerify
    /\ Current # official
    /\ bestU' = IF bestU = NoCandidate THEN Current ELSE bestU
    /\ temps' = UnverifiedTemps
    /\ NextCandidate
    /\ UNCHANGED <<settings, will, official, cands, searched, banned, length, heldF, offered,
                   short, how, results>>

\* A shorter cut is only held, whatever AcoustID said.
HoldShortCut ==
    /\ pc = "keep"
    /\ short
    /\ HoldFallback(Current)
    /\ NextCandidate
    /\ UNCHANGED <<settings, will, official, cands, searched, banned, length, bestU, short, how,
                   results>>

\* The candidate is kept and what was held for worse times is removed.
KeepCandidate ==
    /\ pc = "keep"
    /\ ~short
    /\ Accept(Current, how)
    /\ temps' = temps \ {Current, bestU, heldF.cand}
    /\ heldF' = NullHeld
    /\ End("done")
    /\ UNCHANGED <<settings, list, banned, length, bestU, offered, short, how, diskFull, paused,
                   noted, failures>>

-----------------------------------------------------------------------------
(* No candidate was good enough. *)

\* The held file is kept when there is no unverified one.
KeepLastResort ==
    /\ pc = "endgame"
    /\ heldF.cand # NoCandidate /\ bestU = NoCandidate
    /\ Accept(heldF.cand, "last resort")
    /\ temps' = temps \ {heldF.cand}
    /\ heldF' = NullHeld
    /\ End("done")
    /\ UNCHANGED <<settings, list, banned, length, bestU, offered, short, how, diskFull, paused,
                   noted, failures>>

\* The unverified one is kept if its score allows.
KeepUnverified ==
    /\ pc = "endgame"
    /\ bestU # NoCandidate /\ GoodScore(bestU)
    /\ bestU \in temps
    /\ Accept(bestU, "unverified")
    /\ noted' = noted \cup {bestU}
    /\ temps' = temps \ {bestU}
    /\ End("done")
    /\ UNCHANGED <<settings, list, banned, length, bestU, heldF, offered, short, how, diskFull,
                   paused, failures>>

\* Somebody removed the held file.
HeldFileGone ==
    /\ pc = "loop"
    /\ bestU \in temps
    /\ temps' = temps \ {bestU}
    /\ UNCHANGED <<pc, settings, list, banned, length, bestU, heldF, offered, short, how, results>>

\* Then it is downloaded again, and kept without being measured.
Redownload ==
    /\ pc = "endgame"
    /\ bestU # NoCandidate /\ GoodScore(bestU)
    /\ bestU \notin temps
    /\ pc' = "redownload"
    /\ UNCHANGED <<settings, list, files, short, how, results>>

RedownloadSkipped ==
    /\ pc = "redownload"
    /\ SkipCheck
    /\ End("skipped")
    /\ UNCHANGED <<settings, list, files, short, how, diskFull, paused, noted, kept, failures>>

Redownloaded ==
    /\ pc = "redownload"
    /\ Accept(bestU, "unverified")
    /\ noted' = noted \cup {bestU}
    /\ length' = [length EXCEPT ![bestU] = -1]
    /\ End("done")
    /\ UNCHANGED <<settings, list, temps, banned, bestU, heldF, offered, short, how, diskFull,
                   paused, failures>>

RedownloadFailed ==
    /\ pc = "redownload"
    /\ Fail
    /\ UNCHANGED <<settings, list, files, short, how, diskFull, noted, kept>>

\* Nothing to keep; an unverified upload with a low score is dropped.
GiveUp ==
    /\ pc = "endgame"
    /\ \/ bestU = NoCandidate /\ heldF.cand = NoCandidate
       \/ bestU # NoCandidate /\ ~GoodScore(bestU)
    /\ temps' = temps \ {bestU}
    /\ bestU' = NoCandidate
    /\ IF cands = <<>> /\ SkipCheck
       THEN End("skipped") /\ UNCHANGED <<failures, paused>>
       ELSE Fail
    /\ UNCHANGED <<settings, list, banned, length, heldF, offered, short, how, diskFull, noted,
                   kept>>

\* An exception (searching, tagging, fingerprinting, moving the file).  The album's
\* thread removes the track's temp files and records the failure, unless the album
\* was stopped: then it has left its loop, and nobody hears of the exception.
InternalError ==
    /\ \/ pc \in {"start", "measure", "verify", "keep", "redownload"}
       \/ pc = "loop" /\ pos > Len(cands) /\ ~searched
       \/ pc = "endgame" /\ {bestU, heldF.cand} # {NoCandidate}
    /\ IF flag = "stop"
       THEN End("interrupted") /\ UNCHANGED <<temps, failures>>
       ELSE End("failed") /\ temps' = {} /\ failures' = failures + 1
    /\ UNCHANGED <<settings, list, banned, length, bestU, heldF, offered, short, how, diskFull,
                   paused, noted, kept>>

-----------------------------------------------------------------------------
Worker ==
    \/ Begin \/ SkippedAtOnce \/ Extend \/ Exhausted \/ SkippedInLoop \/ RejectLowScore \/ Try
    \/ LiveStream \/ DownloadSkipped \/ Downloaded
    \/ \E full \in BOOLEAN : DownloadFailed(full) \/ PostprocessError(full)
    \/ \E real, listed \in Lengths : RejectShort(real, listed) \/ Measured(real, listed)
    \/ \E why \in {"verified", "acoustid error", "official"} : Confirmed(why)
    \/ NotVerifiable \/ HoldOtherRecording \/ Mismatch \/ Unverified
    \/ HoldShortCut \/ KeepCandidate
    \/ KeepLastResort \/ KeepUnverified
    \/ Redownload \/ RedownloadSkipped \/ Redownloaded \/ RedownloadFailed
    \/ GiveUp \/ InternalError

Next ==
    \/ Worker
    \/ \E f \in {"skip", "stop"} : UserFlag(f)
    \/ ToggleAcoustid
    \/ HeldFileGone
    \/ pc = "end" /\ UNCHANGED vars

Spec == Init /\ [][Next]_vars
FairSpec == Spec /\ WF_vars(Worker)

-----------------------------------------------------------------------------
(* Properties. *)

Held == {bestU, heldF.cand}
InHand == IF pc \in {"measure", "verify", "keep"} THEN {Current} ELSE {}

\* The last resort a worker still held when it returned.  Nobody removes its file
\* when the track ends as skipped, as failed, or with an unverified upload.
LastResortLeft ==
    IF status = "done" /\ kept.how # "unverified" THEN {} ELSE {heldF.cand}

\* The upload at which the worker's list stands.
AtHand == {cands[i] : i \in {pos} \cap DOMAIN cands}

\* While the worker runs, every temp file on disk is the one it is looking at or one
\* of the two it holds.  When it has returned, the only one it may have left behind
\* is its last resort, and none if it kept a verified upload or that last resort.
\* An exception that meets a stop leaves no more than was in hand or held.
NoTempForgotten ==
    /\ pc # "end" => temps \subseteq InHand \cup Held
    /\ pc = "end" /\ status # "interrupted" => temps \subseteq LastResortLeft
    /\ status = "interrupted" => temps \subseteq AtHand \cup Held

\* A track never gets a file from an upload that this run banned for it, neither
\* from a later search nor as a fallback.
BannedNeverKept == kept.cand \notin banned

\* A file that was measured is kept only if it is within SHORT_FALLBACK_FRACTION of
\* the expected length, and as the first choice only within duration_tolerance.  It
\* says nothing of a file whose length could not be read (0), of one that was
\* downloaded again and not measured (-1), and of a track of unknown length.
KeptLongEnough ==
    LET real == length[kept.cand]
    IN  kept.cand # NoCandidate /\ real > 0 /\ Expected > 0 =>
        /\ real >= Expected - Tolerance \/ 4 * real >= 3 * Expected
        /\ kept.how \notin {"last resort", "unverified"} => real >= Expected - Tolerance

\* A last resort is the best of all that were held for it on the way, however
\* many came and went: none had a length nearer to the expected one.
LastResortNearest ==
    kept.how = "last resort" => \A c \in offered : Diff(kept.cand) <= Diff(c)

\* An upload with a low match score is kept only if AcoustID confirmed it or could
\* not be asked (verify_fingerprint returned None: the code keeps the file), if it
\* is the one of the official playlist, if it is the last resort, or if AcoustID was
\* switched off in the settings while the track was tried.
LowScoreNeedsExcuse ==
    kept.cand \in LowScore =>
        \/ kept.how \in {"verified", "acoustid error", "last resort"}
        \/ kept.how = "official" /\ kept.cand = official
        \/ kept.how = "not verifiable" /\ toggles # 0

\* The file, the status and the failure list agree: a track that has its file is
\* done and not among the failures, and one that failed is counted once.
OutcomeOnce ==
    /\ (kept.cand # NoCandidate) <=> (status = "done")
    /\ failures = IF status = "failed" THEN 1 ELSE 0

\* A track is done exactly when it has a file, and the file is of no upload banned in
\* this run, if it was measured long enough, and of no low score but with one of the
\* excuses above.
KeptFileSound ==
    OutcomeOnce /\ BannedNeverKept /\ KeptLongEnough /\ LowScoreNeedsExcuse

\* Every track comes to an end, whatever YouTube and AcoustID answer.
TrackEnds == <>(pc = "end")
=============================================================================
