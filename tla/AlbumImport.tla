---------------------------- MODULE AlbumImport ----------------------------
(***************************************************************************)
(* The files of albums over several runs of process_album_download         *)
(* (src/stacks/lidarr-ytdl/patches/processing.py): tracks are downloaded   *)
(* to the album's folder under DOWNLOAD_PATH, copied to the library under  *)
(* LIDARR_PATH, and the download folder is deleted.  A Lidarr grab (a      *)
(* client run) leaves its files for Lidarr to import.  All the albums here *)
(* have the same artist, so their folders share the artist's folder.       *)
(*                                                                         *)
(* How a track is downloaded is module TrackDownload; which album runs     *)
(* when is module AlbumQueue, from which this one takes that an album has  *)
(* one run at a time and that one run at a time is not a client's.         *)
(***************************************************************************)
EXTENDS Naturals, FiniteSets

CONSTANTS
    Albums,      \* albums of one artist
    Tracks,      \* the tracks of an album
    Temp,        \* a temp file that a track's download left behind
    LidarrPaths, \* LIDARR_PATH: an "other" folder than DOWNLOAD_PATH, the "same", "none"
    MaxRuns,     \* bound on the runs
    MaxCrashes   \* bound on the crashes

ASSUME TempAssumption == Temp \notin Tracks
ASSUME PathAssumption == LidarrPaths \subseteq {"other", "same", "none"}
ASSUME BoundsAssumption == MaxRuns \in Nat /\ MaxCrashes \in Nat

VARIABLES
    pc,        \* pc[a]: where the album's run is
    client,    \* client[a]: is it a Lidarr grab?
    todo,      \* todo[a]: tracks still to be downloaded in this run
    won,       \* succeeded_tracks
    lost,      \* failed_tracks
    cut,       \* tracks that were left out because of a stop
    stop,      \* state["stop"]
    tocopy,    \* what is left of the listing that is being copied
    result,    \* what the last run returned
    staging,   \* what is in the download folder
    whole,     \* what is in the library
    partial,   \* files in the library whose copy was cut short
    hasFile,   \* tracks Lidarr has a file for
    failing,   \* tracks whose last download failed
    handed,    \* is a finished grab waiting for Lidarr?
    obtained,  \* ghost: tracks that were ever downloaded
    setting,   \* LIDARR_PATH, which of LidarrPaths it is
    runs, crashes

run == <<pc, client, todo, won, lost, cut, stop, tocopy, result>>
disk == <<staging, whole, partial>>
lidarr == <<hasFile, handed>>
counters == <<setting, runs, crashes>>
vars == <<run, disk, lidarr, failing, obtained, counters>>

Items == Tracks \cup {Temp}
InLibrary(a) == whole[a] \cup partial[a]

TypeOK ==
    /\ pc \in [Albums -> {"idle", "download", "after", "copy", "placed", "end"}]
    /\ client \in [Albums -> BOOLEAN] /\ stop \in [Albums -> BOOLEAN]
    /\ todo \in [Albums -> SUBSET Tracks] /\ won \in [Albums -> SUBSET Tracks]
    /\ lost \in [Albums -> SUBSET Tracks] /\ cut \in [Albums -> SUBSET Tracks]
    /\ hasFile \in [Albums -> SUBSET Tracks] /\ failing \in [Albums -> SUBSET Tracks]
    /\ obtained \in [Albums -> SUBSET Tracks] /\ tocopy \in [Albums -> SUBSET Items]
    /\ staging \in [Albums -> SUBSET Items]
    /\ whole \in [Albums -> SUBSET Items] /\ partial \in [Albums -> SUBSET Items]
    /\ result \in [Albums -> {"none", "success", "error", "stopped"}]
    /\ handed \in [Albums -> BOOLEAN]
    /\ setting \in LidarrPaths
    /\ runs \in 0..MaxRuns /\ crashes \in 0..MaxCrashes

Nothing == [a \in Albums |-> {}]
Nowhere == [a \in Albums |-> FALSE]

Init ==
    /\ pc = [a \in Albums |-> "idle"]
    /\ client = Nowhere /\ stop = Nowhere /\ handed = Nowhere
    /\ todo = Nothing /\ won = Nothing /\ lost = Nothing /\ cut = Nothing
    /\ tocopy = Nothing /\ staging = Nothing /\ whole = Nothing /\ partial = Nothing
    /\ hasFile = Nothing /\ failing = Nothing /\ obtained = Nothing
    /\ result = [a \in Albums |-> "none"]
    /\ setting \in LidarrPaths
    /\ runs = 0 /\ crashes = 0

Return(a, r) ==
    /\ pc' = [pc EXCEPT ![a] = "idle"]
    /\ result' = [result EXCEPT ![a] = r]

Goto(a, where) == pc' = [pc EXCEPT ![a] = where]

-----------------------------------------------------------------------------
(* The start of a run. *)

\* _filter_tracks: unless forced, what Lidarr has, what is backing off and what
\* is on disk is left out.
ToDownload(a, force, deferred) ==
    IF force THEN Tracks ELSE Tracks \ (hasFile[a] \cup deferred \cup staging[a])

\* A run begins, with a fresh state; c says that it is a client's.
NewRun(a, c) ==
    /\ pc[a] = "idle"
    /\ runs < MaxRuns
    /\ c \/ \A b \in Albums : pc[b] # "idle" => client[b]
    /\ runs' = runs + 1
    /\ client' = [client EXCEPT ![a] = c]
    /\ stop' = [stop EXCEPT ![a] = FALSE]
    /\ won' = [won EXCEPT ![a] = {}]
    /\ lost' = [lost EXCEPT ![a] = {}]
    /\ cut' = [cut EXCEPT ![a] = {}]

\* A run by the scheduler, by hand or (c) by Lidarr; with eager, backoff is ignored.
Start(a, c, force, eager) ==
    /\ NewRun(a, c)
    /\ c => eager
    /\ \E deferred \in SUBSET failing[a] :
         /\ force \/ eager => deferred = {}
         /\ ToDownload(a, force, deferred) # {}
         /\ todo' = [todo EXCEPT ![a] = ToDownload(a, force, deferred)]
    /\ Goto(a, "download")
    /\ result' = [result EXCEPT ![a] = "none"]
    /\ UNCHANGED <<tocopy, disk, lidarr, failing, obtained, setting, crashes>>

\* Nothing to download: the run is a success ("Skipped"), and what a grab finds in the
\* download folder is Lidarr's to import.
NothingToDo(a, c) ==
    /\ NewRun(a, c)
    /\ \E deferred \in SUBSET failing[a] :
         /\ c => deferred = {}
         /\ ToDownload(a, FALSE, deferred) = {}
    /\ result' = [result EXCEPT ![a] = "success"]
    /\ handed' = [handed EXCEPT ![a] = @ \/ (c /\ staging[a] # {})]
    /\ UNCHANGED <<pc, todo, tocopy, disk, hasFile, failing, obtained, setting, crashes>>

\* Lidarr gives no album, tracks or release, or the download folder cannot be made.
StartFails(a, c) ==
    /\ NewRun(a, c)
    /\ result' = [result EXCEPT ![a] = "error"]
    /\ UNCHANGED <<pc, todo, tocopy, disk, lidarr, failing, obtained, setting, crashes>>

UserStop(a) ==
    /\ pc[a] # "idle" /\ ~stop[a]
    /\ stop' = [stop EXCEPT ![a] = TRUE]
    /\ UNCHANGED <<pc, client, todo, won, lost, cut, tocopy, result, disk, lidarr, failing,
                   obtained, counters>>

-----------------------------------------------------------------------------
(* Its tracks. *)

\* The track's file is in the download folder; a temp file may be left there too.
TrackDone(a, t, leak) ==
    /\ pc[a] = "download" /\ t \in todo[a]
    /\ todo' = [todo EXCEPT ![a] = @ \ {t}]
    /\ won' = [won EXCEPT ![a] = @ \cup {t}]
    /\ staging' = [staging EXCEPT ![a] = @ \cup {t} \cup leak]
    /\ failing' = [failing EXCEPT ![a] = @ \ {t}]
    /\ obtained' = [obtained EXCEPT ![a] = @ \cup {t}]
    /\ UNCHANGED <<pc, client, lost, cut, stop, tocopy, result, whole, partial, lidarr, counters>>

TrackFails(a, t) ==
    /\ pc[a] = "download" /\ t \in todo[a]
    /\ todo' = [todo EXCEPT ![a] = @ \ {t}]
    /\ lost' = [lost EXCEPT ![a] = @ \cup {t}]
    /\ failing' = [failing EXCEPT ![a] = @ \cup {t}]
    /\ UNCHANGED <<pc, client, won, cut, stop, tocopy, result, disk, lidarr, obtained, counters>>

\* The user skips the track, or stopped the album.
TrackSkipped(a, t) ==
    /\ pc[a] = "download" /\ t \in todo[a]
    /\ todo' = [todo EXCEPT ![a] = @ \ {t}]
    /\ cut' = IF stop[a] THEN [cut EXCEPT ![a] = @ \cup {t}] ELSE cut
    /\ UNCHANGED <<pc, client, won, lost, stop, tocopy, result, disk, lidarr, failing, obtained,
                   counters>>

TracksDone(a) ==
    /\ pc[a] = "download" /\ todo[a] = {}
    /\ Goto(a, "after")
    /\ UNCHANGED <<client, todo, won, lost, cut, stop, tocopy, result, disk, lidarr, failing,
                   obtained, counters>>

-----------------------------------------------------------------------------
(* What becomes of them. *)

\* A mutant of Abandon: what was finished is not looked at.
AbandonClientsOnly(a) == stop[a] /\ client[a]

\* A stopped run ends here, unless it is not a grab and some track is done.
Abandon(a) == stop[a] /\ (client[a] \/ won[a] = {})

Stopped(a) ==
    /\ pc[a] = "after"
    /\ Abandon(a)
    /\ Return(a, "stopped")
    /\ UNCHANGED <<client, todo, won, lost, cut, stop, tocopy, disk, lidarr, failing, obtained,
                   counters>>

\* Every track that was not skipped failed.
AllFailed(a) == lost[a] # {} /\ won[a] = {}

\* _handle_post_download: nothing to import.
Failed(a) ==
    /\ pc[a] = "after"
    /\ ~Abandon(a)
    /\ AllFailed(a)
    /\ Return(a, "error")
    /\ UNCHANGED <<client, todo, won, lost, cut, stop, tocopy, disk, lidarr, failing, obtained,
                   counters>>

\* The files of a grab stay where they are.
HandOver(a) ==
    /\ pc[a] = "after"
    /\ ~Abandon(a) /\ ~AllFailed(a)
    /\ client[a]
    /\ Return(a, "success")
    /\ handed' = [handed EXCEPT ![a] = TRUE]
    /\ UNCHANGED <<client, todo, won, lost, cut, stop, tocopy, disk, hasFile, failing, obtained,
                   counters>>

\* A mutant of Listing: temp files are copied like the others.
ListEverything(a) == staging[a]

\* os.listdir of the download folder, temp files left out.
Listing(a) == staging[a] \ {Temp}

\* _copy_to_lidarr, when there is a library in another folder.
StartCopy(a) ==
    /\ pc[a] = "after"
    /\ ~Abandon(a) /\ ~AllFailed(a)
    /\ ~client[a] /\ setting = "other"
    /\ tocopy' = [tocopy EXCEPT ![a] = Listing(a)]
    /\ Goto(a, "copy")
    /\ UNCHANGED <<client, todo, won, lost, cut, stop, result, disk, lidarr, failing, obtained,
                   counters>>

\* A mutant of AfterNoCopy and AfterCopyError: what was not copied counts as copied.
PlacedAnyway == "placed"

AfterNoCopy == "end"

\* The download folder is the library, or there is none: nothing is copied or deleted.
NoCopy(a) ==
    /\ pc[a] = "after"
    /\ ~Abandon(a) /\ ~AllFailed(a)
    /\ ~client[a] /\ setting # "other"
    /\ Goto(a, AfterNoCopy)
    /\ UNCHANGED <<client, todo, won, lost, cut, stop, tocopy, result, disk, lidarr, failing,
                   obtained, counters>>

CopyItem(a, i) ==
    /\ pc[a] = "copy"
    /\ i \in tocopy[a] \cap staging[a]
    /\ tocopy' = [tocopy EXCEPT ![a] = @ \ {i}]
    /\ whole' = [whole EXCEPT ![a] = @ \cup {i}]
    /\ partial' = [partial EXCEPT ![a] = @ \ {i}]
    /\ UNCHANGED <<pc, client, todo, won, lost, cut, stop, result, staging, lidarr, failing,
                   obtained, counters>>

\* A listed file that has gone by now, to Lidarr's import of an earlier grab, is passed
\* over, and the copy is none the worse for it.
SkipGone(a, i) ==
    /\ pc[a] = "copy"
    /\ i \in tocopy[a] \ staging[a]
    /\ tocopy' = [tocopy EXCEPT ![a] = @ \ {i}]
    /\ UNCHANGED <<pc, client, todo, won, lost, cut, stop, result, disk, lidarr, failing,
                   obtained, counters>>

\* The copy of a file is cut short: what was there is overwritten.
CutShort(a, i) ==
    /\ whole' = [whole EXCEPT ![a] = @ \ {i}]
    /\ partial' = [partial EXCEPT ![a] = @ \cup {i}]

AfterCopyError == "end"

\* A file goes just before it is opened, the library is full, not mounted or not
\* writable: nothing is deleted and the run is reported like any other.
CopyFails(a) ==
    /\ pc[a] = "copy"
    /\ \/ UNCHANGED <<whole, partial>>
       \/ \E i \in tocopy[a] \cap staging[a] : CutShort(a, i)
    /\ Goto(a, AfterCopyError)
    /\ UNCHANGED <<client, todo, won, lost, cut, stop, tocopy, result, staging, lidarr, failing,
                   obtained, counters>>

CopyDone(a) ==
    /\ pc[a] = "copy" /\ tocopy[a] = {}
    /\ Goto(a, "placed")
    /\ UNCHANGED <<client, todo, won, lost, cut, stop, tocopy, result, disk, lidarr, failing,
                   obtained, counters>>

\* Only the album's own folder is removed.
Removable(a) == {a}

\* rmtree; an error may leave some of it.
CleanUp(a) ==
    /\ pc[a] = "placed"
    /\ \E rest \in SUBSET staging[a] :
         staging' = [b \in Albums |-> IF b \in Removable(a)
                                      THEN staging[b] \cap rest ELSE staging[b]]
    /\ Goto(a, "end")
    /\ UNCHANGED <<client, todo, won, lost, cut, stop, tocopy, result, whole, partial, lidarr,
                   failing, obtained, counters>>

Finish(a) ==
    /\ pc[a] = "end"
    /\ Return(a, "success")
    /\ UNCHANGED <<client, todo, won, lost, cut, stop, tocopy, disk, lidarr, failing, obtained,
                   counters>>

\* An exception anywhere: a stop is still reported as a stop.
Raises(a) ==
    /\ pc[a] \in {"after", "placed", "end"}
    /\ Return(a, IF stop[a] THEN "stopped" ELSE "error")
    /\ UNCHANGED <<client, todo, won, lost, cut, stop, tocopy, disk, lidarr, failing, obtained,
                   counters>>

-----------------------------------------------------------------------------
(* Lidarr, and a crash. *)

\* A refresh: Lidarr takes every file in the library for the track's.
LidarrScan(a) ==
    /\ hasFile' = [hasFile EXCEPT ![a] =
                     Tracks \cap IF setting = "same" THEN staging[a] ELSE InLibrary(a)]
    /\ UNCHANGED <<run, disk, handed, failing, obtained, counters>>

\* Lidarr imports a finished grab: files move to the library, all at once or some now
\* and the others later or never.
LidarrImport(a) ==
    /\ handed[a]
    /\ \E moved \in SUBSET (staging[a] \cap Tracks), more \in BOOLEAN :
         /\ handed' = [handed EXCEPT ![a] = more]
         /\ whole' = [whole EXCEPT ![a] = @ \cup moved]
         /\ partial' = [partial EXCEPT ![a] = @ \ moved]
         /\ hasFile' = [hasFile EXCEPT ![a] = @ \cup moved]
         /\ staging' = [staging EXCEPT ![a] = @ \ moved]
    /\ UNCHANGED <<run, failing, obtained, counters>>

\* The process stops; a copy may be cut short, folders stay as they are.
Crash ==
    /\ crashes < MaxCrashes
    /\ crashes' = crashes + 1
    /\ \/ UNCHANGED <<whole, partial>>
       \/ \E a \in Albums : \E i \in tocopy[a] \cap staging[a] :
            pc[a] = "copy" /\ CutShort(a, i)
    /\ pc' = [a \in Albums |-> "idle"]
    /\ result' = [a \in Albums |-> "none"]
    /\ UNCHANGED <<client, todo, won, lost, cut, stop, tocopy, staging, lidarr, failing, obtained,
                   setting, runs>>

-----------------------------------------------------------------------------
Step(a) ==
    \/ \E c, force, eager \in BOOLEAN : Start(a, c, force, eager)
    \/ \E c \in BOOLEAN : NothingToDo(a, c) \/ StartFails(a, c)
    \/ UserStop(a)
    \/ \E t \in Tracks :
         \/ \E leak \in SUBSET {Temp} : TrackDone(a, t, leak)
         \/ TrackFails(a, t)
         \/ TrackSkipped(a, t)
    \/ TracksDone(a) \/ Stopped(a) \/ Failed(a) \/ HandOver(a)
    \/ StartCopy(a) \/ NoCopy(a) \/ CopyFails(a) \/ CopyDone(a)
    \/ \E i \in Items : CopyItem(a, i) \/ SkipGone(a, i)
    \/ CleanUp(a) \/ Finish(a) \/ Raises(a)
    \/ LidarrScan(a) \/ LidarrImport(a)

Next == Crash \/ \E a \in Albums : Step(a)

Spec == Init /\ [][Next]_vars

-----------------------------------------------------------------------------
(* Properties. *)

\* A track that was ever downloaded is never lost: its whole file is in the
\* download folder or in the library, through failed copies, crashes, the clean-up of
\* other albums and Lidarr's own imports, which may take files from under a copy that
\* then passes them over and deletes the folder.
NothingLost == \A a \in Albums : obtained[a] \subseteq staging[a] \cup whole[a]

\* No copy brings a temp file into the library, whole or cut short (that Lidarr takes
\* none from a grab is assumed of it, LidarrImport).
OnlyTracksInLibrary == \A a \in Albums : Temp \notin InLibrary(a)

\* A stop before the first track is done is not reported as an import of nothing.
NoPhantomImport ==
    \A a \in Albums : pc[a] \in {"copy", "placed"} /\ won[a] = {} => cut[a] = {}

(* What the repository says. *)

\* "finished albums are copied into /music": after a run that is reported as a
\* success nothing waits in the download folder that the library has not got.
SuccessMeansImported ==
    \A a \in Albums :
        result[a] = "success" /\ ~client[a] /\ ~handed[a] /\ setting = "other"
        => staging[a] \cap Tracks \subseteq whole[a]

=============================================================================
