------------------------- MODULE AlbumImportProofs -------------------------
(* Type correctness and the safety invariants of AlbumImport, for any sets  *)
(* of albums and tracks and either layout of the folders.                   *)
EXTENDS AlbumImport, TLAPS

\* Type correctness of an album's runs, folders and history.
THEOREM Typing == Spec => []TypeOK
<1> USE TempAssumption, PathAssumption, BoundsAssumption
<1>1. Init => TypeOK
  BY DEF Init, TypeOK, Nothing, Nowhere, Items
<1>2. TypeOK /\ [Next]_vars => TypeOK'
  <2> SUFFICES ASSUME TypeOK, [Next]_vars PROVE TypeOK'
    OBVIOUS
  <2> USE DEF TypeOK, run, disk, lidarr, counters, Items
  <2>1. CASE Crash
    BY <2>1 DEF Crash, CutShort
  <2>2. CASE UNCHANGED vars
    BY <2>2 DEF vars
  <2>3. ASSUME NEW a \in Albums, Step(a) PROVE TypeOK'
    <3>1. ASSUME NEW c \in BOOLEAN, NEW force \in BOOLEAN, NEW eager \in BOOLEAN,
                 Start(a, c, force, eager)
          PROVE  TypeOK'
      BY <3>1 DEF Start, NewRun, Goto, ToDownload
    <3>2. ASSUME NEW c \in BOOLEAN, NothingToDo(a, c) PROVE TypeOK'
      BY <3>2 DEF NothingToDo, NewRun
    <3>3. ASSUME NEW c \in BOOLEAN, StartFails(a, c) PROVE TypeOK'
      BY <3>3 DEF StartFails, NewRun
    <3>4. CASE UserStop(a)
      BY <3>4 DEF UserStop
    <3>5. ASSUME NEW t \in Tracks, NEW leak \in SUBSET {Temp}, TrackDone(a, t, leak)
          PROVE  TypeOK'
      BY <3>5 DEF TrackDone
    <3>6. ASSUME NEW t \in Tracks, TrackFails(a, t) \/ TrackSkipped(a, t) PROVE TypeOK'
      BY <3>6 DEF TrackFails, TrackSkipped
    <3>7. CASE TracksDone(a) \/ Stopped(a) \/ Failed(a) \/ HandOver(a) \/ NoCopy(a)
      BY <3>7 DEF TracksDone, Stopped, Failed, HandOver, NoCopy, Goto, Return, AfterNoCopy
    <3>8. CASE StartCopy(a)
      BY <3>8 DEF StartCopy, Listing, Goto
    <3>9. CASE CopyFails(a) \/ CopyDone(a)
      BY <3>9 DEF CopyFails, CopyDone, CutShort, Goto, AfterCopyError
    <3>10. ASSUME NEW i \in Items, CopyItem(a, i) \/ SkipGone(a, i) PROVE TypeOK'
      BY <3>10 DEF CopyItem, SkipGone
    <3>11. CASE CleanUp(a)
      BY <3>11 DEF CleanUp, Removable, Goto
    <3>12. CASE Finish(a) \/ Raises(a)
      BY <3>12 DEF Finish, Raises, Return
    <3>13. CASE LidarrScan(a)
      BY <3>13 DEF LidarrScan, InLibrary
    <3>14. CASE LidarrImport(a)
      BY <3>14 DEF LidarrImport
    <3> QED  BY <2>3, <3>1, <3>2, <3>3, <3>4, <3>5, <3>6, <3>7,
             <3>8, <3>9, <3>10, <3>11, <3>12, <3>13, <3>14 DEF Step
  <2> QED  BY <2>1, <2>2, <2>3 DEF Next
<1> QED  BY <1>1, <1>2, PTL DEF Spec

-----------------------------------------------------------------------------
\* While an album is copied, what is in its download folder is in the library or
\* still to be copied; when the folder is about to be removed, all of it is there.
CopyCovers ==
    \A a \in Albums :
        /\ pc[a] = "copy" => staging[a] \cap Tracks \subseteq tocopy[a] \cup whole[a]
        /\ pc[a] = "placed" => staging[a] \cap Tracks \subseteq whole[a]

Kept == CopyCovers /\ NothingLost

\* No downloaded track is lost, whatever fails, crashes or is imported, be it from under
\* a copy under way.
THEOREM NothingLostTheorem == Spec => []NothingLost
<1> USE TempAssumption DEF Kept, CopyCovers, NothingLost
<1>1. Init => Kept
  BY DEF Init, Nothing
<1>2. TypeOK /\ Kept /\ [Next]_vars => Kept'
  <2> SUFFICES ASSUME TypeOK, Kept, [Next]_vars PROVE Kept'
    OBVIOUS
  <2> USE DEF TypeOK, run, disk, lidarr, counters, Items
  <2>1. CASE Crash
    BY <2>1 DEF Crash, CutShort
  <2>2. CASE UNCHANGED vars
    BY <2>2 DEF vars
  <2>3. ASSUME NEW a \in Albums, Step(a) PROVE Kept'
    <3>1. ASSUME NEW c \in BOOLEAN, NEW force \in BOOLEAN, NEW eager \in BOOLEAN,
                 Start(a, c, force, eager)
          PROVE  Kept'
      BY <3>1 DEF Start, Goto
    <3>2. ASSUME NEW c \in BOOLEAN, NothingToDo(a, c) PROVE Kept'
      BY <3>2 DEF NothingToDo
    <3>3. ASSUME NEW c \in BOOLEAN, StartFails(a, c) PROVE Kept'
      BY <3>3 DEF StartFails
    <3>4. CASE UserStop(a)
      BY <3>4 DEF UserStop
    <3>5. ASSUME NEW t \in Tracks, NEW leak \in SUBSET {Temp}, TrackDone(a, t, leak)
          PROVE  Kept'
      BY <3>5 DEF TrackDone
    <3>6. ASSUME NEW t \in Tracks, TrackFails(a, t) \/ TrackSkipped(a, t)
          PROVE  Kept'
      BY <3>6 DEF TrackFails, TrackSkipped
    <3>7. CASE TracksDone(a) \/ Stopped(a) \/ Failed(a) \/ HandOver(a) \/ NoCopy(a)
      BY <3>7 DEF TracksDone, Stopped, Failed, HandOver, NoCopy, Goto, Return, AfterNoCopy
    <3>8. CASE StartCopy(a)
      BY <3>8 DEF StartCopy, Listing, Goto
    <3>9. CASE CopyFails(a) \/ CopyDone(a)
      BY <3>9 DEF CopyFails, CopyDone, CutShort, Goto, AfterCopyError
    <3>10. ASSUME NEW i \in Items, CopyItem(a, i) \/ SkipGone(a, i) PROVE Kept'
      BY <3>10 DEF CopyItem, SkipGone
    <3>11. CASE CleanUp(a)
      BY <3>11 DEF CleanUp, Removable, Goto
    <3>12. CASE Finish(a) \/ Raises(a)
      BY <3>12 DEF Finish, Raises, Return
    <3>13. CASE LidarrScan(a)
      BY <3>13 DEF LidarrScan, InLibrary
    <3>14. CASE LidarrImport(a)
      BY <3>14 DEF LidarrImport
    <3> HIDE DEF Kept
    <3> QED  BY <2>3, <3>1, <3>2, <3>3, <3>4, <3>5, <3>6, <3>7,
             <3>8, <3>9, <3>10, <3>11, <3>12, <3>13, <3>14 DEF Step
  <2> QED  BY <2>1, <2>2, <2>3 DEF Next
<1>3. Kept => NothingLost
  OBVIOUS
<1> QED  BY <1>1, <1>2, <1>3, Typing, PTL DEF Spec

-----------------------------------------------------------------------------
\* What is being copied holds no temp file, and only a stop leaves tracks out.
TempsStay == \A a \in Albums : Temp \notin tocopy[a]
CutByStop == \A a \in Albums : cut[a] # {} => stop[a]
Reported == TempsStay /\ CutByStop /\ OnlyTracksInLibrary /\ NoPhantomImport

\* No copy brings a temp file into the library, and a stop before the first track is
\* done is never followed by an import.
THEOREM ImportTheorem == Spec => [](OnlyTracksInLibrary /\ NoPhantomImport)
<1> USE TempAssumption
        DEF Reported, TempsStay, CutByStop, OnlyTracksInLibrary, NoPhantomImport, InLibrary
<1>1. Init => Reported
  BY DEF Init, Nothing, Nowhere
<1>2. TypeOK /\ Reported /\ [Next]_vars => Reported'
  <2> SUFFICES ASSUME TypeOK, Reported, [Next]_vars PROVE Reported'
    OBVIOUS
  <2> USE DEF TypeOK, run, disk, lidarr, counters, Items
  <2>1. CASE Crash
    BY <2>1 DEF Crash, CutShort
  <2>2. CASE UNCHANGED vars
    BY <2>2 DEF vars
  <2>3. ASSUME NEW a \in Albums, Step(a) PROVE Reported'
    <3>1. ASSUME NEW c \in BOOLEAN, NEW force \in BOOLEAN, NEW eager \in BOOLEAN,
                 Start(a, c, force, eager)
          PROVE  Reported'
      BY <3>1 DEF Start, NewRun, Goto
    <3>2. ASSUME NEW c \in BOOLEAN, NothingToDo(a, c) PROVE Reported'
      BY <3>2 DEF NothingToDo, NewRun
    <3>3. ASSUME NEW c \in BOOLEAN, StartFails(a, c) PROVE Reported'
      BY <3>3 DEF StartFails, NewRun
    <3>4. CASE UserStop(a)
      BY <3>4 DEF UserStop
    <3>5. ASSUME NEW t \in Tracks, NEW leak \in SUBSET {Temp}, TrackDone(a, t, leak)
          PROVE  Reported'
      BY <3>5 DEF TrackDone
    <3>6. ASSUME NEW t \in Tracks, TrackFails(a, t) \/ TrackSkipped(a, t) PROVE Reported'
      BY <3>6 DEF TrackFails, TrackSkipped
    <3>7. CASE TracksDone(a) \/ Stopped(a) \/ Failed(a) \/ HandOver(a) \/ NoCopy(a)
      BY <3>7 DEF TracksDone, Stopped, Failed, HandOver, NoCopy, Goto, Return, AfterNoCopy
    <3>8. CASE StartCopy(a)
      BY <3>8 DEF StartCopy, Listing, Goto, Abandon
    <3>9. CASE CopyFails(a) \/ CopyDone(a)
      BY <3>9 DEF CopyFails, CopyDone, CutShort, Goto, AfterCopyError
    <3>10. ASSUME NEW i \in Items, CopyItem(a, i) \/ SkipGone(a, i) PROVE Reported'
      BY <3>10 DEF CopyItem, SkipGone
    <3>11. CASE CleanUp(a)
      BY <3>11 DEF CleanUp, Removable, Goto
    <3>12. CASE Finish(a) \/ Raises(a)
      BY <3>12 DEF Finish, Raises, Return
    <3>13. CASE LidarrScan(a)
      BY <3>13 DEF LidarrScan, InLibrary
    <3>14. CASE LidarrImport(a)
      BY <3>14 DEF LidarrImport
    <3> QED  BY <2>3, <3>1, <3>2, <3>3, <3>4, <3>5, <3>6, <3>7,
             <3>8, <3>9, <3>10, <3>11, <3>12, <3>13, <3>14 DEF Step
  <2> QED  BY <2>1, <2>2, <2>3 DEF Next
<1>3. Reported => OnlyTracksInLibrary /\ NoPhantomImport
  OBVIOUS
<1> QED  BY <1>1, <1>2, <1>3, Typing, PTL DEF Spec

\* A run that was stopped before its first track was done tells Lidarr of nothing.
THEOREM NoPhantomTheorem == Spec => []NoPhantomImport
BY ImportTheorem, PTL
=============================================================================
