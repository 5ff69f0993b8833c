-------------------------- MODULE AlbumAuditProofs --------------------------
(***************************************************************************)
(* Theorems about AlbumAudit, for any rows, tracks, lengths and times:     *)
(* what is linked in Lidarr has a file, and the cursor passes no row that  *)
(* is still to be judged, is never set back by a run and is held by no row *)
(* for longer than it waits.                                               *)
(***************************************************************************)
EXTENDS AlbumAudit, Integers, WellFoundedInduction, TLAPS

---------------------------------------------------------------------------
(* The least number of a set.                                              *)

\* The relation of module WellFoundedInduction is that of the numbers.
LEMMA LessRelation == \A x, y \in Nat : <<x, y>> \in OpToRel(<, Nat) <=> x < y
BY DEF OpToRel

LEMMA LessWellFounded ==
    \E R : IsWellFoundedOn(R, Nat) /\ \A x, y \in Nat : <<x, y>> \in R <=> x < y
BY NatLessThanWellFounded, LessRelation, Zenon

\* A nonempty set of natural numbers has a least element.
LEMMA LeastExists ==
    ASSUME NEW S, S \subseteq Nat, S # {}
    PROVE  \E x \in S : \A y \in S : x <= y
<1>1. PICK R : IsWellFoundedOn(R, Nat) /\ \A x, y \in Nat : <<x, y>> \in R <=> x < y
  BY LessWellFounded
<1>2. IsWellFoundedOn(R, Nat)
  BY <1>1
<1>3. PICK x \in S : \A y \in S : ~ (<<y, x>> \in R)
  BY <1>2, WFMin
<1>4. \A y \in S : ~ (y < x)
  BY <1>1, <1>3
<1>5. x \in Nat /\ \A y \in S : y \in Nat
  BY <1>3
<1>6. \A y \in S : x <= y
  BY <1>4, <1>5
<1> QED  BY <1>6

---------------------------------------------------------------------------
(* Types.                                                                  *)

LEMMA TypeInit == Init => TypeOK
<1> SUFFICES ASSUME Init PROVE TypeOK
  OBVIOUS
<1>1. NoRows \in [Tracks -> Rows \union {NoRow}]
  BY DEF NoRows
<1>2. 1 \in 0 .. MaxTime /\ 0 \in 0 .. MaxTime /\ 1 - FirstLook \in Int
  BY AuditAssumption
<1>3. /\ now \in 0 .. MaxTime /\ cursor \in Int /\ cutoff \in Int
      /\ stamp \in [Rows -> 0 .. MaxTime]
  BY <1>2 DEF Init
<1>4. /\ file \in [Tracks -> Rows \union {NoRow}] /\ latest \in [Tracks -> Rows \union {NoRow}]
      /\ linked \subseteq {t \in Tracks : file[t] # NoRow}
      /\ seen \in [Albums -> {"no", "error", "yes"}]
  BY <1>1 DEF Init
<1> QED  BY <1>3, <1>4 DEF Init, TypeOK

\* Some row of a set is the newest.
LEMMA NewestExists ==
    ASSUME TypeOK, NEW R \in SUBSET Rows, R # {}
    PROVE  \E r \in R : \A q \in R : stamp[q] <= stamp[r]
<1> DEFINE S == {MaxTime - stamp[q] : q \in R}
<1>1. MaxTime \in Nat /\ \A q \in R : stamp[q] \in 0 .. MaxTime
  BY AuditAssumption DEF TypeOK
<1>2. S \subseteq Nat /\ S # {}
  BY <1>1
<1> HIDE DEF S
<1>3. PICK x \in S : \A y \in S : x <= y
  BY <1>2, LeastExists
<1>4. PICK r \in R : x = MaxTime - stamp[r]
  BY DEF S
<1>5. ASSUME NEW q \in R PROVE stamp[q] <= stamp[r]
  <2>1. MaxTime - stamp[r] <= MaxTime - stamp[q]
    BY <1>3, <1>4 DEF S
  <2> QED  BY <1>1, <2>1
<1> QED  BY <1>5

\* The row that is taken for a track is one of the track in the window.
LEMMA LatestRowsLemma ==
    ASSUME TypeOK, NEW limit \in Int
    PROVE  /\ LatestRows(limit) \in [Tracks -> Rows \union {NoRow}]
           /\ \A t \in Tracks : LatestRows(limit)[t] # NoRow =>
                  InWindow(LatestRows(limit)[t], limit)
<1>1. ASSUME NEW t \in Tracks
      PROVE  LatestRows(limit)[t] = NoRow
             \/ (LatestRows(limit)[t] \in Rows /\ InWindow(LatestRows(limit)[t], limit))
  <2> DEFINE R == {r \in Rows : TrackOf[r] = t /\ InWindow(r, limit)}
  <2>1. CASE R = {}
    BY <2>1 DEF LatestRows
  <2>2. CASE R # {}
    <3>1. \E r \in R : \A q \in R : stamp[q] <= stamp[r]
      BY <2>2, NewestExists
    <3>2. (CHOOSE r \in R : \A q \in R : stamp[q] <= stamp[r]) \in R
      BY <3>1
    <3>3. LatestRows(limit)[t] = CHOOSE r \in R : \A q \in R : stamp[q] <= stamp[r]
      BY <2>2 DEF LatestRows
    <3> QED  BY <3>2, <3>3
  <2> QED  BY <2>1, <2>2
<1>2. LatestRows(limit) = [t \in Tracks |-> LatestRows(limit)[t]]
  BY DEF LatestRows
<1> QED  BY <1>1, <1>2

\* What a run keeps of its own.
LEMMA ExitType ==
    ASSUME Exit
    PROVE  /\ at' = "idle" /\ cutoff' = 0 /\ pending' = {} /\ listed' = {}
           /\ latest' \in [Tracks -> Rows \union {NoRow}]
           /\ seen' \in [Albums -> {"no", "error", "yes"}]
           /\ banning' = NoRow
BY DEF Exit, NoRows

LEMMA DoneType ==
    ASSUME TypeOK, NEW t \in Tracks, Done(t)
    PROVE  latest' \in [Tracks -> Rows \union {NoRow}]
BY DEF Done, TypeOK

LEMMA JudgingRow ==
    ASSUME TypeOK, NEW t \in Tracks, Judging(t)
    PROVE  latest[t] \in Rows
BY DEF Judging, TypeOK

\* The saved cursor is the time of this run, or just before the row that waits.
LEMMA NewCursorLemma ==
    ASSUME TypeOK
    PROVE  /\ NewCursor \in Int
           /\ Recent = {} => NewCursor = cutoff
           /\ \A r \in Recent : NewCursor < stamp[r]
           /\ Recent # {} => \E r \in Recent : NewCursor = stamp[r] - 1
<1>1. CASE Recent = {}
  BY <1>1 DEF NewCursor, TypeOK
<1>2. CASE Recent # {}
  <2> DEFINE S == {stamp[r] : r \in Recent}
  <2>1. Recent \subseteq Rows
    BY DEF Recent, TypeOK
  <2>2. S \subseteq Nat /\ S # {}
    BY <1>2, <2>1 DEF TypeOK
  <2>3. NewCursor = Min(S) - 1
    BY <1>2 DEF NewCursor
  <2> HIDE DEF S
  <2>4. \E x \in S : \A y \in S : x <= y
    BY <2>2, LeastExists
  <2>5. Min(S) \in S /\ \A y \in S : Min(S) <= y
    BY <2>4 DEF Min
  <2>6. PICK r \in Recent : Min(S) = stamp[r]
    BY <2>5 DEF S
  <2>7. ASSUME NEW q \in Recent PROVE NewCursor < stamp[q]
    <3>1. stamp[q] \in S /\ Min(S) \in Nat /\ stamp[q] \in Nat
      BY <2>1, <2>2, <2>5 DEF S
    <3> QED  BY <2>3, <2>5, <3>1
  <2> QED  BY <1>2, <2>2, <2>3, <2>5, <2>6, <2>7
<1> QED  BY <1>1, <1>2

LEMMA TypeStep == TypeOK /\ [Next]_vars => TypeOK'
<1> SUFFICES ASSUME TypeOK, [Next]_vars PROVE TypeOK'
  OBVIOUS
<1> USE DEF ghostVars
<1>1. CASE Tick
  BY <1>1, AuditAssumption DEF Tick, TypeOK, auditVars
<1>2. CASE DownloaderStarts
  BY <1>2 DEF DownloaderStarts, TypeOK, auditVars
<1>3. ASSUME NEW r \in Rows, Download(r) PROVE TypeOK'
  BY <1>3 DEF Download, TypeOK, auditVars
<1>4. CASE DownloaderEnds
  <2>1. \A t \in Tracks : file'[t] \in Rows \union {NoRow} /\ (file[t] # NoRow => file'[t] # NoRow)
        /\ file' = [u \in Tracks |-> file'[u]]
    BY <1>4, AuditAssumption DEF DownloaderEnds, TypeOK
  <2>2. file' \in [Tracks -> Rows \union {NoRow}]
    BY <1>4, AuditAssumption DEF DownloaderEnds, TypeOK
  <2>3. linked' \subseteq {t \in Tracks : file'[t] # NoRow}
    BY <1>4, <2>1 DEF DownloaderEnds, TypeOK
  <2> QED  BY <1>4, <2>2, <2>3 DEF DownloaderEnds, TypeOK, auditVars
<1>5. ASSUME NEW t \in Tracks, LidarrLinks(t) PROVE TypeOK'
  BY <1>5 DEF LidarrLinks, TypeOK, auditVars
<1>6. CASE Start
  <2>1. now - Settle \in Int
    BY AuditAssumption DEF TypeOK
  <2>2. /\ at' = "judge" /\ cutoff' = now - Settle /\ latest' = LatestRows(now - Settle)
        /\ settled' \subseteq settled \union Rows
        /\ UNCHANGED <<worldVars, seen, listed, pending, banning, cursor,
                       unanswered, forgotten, deaths>>
    BY <1>6 DEF Start
  <2>3. latest' \in [Tracks -> Rows \union {NoRow}]
    BY <2>1, <2>2, LatestRowsLemma
  <2> QED  BY <2>1, <2>2, <2>3 DEF TypeOK, worldVars
<1>8. ASSUME NEW a \in Albums, Ask(a) PROVE TypeOK'
  BY <1>8 DEF Ask, TypeOK, worldVars
<1>9. ASSUME NEW t \in Tracks, PassOver(t) \/ Postpone(t) \/ Keep(t) PROVE TypeOK'
  <2>1. latest[t] \in Rows /\ Done(t)
    BY <1>9, JudgingRow DEF PassOver, Postpone, Keep, Probed
  <2>2. latest' \in [Tracks -> Rows \union {NoRow}]
    BY <2>1, DoneType
  <2>3. settled' \subseteq Rows /\ unanswered' \subseteq Rows /\ pending' \subseteq Rows
    BY <1>9, <2>1 DEF PassOver, Postpone, Keep, TypeOK, ghostVars
  <2>4. UNCHANGED <<worldVars, at, cutoff, seen, listed, banning, cursor, forgotten>>
    BY <1>9 DEF PassOver, Postpone, Keep, ghostVars
  <2> QED  BY <2>2, <2>3, <2>4 DEF TypeOK, worldVars
<1>10. ASSUME NEW t \in Tracks, Delete(t) PROVE TypeOK'
  <2>1. latest[t] \in Rows
    BY <1>10, JudgingRow DEF Delete, Probed
  <2>2. latest' \in [Tracks -> Rows \union {NoRow}]
    BY <1>10, DoneType DEF Delete
  <2> QED  BY <1>10, <2>1, <2>2, AuditAssumption DEF Delete, TypeOK
<1>11. CASE Ban
  BY <1>11 DEF Ban, TypeOK
<1>12. CASE Finish
  <2>1. cursor' \in Int /\ settled' \subseteq Rows /\ UNCHANGED worldVars
    BY <1>12, NewCursorLemma DEF Finish, TypeOK
  <2> QED  BY <1>12, <2>1, ExitType DEF Finish, TypeOK, worldVars
<1>13. CASE Die
  BY <1>13, ExitType DEF Die, TypeOK, worldVars
<1>14. CASE CursorLost
  BY <1>14, AuditAssumption DEF CursorLost, TypeOK, worldVars, auditVars
<1>15. CASE UNCHANGED vars
  BY <1>15 DEF vars, worldVars, auditVars, TypeOK
<1> QED  BY <1>1, <1>2, <1>3, <1>4, <1>5, <1>6, <1>8, <1>9, <1>10, <1>11,
            <1>12, <1>13, <1>14, <1>15 DEF Next, AuditStep

\* What the audit keeps has its type, and Lidarr has a record only of tracks that
\* have a file: deletions go through Lidarr.
THEOREM Typing == Spec => []TypeOK
BY TypeInit, TypeStep, PTL DEF Spec

---------------------------------------------------------------------------
(* The cursor.                                                             *)

\* The rows that the cursor may lie behind.
Accounted == settled \union unanswered \union forgotten

\* The rows that a run has set out to judge and those it has judged, and the times
\* it goes by: what it will save as the cursor lies before every row that waits.
Audited ==
    /\ \A r \in Rows : stamp[r] <= now
    /\ cursor < now
    /\ deleted \subseteq settled
    /\ banning # NoRow => banning \in settled
    /\ at = "idle" => pending = {}
    /\ at # "idle" =>
        /\ cutoff < now
        /\ \A r \in Rows : stamp[r] # 0 /\ stamp[r] <= cutoff =>
                r \in Accounted \union pending \/ latest[TrackOf[r]] = r
        /\ \A r \in pending : stamp[r] # 0 /\ stamp[r] <= cutoff

\* The row to be judged for a track is one of the window.
LatestInWindow ==
    at # "idle" => \A t \in Tracks : latest[t] # NoRow =>
                        stamp[latest[t]] # 0 /\ stamp[latest[t]] <= cutoff

CursorInv == Audited /\ LatestInWindow /\ CursorPassesNoOpenRow

LEMMA CursorInit == Init => CursorInv
<1> SUFFICES ASSUME Init PROVE CursorInv
  OBVIOUS
<1>1. cursor < now /\ cursor = 1 - FirstLook /\ FirstLook \in Nat
  BY AuditAssumption DEF Init
<1> QED  BY <1>1 DEF Init, CursorInv, Audited, LatestInWindow, CursorPassesNoOpenRow

LEMMA CursorStep == TypeOK /\ TypeOK' /\ CursorInv /\ [Next]_vars => CursorInv'
<1> SUFFICES ASSUME TypeOK, TypeOK', CursorInv, [Next]_vars PROVE CursorInv'
  OBVIOUS
<1> USE DEF CursorInv, Accounted, ghostVars
<1>0. /\ now \in Nat /\ cursor \in Int /\ cutoff \in Int
      /\ \A r \in Rows : stamp[r] \in Nat
  BY AuditAssumption DEF TypeOK
<1>1. CASE Tick
  BY <1>0, <1>1 DEF Tick, auditVars, Audited, LatestInWindow, CursorPassesNoOpenRow, TypeOK
<1>2. CASE DownloaderStarts \/ DownloaderEnds
  BY <1>2 DEF DownloaderStarts, DownloaderEnds, auditVars, Audited, LatestInWindow,
              CursorPassesNoOpenRow
<1>3. ASSUME NEW r \in Rows, Download(r) PROVE CursorInv'
  <2>1. stamp' = [stamp EXCEPT ![r] = now] /\ stamp[r] = 0
    BY <1>3 DEF Download
  <2>2. UNCHANGED <<now, deleted, auditVars, cursor, ghostVars>>
    BY <1>3 DEF Download
  <2>3. \A q \in Rows : q # r => stamp'[q] = stamp[q]
    BY <2>1 DEF TypeOK
  <2>4. stamp'[r] = now
    BY <2>1 DEF TypeOK
  <2> QED  BY <1>0, <2>1, <2>2, <2>3, <2>4 DEF auditVars, Audited, LatestInWindow,
              CursorPassesNoOpenRow, TypeOK
<1>4. ASSUME NEW t \in Tracks, LidarrLinks(t) PROVE CursorInv'
  BY <1>4 DEF LidarrLinks, auditVars, Audited, LatestInWindow, CursorPassesNoOpenRow
<1>5. CASE Start
  <2> DEFINE limit == now - Settle
  <2>1. limit \in Int /\ limit < now
    BY <1>0, AuditAssumption
  <2>2. /\ at' = "judge" /\ cutoff' = limit /\ latest' = LatestRows(limit)
        /\ settled' = settled \union {r \in Rows : InWindow(r, limit) /\ latest'[TrackOf[r]] # r}
        /\ UNCHANGED <<now, stamp, deleted, pending, banning, cursor, unanswered, forgotten>>
        /\ at = "idle"
    BY <1>5 DEF Start, worldVars
  <2> HIDE DEF limit
  <2>3. ASSUME NEW r \in Rows, stamp[r] # 0, stamp[r] <= limit
        PROVE  r \in Accounted' \/ latest'[TrackOf[r]] = r
    <3>1. CASE stamp[r] <= cursor
      BY <2>2, <2>3, <3>1 DEF CursorPassesNoOpenRow
    <3>2. CASE r \in deleted
      BY <2>2, <3>2 DEF Audited
    <3>3. CASE stamp[r] > cursor /\ r \notin deleted
      BY <2>2, <2>3, <3>3 DEF InWindow
    <3> QED  BY <1>0, <3>1, <3>2, <3>3
  <2>4. \A t \in Tracks : latest'[t] # NoRow =>
            stamp[latest'[t]] # 0 /\ stamp[latest'[t]] <= limit
    BY <2>1, <2>2, LatestRowsLemma DEF InWindow
  <2>5. Audited'
    BY <2>1, <2>2, <2>3 DEF Audited
  <2>6. LatestInWindow' /\ CursorPassesNoOpenRow'
    BY <2>2, <2>4 DEF LatestInWindow, CursorPassesNoOpenRow
  <2> QED  BY <2>5, <2>6
<1>7. ASSUME NEW a \in Albums, Ask(a) PROVE CursorInv'
  BY <1>7 DEF Ask, worldVars, Audited, LatestInWindow, CursorPassesNoOpenRow
<1>8. ASSUME NEW t \in Tracks, PassOver(t) \/ Postpone(t) \/ Keep(t) \/ Delete(t)
      PROVE  CursorInv'
  <2>1. latest[t] \in Rows /\ latest[t] # NoRow /\ at # "idle"
    BY <1>8, JudgingRow, AuditAssumption DEF PassOver, Postpone, Keep, Delete, Probed, Judging
  <2>2. latest' = [latest EXCEPT ![t] = NoRow]
    BY <1>8 DEF PassOver, Postpone, Keep, Delete, Done
  <2>3. /\ UNCHANGED <<now, stamp, deleted, cutoff, cursor>>
        /\ at' # "idle"
        /\ settled \subseteq settled' /\ Accounted \subseteq Accounted'
        /\ pending \subseteq pending'
        /\ pending' \subseteq pending \union {latest[t]}
        /\ latest[t] \in Accounted' \union pending'
        /\ banning' = banning \/ (banning' = latest[t] /\ latest[t] \in settled')
    BY <1>8, <2>1 DEF PassOver, Postpone, Keep, Delete, worldVars
  <2>4. stamp[latest[t]] # 0 /\ stamp[latest[t]] <= cutoff
    BY <2>1 DEF LatestInWindow
  <2>5. \A u \in Tracks : latest'[u] # NoRow => latest'[u] = latest[u]
    BY <2>2 DEF TypeOK
  <2>6. ASSUME NEW r \in Rows, stamp[r] # 0, stamp[r] <= cutoff
        PROVE  r \in Accounted' \union pending' \/ latest'[TrackOf[r]] = r
    <3>1. CASE r \in Accounted \union pending
      BY <2>3, <3>1
    <3>2. CASE latest[TrackOf[r]] = r /\ TrackOf[r] # t
      BY <2>2, <3>2, AuditAssumption DEF TypeOK
    <3>3. CASE latest[TrackOf[r]] = r /\ TrackOf[r] = t
      BY <2>3, <3>3
    <3> QED  BY <2>1, <2>6, <3>1, <3>2, <3>3 DEF Audited
  <2>7. Audited'
    BY <2>1, <2>3, <2>4, <2>6 DEF Audited
  <2>8. LatestInWindow' /\ CursorPassesNoOpenRow'
    BY <2>1, <2>3, <2>5 DEF LatestInWindow, CursorPassesNoOpenRow
  <2> QED  BY <2>7, <2>8
<1>9. CASE Ban
  BY <1>9 DEF Ban, TypeOK, Audited, LatestInWindow, CursorPassesNoOpenRow
<1>10. CASE Finish
  <2>1. /\ at = "judge" /\ latest = NoRows /\ at' = "idle" /\ pending' = {}
        /\ banning' = NoRow
        /\ cursor' = NewCursor /\ settled' = settled \union (pending \ Recent)
        /\ UNCHANGED <<worldVars, unanswered, forgotten>>
    BY <1>10 DEF Finish, Exit
  <2>2. ASSUME NEW r \in Rows, stamp[r] # 0, stamp[r] <= NewCursor
        PROVE  r \in Accounted'
    <3>1. stamp[r] <= cutoff
      <4>1. CASE Recent = {}
        BY <2>2, <4>1, NewCursorLemma
      <4>2. CASE Recent # {}
        <5>1. PICK q \in Recent : NewCursor = stamp[q] - 1
          BY <4>2, NewCursorLemma
        <5>2. q \in Rows /\ stamp[q] <= cutoff
          BY <2>1, <5>1 DEF Recent, Audited, TypeOK
        <5> QED  BY <1>0, <2>2, <5>1, <5>2
      <4> QED  BY <4>1, <4>2
    <3>2. latest[TrackOf[r]] # r
      BY <2>1, AuditAssumption DEF NoRows
    <3>3. r \in Accounted \union pending
      BY <2>1, <2>2, <3>1, <3>2 DEF Audited
    <3>4. r \notin Recent
      BY <1>0, <2>2, NewCursorLemma
    <3> QED  BY <2>1, <3>3, <3>4
  <2>3. NewCursor < now
    <3>1. CASE Recent = {}
      BY <2>1, <3>1, NewCursorLemma DEF Audited
    <3>2. CASE Recent # {}
      <4>1. PICK q \in Recent : NewCursor = stamp[q] - 1
        BY <3>2, NewCursorLemma
      <4>2. q \in Rows /\ stamp[q] <= now
        BY <4>1 DEF Recent, Audited, TypeOK
      <4> QED  BY <1>0, <4>1, <4>2
    <3> QED  BY <3>1, <3>2
  <2>4. deleted \subseteq settled'
    BY <2>1 DEF Audited
  <2> QED  BY <2>1, <2>2, <2>3, <2>4 DEF Audited, LatestInWindow, CursorPassesNoOpenRow, worldVars
<1>11. CASE Die
  BY <1>11 DEF Die, Exit, Audited, LatestInWindow, CursorPassesNoOpenRow, worldVars
<1>12. CASE CursorLost
  <2>1. /\ at = "idle" /\ cursor' = now - FirstLook
        /\ \A r \in Rows : stamp[r] # 0 /\ stamp[r] <= cursor' => r \in Accounted'
        /\ settled' = settled /\ Accounted \subseteq Accounted'
        /\ UNCHANGED <<worldVars, auditVars>>
    BY <1>12 DEF CursorLost
  <2>2. cursor' < now
    BY <1>0, <2>1, AuditAssumption
  <2> QED  BY <2>1, <2>2 DEF Audited, LatestInWindow, CursorPassesNoOpenRow, worldVars, auditVars
<1>13. CASE UNCHANGED vars
  BY <1>13 DEF vars, worldVars, auditVars, Audited, LatestInWindow, CursorPassesNoOpenRow
<1> QED  BY <1>1, <1>2, <1>3, <1>4, <1>5, <1>7, <1>8, <1>9, <1>10, <1>11,
            <1>12, <1>13 DEF Next, AuditStep

\* Whatever is downloaded, postponed or given up, and whichever runs die, the saved
\* cursor lies behind a row only when main has judged it, has taken a later download in
\* its place or has given it up after PENDING_EXPIRY; or when Lidarr had no tracks for its
\* album, or the row was older than FirstLook when the cursor was lost.
THEOREM CursorTheorem == Spec => []CursorPassesNoOpenRow
<1>1. Spec => []TypeOK
  BY Typing
<1>2. CursorInv => CursorPassesNoOpenRow
  BY DEF CursorInv
<1> QED  BY <1>1, <1>2, CursorInit, CursorStep, PTL DEF Spec
---------------------------------------------------------------------------
(* The cursor moves on.                                                    *)

\* What a run judges lies after its cursor, and its cursor before its cutoff.
Ahead ==
    /\ cursor <= now - Settle
    /\ at = "idle" => pending = {}
    /\ at # "idle" =>
        /\ cursor <= cutoff
        /\ \A r \in pending : cursor < stamp[r]
        /\ \A t \in Tracks : latest[t] # NoRow => cursor < stamp[latest[t]]

\* A run that ends does not set the cursor back, and no row holds it for longer than
\* PENDING_EXPIRY: it is at the cutoff of the run, or less than that before now.
CursorMovesOn ==
    [][Finish => cursor' >= cursor /\ (cursor' >= cutoff \/ cursor' >= now - Expiry)]_vars

LEMMA AheadInit == Init => Ahead
BY AuditAssumption DEF Init, Ahead

\* The cursor that a run saves.
LEMMA SavedCursor ==
    ASSUME TypeOK, Ahead, CursorInv, at # "idle"
    PROVE  /\ NewCursor >= cursor /\ NewCursor <= cutoff
           /\ NewCursor >= cutoff \/ NewCursor >= now - Expiry
<1>0. /\ now \in Int /\ cursor \in Int /\ cutoff \in Int /\ Expiry \in Int
      /\ \A r \in Rows : stamp[r] \in Int
  BY AuditAssumption DEF TypeOK
<1>1. CASE Recent = {}
  BY <1>0, <1>1, NewCursorLemma DEF Ahead
<1>2. CASE Recent # {}
  <2>1. PICK r \in Recent : NewCursor = stamp[r] - 1
    BY <1>2, NewCursorLemma
  <2>2. r \in Rows /\ r \in pending /\ stamp[r] > now - Expiry
    BY <2>1 DEF Recent, TypeOK
  <2>3. cursor < stamp[r] /\ stamp[r] <= cutoff
    BY <2>2 DEF Ahead, CursorInv, Audited
  <2> QED  BY <1>0, <2>1, <2>2, <2>3
<1> QED  BY <1>1, <1>2

\* cutoff is Settle before now, or earlier.
Settled == at # "idle" => cutoff <= now - Settle

LEMMA SettledStep == TypeOK /\ Settled /\ [Next]_vars => Settled'
<1> SUFFICES ASSUME TypeOK, Settled, [Next]_vars PROVE Settled'
  OBVIOUS
<1>0. now \in Int /\ cutoff \in Int /\ Settle \in Int
  BY AuditAssumption DEF TypeOK
<1>1. CASE Tick
  BY <1>0, <1>1 DEF Tick, auditVars, Settled
<1>2. CASE Start
  BY <1>0, <1>2 DEF Start, worldVars, Settled
<1>3. CASE Finish \/ Die
  BY <1>3 DEF Finish, Die, Exit, Settled
<1>4. ASSUME UNCHANGED <<now, cutoff>>, at' # "idle" => at # "idle" PROVE Settled'
  BY <1>4 DEF Settled
<1>5. CASE CursorLost \/ DownloaderStarts \/ DownloaderEnds \/ UNCHANGED vars
  BY <1>4, <1>5
     DEF CursorLost, DownloaderStarts, DownloaderEnds, vars, worldVars, auditVars
<1>6. CASE Ban
  BY <1>4, <1>6 DEF Ban
<1>7. ASSUME NEW r \in Rows, Download(r) PROVE Settled'
  BY <1>4, <1>7 DEF Download, auditVars
<1>8. ASSUME NEW a \in Albums, Ask(a) PROVE Settled'
  BY <1>4, <1>8 DEF Ask, worldVars
<1>9. ASSUME NEW t \in Tracks,
             LidarrLinks(t) \/ PassOver(t) \/ Postpone(t) \/ Keep(t) \/ Delete(t)
      PROVE  Settled'
  BY <1>4, <1>9
     DEF LidarrLinks, PassOver, Postpone, Keep, Delete, Probed, Judging, worldVars, auditVars
<1> QED  BY <1>1, <1>2, <1>3, <1>5, <1>6, <1>7, <1>8, <1>9 DEF Next, AuditStep

LEMMA AheadStep == TypeOK /\ CursorInv /\ Settled /\ Ahead /\ [Next]_vars => Ahead'
<1> SUFFICES ASSUME TypeOK, CursorInv, Settled, Ahead, [Next]_vars PROVE Ahead'
  OBVIOUS
<1>0. /\ now \in Int /\ cursor \in Int /\ cutoff \in Int
      /\ Settle \in Int /\ FirstLook \in Int /\ Settle <= FirstLook
      /\ \A r \in Rows : stamp[r] \in Int
      /\ \A t \in Tracks : latest[t] # NoRow => latest[t] \in Rows
      /\ pending \subseteq Rows
  BY AuditAssumption DEF TypeOK
<1>1. CASE Tick
  BY <1>0, <1>1 DEF Tick, auditVars, Ahead
<1>2. CASE CursorLost
  BY <1>0, <1>2 DEF CursorLost, worldVars, auditVars, Ahead
<1>3. CASE Start
  <2> DEFINE limit == now - Settle
  <2>1. limit \in Int
    BY <1>0
  <2>2. /\ at = "idle" /\ cutoff' = limit /\ latest' = LatestRows(limit)
        /\ UNCHANGED <<now, stamp, pending, cursor>>
    BY <1>3 DEF Start, worldVars
  <2>3. \A t \in Tracks : latest'[t] # NoRow => cursor < stamp[latest'[t]]
    <3>1. ASSUME NEW t \in Tracks, LatestRows(limit)[t] # NoRow
          PROVE  LatestRows(limit)[t] \in Rows /\ stamp[LatestRows(limit)[t]] > cursor
      BY <2>1, <3>1, LatestRowsLemma DEF InWindow
    <3> QED  BY <1>0, <2>2, <3>1
  <2> QED  BY <2>2, <2>3 DEF Ahead
<1>4. CASE Finish
  <2>1. cursor' = NewCursor /\ at' = "idle" /\ pending' = {} /\ now' = now /\ at # "idle"
    BY <1>4 DEF Finish, Exit, worldVars
  <2>2. NewCursor <= cutoff /\ NewCursor \in Int
    BY <2>1, SavedCursor, NewCursorLemma
  <2> QED  BY <1>0, <2>1, <2>2 DEF Ahead, Settled
<1>5. CASE Die
  BY <1>5 DEF Die, Exit, worldVars, Ahead
<1>6. ASSUME UNCHANGED <<now, cutoff, latest, pending, cursor>>,
             at' = "idle" <=> at = "idle",
             \A r \in Rows : stamp'[r] = stamp[r] \/ cursor < stamp'[r]
      PROVE  Ahead'
  BY <1>0, <1>6 DEF Ahead
<1>7. CASE DownloaderStarts \/ DownloaderEnds \/ UNCHANGED vars
  BY <1>6, <1>7 DEF DownloaderStarts, DownloaderEnds, vars, worldVars, auditVars
<1>8. CASE Ban
  BY <1>6, <1>8 DEF Ban
<1>9. ASSUME NEW r \in Rows, Download(r) PROVE Ahead'
  <2>1. \A q \in Rows : stamp'[q] = IF q = r THEN now ELSE stamp[q]
    BY <1>9 DEF Download, TypeOK
  <2>2. cursor < now
    BY DEF CursorInv, Audited
  <2> QED  BY <1>6, <1>9, <2>1, <2>2 DEF Download, auditVars
<1>10. ASSUME NEW a \in Albums, Ask(a) PROVE Ahead'
  BY <1>6, <1>10 DEF Ask, worldVars
<1>11. ASSUME NEW t \in Tracks, LidarrLinks(t) PROVE Ahead'
  BY <1>6, <1>11 DEF LidarrLinks, auditVars
<1>12. ASSUME NEW t \in Tracks, PassOver(t) \/ Postpone(t) \/ Keep(t) \/ Delete(t)
       PROVE  Ahead'
  <2>1. /\ UNCHANGED <<now, stamp, cutoff, cursor>>
        /\ at # "idle" /\ at' # "idle"
        /\ latest[t] # NoRow /\ latest' = [latest EXCEPT ![t] = NoRow]
        /\ pending' \subseteq pending \union {latest[t]}
    BY <1>12 DEF PassOver, Postpone, Keep, Delete, Probed, Judging, Done, worldVars
  <2>2. \A u \in Tracks : latest'[u] # NoRow => latest'[u] = latest[u]
    BY <2>1 DEF TypeOK
  <2> QED  BY <2>1, <2>2 DEF Ahead
<1> QED  BY <1>1, <1>2, <1>3, <1>4, <1>5, <1>7, <1>8, <1>9, <1>10, <1>11, <1>12
         DEF Next, AuditStep

\* Whichever runs die and whatever waits, a run that gets to its end does not set the
\* cursor back, and no row holds it for longer than PENDING_EXPIRY.
THEOREM CursorMovesTheorem == Spec => CursorMovesOn
<1>1. Init => Settled
  BY DEF Init, Settled
<1>2. TypeOK /\ CursorInv /\ Ahead /\ [Next]_vars =>
          [Finish => cursor' >= cursor /\ (cursor' >= cutoff \/ cursor' >= now - Expiry)]_vars
  <2> SUFFICES ASSUME TypeOK, CursorInv, Ahead, Finish
               PROVE  cursor' >= cursor /\ (cursor' >= cutoff \/ cursor' >= now - Expiry)
    OBVIOUS
  <2>1. at # "idle" /\ cursor' = NewCursor
    BY DEF Finish
  <2> QED  BY <2>1, SavedCursor
<1>3. Spec => []TypeOK
  BY Typing
<1> QED  BY <1>1, <1>2, <1>3, CursorInit, CursorStep, SettledStep, AheadInit, AheadStep, PTL
         DEF Spec, CursorMovesOn
=============================================================================
