----------------------------- MODULE AlbumAudit -----------------------------
(***************************************************************************)
(* The audit of downloaded albums (src/scripts/lidarr-ytdl-audit.py        *)
(* --apply).  It takes the downloader's rows since its cursor, helps       *)
(* Lidarr to link files it has left out, compares each file with what      *)
(* MusicBrainz and YouTube say of its length, deletes the bad ones in      *)
(* Lidarr and has the downloader ban their source.  Meanwhile the          *)
(* downloader downloads and Lidarr imports.                                *)
(***************************************************************************)
EXTENDS Integers, FiniteSets, FiniteSetsExt

CONSTANTS
    Rows,         \* rows of track_downloads, one per successful download
    Tracks,       \* (album_id, track_number)
    TrackOf,      \* TrackOf[r]: the track that row r is about
    AlbumOf,      \* AlbumOf[t]: its album
    NoRow,
    Actual,       \* Actual[r]: length of the file that download r made
    SourceLength, \* SourceLength[r]: duration_seconds of its YouTube source
    Verified,     \* rows with an AcoustID score of at least VERIFIED_SCORE
    LastResort,   \* rows the downloader accepted as a last resort
    Expected,     \* Expected[t]: length according to MusicBrainz
    Tolerance,
    Settle,       \* SETTLE_SECONDS, in ticks
    Expiry,       \* PENDING_EXPIRY, in ticks
    FirstLook,    \* how far back a run without a cursor looks
    MaxTime,      \* bound on the clock
    MaxDeaths     \* bound on runs of the audit that die

Albums == {AlbumOf[t] : t \in Tracks}

ASSUME AuditAssumption ==
    /\ NoRow \notin Rows
    /\ TrackOf \in [Rows -> Tracks]
    /\ {Actual, SourceLength} \subseteq [Rows -> Nat]
    /\ Expected \in [Tracks -> Nat]
    /\ Verified \subseteq Rows /\ LastResort \subseteq Rows
    /\ {Settle, Expiry, FirstLook, MaxTime} \subseteq Nat \ {0}
    /\ {Tolerance, MaxDeaths} \subseteq Nat
    /\ Settle <= FirstLook  \* five minutes, and a day

VARIABLES
    now,        \* the clock
    busy,       \* is the downloader at work?
    fresh,      \* what it has downloaded and not copied into the library
    stamp,      \* stamp[r]: timestamp of the row, 0 before there is one
    deleted,    \* rows with deleted = 1
    file,       \* file[t]: the download whose file is in the library
    linked,     \* tracks with a track file in Lidarr
    at,         \* where the audit is: "idle", "judge" or "ban"
    cutoff,     \* of this run
    latest,     \* latest[t]: the row to be judged for track t
    seen,       \* seen[a]: has Lidarr been asked for the album: "no", "error", "yes"
    listed,     \* the tracks of those albums that had a file then
    pending,    \* rows that could not be judged in this run
    banning,    \* the row whose source is to be banned
    cursor,     \* the saved cursor
    settled,    \* ghost: rows judged, superseded by a later row, or given up after Expiry
    unanswered, \* ghost: rows passed over since Lidarr had no tracks for their album
    forgotten,  \* ghost: other rows that were older than FirstLook when the cursor was lost
    deaths      \* ghost: runs that have died

worldVars == <<now, busy, fresh, stamp, deleted, file, linked>>
auditVars == <<at, cutoff, latest, seen, listed, pending, banning>>
ghostVars == <<settled, unanswered, forgotten, deaths>>
vars == <<worldVars, auditVars, cursor, ghostVars>>

NoRows == [t \in Tracks |-> NoRow]

Init ==
    /\ now = 1
    /\ busy = FALSE /\ fresh = {}
    /\ stamp = [r \in Rows |-> 0]
    /\ deleted = {}
    /\ file = NoRows
    /\ linked = {}
    /\ at = "idle" /\ cutoff = 0 /\ latest = NoRows
    /\ seen = [a \in Albums |-> "no"] /\ listed = {}
    /\ pending = {} /\ banning = NoRow
    /\ cursor = now - FirstLook
    /\ settled = {} /\ unanswered = {} /\ forgotten = {} /\ deaths = 0

---------------------------------------------------------------------------
(* The downloader and Lidarr, as far as the audit can see them.            *)

Tick ==
    /\ now < MaxTime
    /\ now' = now + 1
    /\ UNCHANGED <<busy, fresh, stamp, deleted, file, linked, auditVars, cursor, ghostVars>>

\* Albums that could not all be audited within the time of the model are left out.
DownloaderStarts ==
    /\ ~busy /\ now + Settle + Expiry <= MaxTime
    /\ busy' = TRUE
    /\ UNCHANGED <<now, fresh, stamp, deleted, file, linked, auditVars, cursor, ghostVars>>

\* A track that Lidarr misses is downloaded, for the first time or again.
Download(r) ==
    /\ busy /\ stamp[r] = 0 /\ now + Settle + Expiry <= MaxTime
    /\ TrackOf[r] \notin linked \union {TrackOf[q] : q \in fresh}
    /\ stamp' = [stamp EXCEPT ![r] = now]
    /\ fresh' = fresh \union {r}
    /\ UNCHANGED <<now, busy, deleted, file, linked, auditVars, cursor, ghostVars>>

\* The end of a run copies what it has downloaded into the library, or fails to.
DownloaderEnds ==
    /\ busy
    /\ busy' = FALSE /\ fresh' = {}
    /\ \/ file' = [t \in Tracks |->
                    IF \E r \in fresh : TrackOf[r] = t
                    THEN CHOOSE r \in fresh : TrackOf[r] = t ELSE file[t]]
       \/ UNCHANGED file
    /\ UNCHANGED <<now, stamp, deleted, linked, auditVars, cursor, ghostVars>>

LidarrLinks(t) ==
    /\ file[t] # NoRow
    /\ linked' = linked \union {t}
    /\ UNCHANGED <<now, busy, fresh, stamp, deleted, file, auditVars, cursor, ghostVars>>

---------------------------------------------------------------------------
(* decide: what is wrong with a file, given the row it is taken to be of.  *)

Gap(m, n) == IF m >= n THEN m - n ELSE n - m

\* Off by more than GROSS_FRACTION, a quarter of the expected length.
Gross(actual, expected) == expected = 0 \/ 4 * Gap(actual, expected) > expected

Verdict(actual, r) ==
    LET expected == Expected[TrackOf[r]] IN
    IF Gap(actual, expected) <= Tolerance THEN "ok"
    ELSE IF \/ SourceLength[r] > 0 /\ actual < SourceLength[r] - Tolerance
            \/ Gross(actual, expected) /\ r \notin Verified
         THEN IF r \in LastResort THEN "review" ELSE "delete"
    ELSE "review"

\* is_downloaders_file: the file in the library is not older than the row.
Identified(r) == stamp[file[TrackOf[r]]] >= stamp[r]

---------------------------------------------------------------------------
(* main: one run of the audit.                                             *)

InWindow(r, limit) ==
    stamp[r] > cursor /\ stamp[r] <= limit /\ stamp[r] # 0 /\ r \notin deleted

\* The newest row of each track in the window; the others were retries.
LatestRows(limit) ==
    [t \in Tracks |->
        LET rows == {r \in Rows : TrackOf[r] = t /\ InWindow(r, limit)}
        IN  IF rows = {} THEN NoRow
            ELSE CHOOSE r \in rows : \A q \in rows : stamp[q] <= stamp[r]]

\* link_unlinked is part of this step: Lidarr is told to import those of the files it
\* left out that it can tell the track of, and whether and when it does is up to Lidarr.
Start ==
    LET limit == now - Settle
        rows == LatestRows(limit)
    IN  /\ at = "idle" /\ ~busy
        /\ at' = "judge"
        /\ cutoff' = limit
        /\ latest' = rows
        /\ settled' = settled \union
                {r \in Rows : InWindow(r, limit) /\ rows[TrackOf[r]] # r}
        /\ UNCHANGED <<worldVars, seen, listed, pending, banning, cursor,
                       unanswered, forgotten, deaths>>

\* The first row of an album, once all rows of the album before it are judged: Lidarr is
\* asked once for all its rows.
Ask(a) ==
    /\ at = "judge" /\ seen[a] = "no"
    /\ \E t \in Tracks : AlbumOf[t] = a /\ latest[t] # NoRow
    /\ \A t \in Tracks : latest[t] # NoRow => seen[AlbumOf[t]] = "no"
    /\ \/ /\ seen' = [seen EXCEPT ![a] = "yes"]
          /\ listed' = listed \union {t \in linked : AlbumOf[t] = a}
       \/ /\ seen' = [seen EXCEPT ![a] = "error"]
          /\ UNCHANGED listed
    /\ UNCHANGED <<worldVars, at, cutoff, latest, pending, banning, cursor, ghostVars>>

Judging(t) == at = "judge" /\ latest[t] # NoRow /\ seen[AlbumOf[t]] # "no"

Done(t) == latest' = [latest EXCEPT ![t] = NoRow]

\* The album is not in Lidarr, or Lidarr answers with an error or no tracks: no row of
\* the album is judged, and none holds the cursor.
PassOver(t) ==
    /\ Judging(t) /\ seen[AlbumOf[t]] = "error"
    /\ Done(t)
    /\ unanswered' = unanswered \union {latest[t]}
    /\ UNCHANGED <<worldVars, at, cutoff, seen, listed, pending, banning, cursor,
                   settled, forgotten, deaths>>

Found(t) == seen[AlbumOf[t]] = "yes" /\ t \in listed

\* Not in Lidarr yet, not the file that the row is about, or ffprobe fails on it.
Postpone(t) ==
    /\ Judging(t) /\ seen[AlbumOf[t]] = "yes"
    /\ Done(t)
    /\ pending' = pending \union {latest[t]}
    /\ UNCHANGED <<worldVars, at, cutoff, seen, listed, banning, cursor, ghostVars>>

Probed(t) == Judging(t) /\ Found(t) /\ file[t] # NoRow /\ Identified(latest[t])

Keep(t) ==
    /\ Probed(t) /\ Verdict(Actual[file[t]], latest[t]) # "delete"
    /\ Done(t)
    /\ settled' = settled \union {latest[t]}
    /\ UNCHANGED <<worldVars, at, cutoff, seen, listed, pending, banning, cursor,
                   unanswered, forgotten, deaths>>

\* A mutant of Delete: the file is removed behind Lidarr's back.
DeleteFileOnly(t) ==
    /\ Probed(t) /\ Verdict(Actual[file[t]], latest[t]) = "delete"
    /\ Done(t)
    /\ at' = "ban" /\ banning' = latest[t]
    /\ file' = [file EXCEPT ![t] = NoRow]
    /\ settled' = settled \union {latest[t]}
    /\ UNCHANGED <<now, busy, fresh, stamp, deleted, linked, cutoff, seen, listed, pending, cursor,
                   unanswered, forgotten, deaths>>

\* Lidarr drops the record and the file, and the track is wanted again.
Delete(t) ==
    /\ Probed(t) /\ Verdict(Actual[file[t]], latest[t]) = "delete"
    /\ Done(t)
    /\ at' = "ban" /\ banning' = latest[t]
    /\ file' = [file EXCEPT ![t] = NoRow]
    /\ linked' = linked \ {t}
    /\ settled' = settled \union {latest[t]}
    /\ UNCHANGED <<now, busy, fresh, stamp, deleted, cutoff, seen, listed, pending, cursor,
                   unanswered, forgotten, deaths>>

\* The downloader marks the row and bans its source, or fails to.
Ban ==
    /\ at = "ban"
    /\ at' = "judge" /\ banning' = NoRow
    /\ \/ deleted' = deleted \union {banning}
       \/ UNCHANGED deleted
    /\ UNCHANGED <<now, busy, fresh, stamp, file, linked, cutoff, latest, seen, listed, pending,
                   cursor, ghostVars>>

\* A mutant of Recent: rows wait for ever.
AllPending == pending

\* Rows that wait hold the cursor, until they are too old to.
Recent == {r \in pending : stamp[r] > now - Expiry}

\* The audit is a process of its own for each run.
Exit ==
    /\ at' = "idle" /\ cutoff' = 0 /\ latest' = NoRows /\ banning' = NoRow
    /\ seen' = [a \in Albums |-> "no"] /\ listed' = {} /\ pending' = {}

\* A mutant of NewCursor: the cursor stops at the waiting row, and the next window
\* begins after it.
NewCursorOnRow == IF Recent = {} THEN cutoff ELSE Min({stamp[r] : r \in Recent})

NewCursor == IF Recent = {} THEN cutoff ELSE Min({stamp[r] : r \in Recent}) - 1

Finish ==
    /\ at = "judge" /\ latest = NoRows
    /\ Exit
    /\ cursor' = NewCursor
    /\ settled' = settled \union (pending \ Recent)
    /\ UNCHANGED <<worldVars, unanswered, forgotten, deaths>>

\* Lidarr or the downloader cannot be reached, or ffprobe hangs: the exception
\* ends the run and its cursor is not saved.
Die ==
    /\ at # "idle" /\ deaths < MaxDeaths
    /\ deaths' = deaths + 1
    /\ Exit
    /\ UNCHANGED <<worldVars, cursor, settled, unanswered, forgotten>>

\* The state file cannot be read: the next run looks a fixed time back, and what is
\* older than that is never looked at again, judged or not.
CursorLost ==
    /\ at = "idle" /\ deaths < MaxDeaths
    /\ deaths' = deaths + 1
    /\ cursor' = now - FirstLook
    /\ forgotten' = forgotten \union
            {r \in Rows \ (settled \union unanswered) : stamp[r] # 0 /\ stamp[r] <= now - FirstLook}
    /\ UNCHANGED <<worldVars, auditVars, settled, unanswered>>

AuditStep ==
    \/ Start \/ Ban \/ Finish
    \/ \E a \in Albums : Ask(a)
    \/ \E t \in Tracks : PassOver(t) \/ Postpone(t) \/ Keep(t) \/ Delete(t)

Next ==
    \/ AuditStep \/ Die \/ CursorLost
    \/ Tick \/ DownloaderStarts \/ DownloaderEnds
    \/ \E r \in Rows : Download(r)
    \/ \E t \in Tracks : LidarrLinks(t)

Spec == Init /\ [][Next]_vars

\* Time goes by, the downloader gets to the end of its queue, and the audit is
\* started again and again.
FairSpec ==
    /\ Spec
    /\ WF_vars(Tick) /\ WF_vars(DownloaderEnds) /\ WF_vars(AuditStep)

---------------------------------------------------------------------------
(* Properties.                                                             *)

TypeOK ==
    /\ now \in 0 .. MaxTime /\ busy \in BOOLEAN /\ fresh \subseteq Rows
    /\ stamp \in [Rows -> 0 .. MaxTime]
    /\ deleted \subseteq Rows
    /\ file \in [Tracks -> Rows \union {NoRow}]
    /\ linked \subseteq {t \in Tracks : file[t] # NoRow}
    /\ at \in {"idle", "judge", "ban"}
    /\ cutoff \in Int /\ cursor \in Int
    /\ latest \in [Tracks -> Rows \union {NoRow}]
    /\ seen \in [Albums -> {"no", "error", "yes"}]
    /\ listed \subseteq Tracks
    /\ pending \subseteq Rows
    /\ banning \in Rows \union {NoRow}
    /\ at = "ban" => banning # NoRow
    /\ settled \subseteq Rows /\ unanswered \subseteq Rows /\ forgotten \subseteq Rows

\* The cursor passes a row only when a run has judged it, a later download of its
\* track in the same window has replaced it, or it was still waiting after an hour;
\* with two exceptions, the only ones: rows of an album that Lidarr had no tracks
\* for when a run asked, and rows older than a day when the saved cursor was lost.
\* So it is whichever runs die, whichever rows of whichever albums wait and whatever is
\* downloaded meanwhile ("Never advance past a row we could not judge yet", line 284,
\* knows of neither exception).
CursorPassesNoOpenRow ==
    \A r \in Rows : stamp[r] # 0 /\ stamp[r] <= cursor =>
        r \in settled \union unanswered \union forgotten

\* No row holds the cursor for ever, and with it the rows that came later: the
\* audit catches up with the downloader again and again.
CursorCatchesUp == []<>(\A r \in Rows : stamp[r] # 0 => cursor >= stamp[r])
=============================================================================
