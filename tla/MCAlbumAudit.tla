---------------------------- MODULE MCAlbumAudit ----------------------------
(* A small instance of AlbumAudit.                                         *)
EXTENDS AlbumAudit, TLC

CONSTANTS r1, r2, r3, t1, t2, a1, a2

\* The first track is downloaded twice: first a whole song from a source that is
\* too long, then a shorter cut that is kept as a last resort.
MCTrackOf == r1 :> t1 @@ r2 :> t1 @@ r3 :> t2
MCAlbumOf == t1 :> a1 @@ t2 :> a2
MCActual == r1 :> 60 @@ r2 :> 40 @@ r3 :> 60
MCSource == r1 :> 60 @@ r2 :> 40 @@ r3 :> 80
MCExpected == t1 :> 60 @@ t2 :> 60
=============================================================================
