------------------------- MODULE MCTranslateBacklog -------------------------
(* A small instance of TranslateBacklog.                                   *)
EXTENDS TranslateBacklog, TLC

CONSTANTS e1, e2, m1, m2

\* The first episode is the one that cannot be read, the last movie has no source.
MCWanted == "episode" :> <<e1, e2>> @@ "movie" :> <<m1, m2>>
=============================================================================
