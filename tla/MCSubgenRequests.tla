-------------------------- MODULE MCSubgenRequests --------------------------
(* Small instances of SubgenRequests.                                      *)
EXTENDS SubgenRequests

CONSTANTS r1, r2, r3, s1, w1, w2, film, upload

\* One request for an upload; the others, and the submissions, for the film, which
\* these requests name as their video file.
MCMixed == [x \in Requests \union Submissions |-> IF x = r1 THEN upload ELSE film]
\* Everybody asks for the subtitles that subgen would write for the file.
MCSame == [r \in Requests |-> "srt"]
=============================================================================
