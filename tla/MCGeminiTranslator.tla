------------------------- MODULE MCGeminiTranslator -------------------------
(* A small instance of GeminiTranslator.                                   *)
EXTENDS GeminiTranslator, TLC

CONSTANTS j1, j2

\* A subtitle of a batch of three lines and a batch of one, and one of a single line.
MCNumLines == j1 :> 4 @@ j2 :> 1
=============================================================================
