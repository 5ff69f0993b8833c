---------------------------- MODULE MCAlbumQueue ----------------------------
(* Small instances of AlbumQueue for TLC. *)
EXTENDS AlbumQueue, TLC

Symmetry == Permutations(Threads) \cup Permutations(Albums)
=============================================================================
