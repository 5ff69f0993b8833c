--------------------------- MODULE MCAlbumImport ---------------------------
EXTENDS AlbumImport, TLC

\* Nothing tells albums apart, nor tracks.
Symmetry == Permutations(Albums) \cup Permutations(Tracks)

=============================================================================
