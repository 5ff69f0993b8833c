-------------------------- MODULE MCAlbumScheduler --------------------------
EXTENDS AlbumScheduler

CONSTANTS a1, a2, a3

MCThree == <<a1, a2, a3>>

=============================================================================
