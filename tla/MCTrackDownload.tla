-------------------------- MODULE MCTrackDownload --------------------------
EXTENDS TrackDownload

\* Lengths in tens of seconds: unreadable, too short, a shorter cut, right.
MCLengths == {0, 4, 6, 8}

=============================================================================
