--------------------------- MODULE MCMpliteShared ---------------------------
(* Two processes on a pool of a few atoms of 2 bytes.                      *)
EXTENDS MpliteShared

CONSTANTS p1, p2

MCProcs == {p1, p2}
MCStale == {UsedChunk(0)}
MCRequests == {1, 3}
MCNone == {}
=============================================================================
