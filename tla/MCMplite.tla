------------------------------ MODULE MCMplite ------------------------------
(* Small pools for TLC: a 5-bit int, atoms of 2 bytes.                     *)
EXTENDS Mplite

(* Bytes left in aCtrl by whatever used the memory before: a used mark, or *)
(* free marks that would name a chunk of one and of two atoms.             *)
MCStale == {UsedChunk(0), FreeChunk(0), FreeChunk(1)}

(* One byte, exactly two atoms, the cap, one more than the cap, and a size *)
(* that is negative once it is an int.                                     *)
MCRequests == {1, 4, 8, 9, 20}

(* For a resize: not a power of two, and powers below and above a chunk.   *)
MCResizes == {3, 4, 8}

=============================================================================
