--------------------------- MODULE BufferAllocator ---------------------------
(***************************************************************************)
(* What every allocator behind a shalloc_buff_op_t promises its callers.   *)
(*                                                                         *)
(* shalloc.h gives an allocator as a table of functions (create, malloc,   *)
(* free, calloc, destroy) over one contiguous buffer.  Seen from outside,  *)
(* the only state is the set of extents handed out and not yet returned:   *)
(* malloc adds an extent that lies in the buffer and meets no other, free  *)
(* removes it, create (also run by shalloc_buff_reset) forgets all.        *)
(* Addresses are offsets from the first usable byte of the buffer.         *)
(***************************************************************************)
EXTENDS Integers

CONSTANTS
    Size,      \* bytes (or other units) that may be handed out
    Lens       \* lengths an extent may have

VARIABLE live      \* the extents the callers hold

Extents == [off : 0..(Size - 1), len : Lens]

Overlap(e, f) == /\ e.off < f.off + f.len
                 /\ f.off < e.off + e.len

(* Free of e's bytes once the extents of `others` are excluded.            *)
Vacant(e, others) == /\ e.off + e.len <= Size
                     /\ \A f \in others : ~ Overlap(e, f)

------------------------------------------------------------------------------
Create == live = {}

Malloc(e) == /\ Vacant(e, live)
             /\ live' = live \cup {e}

Free(e) == /\ e \in live
           /\ live' = live \ {e}

(* A reallocation that moves: the old extent is still live while the new   *)
(* one is chosen, because its contents are copied.                         *)
Move(e, f) == /\ e \in live
              /\ Vacant(f, live)
              /\ live' = (live \ {e}) \cup {f}

Reset == live' = {}

Next == \/ \E e \in live : Free(e)
        \/ Reset
        \/ \E e \in Extents : Malloc(e)
        \/ \E e \in live, f \in Extents : Move(e, f)

Spec == Create /\ [][Next]_live

------------------------------------------------------------------------------
(* No two extents in the callers' hands share a byte, and none leaves the  *)
(* buffer: the promise of malloc() on one buffer.                          *)
ExtentsDisjoint ==
    /\ \A e, f \in live : e # f => ~ Overlap(e, f)
    /\ \A e \in live : e.off + e.len <= Size
==============================================================================
