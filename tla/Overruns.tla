------------------------------ MODULE Overruns ------------------------------
(***************************************************************************)
(* slab.c and memmgr.c with the sizes of the program, a slab and a simple  *)
(* buffer side by side.                                                    *)
(*                                                                         *)
(* Both put a header at the start of their buffer and then count the       *)
(* blocks that the buffer has room for: slab_init divides the size of the  *)
(* buffer by that of a block and its bitmap byte (slab.c:59), memmgr.c     *)
(* takes the whole buffer for its pool (POOL_SIZE, memmgr.c:125).          *)
(***************************************************************************)
EXTENDS Integers

CONSTANTS
    BuffSize,                        \* size of either buffer
    Word, SlabHeader, BlockSize,     \* of Slab
    Modulus, Quantum, SimpleHeader, MinQuantas, SimpleAsked   \* of Memmgr

VARIABLES
    status, header, bitmap, given,   \* of Slab
    list, pos, held                  \* of Memmgr

slabVars == <<status, header, bitmap, given>>
simpleVars == <<list, pos, held>>
vars == <<slabVars, simpleVars>>

Sl == INSTANCE Slab WITH HeaderSize <- SlabHeader, Asked <- {BlockSize}
Si == INSTANCE Memmgr WITH HeaderSize <- SimpleHeader, Asked <- SimpleAsked

Init == Sl!Init /\ Si!Init

SLAB == Sl!Next /\ UNCHANGED simpleVars
SIMPLE == Si!Next /\ UNCHANGED slabVars

Next == SLAB \/ SIMPLE

Spec == Init /\ [][Next]_vars

------------------------------------------------------------------------------
(* A "buffer-based" allocator hands out bytes of its buffer.  Said of both *)
(* so that a state that violates it shows either allocator with a block    *)
(* that ends behind its buffer: the header was not counted.                *)
HeaderCounted == Sl!BlocksInBuffer \/ Si!BlocksInBuffer
=============================================================================
