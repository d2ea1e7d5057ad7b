------------------------------ MODULE Buffers ------------------------------
(***************************************************************************)
(* buffer.c: one shalloc_buff_t and the allocator behind it.               *)
(*                                                                         *)
(* shalloc_get_buff chooses an entry of shalloc_space_buff_ops by the type *)
(* the region or heap was created with; every later call on the buffer     *)
(* goes through that entry.  Each entry but mplite, which manages whole    *)
(* heaps and has modules of its own, is an instance here: it starts with   *)
(* the buffer, and only the one that was chosen runs.                      *)
(***************************************************************************)
EXTENDS Integers

CONSTANTS
    Types,                                     \* allocators to choose from
    Modulus, Word,                             \* a size_t, sizeof(long)
    SlabSize, SlabHeader, BlockSize, SlabAsked,
    NoFreeSize, NoFreeHeader, NoFreeBuff, NoFreeAsked,
    SimpleSize, SimpleHeader, Quantum, MinQuantas, SimpleAsked,
    TinySize, FirstBits, MidBits, Granule, MaxCached, TinyAsked,
    LargePool, MaxLarge, LargeBits, ObjectOrder, LargeHeader, PageHeader,
    LongBits, HugeStruct, UserData, LargeAsked, MaxHeld

VARIABLES
    type,                                      \* buff->alloc_type
    slabStatus, slabHeader, bitmap, given,     \* of Slab
    next, live,                                \* of NoFree
    list, pos, simpleHeld,                     \* of Memmgr
    blocks, cache, tinyHeld,                   \* of Tiny
    pool, largeHeld                            \* of Alloc

slabVars == <<slabStatus, slabHeader, bitmap, given>>
nofreeVars == <<next, live>>
simpleVars == <<list, pos, simpleHeld>>
tinyVars == <<blocks, cache, tinyHeld>>
largeVars == <<pool, largeHeld>>

vars == <<type, slabVars, nofreeVars, simpleVars, tinyVars, largeVars>>

Sl == INSTANCE Slab WITH
          HeaderSize <- SlabHeader, BuffSize <- SlabSize, Asked <- SlabAsked,
          status <- slabStatus, header <- slabHeader

Nf == INSTANCE NoFree WITH
          HeaderSize <- NoFreeHeader, BuffSize <- NoFreeSize, Buff <- NoFreeBuff,
          Align <- Word, Asked <- NoFreeAsked

Si == INSTANCE Memmgr WITH
          HeaderSize <- SimpleHeader, BuffSize <- SimpleSize, Asked <- SimpleAsked,
          held <- simpleHeld

Ti == INSTANCE Tiny WITH
          PoolSize <- TinySize, Align <- Word, Asked <- TinyAsked,
          held <- tinyHeld

Al == INSTANCE Alloc WITH
          PoolSize <- LargePool, HeaderSize <- LargeHeader, Align <- Word,
          Asked <- LargeAsked, held <- largeHeld

(* "BUFFER" and "LARGE BUFFER" are one entry of the table: each function   *)
(* of alloc.c starts by handing a pool below MIN_USEFUL_SIZE to tiny.c.    *)
ASSUME BuffersAssumption ==
    /\ Types \subseteq {"BUFFER", "LARGE BUFFER", "SIMPLE", "NOFREE", "SLAB"}
    /\ Al!AllocAssumption
    /\ Nf!NoFreeConstants
    /\ Sl!SlabAssumption
    /\ Si!MemmgrAssumption
    /\ Ti!TinyAssumption

------------------------------------------------------------------------------
(* shalloc_get_buff and op->create.                                        *)
Init ==
    /\ type \in Types
    /\ Sl!Init
    /\ Nf!Init
    /\ Si!Init
    /\ Ti!Init
    /\ Al!Init

op(t) == type = t

SLAB ==
    /\ op("SLAB")
    /\ Sl!Next
    /\ UNCHANGED <<type, nofreeVars, simpleVars, tinyVars, largeVars>>

NOFREE ==
    /\ op("NOFREE")
    /\ Nf!Next
    /\ UNCHANGED <<type, slabVars, simpleVars, tinyVars, largeVars>>

SIMPLE ==
    /\ op("SIMPLE")
    /\ Si!Next
    /\ UNCHANGED <<type, slabVars, nofreeVars, tinyVars, largeVars>>

BUFFER ==
    /\ op("BUFFER")
    /\ Ti!Next
    /\ UNCHANGED <<type, slabVars, nofreeVars, simpleVars, largeVars>>

LARGE_BUFFER ==
    /\ op("LARGE BUFFER")
    /\ Al!Next
    /\ UNCHANGED <<type, slabVars, nofreeVars, simpleVars, tinyVars>>

Next == SLAB \/ NOFREE \/ SIMPLE \/ BUFFER \/ LARGE_BUFFER

Spec == Init /\ [][Next]_vars

------------------------------------------------------------------------------
(* Type correctness of every allocator's state.                            *)
TypeOK ==
    /\ type \in Types
    /\ Sl!TypeOK
    /\ Nf!TypeOK
    /\ Si!TypeOK
    /\ Ti!TypeOK
    /\ Al!TypeOK

(* slab.c: a bit of the bitmap is set exactly while one caller has the     *)
(* block, whatever the next-fit scan has passed.                           *)
BitmapExact == Sl!BitmapExact

(* nofree.c: everything handed out lies between the header and the pointer *)
(* that the next call takes, so that no later call meets it.               *)
BelowNext == Nf!BelowNext

(* memmgr.c: the circular list is closed, sorted by address and holds no   *)
(* block twice, so that every search along it ends.                        *)
RingSound == Si!RingSound

(* memmgr.c: free blocks and blocks handed out cover the used part of the  *)
(* pool once.  tiny.c: headers tile the buffer, one block per caller.      *)
PoolTiled == Si!PoolTiled /\ Ti!BlocksTiled

(* memmgr.c: a freed block is joined to every free neighbour.              *)
NeighboursCombined == Si!NeighboursCombined

(* tiny.c: an entry of the free array always names a free block of the     *)
(* length its bucket stands for.                                           *)
CacheExact == Ti!CacheExact

(* What a caller writes stays clear of what the allocator keeps beside it: *)
(* in tiny.c data is aligned, behind its header and inside its block, in   *)
(* memmgr.c a block has room for its header and the bytes asked for, and   *)
(* in alloc.c an object lies behind the bitmap of its page and in the page.*)
DataApart == /\ Ti!DataApart
             /\ Si!RequestHoused
             /\ Al!DataApart

(* tiny.c: no request is refused that a run of free blocks is long enough  *)
(* for.                                                                    *)
RunsAreUsed == Ti!RunsAreUsed

(* alloc.c: what its own alloc_check looks for: every page accounted for   *)
(* once, on the list it belongs to, with a count and a bitmap that agree.  *)
AllocCheck == Al!AllocCheck

(* alloc.c: the run of pages found for a huge request is free.             *)
HugeRunsFree == Al!HugeRunsFree

(* Whatever allocator a buffer has, its calls are those of the allocator   *)
(* interface: no extent handed out meets another one.                      *)
Refinement == /\ Sl!Refinement
              /\ Nf!Refinement
              /\ Si!Refinement
              /\ Ti!Refinement
              /\ Al!Refinement
=============================================================================
