-------------------------------- MODULE Slab --------------------------------
(***************************************************************************)
(* slab.c and its interface: the allocator of equal blocks behind          *)
(* SHALLOC_BUFF_ALLOC_TYPE_SLAB.                                           *)
(*                                                                         *)
(* The buffer starts with a header, then a byte per block (the bitmap),    *)
(* then the blocks from the next multiple of a word.  Offsets are in bytes *)
(* from the start of the buffer, which is aligned.  A failed assert ends   *)
(* the process: status then names the assert.                              *)
(***************************************************************************)
EXTENDS Integers, FiniteSetsExt, TLC

CONSTANTS
    HeaderSize,   \* sizeof(slab_header_t): 48
    Word,         \* sizeof(long): 8
    BuffSize,     \* size of the buffer
    BlockSize,    \* block size that the region was created with
    Asked         \* sizes that callers pass to malloc

AlignUp(n) == ((n + Word - 1) \div Word) * Word

(* What slab_init asks of the sizes.                                       *)
Accepted(bs) == /\ BuffSize > HeaderSize + bs * 2 + Word
                /\ bs > 0

(* Assumed by every module that runs this one.  That slab_init accepts the *)
(* sizes is the caller's to see to: _slab_create drops its error, and the  *)
(* buffer would be used with whatever its memory held.                     *)
SlabAssumption ==
    /\ HeaderSize \in Nat \ {0} /\ Word \in Nat \ {0}
    /\ BuffSize \in Nat /\ BlockSize \in Nat
    /\ Accepted(AlignUp(BlockSize))

VARIABLES
    status,    \* "open", or the assert that failed
    header,    \* slab_header_t
    bitmap,    \* 1 for a block that is out
    given      \* history: block -> number of callers it is out to

vars == <<status, header, bitmap, given>>

Stops == {"size", "invalid", "double"}

(* The header slab_init writes.                                            *)
Header(bs) ==
    LET n == (BuffSize - Word) \div (bs + 1)
    IN [block_size |-> bs, num_blocks |-> n,
        blocks |-> AlignUp(HeaderSize + n), next_block |-> 0]

_slab_create == Header(AlignUp(BlockSize))

Blocks(hd) == 0..(hd.num_blocks - 1)

(* Mutant: the block number is not scaled.                                 *)
AddressUnscaled(hd, b) == hd.blocks + b

Address(hd, b) == hd.blocks + b * hd.block_size

Emptied(hd) == [b \in Blocks(hd) |-> 0]

Init == /\ status = "open"
        /\ header = _slab_create
        /\ bitmap = Emptied(header)
        /\ given = Emptied(header)

------------------------------------------------------------------------------
(* Free blocks, in the order slab_find_free_block meets them.              *)
FreeSteps == {k \in 0..(header.num_blocks - 1) :
                 bitmap[(header.next_block + k) % header.num_blocks] = 0}

(* Mutant: the scan gives up where it should skip.                         *)
ScanWithoutTest == header.next_block

slab_find_free_block ==
    (header.next_block + Min(FreeSteps)) % header.num_blocks

Alloc(size) ==
    /\ status = "open"
    /\ size = header.block_size
    /\ FreeSteps # {}
    /\ LET b == slab_find_free_block
       IN /\ bitmap' = [bitmap EXCEPT ![b] = 1]
          /\ header' = [header EXCEPT !.next_block = (b + 1) % header.num_blocks]
          /\ given' = [given EXCEPT ![b] = @ + 1]
    /\ UNCHANGED status

AllocNull(size) ==
    /\ status = "open"
    /\ size = header.block_size
    /\ FreeSteps = {}
    /\ UNCHANGED vars

AllocStops(size) ==
    /\ status = "open"
    /\ size # header.block_size
    /\ status' = "size"
    /\ UNCHANGED <<header, bitmap, given>>

(* The block an address names: none outside the blocks or inside one.      *)
slab_address_to_block(addr) == {b \in Blocks(header) : Address(header, b) = addr}

Free(b) ==
    /\ status = "open"
    /\ bitmap[b] = 1
    /\ given[b] > 0
    /\ bitmap' = [bitmap EXCEPT ![b] = 0]
    /\ given' = [given EXCEPT ![b] = @ - 1]
    /\ UNCHANGED <<status, header>>

(* A pointer that is no block, or a block that is not out.                 *)
FreeStops(addr) ==
    /\ status = "open"
    /\ \A b \in slab_address_to_block(addr) : bitmap[b] # 1
    /\ status' = IF slab_address_to_block(addr) = {} THEN "invalid" ELSE "double"
    /\ UNCHANGED <<header, bitmap, given>>

(* shalloc_buff_reset: slab_close, then create.                            *)
Reset ==
    /\ status = "open"
    /\ header' = _slab_create
    /\ bitmap' = Emptied(_slab_create)
    /\ given' = Emptied(_slab_create)
    /\ UNCHANGED status

Next == \/ \E size \in Asked : Alloc(size)
        \/ \E size \in Asked : AllocNull(size)
        \/ \E size \in Asked : AllocStops(size)
        \/ \E b \in Blocks(header) : Free(b)
        \/ \E addr \in 0..(BuffSize - 1) : FreeStops(addr)
        \/ Reset

Spec == Init /\ [][Next]_vars

------------------------------------------------------------------------------
TypeOK ==
    /\ status \in {"open"} \cup Stops
    /\ header \in {[_slab_create EXCEPT !.next_block = b] : b \in Blocks(_slab_create)}
    /\ bitmap \in [Blocks(header) -> {0, 1}]
    /\ given \in [Blocks(header) -> Nat]

(* A bit is set exactly while one caller has the block: a block is never   *)
(* out twice, and never lost to every caller.                              *)
BitmapExact == given = bitmap

(* The bytes behind every pointer slab_alloc can return lie in the buffer: *)
(* slab.h calls this a "buffer-based slab allocator".                      *)
BlocksInBuffer ==
    \A b \in Blocks(header) :
        given[b] > 0 => Address(header, b) + header.block_size <= BuffSize

(* Where the geometry fits, the slab implements the allocator interface,   *)
(* in bytes.                                                               *)
Abs == INSTANCE BufferAllocator WITH
           Size <- BuffSize,
           Lens <- {AlignUp(BlockSize)},
           live <- {[off |-> Address(header, b), len |-> header.block_size] :
                       b \in {c \in DOMAIN given : given[c] > 0}}

Refinement == Abs!Spec
=============================================================================
