---------------------------- MODULE BuffersProofs ----------------------------
(***************************************************************************)
(* Theorems about the allocators that module Buffers dispatches to, for    *)
(* every size of a buffer, under the hypotheses that each states about     *)
(* what callers ask for.                                                   *)
(***************************************************************************)
EXTENDS Buffers, OrderLemmas

------------------------------------------------------------------------------
(* The slab.                                                               *)

(* Besides what is asked for: of the header that slab_create wrote, only   *)
(* the place where the next search starts ever changes.                    *)
HeaderAsCreated ==
    /\ slabHeader = [Sl!_slab_create EXCEPT !.next_block = slabHeader.next_block]
    /\ slabHeader.next_block \in Nat
    /\ Sl!_slab_create.num_blocks > 0 =>
          slabHeader.next_block \in Sl!Blocks(Sl!_slab_create)

SlabInv == Sl!TypeOK /\ Sl!BitmapExact /\ HeaderAsCreated

LEMMA SlabConstants ==
    /\ SlabHeader \in Nat \ {0} /\ Word \in Nat \ {0}
    /\ SlabSize \in Nat /\ BlockSize \in Nat
    /\ Sl!Accepted(Sl!AlignUp(BlockSize))
  BY BuffersAssumption DEF Sl!SlabAssumption

LEMMA SlabAlign ==
    ASSUME NEW n \in Nat
    PROVE  Sl!AlignUp(n) \in Nat /\ Sl!AlignUp(n) >= n
  <1>1. n + Word - 1 \in Nat /\ Word \in Nat \ {0}
    BY SlabConstants
  <1>. DEFINE q == (n + Word - 1) \div Word
  <1>2. q \in Nat /\ q * Word <= n + Word - 1 /\ n + Word - 1 < q * Word + Word
    BY <1>1, QuotientRange
  <1>3. q * Word \in Nat
    BY <1>1, <1>2, Z3
  <1>. HIDE DEF q
  <1>4. Sl!AlignUp(n) = q * Word
    BY DEF Sl!AlignUp, q
  <1>. QED
    BY <1>1, <1>2, <1>3, <1>4

(* What slab_create makes of a buffer: a header with at least one block.   *)
LEMMA SlabCreated ==
    /\ Sl!_slab_create \in [block_size : Nat, num_blocks : Nat, blocks : Nat, next_block : {0}]
    /\ Sl!_slab_create.num_blocks >= 1
    /\ Sl!_slab_create.block_size = Sl!AlignUp(BlockSize)
    /\ Sl!_slab_create.block_size > 0
  <1>. DEFINE bs == Sl!AlignUp(BlockSize)
              n == (SlabSize - Word) \div (bs + 1)
  <1>1. bs \in Nat /\ Sl!Accepted(bs)
    BY SlabConstants, SlabAlign
  <1>. HIDE DEF bs
  <1>2. SlabSize - Word \in Nat /\ SlabSize - Word >= bs + 1 /\ bs + 1 \in Nat \ {0}
        /\ bs > 0
    BY <1>1, SlabConstants DEF Sl!Accepted
  <1>3. n \in Nat /\ n >= 1
    BY <1>2, QuotientRange
  <1>. HIDE DEF n
  <1>4. Sl!AlignUp(SlabHeader + n) \in Nat
    BY <1>3, SlabConstants, SlabAlign
  <1>5. Sl!_slab_create = [block_size |-> bs, num_blocks |-> n,
                           blocks |-> Sl!AlignUp(SlabHeader + n), next_block |-> 0]
    BY DEF Sl!_slab_create, Sl!Header, bs, n
  <1>6. Sl!_slab_create.block_size = bs /\ Sl!_slab_create.num_blocks = n
    BY <1>5
  <1>. QED
    BY <1>1, <1>2, <1>3, <1>4, <1>5, <1>6 DEF bs

LEMMA SlabFields ==
    ASSUME HeaderAsCreated
    PROVE  /\ slabHeader.num_blocks = Sl!_slab_create.num_blocks
           /\ slabHeader.num_blocks \in Nat
           /\ slabHeader.block_size = Sl!_slab_create.block_size
           /\ slabHeader.block_size \in Nat
           /\ slabHeader.blocks = Sl!_slab_create.blocks
           /\ slabHeader.blocks \in Nat
           /\ Sl!Blocks(slabHeader) = Sl!Blocks(Sl!_slab_create)
  BY SlabCreated DEF HeaderAsCreated, Sl!Blocks

(* A header in which the search starts at another block.                   *)
LEMMA SlabNewHeader ==
    ASSUME HeaderAsCreated, NEW b \in Sl!Blocks(slabHeader),
           slabHeader' = [slabHeader EXCEPT !.next_block = b]
    PROVE  /\ HeaderAsCreated'
           /\ Sl!Blocks(slabHeader') = Sl!Blocks(slabHeader)
           /\ slabHeader' \in {[Sl!_slab_create EXCEPT !.next_block = c]
                                 : c \in Sl!Blocks(Sl!_slab_create)}
  <1>1. slabHeader' = [Sl!_slab_create EXCEPT !.next_block = b] /\ slabHeader'.next_block = b
    BY SlabCreated DEF HeaderAsCreated
  <1>2. b \in Sl!Blocks(Sl!_slab_create) /\ b \in Nat
    BY SlabFields DEF Sl!Blocks
  <1>. QED
    BY <1>1, <1>2, SlabFields, SlabCreated DEF HeaderAsCreated, Sl!Blocks

(* The state slab_create leaves, first and whenever the buffer is reset.   *)
SlabIsNew == /\ slabHeader = Sl!_slab_create
             /\ slabStatus = "open"
             /\ bitmap = Sl!Emptied(Sl!_slab_create)
             /\ given = Sl!Emptied(Sl!_slab_create)

LEMMA SlabEmpty == SlabIsNew => SlabInv
  <1>. SUFFICES ASSUME SlabIsNew
                PROVE  SlabInv
    OBVIOUS
  <1>. USE DEF SlabIsNew
  <1>1. HeaderAsCreated
    BY SlabCreated DEF HeaderAsCreated, Sl!Blocks
  <1>2. slabHeader \in {[Sl!_slab_create EXCEPT !.next_block = b]
                           : b \in Sl!Blocks(Sl!_slab_create)}
    <2>1. 0 \in Sl!Blocks(Sl!_slab_create)
      BY SlabCreated DEF Sl!Blocks
    <2>2. slabHeader = [Sl!_slab_create EXCEPT !.next_block = 0]
      BY SlabCreated
    <2>. QED
      BY <2>1, <2>2
  <1>. QED
    BY <1>1, <1>2 DEF SlabInv, Sl!TypeOK, Sl!BitmapExact, Sl!Emptied

(* The block that slab_find_free_block returns is one, and is free.        *)
LEMMA SlabFound ==
    ASSUME SlabInv, Sl!FreeSteps # {}
    PROVE  /\ Sl!slab_find_free_block \in Sl!Blocks(slabHeader)
           /\ bitmap[Sl!slab_find_free_block] = 0
           /\ slabHeader.num_blocks \in Nat \ {0}
  <1>. DEFINE n == slabHeader.num_blocks
              k == Sl!Min(Sl!FreeSteps)
  <1>1. n \in Nat /\ slabHeader.next_block \in Nat
    BY SlabFields DEF SlabInv, HeaderAsCreated
  <1>2. k \in Sl!FreeSteps
    <2>1. Sl!FreeSteps \in SUBSET Nat
      BY <1>1 DEF Sl!FreeSteps
    <2>2. Min(Sl!FreeSteps) \in Sl!FreeSteps
      BY <2>1, MinIsLeast
    <2>. QED
      BY <2>2 DEF Min, Sl!Min
  <1>. HIDE DEF k
  <1>3. n > 0 /\ k \in Nat /\ bitmap[(slabHeader.next_block + k) % n] = 0
    BY <1>1, <1>2 DEF Sl!FreeSteps
  <1>4. (slabHeader.next_block + k) % n \in 0..(n - 1)
    <2>1. slabHeader.next_block + k \in Int /\ n \in Nat \ {0}
      BY <1>1, <1>3
    <2>. QED
      BY <2>1, RemainderRange
  <1>. QED
    BY <1>1, <1>3, <1>4 DEF Sl!slab_find_free_block, Sl!Blocks, k

LEMMA SlabAlloc ==
    ASSUME SlabInv, NEW size \in SlabAsked, Sl!Alloc(size)
    PROVE  SlabInv'
  <1>. DEFINE b == Sl!slab_find_free_block
              c == (b + 1) % slabHeader.num_blocks
  <1>1. /\ b \in Sl!Blocks(slabHeader) /\ bitmap[b] = 0
        /\ slabHeader.num_blocks \in Nat \ {0}
    BY SlabFound DEF Sl!Alloc
  <1>2. c \in Sl!Blocks(slabHeader)
    BY <1>1, RemainderRange DEF Sl!Blocks
  <1>3. /\ bitmap' = [bitmap EXCEPT ![b] = 1]
        /\ given' = [given EXCEPT ![b] = @ + 1]
        /\ slabHeader' = [slabHeader EXCEPT !.next_block = c]
        /\ slabStatus' = slabStatus
    BY DEF Sl!Alloc
  <1>. HIDE DEF b, c
  <1>4. /\ HeaderAsCreated'
        /\ Sl!Blocks(slabHeader') = Sl!Blocks(slabHeader)
        /\ slabHeader' \in {[Sl!_slab_create EXCEPT !.next_block = d]
                                 : d \in Sl!Blocks(Sl!_slab_create)}
    BY <1>2, <1>3, SlabNewHeader DEF SlabInv
  <1>5. bitmap \in [Sl!Blocks(slabHeader) -> {0, 1}] /\ given = bitmap
    BY DEF SlabInv, Sl!TypeOK, Sl!BitmapExact
  <1>6. given' = bitmap' /\ bitmap' \in [Sl!Blocks(slabHeader) -> {0, 1}]
    BY <1>1, <1>3, <1>5
  <1>7. given' \in [Sl!Blocks(slabHeader') -> Nat]
    BY <1>4, <1>6
  <1>. QED
    BY <1>3, <1>4, <1>6, <1>7 DEF SlabInv, Sl!TypeOK, Sl!BitmapExact

LEMMA SlabFree ==
    ASSUME SlabInv, NEW b \in Sl!Blocks(slabHeader), Sl!Free(b)
    PROVE  SlabInv'
  BY DEF SlabInv, Sl!TypeOK, Sl!BitmapExact, HeaderAsCreated, Sl!Free

LEMMA SlabStep ==
    ASSUME SlabInv, Sl!Next \/ UNCHANGED slabVars
    PROVE  SlabInv'
  <1>1. ASSUME NEW size \in SlabAsked, Sl!Alloc(size)
        PROVE  SlabInv'
    BY <1>1, SlabAlloc
  <1>2. CASE UNCHANGED slabVars
    BY <1>2 DEF slabVars, SlabInv, Sl!TypeOK, Sl!BitmapExact, HeaderAsCreated
  <1>3. ASSUME NEW size \in SlabAsked, Sl!AllocNull(size)
        PROVE  SlabInv'
    BY <1>2, <1>3 DEF Sl!AllocNull, Sl!vars, slabVars
  <1>4. ASSUME NEW size \in SlabAsked, Sl!AllocStops(size)
        PROVE  SlabInv'
    BY <1>4 DEF Sl!AllocStops, Sl!Stops, SlabInv, Sl!TypeOK, Sl!BitmapExact, HeaderAsCreated
  <1>5. ASSUME NEW b \in Sl!Blocks(slabHeader), Sl!Free(b)
        PROVE  SlabInv'
    BY <1>5, SlabFree
  <1>6. ASSUME NEW addr \in 0..(SlabSize - 1), Sl!FreeStops(addr)
        PROVE  SlabInv'
    BY <1>6 DEF Sl!FreeStops, Sl!Stops, SlabInv, Sl!TypeOK, Sl!BitmapExact, HeaderAsCreated
  <1>7. CASE Sl!Reset
    <2>1. SlabIsNew'
      BY <1>7 DEF Sl!Reset, SlabIsNew, Sl!Emptied, Sl!Blocks
    <2>. QED
      BY <2>1, SlabEmpty, PTL
  <1>. QED
    BY <1>1, <1>2, <1>3, <1>4, <1>5, <1>6, <1>7 DEF Sl!Next

LEMMA SlabAlways == Spec => []SlabInv
  <1>1. Init => SlabInv
    <2>. SUFFICES ASSUME Init
                  PROVE  SlabInv
      OBVIOUS
    <2>1. SlabIsNew
      BY DEF Init, Sl!Init, SlabIsNew
    <2>. QED
      BY <2>1, SlabEmpty
  <1>2. SlabInv /\ [Next]_vars => SlabInv'
    <2>. SUFFICES ASSUME SlabInv, [Next]_vars
                  PROVE  SlabInv'
      OBVIOUS
    <2>1. Sl!Next \/ UNCHANGED slabVars
      BY DEF Next, vars, SLAB, NOFREE, SIMPLE, BUFFER, LARGE_BUFFER
    <2>. QED
      BY <2>1, SlabStep
  <1>. QED
    BY <1>1, <1>2, PTL DEF Spec

(* The bitmap of a slab says which blocks are out, and no block is out to  *)
(* two callers, for every size of buffer and block that slab_init accepts  *)
(* and after any number of resets.                                         *)
THEOREM SlabBitmapExact == Spec => []BitmapExact
  <1>1. SlabInv => BitmapExact
    BY DEF SlabInv, BitmapExact
  <1>. QED
    BY <1>1, SlabAlways, PTL

(* The blocks that slab_init counts end with the buffer.  It does not make *)
(* sure of that: the header's size is left out of the division.            *)
SlabFits ==
    LET hd == Sl!_slab_create
    IN hd.blocks + hd.num_blocks * hd.block_size <= SlabSize

SlabExtent(b) == [off |-> Sl!Address(slabHeader, b), len |-> slabHeader.block_size]

SlabLive == {SlabExtent(b) : b \in {c \in DOMAIN given : given[c] > 0}}

(* Blocks are in the buffer and two of them never overlap.                 *)
LEMMA SlabBlocksApart ==
    ASSUME SlabFits, HeaderAsCreated, NEW b \in Sl!Blocks(slabHeader)
    PROVE  /\ SlabExtent(b) \in [off : 0..(SlabSize - 1), len : {Sl!AlignUp(BlockSize)}]
           /\ SlabExtent(b).off + SlabExtent(b).len <= SlabSize
           /\ \A c \in Sl!Blocks(slabHeader) : c # b =>
                 /\ ~ Sl!Abs!Overlap(SlabExtent(b), SlabExtent(c))
                 /\ SlabExtent(c) # SlabExtent(b)
  <1>. DEFINE n == slabHeader.num_blocks
              s == slabHeader.block_size
              at == slabHeader.blocks
  <1>1. /\ n \in Nat /\ n > 0 /\ s \in Nat /\ at \in Nat /\ at + n * s <= SlabSize
        /\ b \in Nat /\ b < n
    BY SlabFields DEF SlabFits, Sl!Blocks
  <1>2. s > 0 /\ s = Sl!AlignUp(BlockSize)
    BY SlabCreated, SlabFields
  <1>3. \A c \in Sl!Blocks(slabHeader) : c \in Nat /\ c < n /\ c * s \in Nat
    BY <1>1, Z3 DEF Sl!Blocks
  <1>4. \A c \in Nat, d \in Nat : c < d => c * s + s <= d * s
    BY <1>1, PiecesApart
  <1>5. b * s + s <= n * s /\ b * s \in Nat /\ SlabSize \in Nat /\ n * s \in Nat
    BY <1>1, <1>3, <1>4, SlabConstants, PiecesApart
  <1>. HIDE DEF n, s, at
  <1>6. \A c \in Sl!Blocks(slabHeader) : SlabExtent(c) = [off |-> at + c * s, len |-> s]
    BY DEF SlabExtent, Sl!Address, s, at
  <1>7. at + b * s + s <= SlabSize
    BY <1>1, <1>5
  <1>8. SlabExtent(b) \in [off : 0..(SlabSize - 1), len : {Sl!AlignUp(BlockSize)}]
    BY <1>1, <1>2, <1>5, <1>6, <1>7
  <1>9. SlabExtent(b).off + SlabExtent(b).len <= SlabSize
    BY <1>6, <1>7
  <1>10. ASSUME NEW c \in Sl!Blocks(slabHeader), c # b
         PROVE  /\ ~ Sl!Abs!Overlap(SlabExtent(b), SlabExtent(c))
                /\ SlabExtent(c) # SlabExtent(b)
    <2>1. c \in Nat /\ c * s \in Nat /\ b * s \in Nat /\ (c < b \/ b < c)
      BY <1>1, <1>3, <1>10
    <2>2. c * s + s <= b * s \/ b * s + s <= c * s
      BY <1>1, <1>4, <2>1
    <2>3. /\ SlabExtent(c).off = at + c * s /\ SlabExtent(c).len = s
          /\ SlabExtent(b).off = at + b * s /\ SlabExtent(b).len = s
      BY <1>6
    <2>. DEFINE x == c * s
                y == b * s
    <2>. HIDE DEF x, y
    <2>4. /\ SlabExtent(c).off = at + x /\ SlabExtent(b).off = at + y
          /\ x \in Nat /\ y \in Nat /\ (x + s <= y \/ y + s <= x)
      BY <2>1, <2>2, <2>3 DEF x, y
    <2>5. SlabExtent(c).off # SlabExtent(b).off
      BY <1>1, <1>2, <2>4
    <2>. QED
      BY <1>1, <1>2, <2>3, <2>4, <2>5 DEF Sl!Abs!Overlap
  <1>. QED
    BY <1>8, <1>9, <1>10

(* A step that leaves header and callers alone, as far as they are seen.   *)
LEMMA SlabUnseen ==
    ASSUME slabHeader' = slabHeader, given' = given
    PROVE  SlabLive' = SlabLive
  BY DEF SlabLive, SlabExtent, Sl!Address

LEMMA SlabAllocSeen ==
    ASSUME SlabFits, SlabInv, NEW size \in SlabAsked, Sl!Alloc(size)
    PROVE  \E e \in Sl!Abs!Extents : /\ Sl!Abs!Vacant(e, SlabLive)
                                      /\ SlabLive' = SlabLive \cup {e}
  <1>. DEFINE b == Sl!slab_find_free_block
              out == {c \in DOMAIN given : given[c] > 0}
  <1>1. b \in Sl!Blocks(slabHeader) /\ bitmap[b] = 0
    BY SlabFound DEF Sl!Alloc
  <1>2. /\ given' = [given EXCEPT ![b] = @ + 1]
        /\ slabHeader'.block_size = slabHeader.block_size
        /\ slabHeader'.blocks = slabHeader.blocks
    <2>1. slabHeader' = [slabHeader EXCEPT !.next_block = (b + 1) % slabHeader.num_blocks]
      BY DEF Sl!Alloc
    <2>2. slabHeader = [Sl!_slab_create EXCEPT !.next_block = slabHeader.next_block]
      BY DEF SlabInv, HeaderAsCreated
    <2>. QED
      BY <2>1, <2>2, SlabCreated DEF Sl!Alloc
  <1>. HIDE DEF b
  <1>3. /\ DOMAIN given = Sl!Blocks(slabHeader) /\ given[b] = 0 /\ given \in [Sl!Blocks(slabHeader) -> Nat]
    BY <1>1 DEF SlabInv, Sl!TypeOK, Sl!BitmapExact
  <1>4. out' = out \cup {b} /\ b \notin out
    BY <1>1, <1>2, <1>3
  <1>5. \A c : (SlabExtent(c))' = SlabExtent(c)
    BY <1>2 DEF SlabExtent, Sl!Address
  <1>6. SlabLive' = SlabLive \cup {SlabExtent(b)}
    <2>1. SlabLive' = {(SlabExtent(c))' : c \in out'}
      BY DEF SlabLive
    <2>2. SlabLive' = {SlabExtent(c) : c \in out \cup {b}}
      BY <1>4, <1>5, <2>1
    <2>. QED
      BY <2>2 DEF SlabLive
  <1>7. SlabExtent(b) \in Sl!Abs!Extents
    BY <1>1, SlabBlocksApart DEF SlabInv, Sl!Abs!Extents
  <1>8. Sl!Abs!Vacant(SlabExtent(b), SlabLive)
    <2>1. \A c \in out : ~ Sl!Abs!Overlap(SlabExtent(b), SlabExtent(c))
      BY <1>1, <1>3, <1>4, SlabBlocksApart DEF SlabInv
    <2>2. SlabExtent(b).off + SlabExtent(b).len <= SlabSize
      BY <1>1, SlabBlocksApart DEF SlabInv
    <2>. QED
      BY <2>1, <2>2 DEF SlabLive, Sl!Abs!Vacant
  <1>. QED
    BY <1>6, <1>7, <1>8

LEMMA SlabFreeSeen ==
    ASSUME SlabFits, SlabInv, NEW b \in Sl!Blocks(slabHeader), Sl!Free(b)
    PROVE  SlabExtent(b) \in SlabLive /\ SlabLive' = SlabLive \ {SlabExtent(b)}
  <1>. DEFINE out == {c \in DOMAIN given : given[c] > 0}
  <1>1. /\ DOMAIN given = Sl!Blocks(slabHeader) /\ given \in [Sl!Blocks(slabHeader) -> {0, 1}]
        /\ given[b] = 1
    BY DEF SlabInv, Sl!TypeOK, Sl!BitmapExact, Sl!Free
  <1>2. slabHeader' = slabHeader /\ given' = [given EXCEPT ![b] = @ - 1]
    BY DEF Sl!Free
  <1>3. out' = out \ {b} /\ b \in out
    BY <1>1, <1>2
  <1>4. \A c : (SlabExtent(c))' = SlabExtent(c)
    BY <1>2 DEF SlabExtent, Sl!Address
  <1>5. SlabLive' = {SlabExtent(c) : c \in out \ {b}}
    <2>1. SlabLive' = {(SlabExtent(c))' : c \in out'}
      BY DEF SlabLive
    <2>. QED
      BY <1>3, <1>4, <2>1
  <1>6. \A c \in out \ {b} : SlabExtent(c) # SlabExtent(b)
    BY <1>1, SlabBlocksApart DEF SlabInv
  <1>. QED
    BY <1>3, <1>5, <1>6 DEF SlabLive

LEMMA SlabStepSeen ==
    ASSUME SlabFits, SlabInv, Sl!Next \/ UNCHANGED slabVars
    PROVE  \/ \E e \in SlabLive : SlabLive' = SlabLive \ {e}
           \/ SlabLive' = {}
           \/ \E e \in Sl!Abs!Extents : /\ Sl!Abs!Vacant(e, SlabLive)
                                        /\ SlabLive' = SlabLive \cup {e}
           \/ SlabLive' = SlabLive
  <1>1. ASSUME NEW size \in SlabAsked, Sl!Alloc(size)
        PROVE  \E e \in Sl!Abs!Extents : /\ Sl!Abs!Vacant(e, SlabLive)
                                          /\ SlabLive' = SlabLive \cup {e}
    BY <1>1, SlabAllocSeen
  <1>2. CASE \/ UNCHANGED slabVars
             \/ \E size \in SlabAsked : Sl!AllocNull(size) \/ Sl!AllocStops(size)
             \/ \E addr \in 0..(SlabSize - 1) : Sl!FreeStops(addr)
    <2>1. slabHeader' = slabHeader /\ given' = given
      BY <1>2 DEF slabVars, Sl!AllocNull, Sl!AllocStops, Sl!FreeStops, Sl!vars
    <2>. QED
      BY <2>1, SlabUnseen
  <1>3. ASSUME NEW b \in Sl!Blocks(slabHeader), Sl!Free(b)
        PROVE  \E e \in SlabLive : SlabLive' = SlabLive \ {e}
    BY <1>3, SlabFreeSeen
  <1>4. CASE Sl!Reset
    <2>1. given' = Sl!Emptied(Sl!_slab_create)
      BY <1>4 DEF Sl!Reset
    <2>2. SlabLive' = {}
      BY <2>1 DEF SlabLive, Sl!Emptied
    <2>. QED
      BY <2>2
  <1>. QED
    BY <1>1, <1>2, <1>3, <1>4 DEF Sl!Next

(* Where the blocks counted end with the buffer, slab.c implements the     *)
(* allocator interface: next-fit search, bitmap and failed asserts are     *)
(* hidden, and no two callers' blocks share a byte.                        *)
THEOREM SlabImplements == ASSUME SlabFits PROVE Spec => Sl!Refinement
  <1>1. Init => Sl!Abs!Create
    BY DEF Init, Sl!Init, Sl!Emptied, Sl!Abs!Create
  <1>2. SlabInv /\ [Next]_vars => [Sl!Abs!Next]_SlabLive
    <2>. SUFFICES ASSUME SlabInv, [Next]_vars
                  PROVE  Sl!Abs!Next \/ SlabLive' = SlabLive
      OBVIOUS
    <2>1. Sl!Next \/ UNCHANGED slabVars
      BY DEF Next, vars, SLAB, NOFREE, SIMPLE, BUFFER, LARGE_BUFFER
    <2>2. \/ \E e \in SlabLive : SlabLive' = SlabLive \ {e}
          \/ SlabLive' = {}
          \/ \E e \in Sl!Abs!Extents : /\ Sl!Abs!Vacant(e, SlabLive)
                                       /\ SlabLive' = SlabLive \cup {e}
          \/ SlabLive' = SlabLive
      BY <2>1, SlabStepSeen
    <2>. QED
      BY <2>2 DEF Sl!Abs!Next, Sl!Abs!Free, Sl!Abs!Reset, Sl!Abs!Malloc, SlabLive, SlabExtent
  <1>. QED
    BY <1>1, <1>2, SlabAlways, PTL DEF Spec, Sl!Refinement, Sl!Abs!Spec, SlabLive, SlabExtent

(* The same condition is what slab_init would have to check for every      *)
(* block it hands out to lie in the buffer.                                *)
THEOREM SlabStaysInBuffer == ASSUME SlabFits PROVE Spec => []Sl!BlocksInBuffer
  <1>1. ASSUME SlabInv
        PROVE  Sl!BlocksInBuffer
    <2>1. \A b \in Sl!Blocks(slabHeader) : SlabExtent(b).off + SlabExtent(b).len <= SlabSize
      BY <1>1, SlabBlocksApart DEF SlabInv
    <2>. QED
      BY <2>1 DEF SlabExtent, Sl!BlocksInBuffer
  <1>. QED
    BY <1>1, SlabAlways, PTL


------------------------------------------------------------------------------
(* memmgr.c.  R is the set of free blocks, the circle is R and base.       *)
Quanta == Si!PoolQuanta
Base == Si!Base
Junk == Si!Junk
Cells == Si!Pool \cup {Base}

Circle(R) == R \cup {Base}

(* n comes after b on the way round.                                       *)
Follows(R, b, n) ==
    /\ n \in Circle(R)
    /\ \/ b < n /\ \A c \in Circle(R) : c <= b \/ n <= c
       \/ n = Base /\ \A c \in Circle(R) : c <= b

Ring(m, R) ==
    /\ R \subseteq Si!Pool
    /\ m = [next |-> m.next, size |-> m.size, freep |-> m.freep]
    /\ m.next \in [Cells -> Cells \cup {Junk}]
    /\ m.size \in [Cells -> (0..Quanta) \cup {Junk}]
    /\ m.size[Base] = 0
    /\ m.freep \in Circle(R)
    /\ \A b \in Circle(R) : Follows(R, b, m.next[b])

LEMMA SimpleConstants ==
    /\ Quantum \in Nat \ {0} /\ Modulus \in Nat \ {0} /\ Modulus % Quantum = 0
    /\ MinQuantas \in Nat \ {0} /\ SimpleSize \in Nat /\ SimpleAsked \subseteq 1..(Modulus - 1)
    /\ SimpleHeader \in Nat
    /\ Quanta \in Nat /\ Base = -1 /\ Junk = -2
    /\ Si!Pool = 0..(Quanta - 1)
  <1>1. /\ Quantum \in Nat \ {0} /\ Modulus \in Nat \ {0} /\ Modulus % Quantum = 0
        /\ MinQuantas \in Nat \ {0} /\ SimpleSize \in Nat /\ SimpleAsked \subseteq 1..(Modulus - 1)
        /\ SimpleHeader \in Nat
    BY BuffersAssumption DEF Si!MemmgrAssumption
  <1>2. Quanta \in Nat
    BY <1>1, QuotientRange DEF Quanta, Si!PoolQuanta
  <1>. QED
    BY <1>1, <1>2 DEF Quanta, Base, Junk, Si!Base, Si!Junk, Si!Pool

LEMMA SimpleMin == \A S : Si!Min(S) = Min(S)
  BY Zenon DEF Si!Min, Min

(* How many of the circle lie below b.                                     *)
Rank(R, b) == Cardinality({c \in Circle(R) : c < b})

LEMMA CircleFinite ==
    ASSUME NEW R \in SUBSET Si!Pool
    PROVE  /\ IsFiniteSet(Circle(R))
           /\ Cardinality(Circle(R)) \in 1..(Quanta + 1)
           /\ \A b : IsFiniteSet({c \in Circle(R) : c < b}) /\ Rank(R, b) \in Nat
           /\ Circle(R) \subseteq (-1)..(Quanta - 1)
           /\ Base \in Circle(R) /\ \A c \in Circle(R) : Base <= c
  <1>. DEFINE I == (-1)..(Quanta - 1)
              C == Circle(R)
  <1>1. C \subseteq I /\ Base \in C /\ (\A c \in C : Base <= c) /\ -1 \in Int /\ Quanta - 1 \in Int
    BY SimpleConstants DEF Circle
  <1>2. IsFiniteSet(I) /\ Cardinality(I) = Quanta + 1
    BY SimpleConstants, FS_Interval
  <1>. HIDE DEF C, I
  <1>3. IsFiniteSet(C) /\ Cardinality(C) <= Quanta + 1
    BY <1>1, <1>2, FS_Subset, Zenon
  <1>4. Cardinality(C) \in Nat /\ Cardinality(C) # 0
    BY <1>1, <1>3, FS_CardinalityType, FS_EmptySet
  <1>5. Cardinality(C) \in 1..(Quanta + 1)
    BY <1>3, <1>4, SimpleConstants
  <1>6. ASSUME NEW b
        PROVE  IsFiniteSet({c \in C : c < b}) /\ Cardinality({c \in C : c < b}) \in Nat
    <2>1. {c \in C : c < b} \in SUBSET C
      OBVIOUS
    <2>2. IsFiniteSet({c \in C : c < b})
      BY <1>3, <2>1, FS_Subset
    <2>. QED
      BY <2>2, FS_CardinalityType
  <1>. QED
    BY <1>1, <1>3, <1>5, <1>6 DEF C, I, Rank

LEMMA RankNext ==
    ASSUME NEW R \in SUBSET Si!Pool, NEW b \in Circle(R), NEW n, Follows(R, b, n)
    PROVE  IF b < n THEN Rank(R, n) = Rank(R, b) + 1
           ELSE n = Base /\ Rank(R, n) = 0 /\ Rank(R, b) + 1 = Cardinality(Circle(R))
  <1>. DEFINE C == Circle(R)
              L == {c \in C : c < b}
  <1>1. C \subseteq Int /\ b \in C /\ n \in C /\ Base \in C
    BY CircleFinite DEF Follows
  <1>2. IsFiniteSet(L) /\ Cardinality(L) = Rank(R, b)
    BY CircleFinite DEF Rank
  <1>3. b \notin L
    BY <1>1
  <1>4. Cardinality(L \cup {b}) = Rank(R, b) + 1
    <2>. HIDE DEF L
    <2>. QED
      BY <1>2, <1>3, FS_AddElement
  <1>5. CASE b < n
    <2>1. \A c \in C : c <= b \/ n <= c
      BY <1>1, <1>5, SimpleConstants, CircleFinite DEF Follows
    <2>. HIDE DEF C
    <2>2. \A c \in C : c < n <=> (c < b \/ c = b)
      BY <1>1, <1>5, <2>1
    <2>3. {c \in C : c < n} = L \cup {b}
      BY <1>1, <2>2, Zenon
    <2>. QED
      BY <1>4, <1>5, <2>3 DEF Rank, C
  <1>6. CASE ~ (b < n)
    <2>1. n = Base /\ \A c \in C : c <= b
      BY <1>6 DEF Follows
    <2>2. \A c \in C : Base <= c
      BY CircleFinite
    <2>. HIDE DEF C
    <2>3. \A c \in C : (c < b \/ c = b) /\ ~ (c < n)
      BY <1>1, <2>1, <2>2
    <2>4. C = L \cup {b}
      BY <1>1, <2>3, Zenon
    <2>5. {c \in C : c < n} = {}
      BY <2>3, Zenon
    <2>. QED
      BY <1>4, <1>6, <2>1, <2>4, <2>5, FS_EmptySet DEF Rank, C
  <1>. QED
    BY <1>5, <1>6

LEMMA RankOne ==
    ASSUME NEW R \in SUBSET Si!Pool, NEW b \in Circle(R)
    PROVE  /\ Rank(R, b) < Cardinality(Circle(R))
           /\ \A c \in Circle(R) : b < c => Rank(R, b) < Rank(R, c)
  <1>. DEFINE C == Circle(R)
              L == {c \in C : c < b}
  <1>1. C \subseteq Int /\ b \in C /\ IsFiniteSet(C)
    BY CircleFinite
  <1>2. IsFiniteSet(L) /\ Cardinality(L) = Rank(R, b) /\ Rank(R, b) \in Nat
    BY CircleFinite DEF Rank
  <1>3. b \notin L
    BY <1>1
  <1>4. Cardinality(L \cup {b}) = Rank(R, b) + 1
    <2>. HIDE DEF L
    <2>. QED
      BY <1>2, <1>3, FS_AddElement
  <1>5. Rank(R, b) < Cardinality(C)
    <2>. HIDE DEF C
    <2>1. L \cup {b} \in SUBSET C
      BY <1>1
    <2>. HIDE DEF L
    <2>2. Cardinality(L \cup {b}) <= Cardinality(C)
      BY <1>1, <2>1, FS_Subset
    <2>3. Cardinality(C) \in Nat
      BY <1>1, FS_CardinalityType
    <2>. QED
      BY <1>2, <1>4, <2>2, <2>3
  <1>6. ASSUME NEW c \in C, b < c
        PROVE  Rank(R, b) < Rank(R, c)
    <2>. DEFINE M == {d \in C : d < c}
    <2>1. IsFiniteSet(M) /\ Cardinality(M) = Rank(R, c) /\ Rank(R, c) \in Nat
      BY CircleFinite DEF Rank
    <2>. HIDE DEF C
    <2>2. \A d \in C : (d < b \/ d = b) => d < c
      BY <1>1, <1>6
    <2>4. L \cup {b} \in SUBSET M
      BY <1>1, <2>2, Zenon
    <2>. HIDE DEF L, M
    <2>3. Cardinality(L \cup {b}) <= Cardinality(M)
      BY <2>1, <2>4, FS_Subset
    <2>. QED
      BY <1>2, <1>4, <2>1, <2>3
  <1>. QED
    BY <1>5, <1>6 DEF C

(* Steps of the walk after which it is where it began, and the first one.  *)
Returns(m) == {k \in 1..(Quanta + 1) : Si!Walk(m)[k] = m.freep}
Round(m) == Min(Returns(m))

(* A walk goes round the circle and meets every block of it.               *)
Rounds(m, R) ==
    LET at == Si!Walk(m)
    IN /\ at[0] = m.freep
       /\ \A k \in 0..(Quanta + 1) : at[k] \in Circle(R)
       /\ \A k \in 1..(Quanta + 1) : at[k] = m.next[at[k - 1]]
       /\ \A b \in Circle(R) : \E k \in 0..Quanta : at[k] = b
       /\ Round(m) \in 1..(Quanta + 1)
       /\ \A b \in Circle(R) : \E k \in 1..Round(m) : at[k] = b

LEMMA WalkRounds ==
    ASSUME NEW m, NEW R, Ring(m, R)
    PROVE  Rounds(m, R)
  <1>. DEFINE V == Circle(R)
              step == [b \in V |-> m.next[b]]
              top == Quanta + 1
              G == [k \in 1..top |-> step]
  <1>1. \A b \in V : m.next[b] \in V
    BY DEF Ring, Follows
  <1>2. step \in [V -> V] /\ G \in [1..top -> [V -> V]] /\ m.freep \in V /\ top \in Nat
    BY <1>1, SimpleConstants DEF Ring
  <1>3. PICK f : f \in Ascents(top, V, m.freep, G)
    <2>. HIDE DEF V, G, top
    <2>. QED
      BY <1>2, AscentExists
  <1>4. f \in [0..top -> V] /\ f[0] = m.freep /\ \A k \in 1..top : f[k] = step[f[k - 1]]
    BY <1>3 DEF Ascents
  <1>. DEFINE at[k \in 0..(Si!PoolQuanta + 1)] ==
                  IF k = 0 THEN m.freep ELSE m.next[at[k - 1]]
  <1>5. \A k \in 1..top : k - 1 \in 0..top
    BY SimpleConstants
  <1>6. f = [k \in 0..(Si!PoolQuanta + 1) |-> IF k = 0 THEN m.freep ELSE m.next[f[k - 1]]]
    <2>. HIDE DEF V
    <2>1. \A k \in 1..top : f[k] = m.next[f[k - 1]]
      BY <1>4, <1>5
    <2>2. f = [k \in 0..top |-> IF k = 0 THEN m.freep ELSE m.next[f[k - 1]]]
      BY <1>4, <2>1, SimpleConstants
    <2>. QED
      BY <2>2 DEF Quanta
  <1>7. at = [k \in 0..(Si!PoolQuanta + 1) |-> IF k = 0 THEN m.freep ELSE m.next[at[k - 1]]]
    BY <1>6
  <1>8. Si!Walk(m) = at
    BY DEF Si!Walk
  <1>. HIDE DEF at
  <1>9. at[0] = m.freep /\ \A k \in 1..top : at[k] = m.next[at[k - 1]]
    BY <1>7, SimpleConstants DEF Quanta
  <1>10. \A k \in 0..top : at[k] \in V
    <2>. DEFINE S == {k \in Nat : k <= top => at[k] \in V}
    <2>1. 0 \in S
      BY <1>2, <1>9
    <2>2. ASSUME NEW k \in Nat, k \in S
          PROVE  k + 1 \in S
      <3>. SUFFICES ASSUME k + 1 <= top
                    PROVE  at[k + 1] \in V
        OBVIOUS
      <3>1. at[k] \in V /\ k + 1 \in 1..top /\ (k + 1) - 1 = k
        BY <1>2, <2>2
      <3>2. at[k + 1] = m.next[at[k]]
        BY <1>9, <3>1
      <3>. QED
        BY <1>1, <3>1, <3>2
    <2>. HIDE DEF S
    <2>3. Nat \subseteq S
      BY <2>1, <2>2, NatSetInduction
    <2>. HIDE DEF V, top
    <2>. QED
      BY <1>2, <2>3 DEF S
  <1>. DEFINE N == Cardinality(V)
              r == Rank(R, m.freep)
              Here(k) == IF r + k < N THEN r + k ELSE (r + k) - N
  <1>11. /\ R \in SUBSET Si!Pool /\ N \in 1..top /\ \A b \in V : Rank(R, b) \in Nat /\ Rank(R, b) < N
         /\ r \in Nat /\ r < N
    <2>1. R \in SUBSET Si!Pool
      BY DEF Ring
    <2>. QED
      BY <1>2, <2>1, CircleFinite, RankOne
  <1>12. \A k \in 0..N : Rank(R, at[k]) = Here(k)
    <2>. DEFINE S == {k \in Nat : k <= N => Rank(R, at[k]) = Here(k)}
    <2>1. 0 \in S
      BY <1>9, <1>11
    <2>2. ASSUME NEW k \in Nat, k \in S
          PROVE  k + 1 \in S
      <3>. SUFFICES ASSUME k + 1 <= N
                    PROVE  Rank(R, at[k + 1]) = Here(k + 1)
        OBVIOUS
      <3>1. Rank(R, at[k]) = Here(k) /\ k \in 0..top /\ k + 1 \in 1..top /\ (k + 1) - 1 = k
        BY <1>2, <1>11, <2>2
      <3>. DEFINE b == at[k]
                  n == at[k + 1]
      <3>2. b \in V /\ n = m.next[b]
        BY <1>9, <1>10, <3>1
      <3>3. Follows(R, b, n)
        BY <3>2 DEF Ring
      <3>. HIDE DEF b, n
      <3>4. IF b < n THEN Rank(R, n) = Rank(R, b) + 1
            ELSE n = Base /\ Rank(R, n) = 0 /\ Rank(R, b) + 1 = N
        BY <1>11, <3>2, <3>3, RankNext
      <3>5. n \in V /\ Rank(R, n) \in Nat /\ Rank(R, n) < N /\ Rank(R, b) = Here(k)
        BY <1>10, <1>11, <3>1, SimpleConstants DEF b, n
      <3>6. Rank(R, n) = Here(k + 1)
        <4>. HIDE DEF N, r, V
        <4>. QED
          BY <1>11, <3>1, <3>4, <3>5
      <3>. QED
        BY <3>6 DEF n
    <2>. HIDE DEF S
    <2>3. Nat \subseteq S
      BY <2>1, <2>2, NatSetInduction
    <2>. QED
      BY <1>11, <2>3 DEF S
  <1>13. \A b, c \in V : Rank(R, b) = Rank(R, c) => b = c
    <2>. SUFFICES ASSUME NEW b \in V, NEW c \in V, Rank(R, b) = Rank(R, c)
                  PROVE  b = c
      OBVIOUS
    <2>1. b \in Int /\ c \in Int
      BY <1>11, CircleFinite
    <2>2. ~ (b < c) /\ ~ (c < b)
      BY <1>11, RankOne
    <2>. QED
      BY <2>1, <2>2
  <1>14. ASSUME NEW b \in V
         PROVE  \E k \in 0..Quanta : at[k] = b
    <2>. DEFINE t == Rank(R, b)
                k == IF r <= t THEN t - r ELSE (t + N) - r
    <2>1. t \in Nat /\ t < N
      BY <1>11
    <2>. HIDE DEF t, r, N
    <2>2. k \in 0..Quanta /\ k \in 0..N /\ Here(k) = t
      BY <1>11, <2>1, SimpleConstants
    <2>3. Rank(R, at[k]) = t
      BY <1>12, <2>2
    <2>4. at[k] \in V
      BY <1>10, <2>2, SimpleConstants
    <2>. HIDE DEF k
    <2>5. at[k] = b
      BY <1>13, <2>3, <2>4 DEF t
    <2>. QED
      BY <2>2, <2>5
  <1>15. at[N] = m.freep /\ N \in 1..(Quanta + 1)
    <2>1. N \in 0..N /\ N \in 0..top /\ Here(N) = r
      BY <1>11
    <2>2. Rank(R, at[N]) = Rank(R, m.freep) /\ at[N] \in V
      BY <1>10, <1>12, <2>1
    <2>. QED
      BY <1>2, <1>11, <1>13, <2>2
  <1>. DEFINE g == Round(m)
  <1>16. g \in 1..top /\ at[g] = m.freep
    <2>1. N \in Returns(m)
      BY <1>8, <1>15 DEF Returns
    <2>2. Returns(m) \in SUBSET Nat
      BY SimpleConstants DEF Returns
    <2>3. g \in Returns(m)
      BY <2>1, <2>2, MinIsLeast DEF Round
    <2>. QED
      BY <1>8, <2>3 DEF Returns
  <1>. HIDE DEF g
  <1>17. \A j \in 0..top : \E k \in 1..g : at[k] = at[j]
    <2>. DEFINE S == {j \in Nat : j <= top => \E k \in 1..g : at[k] = at[j]}
    <2>1. 0 \in S
      BY <1>9, <1>16
    <2>2. ASSUME NEW j \in Nat, j \in S
          PROVE  j + 1 \in S
      <3>. SUFFICES ASSUME j + 1 <= top
                    PROVE  \E k \in 1..g : at[k] = at[j + 1]
        OBVIOUS
      <3>1. PICK k \in 1..g : at[k] = at[j]
        BY <1>2, <2>2
      <3>2. j + 1 \in 1..top /\ (j + 1) - 1 = j
        BY <1>2
      <3>3. at[j + 1] = m.next[at[k]]
        BY <1>9, <3>1, <3>2
      <3>4. CASE k = g
        <4>1. 1 \in 1..top /\ 1 - 1 = 0 /\ 1 \in 1..g
          BY <1>2, <1>16
        <4>2. at[1] = m.next[at[0]]
          BY <1>9, <4>1
        <4>. QED
          BY <1>9, <1>16, <3>3, <3>4, <4>1, <4>2
      <3>5. CASE k # g
        <4>1. k + 1 \in 1..g /\ k + 1 \in 1..top /\ (k + 1) - 1 = k
          BY <1>2, <1>16, <3>5
        <4>2. at[k + 1] = m.next[at[k]]
          BY <1>9, <4>1
        <4>. QED
          BY <3>3, <4>1, <4>2
      <3>. QED
        BY <3>4, <3>5
    <2>. HIDE DEF S
    <2>3. Nat \subseteq S
      BY <2>1, <2>2, NatSetInduction
    <2>. HIDE DEF top
    <2>. QED
      BY <1>2, <2>3 DEF S
  <1>18. \A b \in V : \E k \in 1..g : at[k] = b
    <2>. SUFFICES ASSUME NEW b \in V
                  PROVE  \E k \in 1..g : at[k] = b
      OBVIOUS
    <2>1. PICK j \in 0..Quanta : at[j] = b
      BY <1>14
    <2>2. j \in 0..top
      BY <2>1, SimpleConstants
    <2>. QED
      BY <1>17, <2>1, <2>2
  <1>. QED
    BY <1>8, <1>9, <1>10, <1>14, <1>16, <1>18 DEF Rounds, g

------------------------------------------------------------------------------
(* Changes of the circle.                                                  *)

(* Blocks are in the circle with the block after them.                     *)
LEMMA RingNext ==
    ASSUME NEW m, NEW R, Ring(m, R), NEW b \in Circle(R)
    PROVE  /\ m.next[b] \in Circle(R) /\ Follows(R, b, m.next[b])
           /\ R \in SUBSET Si!Pool /\ Circle(R) \subseteq Cells /\ Circle(R) \subseteq Int
           /\ Base = -1 /\ Base \in Circle(R) /\ Base \notin R /\ R \subseteq Nat
           /\ Junk \notin Cells /\ Si!Pool \subseteq Cells /\ Cells \subseteq Int
           /\ \A c \in Circle(R) : Base <= c
  BY SimpleConstants DEF Ring, Follows, Circle, Cells

(* The search of memmgr_free ends at the block below b.                    *)
LEMMA PlaceBelow ==
    ASSUME NEW m, NEW R, Ring(m, R), NEW b \in Si!Pool \ R
    PROVE  LET p == Si!PlaceFor(m, b)
           IN p \in Circle(R) /\ p < b /\ (b < m.next[p] \/ m.next[p] = Base)
  <1>. DEFINE C == Circle(R)
              at == Si!Walk(m)
              Fits(p) == LET n == m.next[p]
                         IN \/ b > p /\ b < n
                            \/ p >= n /\ (b > p \/ b < n)
              Good(p) == p < b /\ (b < m.next[p] \/ m.next[p] = Base)
              K == {k \in 0..Quanta : Fits(at[k])}
  <1>1. /\ C \subseteq Int /\ b \in Nat /\ Base = -1 /\ Base \in C /\ b \notin C
        /\ \A c \in C : Base <= c
        /\ \A c \in C : m.next[c] \in C /\ Follows(R, c, m.next[c])
    <2>1. Base \in C
      BY DEF Circle
    <2>2. \A c \in C : m.next[c] \in C /\ Follows(R, c, m.next[c])
      BY RingNext
    <2>3. C \subseteq Int /\ Base = -1 /\ \A c \in C : Base <= c
      BY <2>1, RingNext
    <2>4. b \in Nat /\ b # Base
      BY <2>3, SimpleConstants
    <2>. QED
      BY <2>1, <2>2, <2>3, <2>4 DEF Circle
  <1>2. \A c \in C : Fits(c) => Good(c)
    <2>. SUFFICES ASSUME NEW c \in C, Fits(c)
                  PROVE  Good(c)
      OBVIOUS
    <2>1. m.next[c] \in C /\ (c < m.next[c] \/ m.next[c] = Base)
      BY <1>1 DEF Follows
    <2>. QED
      BY <1>1, <2>1
  <1>3. \E c \in C : Fits(c)
    <2>. DEFINE S == {b - c : c \in {d \in C : d < b}}
    <2>1. S \in SUBSET Nat /\ b - Base \in S
      BY <1>1
    <2>2. PICK x \in S : \A y \in S : x <= y
      BY <2>1, HasLeast
    <2>3. PICK c \in C : c < b /\ x = b - c
      BY <2>2
    <2>4. ASSUME NEW d \in C, d < b
          PROVE  d <= c
      <3>1. b - d \in S
        BY <2>4
      <3>2. b - c <= b - d
        BY <2>2, <2>3, <3>1
      <3>. QED
        BY <1>1, <3>2
    <2>5. m.next[c] \in C /\ Follows(R, c, m.next[c])
      BY <1>1
    <2>6. CASE c < m.next[c]
      <3>1. ~ (m.next[c] < b) /\ m.next[c] # b
        BY <1>1, <2>3, <2>4, <2>5, <2>6
      <3>. QED
        BY <1>1, <2>3, <2>5, <3>1
    <2>7. CASE ~ (c < m.next[c])
      BY <1>1, <2>3, <2>5, <2>7
    <2>. QED
      BY <2>6, <2>7
  <1>4. Rounds(m, R)
    BY WalkRounds
  <1>5. K # {} /\ K \in SUBSET Nat
    <2>1. PICK c \in C : Fits(c)
      BY <1>3
    <2>2. PICK k \in 0..Quanta : at[k] = c
      BY <1>4 DEF Rounds
    <2>. QED
      BY <2>1, <2>2, SimpleConstants
  <1>6. Min(K) \in K
    BY <1>5, MinIsLeast
  <1>7. at[Min(K)] \in C /\ Fits(at[Min(K)])
    <2>0. Min(K) \in 0..Quanta
      BY <1>6
    <2>1. Min(K) \in 0..(Quanta + 1)
      <3>. HIDE DEF K
      <3>. QED
        BY <2>0, SimpleConstants
    <2>. QED
      BY <1>4, <1>6, <2>1 DEF Rounds
  <1>8. Si!PlaceFor(m, b) = at[Min(K)]
    BY SimpleMin DEF Si!PlaceFor, Quanta
  <1>. HIDE DEF K, at, Fits
  <1>. QED
    BY <1>2, <1>7, <1>8

(* b is put behind p.                                                      *)
Link(m, p, b) ==
    [next |-> [m.next EXCEPT ![b] = m.next[p], ![p] = b], size |-> m.size, freep |-> p]

LEMMA LinkRing ==
    ASSUME NEW m, NEW R, Ring(m, R), NEW b \in Si!Pool \ R, NEW p \in Circle(R),
           p < b, b < m.next[p] \/ m.next[p] = Base
    PROVE  Ring(Link(m, p, b), R \cup {b})
  <1>. DEFINE n == m.next[p]
              C == Circle(R)
              D == Circle(R \cup {b})
              x == [m.next EXCEPT ![b] = n, ![p] = b]
  <1>1. /\ C \subseteq Int /\ b \in Nat /\ Base = -1 /\ Base \in C /\ b \notin C /\ n \in C
        /\ D = C \cup {b} /\ \A c \in C : m.next[c] \in C /\ Base <= c
    <2>1. n \in C /\ C \subseteq Int /\ Base = -1 /\ Base \in C /\ b \in Nat
      BY RingNext, SimpleConstants
    <2>. QED
      BY <2>1, RingNext DEF Circle
  <1>2. x[b] = n /\ x[p] = b /\ \A c \in C : c # p => x[c] = m.next[c]
    <2>1. C \subseteq Cells /\ b \in Cells /\ DOMAIN m.next = Cells
      BY RingNext DEF Ring, Cells
    <2>. QED
      BY <1>1, <2>1
  <1>3. \A c \in C : Follows(R, c, m.next[c])
    BY RingNext
  <1>. HIDE DEF x, n
  <1>4. Follows(R \cup {b}, b, x[b])
    <2>1. Follows(R, p, n)
      BY <1>3 DEF n
    <2>2. p \in C /\ p < b /\ (b < n \/ n = Base)
      BY DEF n
    <2>. HIDE DEF C, D
    <2>3. CASE b < n
      <3>1. \A c \in C : c <= p \/ n <= c
        BY <1>1, <2>1, <2>2, <2>3 DEF Follows, C
      <3>2. \A c \in D : c <= b \/ n <= c
        BY <1>1, <2>2, <3>1
      <3>. QED
        BY <1>1, <1>2, <2>3, <3>2 DEF Follows, D
    <2>4. CASE n = Base
      <3>1. \A c \in C : c <= p
        BY <1>1, <2>1, <2>2, <2>4 DEF Follows, C
      <3>2. \A c \in D : c <= b
        BY <1>1, <2>2, <3>1
      <3>. QED
        BY <1>1, <1>2, <2>4, <3>2 DEF Follows, D
    <2>. QED
      BY <2>2, <2>3, <2>4
  <1>5. Follows(R \cup {b}, p, x[p])
    <2>1. Follows(R, p, n) /\ p \in C /\ p < b /\ (b < n \/ n = Base)
      BY <1>3 DEF n
    <2>. HIDE DEF C, D
    <2>2. \A c \in C : c <= p \/ b <= c
      BY <1>1, <2>1 DEF Follows, C
    <2>3. \A c \in D : c <= p \/ b <= c
      BY <1>1, <2>2
    <2>. QED
      BY <1>1, <1>2, <2>1, <2>3 DEF Follows, D
  <1>6. ASSUME NEW c \in C, c # p
        PROVE  Follows(R \cup {b}, c, x[c])
    <2>1. x[c] = m.next[c] /\ Follows(R, c, m.next[c]) /\ Follows(R, p, n)
          /\ p \in C /\ p < b /\ (b < n \/ n = Base)
      BY <1>2, <1>3, <1>6 DEF n
    <2>. DEFINE d == m.next[c]
    <2>. HIDE DEF C, D, d
    <2>2. d \in C /\ d \in Int /\ c \in Int /\ p \in Int /\ n \in Int
      BY <1>1, <1>6, <2>1 DEF d
    <2>3. p < c => b < c
      BY <1>1, <1>6, <2>1, <2>2 DEF Follows, C
    <2>4. c <= p
          \/ b < c
      BY <2>2, <2>3
    <2>5. CASE c < d /\ \A y \in C : y <= c \/ d <= y
      <3>1. b <= c \/ d <= b
        BY <1>1, <1>6, <2>1, <2>2, <2>3, <2>5
      <3>2. \A y \in D : y <= c \/ d <= y
        BY <1>1, <2>5, <3>1
      <3>. QED
        BY <1>1, <2>1, <2>2, <2>5, <3>2 DEF Follows, D, d
    <2>6. CASE d = Base /\ \A y \in C : y <= c
      <3>1. b <= c
        BY <1>1, <1>6, <2>1, <2>2, <2>3, <2>6
      <3>2. \A y \in D : y <= c
        BY <1>1, <2>6, <3>1
      <3>. QED
        BY <1>1, <2>1, <2>2, <2>6, <3>2 DEF Follows, D, d
    <2>. QED
      BY <2>1, <2>5, <2>6 DEF Follows, C, d
  <1>7. /\ R \cup {b} \subseteq Si!Pool /\ x \in [Cells -> Cells \cup {Junk}] /\ p \in D
        /\ m.size \in [Cells -> (0..Quanta) \cup {Junk}] /\ m.size[Base] = 0
    <2>1. R \subseteq Si!Pool /\ m.next \in [Cells -> Cells \cup {Junk}] /\ n \in Cells /\ b \in Cells
      BY <1>1, RingNext DEF Ring, Cells
    <2>2. x \in [Cells -> Cells \cup {Junk}]
      BY <2>1 DEF x
    <2>. QED
      BY <1>1, <2>1, <2>2 DEF Ring
  <1>8. Link(m, p, b) = [next |-> x, size |-> m.size, freep |-> p]
    BY DEF Link, x, n
  <1>9. \A c \in D : Follows(R \cup {b}, c, x[c])
    <2>. HIDE DEF C, D
    <2>. QED
      BY <1>1, <1>4, <1>5, <1>6
  <1>. QED
    BY <1>7, <1>8, <1>9 DEF Ring

(* n, which comes after p, leaves the list.                                *)
Drop(m, p, n, z, f) ==
    [next |-> [m.next EXCEPT ![n] = Junk, ![p] = m.next[n]], size |-> z, freep |-> f]

LEMMA DropRing ==
    ASSUME NEW m, NEW R, Ring(m, R), NEW n \in R, NEW p \in Circle(R), m.next[p] = n,
           NEW z \in [Cells -> (0..Quanta) \cup {Junk}], z[Base] = 0,
           NEW f \in Circle(R \ {n})
    PROVE  /\ Ring(Drop(m, p, n, z, f), R \ {n})
           /\ p < n /\ p \in Circle(R \ {n})
           /\ Drop(m, p, n, z, f).next[p] = m.next[n]
           /\ \A c \in Circle(R) : c # n /\ c # p =>
                 Drop(m, p, n, z, f).next[c] = m.next[c] /\ m.next[c] # n
  <1>. DEFINE C == Circle(R)
              D == Circle(R \ {n})
              x == [m.next EXCEPT ![n] = Junk, ![p] = m.next[n]]
  <1>1. /\ C \subseteq Int /\ n \in Nat /\ n \in C /\ Base = -1 /\ Base \in C
        /\ D = C \ {n} /\ \A c \in C : m.next[c] \in C /\ Base <= c
    <2>1. n \in C
      BY DEF Circle
    <2>2. C \subseteq Int /\ Base = -1 /\ Base \in C /\ n \in Nat /\ Base # n
      BY RingNext
    <2>. QED
      BY <2>1, <2>2, RingNext DEF Circle
  <1>2. \A c \in C : Follows(R, c, m.next[c])
    BY RingNext
  <1>3. p < n /\ p \in D
    <2>1. Follows(R, p, n)
      BY <1>2
    <2>. QED
      BY <1>1, <2>1 DEF Follows
  <1>4. /\ x[p] = m.next[n]
        /\ \A c \in C : c # n /\ c # p => x[c] = m.next[c]
    <2>1. C \subseteq Cells /\ DOMAIN m.next = Cells
      BY RingNext DEF Ring
    <2>. QED
      BY <1>1, <1>3, <2>1
  <1>. HIDE DEF x
  <1>5. Follows(R \ {n}, p, x[p])
    <2>. DEFINE d == m.next[n]
    <2>1. Follows(R, p, n) /\ Follows(R, n, d)
      BY <1>1, <1>2
    <2>. HIDE DEF C, D, d
    <2>2. d \in C /\ d \in Int /\ p \in Int /\ p \in C
      BY <1>1 DEF d, C
    <2>3. \A c \in C : c <= p \/ n <= c
      BY <1>1, <1>3, <2>1, <2>2 DEF Follows, C
    <2>4. CASE n < d /\ \A c \in C : c <= n \/ d <= c
      <3>1. \A c \in D : c <= p \/ d <= c
        BY <1>1, <2>2, <2>3, <2>4
      <3>2. d \in D /\ p < d
        BY <1>1, <1>3, <2>2, <2>4
      <3>. QED
        BY <1>4, <3>1, <3>2 DEF Follows, D, d
    <2>5. CASE d = Base /\ \A c \in C : c <= n
      <3>1. \A c \in D : c <= p
        BY <1>1, <2>2, <2>3, <2>5
      <3>2. d \in D
        BY <1>1, <2>2, <2>5
      <3>. QED
        BY <1>4, <2>5, <3>1, <3>2 DEF Follows, D, d
    <2>. QED
      BY <2>1, <2>4, <2>5 DEF Follows, C
  <1>6. ASSUME NEW c \in C, c # n, c # p
        PROVE  m.next[c] # n /\ Follows(R \ {n}, c, x[c])
    <2>. DEFINE d == m.next[c]
    <2>1. Follows(R, c, d) /\ Follows(R, p, n) /\ x[c] = d
      BY <1>2, <1>4, <1>6
    <2>. HIDE DEF C, D, d
    <2>2. d \in C /\ d \in Int /\ c \in Int /\ p \in Int /\ p \in C
      BY <1>1, <1>6 DEF d, C
    <2>3. d # n
      BY <1>1, <1>3, <1>6, <2>1, <2>2 DEF Follows, C
    <2>4. D \subseteq C /\ d \in D
      BY <1>1, <2>2, <2>3
    <2>5. Follows(R \ {n}, c, d)
      BY <2>1, <2>4 DEF Follows, C, D
    <2>. QED
      BY <2>1, <2>3, <2>5 DEF d
  <1>7. \A c \in D : Follows(R \ {n}, c, x[c])
    <2>. HIDE DEF C, D
    <2>. QED
      BY <1>1, <1>5, <1>6
  <1>8. /\ R \ {n} \subseteq Si!Pool /\ x \in [Cells -> Cells \cup {Junk}]
    <2>1. R \subseteq Si!Pool /\ m.next \in [Cells -> Cells \cup {Junk}] /\ m.next[n] \in Cells
      BY <1>1, RingNext DEF Ring
    <2>2. x \in [Cells -> Cells \cup {Junk}]
      BY <2>1 DEF x
    <2>. QED
      BY <2>1, <2>2
  <1>9. Drop(m, p, n, z, f) = [next |-> x, size |-> z, freep |-> f]
    BY DEF Drop, x
  <1>10. Ring(Drop(m, p, n, z, f), R \ {n})
    BY <1>7, <1>8, <1>9 DEF Ring
  <1>. QED
    BY <1>3, <1>4, <1>6, <1>9, <1>10

------------------------------------------------------------------------------
(* Changes of the tiling.  T is the set of blocks, free or handed out,     *)
(* below the quantum e; z gives their sizes.                               *)
Tiles(z, T, e) ==
    /\ T \subseteq Si!Pool /\ e \in 0..Quanta
    /\ \A b \in T : z[b] \in 1..Quanta /\ b + z[b] <= e
    /\ \A b, c \in T : b < c => b + z[b] <= c
    /\ \A x \in 0..(e - 1) : \E b \in T : b <= x /\ x < b + z[b]

LEMMA TilesBounds ==
    ASSUME NEW z, NEW T, NEW e, Tiles(z, T, e)
    PROVE  /\ T \subseteq Nat /\ T \subseteq Cells /\ e \in Nat /\ e <= Quanta /\ Quanta \in Nat
           /\ Base \notin T /\ Base \in Cells /\ Si!Pool \subseteq Cells
           /\ Si!Pool = 0..(Quanta - 1) /\ Base = -1 /\ T \subseteq Si!Pool
           /\ \A b \in T : /\ b \in Nat /\ z[b] \in Nat \ {0}
                           /\ z[b] <= Quanta /\ b + z[b] <= e
  <1>1. T \subseteq Si!Pool /\ e \in 0..Quanta
        /\ \A b \in T : z[b] \in 1..Quanta /\ b + z[b] <= e
    BY DEF Tiles
  <1>2. Quanta \in Nat /\ Si!Pool = 0..(Quanta - 1) /\ Base = -1
    BY SimpleConstants
  <1>3. Base \notin Si!Pool /\ Si!Pool \subseteq Nat
    BY <1>2
  <1>. QED
    BY <1>1, <1>2, <1>3 DEF Cells

(* y is z with the tiles b and n made one.                                 *)
TilesJoined(z, T, e, b, n, y) ==
    /\ y \in [Cells -> (0..Quanta) \cup {Junk}] /\ y[Base] = z[Base]
    /\ Tiles(y, T \ {n}, e)
    /\ y[b] = z[b] + z[n] /\ y[b] >= z[b] /\ \A c \in Cells \ {b, n} : y[c] = z[c]
    /\ b # n /\ \A c \in T : c # b /\ c # n => y[c] = z[c]

LEMMA TilesJoin ==
    ASSUME NEW z \in [Cells -> (0..Quanta) \cup {Junk}], NEW T, NEW e, Tiles(z, T, e),
           NEW b \in T, NEW n \in T, b + z[b] = n,
           NEW y, y = [z EXCEPT ![b] = z[b] + z[n], ![n] = Junk]
    PROVE  TilesJoined(z, T, e, b, n, y)
  <1>1. /\ T \subseteq Nat /\ T \subseteq Cells /\ e \in Nat /\ e <= Quanta /\ Quanta \in Nat
        /\ Base \notin T /\ Base \in Cells
    BY TilesBounds
  <1>2. \A c \in T : z[c] \in Nat /\ z[c] >= 1 /\ c + z[c] <= e /\ c \in Nat
    BY <1>1 DEF Tiles
  <1>3. \A c, d \in T : c < d => c + z[c] <= d
    BY DEF Tiles
  <1>4. b # n /\ b < n
    BY <1>1, <1>2
  <1>5. y[b] = z[b] + z[n] /\ y[n] = Junk /\ \A c \in Cells \ {b, n} : y[c] = z[c]
    BY <1>1, <1>4
  <1>6. z[b] + z[n] \in 0..Quanta /\ z[b] + z[n] \in 1..Quanta /\ z[b] + z[n] >= z[b]
        /\ b + (z[b] + z[n]) = n + z[n]
    BY <1>1, <1>2
  <1>7. y \in [Cells -> (0..Quanta) \cup {Junk}]
    BY <1>6
  <1>8. \A c \in T \ {n} : y[c] \in 1..Quanta /\ c + y[c] <= e
    <2>. SUFFICES ASSUME NEW c \in T \ {n}
                  PROVE  y[c] \in 1..Quanta /\ c + y[c] <= e
      OBVIOUS
    <2>1. CASE c = b
      BY <1>2, <1>5, <1>6, <2>1
    <2>2. CASE c # b
      BY <1>1, <1>5, <2>2 DEF Tiles
    <2>. QED
      BY <2>1, <2>2
  <1>9. \A c, d \in T \ {n} : c < d => c + y[c] <= d
    <2>. SUFFICES ASSUME NEW c \in T \ {n}, NEW d \in T \ {n}, c < d
                  PROVE  c + y[c] <= d
      OBVIOUS
    <2>1. CASE c = b
      <3>1. n <= d
        BY <1>2, <1>3, <2>1
      <3>2. n + z[n] <= d
        BY <1>2, <1>3, <3>1
      <3>. QED
        BY <1>5, <1>6, <2>1, <3>2
    <2>2. CASE c # b
      BY <1>1, <1>3, <1>5, <2>2
    <2>. QED
      BY <2>1, <2>2
  <1>10. ASSUME NEW x \in 0..(e - 1)
         PROVE  \E c \in T \ {n} : c <= x /\ x < c + y[c]
    <2>1. PICK c \in T : c <= x /\ x < c + z[c]
      BY DEF Tiles
    <2>2. CASE c \in {b, n}
      <3>1. b <= x /\ x < b + y[b] /\ b \in T \ {n}
        BY <1>1, <1>2, <1>4, <1>5, <1>6, <2>1, <2>2
      <3>. QED
        BY <3>1
    <2>3. CASE c \notin {b, n}
      <3>1. y[c] = z[c] /\ c \in T \ {n}
        BY <1>1, <1>5, <2>3
      <3>. QED
        BY <2>1, <3>1
    <2>. QED
      BY <2>2, <2>3
  <1>11. Tiles(y, T \ {n}, e)
    BY <1>8, <1>9, <1>10 DEF Tiles
  <1>. QED
    BY <1>1, <1>4, <1>5, <1>6, <1>7, <1>11 DEF TilesJoined

(* y is z with the last q quanta of p made a tile b of their own.          *)
TilesParted(z, T, e, p, q, b, y) ==
    /\ y \in [Cells -> (0..Quanta) \cup {Junk}] /\ y[Base] = z[Base]
    /\ Tiles(y, T \cup {b}, e)
    /\ b \notin T /\ b \in Si!Pool /\ b # p /\ y[b] = q /\ y[p] = z[p] - q
    /\ \A c \in T : c # p => y[c] = z[c]

LEMMA TilesSplit ==
    ASSUME NEW z \in [Cells -> (0..Quanta) \cup {Junk}], NEW T, NEW e, Tiles(z, T, e),
           NEW p \in T, NEW q \in Nat \ {0}, q < z[p],
           NEW b, b = p + (z[p] - q), NEW y, y = [z EXCEPT ![p] = z[p] - q, ![b] = q]
    PROVE  TilesParted(z, T, e, p, q, b, y)
  <1>1. /\ T \subseteq Nat /\ T \subseteq Cells /\ e \in Nat /\ e <= Quanta /\ Quanta \in Nat
        /\ Base \notin T /\ Base \in Cells /\ Si!Pool \subseteq Cells /\ Si!Pool = 0..(Quanta - 1)
        /\ Base = -1
    BY TilesBounds
  <1>2. \A c \in T : z[c] \in Nat /\ z[c] >= 1 /\ c + z[c] <= e /\ c \in Nat
    BY <1>1 DEF Tiles
  <1>3. \A c, d \in T : c < d => c + z[c] <= d
    BY DEF Tiles
  <1>4. b \in Si!Pool /\ p < b /\ b < p + z[p] /\ b + q = p + z[p] /\ b \in Nat
    BY <1>1, <1>2
  <1>5. b \notin T /\ b # p /\ b # Base
    BY <1>1, <1>2, <1>3, <1>4
  <1>6. y[b] = q /\ y[p] = z[p] - q /\ \A c \in Cells \ {p, b} : y[c] = z[c]
    BY <1>1, <1>4, <1>5
  <1>7. z[p] - q \in 1..Quanta /\ q \in 1..Quanta /\ p + (z[p] - q) = b
    BY <1>1, <1>2
  <1>8. y \in [Cells -> (0..Quanta) \cup {Junk}]
    <2>1. z[p] - q \in 0..Quanta /\ q \in 0..Quanta
      BY <1>7
    <2>. QED
      BY <2>1
  <1>9. \A c \in T \cup {b} : y[c] \in 1..Quanta /\ c + y[c] <= e
    <2>. SUFFICES ASSUME NEW c \in T \cup {b}
                  PROVE  y[c] \in 1..Quanta /\ c + y[c] <= e
      OBVIOUS
    <2>1. CASE c = b
      BY <1>2, <1>4, <1>6, <1>7, <2>1
    <2>2. CASE c = p
      BY <1>1, <1>2, <1>4, <1>6, <1>7, <2>2, SMTT(30)
    <2>3. CASE c \in T /\ c # p
      <3>1. y[c] = z[c]
        BY <1>1, <1>5, <1>6, <2>3
      <3>. QED
        BY <2>3, <3>1 DEF Tiles
    <2>. QED
      BY <2>1, <2>2, <2>3
  <1>10. \A c, d \in T \cup {b} : c < d => c + y[c] <= d
    <2>. SUFFICES ASSUME NEW c \in T \cup {b}, NEW d \in T \cup {b}, c < d
                  PROVE  c + y[c] <= d
      OBVIOUS
    <2>0. \A g \in T : g # p => y[g] = z[g]
      BY <1>1, <1>5, <1>6
    <2>1. CASE c = b
      <3>1. d \in T /\ p < d
        BY <1>1, <1>4, <2>1
      <3>2. p + z[p] <= d
        BY <1>3, <3>1
      <3>. QED
        BY <1>4, <1>6, <2>1, <3>2
    <2>2. CASE c = p
      <3>1. CASE d = b
        BY <1>6, <1>7, <2>2, <3>1, <1>4
      <3>2. CASE d \in T
        <4>1. p + z[p] <= d
          BY <1>3, <2>2, <3>2
        <4>2. p + y[p] = b
          BY <1>6, <1>7
        <4>. QED
          BY <1>1, <1>4, <2>2, <3>2, <4>1, <4>2
      <3>. QED
        BY <3>1, <3>2
    <2>3. CASE c \in T /\ c # p /\ d \in T
      BY <1>3, <2>0, <2>3
    <2>4. CASE c \in T /\ c # p /\ d = b
      <3>1. c < p
        BY <1>1, <1>2, <1>3, <1>4, <2>4
      <3>2. c + z[c] <= p
        BY <1>3, <2>4, <3>1
      <3>3. y[c] = z[c] /\ c \in Nat /\ z[c] \in Nat
        BY ONLY <1>2, <2>0, <2>4
      <3>4. p \in Nat /\ b \in Nat /\ p < b
        BY ONLY <1>1, <1>4, p \in T
      <3>. QED
        BY ONLY <2>4, <3>2, <3>3, <3>4
    <2>. QED
      BY <2>1, <2>2, <2>3, <2>4
  <1>11. ASSUME NEW x \in 0..(e - 1)
         PROVE  \E c \in T \cup {b} : c <= x /\ x < c + y[c]
    <2>1. PICK c \in T : c <= x /\ x < c + z[c]
      BY DEF Tiles
    <2>2. CASE c = p /\ x < b
      BY <1>6, <1>7, <2>1, <2>2
    <2>3. CASE c = p /\ ~ (x < b)
      BY <1>1, <1>4, <1>6, <2>1, <2>3
    <2>4. CASE c # p
      <3>1. y[c] = z[c]
        BY <1>1, <1>5, <1>6, <2>4
      <3>. QED
        BY <2>1, <3>1
    <2>. QED
      BY <2>2, <2>3, <2>4
  <1>12. Tiles(y, T \cup {b}, e)
    <2>1. T \cup {b} \subseteq Si!Pool /\ e \in 0..Quanta
      BY <1>4 DEF Tiles
    <2>. QED
      BY <1>9, <1>10, <1>11, <2>1 DEF Tiles
  <1>13. y[Base] = z[Base] /\ \A c \in T : c # p => y[c] = z[c]
    BY <1>1, <1>5, <1>6
  <1>. QED
    BY <1>4, <1>5, <1>6, <1>8, <1>12, <1>13 DEF TilesParted

(* y is z with a tile of s quanta behind the last one.                     *)
TilesLonger(z, T, e, s, y) ==
    /\ y \in [Cells -> (0..Quanta) \cup {Junk}] /\ y[Base] = z[Base]
    /\ Tiles(y, T \cup {e}, e + s)
    /\ e \notin T /\ e \in Si!Pool /\ y[e] = s
    /\ \A c \in T : y[c] = z[c]

LEMMA TilesExtend ==
    ASSUME NEW z \in [Cells -> (0..Quanta) \cup {Junk}], NEW T, NEW e, Tiles(z, T, e),
           NEW s \in Nat \ {0}, e + s <= Quanta, NEW y, y = [z EXCEPT ![e] = s]
    PROVE  TilesLonger(z, T, e, s, y)
  <1>1. /\ T \subseteq Nat /\ T \subseteq Cells /\ e \in Nat /\ e <= Quanta /\ Quanta \in Nat
        /\ Base \notin T /\ Base \in Cells /\ Si!Pool \subseteq Cells /\ Si!Pool = 0..(Quanta - 1)
        /\ Base = -1 /\ T \subseteq Si!Pool
    BY TilesBounds
  <1>2. \A c \in T : z[c] \in Nat /\ z[c] >= 1 /\ c + z[c] <= e /\ c \in Nat /\ z[c] <= Quanta
    BY <1>1 DEF Tiles
  <1>3. e \in Si!Pool /\ e \notin T /\ e # Base /\ s \in 1..Quanta
    BY <1>1, <1>2
  <1>4. y[e] = s /\ \A c \in Cells : c # e => y[c] = z[c]
    BY <1>1, <1>3
  <1>5. y \in [Cells -> (0..Quanta) \cup {Junk}]
    <2>1. s \in 0..Quanta
      BY <1>3
    <2>. QED
      BY <2>1
  <1>6. y[Base] = z[Base] /\ \A c \in T : y[c] = z[c]
    BY <1>1, <1>3, <1>4
  <1>7. \A c \in T \cup {e} : y[c] \in 1..Quanta /\ c + y[c] <= e + s
    BY <1>1, <1>2, <1>3, <1>4, <1>6
  <1>8. \A c, d \in T \cup {e} : c < d => c + y[c] <= d
    <2>. SUFFICES ASSUME NEW c \in T \cup {e}, NEW d \in T \cup {e}, c < d
                  PROVE  c + y[c] <= d
      OBVIOUS
    <2>1. c \in T
      BY <1>1, <1>2
    <2>2. CASE d \in T
      BY <1>6, <2>1, <2>2 DEF Tiles
    <2>3. CASE d = e
      BY <1>2, <1>6, <2>1, <2>3
    <2>. QED
      BY <2>2, <2>3
  <1>9. ASSUME NEW x \in 0..((e + s) - 1)
        PROVE  \E c \in T \cup {e} : c <= x /\ x < c + y[c]
    <2>1. CASE x < e
      <3>1. x \in 0..(e - 1)
        BY <1>1, <2>1
      <3>2. PICK c \in T : c <= x /\ x < c + z[c]
        BY <3>1 DEF Tiles
      <3>. QED
        BY <1>6, <3>2
    <2>2. CASE ~ (x < e)
      BY <1>1, <1>4, <2>2
    <2>. QED
      BY <2>1, <2>2
  <1>10. Tiles(y, T \cup {e}, e + s)
    BY <1>1, <1>3, <1>7, <1>8, <1>9 DEF Tiles
  <1>. QED
    BY <1>3, <1>4, <1>5, <1>6, <1>10 DEF TilesLonger

------------------------------------------------------------------------------
(* Lists whose free blocks R are tiles; outside X none of them ends where  *)
(* the next one starts.                                                    *)
Loose(m, R, X) == \A b \in R \ X : b + m.size[b] # m.next[b]

Sim(m, R, T, e, X) ==
    Ring(m, R) /\ R \subseteq T /\ Tiles(m.size, T, e) /\ Loose(m, R, X)

(* Every block that is not free keeps its size.                            *)
SameUsed(m, y, U) == \A b \in U : y.size[b] = m.size[b]

(* memmgr.c:217: b is joined with n, the block after it in the list.       *)
Join(m, b, n) ==
    Drop(m, b, n, [m.size EXCEPT ![b] = @ + m.size[n], ![n] = Junk], m.freep)

(* b has swallowed n, and nothing else has changed.                        *)
Joined(m, R, T, e, X, b, n) ==
    /\ Sim(Join(m, b, n), R \ {n}, T \ {n}, e, X \ {b})
    /\ SameUsed(m, Join(m, b, n), T \ R)
    /\ b < n /\ Join(m, b, n).next[b] = m.next[n] /\ Join(m, b, n).size[b] >= m.size[b]
    /\ Join(m, b, n).freep = m.freep
    /\ \A c \in Circle(R) : c # b /\ c # n =>
          /\ Join(m, b, n).next[c] = m.next[c]
          /\ Join(m, b, n).size[c] = m.size[c]

LEMMA JoinSim ==
    ASSUME NEW m, NEW R, NEW T, NEW e, NEW X, Sim(m, R, T, e, X),
           NEW b \in R, NEW n \in R, m.next[b] = n, b + m.size[b] = n, n \notin X,
           m.freep # n
    PROVE  Joined(m, R, T, e, X, b, n)
  <1>. DEFINE z == m.size
              y == [z EXCEPT ![b] = z[b] + z[n], ![n] = Junk]
              j == Join(m, b, n)
  <1>0. y = [z EXCEPT ![b] = z[b] + z[n], ![n] = Junk]
    OBVIOUS
  <1>1. Ring(m, R) /\ R \subseteq T /\ Tiles(z, T, e) /\ Loose(m, R, X)
    BY DEF Sim
  <1>2. z \in [Cells -> (0..Quanta) \cup {Junk}] /\ z[Base] = 0 /\ b \in T /\ n \in T
        /\ b \in Circle(R) /\ m.freep \in Circle(R) /\ b + z[b] = n
    BY <1>1 DEF Ring, Circle
  <1>3. /\ y \in [Cells -> (0..Quanta) \cup {Junk}] /\ y[Base] = z[Base]
        /\ Tiles(y, T \ {n}, e)
        /\ y[b] = z[b] + z[n] /\ y[b] >= z[b] /\ \A c \in Cells \ {b, n} : y[c] = z[c]
        /\ b # n /\ \A c \in T : c # b /\ c # n => y[c] = z[c]
    <2>. HIDE DEF y, z
    <2>. QED
      <3>1. TilesJoined(z, T, e, b, n, y)
        BY <1>0, <1>1, <1>2, TilesJoin
      <3>. QED
        BY <3>1 DEF TilesJoined
  <1>4. j = Drop(m, b, n, y, m.freep)
    BY DEF Join
  <1>5. m.freep \in Circle(R \ {n})
    BY <1>2 DEF Circle
  <1>. HIDE DEF j, y
  <1>6. /\ Ring(j, R \ {n}) /\ b < n /\ j.next[b] = m.next[n]
        /\ \A c \in Circle(R) : c # n /\ c # b => j.next[c] = m.next[c] /\ m.next[c] # n
    BY <1>1, <1>2, <1>3, <1>4, <1>5, DropRing
  <1>7. j.size = y /\ j.freep = m.freep
    BY <1>4 DEF Drop
  <1>8. Circle(R) \subseteq Cells
    BY <1>1, <1>2, RingNext
  <1>9. Loose(j, R \ {n}, X \ {b})
    <2>. SUFFICES ASSUME NEW c \in R \ {n}, c \notin X \ {b}
                  PROVE  c + j.size[c] # j.next[c]
      BY DEF Loose
    <2>1. CASE c = b
      <3>1. n + z[n] # m.next[n]
        BY <1>1 DEF Loose
      <3>2. b + y[b] = n + z[n]
        <4>1. \A d \in T : z[d] \in Nat /\ d \in Nat
          BY <1>1, TilesBounds
        <4>2. b \in Nat /\ n \in Nat /\ z[b] \in Nat /\ z[n] \in Nat /\ b + z[b] = n
          BY <1>2, <4>1
        <4>. QED
          BY <1>3, <4>2
      <3>. QED
        BY <1>6, <1>7, <2>1, <3>1, <3>2
    <2>2. CASE c # b
      <3>1. c \in Circle(R) /\ c + m.size[c] # m.next[c] /\ c \in T
        BY <1>1, <2>2 DEF Loose, Circle
      <3>2. j.next[c] = m.next[c] /\ y[c] = z[c]
        BY <1>3, <1>6, <2>2, <3>1
      <3>. QED
        BY <1>7, <3>1, <3>2
    <2>. QED
      BY <2>1, <2>2
  <1>10. Sim(j, R \ {n}, T \ {n}, e, X \ {b})
    BY <1>1, <1>3, <1>6, <1>7, <1>9 DEF Sim
  <1>11. SameUsed(m, j, T \ R)
    BY <1>3, <1>7 DEF SameUsed
  <1>12. \A c \in Circle(R) : c # b /\ c # n => j.size[c] = m.size[c]
    BY <1>3, <1>7, <1>8
  <1>. QED
    BY <1>3, <1>6, <1>7, <1>10, <1>11, <1>12 DEF j, Joined

(* What memmgr_free makes of the list: at most the neighbours of b are     *)
(* joined with it.                                                         *)
Inserts(m, y, R, T, e, b) ==
    \E S, U : /\ Sim(y, S, U, e, {})
              /\ U \ S = (T \ R) \ {b}
              /\ SameUsed(m, y, (T \ R) \ {b})
              /\ \E c \in S : y.size[c] >= m.size[b]

LEMMA LinkSim ==
    ASSUME NEW m, NEW R, NEW T, NEW e, Sim(m, R, T, e, {}), NEW b \in T \ R,
           NEW p \in Circle(R), p < b, b < m.next[p] \/ m.next[p] = Base
    PROVE  Sim(Link(m, p, b), R \cup {b}, T, e, {p, b})
  <1>. DEFINE y == Link(m, p, b)
  <1>1. Ring(m, R) /\ R \subseteq T /\ Tiles(m.size, T, e) /\ Loose(m, R, {}) /\ b \in Si!Pool \ R
    BY DEF Sim, Tiles
  <1>2. Ring(y, R \cup {b})
    BY <1>1, LinkRing
  <1>3. y.size = m.size /\ y.next = [m.next EXCEPT ![b] = m.next[p], ![p] = b]
    BY DEF Link
  <1>4. R \subseteq Cells /\ DOMAIN m.next = Cells
    BY <1>1, RingNext DEF Ring, Circle, Cells
  <1>. HIDE DEF y
  <1>5. Loose(y, R \cup {b}, {p, b})
    <2>. SUFFICES ASSUME NEW c \in R, c # p, c # b
                  PROVE  c + y.size[c] # y.next[c]
      BY DEF Loose
    <2>1. y.next[c] = m.next[c]
      BY <1>3, <1>4
    <2>. QED
      BY <1>1, <1>3, <2>1 DEF Loose
  <1>6. R \cup {b} \subseteq T
    BY <1>1
  <1>7. Sim(y, R \cup {b}, T, e, {p, b})
    BY <1>1, <1>2, <1>3, <1>5, <1>6 DEF Sim
  <1>. QED
    BY <1>7 DEF y

(* The three stages of memmgr_free.                                        *)
Placed(m, b) == Link(m, Si!PlaceFor(m, b), b)

JoinedUp(m, b) ==
    IF b + m.size[b] = m.next[Si!PlaceFor(m, b)]
    THEN Join(Placed(m, b), b, m.next[Si!PlaceFor(m, b)])
    ELSE Placed(m, b)

JoinedDown(m, b) ==
    IF Si!PlaceFor(m, b) + m.size[Si!PlaceFor(m, b)] = b
    THEN Join(JoinedUp(m, b), Si!PlaceFor(m, b), b)
    ELSE JoinedUp(m, b)

LEMMA InsertedStages ==
    ASSUME NEW m, NEW R, NEW T, NEW e, Sim(m, R, T, e, {}), NEW b \in T \ R
    PROVE  Si!Inserted(m, b) = JoinedDown(m, b)
  <1>. DEFINE p == Si!PlaceFor(m, b)
              n == m.next[p]
              z == m.size
              x == m.next
  <1>1. Ring(m, R) /\ Tiles(z, T, e) /\ b \in Si!Pool \ R
    BY DEF Sim, Tiles
  <1>2. p \in Circle(R) /\ p < b /\ (b < n \/ n = Base)
    BY <1>1, PlaceBelow
  <1>3. /\ x \in [Cells -> Cells \cup {Junk}] /\ z \in [Cells -> (0..Quanta) \cup {Junk}]
        /\ p \in Cells /\ n \in Cells /\ b \in Cells /\ z[b] \in Nat \ {0} /\ b \in Nat
        /\ Base = -1 /\ p \in Int /\ n \in Int
    <2>1. z[b] \in Nat \ {0} /\ b \in Nat /\ Base = -1
      BY <1>1, TilesBounds
    <2>2. n \in Circle(R) /\ Circle(R) \subseteq Cells /\ Circle(R) \subseteq Int /\ b \in Cells
      BY <1>1, <1>2, RingNext
    <2>. QED
      BY <1>1, <1>2, <2>1, <2>2 DEF Ring
  <1>4. p # b /\ (b + z[b] = n => n # p /\ n # b)
    BY <1>2, <1>3
  <1>. DEFINE meets == b + z[b] = n
              low == p + z[p] = b
              upx == [x EXCEPT ![n] = IF meets THEN Si!Junk ELSE @, ![b] = IF meets THEN x[n] ELSE n]
              upz == [z EXCEPT ![b] = IF meets THEN @ + z[n] ELSE @, ![n] = IF meets THEN Si!Junk ELSE @]
  <1>5. Si!Inserted(m, b) =
          IF low
          THEN [next |-> [upx EXCEPT ![b] = Si!Junk, ![p] = upx[b]],
                size |-> [upz EXCEPT ![b] = Si!Junk, ![p] = @ + upz[b]], freep |-> p]
          ELSE [next |-> [upx EXCEPT ![p] = b], size |-> upz, freep |-> p]
    BY DEF Si!Inserted
  <1>6. Placed(m, b) = [next |-> [x EXCEPT ![b] = n, ![p] = b], size |-> z, freep |-> p]
    BY DEF Placed, Link
  <1>. HIDE DEF p, n, x, z
  <1>7. /\ JoinedUp(m, b).next = [upx EXCEPT ![p] = b]
        /\ JoinedUp(m, b).size = upz /\ JoinedUp(m, b).freep = p
        /\ JoinedUp(m, b) = [next |-> JoinedUp(m, b).next, size |-> JoinedUp(m, b).size,
                             freep |-> JoinedUp(m, b).freep]
    <2>1. CASE meets
      <3>1. JoinedUp(m, b) = Join(Placed(m, b), b, n)
        BY <2>1 DEF JoinedUp, p, n, z
      <3>2. JoinedUp(m, b) =
               [next |-> [[x EXCEPT ![b] = n, ![p] = b] EXCEPT ![n] = Junk,
                              ![b] = [x EXCEPT ![b] = n, ![p] = b][n]],
                size |-> [z EXCEPT ![b] = z[b] + z[n], ![n] = Junk], freep |-> p]
        BY <1>6, <3>1 DEF Join, Drop
      <3>3. [x EXCEPT ![b] = n, ![p] = b][n] = x[n]
        BY <1>3, <1>4, <2>1
      <3>4. upx = [x EXCEPT ![n] = Junk, ![b] = x[n]]
        BY <2>1 DEF Junk
      <3>5. upz = [z EXCEPT ![b] = z[b] + z[n], ![n] = Junk]
        BY <2>1 DEF Junk
      <3>. HIDE DEF upx, upz, meets
      <3>6. [[x EXCEPT ![b] = n, ![p] = b] EXCEPT ![n] = Junk, ![b] = x[n]] = [upx EXCEPT ![p] = b]
        BY <1>3, <1>4, <2>1, <3>4 DEF meets
      <3>7. JoinedUp(m, b) = [next |-> [upx EXCEPT ![p] = b], size |-> upz, freep |-> p]
        BY <3>2, <3>3, <3>5, <3>6, Zenon
      <3>. QED
        BY <3>7
    <2>2. CASE ~ meets
      <3>1. JoinedUp(m, b) = Placed(m, b)
        BY <2>2 DEF JoinedUp, p, n, z
      <3>2. upx = [x EXCEPT ![n] = x[n], ![b] = n] /\ upz = [z EXCEPT ![b] = z[b], ![n] = z[n]]
        BY <2>2
      <3>. HIDE DEF upx, upz
      <3>3. upx = [x EXCEPT ![b] = n] /\ upz = z
        BY <1>3, <3>2
      <3>. QED
        BY <1>6, <3>1, <3>3
    <2>. QED
      BY <2>1, <2>2
  <1>. HIDE DEF upx, upz, meets
  <1>8. DOMAIN upx = Cells /\ DOMAIN upz = Cells /\ b \in Cells /\ p \in Cells
    BY <1>3 DEF upx, upz
  <1>9. CASE low
    <2>1. JoinedDown(m, b) = Join(JoinedUp(m, b), p, b)
      BY <1>9 DEF JoinedDown, p, z
    <2>2. JoinedDown(m, b) =
             [next |-> [[upx EXCEPT ![p] = b] EXCEPT ![b] = Junk, ![p] = [upx EXCEPT ![p] = b][b]],
              size |-> [upz EXCEPT ![p] = @ + upz[b], ![b] = Junk], freep |-> p]
      BY <1>7, <2>1 DEF Join, Drop
    <2>3. [upx EXCEPT ![p] = b][b] = upx[b]
      BY <1>4, <1>8
    <2>4. [[upx EXCEPT ![p] = b] EXCEPT ![b] = Junk, ![p] = upx[b]]
          = [upx EXCEPT ![b] = Si!Junk, ![p] = upx[b]]
      BY <1>4, <1>8 DEF Junk
    <2>5. [upz EXCEPT ![p] = @ + upz[b], ![b] = Junk] = [upz EXCEPT ![b] = Si!Junk, ![p] = @ + upz[b]]
      BY <1>4, <1>8 DEF Junk
    <2>. QED
      BY <1>5, <1>9, <2>2, <2>3, <2>4, <2>5
  <1>10. CASE ~ low
    <2>1. JoinedDown(m, b) = JoinedUp(m, b)
      BY <1>10 DEF JoinedDown, p, z
    <2>. QED
      BY <1>5, <1>7, <1>10, <2>1
  <1>. QED
    BY <1>9, <1>10

(* A freed block is back in the list, alone or as part of a larger one.    *)
LEMMA InsertedSim ==
    ASSUME NEW m, NEW R, NEW T, NEW e, Sim(m, R, T, e, {}), NEW b \in T \ R
    PROVE  Inserts(m, Si!Inserted(m, b), R, T, e, b)
  <1>. DEFINE p == Si!PlaceFor(m, b)
              n == m.next[p]
              m1 == Placed(m, b)
              m2 == JoinedUp(m, b)
              m3 == JoinedDown(m, b)
              U == (T \ R) \ {b}
  <1>1. Ring(m, R) /\ R \subseteq T /\ Tiles(m.size, T, e) /\ b \in Si!Pool \ R
    BY DEF Sim, Tiles
  <1>2. p \in Circle(R) /\ p < b /\ (b < n \/ n = Base) /\ n \in Circle(R)
    BY <1>1, PlaceBelow, RingNext
  <1>3. /\ b \in Nat /\ m.size[b] \in Nat \ {0} /\ Base = -1 /\ p \in Int /\ n \in Int
        /\ m.size[Base] = 0 /\ Circle(R) = R \cup {Base}
        /\ DOMAIN m.next = Cells /\ p \in Cells /\ b \in Cells
    <2>1. b \in Nat /\ m.size[b] \in Nat \ {0} /\ Base = -1
      BY <1>1, TilesBounds
    <2>2. p \in Int /\ n \in Int /\ p \in Cells /\ b \in Cells
      BY <1>1, <1>2, RingNext
    <2>. QED
      BY <1>1, <2>1, <2>2 DEF Ring, Circle
  <1>4. /\ m1.size = m.size /\ m1.freep = p /\ m1.next[b] = n /\ m1.next[p] = b
    <2>1. m1.size = m.size /\ m1.freep = p /\ m1.next = [m.next EXCEPT ![b] = n, ![p] = b]
      BY DEF Placed, Link
    <2>. HIDE DEF m1, n, p
    <2>. QED
      BY <1>2, <1>3, <2>1
  <1>5. Sim(m1, R \cup {b}, T, e, {p, b})
    BY <1>2, LinkSim DEF Placed
  <1>6. Si!Inserted(m, b) = m3
    BY InsertedStages
  <1>7. /\ m2 = IF b + m.size[b] = n THEN Join(m1, b, n) ELSE m1
        /\ m3 = IF p + m.size[p] = b THEN Join(m2, p, b) ELSE m2
    BY DEF JoinedUp, JoinedDown
  <1>. DEFINE N == IF b + m.size[b] = n THEN {n} ELSE {}
              S2 == (R \cup {b}) \ N
              T2 == T \ N
  <1>. HIDE DEF m1, m2, m3, n, p
  <1>8. /\ Sim(m2, S2, T2, e, {p}) /\ b \in S2 /\ p \in Circle(S2)
        /\ m2.freep = p /\ m2.next[p] = b /\ m2.size[p] = m.size[p]
        /\ SameUsed(m, m2, U) /\ m2.size[b] >= m.size[b] /\ T2 \ S2 = U
    <2>1. CASE b + m.size[b] = n
      <3>1. n \in R /\ n # p /\ n # b /\ b \in R \cup {b} /\ n \in R \cup {b} /\ n \notin {p, b}
        BY <1>2, <1>3, <2>1
      <3>2. b + m1.size[b] = n /\ m1.freep # n
        BY <1>4, <2>1, <3>1
      <3>3. m2 = Join(m1, b, n)
        BY <1>7, <2>1
      <3>4. /\ Sim(m2, (R \cup {b}) \ {n}, T \ {n}, e, {p, b} \ {b})
            /\ SameUsed(m1, m2, T \ (R \cup {b}))
            /\ b < n /\ m2.size[b] >= m1.size[b] /\ m2.freep = m1.freep
            /\ \A c \in Circle(R \cup {b}) : c # b /\ c # n =>
                  m2.next[c] = m1.next[c] /\ m2.size[c] = m1.size[c]
        <4>1. Joined(m1, R \cup {b}, T, e, {p, b}, b, n)
          BY <1>4, <1>5, <3>1, <3>2, JoinSim
        <4>. QED
          BY <3>3, <4>1 DEF Joined
      <3>5. p \in Circle(R \cup {b}) /\ p # b
        BY <1>2, <1>3 DEF Circle
      <3>6. m2.next[p] = b /\ m2.size[p] = m.size[p]
        BY <1>4, <3>1, <3>4, <3>5
      <3>7. N = {n} /\ {p, b} \ {b} = {p} /\ T \ (R \cup {b}) = U
        BY <2>1, <3>5
      <3>8. Sim(m2, S2, T2, e, {p}) /\ SameUsed(m, m2, U)
        BY <1>4, <3>4, <3>7 DEF SameUsed
      <3>9. T2 \ S2 = U
        BY <3>1, <3>7
      <3>10. p \in Circle(S2) /\ b \in S2
        BY <3>1, <3>5, <3>7 DEF Circle
      <3>. QED
        BY <1>4, <3>4, <3>6, <3>8, <3>9, <3>10
    <2>2. CASE b + m.size[b] # n
      <3>1. m2 = m1 /\ N = {} /\ S2 = R \cup {b} /\ T2 = T
        BY <1>7, <2>2
      <3>2. Loose(m1, R \cup {b}, {p})
        BY <1>4, <1>5, <2>2 DEF Sim, Loose
      <3>3. Sim(m1, R \cup {b}, T, e, {p})
        BY <1>5, <3>2 DEF Sim
      <3>4. SameUsed(m, m1, U) /\ T \ (R \cup {b}) = U
        BY <1>4 DEF SameUsed
      <3>5. m1.size[b] >= m.size[b] /\ p \in Circle(R \cup {b})
        BY <1>2, <1>3, <1>4 DEF Circle
      <3>. QED
        BY <1>4, <3>1, <3>3, <3>4, <3>5
    <2>. QED
      BY <2>1, <2>2
  <1>. HIDE DEF N, S2, T2, U
  <1>9. CASE p + m.size[p] = b
    <2>1. p \in S2 /\ p # b
      BY <1>3, <1>8, <1>9, <1>2 DEF Circle
    <2>2. p + m2.size[p] = b /\ m2.freep # b /\ b \notin {p}
      BY <1>8, <1>9, <2>1
    <2>3. m3 = Join(m2, p, b)
      BY <1>7, <1>9
    <2>4. /\ Sim(m3, S2 \ {b}, T2 \ {b}, e, {p} \ {p})
          /\ SameUsed(m2, m3, T2 \ S2)
          /\ m3.size[p] >= m2.size[p]
      <3>1. Joined(m2, S2, T2, e, {p}, p, b)
        BY <1>8, <2>1, <2>2, JoinSim
      <3>. QED
        BY <2>3, <3>1 DEF Joined
    <2>5. m3.size[p] >= m.size[b]
      <3>1. Sim(m2, S2, T2, e, {p})
        BY <1>8
      <3>2. m3.size[p] = m2.size[p] + m2.size[b]
        <4>1. p \in Cells /\ b \in Cells /\ m2.size \in [Cells -> (0..Quanta) \cup {Junk}]
          BY <1>3, <3>1 DEF Sim, Ring
        <4>2. m3.size = [m2.size EXCEPT ![p] = @ + m2.size[b], ![b] = Junk]
          BY <2>3 DEF Join, Drop
        <4>. QED
          BY <2>1, <4>1, <4>2
      <3>3. m2.size[p] \in Nat /\ m2.size[b] \in Nat
        BY <1>8, <2>1, <3>1, TilesBounds DEF Sim
      <3>. QED
        BY <1>3, <1>8, <3>2, <3>3
    <2>6. (T2 \ {b}) \ (S2 \ {b}) = U /\ {p} \ {p} = {} /\ p \in S2 \ {b}
      BY <1>8, <2>1
    <2>7. SameUsed(m, m3, U)
      BY <1>8, <2>4 DEF SameUsed
    <2>. QED
      BY <1>6, <2>4, <2>5, <2>6, <2>7 DEF Inserts, U
  <1>10. CASE p + m.size[p] # b
    <2>1. m3 = m2
      BY <1>7, <1>10
    <2>2. Loose(m2, S2, {})
      BY <1>8, <1>10 DEF Sim, Loose
    <2>3. Sim(m2, S2, T2, e, {})
      BY <1>8, <2>2 DEF Sim
    <2>. QED
      BY <1>6, <1>8, <2>1, <2>3 DEF Inserts, U
  <1>. QED
    BY <1>9, <1>10

------------------------------------------------------------------------------
(* memmgr_alloc: block b of size q is taken off the list.                  *)
Takes(m, t, R, T, e, q) ==
    \E S, U : /\ Sim(t.list, S, U, e, {})
              /\ U \ S = (T \ R) \cup {t.b}
              /\ t.b \notin T \ R
              /\ SameUsed(m, t.list, T \ R)
              /\ t.list.size[t.b] = q

LEMMA TakenSim ==
    ASSUME NEW m, NEW R, NEW T, NEW e, Sim(m, R, T, e, {}), NEW q \in Nat \ {0},
           Si!Fitting(m, q) # {}
    PROVE  Takes(m, Si!Taken(m, q), R, T, e, q)
  <1>. DEFINE at == Si!Walk(m)
              K == Si!Fitting(m, q)
              k == Si!Min(K)
              p == at[k]
              o == at[k - 1]
              z == m.size
              b == p + (z[p] - q)
              t == Si!Taken(m, q)
  <1>1. Ring(m, R) /\ R \subseteq T /\ Tiles(z, T, e) /\ Loose(m, R, {}) /\ Rounds(m, R)
    BY WalkRounds DEF Sim
  <1>2. K = {j \in 1..Round(m) : z[at[j]] >= q}
    BY SimpleMin DEF Si!Fitting, Round, Returns, Quanta
  <1>3. k \in 1..(Quanta + 1) /\ z[p] >= q
    <2>. HIDE DEF p, at, z
    <2>1. Round(m) \in 1..(Quanta + 1) /\ Quanta \in Nat
      BY <1>1, SimpleConstants DEF Rounds
    <2>2. K \in SUBSET Nat
      BY <1>2, <2>1
    <2>3. k \in K
      BY <2>2, SimpleMin, MinIsLeast
    <2>. HIDE DEF K, k
    <2>. QED
      BY <1>2, <2>1, <2>3 DEF p
  <1>4. p \in Circle(R) /\ o \in Circle(R) /\ p = m.next[o]
    <2>1. k \in 0..(Quanta + 1) /\ k - 1 \in 0..(Quanta + 1)
      <3>. HIDE DEF k
      <3>. QED
        BY <1>3, SimpleConstants
    <2>. HIDE DEF k, at
    <2>. QED
      BY <1>1, <1>3, <2>1 DEF Rounds, at
  <1>5. t = [b |-> b,
             list |-> [next |-> IF b = p
                                THEN [m.next EXCEPT ![o] = m.next[p], ![p] = Junk]
                                ELSE m.next,
                       size |-> [z EXCEPT ![p] = b - p, ![b] = q],
                       freep |-> o]]
    BY DEF Si!Taken, Junk
  <1>. HIDE DEF at, K, k, p, o, z, b, t
  <1>6. /\ z[Base] = 0 /\ z \in [Cells -> (0..Quanta) \cup {Junk}]
        /\ m.next \in [Cells -> Cells \cup {Junk}] /\ m = [next |-> m.next, size |-> z, freep |-> m.freep]
    BY <1>1 DEF Ring, z
  <1>7. p \in R /\ p \in T
    BY <1>1, <1>3, <1>4, <1>6 DEF Circle
  <1>8. /\ p \in Nat /\ z[p] \in Nat \ {0} /\ z[p] <= Quanta /\ p + z[p] <= e
        /\ T \subseteq Si!Pool /\ Base = -1 /\ Quanta \in Nat
        /\ \A c \in T : c \in Nat /\ z[c] \in Nat \ {0}
    BY <1>1, <1>7, TilesBounds
  <1>9. CASE z[p] = q
    <2>1. b = p /\ b - p = 0
      BY <1>8, <1>9 DEF b
    <2>2. [z EXCEPT ![p] = b - p, ![b] = q] = z
      BY <1>6, <1>9, <2>1
    <2>3. o < p /\ o \in Circle(R \ {p})
      <3>1. Follows(R, o, p)
        BY <1>1, <1>4, RingNext
      <3>2. o < p
        <4>1. p # Base
          BY <1>8
        <4>. QED
          BY <3>1, <4>1 DEF Follows
      <3>3. o # p
        BY <1>1, <1>4, <1>8, <3>2, RingNext
      <3>. QED
        BY <1>4, <3>2, <3>3 DEF Circle
    <2>4. [m.next EXCEPT ![o] = m.next[p], ![p] = Junk] = [m.next EXCEPT ![p] = Junk, ![o] = m.next[p]]
      <3>1. o # p
        BY <1>1, <1>4, <1>8, <2>3, RingNext
      <3>. QED
        BY <1>6, <3>1
    <2>5. t.list = Drop(m, o, p, z, o) /\ t.b = p
      BY <1>5, <2>1, <2>2, <2>4 DEF Drop
    <2>. DEFINE y == t.list
    <2>6. /\ Ring(y, R \ {p}) /\ y.next[o] = m.next[p]
          /\ \A c \in Circle(R) : c # p /\ c # o => y.next[c] = m.next[c]
      BY <1>1, <1>4, <1>6, <1>7, <2>3, <2>5, DropRing
    <2>7. y.size = z
      BY <2>5 DEF Drop
    <2>. HIDE DEF y
    <2>8. Loose(y, R \ {p}, {})
      <3>. SUFFICES ASSUME NEW c \in R \ {p}
                    PROVE  c + z[c] # y.next[c]
        BY <2>7 DEF Loose
      <3>1. c \in Circle(R) /\ c + z[c] # m.next[c] /\ c \in T
        BY <1>1 DEF Loose, Circle, z
      <3>2. CASE c # o
        BY <2>6, <3>1, <3>2
      <3>3. CASE c = o
        <4>1. c + z[c] <= p
          BY <1>1, <1>7, <2>3, <3>1, <3>3 DEF Tiles
        <4>2. p < m.next[p] \/ m.next[p] = Base
          <5>1. Follows(R, p, m.next[p])
            BY <1>1, <1>4, RingNext
          <5>. QED
            BY <5>1 DEF Follows
        <4>3. m.next[p] \in Int
          BY <1>1, <1>4, RingNext
        <4>4. c + z[c] \in Nat
          BY <1>8, <3>1
        <4>5. c + z[c] # m.next[p]
          BY <1>8, <4>1, <4>2, <4>3, <4>4
        <4>. QED
          BY <2>6, <3>3, <4>5
      <3>. QED
        BY <3>2, <3>3
    <2>9. Sim(y, R \ {p}, T, e, {})
      BY <1>1, <2>6, <2>7, <2>8 DEF Sim
    <2>10. T \ (R \ {p}) = (T \ R) \cup {p} /\ p \notin T \ R
      BY <1>7
    <2>11. SameUsed(m, y, T \ R) /\ y.size[p] = q
      BY <1>9, <2>7 DEF SameUsed, z
    <2>. QED
      BY <2>5, <2>9, <2>10, <2>11 DEF Takes, y, t
  <1>10. CASE z[p] # q
    <2>1. q < z[p] /\ b = p + (z[p] - q) /\ b - p = z[p] - q /\ b # p
      <3>. DEFINE g == z[p]
      <3>1. g \in Nat /\ g >= q /\ g # q /\ p \in Nat /\ q \in Nat \ {0}
        BY <1>3, <1>8, <1>10
      <3>2. b = p + (g - q)
        BY DEF b
      <3>. HIDE DEF g
      <3>3. q < g /\ b = p + (g - q) /\ b - p = g - q /\ b # p
        BY <3>1, <3>2
      <3>. QED
        BY <3>3 DEF g
    <2>. DEFINE y == [z EXCEPT ![p] = z[p] - q, ![b] = q]
    <2>2. y = [z EXCEPT ![p] = z[p] - q, ![b] = q]
      OBVIOUS
    <2>3. t.list = [next |-> m.next, size |-> y, freep |-> o] /\ t.b = b
      BY <1>5, <2>1
    <2>. HIDE DEF y
    <2>4. /\ y \in [Cells -> (0..Quanta) \cup {Junk}] /\ y[Base] = z[Base]
          /\ Tiles(y, T \cup {b}, e)
          /\ b \notin T /\ b \in Si!Pool /\ b # p /\ y[b] = q /\ y[p] = z[p] - q
          /\ \A c \in T : c # p => y[c] = z[c]
      <3>1. TilesParted(z, T, e, p, q, b, y)
        BY <1>1, <1>6, <1>7, <2>1, <2>2, TilesSplit
      <3>. QED
        BY <3>1 DEF TilesParted
    <2>. DEFINE l == [next |-> m.next, size |-> y, freep |-> o]
    <2>5. Ring(l, R)
      BY <1>1, <1>4, <1>6, <2>4 DEF Ring
    <2>6. Loose(l, R, {})
      <3>. SUFFICES ASSUME NEW c \in R
                    PROVE  c + y[c] # m.next[c]
        BY DEF Loose
      <3>1. c \in T /\ c + z[c] # m.next[c]
        BY <1>1 DEF Loose, z
      <3>2. CASE c # p
        BY <2>4, <3>1, <3>2
      <3>3. CASE c = p
        <4>1. c + y[c] = b
          BY <1>8, <2>1, <2>4, <3>3
        <4>2. m.next[c] \in R \cup {Base}
          BY <1>1, <1>4, <3>3, RingNext DEF Circle
        <4>3. b # Base
          BY <1>8, <2>4, SimpleConstants
        <4>. QED
          BY <1>1, <2>4, <4>1, <4>2, <4>3
      <3>. QED
        BY <3>2, <3>3
    <2>7. Sim(l, R, T \cup {b}, e, {})
      BY <1>1, <2>4, <2>5, <2>6 DEF Sim
    <2>8. (T \cup {b}) \ R = (T \ R) \cup {b} /\ b \notin T \ R
      BY <1>1, <2>4
    <2>9. SameUsed(m, l, T \ R)
      BY <1>7, <2>4 DEF SameUsed, z
    <2>10. t.list = l /\ l.size[b] = q
      BY <2>3, <2>4
    <2>. HIDE DEF l
    <2>. QED
      BY <2>3, <2>7, <2>8, <2>9, <2>10 DEF Takes, t
  <1>. QED
    BY <1>9, <1>10

(* memmgr_alloc's second try: the block from the pool is on the list.      *)
LEMMA ExtendedSim ==
    ASSUME NEW R, NEW T, NEW m, Sim(m, R, T, pos, {}), NEW q \in Nat \ {0},
           pos + Si!Pooled(q) <= Quanta
    PROVE  Takes(m, Si!Taken(Si!Extended(m, q), q), R, T, pos + Si!Pooled(q), q)
  <1>. DEFINE s == Si!Pooled(q)
              y == [m.size EXCEPT ![pos] = s]
              x == [m EXCEPT !.size[pos] = s]
              e == pos + s
              w == Si!Inserted(x, pos)
  <1>1. s \in Nat \ {0} /\ q <= s
    BY SimpleConstants DEF Si!Pooled
  <1>2. Ring(m, R) /\ R \subseteq T /\ Tiles(m.size, T, pos) /\ Loose(m, R, {})
    BY DEF Sim
  <1>3. /\ m = [next |-> m.next, size |-> m.size, freep |-> m.freep] /\ m.size[Base] = 0
        /\ m.size \in [Cells -> (0..Quanta) \cup {Junk}]
    BY <1>2 DEF Ring
  <1>. HIDE DEF s
  <1>4. x = [next |-> m.next, size |-> y, freep |-> m.freep] /\ y = [m.size EXCEPT ![pos] = s]
    BY <1>3
  <1>. HIDE DEF x, y
  <1>5. /\ y \in [Cells -> (0..Quanta) \cup {Junk}] /\ y[Base] = m.size[Base]
        /\ Tiles(y, T \cup {pos}, pos + s)
        /\ pos \notin T /\ pos \in Si!Pool /\ y[pos] = s
        /\ \A c \in T : y[c] = m.size[c]
    <2>. DEFINE z == m.size
    <2>1. Tiles(z, T, pos) /\ z \in [Cells -> (0..Quanta) \cup {Junk}] /\ pos + s <= Quanta
          /\ y = [z EXCEPT ![pos] = s]
      BY <1>2, <1>3, <1>4 DEF s
    <2>. HIDE DEF z
    <2>2. TilesLonger(z, T, pos, s, y)
      BY <1>1, <2>1, TilesExtend
    <2>. QED
      BY <2>2 DEF TilesLonger, z
  <1>6. Sim(x, R, T \cup {pos}, e, {})
    <2>1. Ring(x, R)
      BY <1>2, <1>3, <1>4, <1>5 DEF Ring
    <2>2. Loose(x, R, {})
      BY <1>2, <1>4, <1>5 DEF Loose
    <2>. QED
      BY <1>2, <1>4, <1>5, <2>1, <2>2 DEF Sim
  <1>7. pos \in (T \cup {pos}) \ R
    BY <1>2, <1>5
  <1>8. Inserts(x, w, R, T \cup {pos}, e, pos)
    BY <1>6, <1>7, InsertedSim
  <1>9. w = Si!Extended(m, q)
    BY DEF Si!Extended, s, x
  <1>10. ((T \cup {pos}) \ R) \ {pos} = T \ R
    BY <1>5
  <1>. HIDE DEF w, e
  <1>11. PICK S, U : /\ Sim(w, S, U, e, {}) /\ U \ S = T \ R /\ SameUsed(x, w, T \ R)
                     /\ \E c \in S : w.size[c] >= x.size[pos]
    BY <1>8, <1>10 DEF Inserts
  <1>12. Si!Fitting(w, q) # {}
    <2>1. PICK c \in S : w.size[c] >= s
      BY <1>4, <1>5, <1>11
    <2>2. Rounds(w, S) /\ S \subseteq U /\ Tiles(w.size, U, e) /\ c \in Circle(S)
      BY <1>11, WalkRounds DEF Sim, Circle
    <2>3. w.size[c] >= q
      <3>1. w.size[c] \in Nat
        BY <2>2, TilesBounds
      <3>. QED
        BY <1>1, <2>1, <3>1
    <2>4. PICK k \in 1..Round(w) : Si!Walk(w)[k] = c
      BY <2>2 DEF Rounds
    <2>5. Si!Fitting(w, q) = {j \in 1..Round(w) : w.size[Si!Walk(w)[j]] >= q}
      BY SimpleMin DEF Si!Fitting, Round, Returns, Quanta
    <2>. QED
      BY <2>3, <2>4, <2>5
  <1>. DEFINE t == Si!Taken(w, q)
  <1>13. Takes(w, t, S, U, e, q)
    BY <1>11, <1>12, TakenSim
  <1>. HIDE DEF t
  <1>14. SameUsed(w, t.list, T \ R) => SameUsed(m, t.list, T \ R)
    BY <1>4, <1>5, <1>11 DEF SameUsed
  <1>15. Takes(m, t, R, T, e, q)
    BY <1>11, <1>13, <1>14 DEF Takes
  <1>. QED
    BY <1>9, <1>15 DEF t, e, s

------------------------------------------------------------------------------
(* No request comes so close to the largest ulong that the sums of         *)
(* memmgr_alloc and get_mem_from_pool, which nothing checks, wrap.         *)
SimpleFits ==
    \A n \in SimpleAsked :
        /\ n + Quantum <= Modulus
        /\ SimpleSize + Si!Pooled(Si!Quantas(n)) * Quantum < Modulus

LEMMA NoWrap ==
    ASSUME SimpleFits, NEW n \in SimpleAsked, pos \in 0..Quanta
    PROVE  /\ Si!Quantas(n) \in Nat \ {0}
           /\ n + Quantum <= Si!Quantas(n) * Quantum
           /\ Si!PosBehind(Si!Quantas(n)) = pos + Si!Pooled(Si!Quantas(n))
  <1>. DEFINE q == Si!Quantas(n)
              d == ((n + Quantum) - 1) \div Quantum
              s == Si!Pooled(q)
  <1>1. /\ Quantum \in Nat \ {0} /\ Modulus \in Nat \ {0} /\ n \in Nat \ {0} /\ Quanta \in Nat
        /\ SimpleSize \in Nat /\ MinQuantas \in Nat \ {0}
        /\ n + Quantum <= Modulus /\ SimpleSize + s * Quantum < Modulus
    BY SimpleConstants DEF SimpleFits
  <1>2. (n + Quantum) - 1 \in Nat /\ (n + Quantum) - 1 < Modulus
    BY <1>1
  <1>3. ((n + Quantum) - 1) % Modulus = (n + Quantum) - 1
    BY <1>1, <1>2, SmallRemainder
  <1>4. q = d + 1
    <2>1. q = ((n + (Quantum - 1)) % Modulus) \div Quantum + 1
      BY DEF Si!Quantas
    <2>2. n + (Quantum - 1) = (n + Quantum) - 1
      BY <1>1
    <2>. QED
      BY <1>3, <2>1, <2>2
  <1>5. d \in Nat /\ d * Quantum <= (n + Quantum) - 1 /\ (n + Quantum) - 1 < d * Quantum + Quantum
    BY <1>1, <1>2, QuotientRange
  <1>6. n + Quantum <= q * Quantum /\ q \in Nat \ {0}
    <2>. HIDE DEF d, q
    <2>1. q * Quantum = d * Quantum + Quantum
      BY <1>1, <1>4, <1>5, Z3
    <2>2. d * Quantum \in Nat
      BY <1>1, <1>5, Z3
    <2>. DEFINE x == d * Quantum
    <2>. HIDE DEF x
    <2>3. x \in Nat /\ (n + Quantum) - 1 < x + Quantum /\ q * Quantum = x + Quantum
      BY <1>5, <2>1, <2>2 DEF x
    <2>. QED
      BY <1>1, <1>4, <1>5, <2>3
  <1>7. s \in Nat
    BY <1>1, <1>6 DEF Si!Pooled
  <1>8. Si!PosBehind(q) = pos + s
    <2>. DEFINE x == (pos + s) * Quantum
                y == pos * Quantum
                w == Quanta * Quantum
                v == s * Quantum
    <2>1. pos \in Nat /\ pos <= Quanta /\ pos + s \in Nat
      BY <1>7, <1>1
    <2>2. w <= SimpleSize /\ w \in Nat
      <3>1. Quanta = SimpleSize \div Quantum
        BY DEF Quanta, Si!PoolQuanta
      <3>2. w <= SimpleSize
        BY <1>1, <3>1, QuotientRange
      <3>. QED
        BY <1>1, <3>2, Z3
    <2>3. x = y + v /\ x \in Nat /\ y \in Nat /\ v \in Nat
      BY <1>1, <1>7, <2>1, Z3
    <2>4. y <= w
      <3>1. pos = Quanta => y = w
        OBVIOUS
      <3>2. pos < Quanta => y + Quantum <= w
        BY <1>1, <2>1, PiecesApart
      <3>. HIDE DEF y, w
      <3>. QED
        BY <1>1, <2>1, <2>2, <2>3, <3>1, <3>2
    <2>5. Si!PosBehind(q) = (x % Modulus) \div Quantum
      BY DEF Si!PosBehind
    <2>6. x \div Quantum = pos + s
      BY <1>1, <2>1, Halves
    <2>7. SimpleSize + v < Modulus
      BY <1>1
    <2>. HIDE DEF x, y, w, v
    <2>8. x < Modulus
      BY <1>1, <2>2, <2>3, <2>4, <2>7
    <2>9. x % Modulus = x
      BY <1>1, <2>3, <2>8, SmallRemainder
    <2>. QED
      BY <2>5, <2>6, <2>9
  <1>. QED
    BY <1>6, <1>8

(* The list m and the blocks H that are out fill the pool up to e.         *)
Sound(m, H, e) == \E R : R \cap H = {} /\ Sim(m, R, R \cup H, e, {})

Out == DOMAIN simpleHeld

SizesKept(m) ==
    \A b \in Out : /\ simpleHeld[b] \in SimpleAsked
                   /\ m.size[b] = Si!Quantas(simpleHeld[b])

SimpleInv ==
    /\ SizesKept(list)
    /\ \/ list.freep = Si!Null /\ list = Si!NoList /\ pos = 0 /\ Out = {}
       \/ list.freep # Si!Null /\ Sound(list, Out, pos)

LEMMA SoundStarted ==
    ASSUME SimpleInv
    PROVE  /\ Sound(Si!Started(list), Out, pos) /\ SizesKept(Si!Started(list))
           /\ \A b \in Out : Si!Started(list).size[b] = list.size[b]
           /\ pos \in 0..Quanta
  <1>1. CASE list.freep # Si!Null
    <2>1. Si!Started(list) = list
      BY <1>1 DEF Si!Started
    <2>2. Sound(list, Out, pos)
      BY <1>1 DEF SimpleInv
    <2>3. pos \in 0..Quanta
      BY <2>2 DEF Sound, Sim, Tiles
    <2>. QED
      BY <2>1, <2>2, <2>3 DEF SimpleInv
  <1>2. CASE list.freep = Si!Null
    <2>. DEFINE m == Si!Started(list)
    <2>1. list = Si!NoList /\ pos = 0 /\ Out = {}
      BY <1>2 DEF SimpleInv
    <2>2. Si!Pool \cup {Si!Base} = Cells /\ Base \in Cells /\ Si!Base = Base
      BY DEF Cells, Base
    <2>3. /\ list.next = [b \in Cells |-> Junk]
          /\ list.size = [b \in Cells |-> IF b = Base THEN 0 ELSE Junk]
      BY <2>1, <2>2 DEF Si!NoList, Junk
    <2>4. m = [next |-> [list.next EXCEPT ![Base] = Base], size |-> list.size, freep |-> Base]
      BY <1>2, <2>1, <2>2 DEF Si!Started, Si!NoList
    <2>. HIDE DEF m
    <2>5. /\ m.next \in [Cells -> Cells \cup {Junk}] /\ m.next[Base] = Base
          /\ m.size \in [Cells -> (0..Quanta) \cup {Junk}] /\ m.size[Base] = 0
      <3>1. 0 \in 0..Quanta
        BY SimpleConstants
      <3>. QED
        BY <2>2, <2>3, <2>4, <3>1
    <2>6. Circle({}) = {Base} /\ Follows({}, Base, Base)
      BY SimpleConstants DEF Circle, Follows
    <2>7. Ring(m, {})
      BY <2>4, <2>5, <2>6 DEF Ring
    <2>8. Tiles(m.size, {}, 0)
      BY SimpleConstants DEF Tiles
    <2>9. Sim(m, {}, {} \cup {}, 0, {})
      BY <2>7, <2>8 DEF Sim, Loose
    <2>10. Sound(m, {}, 0) /\ 0 \in 0..Quanta
      BY <2>9, SimpleConstants DEF Sound
    <2>. QED
      BY <2>1, <2>10 DEF SizesKept, m
  <1>. QED
    BY <1>1, <1>2

(* What the callers see of a step.                                         *)
Gives(b) == /\ b \notin Out /\ Out' = Out \cup {b}
            /\ \A c \in Out : list'.size[c] = list.size[c]

Gets(b) == /\ b \in Out /\ Out' = Out \ {b}
           /\ \A c \in Out \ {b} : list'.size[c] = list.size[c]

Forgets == Out' = {}

Keeps == Out' = Out /\ \A c \in Out : list'.size[c] = list.size[c]

Seen == \/ \E b : Gives(b)
        \/ \E b : Gets(b)
        \/ Forgets
        \/ Keeps

LEMMA GiveStep ==
    ASSUME NEW m, NEW R, R \cap Out = {},
           SizesKept(m), \A b \in Out : m.size[b] = list.size[b],
           NEW n \in SimpleAsked, NEW t, NEW e,
           Takes(m, t, R, R \cup Out, e, Si!Quantas(n)), Si!Give(t, n), pos' = e
    PROVE  SimpleInv' /\ Gives(t.b)
  <1>1. (R \cup Out) \ R = Out
    BY Zenon
  <1>2. PICK S, U : /\ Sim(t.list, S, U, e, {}) /\ U \ S = Out \cup {t.b} /\ t.b \notin Out
                    /\ SameUsed(m, t.list, Out) /\ t.list.size[t.b] = Si!Quantas(n)
    BY <1>1 DEF Takes
  <1>3. /\ list' = t.list
        /\ simpleHeld' = [x \in Out \cup {t.b} |-> IF x = t.b THEN n ELSE simpleHeld[x]]
    BY DEF Si!Give, Out
  <1>4. Out' = Out \cup {t.b}
    BY <1>3 DEF Out
  <1>5. \A c \in Out : list'.size[c] = list.size[c]
    BY <1>2, <1>3 DEF SameUsed
  <1>6. \A b \in Out' : /\ simpleHeld'[b] \in SimpleAsked
                        /\ list'.size[b] = Si!Quantas(simpleHeld'[b])
    <2>. SUFFICES ASSUME NEW b \in Out'
                  PROVE  /\ simpleHeld'[b] \in SimpleAsked
                         /\ list'.size[b] = Si!Quantas(simpleHeld'[b])
      OBVIOUS
    <2>1. CASE b = t.b
      <3>1. simpleHeld'[b] = n
        BY <1>3, <2>1
      <3>. QED
        BY <1>2, <1>3, <2>1, <3>1
    <2>2. CASE b # t.b
      <3>1. b \in Out /\ simpleHeld'[b] = simpleHeld[b]
        BY <1>3, <1>4, <2>2
      <3>2. list'.size[b] = m.size[b]
        BY <1>2, <1>3, <3>1 DEF SameUsed
      <3>. QED
        BY <3>1, <3>2 DEF SizesKept
    <2>. QED
      BY <2>1, <2>2
  <1>7. SizesKept(list)'
    BY <1>6 DEF SizesKept
  <1>8. S \subseteq U /\ list'.freep # Si!Null
    <2>1. S \subseteq U /\ Ring(t.list, S)
      BY <1>2 DEF Sim
    <2>2. t.list.freep \in Circle(S) /\ Circle(S) \subseteq Cells /\ Si!Null \notin Cells
      BY <2>1, RingNext, SimpleConstants DEF Ring, Cells, Si!Null, Circle
    <2>. QED
      BY <1>3, <2>1, <2>2
  <1>9. S \cap Out' = {} /\ U = S \cup Out'
    BY <1>2, <1>4, <1>8
  <1>10. Sound(list', Out', pos')
    BY <1>2, <1>3, <1>9 DEF Sound
  <1>11. SimpleInv'
    BY <1>7, <1>8, <1>10 DEF SimpleInv
  <1>. QED
    BY <1>2, <1>4, <1>5, <1>11 DEF Gives

LEMMA SimpleStep ==
    ASSUME SimpleFits, SimpleInv, Si!Next \/ UNCHANGED simpleVars
    PROVE  SimpleInv' /\ Seen
  <1>. DEFINE m == Si!Started(list)
  <1>1. PICK R : R \cap Out = {} /\ Sim(m, R, R \cup Out, pos, {})
    BY SoundStarted DEF Sound
  <1>2. SizesKept(m) /\ (\A b \in Out : m.size[b] = list.size[b]) /\ pos \in 0..Quanta
    BY SoundStarted
  <1>3. ASSUME NEW n \in SimpleAsked, Si!Alloc(n)
        PROVE  SimpleInv' /\ Seen
    <2>. DEFINE q == Si!Quantas(n)
                t == Si!Taken(m, q)
    <2>1. Si!Fitting(m, q) # {} /\ Si!Give(t, n) /\ pos' = pos
      BY <1>3 DEF Si!Alloc
    <2>2. Takes(m, t, R, R \cup Out, pos, q)
      BY <1>1, <1>2, <2>1, NoWrap, TakenSim
    <2>. HIDE DEF m, t
    <2>3. SimpleInv' /\ Gives(t.b)
      BY <1>1, <1>2, <2>1, <2>2, GiveStep
    <2>. QED
      BY <2>3 DEF Seen
  <1>4. ASSUME NEW n \in SimpleAsked, Si!AllocFromPool(n)
        PROVE  SimpleInv' /\ Seen
    <2>. DEFINE q == Si!Quantas(n)
                t == Si!Taken(Si!Extended(m, q), q)
                e == pos + Si!Pooled(q)
    <2>1. Si!HasRoom(q) /\ Si!Give(t, n) /\ pos' = Si!PosBehind(q)
      BY <1>4 DEF Si!AllocFromPool
    <2>2. pos' = e /\ e <= Quanta /\ q \in Nat \ {0}
      BY <1>2, <2>1, NoWrap DEF Si!HasRoom, Quanta
    <2>3. Takes(m, t, R, R \cup Out, e, q)
      BY <1>1, <2>2, ExtendedSim
    <2>. HIDE DEF m, t, e
    <2>4. SimpleInv' /\ Gives(t.b)
      BY <1>1, <1>2, <2>1, <2>2, <2>3, GiveStep
    <2>. QED
      BY <2>4 DEF Seen
  <1>5. ASSUME NEW n \in SimpleAsked, Si!AllocNull(n)
        PROVE  SimpleInv' /\ Seen
    <2>1. list' = m /\ pos' = pos /\ simpleHeld' = simpleHeld
      BY <1>5 DEF Si!AllocNull
    <2>. HIDE DEF m
    <2>2. Out' = Out /\ SizesKept(list)'
      BY <1>2, <2>1 DEF Out, SizesKept
    <2>3. Sound(list', Out', pos')
      BY <1>1, <2>1, <2>2 DEF Sound
    <2>4. list'.freep # Si!Null
      <3>1. m.freep \in Circle(R) /\ Circle(R) \subseteq Cells /\ Si!Null \notin Cells
        BY <1>1, RingNext, SimpleConstants DEF Sim, Ring, Cells, Si!Null, Circle
      <3>. QED
        BY <2>1, <3>1
    <2>5. Keeps
      BY <1>2, <2>1, <2>2 DEF Keeps
    <2>. QED
      BY <2>2, <2>3, <2>4, <2>5 DEF SimpleInv, Seen
  <1>6. ASSUME NEW b \in Out, Si!Free(b)
        PROVE  SimpleInv' /\ Seen
    <2>1. /\ list' = Si!Inserted(list, b) /\ pos' = pos
          /\ simpleHeld' = [x \in Out \ {b} |-> simpleHeld[x]]
      BY <1>6 DEF Si!Free, Out
    <2>2. m = list
      BY DEF SimpleInv, Si!Started
    <2>3. Inserts(list, list', R, R \cup Out, pos, b)
      <3>1. b \in (R \cup Out) \ R /\ Sim(list, R, R \cup Out, pos, {})
        BY <1>1, <2>2
      <3>. QED
        BY <2>1, <3>1, InsertedSim
    <2>4. ((R \cup Out) \ R) \ {b} = Out \ {b} /\ Out' = Out \ {b}
      BY <1>1, <2>1 DEF Out
    <2>5. PICK S, U : /\ Sim(list', S, U, pos, {}) /\ U \ S = Out'
                      /\ SameUsed(list, list', Out')
      BY <2>3, <2>4 DEF Inserts
    <2>6. \A c \in Out' : list'.size[c] = list.size[c] /\ simpleHeld'[c] = simpleHeld[c] /\ c \in Out
      BY <2>1, <2>4, <2>5 DEF SameUsed
    <2>7. SizesKept(list)'
      BY <2>6 DEF SimpleInv, SizesKept
    <2>8. S \subseteq U /\ list'.freep # Si!Null
      <3>1. S \subseteq U /\ Ring(list', S)
        BY <2>5 DEF Sim
      <3>2. list'.freep \in Circle(S) /\ Circle(S) \subseteq Cells /\ Si!Null \notin Cells
        BY <3>1, RingNext, SimpleConstants DEF Ring, Cells, Si!Null, Circle
      <3>. QED
        BY <3>1, <3>2
    <2>9. S \cap Out' = {} /\ U = S \cup Out'
      BY <2>5, <2>8
    <2>10. Sound(list', Out', pos')
      BY <2>1, <2>5, <2>9 DEF Sound
    <2>11. Gets(b)
      BY <2>4, <2>6 DEF Gets
    <2>. QED
      BY <2>7, <2>8, <2>10, <2>11 DEF SimpleInv, Seen
  <1>7. CASE Si!Reset
    <2>1. list' = Si!NoList /\ pos' = 0 /\ simpleHeld' = <<>>
      BY <1>7 DEF Si!Reset
    <2>2. Out' = {}
      BY <2>1 DEF Out
    <2>3. list'.freep = Si!Null
      BY <2>1 DEF Si!NoList
    <2>. QED
      BY <2>1, <2>2, <2>3 DEF SimpleInv, SizesKept, Seen, Forgets
  <1>8. CASE UNCHANGED simpleVars
    <2>1. list' = list /\ pos' = pos /\ simpleHeld' = simpleHeld
      BY <1>8 DEF simpleVars
    <2>2. Out' = Out
      BY <2>1 DEF Out
    <2>3. SimpleInv'
      BY <2>1, <2>2 DEF SimpleInv, SizesKept
    <2>. QED
      BY <2>1, <2>2, <2>3 DEF Seen, Keeps
  <1>. HIDE DEF m
  <1>9. CASE Si!Next
    BY <1>3, <1>4, <1>5, <1>6, <1>7, <1>9 DEF Si!Next, Out
  <1>. QED
    BY <1>8, <1>9

LEMMA SimpleAlways == ASSUME SimpleFits PROVE Spec => []SimpleInv
  <1>1. Init => SimpleInv
    BY DEF Init, Si!Init, SimpleInv, SizesKept, Out, Si!NoList
  <1>2. SimpleInv /\ [Next]_vars => SimpleInv'
    <2>. SUFFICES ASSUME SimpleInv, [Next]_vars
                  PROVE  SimpleInv'
      OBVIOUS
    <2>1. Si!Next \/ UNCHANGED simpleVars
      BY DEF Next, vars, SLAB, NOFREE, SIMPLE, BUFFER, LARGE_BUFFER
    <2>. QED
      BY <2>1, SimpleStep
  <1>. QED
    BY <1>1, <1>2, PTL DEF Spec

(* What the invariant says of the state, in the terms of Memmgr.           *)
LEMMA SimpleState ==
    ASSUME SimpleInv
    PROVE  /\ \A b \in Out : /\ simpleHeld[b] \in SimpleAsked
                             /\ list.size[b] = Si!Quantas(simpleHeld[b])
           /\ \E R : /\ Si!OnList = R /\ R \cap Out = {}
                     /\ Tiles(list.size, R \cup Out, pos)
                     /\ list.freep # Si!Null => Ring(list, R) /\ Loose(list, R, {})
                     /\ list.freep = Si!Null => R = {} /\ list = Si!NoList
  <1>1. \A b \in Out : /\ simpleHeld[b] \in SimpleAsked
                       /\ list.size[b] = Si!Quantas(simpleHeld[b])
    BY DEF SimpleInv, SizesKept
  <1>2. CASE list.freep = Si!Null
    <2>1. Si!OnList = {} /\ Out = {} /\ pos = 0 /\ list = Si!NoList
      BY <1>2 DEF SimpleInv, Si!OnList
    <2>2. Tiles(list.size, {}, 0)
      BY SimpleConstants DEF Tiles
    <2>. QED
      BY <1>1, <1>2, <2>1, <2>2
  <1>3. CASE list.freep # Si!Null
    <2>1. PICK R : R \cap Out = {} /\ Sim(list, R, R \cup Out, pos, {})
      BY <1>3 DEF SimpleInv, Sound
    <2>2. Ring(list, R) /\ Tiles(list.size, R \cup Out, pos) /\ Loose(list, R, {})
      BY <2>1 DEF Sim
    <2>3. /\ Rounds(list, R) /\ Circle(R) = R \cup {Base} /\ Base \notin R
          /\ Quanta \in Nat
      <3>1. Rounds(list, R)
        BY <2>2, WalkRounds
      <3>2. Circle(R) = R \cup {Base} /\ Base \notin R
        BY <2>2, RingNext DEF Circle
      <3>3. Quanta \in Nat
        BY SimpleConstants
      <3>. QED
        BY <3>1, <3>2, <3>3
    <2>4. Si!OnList = {Si!Walk(list)[k] : k \in 0..Quanta} \ {Base}
      BY <1>3 DEF Si!OnList, Quanta, Base
    <2>5. \A k \in 0..Quanta : Si!Walk(list)[k] \in R \cup {Base}
      <3>1. \A k \in 0..Quanta : k \in 0..(Quanta + 1)
        BY <2>3
      <3>. QED
        BY <2>3, <3>1 DEF Rounds
    <2>6. \A b \in R : \E k \in 0..Quanta : Si!Walk(list)[k] = b
      BY <2>3 DEF Rounds
    <2>7. Si!OnList = R
      BY <2>3, <2>4, <2>5, <2>6
    <2>. QED
      BY <1>1, <1>3, <2>1, <2>2, <2>7
  <1>. QED
    BY <1>2, <1>3

(* The free list of memmgr.c is closed, in address order and complete,     *)
(* whatever is asked for and however blocks are joined and split: every    *)
(* search along it ends.                                                   *)
THEOREM SimpleRingSound == ASSUME SimpleFits PROVE Spec => []RingSound
  <1>1. SimpleInv => RingSound
    <2>. SUFFICES ASSUME SimpleInv, list.freep # Si!Null
                  PROVE  LET ring == Si!OnList \cup {Si!Base}
                         IN \A b \in ring :
                               list.next[b] = IF \E c \in ring : c > b
                                              THEN Si!Min({c \in ring : c > b})
                                              ELSE Si!Base
      BY DEF RingSound, Si!RingSound
    <2>1. PICK R : Si!OnList = R /\ Ring(list, R)
      BY SimpleState
    <2>. DEFINE C == Circle(R)
    <2>2. C = Si!OnList \cup {Si!Base} /\ Si!Base = Base /\ Base = -1
      BY <2>1, SimpleConstants DEF Circle, Base
    <2>. SUFFICES ASSUME NEW b \in C
                  PROVE  list.next[b] = IF \E c \in C : c > b
                                        THEN Min({c \in C : c > b}) ELSE Base
      <3>. HIDE DEF C
      <3>. QED
        BY <2>2, SimpleMin
    <2>. DEFINE n == list.next[b]
                A == {c \in C : c > b}
    <2>3. /\ Follows(R, b, n) /\ C \subseteq Int /\ n \in C
          /\ \A c \in C : Base <= c
      BY <2>1, RingNext
    <2>4. /\ n \in C /\ b \in Int /\ Base <= b
          /\ \/ b < n /\ (\A c \in C : c <= b \/ n <= c)
             \/ n = Base /\ (\A c \in C : c <= b)
      BY <2>3 DEF Follows
    <2>. HIDE DEF C, n
    <2>5. CASE b < n
      <3>1. n \in A /\ \A c \in A : n <= c
        BY <2>2, <2>3, <2>4, <2>5
      <3>2. A \in SUBSET Nat
        <4>1. \A c \in C : c > b => c \in Nat
          BY <2>2, <2>3, <2>4
        <4>. QED
          BY <4>1
      <3>3. Min(A) \in A /\ \A c \in A : Min(A) <= c
        BY <3>1, <3>2, MinIsLeast
      <3>4. Min(A) = n
        <4>. DEFINE g == Min(A)
        <4>. HIDE DEF g, A
        <4>1. g \in A /\ g <= n /\ n <= g
          BY <3>1, <3>3 DEF g
        <4>2. g \in Int /\ n \in Int
          BY <3>1, <3>2, <4>1
        <4>. QED
          BY <4>1, <4>2 DEF g
      <3>5. \E c \in C : c > b
        BY <3>1
      <3>. QED
        BY <3>4, <3>5 DEF n
    <2>6. CASE ~ (b < n)
      <3>1. n = Base /\ ~ \E c \in C : c > b
        BY <2>3, <2>4, <2>6
      <3>. QED
        BY <3>1 DEF n
    <2>. QED
      BY <2>5, <2>6
  <1>. QED
    BY <1>1, SimpleAlways, PTL

LEMMA SimpleCardinality == \A S : Si!Cardinality(S) = Cardinality(S)
  BY DEF Si!Cardinality, Cardinality

(* Free blocks and blocks handed out cover the used part of the pool, each *)
(* quantum once.                                                           *)
THEOREM SimplePoolTiled == ASSUME SimpleFits PROVE Spec => []Si!PoolTiled
  <1>1. SimpleInv => Si!PoolTiled
    <2>. SUFFICES ASSUME SimpleInv
                  PROVE  Si!PoolTiled
      OBVIOUS
    <2>. DEFINE all == Si!OnList \cup Out
                z == list.size
    <2>1. Si!OnList \cap Out = {} /\ Tiles(z, all, pos)
      BY SimpleState
    <2>. HIDE DEF all, z
    <2>2. /\ all \subseteq Nat /\ pos \in Nat /\ Si!Pool \subseteq Nat
          /\ \A b \in all : z[b] \in Nat /\ b + z[b] <= pos
      BY <2>1, TilesBounds
    <2>3. ASSUME NEW x \in Si!Pool
          PROVE  Cardinality({b \in all : x \in Si!Quanta(b)}) = IF x < pos THEN 1 ELSE 0
      <3>. DEFINE B == {b \in all : x \in Si!Quanta(b)}
      <3>1. \A b \in all : x \in Si!Quanta(b) <=> (b <= x /\ x < b + z[b])
        <4>. SUFFICES ASSUME NEW b \in all
                      PROVE  x \in Si!Quanta(b) <=> (b <= x /\ x < b + z[b])
          OBVIOUS
        <4>1. Si!Quanta(b) = b..(b + (z[b] - 1))
          BY DEF Si!Quanta, z
        <4>2. x \in Nat /\ b \in Nat /\ z[b] \in Nat
          BY <2>2
        <4>. QED
          BY <4>1, <4>2
      <3>2. CASE x < pos
        <4>1. PICK b \in all : b <= x /\ x < b + z[b]
          <5>1. x \in 0..(pos - 1)
            BY <2>2, <3>2
          <5>. QED
            BY <2>1, <5>1 DEF Tiles
        <4>2. \A c \in all : c <= x /\ x < c + z[c] => c = b
          <5>1. \A c, d \in all : c < d => c + z[c] <= d
            BY <2>1 DEF Tiles
          <5>. QED
            BY <2>2, <4>1, <5>1
        <4>3. \A c : c \in B <=> c = b
          BY <3>1, <4>1, <4>2
        <4>. HIDE DEF B
        <4>4. B = {b}
          BY <4>3
        <4>. QED
          BY <3>2, <4>4, FS_Singleton DEF B
      <3>3. CASE ~ (x < pos)
        <4>1. \A c \in all : ~ (x \in Si!Quanta(c))
          BY <2>2, <3>1, <3>3
        <4>2. B = {}
          BY <4>1
        <4>. HIDE DEF B
        <4>. QED
          BY <3>3, <4>2, FS_EmptySet DEF B
      <3>. QED
        BY <3>2, <3>3
    <2>. QED
      BY <2>1, <2>3, SimpleCardinality DEF Si!PoolTiled, all, Out
  <1>. QED
    BY <1>1, SimpleAlways, PTL

(* No two free blocks touch: memmgr_free joined them.                      *)
THEOREM SimpleNeighboursCombined == ASSUME SimpleFits PROVE Spec => []NeighboursCombined
  <1>1. SimpleInv => NeighboursCombined
    <2>. SUFFICES ASSUME SimpleInv, NEW b \in Si!OnList, b + list.size[b] \in Si!OnList
                  PROVE  FALSE
      BY DEF NeighboursCombined, Si!NeighboursCombined
    <2>1. PICK R : /\ Si!OnList = R /\ Tiles(list.size, R \cup Out, pos)
                   /\ Ring(list, R) /\ Loose(list, R, {})
      BY SimpleState
    <2>. DEFINE n == list.next[b]
                c == b + list.size[b]
    <2>2. b \in R /\ c \in R /\ b \in Circle(R) /\ c \in Circle(R)
      BY <2>1 DEF Circle
    <2>3. b \in Nat /\ list.size[b] \in Nat \ {0} /\ c # n /\ c \in Nat
      BY <2>1, <2>2, TilesBounds DEF Loose
    <2>4. Follows(R, b, n) /\ n \in Circle(R) /\ Circle(R) \subseteq Int /\ Base = -1
      BY <2>1, <2>2, RingNext
    <2>. HIDE DEF n
    <2>5. b < c
      BY <2>3
    <2>6. n < c /\ b < n
      <3>. HIDE DEF c
      <3>. QED
        BY <2>2, <2>3, <2>4, <2>5 DEF Follows
    <2>7. n \in R
      BY <2>3, <2>4, <2>6 DEF Circle
    <2>8. b + list.size[b] <= n
      BY <2>1, <2>2, <2>6, <2>7 DEF Tiles
    <2>9. c <= n /\ n \in Int
      BY <2>4, <2>8
    <2>. HIDE DEF c
    <2>. QED
      BY <2>3, <2>6, <2>9
  <1>. QED
    BY <1>1, SimpleAlways, PTL

(* A block handed out has room for its header and the bytes asked for, and *)
(* no more than a whole number of quanta needs.                            *)
THEOREM SimpleRequestHoused == ASSUME SimpleFits PROVE Spec => []Si!RequestHoused
  <1>1. ASSUME SimpleInv
        PROVE  Si!RequestHoused
    <2>1. pos \in 0..Quanta
      BY <1>1, SoundStarted
    <2>2. \A b \in Out : simpleHeld[b] + Quantum <= list.size[b] * Quantum
      BY <1>1, <2>1, SimpleState, NoWrap
    <2>. QED
      BY <2>2 DEF Si!RequestHoused, Out
  <1>2. SimpleInv => Si!RequestHoused
    BY <1>1
  <1>. QED
    BY <1>2, SimpleAlways, PTL

THEOREM SimpleTyped == ASSUME SimpleFits PROVE Spec => []Si!TypeOK
  <1>1. SimpleInv => Si!TypeOK
    <2>. SUFFICES ASSUME SimpleInv
                  PROVE  Si!TypeOK
      OBVIOUS
    <2>1. PICK R : /\ Tiles(list.size, R \cup Out, pos)
                   /\ list.freep # Si!Null => Ring(list, R)
                   /\ list.freep = Si!Null => list = Si!NoList
      BY SimpleState
    <2>2. Out \subseteq Si!Pool /\ pos \in 0..Quanta
      BY <2>1 DEF Tiles
    <2>3. Si!Pool \cup {Si!Base} = Cells /\ Base = Si!Base /\ Junk = Si!Junk
      BY DEF Cells, Base, Junk
    <2>4. /\ list.next \in [Cells -> Cells \cup {Junk}]
          /\ list.size \in [Cells -> (0..Quanta) \cup {Junk}]
          /\ list.freep \in Cells \cup {Si!Null}
      <3>1. CASE list.freep = Si!Null
        <4>1. 0 \in 0..Quanta
          BY SimpleConstants
        <4>2. /\ list.next = [b \in Cells |-> Junk]
              /\ list.size = [b \in Cells |-> IF b = Base THEN 0 ELSE Junk]
          BY <2>1, <2>3, <3>1 DEF Si!NoList
        <4>. QED
          BY <3>1, <4>1, <4>2
      <3>2. CASE list.freep # Si!Null
        BY <2>1, <3>2 DEF Ring, Circle, Cells
      <3>. QED
        BY <3>1, <3>2
    <2>. QED
      BY <2>2, <2>3, <2>4 DEF Si!TypeOK, Out, Quanta, Cells
  <1>. QED
    BY <1>1, SimpleAlways, PTL

------------------------------------------------------------------------------
(* POOL_SIZE counts the header as pool, so that the last block may end     *)
(* behind the buffer.  It cannot when the used part of the pool grows in   *)
(* steps of g quanta and g does not go into what the header takes away.    *)
SimpleRoomy ==
    \E g \in Nat \ {0} :
        /\ \A n \in SimpleAsked : Si!Pooled(Si!Quantas(n)) % g = 0
        /\ SimpleHeader + (g * (Quanta \div g)) * Quantum <= SimpleSize

EndInBuffer == SimpleHeader + pos * Quantum <= SimpleSize

InSteps(g) == \E k \in Nat : pos = k * g

LEMMA StepsAdd ==
    ASSUME NEW g \in Nat \ {0}, NEW x \in Nat, NEW y \in Nat, NEW k \in Nat,
           x = k * g, y % g = 0
    PROVE  \E l \in Nat : x + y = l * g
  <1>. DEFINE d == y \div g
              v == d * g
              w == (k + d) * g
  <1>1. d \in Nat /\ y = v
    <2>1. d \in Nat /\ y = (g * d) + (y % g)
      BY Z3
    <2>. QED
      BY <2>1, Z3
  <1>2. w = k * g + v
    BY <1>1, Z3
  <1>. HIDE DEF v, w, d
  <1>3. x + y = w /\ k + d \in Nat
    BY <1>1, <1>2
  <1>. QED
    BY <1>3 DEF w

LEMMA StepsEnd ==
    ASSUME NEW g \in Nat \ {0}, NEW k \in Nat, pos = k * g, pos \in 0..Quanta,
           SimpleHeader + (g * (Quanta \div g)) * Quantum <= SimpleSize
    PROVE  EndInBuffer
  <1>. DEFINE d == Quanta \div g
              u == d * g
              z == u * Quantum
              y == pos * Quantum
  <1>1. /\ Quanta \in Nat /\ Quantum \in Nat \ {0} /\ SimpleHeader \in Nat /\ SimpleSize \in Nat
        /\ pos \in Nat /\ pos <= Quanta
    BY SimpleConstants
  <1>2. d \in Nat /\ Quanta < u + g
    BY <1>1, QuotientRange
  <1>3. u \in Nat /\ g * d = u
    BY <1>2, Z3
  <1>4. d < k => u + g <= pos
    BY <1>2, PiecesApart
  <1>5. k <= d
    <2>. HIDE DEF u, d
    <2>. QED
      BY <1>1, <1>2, <1>3, <1>4
  <1>6. k < d => pos + g <= u
    BY <1>2, PiecesApart
  <1>7. k = d => pos = u
    OBVIOUS
  <1>8. pos <= u
    <2>. HIDE DEF u, d
    <2>. QED
      BY <1>1, <1>2, <1>3, <1>5, <1>6, <1>7
  <1>9. pos < u => y + Quantum <= z
    BY <1>1, <1>3, PiecesApart
  <1>10. pos = u => y = z
    OBVIOUS
  <1>11. z \in Nat /\ y \in Nat /\ SimpleHeader + z <= SimpleSize
    <2>1. SimpleHeader + z <= SimpleSize
      BY <1>3
    <2>. HIDE DEF u
    <2>. QED
      BY <1>1, <1>3, <2>1, Z3
  <1>12. y <= z
    <2>. HIDE DEF y, z, u
    <2>. QED
      BY <1>1, <1>3, <1>8, <1>9, <1>10, <1>11
  <1>13. SimpleHeader + y <= SimpleSize
    <2>. HIDE DEF y, z
    <2>. QED
      BY <1>1, <1>11, <1>12
  <1>. QED
    BY <1>13 DEF EndInBuffer

(* The used part of the pool, whatever is asked for, ends in the buffer.   *)
LEMMA SimpleEnds == ASSUME SimpleFits, SimpleRoomy PROVE Spec => []EndInBuffer
  <1>1. PICK g \in Nat \ {0} :
            /\ \A n \in SimpleAsked : Si!Pooled(Si!Quantas(n)) % g = 0
            /\ SimpleHeader + (g * (Quanta \div g)) * Quantum <= SimpleSize
    BY DEF SimpleRoomy
  <1>2. Init => InSteps(g)
    <2>1. 0 \in Nat /\ 0 = 0 * g
      BY <1>1
    <2>. QED
      BY <2>1 DEF Init, Si!Init, InSteps
  <1>3. SimpleInv /\ InSteps(g) /\ [Next]_vars => InSteps(g)'
    <2>. SUFFICES ASSUME SimpleInv, InSteps(g), [Next]_vars
                  PROVE  InSteps(g)'
      OBVIOUS
    <2>1. Si!Next \/ UNCHANGED simpleVars
      BY DEF Next, vars, SLAB, NOFREE, SIMPLE, BUFFER, LARGE_BUFFER
    <2>2. CASE pos' = pos
      BY <2>2 DEF InSteps
    <2>3. CASE pos' = 0
      <3>1. 0 \in Nat /\ 0 = 0 * g
        BY <1>1
      <3>. QED
        BY <2>3, <3>1 DEF InSteps
    <2>4. ASSUME NEW n \in SimpleAsked, Si!AllocFromPool(n)
          PROVE  InSteps(g)'
      <3>. DEFINE s == Si!Pooled(Si!Quantas(n))
      <3>1. pos' = Si!PosBehind(Si!Quantas(n))
        BY <2>4 DEF Si!AllocFromPool
      <3>2. pos \in 0..Quanta
        BY SoundStarted
      <3>3. pos' = pos + s /\ Si!Quantas(n) \in Nat
        BY <3>1, <3>2, NoWrap
      <3>4. s \in Nat /\ s % g = 0 /\ pos \in Nat
        BY <1>1, <3>2, <3>3, SimpleConstants DEF Si!Pooled
      <3>5. PICK k \in Nat : pos = k * g
        BY DEF InSteps
      <3>. HIDE DEF s
      <3>6. \E l \in Nat : pos + s = l * g
        BY <1>1, <3>4, <3>5, StepsAdd
      <3>. QED
        BY <3>3, <3>6 DEF InSteps
    <2>5. CASE Si!Next
      BY <2>2, <2>3, <2>4, <2>5 DEF Si!Next, Si!Alloc, Si!AllocNull, Si!Free, Si!Reset
    <2>. QED
      BY <2>1, <2>2, <2>5 DEF simpleVars
  <1>4. SimpleInv /\ InSteps(g) => EndInBuffer
    <2>. SUFFICES ASSUME SimpleInv, InSteps(g)
                  PROVE  EndInBuffer
      OBVIOUS
    <2>1. PICK k \in Nat : pos = k * g
      BY DEF InSteps
    <2>2. pos \in 0..Quanta
      BY SoundStarted
    <2>. QED
      BY <1>1, <2>1, <2>2, StepsEnd
  <1>. QED
    BY <1>2, <1>3, <1>4, SimpleAlways, PTL DEF Spec

------------------------------------------------------------------------------
(* memmgr.c as an allocator: callers hold what is behind the headers.      *)
SimpleExtent(b) == [off |-> SimpleHeader + (b + 1) * Quantum,
                    len |-> (list.size[b] - 1) * Quantum]

SimpleLive == {SimpleExtent(b) : b \in Out}

(* Blocks are in the buffer and two of them never overlap.                 *)
ExtentsApart ==
    \A b \in Out :
        /\ SimpleHeader + (b + list.size[b]) * Quantum <= SimpleSize
        /\ SimpleExtent(b) \in Si!Abs!Extents
        /\ SimpleExtent(b).off + SimpleExtent(b).len <= SimpleSize
        /\ \A c \in Out : c # b => /\ ~ Si!Abs!Overlap(SimpleExtent(b), SimpleExtent(c))
                                   /\ SimpleExtent(c) # SimpleExtent(b)

(* Where the bytes behind a header lie: between the end of the header and  *)
(* the end of the block.                                                   *)
LEMMA BytesBehind ==
    ASSUME NEW h \in Nat, NEW b \in Nat, NEW z \in Nat, z >= 2, NEW Q \in Nat \ {0}
    PROVE  /\ b * Q \in Nat /\ (b + z) * Q \in Nat
           /\ h + (b + 1) * Q = h + b * Q + Q
           /\ (h + (b + 1) * Q) + (z - 1) * Q = h + (b + z) * Q
           /\ (z - 1) * Q \in Nat \ {0}
           /\ b * Q + 2 * Q <= (b + z) * Q
  <1>1. (b + 1) * Q = b * Q + Q
    BY Z3
  <1>2. (b + z) * Q = (b + 1) * Q + (z - 1) * Q
    BY Z3
  <1>3. b * Q \in Nat /\ (b + z) * Q \in Nat /\ (b + 1) * Q \in Nat
    BY Z3
  <1>4. z - 1 \in Nat /\ 0 * Q = 0 /\ 0 < z - 1
    BY Z3
  <1>5. (z - 1) * Q \in Nat /\ 0 * Q + Q <= (z - 1) * Q
    BY <1>4, PiecesApart
  <1>. DEFINE p == b * Q
              q == (b + 1) * Q
              r == (b + z) * Q
              s == (z - 1) * Q
  <1>6. /\ q = p + Q /\ r = q + s /\ p \in Nat /\ q \in Nat /\ r \in Nat /\ s \in Nat /\ Q <= s
    BY <1>1, <1>2, <1>3, <1>4, <1>5
  <1>. HIDE DEF p, q, r, s
  <1>7. p \in Nat /\ r \in Nat /\ h + q = h + p + Q /\ (h + q) + s = h + r /\ s \in Nat \ {0}
        /\ p + 2 * Q <= r
    BY <1>6
  <1>. QED
    BY <1>7 DEF p, q, r, s

LEMMA SimpleExtents ==
    ASSUME SimpleFits, SimpleInv, EndInBuffer
    PROVE  ExtentsApart
  <1>. SUFFICES ASSUME NEW b \in Out
                PROVE  /\ SimpleHeader + (b + list.size[b]) * Quantum <= SimpleSize
                       /\ SimpleExtent(b) \in Si!Abs!Extents
                       /\ SimpleExtent(b).off + SimpleExtent(b).len <= SimpleSize
                       /\ \A c \in Out : c # b =>
                             /\ ~ Si!Abs!Overlap(SimpleExtent(b), SimpleExtent(c))
                             /\ SimpleExtent(c) # SimpleExtent(b)
    BY DEF ExtentsApart
  <1>. DEFINE z == list.size
  <1>1. PICK R : Tiles(z, R \cup Out, pos)
    BY SimpleState
  <1>2. \A c \in Out : /\ c \in Nat /\ z[c] \in Nat \ {0} /\ z[c] <= Quanta /\ c + z[c] <= pos
                       /\ pos \in Nat /\ pos <= Quanta /\ Quanta \in Nat
    BY <1>1, TilesBounds
  <1>3. \A c, d \in Out : c < d => c + z[c] <= d
    BY <1>1 DEF Tiles
  <1>4. ASSUME NEW c \in Out
        PROVE  z[c] >= 2
    <2>. DEFINE g == z[c]
    <2>1. simpleHeld[c] \in Nat \ {0} /\ Quantum \in Nat \ {0}
      <3>1. simpleHeld[c] \in SimpleAsked
        BY SimpleState
      <3>2. \A n \in SimpleAsked : n \in Nat \ {0}
        BY SimpleConstants
      <3>. QED
        BY <3>1, <3>2, SimpleConstants
    <2>2. simpleHeld[c] + Quantum <= g * Quantum
      BY <1>2, SimpleState, NoWrap
    <2>3. g \in Nat \ {0}
      BY <1>2
    <2>. HIDE DEF g
    <2>4. g # 1
      BY <2>1, <2>2
    <2>5. g >= 2
      BY <2>3, <2>4
    <2>. QED
      BY <2>5 DEF g
  <1>5. /\ Quantum \in Nat \ {0} /\ SimpleHeader \in Nat /\ SimpleSize \in Nat
    BY SimpleConstants
  <1>. HIDE DEF z
  <1>6. \A c : SimpleExtent(c) = [off |-> SimpleHeader + (c + 1) * Quantum,
                                  len |-> (z[c] - 1) * Quantum]
    BY DEF SimpleExtent, z
  (* Bytes at which a block starts and ends.                               *)
  <1>. DEFINE Start(c) == c * Quantum
              End(c) == (c + z[c]) * Quantum
  <1>7. ASSUME NEW c \in Out
        PROVE  /\ Start(c) \in Nat /\ End(c) \in Nat /\ Start(c) + 2 * Quantum <= End(c)
               /\ SimpleExtent(c).off = SimpleHeader + Start(c) + Quantum
               /\ SimpleExtent(c).off + SimpleExtent(c).len = SimpleHeader + End(c)
               /\ SimpleExtent(c).len \in Nat \ {0}
    <2>. DEFINE k == z[c]
    <2>1. c \in Nat /\ k \in Nat /\ k >= 2
      BY <1>2, <1>4
    <2>2. SimpleExtent(c) = [off |-> SimpleHeader + (c + 1) * Quantum, len |-> (k - 1) * Quantum]
      BY <1>6
    <2>3. SimpleExtent(c).off = SimpleHeader + (c + 1) * Quantum
          /\ SimpleExtent(c).len = (k - 1) * Quantum
      BY <2>2
    <2>4. Start(c) = c * Quantum /\ End(c) = (c + k) * Quantum
      OBVIOUS
    <2>. HIDE DEF k, Start, End
    <2>5. /\ c * Quantum \in Nat /\ (c + k) * Quantum \in Nat
          /\ SimpleHeader + (c + 1) * Quantum = SimpleHeader + c * Quantum + Quantum
          /\ (SimpleHeader + (c + 1) * Quantum) + (k - 1) * Quantum = SimpleHeader + (c + k) * Quantum
          /\ (k - 1) * Quantum \in Nat \ {0}
          /\ c * Quantum + 2 * Quantum <= (c + k) * Quantum
      BY <1>5, <2>1, BytesBehind
    <2>. QED
      BY <2>3, <2>4, <2>5, Zenon
  (* A block that ends before another starts ends before it in bytes.      *)
  <1>8. ASSUME NEW m \in Nat, NEW n \in Nat, m <= n
        PROVE  m * Quantum <= n * Quantum
    <2>1. m < n => m * Quantum + Quantum <= n * Quantum
      BY <1>5, PiecesApart
    <2>2. m = n => m * Quantum = n * Quantum
      OBVIOUS
    <2>. DEFINE x == m * Quantum
                y == n * Quantum
    <2>3. x \in Nat /\ y \in Nat
      BY <1>5, Z3
    <2>. HIDE DEF x, y
    <2>4. m < n \/ m = n
      BY <1>8
    <2>5. x <= y
      BY <1>5, <2>1, <2>2, <2>3, <2>4 DEF x, y
    <2>. QED
      BY <2>5 DEF x, y
  <1>9. SimpleHeader + End(b) <= SimpleSize
    <2>. DEFINE y == pos * Quantum
    <2>1. b + z[b] \in Nat /\ b + z[b] <= pos /\ pos \in Nat
      BY <1>2
    <2>2. End(b) <= y
      BY <1>8, <2>1
    <2>3. SimpleHeader + y <= SimpleSize /\ y \in Nat
      BY <1>2, <1>5, Z3 DEF EndInBuffer
    <2>4. End(b) \in Nat
      BY <1>7
    <2>. HIDE DEF y, End
    <2>. QED
      BY <1>5, <2>2, <2>3, <2>4
  <1>10. SimpleHeader + (b + list.size[b]) * Quantum <= SimpleSize
    BY <1>9 DEF z
  <1>11. ASSUME NEW c \in Out, NEW d \in Out, c < d
         PROVE  End(c) <= Start(d)
    <2>1. c + z[c] \in Nat /\ c + z[c] <= d /\ d \in Nat
      BY <1>2, <1>3, <1>11
    <2>. QED
      BY <1>8, <2>1
  <1>12. SimpleExtent(b).len \in {q * Quantum : q \in 0..Quanta}
    <2>1. z[b] - 1 \in 0..Quanta
      BY <1>2
    <2>2. SimpleExtent(b).len = (z[b] - 1) * Quantum
      BY <1>6
    <2>. QED
      BY <2>1, <2>2
  <1>13. /\ SimpleExtent(b).off + SimpleExtent(b).len <= SimpleSize
         /\ SimpleExtent(b).off \in 0..(SimpleSize - 1)
    <2>1. /\ Start(b) \in Nat /\ End(b) \in Nat /\ Start(b) + 2 * Quantum <= End(b)
          /\ SimpleExtent(b).off = SimpleHeader + Start(b) + Quantum
          /\ SimpleExtent(b).off + SimpleExtent(b).len = SimpleHeader + End(b)
      BY <1>7
    <2>. HIDE DEF Start, End
    <2>. QED
      BY <1>5, <1>9, <2>1
  <1>14. SimpleExtent(b) \in [off : 0..(SimpleSize - 1), len : {q * Quantum : q \in 0..Quanta}]
    <2>. DEFINE e == SimpleExtent(b)
    <2>1. e = [off |-> e.off, len |-> e.len]
      BY <1>6
    <2>2. e.off \in 0..(SimpleSize - 1) /\ e.len \in {q * Quantum : q \in 0..Quanta}
      BY <1>12, <1>13
    <2>. HIDE DEF e
    <2>3. e \in [off : 0..(SimpleSize - 1), len : {q * Quantum : q \in 0..Quanta}]
      BY <2>1, <2>2, Zenon
    <2>. QED
      BY <2>3 DEF e
  <1>15. ASSUME NEW c \in Out, c # b
         PROVE  /\ ~ Si!Abs!Overlap(SimpleExtent(b), SimpleExtent(c))
                /\ SimpleExtent(c) # SimpleExtent(b)
    <2>1. End(b) <= Start(c) \/ End(c) <= Start(b)
      <3>1. b < c \/ c < b
        BY <1>2, <1>15
      <3>. QED
        BY <1>11, <3>1, Zenon
    <2>2. /\ Start(b) \in Nat /\ End(b) \in Nat /\ Start(b) + 2 * Quantum <= End(b)
          /\ SimpleExtent(b).off = SimpleHeader + Start(b) + Quantum
          /\ SimpleExtent(b).off + SimpleExtent(b).len = SimpleHeader + End(b)
      BY <1>7
    <2>3. /\ Start(c) \in Nat /\ End(c) \in Nat /\ Start(c) + 2 * Quantum <= End(c)
          /\ SimpleExtent(c).off = SimpleHeader + Start(c) + Quantum
          /\ SimpleExtent(c).off + SimpleExtent(c).len = SimpleHeader + End(c)
      BY <1>7
    <2>. DEFINE e == SimpleExtent(b)
                f == SimpleExtent(c)
    <2>. HIDE DEF Start, End, e, f
    <2>4. \/ e.off + e.len <= f.off
          \/ f.off + f.len <= e.off
      BY <1>5, <2>1, <2>2, <2>3 DEF e, f
    <2>5. e.off \in Nat /\ f.off \in Nat /\ e.off < e.off + e.len /\ f.off < f.off + f.len
          /\ e.off + e.len \in Nat /\ f.off + f.len \in Nat
      BY <1>5, <2>2, <2>3 DEF e, f
    <2>6. ~ (e.off < f.off + f.len /\ f.off < e.off + e.len)
      BY <2>4, <2>5
    <2>7. f # e
      BY <2>4, <2>5
    <2>. QED
      BY <2>6, <2>7 DEF e, f, Si!Abs!Overlap
  <1>. HIDE DEF Start, End
  <1>. QED
    BY <1>10, <1>13, <1>14, <1>15 DEF Si!Abs!Extents, Quanta

LEMMA SimpleExtentsNext ==
    ASSUME SimpleFits
    PROVE  SimpleInv' /\ EndInBuffer' => ExtentsApart'
  <1>1. SimpleInv /\ EndInBuffer => ExtentsApart
    BY SimpleExtents
  <1>. QED
    BY <1>1, PTL

LEMMA SimpleStepSeen ==
    ASSUME SimpleFits, SimpleInv, SimpleInv', EndInBuffer, EndInBuffer', Seen
    PROVE  \/ \E e \in SimpleLive : SimpleLive' = SimpleLive \ {e}
           \/ SimpleLive' = {}
           \/ \E e \in Si!Abs!Extents : /\ Si!Abs!Vacant(e, SimpleLive)
                                        /\ SimpleLive' = SimpleLive \cup {e}
           \/ SimpleLive' = SimpleLive
  <1>. DEFINE Later(c) == [off |-> SimpleHeader + (c + 1) * Quantum,
                           len |-> (list'.size[c] - 1) * Quantum]
  <1>1. SimpleLive' = {Later(c) : c \in Out'}
    BY DEF SimpleLive, SimpleExtent
  <1>2. ASSUME NEW b, Gives(b)
        PROVE  \E e \in Si!Abs!Extents : /\ Si!Abs!Vacant(e, SimpleLive)
                                         /\ SimpleLive' = SimpleLive \cup {e}
    <2>1. Out' = Out \cup {b} /\ b \notin Out /\ \A c \in Out : Later(c) = SimpleExtent(c)
      BY <1>2 DEF Gives, SimpleExtent
    <2>2. SimpleLive' = SimpleLive \cup {Later(b)}
      BY <1>1, <2>1 DEF SimpleLive
    <2>3. b \in Out' /\ SimpleFits
      BY <2>1
    <2>4. /\ Later(b) \in Si!Abs!Extents
          /\ Later(b).off + Later(b).len <= SimpleSize
          /\ \A c \in Out' : c # b => ~ Si!Abs!Overlap(Later(b), Later(c))
      <3>1. ExtentsApart'
        BY SimpleExtentsNext
      <3>. QED
        BY <2>3, <3>1 DEF ExtentsApart, SimpleExtent, Si!Abs!Overlap, Si!Abs!Extents
    <2>5. \A c \in Out : ~ Si!Abs!Overlap(Later(b), SimpleExtent(c))
      BY <2>1, <2>4
    <2>. QED
      BY <2>2, <2>4, <2>5 DEF SimpleLive, Si!Abs!Vacant
  <1>3. ASSUME NEW b, Gets(b)
        PROVE  \E e \in SimpleLive : SimpleLive' = SimpleLive \ {e}
    <2>1. Out' = Out \ {b} /\ b \in Out /\ \A c \in Out \ {b} : Later(c) = SimpleExtent(c)
      BY <1>3 DEF Gets, SimpleExtent
    <2>2. \A c \in Out \ {b} : SimpleExtent(c) # SimpleExtent(b)
      BY <2>1, SimpleExtents DEF ExtentsApart
    <2>3. SimpleLive' = {SimpleExtent(c) : c \in Out \ {b}}
      BY <1>1, <2>1
    <2>4. SimpleLive' = SimpleLive \ {SimpleExtent(b)} /\ SimpleExtent(b) \in SimpleLive
      BY <2>1, <2>2, <2>3 DEF SimpleLive
    <2>. QED
      BY <2>4
  <1>4. CASE Forgets
    BY <1>1, <1>4 DEF Forgets
  <1>5. CASE Keeps
    <2>1. Out' = Out /\ \A c \in Out : Later(c) = SimpleExtent(c)
      BY <1>5 DEF Keeps, SimpleExtent
    <2>2. SimpleLive' = SimpleLive
      BY <1>1, <2>1 DEF SimpleLive
    <2>. QED
      BY <2>2
  <1>. QED
    BY <1>2, <1>3, <1>4, <1>5 DEF Seen

(* Where the sizes asked for leave the pool room for the header, every     *)
(* block that memmgr_alloc hands out ends in the buffer.                   *)
THEOREM SimpleStaysInBuffer ==
    ASSUME SimpleFits, SimpleRoomy PROVE Spec => []Si!BlocksInBuffer
  <1>1. SimpleInv /\ EndInBuffer => Si!BlocksInBuffer
    BY SimpleExtents DEF ExtentsApart, Si!BlocksInBuffer, Out
  <1>. QED
    BY <1>1, SimpleAlways, SimpleEnds, PTL

(* There memmgr.c implements the allocator interface on the buffer: free   *)
(* list, splitting and joining are hidden, and no two callers' blocks      *)
(* share a byte.                                                           *)
THEOREM SimpleImplements == ASSUME SimpleFits, SimpleRoomy PROVE Spec => Si!Refinement
  <1>1. Init => Si!Abs!Create
    BY DEF Init, Si!Init, Si!Abs!Create
  <1>2. SimpleInv /\ EndInBuffer /\ EndInBuffer' /\ [Next]_vars => [Si!Abs!Next]_SimpleLive
    <2>. SUFFICES ASSUME SimpleInv, EndInBuffer, EndInBuffer', [Next]_vars
                  PROVE  Si!Abs!Next \/ SimpleLive' = SimpleLive
      OBVIOUS
    <2>1. Si!Next \/ UNCHANGED simpleVars
      BY DEF Next, vars, SLAB, NOFREE, SIMPLE, BUFFER, LARGE_BUFFER
    <2>2. SimpleInv' /\ Seen
      BY <2>1, SimpleStep
    <2>3. \/ \E e \in SimpleLive : SimpleLive' = SimpleLive \ {e}
          \/ SimpleLive' = {}
          \/ \E e \in Si!Abs!Extents : /\ Si!Abs!Vacant(e, SimpleLive)
                                       /\ SimpleLive' = SimpleLive \cup {e}
          \/ SimpleLive' = SimpleLive
      BY <2>2, SimpleStepSeen
    <2>. QED
      BY <2>3 DEF Si!Abs!Next, Si!Abs!Free, Si!Abs!Reset, Si!Abs!Malloc, SimpleLive, SimpleExtent, Out
  <1>. QED
    BY <1>1, <1>2, SimpleAlways, SimpleEnds, PTL DEF Spec, Si!Refinement, Si!Abs!Spec, SimpleLive, SimpleExtent, Out

------------------------------------------------------------------------------
(* tiny.c.  Blocks start behind the free array.                            *)
TinyStart == Ti!free_array_size
Bytes(len) == Ti!HeaderBytes(len)
Needed(len) == Ti!encode_len_with_header(len)

(* No request comes so close to the largest size_t that what tiny.c adds to*)
(* it, which nothing checks, wraps.                                        *)
TinyFits == \A n \in TinyAsked : TinySize + 2 * Word + n <= Modulus

LEMMA TinyConstants ==
    /\ TinySize \in Nat /\ Word \in Nat \ {0} /\ FirstBits \in Nat \ {0}
    /\ MidBits \in Nat \ {0, 1} /\ MaxCached \in Nat \ {0, 1}
    /\ Modulus \in Nat /\ TinySize < Modulus /\ TinyAsked \subseteq 1..(Modulus - 1)
    /\ TinyStart \in Nat /\ TinyStart + 2 <= TinySize
  <1>1. /\ TinySize \in Nat /\ Word \in Nat \ {0} /\ FirstBits \in Nat \ {0}
        /\ MidBits \in Nat \ {0, 1} /\ MaxCached \in Nat \ {0, 1} /\ Granule \in Nat \ {0}
        /\ Modulus \in Nat /\ TinySize < Modulus /\ TinyAsked \subseteq 1..(Modulus - 1)
        /\ TinySize - TinySize \div Granule \in 2..TinySize
    BY BuffersAssumption DEF Ti!TinyAssumption, Ti!MIN_BLOCK_SIZE
  <1>2. TinySize \div Granule \in Nat
    BY <1>1, QuotientRange
  <1>. QED
    BY <1>1, <1>2 DEF TinyStart, Ti!free_array_size

LEMMA TinyMin == \A S : Ti!Min(S) = Min(S)
  BY Zenon DEF Ti!Min, Min

LEMMA QuotientGrows ==
    ASSUME NEW x \in Nat, NEW y \in Nat, NEW m \in Nat \ {0}
    PROVE  /\ x <= y => x \div m <= y \div m
           /\ (x + 1) \div m <= x \div m + 1
           /\ x \div m <= x
           /\ m > 1 => 1 \div m = 0
  <1>1. x <= y => x \div m <= y \div m
    <2>. DEFINE a == x \div m
                b == y \div m
    <2>1. /\ a \in Nat /\ a * m <= x /\ x < a * m + m
          /\ b \in Nat /\ b * m <= y /\ y < b * m + m
      BY QuotientRange
    <2>2. b < a => b * m + m <= a * m /\ a * m \in Nat /\ b * m \in Nat
      BY <2>1, PiecesApart
    <2>. HIDE DEF a, b
    <2>3. x <= y => a <= b
      BY <2>1, <2>2
    <2>. QED
      BY <2>3 DEF a, b
  <1>2. (x + 1) \div m <= x \div m + 1
    BY Z3
  <1>3. x \div m <= x
    BY Z3
  <1>4. m > 1 => 1 \div m = 0
    BY Z3
  <1>. QED
    BY <1>1, <1>2, <1>3, <1>4

(* The length of a number in bits.                                         *)
LEMMA AflsIs ==
    ASSUME NEW v \in Nat
    PROVE  /\ Ti!afls(v) \in 0..v /\ v < 2 ^ Ti!afls(v)
           /\ \A b \in Nat : v < 2 ^ b => Ti!afls(v) <= b
  <1>. DEFINE S == {b \in Nat : v < 2 ^ b}
  <1>1. v \in S
    BY PowerPositive
  <1>2. PICK a \in S : \A b \in S : a <= b
    BY <1>1, HasLeast
  <1>3. a \in 0..v
    BY <1>1, <1>2
  <1>4. v < 2 ^ a /\ (a > 0 => v >= 2 ^ (a - 1))
    <2>1. a > 0 => a - 1 \in Nat /\ a - 1 \notin S
      BY <1>2
    <2>2. a > 0 => 2 ^ (a - 1) \in Nat
      BY <2>1, PowerNext
    <2>. QED
      BY <1>2, <2>1, <2>2
  <1>. DEFINE w == Ti!afls(v)
  <1>5. w \in 0..v /\ v < 2 ^ w /\ (w > 0 => v >= 2 ^ (w - 1))
    <2>1. \E b \in 0..v : v < 2 ^ b /\ (b > 0 => v >= 2 ^ (b - 1))
      BY <1>3, <1>4
    <2>. QED
      BY <2>1, Zenon DEF Ti!afls
  <1>. HIDE DEF w
  <1>6. ASSUME NEW b \in Nat, v < 2 ^ b
        PROVE  w <= b
    <2>. SUFFICES ASSUME b < w
                  PROVE  FALSE
      BY <1>5
    <2>1. w - 1 \in Nat /\ b <= w - 1 /\ v >= 2 ^ (w - 1)
      BY <1>5
    <2>2. 2 ^ b <= 2 ^ (w - 1) /\ 2 ^ b \in Nat /\ 2 ^ (w - 1) \in Nat
      BY <2>1, PowersGrow, PowerNext
    <2>. QED
      BY <1>6, <2>1, <2>2
  <1>. QED
    BY <1>5, <1>6 DEF w

LEMMA AflsGrows ==
    ASSUME NEW v \in Nat, NEW w \in Nat
    PROVE  /\ v <= w => Ti!afls(v) <= Ti!afls(w)
           /\ Ti!afls(v + 1) <= Ti!afls(v) + 1
  <1>. DEFINE a == Ti!afls(v)
              b == Ti!afls(w)
  <1>1. a \in Nat /\ b \in Nat /\ v < 2 ^ a /\ w < 2 ^ b
    BY AflsIs
  <1>2. 2 ^ a \in Nat /\ 2 ^ b \in Nat /\ 2 ^ (a + 1) = 2 * 2 ^ a
    BY <1>1, PowerNext
  <1>3. v <= w => v < 2 ^ b
    BY <1>1, <1>2
  <1>4. v + 1 < 2 ^ (a + 1) /\ v + 1 \in Nat /\ a + 1 \in Nat
    BY <1>1, <1>2
  <1>5. Ti!afls(v + 1) <= a + 1
    BY <1>4, AflsIs
  <1>. QED
    BY <1>1, <1>3, <1>5, AflsIs

(* A longer number never takes fewer bytes, and the next one takes at most *)
(* one more.                                                               *)
LEMMA EncodedGrows ==
    ASSUME NEW v \in Nat, NEW w \in Nat
    PROVE  /\ Ti!encode_length(v) \in Nat \ {0}
           /\ v <= w => Ti!encode_length(v) <= Ti!encode_length(w)
           /\ Ti!encode_length(v + 1) <= Ti!encode_length(v) + 1
           /\ Ti!encode_length(v) <= Ti!afls(v) + 1
  <1>. DEFINE E(a) == IF a <= FirstBits THEN 1 ELSE 2 + (a - FirstBits) \div MidBits
  <1>1. \A x : Ti!encode_length(x) = E(Ti!afls(x))
    BY DEF Ti!encode_length
  <1>2. FirstBits \in Nat \ {0} /\ MidBits \in Nat \ {0} /\ MidBits > 1
    BY TinyConstants
  <1>3. ASSUME NEW a \in Nat
        PROVE  /\ E(a) \in Nat \ {0} /\ E(a + 1) <= E(a) + 1 /\ E(a) <= a + 1
               /\ \A b \in Nat : a <= b => E(a) <= E(b)
    <2>1. CASE a <= FirstBits
      <3>1. E(a) = 1
        BY <2>1
      <3>2. \A b \in Nat : b > FirstBits => (b - FirstBits) \div MidBits \in Nat
        BY <1>2, QuotientRange
      <3>3. \A b \in Nat : E(b) \in Nat \ {0} /\ E(b) >= 1
        BY <1>2, <3>2
      <3>4. E(a + 1) <= 2
        <4>1. CASE a + 1 <= FirstBits
          BY <4>1
        <4>2. CASE ~ (a + 1 <= FirstBits)
          <5>1. (a + 1) - FirstBits = 1
            BY <1>2, <2>1, <4>2
          <5>2. ((a + 1) - FirstBits) \div MidBits = 0
            BY <1>2, <5>1, QuotientGrows
          <5>. QED
            BY <4>2, <5>2
        <4>. QED
          BY <4>1, <4>2
      <3>. QED
        BY <3>1, <3>3, <3>4
    <2>2. CASE ~ (a <= FirstBits)
      <3>. DEFINE x == a - FirstBits
      <3>1. x \in Nat /\ x <= a - 1 /\ (a + 1) - FirstBits = x + 1
        BY <1>2, <2>2
      <3>2. /\ x \div MidBits \in Nat /\ (x + 1) \div MidBits <= x \div MidBits + 1
            /\ x \div MidBits <= x /\ (x + 1) \div MidBits \in Nat
        BY <1>2, <3>1, QuotientRange, QuotientGrows
      <3>3. E(a) = 2 + x \div MidBits /\ E(a + 1) = 2 + (x + 1) \div MidBits
        BY <1>2, <2>2, <3>1
      <3>4. ASSUME NEW b \in Nat, a <= b
            PROVE  E(a) <= E(b)
        <4>. DEFINE y == b - FirstBits
        <4>1. y \in Nat /\ x <= y /\ ~ (b <= FirstBits)
          BY <1>2, <2>2, <3>4
        <4>2. x \div MidBits <= y \div MidBits /\ y \div MidBits \in Nat
          BY <1>2, <3>1, <4>1, QuotientRange, QuotientGrows
        <4>3. E(b) = 2 + y \div MidBits
          BY <4>1
        <4>. HIDE DEF E, x, y
        <4>. QED
          BY <3>2, <3>3, <4>2, <4>3
      <3>5. E(a) \in Nat \ {0} /\ E(a + 1) <= E(a) + 1 /\ E(a) <= a + 1
        <4>. DEFINE p == x \div MidBits
                    q == (x + 1) \div MidBits
        <4>. HIDE DEF E, x, p, q
        <4>1. p \in Nat /\ q \in Nat /\ q <= p + 1 /\ p <= x /\ E(a) = 2 + p /\ E(a + 1) = 2 + q
          BY <3>2, <3>3 DEF p, q
        <4>2. x \in Nat /\ x <= a - 1
          BY <3>1
        <4>. QED
          BY <4>1, <4>2
      <3>. HIDE DEF E
      <3>. QED
        BY <3>4, <3>5
    <2>. HIDE DEF E
    <2>. QED
      BY <2>1, <2>2
  <1>. HIDE DEF E
  <1>4. /\ Ti!afls(v) \in Nat /\ Ti!afls(w) \in Nat /\ Ti!afls(v + 1) \in Nat
        /\ v <= w => Ti!afls(v) <= Ti!afls(w)
        /\ Ti!afls(v + 1) <= Ti!afls(v) + 1
    <2>1. v + 1 \in Nat
      OBVIOUS
    <2>2. Ti!afls(v) \in Nat /\ Ti!afls(w) \in Nat
      BY AflsIs
    <2>3. Ti!afls(v + 1) \in Nat
      BY <2>1, AflsIs
    <2>. QED
      BY <2>2, <2>3, AflsGrows
  <1>5. E(Ti!afls(v + 1)) <= E(Ti!afls(v) + 1)
    <2>1. Ti!afls(v) + 1 \in Nat
      BY <1>4
    <2>. QED
      BY <1>3, <1>4, <2>1
  <1>6. /\ E(Ti!afls(v)) \in Nat \ {0} /\ E(Ti!afls(v)) <= Ti!afls(v) + 1
        /\ E(Ti!afls(v) + 1) <= E(Ti!afls(v)) + 1
        /\ v <= w => E(Ti!afls(v)) <= E(Ti!afls(w))
    BY <1>3, <1>4
  <1>7. E(Ti!afls(v + 1)) \in Nat /\ E(Ti!afls(v) + 1) \in Nat
    <2>1. Ti!afls(v) + 1 \in Nat
      BY <1>4
    <2>. QED
      BY <1>3, <1>4, <2>1
  <1>. QED
    BY <1>1, <1>5, <1>6, <1>7

LEMMA BytesGrow ==
    ASSUME NEW x \in Nat, x >= 2, NEW y \in Nat, x <= y
    PROVE  /\ Bytes(x) \in Nat \ {0} /\ Bytes(y) \in Nat \ {0} /\ Bytes(x) <= Bytes(y)
           /\ Bytes(x + 1) \in Nat /\ Bytes(x + 1) <= Bytes(x) + 1
  <1>1. x - 2 \in Nat /\ y - 2 \in Nat /\ x - 2 <= y - 2 /\ (x + 1) - 2 = (x - 2) + 1
        /\ (x - 2) + 1 \in Nat
    OBVIOUS
  <1>2. \A z : Bytes(z) = Ti!encode_length(z - 2)
    BY DEF Bytes, Ti!HeaderBytes, Ti!MIN_BLOCK_SIZE
  <1>. QED
    BY <1>1, <1>2, EncodedGrows

(* The loop of encode_len_with_header ends, with the shortest header whose *)
(* own bytes fit the length it encodes.                                    *)
LEMMA NeededIs ==
    ASSUME NEW len \in Nat \ {0}
    PROVE  /\ Needed(len) \in Nat \ {0} /\ Needed(len) <= len + 1
           /\ Bytes(len + Needed(len)) = Needed(len)
           /\ \A k \in Nat \ {0} : k < Needed(len) => Bytes(len + k) > k
  <1>. DEFINE S == {h \in Nat \ {0} : Bytes(len + h) <= h}
  <1>1. \A h \in Nat \ {0} : /\ len + h \in Nat /\ len + h >= 2
                             /\ Bytes(len + h) \in Nat \ {0}
    <2>1. \A h \in Nat \ {0} : len + h \in Nat /\ len + h >= 2
      OBVIOUS
    <2>. QED
      BY <2>1, BytesGrow
  <1>2. len + 1 \in S
    <2>1. Bytes(len + (len + 1)) <= Ti!afls(2 * len - 1) + 1
      <3>1. len + (len + 1) - 2 = 2 * len - 1 /\ 2 * len - 1 \in Nat
        OBVIOUS
      <3>. QED
        BY <3>1, EncodedGrows DEF Bytes, Ti!HeaderBytes, Ti!MIN_BLOCK_SIZE
    <2>2. 2 * len - 1 < 2 ^ len
      <3>1. len - 1 \in Nat /\ len = (len - 1) + 1
        OBVIOUS
      <3>2. len - 1 < 2 ^ (len - 1) /\ 2 ^ (len - 1) \in Nat
        BY <3>1, PowerPositive
      <3>3. 2 ^ len = 2 * 2 ^ (len - 1)
        BY <3>1, PowerNext
      <3>. QED
        BY <3>2, <3>3
    <2>3. Ti!afls(2 * len - 1) <= len /\ Ti!afls(2 * len - 1) \in Nat
      <3>1. 2 * len - 1 \in Nat
        OBVIOUS
      <3>. QED
        BY <2>2, <3>1, AflsIs
    <2>4. Bytes(len + (len + 1)) \in Nat
      BY <1>1
    <2>5. Bytes(len + (len + 1)) <= len + 1
      BY <2>1, <2>3, <2>4
    <2>. QED
      BY <2>5
  <1>3. PICK e \in S : \A h \in S : e <= h
    <2>1. S \in SUBSET Nat /\ S # {}
      BY <1>2
    <2>. HIDE DEF S
    <2>. QED
      BY <2>1, HasLeast
  <1>4. e \in Nat \ {0} /\ e <= len + 1 /\ Bytes(len + e) <= e
    BY <1>2, <1>3
  <1>5. \A k \in Nat \ {0} : k < e => Bytes(len + k) > k
    <2>. SUFFICES ASSUME NEW k \in Nat \ {0}, k < e, ~ (Bytes(len + k) > k)
                  PROVE  FALSE
      OBVIOUS
    <2>1. Bytes(len + k) \in Nat
      BY <1>1
    <2>2. k \in S
      BY <2>1
    <2>. QED
      BY <1>3, <2>2
  <1>6. Bytes(len + e) = e
    <2>1. CASE e = 1
      <3>1. Bytes(len + e) \in Nat \ {0}
        BY <1>1, <1>4
      <3>. QED
        BY <1>4, <2>1, <3>1
    <2>2. CASE e # 1
      <3>1. e - 1 \in Nat \ {0} /\ e - 1 < e
        BY <1>4, <2>2
      <3>2. Bytes(len + (e - 1)) > e - 1 /\ Bytes(len + (e - 1)) \in Nat
        BY <1>1, <1>5, <3>1
      <3>3. len + (e - 1) \in Nat /\ len + (e - 1) >= 2 /\ len + (e - 1) <= len + e
            /\ len + e \in Nat
        BY <1>4, <3>1
      <3>4. Bytes(len + (e - 1)) <= Bytes(len + e) /\ Bytes(len + e) \in Nat
        BY <3>3, BytesGrow
      <3>. QED
        BY <1>4, <3>1, <3>2, <3>4
    <2>. QED
      BY <2>1, <2>2
  <1>. DEFINE w == Ti!encode_len_with_header(len)
  <1>7. /\ w \in 1..(len + 1) /\ Bytes(len + w) = w
        /\ \A k \in 1..(w - 1) : Bytes(len + k) # k
    <2>1. \E h \in 1..(len + 1) : /\ Ti!HeaderBytes(len + h) = h
                                  /\ \A k \in 1..(h - 1) : Ti!HeaderBytes(len + k) # k
      <3>1. e \in 1..(len + 1)
        BY <1>4
      <3>2. \A k \in 1..(e - 1) : Bytes(len + k) # k
        <4>. SUFFICES ASSUME NEW k \in 1..(e - 1)
                      PROVE  Bytes(len + k) # k
          OBVIOUS
        <4>1. k \in Nat \ {0} /\ k < e
          BY <1>4
        <4>2. Bytes(len + k) > k /\ Bytes(len + k) \in Nat
          BY <1>1, <1>5, <4>1
        <4>. QED
          BY <4>1, <4>2
      <3>. QED
        BY <1>6, <3>1, <3>2 DEF Bytes
    <2>. QED
      BY <2>1, Zenon DEF Ti!encode_len_with_header, Bytes
  <1>. HIDE DEF w
  <1>8. w = e
    <2>1. w \in Nat \ {0}
      BY <1>7
    <2>2. ~ (w < e)
      BY <1>5, <1>7, <2>1
    <2>3. ~ (e < w)
      <3>. SUFFICES ASSUME e < w
                    PROVE  FALSE
        OBVIOUS
      <3>1. e \in 1..(w - 1)
        BY <1>4, <2>1
      <3>. QED
        BY <1>6, <1>7, <3>1
    <2>. QED
      BY <1>4, <2>1, <2>2, <2>3
  <1>. QED
    BY <1>4, <1>5, <1>6, <1>8 DEF Needed, w

LEMMA NeededGrows ==
    ASSUME NEW x \in Nat \ {0}, NEW y \in Nat, x <= y
    PROVE  Needed(x) <= Needed(y)
  <1>. DEFINE e == Needed(x)
              f == Needed(y)
  <1>1. /\ e \in Nat \ {0} /\ \A k \in Nat \ {0} : k < e => Bytes(x + k) > k
        /\ f \in Nat \ {0} /\ Bytes(y + f) = f
    BY NeededIs
  <1>. HIDE DEF e, f
  <1>2. x + f \in Nat /\ x + f >= 2 /\ y + f \in Nat /\ x + f <= y + f
    BY <1>1
  <1>3. Bytes(x + f) <= Bytes(y + f) /\ Bytes(x + f) \in Nat
    BY <1>2, BytesGrow
  <1>4. ~ (f < e)
    BY <1>1, <1>3
  <1>. QED
    BY <1>1, <1>4 DEF e, f

LEMMA Aligned ==
    ASSUME NEW x \in Nat, NEW y \in Nat
    PROVE  /\ Ti!AlignedUp(x) \in Nat /\ Ti!AlignedUp(x) >= x
           /\ Ti!AlignedUp(x) <= x + Word - 1
           /\ Ti!AlignedDown(y) \in Nat /\ Ti!AlignedDown(y) <= y
           /\ Ti!AlignedDown(y) % Word = 0
           /\ Ti!AlignedUp(x) <= y => Ti!AlignedUp(x) <= Ti!AlignedDown(y)
  <1>. DEFINE p == (x + Word - 1) \div Word
              q == y \div Word
  <1>1. Word \in Nat \ {0} /\ x + Word - 1 \in Nat
    BY TinyConstants
  <1>2. /\ p \in Nat /\ p * Word <= x + Word - 1 /\ x + Word - 1 < p * Word + Word
        /\ q \in Nat /\ q * Word <= y /\ y < q * Word + Word
    BY <1>1, QuotientRange
  <1>3. p * Word \in Nat /\ q * Word \in Nat /\ (q * Word) % Word = 0
    <2>. HIDE DEF p, q
    <2>. QED
      BY <1>1, <1>2, Z3
  <1>4. p * Word <= y => p <= q
    <2>1. q < p => q * Word + Word <= p * Word
      BY <1>1, <1>2, PiecesApart
    <2>. HIDE DEF p, q
    <2>. QED
      BY <1>1, <1>2, <1>3, <2>1
  <1>5. p <= q => p * Word <= q * Word
    <2>1. p < q => p * Word + Word <= q * Word
      BY <1>1, <1>2, PiecesApart
    <2>. HIDE DEF p, q
    <2>. QED
      BY <1>1, <1>2, <1>3, <2>1
  <1>6. Ti!AlignedUp(x) = p * Word /\ Ti!AlignedDown(y) = q * Word
    BY DEF Ti!AlignedUp, Ti!AlignedDown
  <1>. HIDE DEF p, q
  <1>. QED
    BY <1>1, <1>2, <1>3, <1>4, <1>5, <1>6

(* No sum of long_enough wraps for a size that is not next to Modulus.     *)
Unwrapped(size) == TinySize + Word + size < Modulus

LEMMA LongEnoughIs ==
    ASSUME NEW off \in Nat, NEW len \in Nat \ {0}, off + len <= TinySize,
           NEW size \in Nat, Unwrapped(size)
    PROVE  Ti!long_enough(off, len, size)
               <=> Ti!AlignedUp(off + Needed(len)) + size <= off + len
  <1>. DEFINE up == Ti!AlignedUp(off + Needed(len))
  <1>1. Word \in Nat \ {0} /\ TinySize \in Nat /\ Modulus \in Nat
        /\ TinySize + Word + size < Modulus
    BY TinyConstants DEF Unwrapped
  <1>2. Needed(len) \in Nat \ {0} /\ Needed(len) <= len + 1
    BY NeededIs
  <1>3. off + Needed(len) \in Nat
    BY <1>2
  <1>4. up \in Nat /\ up <= off + Needed(len) + Word - 1
    BY <1>3, Aligned
  <1>5. Ti!long_enough(off, len, size) <=> (up + size) % Modulus <= off + len
    BY DEF Ti!long_enough, Needed
  <1>. HIDE DEF up
  <1>6. up + size \in Nat /\ up + size < Modulus /\ Modulus \in Nat \ {0}
    BY <1>1, <1>2, <1>4
  <1>7. (up + size) % Modulus = up + size
    BY <1>6, SmallRemainder
  <1>8. Ti!long_enough(off, len, size) <=> up + size <= off + len
    BY <1>5, <1>7
  <1>. QED
    BY <1>8 DEF up

(* A block that is long enough has room, at its far end, for the bytes     *)
(* asked for and, in front of them, a header of the length these take;     *)
(* also when the byte left over in front is given to the block.            *)
LEMMA RoomAtEnd ==
    ASSUME NEW off \in Nat, NEW len \in Nat \ {0}, NEW size \in Nat \ {0},
           off + len <= TinySize, Unwrapped(size), Ti!long_enough(off, len, size),
           NEW end, end = off + len,
           NEW at, at = Ti!AlignedDown(end - size),
           NEW hdr, hdr = at - Needed(end - at)
    PROVE  /\ at \in Nat /\ at % Word = 0 /\ at + size <= end
           /\ hdr \in Nat /\ off <= hdr /\ hdr < at /\ hdr + 2 <= end
           /\ hdr + Bytes(end - hdr) <= at
           /\ hdr < off + 2 => off + Bytes(len) <= at
  <1>. DEFINE up == Ti!AlignedUp(off + Needed(len))
  <1>1. Needed(len) \in Nat \ {0} /\ off + Needed(len) \in Nat
    BY NeededIs
  <1>2. up + size <= end
    BY LongEnoughIs
  <1>3. up \in Nat /\ up >= off + Needed(len)
    BY <1>1, Aligned
  <1>. HIDE DEF up
  <1>4. end \in Nat /\ end - size \in Nat /\ up <= end - size
    BY <1>2, <1>3
  <1>5. at \in Nat /\ at <= end - size /\ at % Word = 0 /\ up <= at
    BY <1>1, <1>4, Aligned DEF up
  <1>. DEFINE n == end - at
  <1>6. n \in Nat \ {0} /\ n <= len
    BY <1>1, <1>3, <1>4, <1>5
  <1>7. /\ Needed(n) \in Nat \ {0} /\ Needed(n) <= Needed(len)
        /\ Bytes(n + Needed(n)) = Needed(n)
    BY <1>6, NeededIs, NeededGrows
  <1>8. hdr = at - Needed(n)
    OBVIOUS
  <1>. HIDE DEF n
  <1>9. hdr \in Nat /\ off <= hdr /\ hdr < at
    BY <1>1, <1>3, <1>5, <1>7, <1>8
  <1>10. end - hdr = n + Needed(n) /\ end - hdr >= 2 /\ end - hdr \in Nat
    BY <1>4, <1>5, <1>6, <1>7, <1>8 DEF n
  <1>11. hdr + Bytes(end - hdr) = at
    BY <1>7, <1>8, <1>10, <1>5
  <1>12. hdr < off + 2 => off + Bytes(len) <= at
    <2>1. CASE hdr = off
      <3>1. len = end - hdr
        BY <2>1
      <3>. QED
        BY <1>11, <2>1, <3>1, <1>5
    <2>2. CASE hdr = off + 1
      <3>1. len = (end - hdr) + 1
        BY <2>2
      <3>2. Bytes(len) \in Nat /\ Bytes(len) <= Bytes(end - hdr) + 1 /\ Bytes(end - hdr) \in Nat
        BY <1>10, <3>1, BytesGrow
      <3>. QED
        BY <1>5, <1>11, <2>2, <3>2
    <2>. QED
      BY <1>9, <2>1, <2>2
  <1>. QED
    BY <1>4, <1>5, <1>9, <1>10, <1>11, <1>12

------------------------------------------------------------------------------
(* Blocks cover what is behind the free array, each byte once.             *)
TinyBlock == [len : Nat, free : BOOLEAN]

CutUp(bs) ==
    /\ DOMAIN bs \subseteq Nat /\ bs \in [DOMAIN bs -> TinyBlock]
    /\ TinyStart \in DOMAIN bs
    /\ \A o \in DOMAIN bs :
          /\ TinyStart <= o /\ bs[o].len >= 2
          /\ o + bs[o].len \in DOMAIN bs \cup {TinySize} /\ o + bs[o].len <= TinySize
          /\ \A q \in DOMAIN bs : o < q => o + bs[o].len <= q

LEMMA CutAt ==
    ASSUME NEW bs, CutUp(bs), NEW o \in DOMAIN bs
    PROVE  /\ o \in Nat /\ bs[o] \in TinyBlock /\ bs[o].len \in Nat /\ bs[o].len >= 2
           /\ bs[o].free \in BOOLEAN /\ TinyStart <= o
           /\ bs[o] = [len |-> bs[o].len, free |-> bs[o].free]
           /\ o + bs[o].len \in DOMAIN bs \cup {TinySize} /\ o + bs[o].len <= TinySize
           /\ \A q \in DOMAIN bs : o < q => o + bs[o].len <= q
  <1>1. bs[o] \in TinyBlock
    BY DEF CutUp
  <1>. QED
    BY <1>1 DEF CutUp, TinyBlock

LEMMA TinyWithDomain ==
    ASSUME NEW f, NEW x, NEW v
    PROVE  DOMAIN Ti!With(f, x, v) = DOMAIN f \cup {x}
  BY DEF Ti!With

LEMMA TinyWithNew ==
    ASSUME NEW f, NEW x, NEW v
    PROVE  Ti!With(f, x, v)[x] = v
  BY DEF Ti!With

LEMMA TinyWithOld ==
    ASSUME NEW f, NEW x, NEW v, NEW y \in DOMAIN f, y # x
    PROVE  Ti!With(f, x, v)[y] = f[y]
  BY DEF Ti!With

(* bs is cs, but block off ends at hdr, where a used one begins.           *)
Split(cs, bs, off, hdr) ==
    /\ DOMAIN bs = DOMAIN cs \cup {hdr} /\ hdr \notin DOMAIN cs
    /\ bs \in [DOMAIN bs -> TinyBlock]
    /\ bs[off].len = hdr - off /\ bs[off].free = cs[off].free
    /\ bs[hdr].len = (off + cs[off].len) - hdr /\ bs[hdr].free = FALSE
    /\ \A o \in DOMAIN cs : o # off => bs[o] = cs[o]

LEMMA SplitShape ==
    ASSUME NEW cs, CutUp(cs), NEW off \in DOMAIN cs, NEW hdr \in Nat,
           off + 2 <= hdr, NEW end, end = off + cs[off].len, hdr + 2 <= end,
           NEW bs, bs = Ti!With([cs EXCEPT ![off].len = hdr - off], hdr,
                                [len |-> end - hdr, free |-> FALSE])
    PROVE  Split(cs, bs, off, hdr)
  <1>. DEFINE f == [cs EXCEPT ![off].len = hdr - off]
              v == [len |-> end - hdr, free |-> FALSE]
              w == [len |-> hdr - off, free |-> cs[off].free]
  <1>1. /\ off \in Nat /\ cs[off].len \in Nat /\ cs[off].free \in BOOLEAN
        /\ cs[off] = [len |-> cs[off].len, free |-> cs[off].free]
        /\ \A q \in DOMAIN cs : off < q => end <= q
    BY CutAt
  <1>2. hdr \notin DOMAIN cs /\ hdr # off
    BY <1>1
  <1>3. DOMAIN f = DOMAIN cs /\ \A o \in DOMAIN cs : o # off => f[o] = cs[o]
    OBVIOUS
  <1>4. f[off] = w
    BY <1>1
  <1>5. hdr - off \in Nat /\ end - hdr \in Nat
    BY <1>1
  <1>6. /\ v \in TinyBlock /\ v.len = end - hdr /\ v.free = FALSE
        /\ w \in TinyBlock /\ w.len = hdr - off /\ w.free = cs[off].free
    <2>1. v.len = end - hdr /\ v.free = FALSE /\ w.len = hdr - off /\ w.free = cs[off].free
      OBVIOUS
    <2>2. v \in TinyBlock
      BY <1>5 DEF TinyBlock
    <2>3. w \in TinyBlock
      BY <1>1, <1>5 DEF TinyBlock
    <2>. HIDE DEF v, w
    <2>. QED
      BY <2>1, <2>2, <2>3
  <1>7. bs = Ti!With(f, hdr, v)
    OBVIOUS
  <1>. HIDE DEF f, v, w
  <1>8. /\ DOMAIN bs = DOMAIN cs \cup {hdr} /\ bs[hdr] = v
        /\ \A o \in DOMAIN cs : bs[o] = f[o]
        /\ bs = [o \in DOMAIN cs \cup {hdr} |-> bs[o]]
    <2>1. DOMAIN bs = DOMAIN f \cup {hdr}
      BY <1>7, TinyWithDomain
    <2>2. bs[hdr] = v
      BY <1>7, TinyWithNew
    <2>3. \A o \in DOMAIN f : o # hdr => bs[o] = f[o]
      BY <1>7, TinyWithOld
    <2>4. bs = [o \in DOMAIN f \cup {hdr} |-> bs[o]]
      BY <1>7 DEF Ti!With
    <2>. QED
      BY <1>2, <1>3, <2>1, <2>2, <2>3, <2>4
  <1>9. \A o \in DOMAIN cs : cs[o] \in TinyBlock
    BY CutAt
  <1>10. \A o \in DOMAIN bs : bs[o] \in TinyBlock
    <2>1. bs[hdr] \in TinyBlock
      BY <1>6, <1>8
    <2>2. off \in DOMAIN cs /\ bs[off] \in TinyBlock
      BY <1>4, <1>6, <1>8
    <2>3. \A o \in DOMAIN cs : o # off => bs[o] \in TinyBlock
      BY <1>3, <1>8, <1>9
    <2>. QED
      BY <1>8, <2>1, <2>2, <2>3
  <1>11. bs \in [DOMAIN bs -> TinyBlock]
    BY <1>8, <1>10
  <1>. QED
    BY <1>2, <1>3, <1>4, <1>6, <1>8, <1>11 DEF Split

LEMMA SplitCut ==
    ASSUME NEW cs, CutUp(cs), NEW off \in DOMAIN cs, NEW hdr \in Nat,
           off + 2 <= hdr, hdr + 2 <= off + cs[off].len, NEW bs, Split(cs, bs, off, hdr)
    PROVE  CutUp(bs)
  <1>. DEFINE end == off + cs[off].len
  <1>1. /\ off \in Nat /\ cs[off].len \in Nat /\ TinyStart <= off
        /\ end \in DOMAIN cs \cup {TinySize} /\ end <= TinySize
        /\ \A q \in DOMAIN cs : off < q => end <= q
        /\ TinyStart \in DOMAIN cs /\ TinyStart \in Nat /\ TinySize \in Nat
    BY CutAt, TinyConstants DEF CutUp
  <1>2. /\ bs[off].len = hdr - off /\ bs[hdr].len = end - hdr
        /\ \A o \in DOMAIN cs : o # off => bs[o].len = cs[o].len
        /\ DOMAIN bs = DOMAIN cs \cup {hdr} /\ hdr \notin DOMAIN cs
    BY DEF Split
  <1>3. \A o \in DOMAIN cs : /\ o \in Nat /\ TinyStart <= o /\ cs[o].len \in Nat
                             /\ cs[o].len >= 2
                             /\ o + cs[o].len \in DOMAIN cs \cup {TinySize}
                             /\ o + cs[o].len <= TinySize
                             /\ \A q \in DOMAIN cs : o < q => o + cs[o].len <= q
    BY CutAt
  <1>. HIDE DEF end
  <1>4. hdr + 2 <= end /\ end \in Nat
    BY <1>1 DEF end
  <1>5. ASSUME NEW o \in DOMAIN bs
        PROVE  /\ TinyStart <= o /\ bs[o].len >= 2
               /\ o + bs[o].len \in DOMAIN bs \cup {TinySize} /\ o + bs[o].len <= TinySize
               /\ \A q \in DOMAIN bs : o < q => o + bs[o].len <= q
    <2>1. CASE o = off
      <3>1. o + bs[o].len = hdr
        BY <1>1, <1>2, <2>1
      <3>2. \A q \in DOMAIN bs : off < q => hdr <= q
        BY <1>1, <1>2, <1>3, <1>4
      <3>. QED
        BY <1>1, <1>2, <1>4, <2>1, <3>1, <3>2
    <2>2. CASE o = hdr
      <3>1. o + bs[o].len = end
        BY <1>1, <1>2, <1>4, <2>2
      <3>2. \A q \in DOMAIN bs : hdr < q => end <= q
        BY <1>1, <1>2, <1>3, <1>4
      <3>. QED
        BY <1>1, <1>2, <1>4, <2>2, <3>1, <3>2
    <2>3. CASE o # off /\ o # hdr
      <3>1. o \in DOMAIN cs /\ bs[o].len = cs[o].len
        BY <1>2, <2>3
      <3>2. o < hdr => o + cs[o].len <= hdr
        <4>1. o < off => o + cs[o].len <= off
          BY <1>3, <3>1
        <4>2. ~ (off < o /\ o < end)
          BY <1>1, <1>3, <1>4, <3>1
        <4>. QED
          BY <1>1, <1>3, <1>4, <2>3, <3>1, <4>1, <4>2
      <3>. QED
        BY <1>2, <1>3, <3>1, <3>2
    <2>. QED
      BY <2>1, <2>2, <2>3
  <1>6. DOMAIN bs \subseteq Nat /\ bs \in [DOMAIN bs -> TinyBlock] /\ TinyStart \in DOMAIN bs
    <2>1. bs \in [DOMAIN bs -> TinyBlock]
      BY DEF Split
    <2>. QED
      BY <1>1, <1>2, <1>3, <2>1
  <1>. QED
    BY <1>5, <1>6 DEF CutUp

LEMMA FlagCut ==
    ASSUME NEW cs, CutUp(cs), NEW off \in DOMAIN cs, NEW free \in BOOLEAN,
           NEW bs, bs = [cs EXCEPT ![off].free = free]
    PROVE  /\ CutUp(bs) /\ DOMAIN bs = DOMAIN cs
           /\ bs[off] = [len |-> cs[off].len, free |-> free]
           /\ \A o \in DOMAIN cs : o # off => bs[o] = cs[o]
           /\ \A o \in DOMAIN cs : bs[o].len = cs[o].len
  <1>1. \A o \in DOMAIN cs : cs[o] \in TinyBlock
    BY CutAt
  <1>2. DOMAIN bs = DOMAIN cs /\ \A o \in DOMAIN cs : o # off => bs[o] = cs[o]
    OBVIOUS
  <1>3. bs[off] = [len |-> cs[off].len, free |-> free]
    BY CutAt
  <1>4. \A o \in DOMAIN cs : bs[o].len = cs[o].len
    BY <1>2, <1>3
  <1>5. \A o \in DOMAIN cs : bs[o] \in TinyBlock
    <2>1. bs[off] \in TinyBlock
      BY <1>3, CutAt DEF TinyBlock
    <2>. QED
      BY <1>1, <1>2, <2>1
  <1>6. bs = [o \in DOMAIN cs |-> bs[o]]
    OBVIOUS
  <1>7. bs \in [DOMAIN bs -> TinyBlock]
    BY <1>2, <1>5, <1>6
  <1>8. CutUp(bs)
    BY <1>2, <1>4, <1>7 DEF CutUp
  <1>. QED
    BY <1>2, <1>3, <1>4, <1>8

(* A byte behind the free array is in one block only.                      *)
LEMMA OneBlock ==
    ASSUME NEW bs, CutUp(bs), NEW o \in DOMAIN bs, NEW q \in DOMAIN bs, NEW x \in Nat,
           o <= x, x < o + bs[o].len, q <= x, x < q + bs[q].len
    PROVE  o = q
  <1>1. /\ o \in Nat /\ q \in Nat /\ bs[o].len \in Nat /\ bs[q].len \in Nat
        /\ o < q => o + bs[o].len <= q
        /\ q < o => q + bs[q].len <= o
    BY CutAt
  <1>. QED
    BY <1>1

------------------------------------------------------------------------------
(* The free array holds free blocks of bs, in the buckets of their lengths,*)
(* and none of them twice.                                                 *)
Cached(bs, c) ==
    /\ c \in [Ti!Slots -> Nat]
    /\ \A f \in Ti!Slots : c[f] # 0 =>
          /\ c[f] \in DOMAIN bs /\ bs[c[f]].free /\ bs[c[f]].len < MaxCached
          /\ f % Ti!Buckets = Ti!free_array_off(bs[c[f]].len)
    /\ \A f, g \in Ti!Slots : f # g /\ c[f] # 0 => c[f] # c[g]

LEMMA CachedAt ==
    ASSUME NEW bs, NEW c, Cached(bs, c), NEW f \in Ti!Slots, c[f] # 0
    PROVE  /\ c[f] \in DOMAIN bs /\ bs[c[f]].free /\ bs[c[f]].len < MaxCached
           /\ f % Ti!Buckets = Ti!free_array_off(bs[c[f]].len)
           /\ \A g \in Ti!Slots : g # f => c[g] # c[f]
  BY DEF Cached

LEMMA EmptyCached ==
    ASSUME NEW bs
    PROVE  Cached(bs, Ti!EmptyCache)
  BY DEF Cached, Ti!EmptyCache

(* Entries may refer to other blocks as long as theirs stay what they are. *)
LEMMA CachedKept ==
    ASSUME NEW bs, NEW c, Cached(bs, c), NEW cs,
           \A f \in Ti!Slots : c[f] # 0 => c[f] \in DOMAIN cs /\ cs[c[f]] = bs[c[f]]
    PROVE  Cached(cs, c)
  <1>1. c \in [Ti!Slots -> Nat] /\ \A f, g \in Ti!Slots : f # g /\ c[f] # 0 => c[f] # c[g]
    BY DEF Cached
  <1>2. ASSUME NEW f \in Ti!Slots, c[f] # 0
        PROVE  /\ c[f] \in DOMAIN cs /\ cs[c[f]].free /\ cs[c[f]].len < MaxCached
               /\ f % Ti!Buckets = Ti!free_array_off(cs[c[f]].len)
    <2>1. c[f] \in DOMAIN cs /\ cs[c[f]] = bs[c[f]]
      BY <1>2
    <2>. QED
      BY <1>2, <2>1, CachedAt
  <1>. QED
    BY <1>1, <1>2 DEF Cached

LEMMA SlotRemoved ==
    ASSUME NEW bs, NEW c, Cached(bs, c), NEW f \in Ti!Slots, c[f] # 0,
           NEW d, d = [c EXCEPT ![f] = 0]
    PROVE  Cached(bs, d) /\ \A g \in Ti!Slots : d[g] # 0 => d[g] # c[f]
  <1>1. c \in [Ti!Slots -> Nat]
    BY DEF Cached
  <1>2. d \in [Ti!Slots -> Nat] /\ d[f] = 0 /\ \A g \in Ti!Slots : g # f => d[g] = c[g]
    BY <1>1
  <1>3. \A g \in Ti!Slots : d[g] # 0 => g # f /\ d[g] = c[g] /\ c[g] # 0
    BY <1>2
  <1>4. \A g \in Ti!Slots : g # f => c[g] # c[f]
    BY CachedAt
  <1>5. \A g, h \in Ti!Slots : g # h /\ d[g] # 0 => d[g] # d[h]
    <2>. SUFFICES ASSUME NEW g \in Ti!Slots, NEW h \in Ti!Slots, g # h, d[g] # 0
                  PROVE  d[g] # d[h]
      OBVIOUS
    <2>1. c[g] # c[h]
      BY <1>3, CachedAt
    <2>. QED
      BY <1>2, <1>3, <2>1
  <1>6. ASSUME NEW g \in Ti!Slots, d[g] # 0
        PROVE  /\ d[g] \in DOMAIN bs /\ bs[d[g]].free /\ bs[d[g]].len < MaxCached
               /\ g % Ti!Buckets = Ti!free_array_off(bs[d[g]].len)
    <2>1. d[g] = c[g] /\ c[g] # 0
      BY <1>3, <1>6
    <2>. QED
      BY <2>1, CachedAt
  <1>. QED
    BY <1>2, <1>3, <1>4, <1>5, <1>6 DEF Cached

LEMMA SlotsAre == Ti!Slots \subseteq Nat
  BY TinyConstants DEF Ti!Slots, TinyStart

LEMMA AddedIs ==
    ASSUME NEW c \in [Ti!Slots -> Nat], NEW len \in Nat, NEW off \in Nat,
           NEW d, d = Ti!Added(c, len, off)
    PROVE  /\ d \in [Ti!Slots -> Nat]
           /\ \/ d = c
              \/ \E f \in Ti!Slots : /\ len < MaxCached /\ c[f] = 0
                                     /\ f % Ti!Buckets = Ti!free_array_off(len)
                                     /\ d = [c EXCEPT ![f] = off]
  <1>. DEFINE room == {f \in Ti!Slots : f % Ti!Buckets = Ti!free_array_off(len) /\ c[f] = 0}
  <1>1. CASE len >= MaxCached \/ room = {}
    <2>1. d = c
      BY <1>1 DEF Ti!Added
    <2>. QED
      BY <2>1
  <1>2. CASE ~ (len >= MaxCached \/ room = {})
    <2>1. d = [c EXCEPT ![Min(room)] = off]
      BY <1>2, TinyMin DEF Ti!Added
    <2>2. room \in SUBSET Nat /\ room # {}
      BY <1>2, SlotsAre
    <2>3. Min(room) \in room
      <3>. HIDE DEF room
      <3>. QED
        BY <2>2, MinIsLeast
    <2>4. len < MaxCached
      BY <1>2, TinyConstants
    <2>5. PICK f \in room : d = [c EXCEPT ![f] = off]
      <3>. HIDE DEF room
      <3>. QED
        BY <2>1, <2>3
    <2>6. d \in [Ti!Slots -> Nat]
      BY <2>5
    <2>. QED
      BY <2>4, <2>5, <2>6
  <1>. QED
    BY <1>1, <1>2

LEMMA AddedCached ==
    ASSUME NEW bs, CutUp(bs), NEW c, Cached(bs, c), NEW o \in DOMAIN bs, bs[o].free,
           \A f \in Ti!Slots : c[f] # 0 => c[f] # o,
           NEW d, d = Ti!Added(c, bs[o].len, o)
    PROVE  Cached(bs, d) /\ \A f \in Ti!Slots : d[f] = c[f] \/ d[f] = o
  <1>1. c \in [Ti!Slots -> Nat] /\ bs[o].len \in Nat /\ o \in Nat
    BY CutAt DEF Cached
  <1>2. CASE d = c
    BY <1>2
  <1>3. ASSUME NEW e \in Ti!Slots, bs[o].len < MaxCached, c[e] = 0,
               e % Ti!Buckets = Ti!free_array_off(bs[o].len), d = [c EXCEPT ![e] = o]
        PROVE  Cached(bs, d) /\ \A f \in Ti!Slots : d[f] = c[f] \/ d[f] = o
    <2>1. d \in [Ti!Slots -> Nat] /\ d[e] = o /\ \A f \in Ti!Slots : f # e => d[f] = c[f]
      BY <1>1, <1>3
    <2>2. ASSUME NEW f \in Ti!Slots, d[f] # 0
          PROVE  /\ d[f] \in DOMAIN bs /\ bs[d[f]].free /\ bs[d[f]].len < MaxCached
                 /\ f % Ti!Buckets = Ti!free_array_off(bs[d[f]].len)
      <3>1. CASE f = e
        BY <1>3, <2>1, <3>1
      <3>2. CASE f # e
        <4>1. d[f] = c[f] /\ c[f] # 0
          BY <2>1, <2>2, <3>2
        <4>. QED
          BY <4>1, CachedAt
      <3>. QED
        BY <3>1, <3>2
    <2>3. ASSUME NEW f \in Ti!Slots, NEW g \in Ti!Slots, f # g, d[f] # 0
          PROVE  d[f] # d[g]
      <3>1. CASE f = e
        <4>1. d[g] = c[g] /\ d[f] = o
          BY <2>1, <2>3, <3>1
        <4>. QED
          BY <2>3, <4>1
      <3>2. CASE g = e
        <4>1. d[f] = c[f] /\ c[f] # 0 /\ d[g] = o
          BY <2>1, <2>3, <3>2
        <4>. QED
          BY <4>1
      <3>3. CASE f # e /\ g # e
        <4>1. d[f] = c[f] /\ c[f] # 0 /\ d[g] = c[g]
          BY <2>1, <2>3, <3>3
        <4>. QED
          BY <2>3, <4>1, CachedAt
      <3>. QED
        BY <3>1, <3>2, <3>3
    <2>4. Cached(bs, d)
      BY <2>1, <2>2, <2>3 DEF Cached
    <2>. QED
      BY <2>1, <2>4
  <1>4. \/ d = c
        \/ \E f \in Ti!Slots : /\ bs[o].len < MaxCached /\ c[f] = 0
                               /\ f % Ti!Buckets = Ti!free_array_off(bs[o].len)
                               /\ d = [c EXCEPT ![f] = o]
    <2>. DEFINE n == bs[o].len
    <2>1. n \in Nat /\ d = Ti!Added(c, n, o)
      BY <1>1
    <2>. HIDE DEF n
    <2>2. \/ d = c
          \/ \E f \in Ti!Slots : /\ n < MaxCached /\ c[f] = 0
                                 /\ f % Ti!Buckets = Ti!free_array_off(n)
                                 /\ d = [c EXCEPT ![f] = o]
      BY <1>1, <2>1, AddedIs
    <2>. QED
      BY <2>2 DEF n
  <1>. QED
    BY <1>2, <1>3, <1>4

(* The walk up to stop caches free blocks below it only.                   *)
LEMMA WalkedCached ==
    ASSUME NEW bs, CutUp(bs), NEW stop \in 0..TinySize,
           NEW w, w = Ti!Walked(bs, Ti!EmptyCache, stop)
    PROVE  Cached(bs, w) /\ \A f \in Ti!Slots : w[f] # 0 => w[f] < stop
  <1>. DEFINE N == TinySize
              V == [Ti!Slots -> Nat]
              c == Ti!EmptyCache
              Free(o) == o \in DOMAIN bs /\ bs[o].free
              Up(o, v) == IF Free(o) THEN Ti!Added(v, bs[o].len, o) ELSE v
              G == [k \in 1..N |-> [v \in V |-> Up(k - 1, v)]]
              at[o \in 0..N] ==
                  IF o = 0 THEN c
                  ELSE IF o - 1 \in DOMAIN bs /\ bs[o - 1].free
                  THEN Ti!Added(at[o - 1], bs[o - 1].len, o - 1)
                  ELSE at[o - 1]
              body(f) == [o \in 0..N |->
                  IF o = 0 THEN c
                  ELSE IF o - 1 \in DOMAIN bs /\ bs[o - 1].free
                  THEN Ti!Added(f[o - 1], bs[o - 1].len, o - 1)
                  ELSE f[o - 1]]
  <1>1. N \in Nat
    BY TinyConstants
  <1>2. c \in V
    BY DEF Ti!EmptyCache
  <1>3. ASSUME NEW o \in Nat, NEW v \in V
        PROVE  Up(o, v) \in V
    <2>1. CASE Free(o)
      <3>1. bs[o].len \in Nat
        BY <2>1, CutAt
      <3>2. Ti!Added(v, bs[o].len, o) \in [Ti!Slots -> Nat]
        BY <3>1, AddedIs
      <3>. QED
        BY <2>1, <3>2
    <2>2. CASE ~ Free(o)
      BY <2>2
    <2>. QED
      BY <2>1, <2>2
  <1>4. G \in [1..N -> [V -> V]]
    <2>1. \A k \in 1..N : \A v \in V : Up(k - 1, v) \in V
      <3>. SUFFICES ASSUME NEW k \in 1..N, NEW v \in V
                    PROVE  Up(k - 1, v) \in V
        OBVIOUS
      <3>1. k - 1 \in Nat
        BY <1>1
      <3>. HIDE DEF Up, V, N
      <3>. QED
        BY <1>3, <3>1
    <2>. HIDE DEF V, Up, N
    <2>. QED
      BY <2>1
  <1>5. PICK f \in Ascents(N, V, c, G) : TRUE
    <2>. HIDE DEF V, c, G, N
    <2>. QED
      BY <1>1, <1>2, <1>4, AscentExists
  <1>6. /\ f \in [0..N -> V] /\ f[0] = c
        /\ \A k \in 1..N : f[k] = Up(k - 1, f[k - 1])
    <2>1. /\ f \in [0..N -> V] /\ f[0] = c
          /\ \A k \in 1..N : f[k] = G[k][f[k - 1]]
      <3>. HIDE DEF V, c, G, N
      <3>. QED
        BY <1>5 DEF Ascents
    <2>2. \A k \in 1..N : f[k - 1] \in V
      <3>. HIDE DEF V, N, c, G
      <3>. QED
        BY <1>1, <2>1
    <2>3. \A k \in 1..N : G[k][f[k - 1]] = Up(k - 1, f[k - 1])
      <3>. HIDE DEF V, N, c, Up
      <3>. QED
        BY <2>2
    <2>. QED
      BY <2>1, <2>3
  <1>7. f = body(f)
    <2>1. \A k \in 0..N : f[k] = body(f)[k]
      <3>1. f[0] = body(f)[0]
        BY <1>1, <1>6
      <3>2. ASSUME NEW k \in 1..N
            PROVE  f[k] = body(f)[k]
        <4>1. k # 0 /\ k \in 0..N
          BY <1>1
        <4>. QED
          BY <1>6, <4>1
      <3>. HIDE DEF body
      <3>. QED
        BY <1>1, <3>1, <3>2
    <2>2. DOMAIN f = 0..N /\ DOMAIN body(f) = 0..N
      BY <1>6
    <2>3. f = [k \in 0..N |-> f[k]] /\ body(f) = [k \in 0..N |-> body(f)[k]]
      BY <1>6
    <2>. HIDE DEF body
    <2>. QED
      BY <2>1, <2>3
  <1>8. at = [o \in 0..N |->
                 IF o = 0 THEN c
                 ELSE IF o - 1 \in DOMAIN bs /\ bs[o - 1].free
                 THEN Ti!Added(at[o - 1], bs[o - 1].len, o - 1)
                 ELSE at[o - 1]]
    BY <1>7
  <1>9. w = at[stop]
    BY DEF Ti!Walked
  <1>. HIDE DEF at
  <1>10. /\ at[0] = c
         /\ \A k \in Nat : k + 1 <= N => at[k + 1] = Up(k, at[k])
    <2>1. at[0] = c
      BY <1>1, <1>8
    <2>2. ASSUME NEW k \in Nat, k + 1 <= N
          PROVE  at[k + 1] = Up(k, at[k])
      <3>1. k + 1 \in 0..N /\ k + 1 # 0 /\ (k + 1) - 1 = k
        BY <1>1, <2>2
      <3>. QED
        BY <1>8, <3>1
    <2>. QED
      BY <2>1, <2>2
  <1>. DEFINE Good(k, v) == Cached(bs, v) /\ \A e \in Ti!Slots : v[e] # 0 => v[e] < k
              S == {k \in Nat : k <= N => Good(k, at[k])}
  <1>11. 0 \in S
    <2>1. \A e \in Ti!Slots : c[e] = 0
      BY DEF Ti!EmptyCache
    <2>. QED
      BY <1>10, <2>1, EmptyCached
  <1>12. ASSUME NEW k \in Nat, k \in S
         PROVE  k + 1 \in S
    <2>. SUFFICES ASSUME k + 1 <= N
                  PROVE  Good(k + 1, at[k + 1])
      OBVIOUS
    <2>. DEFINE v == at[k]
                u == at[k + 1]
    <2>1. Cached(bs, v) /\ \A e \in Ti!Slots : v[e] # 0 => v[e] < k
      BY <1>1, <1>12
    <2>2. u = Up(k, v)
      BY <1>10
    <2>3. \A e \in Ti!Slots : v[e] \in Nat
      BY <2>1 DEF Cached
    <2>. HIDE DEF v, u
    <2>4. CASE Free(k)
      <3>1. u = Ti!Added(v, bs[k].len, k) /\ k \in DOMAIN bs /\ bs[k].free
        BY <2>2, <2>4
      <3>2. \A e \in Ti!Slots : v[e] # 0 => v[e] # k
        BY <2>1, <2>3
      <3>3. Cached(bs, u) /\ \A e \in Ti!Slots : u[e] = v[e] \/ u[e] = k
        BY <2>1, <3>1, <3>2, AddedCached
      <3>4. \A e \in Ti!Slots : u[e] # 0 => u[e] < k + 1
        BY <2>1, <2>3, <3>3
      <3>. QED
        BY <3>3, <3>4 DEF u
    <2>5. CASE ~ Free(k)
      <3>1. u = v
        BY <2>2, <2>5
      <3>2. \A e \in Ti!Slots : u[e] # 0 => u[e] < k + 1
        BY <2>1, <2>3, <3>1
      <3>. QED
        BY <2>1, <3>1, <3>2 DEF u
    <2>. QED
      BY <2>4, <2>5
  <1>13. stop \in S
    <2>. HIDE DEF S
    <2>1. stop \in Nat
      BY <1>1
    <2>. QED
      BY <1>11, <1>12, <2>1, NatSetInduction
  <1>. QED
    BY <1>1, <1>9, <1>13

------------------------------------------------------------------------------
(* try_coalesce leaves blocks that cover the same bytes; blocks in use and *)
(* those that are not joined to one before them keep their place.          *)
SameUsedBlocks(bs, cs) ==
    /\ \A o \in DOMAIN bs : ~ bs[o].free => o \in DOMAIN cs /\ cs[o] = bs[o]
    /\ \A o \in DOMAIN cs : ~ cs[o].free => o \in DOMAIN bs /\ cs[o] = bs[o]

Absorbed(bs, o) == \E q \in DOMAIN bs : q + bs[q].len = o /\ bs[q].free /\ bs[o].free

LEMMA MergedIs ==
    ASSUME NEW bs, CutUp(bs), NEW m, m = Ti!Merged(bs)
    PROVE  /\ CutUp(m) /\ SameUsedBlocks(bs, m) /\ DOMAIN m \subseteq DOMAIN bs
           /\ \A o \in DOMAIN m : m[o].free = bs[o].free
           /\ \A o \in DOMAIN bs : o \in DOMAIN m \/ Absorbed(bs, o)
           /\ \A o \in DOMAIN m : ~ Absorbed(bs, o)
  <1>. DEFINE heads == {o \in DOMAIN bs : ~ Absorbed(bs, o)}
              Above(o) == {h \in heads \cup {TinySize} : h > o}
              E(o) == Min(Above(o))
  <1>1. /\ TinyStart \in DOMAIN bs /\ TinyStart \in Nat /\ TinySize \in Nat
        /\ \A o \in DOMAIN bs :
              /\ o \in Nat /\ TinyStart <= o /\ bs[o].len \in Nat /\ bs[o].len >= 2
              /\ o + bs[o].len \in DOMAIN bs \cup {TinySize} /\ o + bs[o].len <= TinySize
              /\ \A q \in DOMAIN bs : o < q => o + bs[o].len <= q
    BY CutAt, TinyConstants DEF CutUp
  <1>2. heads \subseteq DOMAIN bs
    OBVIOUS
  <1>3. TinyStart \in heads
    <2>1. \A q \in DOMAIN bs : q + bs[q].len # TinyStart
      BY <1>1
    <2>. QED
      BY <1>1, <2>1 DEF Absorbed
  <1>4. ASSUME NEW o \in heads
        PROVE  /\ E(o) \in heads \cup {TinySize} /\ o < E(o) /\ E(o) <= TinySize
               /\ \A h \in heads \cup {TinySize} : o < h => E(o) <= h
               /\ o + bs[o].len <= E(o) /\ E(o) \in Nat
    <2>1. \A h \in heads \cup {TinySize} : h \in Nat /\ h <= TinySize
      <3>. HIDE DEF heads
      <3>. QED
        BY <1>1, <1>2
    <2>2. o \in DOMAIN bs /\ o \in Nat /\ o < TinySize
      <3>. HIDE DEF heads
      <3>. QED
        BY <1>1, <1>2
    <2>. HIDE DEF heads
    <2>3. Above(o) \in SUBSET Nat /\ TinySize \in Above(o)
      BY <1>1, <2>1, <2>2
    <2>4. E(o) \in Above(o) /\ \A h \in Above(o) : E(o) <= h
      <3>. HIDE DEF Above
      <3>. QED
        BY <2>3, MinIsLeast
    <2>5. /\ E(o) \in heads \cup {TinySize} /\ o < E(o)
          /\ \A h \in heads \cup {TinySize} : o < h => E(o) <= h
      BY <2>4
    <2>. HIDE DEF E
    <2>6. E(o) <= TinySize /\ E(o) \in Nat
      BY <2>1, <2>5
    <2>7. o + bs[o].len <= E(o)
      BY <1>1, <1>2, <2>2, <2>5
    <2>. QED
      BY <2>5, <2>6, <2>7
  <1>5. m = [o \in heads |-> [bs[o] EXCEPT !.len = E(o) - o]]
    BY TinyMin, Zenon DEF Ti!Merged, Absorbed
  <1>. HIDE DEF E
  <1>6. DOMAIN m = heads
    <2>. HIDE DEF heads
    <2>. QED
      BY <1>5
  <1>7. ASSUME NEW o \in heads
        PROVE  /\ m[o] = [len |-> E(o) - o, free |-> bs[o].free]
               /\ m[o].len = E(o) - o /\ m[o].free = bs[o].free
               /\ m[o].len \in Nat /\ m[o].len >= 2 /\ m[o] \in TinyBlock
               /\ o + m[o].len = E(o)
    <2>. HIDE DEF heads
    <2>1. o \in DOMAIN bs
      BY <1>2
    <2>2. /\ bs[o] = [len |-> bs[o].len, free |-> bs[o].free] /\ o \in Nat
          /\ bs[o].free \in BOOLEAN /\ bs[o].len \in Nat /\ bs[o].len >= 2
      BY <2>1, CutAt
    <2>3. m[o] = [bs[o] EXCEPT !.len = E(o) - o]
      BY <1>5
    <2>4. m[o] = [len |-> E(o) - o, free |-> bs[o].free]
      <3>. DEFINE b == bs[o]
                  e == E(o) - o
      <3>1. b = [len |-> b.len, free |-> b.free] /\ m[o] = [b EXCEPT !.len = e]
        BY <2>2, <2>3
      <3>. HIDE DEF b, e
      <3>2. m[o] = [len |-> e, free |-> b.free]
        BY <3>1
      <3>. QED
        BY <3>2 DEF b, e
    <2>5. m[o].len = E(o) - o /\ m[o].free = bs[o].free
      BY <2>4
    <2>6. E(o) \in Nat /\ o + bs[o].len <= E(o)
      BY <1>4
    <2>7. E(o) - o \in Nat /\ E(o) - o >= 2 /\ o + (E(o) - o) = E(o)
      BY <2>2, <2>6
    <2>8. m[o] \in TinyBlock
      BY <2>2, <2>4, <2>7 DEF TinyBlock
    <2>. QED
      BY <2>4, <2>5, <2>7, <2>8
  <1>8. m \in [heads -> TinyBlock]
    <2>1. m = [o \in heads |-> m[o]]
      <3>. HIDE DEF heads
      <3>. QED
        BY <1>5
    <2>. HIDE DEF heads
    <2>. QED
      BY <1>7, <2>1
  <1>9. CutUp(m)
    <2>1. DOMAIN m \subseteq Nat
      BY <1>1, <1>6
    <2>. HIDE DEF heads
    <2>2. ASSUME NEW o \in heads
          PROVE  /\ TinyStart <= o /\ m[o].len >= 2
                 /\ o + m[o].len \in heads \cup {TinySize} /\ o + m[o].len <= TinySize
                 /\ \A q \in heads : o < q => o + m[o].len <= q
      <3>1. o + m[o].len = E(o) /\ m[o].len >= 2
        BY <1>7
      <3>2. TinyStart <= o
        BY <1>1, <1>2
      <3>. QED
        BY <1>4, <3>1, <3>2
    <2>. QED
      BY <1>3, <1>6, <1>8, <2>1, <2>2 DEF CutUp
  <1>10. ASSUME NEW o \in DOMAIN bs, ~ bs[o].free
         PROVE  o \in heads /\ m[o] = bs[o]
    <2>1. o \in heads
      BY <1>10 DEF Absorbed
    <2>. DEFINE e == o + bs[o].len
    <2>2. e \in heads \cup {TinySize} /\ o < e
      <3>1. CASE e = TinySize
        BY <1>1, <3>1
      <3>2. CASE e # TinySize
        <4>1. e \in DOMAIN bs /\ o < e /\ e \in Nat /\ o \in Nat
          BY <1>1, <3>2
        <4>. HIDE DEF e
        <4>2. ASSUME NEW q \in DOMAIN bs, q + bs[q].len = e
              PROVE  q = o
          <5>1. q < o => q + bs[q].len <= o
            BY <1>1
          <5>2. o < q => e <= q
            BY <1>1 DEF e
          <5>3. q \in Nat /\ q < e
            BY <1>1, <4>2
          <5>. QED
            BY <4>1, <4>2, <5>1, <5>2, <5>3
        <4>3. ~ Absorbed(bs, e)
          BY <1>10, <4>2 DEF Absorbed
        <4>. QED
          BY <4>1, <4>3
      <3>. QED
        BY <3>1, <3>2
    <2>. HIDE DEF heads
    <2>3. E(o) <= e /\ e <= E(o) /\ E(o) \in Nat /\ e \in Nat
      BY <1>1, <1>4, <2>1, <2>2
    <2>4. E(o) = e
      BY <2>3
    <2>5. E(o) - o = bs[o].len
      BY <1>1, <2>4
    <2>6. m[o] = [len |-> bs[o].len, free |-> bs[o].free]
      BY <1>7, <2>1, <2>5
    <2>. QED
      BY <2>1, <2>6, CutAt
  <1>11. ASSUME NEW o \in DOMAIN m, ~ m[o].free
         PROVE  o \in DOMAIN bs /\ m[o] = bs[o]
    <2>1. o \in heads
      BY <1>6
    <2>2. m[o].free = bs[o].free
      BY <1>7, <2>1
    <2>3. o \in DOMAIN bs /\ ~ bs[o].free
      BY <1>11, <2>1, <2>2
    <2>. QED
      BY <1>10, <2>3
  <1>12. \A o \in DOMAIN m : m[o].free = bs[o].free
    <2>. HIDE DEF heads
    <2>. QED
      BY <1>6, <1>7
  <1>13. /\ DOMAIN m \subseteq DOMAIN bs /\ \A o \in DOMAIN m : ~ Absorbed(bs, o)
         /\ \A o \in DOMAIN bs : o \in DOMAIN m \/ Absorbed(bs, o)
    BY <1>6
  <1>. HIDE DEF heads
  <1>. QED
    BY <1>6, <1>9, <1>10, <1>11, <1>12, <1>13 DEF SameUsedBlocks

------------------------------------------------------------------------------
(* n bytes at p lie in block o, aligned and behind its header.             *)
Houses(bs, o, p, n) ==
    p % Word = 0 /\ o + Bytes(bs[o].len) <= p /\ p + n <= o + bs[o].len

(* The blocks in use house what the callers hold, one each.                *)
Owned(bs, H) ==
    /\ DOMAIN H \subseteq Nat
    /\ \A p \in DOMAIN H :
          /\ H[p] \in TinyAsked
          /\ \E o \in DOMAIN bs : ~ bs[o].free /\ Houses(bs, o, p, H[p])
    /\ \A o \in DOMAIN bs : ~ bs[o].free => \E p \in DOMAIN H : Houses(bs, o, p, H[p])
    /\ \A o \in DOMAIN bs : \A p, q \in DOMAIN H :
          Houses(bs, o, p, H[p]) /\ Houses(bs, o, q, H[q]) => p = q

LEMMA AskedIs == \A n \in TinyAsked : n \in Nat \ {0}
  BY TinyConstants

LEMMA AskedUnwrapped ==
    ASSUME TinyFits, NEW n \in TinyAsked
    PROVE  n \in Nat \ {0} /\ Unwrapped(n) /\ Unwrapped(n + Word - 1)
  <1>1. /\ n \in Nat \ {0} /\ TinySize + 2 * Word + n <= Modulus
        /\ TinySize \in Nat /\ Word \in Nat \ {0} /\ Modulus \in Nat
    BY AskedIs, TinyConstants DEF TinyFits
  <1>. QED
    BY <1>1 DEF Unwrapped

LEMMA HousedInside ==
    ASSUME NEW bs, CutUp(bs), NEW o \in DOMAIN bs, NEW p \in Nat, NEW n \in TinyAsked,
           Houses(bs, o, p, n)
    PROVE  o < p /\ p < o + bs[o].len /\ p + n <= o + bs[o].len /\ o + bs[o].len <= TinySize
  <1>1. /\ o \in Nat /\ bs[o].len \in Nat /\ bs[o].len >= 2 /\ n \in Nat \ {0}
        /\ o + bs[o].len <= TinySize
    BY CutAt, AskedIs
  <1>2. Bytes(bs[o].len) \in Nat \ {0}
    BY <1>1, BytesGrow
  <1>. QED
    BY <1>1, <1>2 DEF Houses

(* Data that two blocks house is in one.                                   *)
LEMMA HousedOnce ==
    ASSUME NEW bs, CutUp(bs), NEW o \in DOMAIN bs, NEW q \in DOMAIN bs, NEW p \in Nat,
           NEW n \in TinyAsked, Houses(bs, o, p, n), NEW k \in TinyAsked, Houses(bs, q, p, k)
    PROVE  o = q
  <1>1. o < p /\ p < o + bs[o].len /\ q < p /\ p < q + bs[q].len
    BY HousedInside
  <1>2. o \in Nat /\ q \in Nat
    BY CutAt
  <1>3. o <= p /\ q <= p
    BY <1>1, <1>2
  <1>. QED
    BY <1>1, <1>3, OneBlock

LEMMA HousesLike ==
    ASSUME NEW bs, NEW cs, NEW o, cs[o].len = bs[o].len, NEW p, NEW n
    PROVE  Houses(cs, o, p, n) <=> Houses(bs, o, p, n)
  BY DEF Houses

LEMMA OwnedAt ==
    ASSUME NEW bs, NEW H, Owned(bs, H), NEW p \in DOMAIN H
    PROVE  /\ p \in Nat /\ H[p] \in TinyAsked
           /\ \E o \in DOMAIN bs : ~ bs[o].free /\ Houses(bs, o, p, H[p])
  BY DEF Owned

LEMMA SameOwned ==
    ASSUME NEW bs, CutUp(bs), NEW H, Owned(bs, H), NEW cs, CutUp(cs), SameUsedBlocks(bs, cs)
    PROVE  Owned(cs, H)
  <1>1. \A o \in DOMAIN bs : ~ bs[o].free =>
           /\ o \in DOMAIN cs /\ ~ cs[o].free /\ cs[o] = bs[o]
           /\ \A p, n : Houses(cs, o, p, n) <=> Houses(bs, o, p, n)
    BY DEF SameUsedBlocks, Houses
  <1>2. \A o \in DOMAIN cs : ~ cs[o].free => o \in DOMAIN bs /\ ~ bs[o].free
    BY DEF SameUsedBlocks
  <1>3. ASSUME NEW p \in DOMAIN H
        PROVE  /\ H[p] \in TinyAsked /\ p \in Nat
               /\ \E o \in DOMAIN cs : ~ cs[o].free /\ Houses(cs, o, p, H[p])
    <2>1. PICK o \in DOMAIN bs : ~ bs[o].free /\ Houses(bs, o, p, H[p])
      BY OwnedAt
    <2>2. o \in DOMAIN cs /\ ~ cs[o].free /\ Houses(cs, o, p, H[p])
      BY <1>1, <2>1
    <2>. QED
      BY <2>2, OwnedAt
  <1>4. ASSUME NEW o \in DOMAIN cs, ~ cs[o].free
        PROVE  \E p \in DOMAIN H : Houses(cs, o, p, H[p])
    <2>1. o \in DOMAIN bs /\ ~ bs[o].free
      BY <1>2, <1>4
    <2>2. PICK p \in DOMAIN H : Houses(bs, o, p, H[p])
      BY <2>1 DEF Owned
    <2>. QED
      BY <1>1, <2>1, <2>2
  <1>5. ASSUME NEW o \in DOMAIN cs, NEW p \in DOMAIN H, NEW q \in DOMAIN H,
               Houses(cs, o, p, H[p]), Houses(cs, o, q, H[q])
        PROVE  p = q
    <2>1. PICK u \in DOMAIN cs : ~ cs[u].free /\ Houses(cs, u, p, H[p])
      BY <1>3
    <2>2. p \in Nat /\ H[p] \in TinyAsked
      BY <1>3
    <2>3. u = o
      BY <1>5, <2>1, <2>2, HousedOnce
    <2>4. o \in DOMAIN bs /\ ~ bs[o].free
      BY <1>2, <2>1, <2>3
    <2>5. Houses(bs, o, p, H[p]) /\ Houses(bs, o, q, H[q])
      BY <1>1, <1>5, <2>4
    <2>. QED
      BY <2>4, <2>5 DEF Owned
  <1>6. DOMAIN H \subseteq Nat
    BY DEF Owned
  <1>. QED
    BY <1>3, <1>4, <1>5, <1>6 DEF Owned

(* Block off is given back; p was in it.                                   *)
LEMMA FreedOwned ==
    ASSUME NEW bs, CutUp(bs), NEW H, Owned(bs, H), NEW p \in DOMAIN H, NEW off \in DOMAIN bs,
           Houses(bs, off, p, H[p]), NEW cs, CutUp(cs), DOMAIN cs = DOMAIN bs,
           \A o \in DOMAIN bs : cs[o].len = bs[o].len, cs[off].free,
           \A o \in DOMAIN bs : o # off => cs[o] = bs[o],
           NEW K, K = [q \in DOMAIN H \ {p} |-> H[q]]
    PROVE  Owned(cs, K)
  <1>1. DOMAIN K = DOMAIN H \ {p} /\ \A q \in DOMAIN K : K[q] = H[q]
    OBVIOUS
  <1>2. \A o \in DOMAIN bs : \A q, n : Houses(cs, o, q, n) <=> Houses(bs, o, q, n)
    BY HousesLike
  <1>3. \A q \in DOMAIN H : Houses(bs, off, q, H[q]) => q = p
    BY DEF Owned
  <1>4. ASSUME NEW q \in DOMAIN K
        PROVE  /\ K[q] \in TinyAsked
               /\ \E o \in DOMAIN cs : ~ cs[o].free /\ Houses(cs, o, q, K[q])
    <2>1. q \in DOMAIN H /\ q # p /\ K[q] = H[q]
      BY <1>1
    <2>2. PICK o \in DOMAIN bs : ~ bs[o].free /\ Houses(bs, o, q, H[q])
      BY <2>1, OwnedAt
    <2>3. o # off
      BY <1>3, <2>1, <2>2
    <2>4. ~ cs[o].free /\ o \in DOMAIN cs
      BY <2>2, <2>3
    <2>5. Houses(cs, o, q, K[q])
      BY <1>2, <2>1, <2>2
    <2>6. K[q] \in TinyAsked
      BY <2>1, OwnedAt
    <2>. QED
      BY <2>4, <2>5, <2>6
  <1>5. ASSUME NEW o \in DOMAIN cs, ~ cs[o].free
        PROVE  \E q \in DOMAIN K : Houses(cs, o, q, K[q])
    <2>1. o # off /\ o \in DOMAIN bs
      BY <1>5
    <2>2. ~ bs[o].free
      BY <1>5, <2>1
    <2>3. PICK q \in DOMAIN H : Houses(bs, o, q, H[q])
      BY <2>1, <2>2 DEF Owned
    <2>4. q # p
      <3>1. p \in Nat /\ H[p] \in TinyAsked
        BY OwnedAt
      <3>2. q = p => o = off
        BY <2>1, <2>3, <3>1, HousedOnce
      <3>. QED
        BY <2>1, <3>2
    <2>5. q \in DOMAIN K /\ K[q] = H[q]
      BY <1>1, <2>4
    <2>. QED
      BY <1>2, <2>1, <2>3, <2>5
  <1>6. ASSUME NEW o \in DOMAIN cs, NEW q \in DOMAIN K, NEW r \in DOMAIN K,
               Houses(cs, o, q, K[q]), Houses(cs, o, r, K[r])
        PROVE  q = r
    <2>1. q \in DOMAIN H /\ r \in DOMAIN H /\ K[q] = H[q] /\ K[r] = H[r] /\ o \in DOMAIN bs
      BY <1>1
    <2>2. Houses(bs, o, q, H[q]) /\ Houses(bs, o, r, H[r])
      BY <1>2, <1>6, <2>1
    <2>. QED
      BY <2>1, <2>2 DEF Owned
  <1>7. DOMAIN K \subseteq Nat
    BY <1>1 DEF Owned
  <1>. QED
    BY <1>4, <1>5, <1>6, <1>7 DEF Owned

(* The far end of free block off, from used on, houses n bytes at p.       *)
LEMMA TakenOwned ==
    ASSUME NEW bs, CutUp(bs), NEW H, Owned(bs, H), NEW off \in DOMAIN bs, bs[off].free,
           NEW cs, CutUp(cs), NEW used \in DOMAIN cs, ~ cs[used].free,
           off <= used, used + cs[used].len = off + bs[off].len,
           used = off \/ used \notin DOMAIN bs,
           \A o \in DOMAIN bs : o # off => o \in DOMAIN cs /\ cs[o] = bs[o],
           \A o \in DOMAIN cs : \/ o = used \/ cs[o].free
                                \/ o \in DOMAIN bs /\ o # off,
           NEW p \in Nat, NEW n \in TinyAsked, Houses(cs, used, p, n),
           NEW K, K = Ti!With(H, p, n)
    PROVE  p \notin DOMAIN H /\ Owned(cs, K)
  <1>1. used < p /\ p < used + cs[used].len
    BY HousedInside
  <1>2. off \in Nat /\ used \in Nat
    BY CutAt
  <1>3. off <= p /\ p < off + bs[off].len
    BY <1>1, <1>2
  <1>4. ASSUME NEW q \in DOMAIN H
        PROVE  /\ q \in Nat /\ H[q] \in TinyAsked
               /\ \E o \in DOMAIN bs : /\ o # off /\ o # used /\ o \in DOMAIN cs /\ ~ cs[o].free
                                       /\ Houses(bs, o, q, H[q]) /\ Houses(cs, o, q, H[q])
    <2>1. PICK o \in DOMAIN bs : ~ bs[o].free /\ Houses(bs, o, q, H[q])
      BY OwnedAt
    <2>2. o # off
      BY <2>1
    <2>3. o \in DOMAIN cs /\ cs[o] = bs[o]
      BY <2>2
    <2>4. Houses(cs, o, q, H[q]) /\ ~ cs[o].free
      BY <2>1, <2>3, HousesLike
    <2>5. o # used
      BY <2>2
    <2>. QED
      BY <2>1, <2>2, <2>3, <2>4, <2>5, OwnedAt
  <1>5. p \notin DOMAIN H
    <2>. SUFFICES ASSUME p \in DOMAIN H
                  PROVE  FALSE
      OBVIOUS
    <2>1. PICK o \in DOMAIN bs : o # off /\ Houses(bs, o, p, H[p]) /\ H[p] \in TinyAsked
      BY <1>4
    <2>2. o < p /\ p < o + bs[o].len /\ o \in Nat
      BY <2>1, HousedInside, CutAt
    <2>3. o <= p
      BY <2>2
    <2>4. o = off
      BY <1>3, <2>2, <2>3, OneBlock
    <2>. QED
      BY <2>1, <2>4
  <1>6. DOMAIN K = DOMAIN H \cup {p}
    BY TinyWithDomain
  <1>7. K[p] = n
    BY TinyWithNew
  <1>8. \A q \in DOMAIN H : K[q] = H[q]
    <2>1. \A q \in DOMAIN H : q # p
      BY <1>5
    <2>. QED
      BY <2>1, TinyWithOld
  <1>9. ASSUME NEW q \in DOMAIN K
        PROVE  /\ q \in Nat /\ K[q] \in TinyAsked
               /\ \E o \in DOMAIN cs : ~ cs[o].free /\ Houses(cs, o, q, K[q])
    <2>1. CASE q = p
      BY <1>7, <2>1
    <2>2. CASE q # p
      <3>1. q \in DOMAIN H /\ K[q] = H[q]
        BY <1>6, <1>8, <2>2
      <3>. QED
        BY <1>4, <3>1
    <2>. QED
      BY <2>1, <2>2
  <1>10. ASSUME NEW o \in DOMAIN cs, ~ cs[o].free
         PROVE  \E q \in DOMAIN K : Houses(cs, o, q, K[q])
    <2>1. CASE o = used
      BY <1>6, <1>7, <2>1
    <2>2. CASE o # used
      <3>1. o \in DOMAIN bs /\ o # off /\ cs[o] = bs[o]
        BY <1>10, <2>2
      <3>2. ~ bs[o].free
        BY <1>10, <3>1
      <3>3. PICK q \in DOMAIN H : Houses(bs, o, q, H[q])
        BY <3>1, <3>2 DEF Owned
      <3>4. Houses(cs, o, q, H[q])
        BY <3>1, <3>3, HousesLike
      <3>. QED
        BY <1>6, <1>8, <3>3, <3>4
    <2>. QED
      BY <2>1, <2>2
  <1>11. ASSUME NEW o \in DOMAIN cs, NEW q \in DOMAIN H, Houses(cs, o, q, K[q])
         PROVE  o # used /\ o # off /\ o \in DOMAIN bs /\ Houses(bs, o, q, H[q])
    <2>1. PICK u \in DOMAIN bs : /\ u # off /\ u # used /\ u \in DOMAIN cs
                                 /\ Houses(bs, u, q, H[q]) /\ Houses(cs, u, q, H[q])
      BY <1>4
    <2>2. Houses(cs, o, q, H[q]) /\ q \in Nat /\ H[q] \in TinyAsked
      BY <1>4, <1>8, <1>11
    <2>3. o = u
      BY <2>1, <2>2, HousedOnce
    <2>. QED
      BY <2>1, <2>3
  <1>12. ASSUME NEW o \in DOMAIN cs, Houses(cs, o, p, n)
         PROVE  o = used
    BY <1>12, HousedOnce
  <1>13. ASSUME NEW o \in DOMAIN cs, NEW q \in DOMAIN K, NEW r \in DOMAIN K,
                Houses(cs, o, q, K[q]), Houses(cs, o, r, K[r])
         PROVE  q = r
    <2>1. CASE o = used
      <3>1. q \notin DOMAIN H /\ r \notin DOMAIN H
        BY <1>11, <1>13, <2>1
      <3>. QED
        BY <1>6, <3>1
    <2>2. CASE o # used
      <3>1. q # p /\ r # p
        BY <1>7, <1>12, <1>13, <2>2
      <3>2. q \in DOMAIN H /\ r \in DOMAIN H
        BY <1>6, <3>1
      <3>3. o \in DOMAIN bs /\ Houses(bs, o, q, H[q]) /\ Houses(bs, o, r, H[r])
        BY <1>11, <1>13, <3>2
      <3>. QED
        BY <3>2, <3>3 DEF Owned
    <2>. QED
      BY <2>1, <2>2
  <1>14. Owned(cs, K)
    <2>1. DOMAIN K \subseteq Nat
      BY <1>9
    <2>. QED
      BY <1>9, <1>10, <1>13, <2>1 DEF Owned
  <1>. QED
    BY <1>5, <1>14

------------------------------------------------------------------------------
(* The three parts of the state fit.                                       *)
TinyGood(bs, c, H) == CutUp(bs) /\ Cached(bs, c) /\ Owned(bs, H)

TinyInv == TinyGood(blocks, cache, tinyHeld)

(* Nor does any difference of Placed go below zero: the block taken lies   *)
(* in the one that is long enough.                                         *)
PlacedAt(bs, c, off, end, at, hdr) ==
    IF hdr - off < 2
    THEN [blocks |-> [bs EXCEPT ![off].free = FALSE], cache |-> c, at |-> at]
    ELSE [blocks |-> Ti!With([bs EXCEPT ![off].len = hdr - off], hdr,
                             [len |-> end - hdr, free |-> FALSE]),
          cache |-> Ti!Added(c, hdr - off, off),
          at |-> at]

LEMMA PlacedIs ==
    ASSUME NEW bs, NEW c, NEW off \in Nat, NEW len \in Nat \ {0}, len = bs[off].len,
           NEW n \in Nat \ {0}, NEW end, end = off + len, end <= TinySize,
           NEW at, at = Ti!AlignedDown(end - n),
           NEW hdr, hdr = at - Needed(end - at),
           at \in Nat, at + n <= end, hdr \in Nat, off <= hdr, hdr < at
    PROVE  Ti!Placed(bs, c, off, n) = PlacedAt(bs, c, off, end, at, hdr)
  <1>1. Modulus \in Nat \ {0} /\ TinySize \in Nat /\ end \in Nat /\ end < Modulus
    BY TinyConstants
  <1>2. end - n \in Nat /\ end - n < Modulus
    BY <1>1
  <1>3. (end - n) % Modulus = end - n
    BY <1>1, <1>2, SmallRemainder
  <1>4. end - at \in Nat /\ end - at < Modulus
    BY <1>1
  <1>5. (end - at) % Modulus = end - at
    BY <1>1, <1>4, SmallRemainder
  <1>6. hdr < Modulus
    BY <1>1
  <1>7. hdr % Modulus = hdr
    BY <1>1, <1>6, SmallRemainder
  <1>8. hdr - off \in Nat /\ hdr - off < Modulus
    BY <1>1
  <1>9. (hdr - off) % Modulus = hdr - off
    BY <1>1, <1>8, SmallRemainder
  <1>10. end - hdr \in Nat /\ end - hdr < Modulus
    BY <1>1
  <1>11. (end - hdr) % Modulus = end - hdr
    BY <1>1, <1>10, SmallRemainder
  <1>. DEFINE e == off + bs[off].len
              a == Ti!AlignedDown((e - n) % Modulus)
              h == (a - Ti!encode_len_with_header((e - a) % Modulus)) % Modulus
              r == (h - off) % Modulus
  <1>12. e = end
    OBVIOUS
  <1>13. a = at
    BY <1>3, <1>12
  <1>14. h = hdr
    <2>. HIDE DEF e, a
    <2>. QED
      BY <1>5, <1>7, <1>12, <1>13 DEF Needed
  <1>15. r = hdr - off
    <2>. HIDE DEF h
    <2>. QED
      BY <1>9, <1>14
  <1>16. Ti!Placed(bs, c, off, n) =
             IF r < 2
             THEN [blocks |-> [bs EXCEPT ![off].free = FALSE], cache |-> c, at |-> a]
             ELSE [blocks |-> Ti!With([bs EXCEPT ![off].len = r], h,
                                      [len |-> (e - h) % Modulus, free |-> FALSE]),
                   cache |-> Ti!Added(c, r, off),
                   at |-> a]
    BY DEF Ti!Placed, Ti!MIN_BLOCK_SIZE
  <1>. HIDE DEF e, a, h, r
  <1>. QED
    BY <1>11, <1>12, <1>13, <1>14, <1>15, <1>16, Zenon DEF PlacedAt

LEMMA PlacedGood ==
    ASSUME TinyFits, NEW bs, NEW c, NEW H, TinyGood(bs, c, H), NEW off \in DOMAIN bs, bs[off].free,
           \A f \in Ti!Slots : c[f] # 0 => c[f] # off,
           NEW n \in TinyAsked, Ti!long_enough(off, bs[off].len, n),
           NEW t, t = Ti!Placed(bs, c, off, n), NEW K, K = Ti!With(H, t.at, n)
    PROVE  t.at \notin DOMAIN H /\ TinyGood(t.blocks, t.cache, K)
  <1>1. CutUp(bs) /\ Cached(bs, c) /\ Owned(bs, H)
    BY DEF TinyGood
  <1>. DEFINE len == bs[off].len
              end == off + len
              at == Ti!AlignedDown(end - n)
              hdr == at - Needed(end - at)
  <1>2. /\ off \in Nat /\ len \in Nat \ {0} /\ n \in Nat \ {0} /\ end <= TinySize
        /\ Unwrapped(n)
    BY <1>1, CutAt, AskedUnwrapped
  <1>3. /\ at \in Nat /\ at % Word = 0 /\ at + n <= end
        /\ hdr \in Nat /\ off <= hdr /\ hdr < at /\ hdr + 2 <= end
        /\ hdr + Bytes(end - hdr) <= at
        /\ hdr < off + 2 => off + Bytes(len) <= at
    <2>1. /\ end = off + len /\ at = Ti!AlignedDown(end - n) /\ hdr = at - Needed(end - at)
          /\ Ti!long_enough(off, len, n) /\ off + len <= TinySize
      BY <1>2
    <2>. HIDE DEF len, end, at, hdr
    <2>. QED
      BY <1>2, <2>1, RoomAtEnd
  <1>. DEFINE cut == hdr - off \in 0..1
              whole == [bs EXCEPT ![off].free = FALSE]
              split == Ti!With([bs EXCEPT ![off].len = hdr - off], hdr,
                               [len |-> end - hdr, free |-> FALSE])
              rest == Ti!Added(c, hdr - off, off)
  <1>4. t = IF cut THEN [blocks |-> whole, cache |-> c, at |-> at]
            ELSE [blocks |-> split, cache |-> rest, at |-> at]
    <2>1. t = IF hdr - off < 2 THEN [blocks |-> whole, cache |-> c, at |-> at]
              ELSE [blocks |-> split, cache |-> rest, at |-> at]
      <3>1. /\ len = bs[off].len /\ end = off + len /\ at = Ti!AlignedDown(end - n)
            /\ hdr = at - Needed(end - at) /\ t = Ti!Placed(bs, c, off, n)
        OBVIOUS
      <3>. HIDE DEF len, end, at, hdr
      <3>2. /\ off \in Nat /\ len \in Nat \ {0} /\ n \in Nat \ {0} /\ end <= TinySize
            /\ at \in Nat /\ at + n <= end /\ hdr \in Nat /\ off <= hdr /\ hdr < at
        BY <1>2, <1>3
      <3>3. Ti!Placed(bs, c, off, n) = PlacedAt(bs, c, off, end, at, hdr)
        BY ONLY <3>1, <3>2, PlacedIs
      <3>. QED
        BY <3>1, <3>3, Zenon DEF PlacedAt
    <2>2. cut <=> hdr - off < 2
      <3>. HIDE DEF hdr
      <3>. QED
        BY <1>2, <1>3
    <2>. HIDE DEF cut, whole, split, rest, at, hdr
    <2>. QED
      BY <2>1, <2>2
  <1>5. CASE cut
    <2>1. t.blocks = whole /\ t.cache = c /\ t.at = at
      <3>. HIDE DEF cut, whole, split, rest, at
      <3>. QED
        BY <1>4, <1>5
    <2>. HIDE DEF at
    <2>2. hdr < off + 2
      <3>. HIDE DEF hdr
      <3>. QED
        BY <1>2, <1>3, <1>5
    <2>. HIDE DEF hdr, cut, split, rest
    <2>. DEFINE cs == whole
    <2>3. /\ CutUp(cs) /\ DOMAIN cs = DOMAIN bs /\ cs[off] = [len |-> len, free |-> FALSE]
          /\ \A o \in DOMAIN bs : o # off => cs[o] = bs[o]
      <3>. DEFINE no == FALSE
      <3>1. no \in BOOLEAN /\ cs = [bs EXCEPT ![off].free = no]
        OBVIOUS
      <3>. HIDE DEF no, whole
      <3>2. CutUp(cs)
        BY <1>1, <3>1, FlagCut
      <3>3. DOMAIN cs = DOMAIN bs /\ \A o \in DOMAIN bs : o # off => cs[o] = bs[o]
        BY <1>1, <3>1, FlagCut
      <3>4. cs[off] = [len |-> bs[off].len, free |-> no]
        BY <1>1, <3>1, FlagCut
      <3>. QED
        BY <3>2, <3>3, <3>4 DEF no
    <2>. HIDE DEF whole
    <2>4. cs[off].len = len /\ cs[off].free = FALSE
      BY <2>3
    <2>5. Houses(cs, off, at, n)
      BY <1>3, <2>2, <2>4 DEF Houses
    <2>6. K = Ti!With(H, at, n)
      BY <2>1
    <2>7. /\ off <= off /\ off + cs[off].len = off + bs[off].len /\ off \in DOMAIN cs
          /\ ~ cs[off].free
      BY <1>2, <2>3, <2>4
    <2>8. /\ \A o \in DOMAIN bs : o # off => o \in DOMAIN cs /\ cs[o] = bs[o]
          /\ \A o \in DOMAIN cs : o = off \/ cs[o].free \/ (o \in DOMAIN bs /\ o # off)
      BY <2>3
    <2>9. at \in Nat
      BY <1>3
    <2>. HIDE DEF len, end
    <2>10. at \notin DOMAIN H /\ Owned(cs, K)
      BY <1>1, <2>3, <2>5, <2>6, <2>7, <2>8, <2>9, TakenOwned
    <2>11. Cached(cs, c)
      <3>1. \A f \in Ti!Slots : c[f] # 0 => c[f] \in DOMAIN bs /\ c[f] # off
        BY <1>1, CachedAt
      <3>2. \A f \in Ti!Slots : c[f] # 0 => c[f] \in DOMAIN cs /\ cs[c[f]] = bs[c[f]]
        BY <2>3, <3>1
      <3>. QED
        BY <1>1, <3>2, CachedKept
    <2>. QED
      BY <2>1, <2>3, <2>10, <2>11 DEF TinyGood
  <1>6. CASE ~ cut
    <2>1. t.blocks = split /\ t.cache = rest /\ t.at = at
      <3>. HIDE DEF cut, whole, split, rest, at
      <3>. QED
        BY <1>4, <1>6
    <2>. HIDE DEF at
    <2>2. off + 2 <= hdr
      <3>. HIDE DEF hdr
      <3>. QED
        BY <1>2, <1>3, <1>6
    <2>. HIDE DEF hdr, cut, whole
    <2>. DEFINE cs == split
    <2>3. Split(bs, cs, off, hdr)
      BY <1>1, <1>3, <2>2, SplitShape
    <2>. HIDE DEF split
    <2>4. CutUp(cs)
      BY <1>1, <1>3, <2>2, <2>3, SplitCut
    <2>5. /\ DOMAIN cs = DOMAIN bs \cup {hdr} /\ hdr \notin DOMAIN bs
          /\ cs[off].len = hdr - off /\ cs[off].free
          /\ cs[hdr].len = end - hdr /\ ~ cs[hdr].free
          /\ \A o \in DOMAIN bs : o # off => cs[o] = bs[o]
      BY <2>3 DEF Split
    <2>6. Houses(cs, hdr, at, n)
      <3>1. hdr + (end - hdr) = end
        BY <1>2, <1>3
      <3>. QED
        BY <1>3, <2>5, <3>1 DEF Houses
    <2>7. K = Ti!With(H, at, n)
      BY <2>1
    <2>8. hdr \in DOMAIN cs /\ off <= hdr /\ hdr + cs[hdr].len = off + bs[off].len
      BY <1>2, <1>3, <2>5
    <2>9. /\ \A o \in DOMAIN bs : o # off => o \in DOMAIN cs /\ cs[o] = bs[o]
          /\ \A o \in DOMAIN cs : o = hdr \/ cs[o].free \/ (o \in DOMAIN bs /\ o # off)
      BY <2>5
    <2>10. at \in Nat
      BY <1>3
    <2>11. Cached(cs, c)
      <3>1. \A f \in Ti!Slots : c[f] # 0 => c[f] \in DOMAIN bs /\ c[f] # off
        BY <1>1, CachedAt
      <3>2. \A f \in Ti!Slots : c[f] # 0 => c[f] \in DOMAIN cs /\ cs[c[f]] = bs[c[f]]
        BY <2>5, <3>1
      <3>. QED
        BY <1>1, <3>2, CachedKept
    <2>12. Cached(cs, rest)
      <3>1. rest = Ti!Added(c, cs[off].len, off) /\ off \in DOMAIN cs
        BY <2>5
      <3>. HIDE DEF rest
      <3>. QED
        BY <2>4, <2>5, <2>11, <3>1, AddedCached
    <2>. HIDE DEF len, end, rest
    <2>13. at \notin DOMAIN H /\ Owned(cs, K)
      <3>1. hdr \notin DOMAIN bs /\ ~ cs[hdr].free
        BY <2>5
      <3>. QED
        BY <1>1, <2>4, <2>6, <3>1, <2>7, <2>8, <2>9, <2>10, TakenOwned
    <2>. QED
      BY <2>1, <2>4, <2>12, <2>13 DEF TinyGood
  <1>. HIDE DEF cut
  <1>. QED
    BY <1>5, <1>6

------------------------------------------------------------------------------
(* Buckets are ordered as the lengths they are for.                        *)
LEMMA BucketsGrow ==
    ASSUME NEW x \in Nat \ {0}, NEW y \in Nat, x <= y
    PROVE  Ti!free_array_off(x) <= Ti!free_array_off(y)
  <1>. DEFINE B(z) == CASE z <= 4 -> z - 1
                        [] z \in 5..16 -> z \div 2 + 1
                        [] z > 16 -> z \div 4 + 5
  <1>1. \A z : Ti!free_array_off(z) = 3 * B(z)
    BY DEF Ti!free_array_off
  <1>2. ASSUME NEW z \in Nat \ {0}
        PROVE  /\ z <= 4 => B(z) = z - 1
               /\ z > 4 /\ z <= 16 => B(z) = z \div 2 + 1
               /\ z > 16 => B(z) = z \div 4 + 5
    <2>1. CASE z <= 4
      <3>1. ~ (z \in 5..16) /\ ~ (z > 16)
        BY <2>1
      <3>. QED
        BY <2>1, <3>1
    <2>2. CASE z > 4 /\ z <= 16
      <3>1. z \in 5..16 /\ ~ (z <= 4) /\ ~ (z > 16)
        BY <2>2
      <3>. QED
        BY <3>1
    <2>3. CASE z > 16
      <3>1. ~ (z \in 5..16) /\ ~ (z <= 4)
        BY <2>3
      <3>. QED
        BY <2>3, <3>1
    <2>. HIDE DEF B
    <2>. QED
      BY <2>1, <2>2, <2>3
  <1>. HIDE DEF B
  <1>3. B(x) \in Int /\ B(y) \in Int /\ B(x) <= B(y)
    <2>1. y \in Nat \ {0}
      OBVIOUS
    <2>2. /\ x <= 4 \/ (x > 4 /\ x <= 16) \/ x > 16
          /\ y <= 4 \/ (y > 4 /\ y <= 16) \/ y > 16
      OBVIOUS
    <2>3. /\ x <= 4 => B(x) = x - 1
          /\ x > 4 /\ x <= 16 => B(x) = x \div 2 + 1
          /\ x > 16 => B(x) = x \div 4 + 5
          /\ y <= 4 => B(y) = y - 1
          /\ y > 4 /\ y <= 16 => B(y) = y \div 2 + 1
          /\ y > 16 => B(y) = y \div 4 + 5
      BY <1>2, <2>1
    <2>. QED
      BY <2>2, <2>3, Z3
  <1>. QED
    BY <1>1, <1>3

(* A block that is long enough has a length of its own to spare.           *)
LEMMA LongEnough ==
    ASSUME NEW off \in Nat, NEW len \in Nat \ {0}, NEW n \in Nat \ {0},
           off + len <= TinySize, Unwrapped(n), Ti!long_enough(off, len, n)
    PROVE  n <= len
  <1>1. Needed(len) \in Nat \ {0}
    BY NeededIs
  <1>. DEFINE up == Ti!AlignedUp(off + Needed(len))
  <1>2. up \in Nat /\ up >= off + Needed(len)
    BY <1>1, Aligned
  <1>3. up + n <= off + len
    BY LongEnoughIs
  <1>. HIDE DEF up
  <1>. QED
    BY <1>1, <1>2, <1>3

(* A block that the free array has not been found to hold is not in it: it *)
(* would have been in one of the buckets looked at.                        *)
LEMMA MissedUncached ==
    ASSUME TinyFits, TinyInv, NEW n \in TinyAsked, Ti!Hits(n) = {}, NEW o \in Ti!Fits(blocks, n)
    PROVE  \A f \in Ti!Slots : cache[f] # 0 => cache[f] # o
  <1>. SUFFICES ASSUME NEW f \in Ti!Slots, cache[f] # 0, cache[f] = o
                PROVE  FALSE
    OBVIOUS
  <1>1. o \in DOMAIN blocks /\ blocks[o].free /\ Ti!long_enough(o, blocks[o].len, n)
    BY DEF Ti!Fits
  <1>2. CutUp(blocks) /\ Cached(blocks, cache)
    BY DEF TinyInv, TinyGood
  <1>3. /\ o \in Nat /\ blocks[o].len \in Nat \ {0} /\ n \in Nat \ {0}
        /\ o + blocks[o].len <= TinySize /\ Unwrapped(n)
    BY <1>1, <1>2, CutAt, AskedUnwrapped
  <1>4. n <= blocks[o].len
    BY <1>1, <1>3, LongEnough
  <1>5. Ti!free_array_off(n) <= Ti!free_array_off(blocks[o].len)
    BY <1>3, <1>4, BucketsGrow
  <1>6. f % Ti!Buckets = Ti!free_array_off(blocks[o].len)
    BY <1>2, CachedAt
  <1>7. f % Ti!Buckets >= Ti!free_array_off(n)
    BY <1>5, <1>6
  <1>8. f \in Ti!Hits(n)
    BY <1>1, <1>7 DEF Ti!Hits
  <1>. QED
    BY <1>8

(* The slot taken is one of those whose block can serve the request.       *)
LEMMA FirstHitIs ==
    ASSUME NEW n \in TinyAsked, Ti!Hits(n) # {}
    PROVE  Ti!FirstHit(n) \in Ti!Hits(n)
  <1>. DEFINE H == Ti!Hits(n)
              B(f) == f % Ti!Buckets
              K == {B(f) : f \in H}
              k == Min(K)
              F == {f \in H : B(f) = k}
  <1>1. H \in SUBSET Nat
    BY SlotsAre DEF Ti!Hits
  <1>2. Ti!Buckets \in Nat \ {0}
    <2>1. MaxCached \in Nat \ {0, 1} /\ 2 \in Nat \ {0} /\ 2 <= MaxCached
      BY TinyConstants
    <2>2. Ti!free_array_off(2) <= Ti!free_array_off(MaxCached)
      BY <2>1, BucketsGrow
    <2>3. Ti!free_array_off(2) = 3
      BY DEF Ti!free_array_off
    <2>4. Ti!free_array_off(MaxCached) \in Int
      <3>1. MaxCached \div 2 \in Nat /\ MaxCached \div 4 \in Nat
        BY <2>1, QuotientRange
      <3>2. MaxCached <= 4 \/ MaxCached \in 5..16 \/ MaxCached > 16
        BY <2>1
      <3>. QED
        BY <2>1, <3>1, <3>2 DEF Ti!free_array_off
    <2>. QED
      BY <2>2, <2>3, <2>4 DEF Ti!Buckets
  <1>3. \A f \in H : B(f) \in Nat
    <2>1. \A f \in H : f \in Int
      BY <1>1
    <2>. HIDE DEF H
    <2>. QED
      BY <1>2, <2>1, RemainderRange
  <1>. HIDE DEF H
  <1>4. K \in SUBSET Nat /\ K # {}
    BY <1>3 DEF H
  <1>5. k \in K /\ \A j \in K : k <= j
    <2>. HIDE DEF K
    <2>. QED
      BY <1>4, MinIsLeast
  <1>6. F \in SUBSET Nat /\ F # {}
    <2>. HIDE DEF k
    <2>. QED
      BY <1>1, <1>5
  <1>7. PICK f \in F : \A g \in F : f <= g
    <2>. HIDE DEF F
    <2>. QED
      BY <1>6, HasLeast
  <1>8. \A g \in H : B(f) < B(g) \/ (B(f) = B(g) /\ f <= g)
    <2>. SUFFICES ASSUME NEW g \in H
                  PROVE  B(f) < B(g) \/ (B(f) = B(g) /\ f <= g)
      OBVIOUS
    <2>1. B(f) = k /\ f \in H
      BY <1>7
    <2>2. k <= B(g) /\ B(g) \in Nat /\ k \in Nat
      <3>1. B(g) \in K
        OBVIOUS
      <3>. HIDE DEF K, k, B
      <3>. QED
        BY <1>3, <1>4, <1>5, <3>1
    <2>3. CASE B(g) = k
      BY <1>7, <2>1, <2>3
    <2>4. CASE B(g) # k
      <3>. HIDE DEF k, B
      <3>. QED
        BY <2>1, <2>2, <2>4
    <2>. QED
      BY <2>3, <2>4
  <1>9. \E e \in Ti!Hits(n) : \A g \in Ti!Hits(n) :
            \/ e % Ti!Buckets < g % Ti!Buckets
            \/ e % Ti!Buckets = g % Ti!Buckets /\ e <= g
    BY <1>7, <1>8 DEF H
  <1>. QED
    BY <1>9, Zenon DEF Ti!FirstHit

(* What a step does to what the callers hold.                              *)
TinyGives(p, n) == /\ p \notin DOMAIN tinyHeld
                   /\ tinyHeld' = Ti!With(tinyHeld, p, n)

TinySeen ==
    \/ \E p, n : TinyGives(p, n)
    \/ \E p \in DOMAIN tinyHeld : tinyHeld' = [q \in DOMAIN tinyHeld \ {p} |-> tinyHeld[q]]
    \/ tinyHeld' = [q \in {} |-> 0]
    \/ tinyHeld' = tinyHeld

(* One free block over all, nothing cached and nothing held.               *)
LEMMA StartGood ==
    ASSUME NEW bs, bs = [o \in {TinyStart} |-> [len |-> TinySize - o, free |-> TRUE]],
           NEW H, H = [q \in {} |-> 0]
    PROVE  TinyGood(bs, Ti!EmptyCache, H)
  <1>1. TinyStart \in Nat /\ TinySize \in Nat /\ TinyStart + 2 <= TinySize
    BY TinyConstants
  <1>2. DOMAIN bs = {TinyStart} /\ bs[TinyStart] = [len |-> TinySize - TinyStart, free |-> TRUE]
    OBVIOUS
  <1>3. bs[TinyStart].len = TinySize - TinyStart /\ bs[TinyStart].free = TRUE
    BY <1>2
  <1>4. bs[TinyStart] \in TinyBlock
    <2>. DEFINE yes == TRUE
                n == TinySize - TinyStart
    <2>1. yes \in BOOLEAN /\ n \in Nat /\ bs[TinyStart] = [len |-> n, free |-> yes]
      BY <1>1, <1>2
    <2>. HIDE DEF yes, n
    <2>. QED
      BY <2>1 DEF TinyBlock
  <1>5. bs = [o \in {TinyStart} |-> bs[o]]
    OBVIOUS
  <1>6. bs \in [DOMAIN bs -> TinyBlock]
    BY <1>2, <1>4, <1>5
  <1>7. CutUp(bs)
    BY <1>1, <1>2, <1>3, <1>6 DEF CutUp
  <1>8. DOMAIN H = {}
    OBVIOUS
  <1>9. Owned(bs, H)
    BY <1>2, <1>3, <1>8 DEF Owned
  <1>. QED
    BY <1>7, <1>9, EmptyCached DEF TinyGood

LEMMA TakesGood ==
    ASSUME TinyFits, NEW bs, NEW c, TinyGood(bs, c, tinyHeld), NEW off, NEW n \in TinyAsked,
           off \in Ti!Fits(bs, n), \A f \in Ti!Slots : c[f] # 0 => c[f] # off,
           Ti!Takes(bs, c, off, n)
    PROVE  TinyInv' /\ TinySeen
  <1>. DEFINE t == Ti!Placed(bs, c, off, n)
              K == Ti!With(tinyHeld, t.at, n)
  <1>1. off \in DOMAIN bs /\ bs[off].free /\ Ti!long_enough(off, bs[off].len, n)
    BY DEF Ti!Fits
  <1>2. blocks' = t.blocks /\ cache' = t.cache /\ tinyHeld' = K
    BY DEF Ti!Takes
  <1>3. t.at \notin DOMAIN tinyHeld /\ TinyGood(t.blocks, t.cache, K)
    BY <1>1, PlacedGood
  <1>. HIDE DEF t
  <1>. QED
    BY <1>2, <1>3 DEF TinyInv, TinySeen, TinyGives

LEMMA FitsAre ==
    ASSUME NEW bs, CutUp(bs), NEW n
    PROVE  Ti!Fits(bs, n) \in SUBSET Nat /\ Ti!Fits(bs, n) \subseteq DOMAIN bs
  BY DEF CutUp, Ti!Fits

(* The header that free finds is that of the block the data is in.         *)
LEMMA TinyMax == \A S : Ti!Max(S) = Max(S)
  BY Zenon DEF Ti!Max, Max

LEMMA ToHdr ==
    ASSUME CutUp(blocks), NEW o \in DOMAIN blocks, NEW p \in Nat,
           o < p, p < o + blocks[o].len
    PROVE  Ti!to_hdr(p) = o
  <1>. DEFINE S == {q \in DOMAIN blocks : q < p}
  <1>1. /\ o \in Nat /\ blocks[o].len \in Nat
        /\ \A q \in DOMAIN blocks : q \in Nat /\ (o < q => o + blocks[o].len <= q)
    BY CutAt
  <1>2. o \in S /\ \A q \in S : o >= q
    BY <1>1
  <1>3. S \subseteq Nat
    BY <1>1
  <1>. HIDE DEF S
  <1>4. \E x \in S : \A y \in S : x >= y
    BY <1>2
  <1>5. Max(S) \in S /\ \A y \in S : Max(S) >= y
    BY <1>4, Zenon DEF Max
  <1>6. Max(S) = o
    BY <1>1, <1>2, <1>3, <1>5
  <1>. QED
    BY <1>6, TinyMax DEF Ti!to_hdr, S

LEMMA HeldAt ==
    ASSUME TinyInv, NEW p \in DOMAIN tinyHeld
    PROVE  /\ p \in Nat /\ tinyHeld[p] \in TinyAsked
           /\ Ti!to_hdr(p) \in DOMAIN blocks /\ ~ blocks[Ti!to_hdr(p)].free
           /\ Houses(blocks, Ti!to_hdr(p), p, tinyHeld[p])
  <1>1. CutUp(blocks) /\ Owned(blocks, tinyHeld)
    BY DEF TinyInv, TinyGood
  <1>2. p \in Nat /\ tinyHeld[p] \in TinyAsked
    BY <1>1, OwnedAt
  <1>3. PICK o \in DOMAIN blocks : ~ blocks[o].free /\ Houses(blocks, o, p, tinyHeld[p])
    BY <1>1, OwnedAt
  <1>4. o < p /\ p < o + blocks[o].len
    BY <1>1, <1>2, <1>3, HousedInside
  <1>5. Ti!to_hdr(p) = o
    BY <1>1, <1>2, <1>4, ToHdr
  <1>. QED
    BY <1>2, <1>3, <1>5

LEMMA TinyStep ==
    ASSUME TinyFits, TinyInv, Ti!Next \/ UNCHANGED tinyVars
    PROVE  TinyInv' /\ TinySeen
  <1>. DEFINE m == Ti!Merged(blocks)
  <1>1. CutUp(blocks) /\ Cached(blocks, cache) /\ Owned(blocks, tinyHeld)
    BY DEF TinyInv, TinyGood
  <1>2. CutUp(m) /\ Owned(m, tinyHeld)
    <2>1. CutUp(m) /\ SameUsedBlocks(blocks, m)
      BY <1>1, MergedIs
    <2>. HIDE DEF m
    <2>. QED
      BY <1>1, <2>1, SameOwned
  <1>3. ASSUME NEW n \in TinyAsked, Ti!GetCached(n)
        PROVE  TinyInv' /\ TinySeen
    <2>. DEFINE f == Ti!FirstHit(n)
                c == [cache EXCEPT ![f] = 0]
                off == cache[f]
    <2>1. f \in Ti!Hits(n) /\ Ti!Takes(blocks, c, off, n)
      BY <1>3, FirstHitIs DEF Ti!GetCached
    <2>2. /\ f \in Ti!Slots /\ cache[f] # 0
          /\ Ti!long_enough(off, blocks[off].len, n)
      BY <2>1 DEF Ti!Hits
    <2>. HIDE DEF f
    <2>3. Cached(blocks, c) /\ \A g \in Ti!Slots : c[g] # 0 => c[g] # off
      BY <1>1, <2>2, SlotRemoved
    <2>4. off \in DOMAIN blocks /\ blocks[off].free
      BY <1>1, <2>2, CachedAt
    <2>5. off \in Ti!Fits(blocks, n)
      BY <2>2, <2>4 DEF Ti!Fits
    <2>6. TinyGood(blocks, c, tinyHeld)
      BY <1>1, <2>3 DEF TinyGood
    <2>. HIDE DEF c, off
    <2>. QED
      BY <2>1, <2>3, <2>5, <2>6, TakesGood
  <1>4. ASSUME NEW n \in TinyAsked, Ti!GetWalked(n)
        PROVE  TinyInv' /\ TinySeen
    <2>. DEFINE F == Ti!Fits(blocks, n)
                off == Min(F)
    <2>1. Ti!Hits(n) = {} /\ F # {} /\ Ti!Takes(blocks, cache, off, n)
      BY <1>4, TinyMin DEF Ti!GetWalked
    <2>2. F \in SUBSET Nat
      BY <1>1, FitsAre
    <2>3. off \in F
      <3>. HIDE DEF F
      <3>. QED
        BY <2>1, <2>2, MinIsLeast
    <2>. HIDE DEF off
    <2>4. \A f \in Ti!Slots : cache[f] # 0 => cache[f] # off
      BY <2>1, <2>3, MissedUncached
    <2>. QED
      BY <2>1, <2>3, <2>4, TakesGood DEF TinyInv
  <1>5. ASSUME NEW n \in TinyAsked, Ti!GetCoalesced(n)
        PROVE  TinyInv' /\ TinySeen
    <2>. DEFINE F == Ti!Fits(m, n)
                off == Min(F)
                c == Ti!Refilled(m, off)
    <2>1. F # {} /\ Ti!Takes(m, c, off, n)
      BY <1>5, TinyMin DEF Ti!GetCoalesced
    <2>. HIDE DEF m
    <2>2. F \in SUBSET Nat /\ F \subseteq DOMAIN m
      BY <1>2, FitsAre
    <2>3. off \in F
      <3>. HIDE DEF F
      <3>. QED
        BY <2>1, <2>2, MinIsLeast
    <2>. HIDE DEF off
    <2>4. off \in 0..TinySize
      <3>1. off \in DOMAIN m
        BY <2>2, <2>3
      <3>2. off \in Nat /\ m[off].len \in Nat /\ off + m[off].len <= TinySize
        BY <1>2, <3>1, CutAt
      <3>. QED
        BY <3>2, TinyConstants
    <2>5. Cached(m, c) /\ \A f \in Ti!Slots : c[f] # 0 => c[f] < off
      <3>1. c = Ti!Walked(m, Ti!EmptyCache, off)
        BY DEF Ti!Refilled
      <3>. HIDE DEF c
      <3>. QED
        BY <1>2, <2>4, <3>1, WalkedCached
    <2>. HIDE DEF c
    <2>6. \A f \in Ti!Slots : c[f] # 0 => c[f] # off
      <3>1. \A f \in Ti!Slots : c[f] \in Nat
        BY <2>5 DEF Cached
      <3>. QED
        BY <2>4, <2>5, <3>1
    <2>7. TinyGood(m, c, tinyHeld)
      BY <1>2, <2>5 DEF TinyGood
    <2>. QED
      BY <2>1, <2>3, <2>6, <2>7, TakesGood
  <1>6. ASSUME NEW n \in TinyAsked, Ti!GetFails(n)
        PROVE  TinyInv' /\ TinySeen
    <2>1. /\ blocks' = m /\ tinyHeld' = tinyHeld
          /\ cache' = IF m = blocks THEN cache ELSE Ti!Refilled(m, TinySize)
      BY <1>6 DEF Ti!GetFails
    <2>. HIDE DEF m
    <2>2. Cached(m, cache')
      <3>1. CASE m = blocks
        BY <1>1, <2>1, <3>1
      <3>2. CASE m # blocks
        <4>1. cache' = Ti!Walked(m, Ti!EmptyCache, TinySize) /\ TinySize \in 0..TinySize
          BY <2>1, <3>2, TinyConstants DEF Ti!Refilled
        <4>. QED
          BY <1>2, <4>1, WalkedCached
      <3>. QED
        BY <3>1, <3>2
    <2>3. TinyGood(blocks', cache', tinyHeld')
      BY <1>2, <2>1, <2>2 DEF TinyGood
    <2>. QED
      BY <2>1, <2>3 DEF TinyInv, TinySeen
  <1>7. ASSUME NEW p \in DOMAIN tinyHeld, Ti!Free(p)
        PROVE  TinyInv' /\ TinySeen
    <2>. DEFINE o == Ti!to_hdr(p)
                cs == [blocks EXCEPT ![o].free = TRUE]
                K == [q \in DOMAIN tinyHeld \ {p} |-> tinyHeld[q]]
                d == Ti!Added(cache, blocks[o].len, o)
    <2>1. blocks' = cs /\ cache' = d /\ tinyHeld' = K
      BY <1>7 DEF Ti!Free
    <2>2. o \in DOMAIN blocks /\ ~ blocks[o].free /\ Houses(blocks, o, p, tinyHeld[p])
      BY HeldAt
    <2>. HIDE DEF o
    <2>3. /\ CutUp(cs) /\ DOMAIN cs = DOMAIN blocks /\ cs[o].free
          /\ \A q \in DOMAIN blocks : q # o => cs[q] = blocks[q]
          /\ \A q \in DOMAIN blocks : cs[q].len = blocks[q].len
      <3>. DEFINE yes == TRUE
      <3>1. yes \in BOOLEAN /\ cs = [blocks EXCEPT ![o].free = yes]
        OBVIOUS
      <3>. HIDE DEF yes, cs
      <3>2. CutUp(cs)
        BY <1>1, <2>2, <3>1, FlagCut
      <3>3. DOMAIN cs = DOMAIN blocks /\ \A q \in DOMAIN blocks : q # o => cs[q] = blocks[q]
        BY <1>1, <2>2, <3>1, FlagCut
      <3>4. cs[o] = [len |-> blocks[o].len, free |-> yes]
        BY <1>1, <2>2, <3>1, FlagCut
      <3>5. \A q \in DOMAIN blocks : cs[q].len = blocks[q].len
        BY <1>1, <2>2, <3>1, FlagCut
      <3>6. cs[o].free = yes
        BY <3>4
      <3>. QED
        BY <3>2, <3>3, <3>5, <3>6 DEF yes
    <2>. HIDE DEF cs
    <2>4. Owned(cs, K)
      <3>1. K = [q \in DOMAIN tinyHeld \ {p} |-> tinyHeld[q]]
        OBVIOUS
      <3>. HIDE DEF K
      <3>. QED
        BY <1>1, <2>2, <2>3, <3>1, FreedOwned
    <2>5. \A f \in Ti!Slots : cache[f] # 0 => cache[f] \in DOMAIN blocks /\ cache[f] # o
      BY <1>1, <2>2, CachedAt
    <2>6. Cached(cs, cache)
      <3>1. \A f \in Ti!Slots : cache[f] # 0 =>
               cache[f] \in DOMAIN cs /\ cs[cache[f]] = blocks[cache[f]]
        BY <2>3, <2>5
      <3>. QED
        BY <1>1, <3>1, CachedKept
    <2>7. Cached(cs, d)
      <3>1. d = Ti!Added(cache, cs[o].len, o) /\ o \in DOMAIN cs /\ cs[o].free
        BY <2>2, <2>3
      <3>. HIDE DEF d
      <3>. QED
        BY <2>3, <2>5, <2>6, <3>1, AddedCached
    <2>8. TinyGood(cs, d, K)
      BY <2>3, <2>4, <2>7 DEF TinyGood
    <2>. HIDE DEF d
    <2>. QED
      BY <2>1, <2>8 DEF TinyInv, TinySeen
  <1>8. CASE Ti!Reset
    <2>1. /\ blocks' = [o \in {TinyStart} |-> [len |-> TinySize - o, free |-> TRUE]]
          /\ cache' = Ti!EmptyCache /\ tinyHeld' = [q \in {} |-> 0]
      BY <1>8 DEF Ti!Reset, TinyStart
    <2>2. TinyGood(blocks', Ti!EmptyCache, tinyHeld')
      BY <2>1, StartGood
    <2>. QED
      BY <2>1, <2>2 DEF TinyInv, TinySeen
  <1>9. CASE UNCHANGED tinyVars
    BY <1>9 DEF tinyVars, TinyInv, TinySeen
  <1>. HIDE DEF m
  <1>10. CASE Ti!Next
    BY <1>3, <1>4, <1>5, <1>6, <1>7, <1>8, <1>10 DEF Ti!Next
  <1>. QED
    BY <1>9, <1>10

LEMMA TinyAlways == ASSUME TinyFits PROVE Spec => []TinyInv
  <1>1. Init => TinyInv
    <2>1. Init => /\ blocks = [o \in {TinyStart} |-> [len |-> TinySize - o, free |-> TRUE]]
                  /\ cache = Ti!EmptyCache /\ tinyHeld = [q \in {} |-> 0]
      BY DEF Init, Ti!Init, TinyStart
    <2>. QED
      BY <2>1, StartGood DEF TinyInv
  <1>2. TinyInv /\ [Next]_vars => TinyInv'
    <2>. SUFFICES ASSUME TinyInv, [Next]_vars
                  PROVE  TinyInv'
      OBVIOUS
    <2>1. Ti!Next \/ UNCHANGED tinyVars
      BY DEF Next, vars, SLAB, NOFREE, SIMPLE, BUFFER, LARGE_BUFFER
    <2>. QED
      BY <2>1, TinyStep
  <1>. QED
    BY <1>1, <1>2, PTL DEF Spec

------------------------------------------------------------------------------
(* Headers and data stay behind the free array and in the buffer.          *)
THEOREM TinyTyped == ASSUME TinyFits PROVE Spec => []Ti!TypeOK
  <1>1. TinyInv => Ti!TypeOK
    <2>. SUFFICES ASSUME TinyInv
                  PROVE  Ti!TypeOK
      OBVIOUS
    <2>1. CutUp(blocks) /\ Cached(blocks, cache) /\ Owned(blocks, tinyHeld)
      BY DEF TinyInv, TinyGood
    <2>2. TinySize \in Nat /\ TinyStart \in Nat /\ TinyStart + 2 <= TinySize
      BY TinyConstants
    <2>3. ASSUME NEW o \in DOMAIN blocks
          PROVE  /\ o \in TinyStart..(TinySize - 2)
                 /\ blocks[o] \in [len : 2..TinySize, free : BOOLEAN]
      <3>1. /\ o \in Nat /\ blocks[o].len \in Nat /\ blocks[o].len >= 2 /\ TinyStart <= o
            /\ blocks[o].free \in BOOLEAN /\ o + blocks[o].len <= TinySize
            /\ blocks[o] = [len |-> blocks[o].len, free |-> blocks[o].free]
        BY <2>1, CutAt
      <3>2. o \in TinyStart..(TinySize - 2) /\ blocks[o].len \in 2..TinySize
        BY <2>2, <3>1
      <3>. QED
        BY <3>1, <3>2
    <2>4. cache \in [Ti!Slots -> 0..(TinySize - 1)]
      <3>1. ASSUME NEW f \in Ti!Slots
            PROVE  cache[f] \in 0..(TinySize - 1)
        <4>1. CASE cache[f] = 0
          BY <2>2, <4>1
        <4>2. CASE cache[f] # 0
          <5>1. cache[f] \in TinyStart..(TinySize - 2)
            BY <2>1, <2>3, <4>2, CachedAt
          <5>. QED
            BY <2>2, <5>1
        <4>. QED
          BY <4>1, <4>2
      <3>2. cache = [f \in Ti!Slots |-> cache[f]]
        BY <2>1 DEF Cached
      <3>. QED
        BY <3>1, <3>2
    <2>5. ASSUME NEW p \in DOMAIN tinyHeld
          PROVE  p \in 0..(TinySize - 1)
      <3>1. PICK o \in DOMAIN blocks : Houses(blocks, o, p, tinyHeld[p])
        BY <2>1, OwnedAt
      <3>2. p \in Nat /\ tinyHeld[p] \in TinyAsked
        BY <2>1, OwnedAt
      <3>3. p < o + blocks[o].len /\ o + blocks[o].len <= TinySize
        BY <2>1, <3>1, <3>2, HousedInside
      <3>4. o + blocks[o].len \in Nat
        <4>1. o \in Nat /\ blocks[o].len \in Nat
          BY <2>1, CutAt
        <4>. QED
          BY <4>1
      <3>. QED
        BY <2>2, <3>2, <3>3, <3>4
    <2>. QED
      BY <2>3, <2>4, <2>5 DEF Ti!TypeOK, Ti!MIN_BLOCK_SIZE, TinyStart
  <1>. QED
    BY <1>1, TinyAlways, PTL

(* An entry of the free array always names a free block of the length its  *)
(* bucket stands for, so that tiny_alloc_get may trust it.                 *)
THEOREM TinyCacheExact == ASSUME TinyFits PROVE Spec => []CacheExact
  <1>1. TinyInv => CacheExact
    BY DEF TinyInv, TinyGood, Cached, CacheExact, Ti!CacheExact
  <1>. QED
    BY <1>1, TinyAlways, PTL

(* Data is aligned, behind its header and inside its block.                *)
THEOREM TinyDataApart == ASSUME TinyFits PROVE Spec => []Ti!DataApart
  <1>1. TinyInv => Ti!DataApart
    <2>. SUFFICES ASSUME TinyInv, NEW p \in DOMAIN tinyHeld
                  PROVE  /\ p % Word = 0
                         /\ Ti!to_hdr(p) + Ti!HeaderBytes(blocks[Ti!to_hdr(p)].len) <= p
                         /\ p + tinyHeld[p] <= Ti!to_hdr(p) + blocks[Ti!to_hdr(p)].len
      BY DEF Ti!DataApart
    <2>. QED
      BY HeldAt DEF Houses, Bytes
  <1>. QED
    BY <1>1, TinyAlways, PTL

LEMMA TinyCardinality == \A S : Ti!Cardinality(S) = Cardinality(S)
  BY DEF Ti!Cardinality, Cardinality

(* Where a block starts, but for the first, and where the buffer ends, one *)
(* block ends.                                                             *)
LEMMA EndsOnce ==
    ASSUME NEW bs, CutUp(bs), NEW x \in (DOMAIN bs \ {TinyStart}) \cup {TinySize}
    PROVE  \E o \in DOMAIN bs : {q \in DOMAIN bs : q + bs[q].len = x} = {o}
  <1>. DEFINE Gaps == {x - q : q \in {r \in DOMAIN bs : r < x}}
  <1>1. /\ TinyStart \in DOMAIN bs /\ TinyStart \in Nat /\ TinySize \in Nat
        /\ TinyStart + 2 <= TinySize
        /\ \A o \in DOMAIN bs :
              /\ o \in Nat /\ TinyStart <= o /\ bs[o].len \in Nat /\ bs[o].len >= 2
              /\ o + bs[o].len \in DOMAIN bs \cup {TinySize} /\ o + bs[o].len <= TinySize
              /\ \A q \in DOMAIN bs : o < q => o + bs[o].len <= q
    BY CutAt, TinyConstants DEF CutUp
  <1>2. x \in Nat /\ TinyStart < x /\ x <= TinySize
    <2>1. CASE x = TinySize
      BY <1>1, <2>1
    <2>2. CASE x # TinySize
      <3>1. x \in DOMAIN bs /\ x # TinyStart
        BY <2>2
      <3>2. x \in Nat /\ TinyStart <= x /\ bs[x].len \in Nat /\ x + bs[x].len <= TinySize
        BY <1>1, <3>1
      <3>. QED
        BY <1>1, <3>1, <3>2
    <2>. QED
      BY <2>1, <2>2
  <1>3. Gaps \in SUBSET Nat /\ Gaps # {}
    BY <1>1, <1>2
  <1>4. PICK g \in Gaps : \A h \in Gaps : g <= h
    <2>. HIDE DEF Gaps
    <2>. QED
      BY <1>3, HasLeast
  <1>5. PICK o \in DOMAIN bs : o < x /\ g = x - o
    BY <1>4
  <1>6. \A q \in DOMAIN bs : q < x => q <= o
    <2>. SUFFICES ASSUME NEW q \in DOMAIN bs, q < x
                  PROVE  q <= o
      OBVIOUS
    <2>1. g <= x - q
      BY <1>4
    <2>2. q \in Nat /\ o \in Nat
      BY <1>1
    <2>. QED
      BY <1>2, <1>5, <2>1, <2>2
  <1>7. o + bs[o].len = x
    <2>. DEFINE e == o + bs[o].len
    <2>1. o < e /\ e <= x /\ e \in DOMAIN bs \cup {TinySize} /\ e \in Nat /\ e <= TinySize
      <3>1. e <= x
        <4>1. CASE x = TinySize
          BY <1>1, <4>1
        <4>2. CASE x # TinySize
          BY <1>1, <1>5, <4>2
        <4>. QED
          BY <4>1, <4>2
      <3>. QED
        BY <1>1, <3>1
    <2>. HIDE DEF e
    <2>2. ~ (e < x)
      <3>. SUFFICES ASSUME e < x
                    PROVE  FALSE
        OBVIOUS
      <3>1. e \in DOMAIN bs
        BY <1>1, <1>2, <2>1
      <3>2. e <= o
        BY <1>6, <3>1
      <3>. QED
        BY <1>1, <2>1, <3>2
    <2>3. e = x
      BY <1>2, <2>1, <2>2
    <2>. QED
      BY <2>3 DEF e
  <1>8. \A q \in DOMAIN bs : q + bs[q].len = x => q = o
    <2>. SUFFICES ASSUME NEW q \in DOMAIN bs, q + bs[q].len = x, q # o
                  PROVE  FALSE
      OBVIOUS
    <2>1. (q < o \/ o < q) /\ q \in Nat /\ o \in Nat
      <3>1. q \in Nat /\ o \in Nat
        BY <1>1
      <3>. QED
        BY <3>1
    <2>2. q < o => q + bs[q].len <= o
      BY <1>1
    <2>3. o < q => o + bs[o].len <= q
      BY <1>1
    <2>. QED
      BY <1>1, <1>2, <1>7, <2>1, <2>2, <2>3
  <1>. HIDE DEF Gaps
  <1>9. {q \in DOMAIN bs : q + bs[q].len = x} = {o}
    BY <1>7, <1>8
  <1>. QED
    BY <1>9

(* Headers tile the buffer, and the blocks that are not free are exactly   *)
(* what the callers hold, one block each.                                  *)
THEOREM TinyBlocksTiled == ASSUME TinyFits PROVE Spec => []Ti!BlocksTiled
  <1>1. TinyInv => Ti!BlocksTiled
    <2>. SUFFICES ASSUME TinyInv
                  PROVE  Ti!BlocksTiled
      OBVIOUS
    <2>1. CutUp(blocks) /\ Owned(blocks, tinyHeld)
      BY DEF TinyInv, TinyGood
    <2>2. ASSUME NEW x \in (DOMAIN blocks \ {TinyStart}) \cup {TinySize}
          PROVE  Cardinality({q \in DOMAIN blocks : q + blocks[q].len = x}) = 1
      <3>1. PICK o \in DOMAIN blocks : {q \in DOMAIN blocks : q + blocks[q].len = x} = {o}
        BY <2>1, EndsOnce
      <3>. QED
        BY <3>1, FS_Singleton
    <2>3. \A q \in DOMAIN blocks : q + blocks[q].len \in DOMAIN blocks \cup {TinySize}
      BY <2>1, CutAt
    <2>4. \A p \in DOMAIN tinyHeld :
             /\ p \in Nat /\ tinyHeld[p] \in TinyAsked
             /\ Ti!to_hdr(p) \in DOMAIN blocks /\ ~ blocks[Ti!to_hdr(p)].free
             /\ Houses(blocks, Ti!to_hdr(p), p, tinyHeld[p])
      BY HeldAt
    <2>5. \A o \in DOMAIN blocks : ~ blocks[o].free => \E p \in DOMAIN tinyHeld : o = Ti!to_hdr(p)
      <3>. SUFFICES ASSUME NEW o \in DOMAIN blocks, ~ blocks[o].free
                    PROVE  \E p \in DOMAIN tinyHeld : o = Ti!to_hdr(p)
        OBVIOUS
      <3>1. PICK p \in DOMAIN tinyHeld : Houses(blocks, o, p, tinyHeld[p])
        BY <2>1 DEF Owned
      <3>2. o = Ti!to_hdr(p)
        BY <2>1, <2>4, <3>1, HousedOnce
      <3>. QED
        BY <3>2
    <2>6. {o \in DOMAIN blocks : ~ blocks[o].free} = {Ti!to_hdr(p) : p \in DOMAIN tinyHeld}
      BY <2>4, <2>5
    <2>7. ASSUME NEW p \in DOMAIN tinyHeld, NEW q \in DOMAIN tinyHeld, p # q
          PROVE  Ti!to_hdr(p) # Ti!to_hdr(q)
      <3>. SUFFICES ASSUME Ti!to_hdr(p) = Ti!to_hdr(q)
                    PROVE  FALSE
        OBVIOUS
      <3>1. /\ Houses(blocks, Ti!to_hdr(p), p, tinyHeld[p])
            /\ Houses(blocks, Ti!to_hdr(p), q, tinyHeld[q]) /\ Ti!to_hdr(p) \in DOMAIN blocks
        BY <2>4
      <3>. QED
        BY <2>1, <2>7, <3>1 DEF Owned
    <2>. QED
      BY <2>2, <2>3, <2>6, <2>7, TinyCardinality DEF Ti!BlocksTiled, TinyStart
  <1>. QED
    BY <1>1, TinyAlways, PTL

(* Each allocator's bytes are tiled: memmgr.c's pool by blocks free and    *)
(* handed out, tiny.c's buffer by headers, one block per caller.           *)
THEOREM BlocksTileBuffers == ASSUME SimpleFits, TinyFits PROVE Spec => []PoolTiled
  <1>1. Si!PoolTiled /\ Ti!BlocksTiled => PoolTiled
    BY DEF PoolTiled
  <1>. QED
    BY <1>1, SimplePoolTiled, TinyBlocksTiled, PTL

------------------------------------------------------------------------------
(* tiny.c as an allocator.                                                 *)
TinyExtent(p) == [off |-> p, len |-> tinyHeld[p]]

TinyLive == {TinyExtent(p) : p \in DOMAIN tinyHeld}

TinyApart ==
    \A p \in DOMAIN tinyHeld :
        /\ TinyExtent(p) \in Ti!Abs!Extents
        /\ p + tinyHeld[p] <= TinySize
        /\ \A q \in DOMAIN tinyHeld : q # p => ~ Ti!Abs!Overlap(TinyExtent(p), TinyExtent(q))

LEMMA TinyExtents == TinyInv => TinyApart
  <1>. SUFFICES ASSUME TinyInv, NEW p \in DOMAIN tinyHeld
                PROVE  /\ TinyExtent(p) \in Ti!Abs!Extents
                       /\ p + tinyHeld[p] <= TinySize
                       /\ \A q \in DOMAIN tinyHeld :
                             q # p => ~ Ti!Abs!Overlap(TinyExtent(p), TinyExtent(q))
    BY DEF TinyApart
  <1>1. CutUp(blocks) /\ Owned(blocks, tinyHeld)
    BY DEF TinyInv, TinyGood
  <1>. DEFINE h(q) == Ti!to_hdr(q)
  <1>2. \A q \in DOMAIN tinyHeld :
           /\ q \in Nat /\ tinyHeld[q] \in TinyAsked /\ h(q) \in DOMAIN blocks
           /\ Houses(blocks, h(q), q, tinyHeld[q])
    BY HeldAt
  <1>. HIDE DEF h
  <1>3. \A q \in DOMAIN tinyHeld :
           /\ h(q) < q /\ q < h(q) + blocks[h(q)].len
           /\ q + tinyHeld[q] <= h(q) + blocks[h(q)].len
           /\ h(q) + blocks[h(q)].len <= TinySize
    BY <1>1, <1>2, HousedInside
  <1>4. \A q \in DOMAIN tinyHeld : /\ h(q) \in Nat /\ blocks[h(q)].len \in Nat
                                   /\ tinyHeld[q] \in Nat \ {0}
    BY <1>1, <1>2, CutAt, AskedIs
  <1>5. TinySize \in Nat
    BY TinyConstants
  <1>6. p \in 0..(TinySize - 1) /\ p + tinyHeld[p] <= TinySize
    BY <1>2, <1>3, <1>4, <1>5
  <1>7. ASSUME NEW q \in DOMAIN tinyHeld, q # p
        PROVE  ~ Ti!Abs!Overlap(TinyExtent(p), TinyExtent(q))
    <2>1. h(p) # h(q)
      <3>. SUFFICES ASSUME h(p) = h(q)
                    PROVE  FALSE
        OBVIOUS
      <3>1. Houses(blocks, h(p), p, tinyHeld[p]) /\ Houses(blocks, h(p), q, tinyHeld[q])
        BY <1>2
      <3>. QED
        BY <1>1, <1>2, <1>7, <3>1 DEF Owned
    <2>2. \A a, b \in DOMAIN blocks : a < b => a + blocks[a].len <= b
      BY <1>1, CutAt
    <2>3. h(p) + blocks[h(p)].len <= h(q) \/ h(q) + blocks[h(q)].len <= h(p)
      BY <1>2, <1>4, <2>1, <2>2
    <2>4. p + tinyHeld[p] <= q \/ q + tinyHeld[q] <= p
      BY <1>2, <1>3, <1>4, <2>3
    <2>5. p \in Nat /\ q \in Nat /\ tinyHeld[p] \in Nat /\ tinyHeld[q] \in Nat
      BY <1>2, <1>4
    <2>. QED
      BY <2>4, <2>5 DEF Ti!Abs!Overlap, TinyExtent
  <1>8. TinyExtent(p) \in Ti!Abs!Extents
    BY <1>2, <1>6 DEF TinyExtent, Ti!Abs!Extents
  <1>. QED
    BY <1>6, <1>7, <1>8

LEMMA TinyStepSeen ==
    ASSUME TinyInv, TinyInv', TinySeen
    PROVE  \/ \E e \in TinyLive : TinyLive' = TinyLive \ {e}
           \/ TinyLive' = {}
           \/ \E e \in Ti!Abs!Extents : /\ Ti!Abs!Vacant(e, TinyLive)
                                        /\ TinyLive' = TinyLive \cup {e}
           \/ TinyLive' = TinyLive
  <1>. DEFINE Later(p) == [off |-> p, len |-> tinyHeld'[p]]
  <1>1. TinyLive' = {Later(p) : p \in DOMAIN tinyHeld'}
    BY DEF TinyLive, TinyExtent
  <1>2. ASSUME NEW p, NEW n, TinyGives(p, n)
        PROVE  \E e \in Ti!Abs!Extents : /\ Ti!Abs!Vacant(e, TinyLive)
                                         /\ TinyLive' = TinyLive \cup {e}
    <2>1. p \notin DOMAIN tinyHeld /\ tinyHeld' = Ti!With(tinyHeld, p, n)
      BY <1>2 DEF TinyGives
    <2>2. DOMAIN tinyHeld' = DOMAIN tinyHeld \cup {p}
      BY <2>1, TinyWithDomain
    <2>3. \A q \in DOMAIN tinyHeld : q # p /\ tinyHeld'[q] = tinyHeld[q]
      <3>1. \A q \in DOMAIN tinyHeld : q # p
        BY <2>1
      <3>. QED
        BY <2>1, <3>1, TinyWithOld
    <2>4. \A q \in DOMAIN tinyHeld : Later(q) = TinyExtent(q)
      BY <2>3 DEF TinyExtent
    <2>5. TinyLive' = TinyLive \cup {Later(p)}
      BY <1>1, <2>2, <2>4 DEF TinyLive
    <2>6. TinyApart'
      <3>1. TinyInv' => TinyApart'
        BY TinyExtents, PTL
      <3>. QED
        BY <3>1
    <2>7. /\ Later(p) \in Ti!Abs!Extents /\ p + tinyHeld'[p] <= TinySize
          /\ \A q \in DOMAIN tinyHeld : ~ Ti!Abs!Overlap(Later(p), Later(q))
      <3>1. p \in DOMAIN tinyHeld' /\ \A q \in DOMAIN tinyHeld : q \in DOMAIN tinyHeld' /\ q # p
        BY <2>2, <2>3
      <3>. QED
        BY <2>6, <3>1 DEF TinyApart, TinyExtent, Ti!Abs!Overlap, Ti!Abs!Extents
    <2>8. Ti!Abs!Vacant(Later(p), TinyLive)
      <3>1. \A e \in TinyLive : ~ Ti!Abs!Overlap(Later(p), e)
        BY <2>4, <2>7 DEF TinyLive
      <3>2. Later(p).off + Later(p).len <= TinySize
        BY <2>7
      <3>. QED
        BY <3>1, <3>2 DEF Ti!Abs!Vacant
    <2>. QED
      BY <2>5, <2>7, <2>8
  <1>3. ASSUME NEW p \in DOMAIN tinyHeld,
               tinyHeld' = [q \in DOMAIN tinyHeld \ {p} |-> tinyHeld[q]]
        PROVE  \E e \in TinyLive : TinyLive' = TinyLive \ {e}
    <2>1. /\ DOMAIN tinyHeld' = DOMAIN tinyHeld \ {p}
          /\ \A q \in DOMAIN tinyHeld \ {p} : Later(q) = TinyExtent(q)
      BY <1>3 DEF TinyExtent
    <2>2. \A q \in DOMAIN tinyHeld \ {p} : TinyExtent(q) # TinyExtent(p)
      <3>. SUFFICES ASSUME NEW q \in DOMAIN tinyHeld \ {p}
                    PROVE  TinyExtent(q) # TinyExtent(p)
        OBVIOUS
      <3>1. TinyExtent(q).off = q /\ TinyExtent(p).off = p
        BY DEF TinyExtent
      <3>. QED
        BY <3>1
    <2>3. TinyLive' = {TinyExtent(q) : q \in DOMAIN tinyHeld \ {p}}
      BY <1>1, <2>1
    <2>4. TinyLive' = TinyLive \ {TinyExtent(p)} /\ TinyExtent(p) \in TinyLive
      BY <2>2, <2>3 DEF TinyLive
    <2>. QED
      BY <2>4
  <1>4. CASE tinyHeld' = [q \in {} |-> 0]
    <2>1. DOMAIN tinyHeld' = {}
      BY <1>4
    <2>. QED
      BY <1>1, <2>1
  <1>5. CASE tinyHeld' = tinyHeld
    BY <1>5 DEF TinyLive, TinyExtent
  <1>. QED
    BY <1>2, <1>3, <1>4, <1>5 DEF TinySeen

(* tiny.c implements the allocator interface: headers, the free array and  *)
(* joining are hidden, and no two callers' bytes meet.                     *)
THEOREM TinyImplements == ASSUME TinyFits PROVE Spec => Ti!Refinement
  <1>1. Init => Ti!Abs!Create
    <2>1. Init => DOMAIN tinyHeld = {}
      BY DEF Init, Ti!Init
    <2>. QED
      BY <2>1 DEF Ti!Abs!Create
  <1>2. TinyInv /\ [Next]_vars => [Ti!Abs!Next]_TinyLive
    <2>. SUFFICES ASSUME TinyInv, [Next]_vars
                  PROVE  Ti!Abs!Next \/ TinyLive' = TinyLive
      OBVIOUS
    <2>1. Ti!Next \/ UNCHANGED tinyVars
      BY DEF Next, vars, SLAB, NOFREE, SIMPLE, BUFFER, LARGE_BUFFER
    <2>2. TinyInv' /\ TinySeen
      BY <2>1, TinyStep
    <2>3. \/ \E e \in TinyLive : TinyLive' = TinyLive \ {e}
          \/ TinyLive' = {}
          \/ \E e \in Ti!Abs!Extents : /\ Ti!Abs!Vacant(e, TinyLive)
                                       /\ TinyLive' = TinyLive \cup {e}
          \/ TinyLive' = TinyLive
      BY <2>2, TinyStepSeen
    <2>. QED
      BY <2>3 DEF Ti!Abs!Next, Ti!Abs!Free, Ti!Abs!Reset, Ti!Abs!Malloc, TinyLive, TinyExtent
  <1>. QED
    BY <1>1, <1>2, TinyAlways, PTL DEF Spec, Ti!Refinement, Ti!Abs!Spec, TinyLive, TinyExtent

------------------------------------------------------------------------------
(* One more byte of data takes at most one more byte of header: where the  *)
(* length of the block gets longer by a bit, that of the next does not.    *)
LEMMA NeededNext ==
    ASSUME NEW x \in Nat \ {0}
    PROVE  Needed(x + 1) <= Needed(x) + 1
  <1>. DEFINE e == Needed(x)
              f == Needed(x + 1)
              v == x + e - 2
  <1>1. e \in Nat \ {0} /\ Bytes(x + e) = e
    BY NeededIs
  <1>2. x + 1 \in Nat \ {0}
    OBVIOUS
  <1>3. f \in Nat \ {0} /\ \A k \in Nat \ {0} : k < f => Bytes(x + 1 + k) > k
    BY <1>2, NeededIs
  <1>. HIDE DEF e, f
  <1>. SUFFICES ASSUME f > e + 1
                PROVE  FALSE
    BY <1>1, <1>3 DEF e, f
  <1>4. /\ x + e \in Nat /\ x + e >= 2 /\ x + e + 1 \in Nat
        /\ x + 1 + e = x + e + 1 /\ x + 1 + (e + 1) = (x + e + 1) + 1
    BY <1>1
  <1>5. Bytes((x + e + 1) + 1) > e + 1
    <2>1. e + 1 \in Nat \ {0} /\ e + 1 < f
      BY <1>1
    <2>. QED
      BY <1>3, <1>4, <2>1
  <1>6. /\ Bytes(x + e + 1) \in Nat /\ Bytes(x + e + 1) <= e + 1
        /\ Bytes((x + e + 1) + 1) \in Nat /\ Bytes((x + e + 1) + 1) <= Bytes(x + e + 1) + 1
    <2>1. Bytes((x + e) + 1) \in Nat /\ Bytes((x + e) + 1) <= Bytes(x + e) + 1
      BY <1>4, BytesGrow
    <2>2. x + e + 1 \in Nat /\ x + e + 1 >= 2 /\ x + e + 1 <= x + e + 1
      BY <1>4
    <2>3. Bytes((x + e + 1) + 1) \in Nat /\ Bytes((x + e + 1) + 1) <= Bytes(x + e + 1) + 1
      BY <2>2, BytesGrow
    <2>. QED
      BY <1>1, <2>1, <2>3
  <1>7. Bytes(x + e + 1) = e + 1 /\ Bytes((x + e + 1) + 1) = e + 2
    BY <1>1, <1>5, <1>6
  <1>8. /\ v \in Nat /\ v + 1 \in Nat /\ x + e - 2 = v /\ x + e + 1 - 2 = v + 1
        /\ (x + e + 1) + 1 - 2 = (v + 1) + 1
    <2>1. v = x + e - 2
      OBVIOUS
    <2>. HIDE DEF v
    <2>. QED
      BY <1>1, <2>1
  <1>. HIDE DEF v
  <1>9. \A z : Bytes(z) = Ti!encode_length(z - 2)
    BY DEF Bytes, Ti!HeaderBytes, Ti!MIN_BLOCK_SIZE
  <1>10. /\ Ti!encode_length(v) = e /\ Ti!encode_length(v + 1) = e + 1
         /\ Ti!encode_length((v + 1) + 1) = e + 2
    BY <1>1, <1>7, <1>8, <1>9
  <1>. DEFINE a == Ti!afls(v)
              b == Ti!afls(v + 1)
              c == Ti!afls((v + 1) + 1)
  <1>11. /\ a \in Nat /\ b \in Nat /\ c \in Nat
         /\ v < 2 ^ a /\ v + 1 < 2 ^ b
         /\ a <= b /\ b <= a + 1 /\ b <= c /\ c <= b + 1
         /\ (v + 1 < 2 ^ a => b <= a) /\ ((v + 1) + 1 < 2 ^ b => c <= b)
    <2>1. (v + 1) + 1 \in Nat /\ v <= v + 1 /\ v + 1 <= (v + 1) + 1
      BY <1>8
    <2>2. a \in Nat /\ v < 2 ^ a
      BY <1>8, AflsIs
    <2>3. b \in Nat /\ v + 1 < 2 ^ b /\ \A k \in Nat : v + 1 < 2 ^ k => b <= k
      BY <1>8, AflsIs
    <2>4. c \in Nat /\ \A k \in Nat : (v + 1) + 1 < 2 ^ k => c <= k
      BY <2>1, AflsIs
    <2>5. a <= b /\ b <= a + 1
      BY <1>8, <2>1, AflsGrows
    <2>6. b <= c /\ c <= b + 1
      BY <1>8, <2>1, AflsGrows
    <2>. HIDE DEF a, b, c
    <2>. QED
      BY <2>2, <2>3, <2>4, <2>5, <2>6
  <1>12. a # b /\ b # c
    <2>1. \A y, z \in Nat : Ti!afls(y) = Ti!afls(z) => Ti!encode_length(y) = Ti!encode_length(z)
      BY DEF Ti!encode_length
    <2>2. (v + 1) + 1 \in Nat
      BY <1>8
    <2>. QED
      BY <1>1, <1>8, <1>10, <2>1, <2>2
  <1>13. b = a + 1 /\ c = b + 1
    <2>. HIDE DEF a, b, c
    <2>. QED
      BY <1>11, <1>12
  <1>14. v = 0
    <2>1. 2 ^ a \in Nat /\ 2 ^ b = 2 * 2 ^ a
      BY <1>11, <1>13, PowerNext
    <2>. HIDE DEF a, b, c
    <2>2. v + 1 >= 2 ^ a /\ v + 2 >= 2 ^ b
      BY <1>8, <1>11, <1>13, <2>1
    <2>. QED
      BY <1>8, <1>11, <2>1, <2>2
  <1>15. Ti!afls(0) = 0 /\ Ti!afls(1) \in 0..1
    <2>1. Ti!afls(0) \in 0..0 /\ Ti!afls(1) \in 0..1
      BY AflsIs
    <2>. QED
      BY <2>1
  <1>16. Ti!encode_length(0) = 1 /\ Ti!encode_length(1) = 1
    <2>1. FirstBits \in Nat \ {0}
      BY TinyConstants
    <2>. QED
      BY <1>15, <2>1 DEF Ti!encode_length
  <1>17. Ti!encode_length(v + 1) = Ti!encode_length(v)
    BY <1>14, <1>16
  <1>. QED
    BY <1>1, <1>10, <1>17

LEMMA NeededSlow ==
    ASSUME NEW x \in Nat \ {0}, NEW d \in Nat
    PROVE  Needed(x + d) <= Needed(x) + d
  <1>. DEFINE S == {k \in Nat : Needed(x + k) <= Needed(x) + k}
  <1>1. Needed(x) \in Nat
    BY NeededIs
  <1>2. 0 \in S
    BY <1>1
  <1>3. ASSUME NEW k \in Nat, k \in S
        PROVE  k + 1 \in S
    <2>1. x + k \in Nat \ {0} /\ x + (k + 1) = (x + k) + 1 /\ (x + k) + 1 \in Nat \ {0}
      OBVIOUS
    <2>2. Needed((x + k) + 1) <= Needed(x + k) + 1
      BY <2>1, NeededNext
    <2>3. Needed(x + k) \in Nat /\ Needed((x + k) + 1) \in Nat
      BY <2>1, NeededIs
    <2>4. Needed(x + k) <= Needed(x) + k
      BY <1>3
    <2>5. Needed(x + (k + 1)) <= Needed(x) + (k + 1)
      BY <1>1, <2>1, <2>2, <2>3, <2>4
    <2>. QED
      BY <2>5
  <1>. HIDE DEF S
  <1>4. d \in S
    BY <1>2, <1>3, NatSetInduction
  <1>. QED
    BY <1>4 DEF S

(* What fits a part of a block with Word - 1 bytes to spare fits the block.*)
LEMMA PartFits ==
    ASSUME NEW o \in Nat, NEW e \in Nat, NEW a \in Nat, NEW b \in Nat,
           o <= a, a < b, b <= e, e <= TinySize,
           NEW n \in Nat \ {0}, Unwrapped(n), Unwrapped(n + Word - 1),
           Ti!long_enough(a, b - a, n + Word - 1)
    PROVE  Ti!long_enough(o, e - o, n)
  <1>. DEFINE x == b - a
              d == (a - o) + (e - b)
              u == Needed(x)
              w == Needed(e - o)
              p == Ti!AlignedUp(a + u)
              q == Ti!AlignedUp(o + w)
  <1>1. x \in Nat \ {0} /\ d \in Nat /\ e - o = x + d /\ e - o \in Nat \ {0} /\ Word \in Nat \ {0}
    BY TinyConstants
  <1>2. u \in Nat /\ w \in Nat /\ w <= u + d
    <2>1. u \in Nat
      BY <1>1, NeededIs
    <2>2. w \in Nat
      BY <1>1, NeededIs
    <2>3. w <= u + d
      <3>. HIDE DEF x, d
      <3>. QED
        BY <1>1, NeededSlow
    <2>. QED
      BY <2>1, <2>2, <2>3
  <1>3. p + (n + Word - 1) <= a + x
    <2>1. a + x <= TinySize /\ n + Word - 1 \in Nat /\ x = b - a
      BY <1>1, TinyConstants
    <2>2. Ti!AlignedUp(a + Needed(x)) = p
      OBVIOUS
    <2>. HIDE DEF x, p
    <2>. QED
      BY <1>1, <2>1, <2>2, LongEnoughIs
  <1>4. a + x = b /\ o + (e - o) = e
    OBVIOUS
  <1>. HIDE DEF u, w
  <1>5. a + u \in Nat /\ o + w \in Nat /\ o + w <= a + u + (e - b)
    BY <1>2
  <1>6. p \in Nat /\ p >= a + u
    BY <1>5, Aligned
  <1>7. q \in Nat /\ q <= o + w + Word - 1
    BY <1>5, Aligned
  <1>. HIDE DEF p, q
  <1>8. q + n <= e
    BY <1>1, <1>2, <1>3, <1>4, <1>5, <1>6, <1>7
  <1>9. q = Ti!AlignedUp(o + Needed(e - o))
    BY DEF q, w
  <1>10. o + (e - o) <= TinySize /\ e - o \in Nat \ {0}
    BY <1>1, <1>4
  <1>. DEFINE y == e - o
  <1>11. y \in Nat \ {0} /\ o + y <= TinySize /\ Ti!AlignedUp(o + Needed(y)) + n <= o + y
    BY <1>4, <1>8, <1>9, <1>10
  <1>. HIDE DEF y
  <1>12. Ti!long_enough(o, y, n)
    BY <1>11, LongEnoughIs
  <1>. QED
    BY <1>12 DEF y

(* A run of free blocks lies in one block after joining, and is it when no *)
(* free block touches the run.                                             *)
LEMMA RunMerged ==
    ASSUME CutUp(blocks), NEW r \in Ti!FreeRuns, NEW m, m = Ti!Merged(blocks)
    PROVE  /\ r[1] \in Nat /\ r[2] \in Nat /\ r[1] < r[2]
           /\ \E o \in DOMAIN m : m[o].free /\ o <= r[1] /\ r[2] <= o + m[o].len
           /\ r \in Ti!WholeRuns => r[1] \in DOMAIN m /\ m[r[1]].free /\ r[1] + m[r[1]].len = r[2]
  <1>. DEFINE a == r[1]
              b == r[2]
              S == {o \in DOMAIN m : o <= a}
              Gaps == {a - o : o \in S}
  <1>1. /\ TinyStart \in DOMAIN blocks /\ TinyStart \in Nat /\ TinySize \in Nat
        /\ \A o \in DOMAIN blocks :
              /\ o \in Nat /\ TinyStart <= o /\ blocks[o].len \in Nat /\ blocks[o].len >= 2
              /\ o + blocks[o].len \in DOMAIN blocks \cup {TinySize}
              /\ o + blocks[o].len <= TinySize
              /\ \A q \in DOMAIN blocks : o < q => o + blocks[o].len <= q
    BY CutAt, TinyConstants DEF CutUp
  <1>2. /\ CutUp(m) /\ DOMAIN m \subseteq DOMAIN blocks
        /\ \A o \in DOMAIN m : m[o].free = blocks[o].free
        /\ \A o \in DOMAIN blocks : o \in DOMAIN m \/ Absorbed(blocks, o)
        /\ \A o \in DOMAIN m : ~ Absorbed(blocks, o)
    BY MergedIs
  <1>3. /\ TinyStart \in DOMAIN m
        /\ \A o \in DOMAIN m :
              /\ m[o].len \in Nat /\ m[o].len >= 2
              /\ o + m[o].len \in DOMAIN m \cup {TinySize} /\ o + m[o].len <= TinySize
              /\ \A q \in DOMAIN m : o < q => o + m[o].len <= q
    BY <1>2, CutAt DEF CutUp
  <1>4. /\ a \in DOMAIN blocks /\ a < b /\ \E o \in DOMAIN blocks : b = o + blocks[o].len
        /\ \A o \in DOMAIN blocks : a <= o /\ o < b => blocks[o].free
    BY DEF Ti!FreeRuns
  <1>5. a \in Nat /\ b \in Nat /\ b <= TinySize /\ b \in DOMAIN blocks \cup {TinySize}
        /\ TinyStart <= a /\ blocks[a].free
    <2>1. PICK o \in DOMAIN blocks : b = o + blocks[o].len
      BY <1>4
    <2>2. a \in Nat /\ TinyStart <= a /\ blocks[a].free
      BY <1>1, <1>4
    <2>3. o \in Nat /\ blocks[o].len \in Nat
      BY <1>1
    <2>. HIDE DEF a, b
    <2>. QED
      BY <1>1, <2>1, <2>2, <2>3
  <1>. HIDE DEF a, b
  <1>6. Gaps \in SUBSET Nat /\ Gaps # {}
    <2>1. \A o \in S : o \in Nat /\ o <= a
      BY <1>1, <1>2
    <2>2. TinyStart \in S
      BY <1>3, <1>5
    <2>. HIDE DEF S
    <2>. QED
      BY <1>5, <2>1, <2>2
  <1>7. PICK g \in Gaps : \A h \in Gaps : g <= h
    <2>. HIDE DEF Gaps
    <2>. QED
      BY <1>6, HasLeast
  <1>8. PICK o \in S : g = a - o
    BY <1>7
  <1>9. \A q \in S : q <= o
    <2>. SUFFICES ASSUME NEW q \in S
                  PROVE  q <= o
      OBVIOUS
    <2>1. g <= a - q
      BY <1>7
    <2>2. q \in Nat /\ o \in Nat
      BY <1>1, <1>2
    <2>. QED
      BY <1>5, <1>8, <2>1, <2>2
  <1>10. o \in DOMAIN m /\ o \in DOMAIN blocks /\ o <= a /\ o \in Nat
    BY <1>1, <1>2
  <1>. DEFINE e == o + m[o].len
  <1>11. e \in DOMAIN m \cup {TinySize} /\ o < e /\ e \in Nat
    BY <1>3, <1>10
  <1>12. a < e
    <2>1. CASE e \in DOMAIN m
      <3>1. e \notin S
        <4>. HIDE DEF S, e
        <4>. QED
          BY <1>9, <1>10, <1>11
      <3>. QED
        BY <1>5, <1>11, <2>1, <3>1
    <2>2. CASE e = TinySize
      <3>. HIDE DEF e
      <3>. QED
        BY <1>1, <1>4, <1>5, <2>2
    <2>. QED
      BY <1>11, <2>1, <2>2
  <1>. HIDE DEF Gaps, S
  <1>13. blocks[o].free
    <2>. SUFFICES ASSUME ~ blocks[o].free
                  PROVE  FALSE
      OBVIOUS
    <2>. DEFINE s == o + blocks[o].len
    <2>1. o # a
      BY <1>5
    <2>2. o < a /\ s <= a /\ o < s /\ s \in Nat
      BY <1>1, <1>4, <1>5, <1>10, <2>1
    <2>3. s \in DOMAIN blocks
      <3>1. s # TinySize
        <4>. HIDE DEF s
        <4>. QED
          BY <1>1, <1>4, <1>5, <2>2
      <3>. QED
        BY <1>1, <1>10, <3>1
    <2>4. ASSUME NEW q \in DOMAIN blocks, q + blocks[q].len = s
          PROVE  q = o
      <3>1. q \in Nat /\ blocks[q].len \in Nat /\ blocks[q].len >= 2
        BY <1>1
      <3>2. q < o => q + blocks[q].len <= o
        BY <1>1, <1>10
      <3>3. o < q => s <= q
        BY <1>1, <1>10
      <3>. HIDE DEF s
      <3>. QED
        BY <1>10, <2>2, <2>4, <3>1, <3>2, <3>3
    <2>5. ~ Absorbed(blocks, s)
      BY <2>4 DEF Absorbed
    <2>. HIDE DEF s
    <2>6. s \in DOMAIN m
      BY <1>2, <2>3, <2>5
    <2>7. s \in S
      BY <2>2, <2>6 DEF S
    <2>. QED
      BY <1>9, <1>10, <2>2, <2>7
  <1>14. b <= e
    <2>. SUFFICES ASSUME e < b
                  PROVE  FALSE
      <3>. HIDE DEF e
      <3>. QED
        BY <1>5, <1>11
    <2>. HIDE DEF e
    <2>1. e \in DOMAIN m /\ e \in DOMAIN blocks
      <3>1. e # TinySize
        BY <1>1, <1>5, <1>11
      <3>. QED
        BY <1>2, <1>11, <3>1
    <2>2. e # TinyStart
      BY <1>1, <1>5, <1>12, <1>11
    <2>3. PICK q \in DOMAIN blocks : {p \in DOMAIN blocks : p + blocks[p].len = e} = {q}
      BY <2>1, <2>2, EndsOnce
    <2>4. q + blocks[q].len = e
      BY <2>3
    <2>5. a <= q
      <3>. SUFFICES ASSUME q < a
                    PROVE  FALSE
        BY <1>1, <1>5
      <3>1. q + blocks[q].len <= a
        BY <1>1, <1>4
      <3>. QED
        BY <1>5, <1>11, <1>12, <2>4, <3>1
    <2>6. q < b /\ q < e
      <3>1. q \in Nat /\ blocks[q].len \in Nat /\ blocks[q].len >= 2
        BY <1>1
      <3>. QED
        BY <1>5, <1>11, <2>4, <3>1
    <2>7. blocks[q].free
      BY <1>4, <2>5, <2>6
    <2>8. blocks[e].free
      BY <1>4, <1>5, <1>11, <1>12, <2>1
    <2>9. Absorbed(blocks, e)
      BY <2>4, <2>7, <2>8 DEF Absorbed
    <2>. QED
      BY <1>2, <2>1, <2>9
  <1>15. m[o].free
    BY <1>2, <1>10, <1>13
  <1>16. ASSUME r \in Ti!WholeRuns
         PROVE  a \in DOMAIN m /\ m[a].free /\ a + m[a].len = b
    <2>1. \A q \in DOMAIN blocks : blocks[q].free => q + blocks[q].len # a /\ q # b
      BY <1>16 DEF Ti!WholeRuns, a, b
    <2>2. ~ Absorbed(blocks, a)
      BY <2>1 DEF Absorbed
    <2>3. a \in DOMAIN m
      BY <1>2, <1>4, <2>2
    <2>4. a \in S
      BY <1>5, <2>3 DEF S
    <2>5. o = a
      BY <1>5, <1>9, <1>10, <2>4
    <2>6. e <= b
      <3>1. CASE b = TinySize
        <4>1. e <= TinySize
          BY <1>3, <1>10
        <4>. QED
          BY <3>1, <4>1
      <3>2. CASE b # TinySize
        <4>1. b \in DOMAIN blocks /\ ~ blocks[b].free
          BY <1>5, <2>1, <3>2
        <4>2. ~ Absorbed(blocks, b)
          BY <4>1 DEF Absorbed
        <4>3. b \in DOMAIN m /\ o < b
          BY <1>2, <1>4, <2>5, <4>1, <4>2
        <4>. QED
          BY <1>3, <1>10, <4>3
      <3>. QED
        BY <3>1, <3>2
    <2>7. e = b
      <3>. HIDE DEF e
      <3>. QED
        BY <1>5, <1>11, <1>14, <2>6
    <2>. QED
      BY <1>15, <2>3, <2>5, <2>7
  <1>17. \E p \in DOMAIN m : m[p].free /\ p <= a /\ b <= p + m[p].len
    BY <1>10, <1>14, <1>15
  <1>. HIDE DEF e
  <1>. QED
    BY <1>4, <1>5, <1>16, <1>17 DEF a, b

(* No request is refused that a whole run of free blocks is long enough    *)
(* for, or a part of one with bytes to spare.                              *)
THEOREM TinyRunsAreUsed == ASSUME TinyFits PROVE Spec => []RunsAreUsed
  <1>1. TinyInv => Ti!RunsAreUsed
    <2>. SUFFICES ASSUME TinyInv, NEW n \in TinyAsked, Ti!Refuses(n)
                  PROVE  /\ \A r \in Ti!WholeRuns : ~ Ti!long_enough(r[1], r[2] - r[1], n)
                         /\ \A r \in Ti!FreeRuns :
                               ~ Ti!long_enough(r[1], r[2] - r[1], n + Word - 1)
      BY DEF Ti!RunsAreUsed
    <2>. DEFINE m == Ti!Merged(blocks)
    <2>1. CutUp(blocks) /\ n \in Nat \ {0} /\ Unwrapped(n) /\ Unwrapped(n + Word - 1)
      BY AskedUnwrapped DEF TinyInv, TinyGood
    <2>2. \A o \in DOMAIN m : m[o].free => ~ Ti!long_enough(o, m[o].len, n)
      BY DEF Ti!Refuses, Ti!Fits
    <2>3. CutUp(m)
      BY <2>1, MergedIs
    <2>4. \A r \in Ti!FreeRuns :
             /\ r[1] \in Nat /\ r[2] \in Nat /\ r[1] < r[2]
             /\ \E o \in DOMAIN m : m[o].free /\ o <= r[1] /\ r[2] <= o + m[o].len
             /\ r \in Ti!WholeRuns =>
                   r[1] \in DOMAIN m /\ m[r[1]].free /\ r[1] + m[r[1]].len = r[2]
      BY <2>1, RunMerged
    <2>. HIDE DEF m
    <2>5. ASSUME NEW r \in Ti!WholeRuns, Ti!long_enough(r[1], r[2] - r[1], n)
          PROVE  FALSE
      <3>1. r \in Ti!FreeRuns
        BY DEF Ti!WholeRuns
      <3>2. /\ r[1] \in DOMAIN m /\ m[r[1]].free /\ r[1] + m[r[1]].len = r[2]
            /\ r[1] \in Nat /\ r[2] \in Nat
        BY <2>4, <3>1
      <3>3. m[r[1]].len \in Nat
        BY <2>3, <3>2, CutAt
      <3>4. r[2] - r[1] = m[r[1]].len
        BY <3>2, <3>3
      <3>. QED
        BY <2>2, <2>5, <3>2, <3>4
    <2>6. ASSUME NEW r \in Ti!FreeRuns, Ti!long_enough(r[1], r[2] - r[1], n + Word - 1)
          PROVE  FALSE
      <3>1. /\ r[1] \in Nat /\ r[2] \in Nat /\ r[1] < r[2]
            /\ \E o \in DOMAIN m : m[o].free /\ o <= r[1] /\ r[2] <= o + m[o].len
        BY <2>4
      <3>2. PICK o \in DOMAIN m : m[o].free /\ o <= r[1] /\ r[2] <= o + m[o].len
        BY <3>1
      <3>. DEFINE a == r[1]
                  b == r[2]
                  e == o + m[o].len
      <3>3. o \in Nat /\ m[o].len \in Nat /\ e \in Nat /\ e - o = m[o].len /\ e <= TinySize
        <4>1. o \in Nat /\ m[o].len \in Nat /\ o + m[o].len <= TinySize
          BY <2>3, CutAt
        <4>. QED
          BY <4>1
      <3>4. a \in Nat /\ b \in Nat /\ a < b /\ o <= a /\ b <= e
            /\ Ti!long_enough(a, b - a, n + Word - 1)
        BY <2>6, <3>1, <3>2
      <3>. HIDE DEF a, b, e
      <3>5. Ti!long_enough(o, e - o, n)
        BY <2>1, <3>3, <3>4, PartFits
      <3>. QED
        BY <2>2, <3>2, <3>3, <3>5
    <2>. QED
      BY <2>5, <2>6
  <1>. QED
    BY <1>1, TinyAlways, PTL DEF RunsAreUsed
=============================================================================
