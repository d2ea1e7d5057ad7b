-------------------------------- MODULE Tiny --------------------------------
(***************************************************************************)
(* tiny.c: the allocator behind SHALLOC_BUFF_ALLOC_TYPE_BUFFER for a buffer*)
(* below MIN_USEFUL_SIZE (1 MiB); alloc.c hands every call on to it.       *)
(*                                                                         *)
(* The buffer starts with the free array, a cache of offsets of free       *)
(* blocks in buckets by size; blocks tile the rest.  A block starts with   *)
(* its length, encoded in as many bytes as it takes, and a free bit; its   *)
(* data ends with it.  Between header and data lie only zeros, so that     *)
(* to_hdr finds the header from the data: the last one below it.           *)
(*                                                                         *)
(* Lengths in the header, the free array and its limit are scaled by       *)
(* constants; an offset fits the three bytes of an entry.  Sizes and       *)
(* offsets are machine words: what is computed from a size that a caller   *)
(* chose wraps at Modulus.                                                 *)
(***************************************************************************)
EXTENDS Integers, FiniteSets, FiniteSetsExt

CONSTANTS
    Modulus,      \* 2^64: values of a size_t
    PoolSize,     \* size of the buffer
    Align,        \* sizeof(long): 8
    FirstBits,    \* length bits in the only or first header byte: 5
    MidBits,      \* and in each that follows: 7
    Granule,      \* bytes of the pool per byte of the free array: 1024
    MaxCached,    \* MAX_FREE_CACHED_SIZE: 256
    Asked         \* sizes passed to malloc; shalloc_malloc lets no 0 through

MIN_BLOCK_SIZE == 2

(* Assumed by every module that runs this one.                             *)
TinyAssumption ==
    /\ PoolSize \in Nat /\ {Align, FirstBits, Granule} \subseteq Nat \ {0}
    /\ {MidBits, MaxCached} \subseteq Nat \ {0, 1}
    /\ Modulus \in Nat /\ PoolSize < Modulus
    /\ Asked \subseteq 1..(Modulus - 1)
    /\ PoolSize - PoolSize \div Granule \in MIN_BLOCK_SIZE..PoolSize

VARIABLES
    blocks,       \* offset of a block -> [len, free]
    cache,        \* the free array: offset of a slot -> offset of a block or 0
    held          \* history: offset of data handed out -> size asked for

vars == <<blocks, cache, held>>

afls(v) == CHOOSE b \in 0..v : v < 2 ^ b /\ (b > 0 => v >= 2 ^ (b - 1))

encode_length(val) ==
    IF afls(val) <= FirstBits THEN 1 ELSE 2 + (afls(val) - FirstBits) \div MidBits

HeaderBytes(len) == encode_length(len - MIN_BLOCK_SIZE)

(* Mutant: the header's own bytes are not counted in the length.           *)
HeaderUncounted(len) == IF len < MIN_BLOCK_SIZE THEN 1 ELSE HeaderBytes(len)

(* The header that a block of len data bytes needs.                        *)
encode_len_with_header(len) ==
    CHOOSE h \in 1..(len + 1) : /\ HeaderBytes(len + h) = h
                               /\ \A k \in 1..(h - 1) : HeaderBytes(len + k) # k

free_array_size == PoolSize \div Granule

free_array_off(size) ==
    3 * (CASE size <= 4 -> size - 1
           [] size \in 5..16 -> size \div 2 + 1
           [] size > 16 -> size \div 4 + 5)

Buckets == free_array_off(MaxCached)
Slots == {f \in 0..free_array_size : f % 3 = 0 /\ f + 3 < free_array_size}

EmptyCache == [f \in Slots |-> 0]

Init ==
    /\ blocks = [o \in {free_array_size} |-> [len |-> PoolSize - o, free |-> TRUE]]
    /\ cache = EmptyCache
    /\ held = [p \in {} |-> 0]

(* shalloc_buff_reset: tiny_alloc_init again.                              *)
Reset ==
    /\ blocks' = [o \in {free_array_size} |-> [len |-> PoolSize - o, free |-> TRUE]]
    /\ cache' = EmptyCache
    /\ held' = [p \in {} |-> 0]

------------------------------------------------------------------------------
With(f, x, v) == [y \in DOMAIN f \cup {x} |-> IF y = x THEN v ELSE f[y]]

(* add_to_free_array: the first empty slot of its bucket, if any.          *)
Added(c, len, off) ==
    LET room == {f \in Slots : f % Buckets = free_array_off(len) /\ c[f] = 0}
    IN IF len >= MaxCached \/ room = {} THEN c ELSE [c EXCEPT ![Min(room)] = off]

AlignedUp(x) == ((x + Align - 1) \div Align) * Align
AlignedDown(x) == (x \div Align) * Align

long_enough(off, len, size) ==
    (AlignedUp(off + encode_len_with_header(len)) + size) % Modulus <= off + len

(* Mutant: only the block right behind another is joined to it.            *)
MergedInPairs(bs) ==
    LET Follows(o) == \E q \in DOMAIN bs : /\ q + bs[q].len = o
                                           /\ bs[q].free /\ bs[o].free
        heads == {o \in DOMAIN bs :
                    Follows(o) => \E q \in DOMAIN bs :
                                     q + bs[q].len = o /\ Follows(q)}
    IN [o \in heads |-> [bs[o] EXCEPT
           !.len = Min({h \in heads \cup {PoolSize} : h > o}) - o]]

(* try_coalesce: every run of free blocks becomes one.                     *)
Merged(bs) ==
    LET heads == {o \in DOMAIN bs :
                    ~ \E q \in DOMAIN bs : /\ q + bs[q].len = o
                                           /\ bs[q].free /\ bs[o].free}
    IN [o \in heads |-> [bs[o] EXCEPT
           !.len = Min({h \in heads \cup {PoolSize} : h > o}) - o]]

(* The walk up to stop adds every free block it passes to the array.       *)
Walked(bs, c, stop) ==
    LET passed[o \in 0..PoolSize] ==
            IF o = 0 THEN c
            ELSE IF o - 1 \in DOMAIN bs /\ bs[o - 1].free
            THEN Added(passed[o - 1], bs[o - 1].len, o - 1)
            ELSE passed[o - 1]
    IN passed[stop]

(* Mutant: the array keeps the offsets of blocks that are no more.         *)
RefilledUncleared(bs, stop) == Walked(bs, cache, stop)

(* The free array after the blocks were joined and walked up to stop.      *)
Refilled(bs, stop) == Walked(bs, EmptyCache, stop)

(* Mutant: a gap of one byte is made a block of its own.                   *)
PlacedExactly(bs, c, off, size) ==
    LET end == off + bs[off].len
        actual == AlignedDown((end - size) % Modulus)
        hdr == (actual - encode_len_with_header((end - actual) % Modulus)) % Modulus
        b == [len |-> (end - hdr) % Modulus, free |-> FALSE]
    IN IF hdr = off
       THEN [blocks |-> [bs EXCEPT ![off] = b], cache |-> c, at |-> actual]
       ELSE [blocks |-> With([bs EXCEPT ![off].len = hdr - off], hdr, b),
             cache |-> Added(c, hdr - off, off),
             at |-> actual]

(* The far end of free block off is taken; what is left before it stays    *)
(* free unless it is too short for a header and a byte.                    *)
Placed(bs, c, off, size) ==
    LET end == off + bs[off].len
        actual == AlignedDown((end - size) % Modulus)
        hdr == (actual - encode_len_with_header((end - actual) % Modulus)) % Modulus
        rest == (hdr - off) % Modulus
    IN IF rest < MIN_BLOCK_SIZE
       THEN [blocks |-> [bs EXCEPT ![off].free = FALSE], cache |-> c, at |-> actual]
       ELSE [blocks |-> With([bs EXCEPT ![off].len = rest],
                            hdr, [len |-> (end - hdr) % Modulus, free |-> FALSE]),
             cache |-> Added(c, rest, off),
             at |-> actual]

------------------------------------------------------------------------------
(* tiny_alloc_get.                                                         *)

(* Slots of the free array whose block can serve the request.              *)
Hits(size) ==
    {f \in Slots : /\ f % Buckets >= free_array_off(size)
                   /\ cache[f] # 0
                   /\ long_enough(cache[f], blocks[cache[f]].len, size)}

(* By bucket first, as the two loops go.                                   *)
FirstHit(size) ==
    CHOOSE f \in Hits(size) :
        \A g \in Hits(size) : \/ f % Buckets < g % Buckets
                              \/ f % Buckets = g % Buckets /\ f <= g

Fits(bs, size) == {o \in DOMAIN bs : bs[o].free /\ long_enough(o, bs[o].len, size)}

Takes(bs, c, off, size) ==
    LET t == Placed(bs, c, off, size)
    IN /\ blocks' = t.blocks
       /\ cache' = t.cache
       /\ held' = With(held, t.at, size)

GetCached(size) ==
    /\ Hits(size) # {}
    /\ LET f == FirstHit(size)
       IN Takes(blocks, [cache EXCEPT ![f] = 0], cache[f], size)

GetWalked(size) ==
    /\ Hits(size) = {}
    /\ Fits(blocks, size) # {}
    /\ Takes(blocks, cache, Min(Fits(blocks, size)), size)

GetCoalesced(size) ==
    LET m == Merged(blocks)
    IN /\ Hits(size) = {}
       /\ Fits(blocks, size) = {}
       /\ Fits(m, size) # {}
       /\ LET off == Min(Fits(m, size)) IN Takes(m, Refilled(m, off), off, size)

Refuses(size) ==
    /\ Hits(size) = {}
    /\ Fits(blocks, size) = {}
    /\ Fits(Merged(blocks), size) = {}

GetFails(size) ==
    LET m == Merged(blocks)
    IN /\ Refuses(size)
       /\ blocks' = m
       /\ cache' = IF m = blocks THEN cache ELSE Refilled(m, PoolSize)
       /\ UNCHANGED held

to_hdr(p) == Max({o \in DOMAIN blocks : o < p})

(* tiny_alloc_free: the block keeps its bounds.                            *)
Free(p) ==
    LET hdr == to_hdr(p)
    IN /\ blocks' = [blocks EXCEPT ![hdr].free = TRUE]
       /\ cache' = Added(cache, blocks[hdr].len, hdr)
       /\ held' = [q \in DOMAIN held \ {p} |-> held[q]]

Next == \/ \E size \in Asked : GetCached(size)
        \/ \E size \in Asked : GetWalked(size)
        \/ \E size \in Asked : GetCoalesced(size)
        \/ \E size \in Asked : GetFails(size)
        \/ \E p \in DOMAIN held : Free(p)
        \/ Reset

Spec == Init /\ [][Next]_vars

------------------------------------------------------------------------------
(* Type correctness: headers and data stay behind the free array and in    *)
(* the buffer.                                                             *)
TypeOK ==
    /\ DOMAIN blocks \subseteq free_array_size..(PoolSize - MIN_BLOCK_SIZE)
    /\ \A o \in DOMAIN blocks :
          blocks[o] \in [len : MIN_BLOCK_SIZE..PoolSize, free : BOOLEAN]
    /\ cache \in [Slots -> 0..(PoolSize - 1)]
    /\ DOMAIN held \subseteq 0..(PoolSize - 1)

(* The walk of tiny_alloc_check over the blocks: each ends where the next  *)
(* starts and the last at the end of the buffer; and those not free are    *)
(* exactly what the callers hold, one block each.                          *)
BlocksTiled ==
    /\ \A o \in (DOMAIN blocks \ {free_array_size}) \cup {PoolSize} :
          Cardinality({q \in DOMAIN blocks : q + blocks[q].len = o}) = 1
    /\ \A q \in DOMAIN blocks : q + blocks[q].len \in DOMAIN blocks \cup {PoolSize}
    /\ {o \in DOMAIN blocks : ~ blocks[o].free} = {to_hdr(p) : p \in DOMAIN held}
    /\ \A p, q \in DOMAIN held : p # q => to_hdr(p) # to_hdr(q)

(* The free array of tiny_alloc_check, which tiny_alloc_get trusts without *)
(* a look at the free bit: an entry is the offset of a block that is free, *)
(* in the bucket of its length, and no block has two.                      *)
CacheExact ==
    /\ \A f \in Slots : cache[f] # 0 =>
          /\ cache[f] \in DOMAIN blocks
          /\ blocks[cache[f]].free
          /\ blocks[cache[f]].len < MaxCached
          /\ f % Buckets = free_array_off(blocks[cache[f]].len)
    /\ \A f, g \in Slots : f # g /\ cache[f] # 0 => cache[f] # cache[g]

(* The data of a block is aligned, starts behind the header whatever       *)
(* number of bytes its length takes, and leaves room for the size asked.   *)
DataApart ==
    \A p \in DOMAIN held :
        LET hdr == to_hdr(p)
        IN /\ p % Align = 0
           /\ hdr + HeaderBytes(blocks[hdr].len) <= p
           /\ p + held[p] <= hdr + blocks[hdr].len

(* Runs of neighbouring free blocks, however they are cut, and those that  *)
(* no further free block touches.                                          *)
FreeRuns ==
    {r \in (DOMAIN blocks) \X {o + blocks[o].len : o \in DOMAIN blocks} :
        /\ r[1] < r[2]
        /\ \A o \in DOMAIN blocks : r[1] <= o /\ o < r[2] => blocks[o].free}

WholeRuns ==
    {r \in FreeRuns : \A o \in DOMAIN blocks :
        blocks[o].free => o + blocks[o].len # r[1] /\ o # r[2]}

(* Whatever the cache holds and however the free bytes are cut up, NULL is *)
(* returned only when no whole run of them is long enough for the request, *)
(* and no part of a run with Align - 1 bytes to spare.  Joined to more, a  *)
(* part can serve less: the header of the longer block may take a byte     *)
(* more, which puts its data off to the next multiple of Align.            *)
RunsAreUsed == \A size \in Asked : Refuses(size) =>
    /\ \A r \in WholeRuns : ~ long_enough(r[1], r[2] - r[1], size)
    /\ \A r \in FreeRuns : ~ long_enough(r[1], r[2] - r[1], size + Align - 1)

(* tiny.c implements the allocator interface of shalloc.h.                 *)
Abs == INSTANCE BufferAllocator WITH
           Size <- PoolSize,
           Lens <- Asked,
           live <- {[off |-> p, len |-> held[p]] : p \in DOMAIN held}

Refinement == Abs!Spec
==============================================================================
