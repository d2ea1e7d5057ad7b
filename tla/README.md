# shalloc, specified in TLA+

shalloc is a C library for memory in *shadow spaces*: ranges of addresses that
a process (and, for inheritable heaps, the programs it executes) shares out as
heaps, regions, buffers and blocks, with one of several allocators behind each
buffer. This directory holds a TLA+ specification of it, TLC models of small
instances, and proofs that TLAPS checks.

    tlc -config Buffers.cfg Buffers        # one run; PROJECT.json lists them all
    tlapm SpaceProofs.tla                  # the proofs of one module

`PROJECT.json` maps every definition to the lines it models and every property
to the run that checks it.

## 1. The system

    shalloc_space            one per process, static                (shalloc.c)
      heap                   range of pages with a guard page          (heap.c)
        region               tree; owns a chain of buffers           (region.c)
          buffer             start, size, type, operations           (buffer.c)
            allocator        mplite | simple | nofree | slab | buffer

| part | state | operations | calls |
|---|---|---|---|
| space, `shalloc.c` | the static `shalloc_space`: data range, unused size, private heap, pointer to the magic page | init, close, freeze; init attaches the heaps listed in an inherited magic page | heap create, mmap, shmat |
| heap, `heap.c` | a `shalloc_heap_t` in the private heap, or in a record of the magic page for an inheritable heap | create (default, mapped again, inheritable), destroy | the region of the private heap (a NON_RESIZABLE one, managed by mplite), mmap, munmap, shmget |
| region, `region.c` | parent, chain of buffers, default buffer, flags | create, destroy, reset, malloc, calloc, orealloc, free, grow | its own buffers' allocators; `shalloc_malloc`/`free` of its **parent** for structs and buffers |
| buffer, `buffer.c` | start, size, type, table of operations | get, clone, reset | `create`, `destroy`, `malloc`, `free` of the type |
| mplite | `mplite_t` in the buffer: control byte per atom, free list per size, links inside free chunks, statistics | init, malloc, free, realloc, roundup, statistics | the lock callbacks given to init |
| simple (`memmgr.c`) | circular list of free blocks in address order, position of the unused part | init, alloc, free | |
| nofree | one pointer | init, alloc, close | |
| slab | bitmap of bytes, next-fit position | init, alloc, free, close | |
| buffer (ccan `alloc`) | below 1 MiB `tiny.c`: blocks with encoded headers, a cache of free blocks; above, `alloc.c`: pages, buckets, bitmaps | init, get, free, size | |

Control flows down only: a caller names a region, the region its last buffer,
the buffer its type. Memory flows down too, and is returned up: what a region
hands out lies in a buffer that is a block of its parent. There are no threads
and no callbacks but the lock of mplite. Concurrency comes from *shared memory*:
a heap mapped `MAP_SHARED`, or an inheritable one, has its allocator's state
inside, and every process attached calls that allocator directly. The magic page,
which lists the inheritable heaps, is shared as well, and read and written without
a lock by every program that is executed with its id.

### What is hard here, and what makes each part correct

* **mplite.** Free chunks keep their links in the memory they offer; a chunk is
  found to be free by its control byte, which `init` leaves as it was. Correct:
  free lists, control bytes and what callers hold describe the same tiling of
  the pool; buddies never stay apart; statistics follow; the bound of Robson.
* **Shared pools.** The interface passes no lock. Correct: two processes never
  hold the same atom; a call acts at once; every call returns.
* **Space and heaps.** Records of inheritable heaps are a stack in the magic
  page, private structs come from an allocator that freeze write-protects, the
  position of the next heap only moves up. Correct: heaps disjoint, described by
  their own struct, mapped as asked with their guard page; the records are those
  of the heaps that exist; a create that fails leaves nothing behind but, where the
  allocator refuses the heap, its guard page.
* **Inheritance.** Segments are marked for removal when they are made, so one lives
  as long as somebody has it attached; an executed program attaches what the
  records list and takes the sum of their sizes for its next position. Correct:
  a heap is the same memory at the same address in every process, apart from the
  others of that process, and the program executed gets through its init.
* **Regions.** Growing can make several ancestors grow, destroy and reset return
  buffers in another order than they came, and `reset` closes a buffer that may
  host others' structs. Correct: whatever a caller can still use is in memory
  that is allocated, up to the root; nothing is returned twice; a buffer never
  describes more bytes than it has; a nofree region that grew can serve the call.
* **Slab, nofree, simple, buffer.** Boundaries: rounding, wrap-around of `size_t`,
  encoded lengths that include themselves, gaps too small to be blocks, a cache
  that is trusted without a look at the block. Correct: each one's own structure,
  and the promise below.
* **Large pools (`alloc.c`).** A page is large or cut into small ones, free, in a
  bucket (with room or full) or part of a huge run; whether it is free is read
  from a header that callers may have overwritten. Correct: what `alloc_check`
  checks; a run given out consists of free pages.
* **What all allocators promise** (`shalloc_buff_op_t`): extents handed out lie
  in the buffer and are disjoint.

`PROJECT.json` lists the hazards line by line with the property that covers each.

## 2. The modules

    BufferAllocator            what an allocator promises (abstract)
      ^ implemented by
    Mplite   NoFree   Slab   Memmgr   Tiny   Alloc
      |          \      |      |      /     /
    MpliteShared      Buffers (buffer.c's table)
    (+ processes, lock)

    Overruns (Slab and Memmgr side by side, real sizes)
    Region   (tree of regions over one heap)
    Space    (heaps of one process)
    Inherit  (inheritable heaps of several processes)

    AllocatorProofs, MpliteProofs (of Mplite and MpliteShared), BuffersProofs,
    AllocProofs, SpaceProofs, InheritProofs, RegionProofs theorems
    OrderLemmas                                           arithmetic they share
    MCMplite, MCMpliteShared, MCRegion                    instances for TLC

History variables (`held`, `given`, `live`, `owns`, `handles`, `settled`,
`misused`) record what callers were given, and `left` (Space) which guard pages
refused creations left. They are never read by a guard that
stands for code, only by the guards of the callers (who free what they hold).

**BufferAllocator** has one variable, the set of extents that are out. `Malloc`
adds one that lies in the buffer and meets no other, `Free` removes one, `Move`
is a reallocation, `Reset` is `shalloc_buff_reset`.

**Mplite** (`mplite.c`). `pool` is `mplite_t` with its memory: `aiFreelist`, the
links, `aCtrl`; atoms are numbered. One action per call and outcome: `Malloc`,
`MallocFails`, `Free`, `Realloc`, `ReallocStays`, `Reset`. `FirstFree` is the walk
of `mplite_unlink_first`, including its stop at atom 0. `Split` and `Coalesced`
are the loops, as recursive functions over the log. `ToInt` is the conversion of
a `size_t` to the `int` parameter. `Formatted` leaves the control bytes of the
previous use where `mplite_init` does. `stat` leaves out three 64-bit totals that
are only printed.

**MpliteShared** runs Mplite's steps for several processes. `mplite_malloc` is cut
into enter, search (up to the choice of list and chunk), unlink, cut;
`mplite_free` into enter, mark, merge: the places where it has read shared state
it then relies on. `Locked` tells whether `mplite_init` was given callbacks.
Nothing finer than these cuts is needed for the violation, and with the lock finer
cuts change nothing, since no other process reads in between.

**Space** (`shalloc.c`, `heap.c`) is one process. Addresses are pages; `desc` holds
the `shalloc_heap_t` structs by address (a slot of the private heap, or a record
of the magic page), `vm` how each page is mapped. `shalloc_heap_create` has an action
for each of its exits: success (`Create`), no room (`CreateNull`), refused by
`op->create` when the heap is mapped already (`CreateRefused`, heap.c:152-170), failed
assert or fault (`CreateStops`, after which `status` says why and nothing more
happens). `Claims` is where the struct comes from, `Fits` the test of the room left.
`CreateRefused` maps the data back (`MappedBack`) if `shalloc_map_heap` mapped anything
(`Remapped`), but the guard page stays as it is, above a position that did not move; `left`
remembers it. `Refused` is the sizes that an allocator may refuse: with mplite, those
above 2 GiB, which need a space with its range overridden. `DestroyPriv` frees the
struct before it reads `base`, as the code does: `mplite_free` may have written over
it, so the pages are unmapped or not. `InheritLIFO` is not code: it says
whether callers destroy inheritable heaps last first.

**Inherit** (`shalloc.c:159-171, 197-226`, `heap.c`) is several processes over one magic
page. `magic` is that page, `made` the segments, and each process has its own
`unused`, `mixed` and page map `vm`; a segment is alive while some `vm` shows it.
`Exec` starts a program, `AttachMagic`, `AttachHeap`, `EndAttach`, `CountHeap` and
`EndCount` are the rounds of the two loops of `shalloc_space_init`, each of which
reads `num_heaps` anew; `StartFails` is a failed assert. `Claim`, `Fill` and `FillNull`
are `shalloc_heap_create`, `DestroyInherit` and `Drop` `shalloc_heap_destroy`, cut where
the magic page is inconsistent. `Place`, `Counted`, `Fits` and `InheritId` name the
choices the code makes. Structs of private heaps, freeze and a create that the
allocator refuses are in Space; heaps that are not mapped again behave here like
those that are. `QuietStart`, `NoOrphans` and `InStep` are not code but what callers
are assumed to do, see the runs.

**Region** (`region.c`, `buffer.c`) takes allocators as "a nofree pointer" or "a
pool that may refuse although bytes are left", and keeps which buffer hosts which
block. A call that makes ancestors grow is one step: `Malloced` and `Grown` return
every possible outcome. They call each other in the code, a region's growth being
an allocation from its parent; here a region's calls to its parent are a function from
requests to outcomes, which `MallocedBy` and `GrownBy` take, and `Calls` builds that
function level by level from the root, which cannot grow. No region is more levels
down than there are regions. `Under`, the regions below one, is the least closed set.

**Slab, NoFree, Memmgr, Tiny** are `slab.c`, `nofree.c`, `memmgr.c` and `tiny.c` with
`bitops.c`'s `afls` and `align_up`, each with the glue in `interface/`. Asserts are
final states of Slab (`AllocStops`, `FreeStops`); its sizes are ones that `slab_init`
accepts, since `_slab_create` drops the error and a refused slab is used with whatever
its memory held. In all of them arithmetic on what a caller asks for is modulo
`Modulus`, the 2^64 of a `size_t`. In Memmgr blocks are counted in quanta of a pool that
is as long as the code takes it to be; its extents are bytes of the real buffer, header
included. Tiny scales the constants of the encoding
(`FirstBits`, `MidBits`) and of the cache (`Granule`, `MaxCached`), so that lengths
cross the boundary between one, two and three header bytes in a pool of tens of
bytes.

**Alloc** (`alloc.c` for pools of 1 MiB and more). `pool` is the header with all page
headers: which pages are `large`, the free lists, the list of huge runs, per bucket
the list of pages with room and of full ones, `used` for `elements_used`, and `objs`
for the bucket and bitmap of pages that serve one. Lists are sequences, first
element first; `Added` and `Without` are `add_to_list` and `del_from_list`. Functions of the
code are operators on pools of the same name, so that an allocation that breaks
up a page, or recombines pages and fails, is one expression. The geometry
(`MaxLarge`, `LargeBits`, `ObjectOrder`, header sizes) is scaled by constants; four
buckets to a power of two are the code's. `UserData` is what callers leave in the
bytes where the allocator later reads `elements_used`. `check_bucket` and
`PagesAccounted` are the code's own `alloc_check`, `apopcount` being a cardinality.

**Buffers** is `shalloc_space_buff_ops`: `type` is chosen once, the allocators
are instances, and an action of an allocator is enabled only for its type. "BUFFER"
and "LARGE BUFFER" are one entry of the table, which `alloc.c` takes apart by the
size of the pool. NoFree is run and proved about only here.

**Overruns** is a slab and a simple buffer with the sizes of the program. Neither
allocator counts its header in the buffer.

## 3. The runs

`CHECK_DEADLOCK FALSE` appears where a process really ends: `space` and `space_reuse`
(failed asserts and faults), and `buffers` and `overruns` (asserts of slab.c).
Counts of processes, pages and sizes are the bounds named as CONSTANTS; `MaxHeld`
(Alloc) bounds what callers hold at a time, `MaxSegs` (Inherit) the inheritable heaps
made before all processes have ended.

| run | shows | bounds, and why they are enough |
|---|---|---|
| `mplite` | Every order of calls keeps lists, control bytes and callers' chunks one tiling (`FreeListsSound`, `PoolTiled`), buddies joined, statistics exact, chunks of the announced size, and no refusal within Robson's bound; implements BufferAllocator | 6 atoms (so the pool is no power of two and starts with chunks of 4 and 2), 5-bit ints, requests of 1 byte, an exact power, the cap, the cap plus 1 and one that is negative as an int; resizes up, down and to no power of two; stale control bytes used and free |
| `shared_locked` | With a lock: chunks apart, every call acts at once when it returns, every call returns | 2 processes, requests for 1 and 2 atoms; 3 atoms, no power of two: both compete for one chunk, split it and merge it, free lists hold two chunks, and requests are refused for lack of room |
| `shared_unlocked` | **violated**: with the NULL lock of `interface/mplite.c:15` one chunk is handed to two processes | as above with 4 atoms |
| `space` | Heaps disjoint, described, mapped with guard pages, recorded, fresh, with creations refused by the allocator among the calls | 9 pages of 2 bytes, a heap that takes its guard page from itself and one that gets an extra page, creations of the second refused or not, 2 private slots, 2 records: both run out, and so does the space, exactly and with a page left over; a heap can follow where one was refused, with the guard page in its data. 722,313 states |
| `space_reuse` | **violated**: out of order, destroying one inheritable heap lets the next creation overwrite the struct of another (`heap.c:99,123`) | 10 pages, nothing refused, `InheritLIFO = FALSE` |
| `region` | Everything usable is anchored in allocated memory; nothing returned twice; buffers covered; growth serves | 2 nested regions, 3 buffers, 2 blocks in 30 words: enough for a region whose parent must grow for it, for reset with 0 to 2 buffers in the chain, for destruction in both orders. Modes are nofree growing, pool growing by doubling, nofree fixed |
| `buffers` | The structure of each allocator (list below) and the refinement of BufferAllocator | slab: 5 blocks that fill the buffer to its last byte, so that next-fit wraps past used and free blocks; nofree: 24 bytes, requests of 0, odd, fitting exactly, too large, and one whose sum wraps to below the buffer; simple: 29 bytes, 14 quanta by the code's count, of which the blocks take no more than the 12 behind the header, requests that take 2, 3 and 6 (3 at least from the pool); buffer: 34 bytes, blocks of lengths around a boundary of the header's encoding, cached and uncached, a request larger than the pool; alloc: see below. 37,529 states |
| `overruns` | **violated** with the real sizes: the last block ends behind the buffer, in slab (`slab.c:59`) and in simple (`memmgr.c:125`) | 1 KiB each; slab: 48-byte header, blocks of 336 bytes; simple: 40-byte header, blocks of 32 quanta of 16 |
| `alloc_span` | **violated**: the run found for a huge request covers pages of a large page the search passed over (`alloc.c:558`) | a pool of 3 large pages of 2 small ones (32 and 16 bytes), requests for an object and for a run of 2 small pages |
| `alloc_zero` | **violated**: callers leave zeros in a run, as `calloc` does, and pages of a run that is held are put on the free list (`alloc.c:442,461`) | as `alloc_span`, `UserData = {0}` |
| `inherit` | Inheritable heaps stay apart and are the same memory everywhere; programs executed start up | 3 processes (so a program executed can execute another, or outlive the first), two of them creating heaps; 5 pages, guard pages, sizes 1 and 2: two inheritable heaps and a private one, or too little room; 2 records, 2 segments |
| `inherit_overlap` | **violated**: after a destroy, an executed program maps its first heap over the inherited one (`shalloc.c:200`) | 2 processes, one creating; `InStep = FALSE` |

The properties of `buffers`: `BitmapExact` (slab: a bit is set while exactly one
caller has the block), `RingSound`, `NeighboursCombined` (simple: the circular list
ends every walk; no two free neighbours), `BelowNext` (nofree: what is handed out
lies below the position of the next call), `PoolTiled` (simple, and buffer below
1 MiB: blocks free and used cover the pool once), `CacheExact`, `RunsAreUsed`
(buffer: the cache never names a block that is used, gone, or of another length; no
refusal while a whole run of free blocks is long enough by the code's own measure, nor
while a part of one is with `Align - 1` bytes to spare),
`AllocCheck`, `HugeRunsFree` (buffer above 1 MiB: every page is accounted for once,
on the list its state says, with a count that is that of its bitmap, and the objects
marked used are those callers hold; the run found for a huge request is free) and
`DataApart` (each of the three: data is clear of headers and bitmaps, and large
enough).

The instance of Alloc in `buffers` has 3 large pages of 2 small ones: the first
holds the header and a small page to spare; 3 objects or runs are held at a time.
Requests of 6 and 14 bytes go to small and to large pages, which 2 objects and
1 fill up; 16, 64 and 100 bytes are huge, 64 being two whole large pages and 100 more
than the pool. So pages are broken up, fill, empty and are recombined, runs are found among small and among large pages, and both fail
for lack of room.

What passing runs assume of callers, because the code does not hold without it:

* slab: sizes that `slab_init` accepts and where the blocks fit; simple: a buffer that has
  room for the header behind the last quantum that a block can take (`overruns` shows
  the other case of both).
* No size so near 2^64 that sums with it wrap back to where the code takes them for
  good ones. Nothing in the code tests for it: `nofree_alloc` would move its position
  back (`nofree.c:46`), `memmgr_alloc` and `alloc_get` grant a block that is too short
  (`memmgr.c:159`, `alloc.c:719`), `long_enough` of tiny.c is true of any block
  (`tiny.c:173`). The modules compute modulo 2^64 and would show it; the runs leave these
  sizes out, and the theorems name the bound (section 4).
* Alloc: sizes where no search passes over a large page in the middle of a run of
  small ones (`alloc_span` shows the other case), and `UserData = {1}`: callers leave
  something in the bytes where `elements_used` was. With 0 there, which `calloc` writes
  and a run that nobody has written to keeps, `AllocCheck` does not hold (`alloc_zero`
  shows it): `all_empty` takes small pages of a run that is still held for free ones.
* mplite: sizes below 2^32; a larger one is cut to its low bits (`ToInt`, `RequestFits`).
* `InheritLIFO` in Space: `space_reuse` shows the other case.
* `InStep` in Inherit: inheritable heaps are created by one process at a time, and only
  where the listed ones end, so never after a destroy; `inherit_overlap` shows the
  other case. `QuietStart`: the records are left alone while a program starts,
  and nobody ends while it reads them; without it, it can find a record that is
  counted and not filled in, or a segment that is gone, and fails its assert.
  `NoOrphans`: a process which alone has a listed heap ends after the others, or
  its record names a segment that is gone. No doc states these.

### Findings

Seven places where the code does something other than its docs say have a run that
shows it: shared pools without a lock, the record dropped when inheritable heaps
are destroyed out of order, the end of slab's buffer and of simple's, runs of pages in
`alloc.c` that are not free, runs with zeros in them, and the position of an executed
program's next heap. `PROJECT.json` quotes the lines.

Others were met while modelling, are kept as control flow in the modules, and
have no run of their own:

* the walk of `mplite_unlink_first` ends at atom 0 (`FirstFree`);
* a slab created for a size that is no multiple of a word asserts on that size
  (`AllocStops`);
* `assert(addr <= data.end)` fails when the space is used exactly (`CreateStops`), and
  `destroy` of an inheritable heap is possible in a frozen space;
* a create that the allocator refuses leaves its guard page (`heap.c:160`), so that a
  default heap created there later, if it is longer, has a page in its data that
  cannot be accessed: `HeapsMapped` and `FreshPages` say that nothing else is left;
* an mplite region that grows for a request can fail it all the same: for 2049 bytes a
  buffer of 4302 is made, and the request takes 4096 bytes of atoms, for which there is
  no room behind header and control bytes. `GrowthServes` is about nofree regions;
* sizes near 2^64 are granted by nofree, simple and buffer, as said above;
* `long_enough` reckons the header's length from one that includes it (`tiny.c:171`),
  so a block just freed can be refused to a request of its own size. `RunsAreUsed`
  uses the code's measure;
* joining more free blocks can serve less: the header of the longer block may take a byte
  more, and the data is then put off to the next multiple of `Align`. With the real
  constants, two free blocks of together 32 bytes that start a byte before a
  multiple of 8 would serve 31 bytes, but with 7 free bytes behind them the three are
  joined and serve 30. The proof of `RunsAreUsed` led there, and TLC has an example (a pool of 28,
  `Align` 4, `FirstBits` 3).
  Hence the spare bytes in `RunsAreUsed`;
* the size `tiny.c:325` reports counts a gap of one zero byte behind the header;
  nothing in shalloc calls it;
* `alloc_init` leaves a tail of the pool shorter than a large page unprepared, but the
  searches of `huge_alloc` look at it; `huge_free` gives pages back with whatever
  callers left in `elements_used`, so that they may be passed over for good;
* a program that attaches a heap does not map its guard page (`shalloc.c:168`).

### Fairness

`MpliteShared` and `Inherit` have liveness. For `CallsReturn`: weak fairness of `Inside`: a
process in the allocator is scheduled again; nothing in mplite.c waits. Strong
fairness of `Enter`: the lock is one that starves nobody. The lock is supplied by
the program that embeds mplite, through `mplite_lock_t`, so this is an assumption
about it; with a lock that may starve a process, weak fairness of `Enter` would not
suffice and calls might wait for ever. Calls themselves (`CallMalloc`, `CallFree`) are
under no fairness. For `StartsUp` of Inherit: weak fairness of `Start(p)`, the steps of
`shalloc_space_init`, which waits for nothing; executing, creating, destroying and
closing are the callers' choice and under no fairness. Every other module is sequential and every call is one step
that returns, so termination of the loops inside is what `RingSound` and
`FreeListsSound` say.

## 4. The proofs

Each holds for every value of the constants that satisfies the module's ASSUME, and
the assumption named.

| theorem | says | assumes |
|---|---|---|
| `AllocatorProofs!AllocatorIsolates` | whoever implements the interface keeps extents disjoint and in the buffer | |
| `MpliteProofs!PoolTyped`, `FreeListsStaySound`, `PoolStaysTiled`, `BuddiesStayCoalesced`, `StatsStayRight` | `TypeOK`, `FreeListsSound`, `PoolTiled`, `BuddiesCoalesced`, `StatsAgree` | nothing: any pool, any sizes |
| `MpliteProofs!MpliteImplements` | the refinement of BufferAllocator | nothing |
| `MpliteProofs!RequestsStayFit` | `RequestFits` | sizes below 2^`IntBits` |
| `MpliteProofs!OneInside`, `CallsActAtOnce`, `ChunksStayApart` | mutual exclusion, `ActsAtOnce`, `HeldApart` | `Locked` |
| `SpaceProofs!SpaceTyped`, `HeapsAlwaysDisjoint` | `TypeOK`, `HeapsDisjoint` | nothing: any order of calls |
| `SpaceProofs!HandlesAlwaysIntact`, `RecordsAlwaysExact`, `HeapsAlwaysMapped`, `NewHeapsGetFreshPages` | `HandlesIntact`, `RecordsExact`, `HeapsMapped`, `FreshPages` | `InheritLIFO` |
| `InheritProofs!InheritTyped` | `TypeOK` | nothing: any order of processes |
| `InheritProofs!InheritApart`, `InheritSameMemory` | `HeapsApart`, `SameMemory` | `QuietStart`, `InStep` |
| `RegionProofs!RegionTyped`, `RegionAnchored`, `RegionNeverMisused`, `RegionBuffersCovered`, `RegionGrowthServes` | all five properties of Region: `TypeOK`, `Anchored`, `NeverMisused`, `BuffersCovered`, `GrowthServes` | nothing: any tree, any sizes, whatever the allocators refuse; `GrowthServes` is a property of nofree regions, alignment left out |
| `BuffersProofs!SlabBitmapExact` | `BitmapExact` | nothing |
| `BuffersProofs!SlabImplements`, `SlabStaysInBuffer` | the refinement of BufferAllocator, and that blocks lie in the buffer | `SlabFits` |
| `BuffersProofs!SimpleTyped`, `SimpleRingSound`, `SimplePoolTiled`, `SimpleNeighboursCombined`, `SimpleRequestHoused` | of Memmgr: `TypeOK`, `RingSound`, `PoolTiled`, `NeighboursCombined`, `RequestHoused` | `SimpleFits` |
| `BuffersProofs!SimpleStaysInBuffer`, `SimpleImplements` | of Memmgr: blocks lie in the buffer, and the refinement of BufferAllocator | `SimpleFits`, `SimpleRoomy` |
| `BuffersProofs!TinyTyped`, `TinyBlocksTiled`, `TinyCacheExact`, `TinyDataApart`, `TinyRunsAreUsed`, `TinyImplements` | of Tiny: `TypeOK`, `BlocksTiled`, `CacheExact`, `DataApart`, `RunsAreUsed`, and the refinement of BufferAllocator | `TinyFits` |
| `BuffersProofs!BlocksTileBuffers` | `PoolTiled`, of Memmgr and Tiny | `SimpleFits`, `TinyFits` |
| `AllocProofs!ObjectsAlone` | of Alloc: `TypeOK`, `DataApart`, and the refinement of BufferAllocator | `LargeFits`, `NothingHuge` |
| `AllocProofs!LargePoolChecked` | `AllocCheck` | `LargeFits`, `NothingHuge`, and large pages divide the pool |
| `AllocProofs!NoFreeStaysBelow`, `NoFreeImplements` | `BelowNext`, and the refinement of BufferAllocator | `NoFreeFits` |
| `AllocProofs!BuffersTyped`, `BuffersApart`, `BuffersImplement` | `TypeOK`, `DataApart` and `Refinement` of Buffers: all five allocators | `BuffersUsed`: all of the above but the pool's division |

The hypotheses on sizes, each a condition on constants alone:

* `SlabFits`: the blocks that `slab_init` counts end with the buffer;
* `SimpleRoomy`: blocks are multiples of some number of quanta, and as many of them as the
  code finds room for end with the buffer, header counted;
* `SimpleFits`, `TinyFits`, `LargeFits`, `NoFreeFits`: no size asked for is so near 2^64 that
  the code's sums wrap;
* `NothingHuge`: nothing asked of `alloc.c` is as large as a run of pages.

*Mplite.* The invariants a run checks speak of walks along the lists; none is
inductive. The inductive one is `Sound`: there is a set F of chunks (first atom,
log) such that

* `Lists(pool, F)`: the links hold exactly F. For each size there is a chain from
  the head whose `prev` mirrors `next` and which falls in *age*, a number given to
  every chunk when it is linked. Ages are what makes "the list ends" a statement
  about one step: `mplite_link` gives a chunk a larger age than all others
  (`LinkAdds`), `mplite_unlink` keeps the ages of the rest (`UnlinkRemoves`);
* `Marked`: the control byte of a chunk handed out says used, with its log. Of other
  bytes only those of F are spoken of, so the ones `mplite_init` leaves as they
  were need no assumption;
* `Tiles`: F and the chunks handed out are aligned, lie in the pool, share no atom
  and leave none out;
* `Coalescent`: no buddy of a chunk of F is in F;
* `Books`: the counts are the cardinality of the chunks handed out and of the atoms
  they cover, the maxima are not behind, and all fit 32 bits because the pool does.

Each loop of the code has a lemma by induction on its counter: `FormattedGood` (the
pool is cut into falling sizes, so no two of them are buddies), `SplitGood` (half by half,
with one chunk *open*, neither linked nor handed out), `CoalescedGood` (the open
chunk grows while its buddy is in F; it stops where no buddy is, which is all that
`Coalescent` wants). The delicate part is the control byte of the buddy's first atom
that the merge loop reads: if no chunk began there, it could be stale. `BuddyStarts`
shows from the tiling that a chunk no larger than the open one begins there, so the
byte is that chunk's. `ListWalk` and `ListHolds` then give what the properties say
of walks.

`RequestFits` needs sizes below 2^`IntBits`: a larger `size_t` is cut to its low bits
before mplite sees it, and a small chunk is granted. The `mplite` run keeps to
such sizes.

*MpliteShared.* `LockInv`: who is inside has the lock, and what it has done so far is
the corresponding part of the function of Mplite, applied to the pool the last call left
(`AsSettled`). `ChunksStayApart` adds `Lent`: the *settled* pool is one of Mplite's sound
pools, with the chunks the processes have or are about to give back as the ones
handed out. By `CallsActAtOnce` it changes only as Mplite's own malloc and free
do, so that the lemmas about Mplite apply unchanged.

*Space.* `HeapsDisjoint` is made inductive by its own second conjunct (all heaps lie
below the position of the next), by heaps having pages at all, and by `Counted`:
the number of records equals the number of inheritable handles. That number is
right even when the records themselves are wrong, which is why `SafeInv` needs no
order of destruction, and `magic` never leaves its range. The stronger `OrderInv`
adds `OwnStruct` (no two handles share a struct, and the structs in use are those
allocated), `Sized` (data within base) and `FreshAbove` (pages above the position
are as `init` reserved them, or a guard page that a refused creation left); with `InheritLIFO`, the record dropped is the one of the
heap destroyed, and `HandlesIntact`, `RecordsExact` and `HeapsMapped` follow. The
`space_reuse` run shows that the assumption is needed.

*Inherit.* Under the two assumptions, each listed record begins where the one before it ends,
so the sum of the sizes that an executed program takes for its position
is where the last listed heap ends; every heap of a process that is not
listed lies above that. The invariant says this of each process at each round
of the two loops of its init, with the part of the list it has got to.

*Region.* `Inv` says that the state is `Sound`, that no block goes by the name `Incoming`
between calls, and that what callers hold is `Kept`: in the chain of its region, under a
name of its own. `Sound` is `Core` and, for each region, `Hosted` (its struct and its
buffers are blocks in its parent's chain), `Roomy` (its buffers describe no more than those
blocks have) and `Serves`. `Core` says that the parts of `State` are well formed: chains
share no buffer and cover all of them (`Chained`), parents lead to the root (`Treed`),
no two blocks go by one name and each is in a buffer of some chain (`Lodged`).

The hard part is growth, which goes up the tree and changes regions other than the one
asked. `Good` says what an outcome may be: the state has `Grew`n (every chain is the old one or
longer, nothing moved), is sound, and has the block asked for if the answer was yes.
`CallsGood` shows it for every level by induction: a request to the parent is good by
induction, the block it gave becomes a buffer at the end of the chain
(`JoinedExtends`), and the request is put to that buffer (`AskExtended`). Between the two,
`Serves` fails for the new buffer, as nothing is in it yet; `Extended` is the invariant
there. `RoomForRequest` is the arithmetic: 21/10 of the request, or the minimum that
every buffer has, holds the allocator's header and the request.

Release goes down the tree. `CutIs` shows that forgetting a region and all below it keeps
every block outside: a block in a buffer below belongs to a region below
(`ParentAbove`, from `Treed`). The buffers of the region go back one by one (`InTurnIs`), and each
is still a block when its turn comes, by `Hosted` and because a chain
has no buffer twice; that is `NeverMisused`. Each action then has one lemma.

*Slab.* `SlabInv` is `TypeOK`, `BitmapExact` and `HeaderAsCreated`: the header is the one
`slab_init` wrote but for the next-fit position, which stays the number of a block. The
scan is a recursion over the blocks, and what it returns is free whenever any is.
That the blocks lie in the buffer is not an invariant of the code
(`overruns`): it holds where `num_blocks` blocks end with the buffer, and that is
what `SlabImplements` assumes.

*Memmgr.* `SimpleInv`: there is a set R of free blocks, apart from those handed out, such
that

* `Ring`: the block after b, in R and `base`, is the next one up, or `base` where
  none is (`Follows`);
* `Tiles`: the blocks of R and those handed out lie side by side from 0 to
  `pool_free_pos`;
* `Loose`: no block of R ends where the next one of the list starts.

A walk is shown to meet the whole circle by *ranks*: the number of blocks below
(`RankNext`: a step adds one, or goes back to 0 from the last). With that the search of
`memmgr_free` ends, at the greatest free block below (`PlaceBelow`). The insertion is
cut into three stages (`InsertedStages`): linking (`LinkRing`), joining with the
block above, joining with the one below. In between `Loose` fails at the two
blocks concerned, so the stages are about lists loose outside a set X, and each join takes
one block from X (`JoinSim`). `memmgr_alloc` takes a block or its tail (`TakenSim`);
when it grows into the pool, the block it makes there is freed first, and
`ExtendedSim` shows that the search that is then resumed finds it, joined or not.
`SimpleFits` says that the sums `nbytes + sizeof(mem_header_t) - 1` and
`pool_free_pos + total_req_size` do not wrap: the code tests neither, and for a
size close to 2^64 the room test passes for a block of no bytes. That blocks lie in the
buffer is again no invariant of the code. Where all blocks are multiples of g quanta,
`pool_free_pos` is (`EndInBuffer`, from `InSteps`), so it stops at the last multiple
of g in the pool, and `SimpleRoomy` says that the header has room behind that.

*Tiny.* `TinyInv` has three parts, of which none is inductive without the others:

* `CutUp`: each block ends where the next one starts, the first behind the free array
  and the last at the end of the pool, none shorter than a header and a byte;
* `Cached`: what a slot of the free array names is a free block, shorter than `MaxCached`,
  in the bucket of its length, and no block has two. `tiny_alloc_get` takes a block from
  there without a look at its free bit, so `CutUp` needs it;
* `Owned`: each used block houses the data of exactly one caller, aligned and
  behind the header, and nobody else's. `tiny_alloc_free` finds the header by walking
  back from the data, so the block it frees is the caller's by this part only.

`TinyFits` is used once: under it `long_enough` says what it is meant to (`LongEnoughIs`),
and what `Placed` computes from the end of the block does not wrap (`PlacedIs`).
`Placed` needs `encode_len_with_header` to be right about itself: the header's length is
counted in the length it encodes. That such a number exists, and that a longer block
needs no shorter header, is shown from `afls` as a power of two (`MidBits` greater
than 1: a byte more must gain more than a bit). `Merged` is shown to have a block for each
run of free ones, with the ends of the old ones; the walk that refills the cache is a
recursion over offsets (`WalkedCached`), as is the coverage of a run by its blocks.

*Alloc.* `LargeInv` has three parts:

* `PoolSound(a, O)`: each page of the pool behind the header is in exactly one place: on
  the free list of its kind, serving a bucket, in a huge run, or in O, the pages a call
  has taken and not yet put anywhere (`Shared`). Free lists name each page once and only
  pages of their kind (`FreeListed`), a page with objects is of the kind its bucket
  wants and its count is that of its bitmap (`Objected`), it is on the list of its bucket
  that its count asks for (`Bucketed`), and a run is a row of small pages or of whole large
  ones, none of whose counts is 0 (`Rowed`). `AllocCheck` says nothing of those counts, and
  without it nothing keeps the recombination of small pages off a run that is held;
* `Busy`: a page that serves a bucket has an object that is used. `alloc_free` gives a page
  back when the last goes, and a page without one would be on no list
  `check_bucket` accepts;
* `Booked`: what callers hold are used elements of the bucket that their size
  asks for, or runs; each run has a `huge_alloc` of its own; every used element is one or
  the other. `alloc_free` finds the page, the bucket and the bit from an offset, so this
  part is what makes it clear the right bit.

A call passes through pools that are sound but for a page or two: taking pages
(`recombine_small_pages`, `break_up_large_page`, `get_small_page`) moves them into O, giving
them back moves them out, and each function has one lemma from `PoolSound(a, O)`
to `PoolSound(b, O')`. `huge_alloc` takes the element for its struct, then
the run, and frees the element if there is none: three lemmas in a row.

The arithmetic is in lemmas of its own: a bucket's size is at least what was asked
for (`size_to_bucket` and `bucket_to_size` go both by powers of two and by quarters),
elements of a page neither overlap nor leave it, and the page an offset
belongs to is the one it was made from (`PageFound`). The refinement follows from
`BytesApart`: pages are apart, elements in a page are, and a run has its pages alone.

The lemmas `LargePoolSound`, `LargeTyped`, `LargeDataApart` and `LargeImplements` are about all
of alloc.c, runs included, but under two conditions that the code does not keep, so they
are no theorems about it: that in every state of the behaviour a run `huge_alloc`
finds is free (`[]HugeRunsFree`; `alloc_span` shows a pool where it is not), and that callers
leave no 0 where the count of a page in a run was (`HugeLeftBusy`; `alloc_zero`). They say
that these two are all that is wrong with runs: the rest of the search, and giving runs
back, is right. The theorems, `ObjectsAlone` and `LargePoolChecked`, follow for callers who ask
for no run (`NoRuns`), with no condition on the state or on what callers write.
`AllocCheck` also needs a pool that large pages divide: `alloc_init` puts a tail on no list
("FIXME: small pages for last bit?"), while `alloc_check` goes over all pages, so
the code's own check fails when the tail is a small page or more.

*NoFree.* `NoFreeInv` is `TypeOK`, `BelowNext` and the pointer being behind the header.
`NoFreeFits` says that no request comes within alignment plus buffer size of the word
size; the pointer then moves up by exactly the rounded size (`NoFreeMoves`), the
code's test against the buffer's end means what it says, and a wrapped sum falls
below the buffer, where the test refuses it. Without it the pointer can go
back: `nofree_alloc` does not look for overflow.

*Buffers.* An action of one allocator leaves the variables of the others alone, so the
theorems about the whole are put together from those of the parts.

*OrderLemmas* has what these need of numbers: least elements, division, powers of
two, functions defined by recursion. The induction theorems of the library take an
operator, so induction is done on *sets* of numbers here (`NatSetInduction`, from the least
element of the complement). A power of two is the number of subsets of 1..n;
this fact, `FS_SUBSET`, is the library's, whose own proof takes the arithmetic of
powers for granted.

### Only model-checked

* `RobsonBound` of Mplite: a counting argument over all histories (Robson 1971), for
  which no inductive invariant over the state is known.
* Liveness (`CallsReturn`, `StartsUp`): out of the prover's reach.
* Runs of pages in Alloc: `HugeRunsFree`, `AllocCheck` and the refinement where callers ask for
  runs are true of some geometries, sizes and contents and false of others
  (`alloc_span`, `alloc_zero`), so they are checked for one instance; the conditional lemmas
  above say what else they rest on.

## 5. Not modelled

* `mplite_print_stats`, `memmgr_print_stats`, `shalloc_*_print`, `get_info`: they
  read only, as do `alloc_size`, `tiny_alloc_size` and `alloc_visualize`, which shalloc
  does not call.
* How `ilog.c`, `afls`, `affsl`, `apopcount` and `align_up` compute on words; their
  results are operators.
* A second family of processes with a magic page of its own: it shares nothing with
  the first.
* `calloc`'s product may overflow (`shalloc.c:10`, `region.c:194`): the size passed on is
  an input of the models.
* A slab whose `slab_init` was refused, and sizes near 2^64 (section 3).
* Contents of blocks, alignment beyond what a property needs, errors of `mmap` and
  `shmget` other than those that `Create` distinguishes.
* Callers that break the interface (double free, use after free), except where
  the code itself tests for it (slab's asserts).
* Support headers of ccan, `pstdint.h`, the build.

## 6. Plan

Order of work, most important first:

1. done: BufferAllocator and its proof; Mplite and its sharing; Space and its
   proofs; Region; Slab, NoFree (with proofs), Memmgr, Tiny; Buffers.
2. done: `Inherit`, inheritable heaps of several processes; `Alloc`, large pools.
3. done: proofs for Mplite, MpliteShared, Space, Inherit, Region, Slab, NoFree, Memmgr,
   Tiny, Alloc and Buffers.
