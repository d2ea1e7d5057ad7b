------------------------------- MODULE Mplite -------------------------------
(***************************************************************************)
(* mplite.c: the buddy allocator that manages every heap (the default of   *)
(* shalloc.h) and any region created with SHALLOC_BUFF_ALLOC_TYPE_MPLITE.  *)
(*                                                                         *)
(* The pool is cut into nBlock atoms of szAtom bytes.  A chunk is 2^log    *)
(* atoms, named by its first atom.  aCtrl holds a byte per atom (log and a *)
(* FREE bit); the first bytes of a free chunk hold the next/prev indices   *)
(* of the free list of its size; aiFreelist holds the heads.               *)
(*                                                                         *)
(* Bytes that are not in a free list (user data, the inside of a chunk)    *)
(* are Junk: no step of the code reads them, and FreeListsSound would fail *)
(* if one became reachable.  The 64-bit totals nAlloc, totalAlloc and      *)
(* totalExcess are printed only and are left out.                          *)
(***************************************************************************)
EXTENDS Integers, FiniteSetsExt

CONSTANTS
    IntBits,     \* width of a C int: 32
    MinAlloc,    \* MPLITE_MIN_ALLOC of interface/mplite.c: 64
    LinkSize,    \* sizeof(mplite_link_t): 8
    PoolBytes,   \* buf_size given to mplite_init
    Requests,    \* the size_t values that callers pass to malloc
    Resizes,     \* the int values that callers pass to mplite_realloc
    Stale        \* what a byte of aCtrl may hold before mplite_init

VARIABLES
    pool,        \* [aCtrl, next, prev, aiFreelist]
    stat,        \* the 32-bit statistics of mplite_t
    held         \* history: first atom -> [size asked for, log granted]

vars == <<pool, stat, held>>

MPLITE_LOGMAX == IntBits - 2
MPLITE_MAX_ALLOC_SIZE == 2 ^ MPLITE_LOGMAX

mplite_logarithm(v) == Min({l \in 0..v : v <= 2 ^ l})

szAtom == Max({2 ^ mplite_logarithm(MinAlloc), LinkSize})
nBlock == PoolBytes \div (szAtom + 1)

Atoms == 0..(nBlock - 1)
Logs  == 0..MPLITE_LOGMAX
Nil   == -1
Junk  == -2

Ctrl == [free : BOOLEAN, log : Logs]
FreeChunk(l) == [free |-> TRUE, log |-> l]
UsedChunk(l) == [free |-> FALSE, log |-> l]

(* The checks of mplite_init, and ints that are kept in IntBits bits.      *)
ASSUME MpliteAssumption ==
    /\ IntBits \in Nat /\ IntBits >= 2
    /\ MinAlloc \in Nat \ {0} /\ LinkSize \in Nat \ {0}
    /\ PoolBytes \in 1..(2 ^ IntBits - 1)
    /\ Requests \subseteq Nat
    /\ Stale \subseteq Ctrl

(* The conversion of a size_t argument to the const int parameter.         *)
ToInt(size) == LET m == size % 2 ^ IntBits
               IN IF m < 2 ^ (IntBits - 1) THEN m ELSE m - 2 ^ IntBits

(* Mutant: rounds an exact power of two up once more.                      *)
LogForStrict(n) == Min({l \in 0..IntBits : n < szAtom * 2 ^ l})

(* The smallest log whose chunk holds n bytes.                             *)
LogFor(n) == Min({l \in 0..IntBits : n <= szAtom * 2 ^ l})

------------------------------------------------------------------------------
(* Free lists.                                                             *)

mplite_link(p, i, l) ==
    LET x == p.aiFreelist[l]
    IN [p EXCEPT !.next[i] = x,
                 !.prev = [b \in Atoms |-> IF b = i THEN Nil
                                           ELSE IF b = x THEN i ELSE @[b]],
                 !.aiFreelist[l] = i]

(* Mutant: the successor keeps pointing back at the chunk removed.         *)
UnlinkStalePrev(p, i, l) ==
    LET n == p.next[i]
        v == p.prev[i]
    IN [p EXCEPT !.aiFreelist[l] = IF v < 0 THEN n ELSE @,
                 !.next = [b \in Atoms |-> IF b = i THEN Junk
                                           ELSE IF b = v THEN n ELSE @[b]],
                 !.prev[i] = Junk]

mplite_unlink(p, i, l) ==
    LET n == p.next[i]
        v == p.prev[i]
    IN [p EXCEPT !.aiFreelist[l] = IF v < 0 THEN n ELSE @,
                 !.next = [b \in Atoms |-> IF b = i THEN Junk
                                           ELSE IF b = v THEN n ELSE @[b]],
                 !.prev = [b \in Atoms |-> IF b = i THEN Junk
                                           ELSE IF b = n THEN v ELSE @[b]]]

(* The chunk mplite_unlink_first takes: the least index met while walking  *)
(* the list, a walk that ends at the end of the list or at atom 0.         *)
FirstFree(p, l) ==
    LET head == p.aiFreelist[l]
        at[k \in 0..nBlock] ==
            IF k = 0 THEN head
            ELSE LET i == at[k - 1] IN IF i > 0 THEN p.next[i] ELSE i
    IN Min({head} \cup {at[k] : k \in {j \in 0..nBlock : at[j] > 0}})

------------------------------------------------------------------------------
(* mplite_init over a buffer whose control bytes are ctrl: the largest     *)
(* chunks first, each placed where the one before it ends.                 *)
Formatted(ctrl) ==
    LET blank == [aCtrl |-> ctrl,
                  next |-> [b \in Atoms |-> Junk],
                  prev |-> [b \in Atoms |-> Junk],
                  aiFreelist |-> [l \in Logs |-> Nil]]
        carve[l \in 0..(MPLITE_LOGMAX + 1)] ==
            IF l > MPLITE_LOGMAX THEN [p |-> blank, iOffset |-> 0]
            ELSE LET c == carve[l + 1]
                 IN IF c.iOffset + 2 ^ l > nBlock THEN c
                    ELSE [p |-> mplite_link([c.p EXCEPT !.aCtrl[c.iOffset]
                                               = FreeChunk(l)], c.iOffset, l),
                          iOffset |-> c.iOffset + 2 ^ l]
    IN carve[0].p

NoStat == [currentOut |-> 0, currentCount |-> 0,
           maxOut |-> 0, maxCount |-> 0, maxRequest |-> 0]

Init == /\ \E c \in Stale : pool = Formatted([b \in Atoms |-> c])
        /\ stat = NoStat
        /\ held = <<>>

(* shalloc_buff_reset: mplite_init again, over whatever the buffer holds.  *)
Reset == /\ pool' = Formatted(pool.aCtrl)
         /\ stat' = NoStat
         /\ held' = <<>>

------------------------------------------------------------------------------
(* The chunks in the callers' hands.                                       *)
With(f, b, c) == [x \in DOMAIN f \cup {b} |-> IF x = b THEN c ELSE f[x]]

Without(f, b) == [x \in DOMAIN f \ {b} |-> f[x]]

------------------------------------------------------------------------------
(* Allocation.                                                             *)

Usable(p, l) == {k \in l..MPLITE_LOGMAX : p.aiFreelist[k] # Nil}

(* Mutant: the last half cut off is never linked.                          *)
SplitLosesLast(p, i, from, to) ==
    LET cut[k \in to..from] ==
            IF k = from THEN p
            ELSE IF k = to THEN cut[k + 1]
            ELSE mplite_link([cut[k + 1] EXCEPT !.aCtrl[i + 2 ^ k] = FreeChunk(k)],
                             i + 2 ^ k, k)
    IN [cut[to] EXCEPT !.aCtrl[i] = UsedChunk(to)]

(* Mutant: the chunk keeps the size of the one it was cut from.            *)
SplitKeepsSize(p, i, from, to) ==
    LET cut[k \in to..from] ==
            IF k = from THEN p
            ELSE mplite_link([cut[k + 1] EXCEPT !.aCtrl[i + 2 ^ k] = FreeChunk(k)],
                             i + 2 ^ k, k)
    IN [cut[to] EXCEPT !.aCtrl[i] = UsedChunk(from)]

(* Cut chunk i of 2^from atoms down to 2^to: each upper half is linked.    *)
Split(p, i, from, to) ==
    LET cut[k \in to..from] ==
            IF k = from THEN p
            ELSE mplite_link([cut[k + 1] EXCEPT !.aCtrl[i + 2 ^ k] = FreeChunk(k)],
                             i + 2 ^ k, k)
    IN [cut[to] EXCEPT !.aCtrl[i] = UsedChunk(to)]

Larger(a, b) == IF a < b THEN b ELSE a

(* Mutant: the count of checkouts is not raised.                           *)
CountOutBytesOnly(s, bytes) ==
    [s EXCEPT !.currentOut = @ + bytes,
              !.maxOut = Larger(@, s.currentOut + bytes)]

CountOut(s, bytes) ==
    [s EXCEPT !.currentCount = @ + 1,
              !.currentOut = @ + bytes,
              !.maxCount = Larger(@, s.currentCount + 1),
              !.maxOut = Larger(@, s.currentOut + bytes)]

Asked(s, n) == [s EXCEPT !.maxRequest = Larger(@, n)]

Serves(p, n) == n <= MPLITE_MAX_ALLOC_SIZE /\ Usable(p, LogFor(n)) # {}

Servable(n) == Serves(pool, n)

(* What mplite_malloc_unsafe makes of a pool and its statistics, for a     *)
(* request it can serve.                                                   *)
TakenFrom(p, s, n) ==
    LET l == LogFor(n)
        bin == Min(Usable(p, l))
        i == FirstFree(p, bin)
    IN [i |-> i,
        pool |-> Split(mplite_unlink(p, i, bin), i, bin, l),
        stat |-> CountOut(Asked(s, n), szAtom * 2 ^ l),
        chunk |-> [size |-> n, log |-> l]]

Taken(n) == TakenFrom(pool, stat, n)

Malloc(size) ==
    LET n == ToInt(size)
    IN /\ n > 0
       /\ Servable(n)
       /\ LET t == Taken(n)
          IN /\ pool' = t.pool
             /\ stat' = t.stat
             /\ held' = With(held, t.i, [t.chunk EXCEPT !.size = size])

(* NULL: the parameter check, the size cap, or no chunk large enough.      *)
MallocFails(size) ==
    LET n == ToInt(size)
    IN /\ n > 0 => ~ Servable(n)
       /\ stat' = IF n > 0 THEN Asked(stat, n) ELSE stat
       /\ UNCHANGED <<pool, held>>

------------------------------------------------------------------------------
(* Release.                                                                *)

Buddy(b, l) == IF (b \div 2 ^ l) % 2 = 1 THEN b - 2 ^ l ELSE b + 2 ^ l

(* The merge loop of mplite_free_unsafe; c is [p, b, l].                   *)
Coalesced(p, b, l) ==
    LET Joins(c) == /\ c.l < MPLITE_LOGMAX
                    /\ Buddy(c.b, c.l) + 2 ^ c.l <= nBlock
                    /\ c.p.aCtrl[Buddy(c.b, c.l)] = FreeChunk(c.l)
        Join(c) ==
            LET d == Buddy(c.b, c.l)
                low == Min({c.b, d})
                high == Max({c.b, d})
            IN [p |-> [mplite_unlink(c.p, d, c.l) EXCEPT
                          !.aCtrl[low] = FreeChunk(c.l + 1),
                          !.aCtrl[high] = UsedChunk(0)],
                b |-> low,
                l |-> c.l + 1]
        grown[k \in Logs] ==
            IF k = 0 THEN [p |-> p, b |-> b, l |-> l]
            ELSE LET c == grown[k - 1] IN IF Joins(c) THEN Join(c) ELSE c
        last == grown[MPLITE_LOGMAX]
    IN mplite_link(last.p, last.b, last.l)

(* Mutant: a chunk is freed without looking at its buddy.                  *)
ReleasedAlone(p, b) ==
    LET l == p.aCtrl[b].log IN mplite_link([p EXCEPT !.aCtrl[b] = FreeChunk(l)], b, l)

Released(p, b) ==
    LET l == p.aCtrl[b].log
        marked == [p EXCEPT !.aCtrl[b + 2 ^ l - 1].free = TRUE,
                            !.aCtrl[b] = FreeChunk(l)]
    IN Coalesced(marked, b, l)

(* Mutant: the bytes of a freed chunk stay counted as checked out.         *)
CountInCountOnly(s, bytes) == [s EXCEPT !.currentCount = @ - 1]

CountIn(s, bytes) == [s EXCEPT !.currentCount = @ - 1, !.currentOut = @ - bytes]

mplite_size(p, b) == szAtom * 2 ^ p.aCtrl[b].log

(* What mplite_roundup tells a caller that malloc will set aside for n.    *)
mplite_roundup(n) ==
    IF n > MPLITE_MAX_ALLOC_SIZE THEN 0
    ELSE Min({s \in {szAtom * 2 ^ l : l \in 0..IntBits} : n <= s})

Free(b) == /\ pool' = Released(pool, b)
           /\ stat' = CountIn(stat, mplite_size(pool, b))
           /\ held' = Without(held, b)

------------------------------------------------------------------------------
(* mplite_realloc accepts a positive power of two only; it grows by moving.*)

PowerOfTwo(n) == \E l \in Logs : n = 2 ^ l

Realloc(b, n) ==
    /\ PowerOfTwo(n)
    /\ n > mplite_size(pool, b)
    /\ Servable(n)
    /\ LET t == Taken(n)
       IN /\ pool' = Released(t.pool, b)
          /\ stat' = CountIn(t.stat, mplite_size(pool, b))
          /\ held' = With(Without(held, b), t.i, t.chunk)

(* A refusal, or the old pointer when the chunk is already large enough.   *)
ReallocStays(b, n) ==
    LET moves == PowerOfTwo(n) /\ n > mplite_size(pool, b)
    IN /\ moves => ~ Servable(n)
       /\ stat' = IF moves THEN Asked(stat, n) ELSE stat
       /\ UNCHANGED <<pool, held>>

Next == \/ \E size \in Requests : Malloc(size)
        \/ \E size \in Requests : MallocFails(size)
        \/ \E b \in DOMAIN held : Free(b)
        \/ \E b \in DOMAIN held, n \in Resizes : Realloc(b, n)
        \/ \E b \in DOMAIN held, n \in Resizes : ReallocStays(b, n)
        \/ Reset

Spec == Init /\ [][Next]_vars

------------------------------------------------------------------------------
(* Type correctness of the heads, links and statistics: every index is an  *)
(* atom of this pool, so no list operation reaches outside it.             *)
TypeOK ==
    /\ pool \in [aCtrl : [Atoms -> Ctrl],
                 next : [Atoms -> Atoms \cup {Nil, Junk}],
                 prev : [Atoms -> Atoms \cup {Nil, Junk}],
                 aiFreelist : [Logs -> Atoms \cup {Nil}]]
    /\ DOMAIN held \subseteq Atoms
    /\ \A f \in DOMAIN stat : stat[f] \in 0..(2 ^ IntBits - 1)

(* The chunks met by walking the list of each size.                        *)
ListOf(l) ==
    LET at[k \in 0..nBlock] ==
            IF k = 0 THEN pool.aiFreelist[l]
            ELSE LET i == at[k - 1] IN IF i \in Atoms THEN pool.next[i] ELSE i
    IN [k \in 0..nBlock |-> at[k]]

OnList(l) == {ListOf(l)[k] : k \in 0..nBlock} \cap Atoms

ChunkAtoms(b, l) == b..(b + 2 ^ l - 1)

(* Every free list ends, visits no chunk twice, has prev mirroring next,   *)
(* and holds exactly chunks marked free with that list's size             *)
(* (the asserts of mplite_link and mplite_unlink).                         *)
FreeListsSound ==
    \A l \in Logs :
      LET at == ListOf(l)
      IN /\ at[nBlock] = Nil
         /\ \A k \in 0..nBlock : at[k] \in Atoms =>
              /\ pool.aCtrl[at[k]] = FreeChunk(l)
              /\ pool.prev[at[k]] = IF k = 0 THEN Nil ELSE at[k - 1]

(* The free chunks and the chunks handed out cover every atom of the pool, *)
(* and none is covered twice: nothing is lost, nothing is given out twice. *)
PoolTiled ==
    LET free == {c \in Atoms \X Logs : c[1] \in OnList(c[2])}
        used == {<<b, held[b].log>> : b \in DOMAIN held}
    IN /\ free \cap used = {}
       /\ \A x \in Atoms :
             Cardinality({c \in free \cup used : x \in ChunkAtoms(c[1], c[2])}) = 1
       /\ \A b \in DOMAIN held : pool.aCtrl[b] = UsedChunk(held[b].log)

(* "If two adjacent free blocks are the halves of a larger block, then the *)
(* two blocks are coalesced" (mplite.h): no free chunk has a free buddy of *)
(* its own size that fits in the pool.                                     *)
BuddiesCoalesced ==
    \A l \in Logs \ {MPLITE_LOGMAX} : \A b \in OnList(l) :
        Buddy(b, l) \notin OnList(l)

(* currentOut and currentCount describe what the callers hold, in bytes of *)
(* whole atoms and in chunks, and the maxima are never behind them; the    *)
(* asserts of mplite_free_unsafe.                                          *)
StatsAgree ==
    /\ stat.currentCount = Cardinality(DOMAIN held)
    /\ stat.currentOut =
          szAtom * Cardinality(UNION {ChunkAtoms(b, held[b].log) : b \in DOMAIN held})
    /\ stat.currentOut <= stat.maxOut
    /\ stat.currentCount <= stat.maxCount

(* The chunk granted is the one mplite_roundup announces for the size the  *)
(* caller asked for: large enough, and no larger than the rounding needs.  *)
RequestFits ==
    \A b \in DOMAIN held : mplite_roundup(held[b].size) = szAtom * 2 ^ held[b].log

(* The bound of Robson that mplite.h quotes: while it holds for the memory *)
(* outstanding and the largest request so far (in atoms, doubled to stay   *)
(* in the integers), a request is not refused for fragmentation.  The bound*)
(* says nothing of a request that is larger than all memory outstanding.   *)
RobsonBound ==
    \A n \in Requests \cap 1..MPLITE_MAX_ALLOC_SIZE :
      LET L == LogFor(Larger(stat.maxRequest, n))
          M == Larger(stat.maxOut, stat.currentOut + szAtom * 2 ^ LogFor(n)) \div szAtom
      IN /\ 2 ^ L <= M
         /\ 2 * nBlock >= M * (2 + L) - 2 * 2 ^ L + 2
         => Servable(n)

(* Mplite implements the allocator interface of shalloc.h, in atoms.        *)
Abs == INSTANCE BufferAllocator WITH
           Size <- nBlock,
           Lens <- {2 ^ l : l \in 0..mplite_logarithm(nBlock)},
           live <- {[off |-> b, len |-> 2 ^ held[b].log] : b \in DOMAIN held}

Refinement == Abs!Spec
==============================================================================
