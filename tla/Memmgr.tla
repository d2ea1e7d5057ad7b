------------------------------- MODULE Memmgr -------------------------------
(***************************************************************************)
(* memmgr.c: the first-fit allocator behind SHALLOC_BUFF_ALLOC_TYPE_SIMPLE.*)
(*                                                                         *)
(* The pool follows the header in the buffer and is counted in quanta      *)
(* (sizeof(mem_header_t)); a block is named by the quantum of its header.  *)
(* Blocks are taken from the end of the used part (pool_free_pos) and, once*)
(* freed, are kept in a circular list in address order through `base`,     *)
(* which lies below the pool.  Allocation walks that list from freep.      *)
(*                                                                         *)
(* Header fields that no block in use gives a meaning to are Junk.         *)
(***************************************************************************)
EXTENDS Integers, FiniteSetsExt

CONSTANTS
    Modulus,       \* 2^64: values of a ulong
    Quantum,       \* sizeof(mem_header_t): 16
    HeaderSize,    \* sizeof(buff_header_t): 40
    BuffSize,      \* size of the buffer
    MinQuantas,    \* MIN_POOL_ALLOC_QUANTAS: 8
    Asked          \* sizes passed to malloc; shalloc_malloc lets no 0 through

(* Assumed by every module that runs this one.                             *)
MemmgrAssumption ==
    /\ Quantum \in Nat \ {0} /\ Modulus \in Nat \ {0} /\ Modulus % Quantum = 0
    /\ HeaderSize \in Nat /\ BuffSize \in Nat /\ MinQuantas \in Nat \ {0}
    /\ Asked \subseteq 1..(Modulus - 1)

VARIABLES
    list,      \* [next, size, freep] of the headers
    pos,       \* pool_free_pos, in quanta
    held       \* history: block -> size asked for

vars == <<list, pos, held>>

(* Quanta of the pool as the code sees it: POOL_SIZE is the whole buffer.  *)
PoolQuanta == BuffSize \div Quantum

Pool == 0..(PoolQuanta - 1)
Base == -1
Junk == -2
Null == -3

NoList == [next |-> [b \in Pool \cup {Base} |-> Junk],
           size |-> [b \in Pool \cup {Base} |-> IF b = Base THEN 0 ELSE Junk],
           freep |-> Null]

Init == list = NoList /\ pos = 0 /\ held = <<>>

(* memmgr_init again.                                                      *)
Reset == list' = NoList /\ pos' = 0 /\ held' = <<>>

(* Mutant: the quantum of the block's own header is forgotten.             *)
QuantasOfData(nbytes) == ((nbytes + Quantum - 1) % Modulus) \div Quantum

(* The bytes asked for and the header.                                     *)
Quantas(nbytes) == ((nbytes + Quantum - 1) % Modulus) \div Quantum + 1

Pooled(q) == IF q < MinQuantas THEN MinQuantas ELSE q

(* The block met after k steps along the list.                             *)
Walk(m) == LET at[k \in 0..(PoolQuanta + 1)] ==
                   IF k = 0 THEN m.freep ELSE m.next[at[k - 1]]
           IN at

------------------------------------------------------------------------------
(* memmgr_free on the list m.                                              *)

(* Mutant: the block goes where the last search ended.                     *)
PlaceAtFreep(m, b) == m.freep

(* The block after which b goes: its neighbour in address order, or the    *)
(* one link where the circle turns back.                                   *)
PlaceFor(m, b) ==
    LET at == Walk(m)
        Fits(p) == LET n == m.next[p]
                   IN \/ b > p /\ b < n
                      \/ p >= n /\ (b > p \/ b < n)
    IN at[Min({k \in 0..PoolQuanta : Fits(at[k])})]

(* Mutant: the block is never joined to the free block below it.           *)
InsertedUnjoined(m, b) ==
    LET p == PlaceFor(m, b)
        n == m.next[p]
        meets == b + m.size[b] = n
    IN [next |-> [m.next EXCEPT ![n] = IF meets THEN Junk ELSE @,
                                ![b] = IF meets THEN m.next[n] ELSE n,
                                ![p] = b],
        size |-> [m.size EXCEPT ![b] = IF meets THEN @ + m.size[n] ELSE @,
                                ![n] = IF meets THEN Junk ELSE @],
        freep |-> p]

Inserted(m, b) ==
    LET p == PlaceFor(m, b)
        n == m.next[p]
        meets == b + m.size[b] = n
        up == [next |-> [m.next EXCEPT ![n] = IF meets THEN Junk ELSE @,
                                       ![b] = IF meets THEN m.next[n] ELSE n],
               size |-> [m.size EXCEPT ![b] = IF meets THEN @ + m.size[n] ELSE @,
                                       ![n] = IF meets THEN Junk ELSE @]]
    IN IF p + m.size[p] = b
       THEN [next |-> [up.next EXCEPT ![b] = Junk, ![p] = up.next[b]],
             size |-> [up.size EXCEPT ![b] = Junk, ![p] = @ + up.size[b]],
             freep |-> p]
       ELSE [next |-> [up.next EXCEPT ![p] = b], size |-> up.size, freep |-> p]

------------------------------------------------------------------------------
(* memmgr_alloc.                                                           *)

(* The first call makes `base` a list of its own.                          *)
Started(m) == IF m.freep # Null THEN m
              ELSE [m EXCEPT !.next[Base] = Base, !.freep = Base]

(* Steps of the walk at which a large enough block is met.                 *)
Fitting(m, q) ==
    LET at == Walk(m)
        round == Min({k \in 1..(PoolQuanta + 1) : at[k] = m.freep})
    IN {k \in 1..round : m.size[at[k]] >= q}

(* pool_free_pos behind a block that is taken from the pool.               *)
PosBehind(q) == (((pos + Pooled(q)) * Quantum) % Modulus) \div Quantum

HasRoom(q) == PosBehind(q) <= PoolQuanta

(* get_mem_from_pool: a block off the end of the used part is freed.       *)
Extended(m, q) == Inserted([m EXCEPT !.size[pos] = Pooled(q)], pos)

(* Mutant: the block that gives up its tail keeps its size.                *)
TakenUnshrunk(m, q) ==
    LET at == Walk(m)
        k == Min(Fitting(m, q))
        p == at[k]
        prevp == at[k - 1]
        b == p + m.size[p] - q
    IN [b |-> b,
        list |-> [next |-> IF b = p
                           THEN [m.next EXCEPT ![prevp] = m.next[p], ![p] = Junk]
                           ELSE m.next,
                  size |-> [m.size EXCEPT ![b] = q],
                  freep |-> prevp]]

(* An exact fit leaves the list; a larger block gives up its tail.         *)
Taken(m, q) ==
    LET at == Walk(m)
        k == Min(Fitting(m, q))
        p == at[k]
        prevp == at[k - 1]
        b == p + m.size[p] - q
    IN [b |-> b,
        list |-> [next |-> IF b = p
                           THEN [m.next EXCEPT ![prevp] = m.next[p], ![p] = Junk]
                           ELSE m.next,
                  size |-> [m.size EXCEPT ![p] = b - p, ![b] = q],
                  freep |-> prevp]]

Give(t, nbytes) ==
    /\ list' = t.list
    /\ held' = [x \in DOMAIN held \cup {t.b} |-> IF x = t.b THEN nbytes ELSE held[x]]

Alloc(nbytes) ==
    LET q == Quantas(nbytes)
        m == Started(list)
    IN /\ Fitting(m, q) # {}
       /\ Give(Taken(m, q), nbytes)
       /\ UNCHANGED pos

AllocFromPool(nbytes) ==
    LET q == Quantas(nbytes)
        m == Started(list)
    IN /\ Fitting(m, q) = {}
       /\ HasRoom(q)
       /\ Give(Taken(Extended(m, q), q), nbytes)
       /\ pos' = PosBehind(q)

AllocNull(nbytes) ==
    LET q == Quantas(nbytes)
        m == Started(list)
    IN /\ Fitting(m, q) = {}
       /\ ~ HasRoom(q)
       /\ list' = m
       /\ UNCHANGED <<pos, held>>

Free(b) ==
    /\ list' = Inserted(list, b)
    /\ held' = [x \in DOMAIN held \ {b} |-> held[x]]
    /\ UNCHANGED pos

Next == \/ \E nbytes \in Asked : Alloc(nbytes)
        \/ \E nbytes \in Asked : AllocFromPool(nbytes)
        \/ \E nbytes \in Asked : AllocNull(nbytes)
        \/ \E b \in DOMAIN held : Free(b)
        \/ Reset

Spec == Init /\ [][Next]_vars

------------------------------------------------------------------------------
TypeOK ==
    /\ list.next \in [Pool \cup {Base} -> Pool \cup {Base, Junk}]
    /\ list.size \in [Pool \cup {Base} -> 0..PoolQuanta \cup {Junk}]
    /\ list.freep \in Pool \cup {Base, Null}
    /\ pos \in 0..PoolQuanta
    /\ DOMAIN held \subseteq Pool

OnList == IF list.freep = Null THEN {}
          ELSE {Walk(list)[k] : k \in 0..PoolQuanta} \ {Base}

Quanta(b) == b..(b + list.size[b] - 1)

(* The list is one circle through `base`, in address order with a single   *)
(* turn: the walks of memmgr_alloc and memmgr_free end, and find every     *)
(* free block.                                                             *)
RingSound ==
    list.freep # Null =>
        LET ring == OnList \cup {Base}
        IN \A b \in ring :
              list.next[b] = IF \E c \in ring : c > b THEN Min({c \in ring : c > b})
                             ELSE Base

(* Free blocks and blocks handed out cover the used part of the pool, and  *)
(* nothing is covered twice.                                               *)
PoolTiled ==
    LET all == OnList \cup DOMAIN held
    IN /\ OnList \cap DOMAIN held = {}
       /\ \A x \in Pool :
             Cardinality({b \in all : x \in Quanta(b)}) = IF x < pos THEN 1 ELSE 0

(* "The adjacent blocks are combined" (memmgr.c:217): no free block starts *)
(* where another ends.                                                     *)
NeighboursCombined == \A b \in OnList : b + list.size[b] \notin OnList

(* "Enough to house all the requested bytes, plus the header".             *)
RequestHoused == \A b \in DOMAIN held : held[b] + Quantum <= list.size[b] * Quantum

(* The bytes behind every pointer memmgr_alloc can return lie in the       *)
(* buffer, whose first bytes are the header: POOL_SIZE does not count them.*)
BlocksInBuffer ==
    \A b \in DOMAIN held : HeaderSize + (b + list.size[b]) * Quantum <= BuffSize

(* Callers hold the quanta behind each header: where the pool leaves room  *)
(* for the header, the manager implements the allocator interface on the   *)
(* bytes of the buffer.                                                    *)
Abs == INSTANCE BufferAllocator WITH
           Size <- BuffSize,
           Lens <- {q * Quantum : q \in 0..PoolQuanta},
           live <- {[off |-> HeaderSize + (b + 1) * Quantum,
                     len |-> (list.size[b] - 1) * Quantum] : b \in DOMAIN held}

Refinement == Abs!Spec
=============================================================================
