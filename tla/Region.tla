------------------------------- MODULE Region -------------------------------
(***************************************************************************)
(* region.c and buffer.c: the tree of regions that shares out one heap.    *)
(*                                                                         *)
(* A region owns a chain of buffers, each managed by an allocator of its   *)
(* own.  Its shalloc_region_t and every shalloc_buff_t with its data are   *)
(* blocks that shalloc_malloc took from the parent region, so one call can *)
(* make several ancestors grow.  The root is the region of a heap: one     *)
(* buffer, no parent, NON_RESIZABLE.                                       *)
(*                                                                         *)
(* Where a block lies inside its buffer is left to the allocators          *)
(* (BufferAllocator); kept here is which buffer hosts it and whether it    *)
(* fits.  A "nofree" buffer only moves a pointer; a "pool" buffer (any     *)
(* other allocator) may refuse although enough bytes are left.             *)
(*                                                                         *)
(* Callers follow the rules of the interface: they free what they hold,    *)
(* once, in the region it came from, and after a reset or destroy they use *)
(* nothing that lay in the region, regions included.                       *)
(***************************************************************************)
EXTENDS Integers, Sequences, FiniteSets, FiniteSetsExt, Functions

CONSTANTS
    Regions,       \* bound: names of shalloc_region_t below the root
    Buffs,         \* bound: names of shalloc_buff_t
    Users,         \* bound: names of blocks handed to callers
    RootSize,      \* size of the heap's data buffer
    RootKind,      \* its allocator
    Header,        \* nofree_header_t
    BuffStruct,    \* sizeof(shalloc_buff_t)
    RegionStruct,  \* sizeof(shalloc_region_t)
    MinBuff,       \* SHALLOC_BUFF_MIN_SIZE
    Modes,         \* [kind, elastic, fixed] that callers create regions with
    BuffSizes,     \* buff_size arguments
    InitSizes,     \* init_size arguments
    Asked          \* sizes that callers pass to malloc and orealloc

Root == 0
RootBuff == 0

(* Every allocator accepts a buffer of SHALLOC_BUFF_MIN_SIZE, so op->create *)
(* does not fail below.                                                    *)
ASSUME RegionAssumption ==
    /\ Regions \subseteq Nat \ {Root} /\ IsFiniteSet(Regions)
    /\ Buffs \subseteq Nat \ {RootBuff}
    /\ Users \subseteq Nat
    /\ {RootSize, Header, BuffStruct, RegionStruct, MinBuff} \subseteq Nat \ {0}
    /\ 2 * Header <= MinBuff
    /\ RootKind \in {"nofree", "pool"}
    /\ InitSizes \subseteq Nat /\ BuffSizes \cup Asked \subseteq Nat \ {0}
    /\ Modes \subseteq [kind : {"nofree", "pool"}, elastic : BOOLEAN, fixed : BOOLEAN]

VARIABLES
    region,    \* shalloc_region_t of each region callers may use
    buff,      \* shalloc_buff_t of each buffer in a chain; used is
               \* how far a nofree allocator's pointer has moved
    blocks,    \* what the allocators have out, with the buffer it is in
    held,      \* history: blocks callers hold, with their region
    misused    \* history: a free or destroy of memory that was not out

vars == <<region, buff, blocks, held, misused>>

Region(parent, chain, size, mode) ==
    [parent |-> parent, chain |-> chain, size |-> size, mode |-> mode]

Names == ({"region"} \X Regions) \cup ({"buff"} \X Buffs) \cup ({"user"} \X Users)

(* The state the functions of region.c work on.                            *)
State == [region |-> region, buff |-> buff, blocks |-> blocks, misused |-> misused]

Without(f, S) == [x \in DOMAIN f \ S |-> f[x]]
With(f, x, v) == [y \in DOMAIN f \cup {x} |-> IF y = x THEN v ELSE f[y]]

Larger(a, b) == IF a < b THEN b ELSE a

LastBuff(s, r) == s.region[r].chain[Len(s.region[r].chain)]

Chain(s, r) == Range(s.region[r].chain)

HostedIn(s, S) == {k \in s.blocks : k.host \in S}

(* With a region in S, its children are.                                   *)
Closed(s, S) == \A q \in DOMAIN s.region : s.region[q].parent \in S => q \in S

(* r and the regions below it: the least such set that has r.              *)
Under(s, r) ==
    {q \in DOMAIN s.region :
        \A S \in SUBSET DOMAIN s.region : r \in S /\ Closed(s, S) => q \in S}

------------------------------------------------------------------------------
(* The allocators behind a buffer.                                         *)

Out(s, b) == MapThenSumSet(LAMBDA k : k.size, HostedIn(s, {b}))

(* What op->malloc may answer.                                             *)
Answers(s, b, n) ==
    LET d == s.buff[b]
    IN IF d.kind = "nofree" THEN {d.used + n <= d.size}
       ELSE {Out(s, b) + n <= d.size, FALSE}

Placed(s, b, name, n) ==
    [s EXCEPT !.blocks = @ \cup {[name |-> name, host |-> b, size |-> n]},
              !.buff[b].used = IF s.buff[b].kind = "nofree" THEN @ + n ELSE @]

NewBuff(kind, size) == [kind |-> kind, size |-> size, used |-> Header]

(* shalloc_get_buff raises every size to the minimum.                      *)
BuffSize(size) == Larger(size, MinBuff)

(* Mutant: a start of NULL instead of (void * )-1, which skips the minimum. *)
DefaultAsGiven(size) == size

(* The size shalloc_get_region keeps for the buffers of a region.          *)
Default(size) == BuffSize(size)

(* shalloc_free: only a block of the last buffer goes back.                *)
Freed(s, r, name) ==
    LET tail == LastBuff(s, r)
        found == {k \in s.blocks : k.name = name}
    IN IF found = {} THEN [s EXCEPT !.misused = TRUE]
       ELSE [s EXCEPT !.blocks = @ \ {k \in found : k.host = tail}]

------------------------------------------------------------------------------
(* Allocation: sets of [s, ok], one for every answer of the allocators.    *)

Outcome(s, ok) == [s |-> s, ok |-> ok]

(* Mutant: no room is left for what the allocator adds.                    *)
GrowByRequest(n) == n

(* SHALLOC_BUFF_ALLOC_SIZE.                                                *)
GrowBy(n) == (21 * n) \div 10

DefaultSize(g) == IF g.mode.elastic THEN 2 * g.size ELSE g.size

Unnamed(s) == {b \in Buffs : /\ b \notin DOMAIN s.buff
                             /\ \A k \in s.blocks : k.name # <<"buff", b>>}

Incoming == <<"buff", RootBuff>>

(* Mutant: the new buffer replaces the chain instead of following it.      *)
JoinedAlone(s, r, size) ==
    LET b == Min(Unnamed(s))
        g == s.region[r]
    IN [s EXCEPT !.buff = With(@, b, NewBuff(g.mode.kind, BuffSize(size))),
                 !.blocks = {IF k.name = Incoming THEN [k EXCEPT !.name = <<"buff", b>>]
                             ELSE k : k \in @},
                 !.region[r].chain = <<b>>]

(* The block just allocated as Incoming gets a name of its own and, with   *)
(* its struct filled in, joins the end of r's chain.                       *)
Joined(s, r, size) ==
    LET b == Min(Unnamed(s))
        g == s.region[r]
        longer == Region(g.parent, Append(g.chain, b), DefaultSize(g), g.mode)
    IN [s EXCEPT !.region = [@ EXCEPT ![r] = longer],
                 !.buff = With(@, b, NewBuff(g.mode.kind, BuffSize(size))),
                 !.blocks = {IF k.name = Incoming THEN [k EXCEPT !.name = <<"buff", b>>]
                             ELSE k : k \in @}]

(* What the allocator of r's last buffer makes of a request.               *)
Ask(s, r, name, n) ==
    LET tail == LastBuff(s, r)
    IN {IF a THEN Outcome(Placed(s, tail, name, n), TRUE)
        ELSE Outcome(s, FALSE) : a \in Answers(s, tail, n)}

(* Both functions below take the calls that a region makes to its parent,  *)
(* as a function from a request, <<region, size>>, to its outcomes.        *)

(* shalloc_region_grow; the NON_RESIZABLE flag lets the first buffer pass. *)
GrownBy(calls, s, r, n) ==
    LET g == s.region[r]
        size == Larger(n, DefaultSize(g))
        got == calls[<<g.parent, BuffStruct + size>>]
    IN IF g.chain # <<>> /\ g.mode.fixed THEN {Outcome(s, FALSE)}
       ELSE {o \in got : ~ o.ok}
              \cup {Outcome(Joined(o.s, r, size), TRUE) :
                       o \in {x \in got : x.ok /\ Unnamed(x.s) # {}}}

(* shalloc_malloc: the last buffer is asked, then a new one.               *)
MallocedBy(calls, s, r, name, n) ==
    LET first == IF s.region[r].chain = <<>> THEN {Outcome(s, FALSE)}
                 ELSE Ask(s, r, name, n)
        grown == IF \A o \in first : o.ok THEN {}
                 ELSE GrownBy(calls, s, r, GrowBy(n))
    IN {o \in first : o.ok}
         \cup {o \in grown : ~ o.ok}
         \cup UNION {Ask(o.s, r, name, n) : o \in {p \in grown : p.ok}}

Requests(s) == (DOMAIN s.region) \X (Nat \ {0})

(* The calls of a region at most k levels below the root, which is fixed   *)
(* and makes none.                                                         *)
Calls(s) ==
    LET calls[k \in 0..Cardinality(Regions)] ==
            [q \in Requests(s) |->
                IF k = 0 THEN {Outcome(s, FALSE)}
                ELSE MallocedBy(calls[k - 1], s, q[1], Incoming, q[2])]
    IN calls[Cardinality(Regions)]

Grown(s, r, n) == GrownBy(Calls(s), s, r, n)

Malloced(s, r, name, n) == MallocedBy(Calls(s), s, r, name, n)

------------------------------------------------------------------------------
(* Release.                                                                *)

(* shalloc_region_free_buff: op->destroy reads the buffer's header.        *)
BuffFreed(s, r, b) ==
    LET intact == \E k \in s.blocks : k.name = <<"buff", b>>
    IN Freed([s EXCEPT !.misused = @ \/ ~ intact], s.region[r].parent, <<"buff", b>>)

(* Mutant: the first buffer is freed with the others.                      *)
FreedByResetAll(chain) == SubSeq(chain, 1, Len(chain) - 1)

(* The loop of shalloc_region_reset frees the buffer behind the current    *)
(* one, so the last is never freed, and the first is kept.                 *)
FreedByReset(chain) == SubSeq(chain, 2, Len(chain) - 1)

(* Everything that lay in r's buffers is forgotten with them.              *)
WasReset(s, r) ==
    LET chain == s.region[r].chain
        gone == Under(s, r)
        hosts == UNION {Chain(s, q) : q \in gone}
        emptied == [s EXCEPT !.blocks = @ \ HostedIn(s, hosts),
                             !.region = Without(@, gone \ {r})]
        doomed == FreedByReset(chain)
        freed[i \in 0..Len(doomed)] ==
            IF i = 0 THEN emptied ELSE BuffFreed(freed[i - 1], r, doomed[i])
        head == Head(chain)
    IN IF chain = <<>> THEN emptied
       ELSE [freed[Len(doomed)] EXCEPT
                !.buff = With(Without(@, hosts), head,
                              NewBuff(s.buff[head].kind, s.buff[head].size)),
                !.region[r].chain = <<head>>]

(* shalloc_region_destroy of a region with a parent.                       *)
Destroyed(s, r) ==
    LET t == WasReset(s, r)
    IN [Freed(t, s.region[r].parent, <<"region", r>>) EXCEPT
            !.region = Without(@, {r}),
            !.buff = Without(@, Chain(t, r))]

------------------------------------------------------------------------------
(* The calls of the interface.                                             *)

Becomes(s) ==
    /\ region' = s.region
    /\ buff' = s.buff
    /\ blocks' = s.blocks
    /\ misused' = s.misused

(* Callers lose what lay in the regions that are gone.                     *)
HeldAfter(gone) == {h \in held : h.region \notin gone}

Init ==
    /\ region = [r \in {Root} |->
                    Region(Root, <<RootBuff>>, RootSize,
                           [kind |-> RootKind, elastic |-> FALSE, fixed |-> TRUE])]
    /\ buff = [b \in {RootBuff} |-> NewBuff(RootKind, RootSize)]
    /\ blocks = {}
    /\ held = {}
    /\ misused = FALSE

FreeRegionNames == {r \in Regions : /\ r \notin DOMAIN region
                                    /\ \A k \in blocks : k.name # <<"region", r>>}

(* shalloc_region_create: the struct, then the first buffer if one is      *)
(* asked for; without it the region is destroyed again.                    *)
RegionCreate(parent, init, size, mode) ==
    /\ FreeRegionNames # {}
    /\ LET r == Min(FreeRegionNames)
           made(s) == [s EXCEPT !.region =
                          With(@, r, Region(parent, <<>>, Default(size), mode))]
       IN \E o \in Malloced(State, parent, <<"region", r>>, RegionStruct) :
             IF ~ o.ok THEN Becomes(o.s)
             ELSE IF init = 0 THEN Becomes(made(o.s))
             ELSE \E g \in Grown(made(o.s), r, init) :
                     Becomes(IF g.ok THEN g.s ELSE Destroyed(g.s, r))
    /\ UNCHANGED held

RegionDestroy(r) ==
    /\ r # Root
    /\ Becomes(Destroyed(State, r))
    /\ held' = HeldAfter(Under(State, r))

RegionReset(r) ==
    /\ Becomes(WasReset(State, r))
    /\ held' = HeldAfter(Under(State, r))

FreeUserNames == {u \in Users : \A k \in blocks : k.name # <<"user", u>>}

(* shalloc_malloc, and shalloc_calloc with the product of its arguments.   *)
Malloc(r, n) ==
    /\ FreeUserNames # {}
    /\ LET u == Min(FreeUserNames)
       IN \E o \in Malloced(State, r, <<"user", u>>, n) :
             /\ Becomes(o.s)
             /\ held' = IF o.ok THEN held \cup {[name |-> u, region |-> r, size |-> n]}
                        ELSE held

Free(h) ==
    /\ Becomes(Freed(State, h.region, <<"user", h.name>>))
    /\ held' = held \ {h}

(* shalloc_orealloc, given the size the block was allocated with: a larger *)
(* block, a copy, and the old one is freed.  Not larger: nothing happens.  *)
Orealloc(h, n) ==
    /\ n > h.size
    /\ FreeUserNames # {}
    /\ LET u == Min(FreeUserNames)
       IN \E o \in Malloced(State, h.region, <<"user", u>>, n) :
             IF o.ok
             THEN /\ Becomes(Freed(o.s, h.region, <<"user", h.name>>))
                  /\ held' = (held \ {h})
                               \cup {[name |-> u, region |-> h.region, size |-> n]}
             ELSE Becomes(o.s) /\ UNCHANGED held

Next ==
    \/ \E p \in DOMAIN region, i \in InitSizes, n \in BuffSizes, m \in Modes :
          RegionCreate(p, i, n, m)
    \/ \E r \in DOMAIN region : RegionDestroy(r)
    \/ \E r \in DOMAIN region : RegionReset(r)
    \/ \E r \in DOMAIN region, n \in Asked : Malloc(r, n)
    \/ \E h \in held : Free(h)
    \/ \E h \in held, n \in Asked : Orealloc(h, n)

Spec == Init /\ [][Next]_vars

------------------------------------------------------------------------------
TypeOK ==
    /\ DOMAIN region \subseteq Regions \cup {Root}
    /\ \A r \in DOMAIN region : Chain(State, r) \subseteq DOMAIN buff
    /\ DOMAIN buff = UNION {Chain(State, r) : r \in DOMAIN region}
    /\ \A k \in blocks : k.name \in Names /\ k.host \in DOMAIN buff
    /\ misused \in BOOLEAN

(* Everything a caller may still use lies in memory that is still          *)
(* allocated, up to the root: the structs and buffers of a region in the   *)
(* chain of its parent, the blocks in the chain of their region.           *)
Anchored ==
    LET Lies(name, r) == \E k \in blocks : k.name = name /\ k.host \in Chain(State, r)
    IN /\ \A r \in DOMAIN region \ {Root} :
             LET p == region[r].parent
             IN /\ p \in DOMAIN region
                /\ Lies(<<"region", r>>, p)
                /\ \A b \in Chain(State, r) : Lies(<<"buff", b>>, p)
       /\ \A h \in held : Lies(<<"user", h.name>>, h.region)

(* No step frees a block, or closes a buffer, that is not allocated.       *)
NeverMisused == ~ misused

(* A shalloc_buff_t never describes more bytes than its block has.         *)
BuffersCovered ==
    \A r \in DOMAIN region \ {Root} : \A b \in Chain(State, r) :
        \A k \in blocks :
            k.name = <<"buff", b>> => BuffStruct + buff[b].size <= k.size

(* A nofree region that grew to serve a call did serve it: the new buffer  *)
(* is large enough for the request and what the allocator adds.            *)
GrowthServes ==
    \A r \in DOMAIN region :
        region[r].mode.kind = "nofree" =>
            \A i \in 2..Len(region[r].chain) : buff[region[r].chain[i]].used > Header
=============================================================================
