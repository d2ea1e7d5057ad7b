------------------------------- MODULE Space -------------------------------
(***************************************************************************)
(* One process and its shadow space: shalloc.c and heap.c.                 *)
(*                                                                         *)
(* The space is a fixed range of addresses.  Heaps are carved from its     *)
(* data part by a pointer that only moves up (data.size minus              *)
(* unused_size); addresses and sizes are counted here in pages from the    *)
(* first data page.  A heap is described by a shalloc_heap_t that lives in *)
(* a slot of the private heap or, for an inheritable heap, in a record of  *)
(* the magic page; the caller's handle is the address of that struct.      *)
(* shalloc_space_freeze makes the private heap read-only.                  *)
(*                                                                         *)
(* A failed assert or a write to read-only or unmapped memory ends the     *)
(* process: status then says why.  Of the private heap only the number of  *)
(* structs it can hold is kept; its allocator is module Mplite.  What two  *)
(* processes do to one magic page is not in this module.                   *)
(***************************************************************************)
EXTENDS Integers, FiniteSets

CONSTANTS
    DataPages,       \* pages of shalloc_space->data
    PageSize,        \* SHALLOC_PAGE_SIZE
    BigHeap,         \* pages above which the guard page is taken from the heap
    UseGuardPages,   \* SHALLOC_USE_GUARD_PAGES
    PrivSlots,       \* heap structs that fit in the private heap
    MaxInherit,      \* SHALLOC_MAX_INHERIT_HEAPS
    Sizes,           \* sizes in bytes that callers pass to shalloc_heap_create
    Refused,         \* those that an allocator may refuse to be created with
    InheritLIFO      \* callers destroy inheritable heaps in reverse order

ASSUME SpaceAssumption ==
    /\ DataPages \in Nat /\ PageSize \in Nat \ {0} /\ BigHeap \in Nat \ {0}
    /\ PrivSlots \in Nat /\ MaxInherit \in Nat
    /\ Sizes \subseteq Nat \ {0} /\ Refused \subseteq Sizes
    /\ UseGuardPages \in BOOLEAN /\ InheritLIFO \in BOOLEAN

Pages == 0..(DataPages - 1)

(* Addresses of a shalloc_heap_t.                                          *)
Priv    == {"priv"} \X (0..(PrivSlots - 1))
Magic   == {"magic"} \X (0..(MaxInherit - 1))
Ptrs    == Priv \cup Magic

(* How the data pages of a heap are mapped: left as reserved, mapped again *)
(* with the caller's flags, or attached as a System V segment.             *)
Kinds   == {"default", "remap", "inherit"}

(* inherit_id is not -1, base.start, base.size, data->size, mmap_flags.    *)
Descs   == [attached : BOOLEAN, start : Nat, base : Nat, data : Nat, kind : Kinds]

Stops   == {"records", "slots", "full", "order", "fault"}

VARIABLES
    status,      \* "closed", "open", or why the process ended
    frozen,      \* the private heap is read-only
    space,       \* [unused, has_noninherit_heaps] of shalloc_space
    privUsed,    \* slots of the private heap that are allocated
    magic,       \* num_heaps of the magic page
    desc,        \* the structs: address -> contents
    vm,          \* how each data page is mapped
    handles,     \* history: what shalloc_heap_create returned and described
    left         \* history: guard pages of heaps whose creation was refused

vars == <<status, frozen, space, privUsed, magic, desc, vm, handles, left>>

NoDesc == [attached |-> FALSE, start |-> 0, base |-> 0, data |-> 0, kind |-> "default"]

------------------------------------------------------------------------------
(* shalloc_get_heap: sizes are rounded down to pages, never below one.  A  *)
(* big heap gives up its last page for the guard page, another gets one    *)
(* more.                                                                   *)
Rounded(size) == IF size < PageSize THEN 1 ELSE size \div PageSize

shalloc_get_heap(addr, size, kind) ==
    LET n == Rounded(size)
        data == IF UseGuardPages /\ n > BigHeap THEN n - 1 ELSE n
    IN [attached |-> FALSE, start |-> addr, data |-> data, kind |-> kind,
        base |-> IF UseGuardPages THEN data + 1 ELSE data]

DataOf(d) == d.start..(d.start + d.data - 1)
BaseOf(d) == d.start..(d.start + d.base - 1)

(* Creating or resetting an allocator writes to the first page of the      *)
(* data; which of the others it writes to depends on the allocator.        *)
Writable(pg) == pg \in Pages /\ vm[pg] \in {"reserved", "written", "remapped", "segment"}
MayTouch(d) == Writable(d.start)
MustTouch(d) == \A pg \in DataOf(d) : Writable(pg)

(* "written" is the mapping reserved for the whole space, once a heap used *)
(* the page; "reserved" is the same mapping that no heap ever used.        *)
MappedAs(kind) == CASE kind = "default" -> "written"
                    [] kind = "remap" -> "remapped"
                    [] kind = "inherit" -> "segment"

shalloc_map_heap(d) ==
    [pg \in Pages |->
        IF pg \in DataOf(d)
        THEN IF d.kind # "default" \/ Writable(pg) THEN MappedAs(d.kind) ELSE vm[pg]
        ELSE IF pg \in BaseOf(d) THEN "guard" ELSE vm[pg]]

(* What a refused op->create leaves of a heap.                             *)
Remapped(d) == d.kind # "default" \/ d.base > d.data

MappedBack(d) ==
    [pg \in Pages |-> IF pg \in BaseOf(d) \ DataOf(d) THEN "guard"
                     ELSE IF pg \in DataOf(d) /\ Remapped(d) THEN "reserved"
                     ELSE vm[pg]]

LeftBehind(d) == IF Remapped(d) THEN (left \ DataOf(d)) \cup (BaseOf(d) \ DataOf(d))
                 ELSE left

(* Mutant: munmap takes one page too many.                                 *)
UnmappedOneMore(pgs) ==
    [pg \in Pages |-> IF pg \in pgs \/ (pg - 1) \in pgs THEN "none" ELSE vm[pg]]

Unmapped(pgs) == [pg \in Pages |-> IF pg \in pgs THEN "none" ELSE vm[pg]]

Bump == DataPages - space.unused

------------------------------------------------------------------------------
Init == /\ status = "closed"
        /\ frozen = FALSE
        /\ space = [unused |-> DataPages, has_noninherit_heaps |-> FALSE]
        /\ privUsed = {}
        /\ magic = 0
        /\ desc = [p \in Ptrs |-> NoDesc]
        /\ vm = [pg \in Pages |-> "none"]
        /\ handles = {}
        /\ left = {}

(* No segment id in the environment: the space starts empty.               *)
shalloc_space_init ==
    /\ status = "closed"
    /\ status' = "open"
    /\ frozen' = FALSE
    /\ space' = [unused |-> DataPages, has_noninherit_heaps |-> FALSE]
    /\ privUsed' = {}
    /\ magic' = 0
    /\ desc' = [p \in Ptrs |-> NoDesc]
    /\ vm' = [pg \in Pages |-> "reserved"]
    /\ handles' = {}
    /\ left' = {}

(* Every mapping of the space goes, so every handle is dead.               *)
shalloc_space_close ==
    /\ status = "open"
    /\ status' = "closed"
    /\ vm' = [pg \in Pages |-> "none"]
    /\ handles' = {}
    /\ left' = {}
    /\ UNCHANGED <<frozen, space, privUsed, magic, desc>>

shalloc_space_freeze ==
    /\ status = "open"
    /\ frozen' = TRUE
    /\ UNCHANGED <<status, space, privUsed, magic, desc, vm, handles, left>>

------------------------------------------------------------------------------
(* shalloc_heap_create.                                                    *)

(* Mutant: the last record is taken to be one further.                     *)
ClaimsPastEnd(kind) ==
    IF kind = "inherit"
    THEN IF magic <= MaxInherit THEN {<<"magic", magic>>} ELSE {}
    ELSE {p \in Priv : p \notin privUsed}

(* Mutant: a struct in use is given to a second heap.                      *)
ClaimsAny(kind) ==
    IF kind = "inherit"
    THEN IF magic < MaxInherit THEN {<<"magic", magic>>} ELSE {}
    ELSE Priv

(* Where the struct of a new heap goes.                                    *)
Claims(kind) ==
    IF kind = "inherit"
    THEN IF magic < MaxInherit THEN {<<"magic", magic>>} ELSE {}
    ELSE {p \in Priv : p \notin privUsed}

Fits(d) == d.start + d.base <= DataPages

(* The private heap holds the structs, its own lists and shalloc_space.    *)
PrivWritable == ~ frozen

Create(size, kind, p) ==
    LET d == shalloc_get_heap(Bump, size, kind)
        made == [d EXCEPT !.attached = (kind = "inherit")]
    IN /\ status = "open"
       /\ PrivWritable
       /\ p \in Claims(kind)
       /\ space.unused > 0
       /\ Fits(d)
       /\ kind = "default" => MayTouch(d)
       /\ kind = "inherit" => ~ space.has_noninherit_heaps
       /\ privUsed' = IF kind = "inherit" THEN privUsed ELSE privUsed \cup {p}
       /\ magic' = IF kind = "inherit" THEN magic + 1 ELSE magic
       /\ desc' = [desc EXCEPT ![p] = made]
       /\ vm' = shalloc_map_heap(d)
       /\ space' = [unused |-> space.unused - d.base,
                    has_noninherit_heaps |->
                        space.has_noninherit_heaps \/ kind # "inherit"]
       /\ handles' = handles \cup {[ptr |-> p, d |-> made]}
       /\ UNCHANGED <<status, frozen, left>>

(* Not enough pages left: NULL.  The struct is given back but stays as     *)
(* shalloc_get_heap filled it in.                                          *)
CreateNull(size, kind, p) ==
    LET d == shalloc_get_heap(Bump, size, kind)
    IN /\ status = "open"
       /\ kind = "inherit" \/ PrivWritable
       /\ p \in Claims(kind)
       /\ space.unused > 0
       /\ ~ Fits(d)
       /\ desc' = [desc EXCEPT ![p] = d]
       /\ UNCHANGED <<status, frozen, space, privUsed, magic, vm, handles, left>>

(* Mutant: the count of records is not taken back on this exit.            *)
CreateRefusedKeepsRecord(size, kind, p) ==
    LET d == shalloc_get_heap(Bump, size, kind)
    IN /\ status = "open"
       /\ kind = "inherit" \/ PrivWritable
       /\ p \in Claims(kind)
       /\ space.unused > 0
       /\ Fits(d)
       /\ size \in Refused
       /\ desc' = [desc EXCEPT ![p] = d]
       /\ vm' = MappedBack(d)
       /\ left' = LeftBehind(d)
       /\ magic' = IF kind = "inherit" THEN magic + 1 ELSE magic
       /\ UNCHANGED <<status, frozen, space, privUsed, handles>>

(* op->create refuses the data of a heap that is mapped already            *)
(* (mplite_init takes its size as an int: a heap of 2 GiB is negative, and *)
(* nothing is written): NULL.  The struct and the position are given back, *)
(* the data is mapped afresh if map_heap mapped anything, but the guard    *)
(* page stays, above a position that did not move.                         *)
CreateRefused(size, kind, p) ==
    LET d == shalloc_get_heap(Bump, size, kind)
    IN /\ status = "open"
       /\ kind = "inherit" \/ PrivWritable
       /\ p \in Claims(kind)
       /\ space.unused > 0
       /\ Fits(d)
       /\ size \in Refused
       /\ desc' = [desc EXCEPT ![p] = d]
       /\ vm' = MappedBack(d)
       /\ left' = LeftBehind(d)
       /\ UNCHANGED <<status, frozen, space, privUsed, magic, handles>>

(* Why a call never returns: no record or slot for the struct, the struct  *)
(* cannot be taken from a frozen heap, the data part is used up to its     *)
(* last page, the pages given to the heap are not mapped, an inheritable   *)
(* heap comes late, or the frozen shalloc_space cannot be updated.         *)
CreateStops(size, kind) ==
    LET d == shalloc_get_heap(Bump, size, kind)
        claimed == Claims(kind) # {} /\ (kind = "inherit" \/ PrivWritable)
    IN /\ status = "open"
       /\ \/ /\ Claims(kind) = {}
             /\ status' = IF kind = "inherit" THEN "records" ELSE "slots"
          \/ /\ Claims(kind) # {} /\ kind # "inherit" /\ ~ PrivWritable
             /\ status' = "fault"
          \/ /\ claimed /\ space.unused = 0
             /\ status' = "full"
          \/ /\ claimed /\ space.unused > 0 /\ Fits(d)
             /\ kind = "default" /\ ~ MustTouch(d)
             /\ status' = "fault"
          \/ /\ claimed /\ space.unused > 0 /\ Fits(d)
             /\ kind = "inherit" /\ (space.has_noninherit_heaps \/ ~ PrivWritable)
             /\ status' = IF space.has_noninherit_heaps THEN "order" ELSE "fault"
       /\ UNCHANGED <<frozen, space, privUsed, magic, desc, vm, handles, left>>

------------------------------------------------------------------------------
(* shalloc_region_destroy on the region of a heap: shalloc_buff_reset      *)
(* touches the data, then shalloc_heap_destroy runs.  Both work on what    *)
(* the struct says now.                                                    *)

(* The struct of an inheritable heap goes by shortening the list: it is    *)
(* the last record that goes, whichever heap is destroyed.                 *)
DestroyInherit(h) ==
    LET d == desc[h.ptr]
    IN /\ status = "open"
       /\ h.ptr \in Magic
       /\ InheritLIFO => h.ptr = <<"magic", magic - 1>>
       /\ MayTouch(d)
       /\ magic' = magic - 1
       /\ desc' = [desc EXCEPT ![h.ptr].attached = FALSE]
       /\ vm' = Unmapped(BaseOf(d))
       /\ handles' = handles \ {h}
       /\ UNCHANGED <<status, frozen, space, privUsed, left>>

(* Mutant: the pages go back to the free part of the space.                *)
DestroyPrivReturnsPages(h) ==
    LET d == desc[h.ptr]
    IN /\ status = "open"
       /\ h.ptr \in Priv
       /\ PrivWritable
       /\ MayTouch(d)
       /\ privUsed' = privUsed \ {h.ptr}
       /\ vm' \in {vm, Unmapped(BaseOf(d))}
       /\ handles' = handles \ {h}
       /\ space' = [space EXCEPT !.unused = @ + d.base]
       /\ UNCHANGED <<status, frozen, magic, desc, left>>

(* The struct is freed and then read: mplite_free may have written a link  *)
(* over base.start, and munmap then fails and leaves the pages mapped.     *)
DestroyPriv(h) ==
    LET d == desc[h.ptr]
    IN /\ status = "open"
       /\ h.ptr \in Priv
       /\ PrivWritable
       /\ MayTouch(d)
       /\ privUsed' = privUsed \ {h.ptr}
       /\ vm' \in {vm, Unmapped(BaseOf(d))}
       /\ handles' = handles \ {h}
       /\ UNCHANGED <<status, frozen, space, magic, desc, left>>

DestroyStops(h) ==
    /\ status = "open"
    /\ h.ptr \in Magic /\ InheritLIFO => h.ptr = <<"magic", magic - 1>>
    /\ \/ ~ MustTouch(desc[h.ptr])
       \/ h.ptr \in Priv /\ ~ PrivWritable
    /\ status' = "fault"
    /\ UNCHANGED <<frozen, space, privUsed, magic, desc, vm, handles, left>>

Next == \/ shalloc_space_init
        \/ shalloc_space_close
        \/ shalloc_space_freeze
        \/ \E size \in Sizes, kind \in Kinds : \E p \in Claims(kind) :
              Create(size, kind, p)
        \/ \E size \in Sizes, kind \in Kinds : \E p \in Claims(kind) :
              CreateNull(size, kind, p)
        \/ \E size \in Sizes, kind \in Kinds : \E p \in Claims(kind) :
              CreateRefused(size, kind, p)
        \/ \E size \in Sizes, kind \in Kinds : CreateStops(size, kind)
        \/ \E h \in handles : DestroyInherit(h)
        \/ \E h \in handles : DestroyPriv(h)
        \/ \E h \in handles : DestroyStops(h)

Spec == Init /\ [][Next]_vars

------------------------------------------------------------------------------
TypeOK ==
    /\ status \in {"closed", "open"} \cup Stops
    /\ frozen \in BOOLEAN
    /\ space \in [unused : 0..DataPages, has_noninherit_heaps : BOOLEAN]
    /\ privUsed \subseteq Priv
    /\ magic \in 0..MaxInherit
    /\ desc \in [Ptrs -> Descs]
    /\ vm \in [Pages -> {"none", "reserved", "written", "remapped", "segment", "guard"}]
    /\ handles \subseteq [ptr : Ptrs, d : Descs]
    /\ left \subseteq Pages

(* Heaps in use own disjoint ranges of the data part, all below the        *)
(* pointer new heaps are carved from, so no later heap can meet them.      *)
HeapsDisjoint ==
    /\ \A g, h \in handles : g # h =>
          \/ g.d.start + g.d.base <= h.d.start
          \/ h.d.start + h.d.base <= g.d.start
    /\ \A h \in handles : h.d.start + h.d.base <= Bump

(* The struct behind a handle still describes the heap the handle was      *)
(* returned for: nobody else's create or destroy has rewritten it.         *)
HandlesIntact == \A h \in handles : desc[h.ptr] = h.d

(* A heap in use is mapped the way its creator asked, up to a guard page.  *)
(* Only a heap that takes the mapping of the space as it is can have a     *)
(* page that is not mapped so: the guard page a refused creation left.     *)
HeapsMapped ==
    \A h \in handles :
        /\ \A pg \in DataOf(h.d) :
              \/ vm[pg] = MappedAs(h.d.kind)
              \/ h.d.kind = "default" /\ pg \in left /\ vm[pg] = "guard"
        /\ \A pg \in BaseOf(h.d) \ DataOf(h.d) : vm[pg] = "guard"

(* The records that count are those of the inheritable heaps in use: what  *)
(* an exec'ed program would attach is what this process has.               *)
RecordsExact ==
    status = "open" =>
        {<<"magic", i>> : i \in 0..(magic - 1)} = {h.ptr : h \in handles} \cap Magic

(* A new heap is carved from pages that no heap before it used, those that *)
(* a destroyed heap failed to unmap included; nothing but the guard page   *)
(* of a refused creation has ever been mapped over them.                   *)
FreshPages ==
    [][\A h \in handles' \ handles : \A pg \in BaseOf(h.d) :
          vm[pg] = "reserved" \/ (pg \in left /\ vm[pg] = "guard")]_vars

=============================================================================
