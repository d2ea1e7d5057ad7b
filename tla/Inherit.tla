------------------------------- MODULE Inherit -------------------------------
(***************************************************************************)
(* Programs that share inheritable heaps: a process runs another one with  *)
(* SHALLOC_GET_EXEC_ENVP() and the new program's shalloc_space_init        *)
(* attaches the magic page and the heaps that its records list.            *)
(*                                                                         *)
(* The magic page and every inheritable heap are System V segments.  Each  *)
(* is marked for removal as soon as it is created, so it lives only while  *)
(* somebody has it attached, and nothing stops one process from creating   *)
(* or destroying a heap while another one reads the records.  Init reads   *)
(* the number of records in every round of two loops: one attaches the     *)
(* heaps, the other adds up their sizes, and the position of the process's *)
(* next heap is that sum.                                                  *)
(*                                                                         *)
(* Addresses are pages of the data part of the space, which starts at the  *)
(* same address in every process.  Creating a heap is cut where its record *)
(* is counted but not filled in, destroying one where its segment is gone  *)
(* but still listed.  What one process alone can get wrong, asserts and    *)
(* private structs included, is in module Space.                           *)
(***************************************************************************)
EXTENDS Integers, FiniteSetsExt

CONSTANTS
    Procs,         \* processes
    Creators,      \* those that create and destroy inheritable heaps
    DataPages,     \* pages of shalloc_space->data
    GuardPages,    \* pages that a heap takes beyond its data: 0 or 1
    MaxInherit,    \* SHALLOC_MAX_INHERIT_HEAPS
    MaxSegs,       \* bound on the inheritable heaps created before all end
    Sizes,         \* data sizes, in pages
    QuietStart,    \* nobody touches the records while another one starts, or
                   \* ends while it reads them
    NoOrphans,     \* who alone has a heap that is listed ends after the others
    InStep         \* inheritable heaps are created in turns, and only where
                   \* those that are listed end

ASSUME InheritAssumption ==
    /\ IsFiniteSet(Procs) /\ Creators \subseteq Procs
    /\ {DataPages, GuardPages, MaxInherit, MaxSegs} \subseteq Nat
    /\ Sizes \subseteq Nat \ {0}
    /\ {QuietStart, NoOrphans, InStep} \subseteq BOOLEAN

Pages == 0..(DataPages - 1)
Segs == 1..MaxSegs
NoSeg == -1                \* inherit_id while a record is not filled in

(* What a page is mapped to when it is no segment.                         *)
Unmapped == 0
Reserved == -2
Guard == -3
Private == -4

(* inherit_id, data.start, data.size and base.size of a heap.              *)
Recs == [seg : Segs \cup {NoSeg}, start : Nat, data : Nat, base : Nat]
Kinds == {"inherit", "private"}

VARIABLES
    magic,     \* the magic page: number of records, records
    made,      \* segments created so far
    pc,        \* where each process is: see Stages
    i,         \* its local i, or the record it works on
    unused,    \* its shalloc_space->data.unused_size
    mixed,     \* its shalloc_space->has_noninherit_heaps
    vm,        \* what its pages are: a segment, or how they are mapped
    heaps      \* history: heaps it created or attached

vars == <<magic, made, pc, i, unused, mixed, vm, heaps>>

Starting == {"exec", "attach", "count"}
Stages == Starting \cup {"off", "open", "filling", "dropping", "failed"}

NoRec == [seg |-> NoSeg, start |-> 0, data |-> 0, base |-> 0]
Fresh == [pg \in Pages |-> Reserved]
Gone == [pg \in Pages |-> Unmapped]

DataOf(d) == d.start..(d.start + d.data - 1)
BaseOf(d) == d.start..(d.start + d.base - 1)

Listed == 0..(magic.num - 1)

(* A segment lives while a process has it attached.                        *)
Has(p, seg) == \E pg \in Pages : vm[p][pg] = seg
Alive(seg) == \E p \in Procs : Has(p, seg)
MagicAlive == \E p \in Procs : pc[p] \in {"attach", "count", "open", "filling", "dropping"}

Position(p) == DataPages - unused[p]

(* Where the heap before record k ends.                                    *)
EndBefore(k) == IF k = 0 THEN 0 ELSE magic.recs[k - 1].start + magic.recs[k - 1].base

(* shmat or mmap over pages takes the place of what was mapped there.      *)
MapOver(m, pgs, what) == [pg \in Pages |-> IF pg \in pgs THEN what ELSE m[pg]]

(* shmdt takes the segment off wherever it still is.                       *)
Detach(m, seg) == [pg \in Pages |-> IF m[pg] = seg THEN Unmapped ELSE m[pg]]

Quiet == QuietStart => \A p \in Procs : pc[p] \notin Starting

------------------------------------------------------------------------------
Init == /\ magic = [num |-> 0, recs |-> [k \in 0..(MaxInherit - 1) |-> NoRec]]
        /\ made = {}
        /\ pc = [p \in Procs |-> "off"]
        /\ i = [p \in Procs |-> 0]
        /\ unused = [p \in Procs |-> DataPages]
        /\ mixed = [p \in Procs |-> FALSE]
        /\ vm = [p \in Procs |-> Gone]
        /\ heaps = [p \in Procs |-> {}]

(* shalloc_space_init without a segment id in the environment: a magic     *)
(* page of its own.  A second such family would share nothing with this.   *)
Begin(p) ==
    /\ \A q \in Procs : pc[q] \in {"off", "failed"}
    /\ pc[p] = "off"
    /\ pc' = [pc EXCEPT ![p] = "open"]
    /\ vm' = [vm EXCEPT ![p] = Fresh]
    /\ unused' = [unused EXCEPT ![p] = DataPages]
    /\ mixed' = [mixed EXCEPT ![p] = FALSE]
    /\ magic' = [num |-> 0, recs |-> [k \in 0..(MaxInherit - 1) |-> NoRec]]
    /\ made' = {}
    /\ UNCHANGED <<i, heaps>>

(* p forks and executes a program with the id of its magic page.           *)
Exec(p, q) ==
    /\ pc[p] = "open"
    /\ pc[q] = "off"
    /\ QuietStart => \A r \in Procs : pc[r] \notin {"filling", "dropping"}
    /\ pc' = [pc EXCEPT ![q] = "exec"]
    /\ vm' = [vm EXCEPT ![q] = Fresh]
    /\ UNCHANGED <<magic, made, i, unused, mixed, heaps>>

(* A failed assert ends the process.                                       *)
Fails(p) ==
    /\ pc' = [pc EXCEPT ![p] = "failed"]
    /\ vm' = [vm EXCEPT ![p] = Gone]
    /\ heaps' = [heaps EXCEPT ![p] = {}]
    /\ UNCHANGED <<magic, made, i, unused, mixed>>

AttachMagic(p) ==
    /\ pc[p] = "exec"
    /\ MagicAlive
    /\ pc' = [pc EXCEPT ![p] = "attach"]
    /\ i' = [i EXCEPT ![p] = 0]
    /\ UNCHANGED <<magic, made, unused, mixed, vm, heaps>>

(* Mutant: no address is given to shmat, and the kernel takes one high up. *)
PlaceByKernel(p, d) == DataPages - d.data

(* Heaps hold pointers, so each goes where it was created.                 *)
Place(p, d) == d.start

(* One round of the first loop: the record is copied and its segment       *)
(* attached.  The guard page behind it is not mapped again.                *)
AttachHeap(p) ==
    LET d == magic.recs[i[p]]
        h == [d EXCEPT !.start = Place(p, d)]
    IN /\ pc[p] = "attach"
       /\ i[p] \in Listed
       /\ d.seg # NoSeg /\ Alive(d.seg)
       /\ vm' = [vm EXCEPT ![p] = MapOver(@, DataOf(h), d.seg)]
       /\ heaps' = [heaps EXCEPT ![p] = @ \cup {[kind |-> "inherit", d |-> h]}]
       /\ i' = [i EXCEPT ![p] = @ + 1]
       /\ UNCHANGED <<magic, made, pc, unused, mixed>>

EndAttach(p) ==
    /\ pc[p] = "attach"
    /\ i[p] \notin Listed
    /\ pc' = [pc EXCEPT ![p] = "count"]
    /\ i' = [i EXCEPT ![p] = 0]
    /\ unused' = [unused EXCEPT ![p] = DataPages]
    /\ mixed' = [mixed EXCEPT ![p] = FALSE]
    /\ UNCHANGED <<magic, made, vm, heaps>>

(* Mutant: the guard page is not counted.                                  *)
CountedData(d) == d.data

Counted(d) == d.base

(* One round of the second loop: shalloc_space_new_heap.                   *)
CountHeap(p) ==
    LET d == magic.recs[i[p]]
    IN /\ pc[p] = "count"
       /\ i[p] \in Listed
       /\ Counted(d) <= unused[p]
       /\ unused' = [unused EXCEPT ![p] = @ - Counted(d)]
       /\ i' = [i EXCEPT ![p] = @ + 1]
       /\ UNCHANGED <<magic, made, pc, mixed, vm, heaps>>

EndCount(p) ==
    /\ pc[p] = "count"
    /\ i[p] \notin Listed
    /\ pc' = [pc EXCEPT ![p] = "open"]
    /\ i' = [i EXCEPT ![p] = 0]
    /\ UNCHANGED <<magic, made, unused, mixed, vm, heaps>>

(* The asserts on shmat and on the size left: no magic page, no segment,   *)
(* no room.                                                                *)
Asserts(p) ==
    CASE pc[p] = "exec" -> ~ MagicAlive
      [] pc[p] = "attach" -> i[p] \in Listed /\ ~ Alive(magic.recs[i[p]].seg)
      [] pc[p] = "count" -> i[p] \in Listed /\ Counted(magic.recs[i[p]]) > unused[p]
      [] OTHER -> FALSE

StartFails(p) == Asserts(p) /\ Fails(p)

Start(p) == \/ AttachMagic(p)
            \/ AttachHeap(p)
            \/ EndAttach(p)
            \/ CountHeap(p)
            \/ EndCount(p)
            \/ StartFails(p)

------------------------------------------------------------------------------
(* shalloc_heap_create of an inheritable heap.                             *)

(* The assert on num_heaps.                                                *)
RecordLeft == magic.num \in 0..(MaxInherit - 1)

(* The next record is counted; callers create inheritable heaps before any *)
(* other, as the assert in shalloc_space_new_heap demands.                 *)
Claim(p) ==
    /\ pc[p] = "open" /\ p \in Creators
    /\ Quiet
    /\ ~ mixed[p]
    /\ RecordLeft
    /\ made # Segs
    /\ InStep => /\ \A q \in Procs : pc[q] \notin {"filling", "dropping"}
                 /\ Position(p) = EndBefore(magic.num)
    /\ pc' = [pc EXCEPT ![p] = "filling"]
    /\ i' = [i EXCEPT ![p] = magic.num]
    /\ magic' = [num |-> magic.num + 1,
                 recs |-> [magic.recs EXCEPT ![magic.num].seg = NoSeg]]
    /\ UNCHANGED <<made, unused, mixed, vm, heaps>>

(* Mutant: room for the data is enough.                                    *)
DataFits(p, d) == d.data <= unused[p]

(* Data and guard page end within the space.                               *)
Fits(p, d) == d.base <= unused[p]

NewRec(p, n) == [seg |-> NoSeg, start |-> Position(p), data |-> n, base |-> n + GuardPages]

(* Mutant: the record says nothing of the segment.                         *)
IdUnset(seg) == NoSeg

(* What shalloc_map_heap leaves in the record as inherit_id.               *)
InheritId(seg) == seg

Fill(p, n) ==
    LET seg == Min(Segs \ made)
        d == [NewRec(p, n) EXCEPT !.seg = InheritId(seg)]
    IN /\ pc[p] = "filling"
       /\ made # Segs
       /\ Fits(p, d)
       /\ magic' = [magic EXCEPT !.recs[i[p]] = d]
       /\ made' = made \cup {seg}
       /\ vm' = [vm EXCEPT ![p] = MapOver(MapOver(@, BaseOf(d), Guard), DataOf(d), seg)]
       /\ unused' = [unused EXCEPT ![p] = @ - d.base]
       /\ heaps' = [heaps EXCEPT ![p] = @ \cup {[kind |-> "inherit", d |-> [d EXCEPT !.seg = seg]]}]
       /\ pc' = [pc EXCEPT ![p] = "open"]
       /\ i' = [i EXCEPT ![p] = 0]
       /\ UNCHANGED mixed

(* Not enough pages left: NULL, and the record is no longer counted.       *)
FillNull(p, n) ==
    LET d == NewRec(p, n)
    IN /\ pc[p] = "filling"
       /\ ~ Fits(p, d)
       /\ magic' = [num |-> magic.num - 1, recs |-> [magic.recs EXCEPT ![i[p]] = d]]
       /\ pc' = [pc EXCEPT ![p] = "open"]
       /\ i' = [i EXCEPT ![p] = 0]
       /\ UNCHANGED <<made, unused, mixed, vm, heaps>>

(* shalloc_heap_destroy of the last inheritable heap listed: the segment   *)
(* goes first, its record is uncounted after that.                         *)
DestroyInherit(p, h) ==
    LET k == magic.num - 1
    IN /\ pc[p] = "open" /\ p \in Creators
       /\ Quiet
       /\ h \in heaps[p] /\ h.kind = "inherit"
       /\ k >= 0 /\ magic.recs[k] = h.d
       /\ vm' = [vm EXCEPT ![p] = Detach(@, h.d.seg)]
       /\ magic' = [magic EXCEPT !.recs[k].seg = NoSeg]
       /\ heaps' = [heaps EXCEPT ![p] = @ \ {h}]
       /\ pc' = [pc EXCEPT ![p] = "dropping"]
       /\ i' = [i EXCEPT ![p] = k]
       /\ UNCHANGED <<made, unused, mixed>>

Drop(p) ==
    /\ pc[p] = "dropping"
    /\ magic' = [magic EXCEPT !.num = @ - 1]
    /\ vm' = [vm EXCEPT ![p] = MapOver(@, BaseOf(magic.recs[i[p]]), Unmapped)]
    /\ pc' = [pc EXCEPT ![p] = "open"]
    /\ i' = [i EXCEPT ![p] = 0]
    /\ UNCHANGED <<made, unused, mixed, heaps>>

(* A heap of the process's own, mapped again; one that is not differs from *)
(* it in nothing that matters here.                                        *)
CreatePrivate(p, n) ==
    LET d == NewRec(p, n)
    IN /\ pc[p] = "open"
       /\ Fits(p, d)
       /\ vm' = [vm EXCEPT ![p] = MapOver(MapOver(@, BaseOf(d), Guard), DataOf(d), Private)]
       /\ unused' = [unused EXCEPT ![p] = @ - d.base]
       /\ mixed' = [mixed EXCEPT ![p] = TRUE]
       /\ heaps' = [heaps EXCEPT ![p] = @ \cup {[kind |-> "private", d |-> d]}]
       /\ UNCHANGED <<magic, made, pc, i>>

DestroyPrivate(p, h) ==
    /\ pc[p] = "open"
    /\ h \in heaps[p] /\ h.kind = "private"
    /\ vm' = [vm EXCEPT ![p] = MapOver(@, BaseOf(h.d), Unmapped)]
    /\ heaps' = [heaps EXCEPT ![p] = @ \ {h}]
    /\ UNCHANGED <<magic, made, pc, i, unused, mixed>>

(* shalloc_space_close, or the process's end: every segment is detached.   *)
Close(p) ==
    /\ pc[p] = "open"
    /\ QuietStart => \A q \in Procs : pc[q] \notin {"attach", "count"}
    /\ NoOrphans => \/ \A q \in Procs \ {p} : pc[q] \in {"off", "failed", "exec"}
                    \/ \A k \in Listed : \E q \in Procs \ {p} : Has(q, magic.recs[k].seg)
    /\ pc' = [pc EXCEPT ![p] = "off"]
    /\ vm' = [vm EXCEPT ![p] = Gone]
    /\ heaps' = [heaps EXCEPT ![p] = {}]
    /\ unused' = [unused EXCEPT ![p] = DataPages]
    /\ mixed' = [mixed EXCEPT ![p] = FALSE]
    /\ UNCHANGED <<magic, made, i>>

Next == \E p \in Procs :
            \/ Begin(p)
            \/ \E q \in Procs : Exec(p, q)
            \/ Start(p)
            \/ Claim(p)
            \/ \E n \in Sizes : Fill(p, n)
            \/ \E n \in Sizes : FillNull(p, n)
            \/ \E h \in heaps[p] : DestroyInherit(p, h)
            \/ Drop(p)
            \/ \E n \in Sizes : CreatePrivate(p, n)
            \/ \E h \in heaps[p] : DestroyPrivate(p, h)
            \/ Close(p)

(* A program that was executed runs on through its shalloc_space_init.     *)
Fairness == \A p \in Procs : WF_vars(Start(p))

Spec == Init /\ [][Next]_vars /\ Fairness

------------------------------------------------------------------------------
TypeOK ==
    /\ magic \in [num : 0..MaxInherit, recs : [0..(MaxInherit - 1) -> Recs]]
    /\ made \subseteq Segs
    /\ pc \in [Procs -> Stages]
    /\ i \in [Procs -> 0..MaxInherit]
    /\ unused \in [Procs -> 0..DataPages]
    /\ mixed \in [Procs -> BOOLEAN]
    /\ \A p \in Procs : \A pg \in Pages :
          vm[p][pg] \in Segs \cup {Unmapped, Reserved, Guard, Private}
    /\ \A p \in Procs : heaps[p] \subseteq [kind : Kinds, d : Recs]

(* In every process, the heaps it inherited and those it created since     *)
(* share no page, guard pages included.                                    *)
HeapsApart ==
    \A p \in Procs : \A g, h \in heaps[p] :
        g # h => BaseOf(g.d) \cap BaseOf(h.d) = {}

(* An inheritable heap is one memory: every process that has it finds it   *)
(* at the same address, and there it is the heap's segment.                *)
SameMemory ==
    \A p, q \in Procs : \A g \in heaps[p], h \in heaps[q] :
        g.kind = "inherit" =>
            /\ \A pg \in DataOf(g.d) : vm[p][pg] = g.d.seg
            /\ h.kind = "inherit" /\ g.d.seg = h.d.seg => g.d.start = h.d.start

(* A program executed with the id of a magic page gets through its init,   *)
(* and does not fail, unless all who had the magic page ended before.      *)
StartsUp ==
    \A p \in Procs : pc[p] = "exec" ~> (pc[p] = "open" \/ ~ MagicAlive)

==============================================================================
