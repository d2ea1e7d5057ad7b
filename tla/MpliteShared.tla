---------------------------- MODULE MpliteShared ----------------------------
(***************************************************************************)
(* One mplite pool used by several processes.                              *)
(*                                                                         *)
(* A heap created with MAP_SHARED, or an inheritable one, has its mplite_t,*)
(* free lists and pool in memory that every attached process calls malloc  *)
(* and free on.  mplite.c guards its unsafe functions with the callbacks   *)
(* of mplite_lock_t, when mplite_init was given any; Locked says whether   *)
(* it was (interface/mplite.c passes NULL).                                *)
(*                                                                         *)
(* The functions are cut where they have read shared state and go on to    *)
(* use it; what lies between two cuts is as in Mplite.  A link that is     *)
(* read after its chunk left the list is Junk.                             *)
(***************************************************************************)
EXTENDS Mplite

CONSTANTS
    Procs,       \* the attached processes
    Nobody,      \* no process holds the lock
    Locked       \* mplite_init was given a lock

ASSUME SharedAssumption == Nobody \notin Procs /\ Locked \in BOOLEAN

VARIABLES
    pc,          \* where each process is in the allocator
    local,       \* its local variables: a request or a chunk
    lock,        \* the process that holds the lock
    owns,        \* history: chunks each process was given
    settled      \* history: pool and stat as the last call to return left them

sharedVars == <<vars, pc, local, lock, owns, settled>>

Chunk(b, size, l) == [b |-> b, size |-> size, log |-> l]
Idle == [n |-> 0, bin |-> 0, i |-> 0]

SharedInit ==
    /\ Init
    /\ pc = [p \in Procs |-> "idle"]
    /\ local = [p \in Procs |-> Idle]
    /\ lock = Nobody
    /\ owns = [p \in Procs |-> {}]
    /\ settled = [pool |-> pool, stat |-> stat]

Goes(p, from, to) == pc[p] = from /\ pc' = [pc EXCEPT ![p] = to]

(* Mutant: the lock is not taken.                                          *)
EnterAnyway(p) == UNCHANGED lock

(* mplite_enter and mplite_leave: nothing at all without callbacks.        *)
mplite_enter(p) == IF Locked THEN lock = Nobody /\ lock' = p ELSE UNCHANGED lock

mplite_leave(p) == lock' = Nobody

Returns(p) ==
    /\ mplite_leave(p)
    /\ local' = [local EXCEPT ![p] = Idle]
    /\ settled' = [pool |-> pool', stat |-> stat']

------------------------------------------------------------------------------
(* mplite_malloc.                                                          *)

CallMalloc(p, n) ==
    /\ Goes(p, "idle", "malloc")
    /\ local' = [local EXCEPT ![p].n = n]
    /\ UNCHANGED <<vars, lock, owns, settled>>

EnterMalloc(p) ==
    /\ Goes(p, "malloc", "search")
    /\ mplite_enter(p)
    /\ UNCHANGED <<vars, local, owns, settled>>

(* A free list with a chunk is found and the least chunk on it.            *)
Search(p) ==
    LET n == local[p].n
        bin == Min(Usable(pool, LogFor(n)))
    IN /\ Goes(p, "search", "found")
       /\ Servable(n)
       /\ stat' = Asked(stat, n)
       /\ local' = [local EXCEPT ![p].bin = bin, ![p].i = FirstFree(pool, bin)]
       /\ UNCHANGED <<pool, held, lock, owns, settled>>

(* Mutant: a call that finds no chunk waits for one, and keeps the lock.   *)
SearchWaits(p) ==
    /\ Goes(p, "search", "search")
    /\ ~ Servable(local[p].n)
    /\ UNCHANGED <<vars, local, lock, owns, settled>>

(* No chunk is large enough: the call returns NULL.                        *)
SearchFails(p) ==
    LET n == local[p].n
    IN /\ Goes(p, "search", "idle")
       /\ ~ Servable(n)
       /\ stat' = Asked(stat, n)
       /\ UNCHANGED <<pool, held, owns>>
       /\ Returns(p)

Unlink(p) ==
    /\ Goes(p, "found", "unlinked")
    /\ pool' = mplite_unlink(pool, local[p].i, local[p].bin)
    /\ UNCHANGED <<stat, held, local, lock, owns, settled>>

Cut(p) ==
    LET l == LogFor(local[p].n)
        b == local[p].i
    IN /\ Goes(p, "unlinked", "idle")
       /\ pool' = Split(pool, b, local[p].bin, l)
       /\ stat' = CountOut(stat, szAtom * 2 ^ l)
       /\ owns' = [owns EXCEPT ![p] = @ \cup {Chunk(b, local[p].n, l)}]
       /\ UNCHANGED held
       /\ Returns(p)

------------------------------------------------------------------------------
(* mplite_free.                                                            *)

CallFree(p, c) ==
    /\ Goes(p, "idle", "free")
    /\ local' = [local EXCEPT ![p] = c]
    /\ owns' = [owns EXCEPT ![p] = @ \ {c}]
    /\ UNCHANGED <<vars, lock, settled>>

EnterFree(p) ==
    /\ Goes(p, "free", "mark")
    /\ mplite_enter(p)
    /\ UNCHANGED <<vars, local, owns, settled>>

(* The chunk's size is read, into iLogsize, and its control bytes are      *)
(* marked free.                                                            *)
Mark(p) ==
    LET b == local[p].b
        l == pool.aCtrl[b].log
    IN /\ Goes(p, "mark", "marked")
       /\ pool' = [pool EXCEPT !.aCtrl[b + 2 ^ l - 1].free = TRUE,
                               !.aCtrl[b] = FreeChunk(l)]
       /\ stat' = CountIn(stat, szAtom * 2 ^ l)
       /\ local' = [local EXCEPT ![p].log = l]
       /\ UNCHANGED <<held, lock, owns, settled>>

Merge(p) ==
    /\ Goes(p, "marked", "idle")
    /\ pool' = Coalesced(pool, local[p].b, local[p].log)
    /\ UNCHANGED <<stat, held, owns>>
    /\ Returns(p)

Enter(p) == EnterMalloc(p) \/ EnterFree(p)

Inside(p) == Search(p) \/ SearchFails(p) \/ Unlink(p) \/ Cut(p) \/ Mark(p) \/ Merge(p)

SharedNext ==
    \E p \in Procs :
        \/ \E n \in Requests : CallMalloc(p, n)
        \/ \E c \in owns[p] : CallFree(p, c)
        \/ Enter(p)
        \/ Inside(p)

(* A process in the allocator keeps running, and the lock it was given     *)
(* makes no process wait for ever while it is released again and again.    *)
SharedSpec ==
    /\ SharedInit /\ [][SharedNext]_sharedVars
    /\ \A p \in Procs : WF_sharedVars(Inside(p)) /\ SF_sharedVars(Enter(p))

------------------------------------------------------------------------------
AtomsOf(c) == ChunkAtoms(c.b, c.log)

(* "There is never any chance that two or more threads can be in this      *)
(* routine at the same time" (mplite.c:335): memory one process was given  *)
(* is given to no other, nor twice to the same.                            *)
HeldApart ==
    /\ \A p \in Procs : \A c, d \in owns[p] : c # d => AtomsOf(c) \cap AtomsOf(d) = {}
    /\ \A p, q \in Procs : p # q =>
          \A c \in owns[p], d \in owns[q] : AtomsOf(c) \cap AtomsOf(d) = {}

(* Each call acts at once, when it returns: it leaves the pool the last    *)
(* call left as the one function of Mplite would, whatever happened since  *)
(* it began.                                                               *)
ActsAtOnce ==
    [][\A p \in Procs : pc[p] # "idle" /\ pc'[p] = "idle" =>
          LET n == local[p].n
              t == TakenFrom(settled.pool, settled.stat, n)
              b == local[p].b
          IN CASE pc[p] = "unlinked" ->
                    /\ settled' = [pool |-> t.pool, stat |-> t.stat]
                    /\ Chunk(t.i, n, t.chunk.log) \in owns'[p]
               [] pc[p] = "search" ->
                    /\ ~ Serves(settled.pool, n)
                    /\ settled' = [settled EXCEPT !.stat = Asked(@, n)]
               [] pc[p] = "marked" ->
                    settled' = [pool |-> Released(settled.pool, b),
                                stat |-> CountIn(settled.stat,
                                                 mplite_size(settled.pool, b))]]_sharedVars

(* Every call returns: a call that is refused, too, leaves the pool to the *)
(* others.                                                                 *)
CallsReturn == \A p \in Procs : pc[p] # "idle" ~> pc[p] = "idle"
==============================================================================
