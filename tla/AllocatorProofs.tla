--------------------------- MODULE AllocatorProofs ---------------------------
(***************************************************************************)
(* What the allocator interface of shalloc.h promises whoever implements   *)
(* it, for a buffer of any size.  The theorems that an allocator           *)
(* implements it are in BuffersProofs, AllocProofs and MpliteProofs.       *)
(***************************************************************************)
EXTENDS Integers, TLAPS

CONSTANTS
    AnySize,       \* bytes of the buffer
    AnyLens        \* lengths that extents can have
VARIABLE anyLive   \* extents that callers hold

Any == INSTANCE BufferAllocator WITH Size <- AnySize, Lens <- AnyLens, live <- anyLive

LEMMA AllocatorStep == Any!ExtentsDisjoint /\ [Any!Next]_anyLive => Any!ExtentsDisjoint'
  <1>. SUFFICES ASSUME Any!ExtentsDisjoint, [Any!Next]_anyLive
                PROVE  Any!ExtentsDisjoint'
    OBVIOUS
  <1>1. ASSUME NEW e \in Any!Extents, Any!Malloc(e)
        PROVE  Any!ExtentsDisjoint'
    BY <1>1 DEF Any!Malloc, Any!Vacant, Any!Overlap, Any!ExtentsDisjoint
  <1>2. ASSUME NEW e \in anyLive, Any!Free(e)
        PROVE  Any!ExtentsDisjoint'
    BY <1>2 DEF Any!Free, Any!ExtentsDisjoint
  <1>3. ASSUME NEW e \in anyLive, NEW f \in Any!Extents, Any!Move(e, f)
        PROVE  Any!ExtentsDisjoint'
    BY <1>3 DEF Any!Move, Any!Vacant, Any!Overlap, Any!ExtentsDisjoint
  <1>4. CASE Any!Reset
    BY <1>4 DEF Any!Reset, Any!ExtentsDisjoint
  <1>5. CASE UNCHANGED anyLive
    BY <1>5 DEF Any!ExtentsDisjoint
  <1>. QED
    BY <1>1, <1>2, <1>3, <1>4, <1>5 DEF Any!Next

(* Whatever callers of malloc, free, realloc and reset do, the memory they *)
(* hold is never shared between two of them and never outside the buffer.  *)
THEOREM AllocatorIsolates == Any!Spec => []Any!ExtentsDisjoint
  <1>1. Any!Create => Any!ExtentsDisjoint
    BY DEF Any!Create, Any!ExtentsDisjoint
  <1>. QED
    BY <1>1, AllocatorStep, PTL DEF Any!Spec
=============================================================================
