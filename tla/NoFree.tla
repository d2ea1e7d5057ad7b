------------------------------- MODULE NoFree -------------------------------
(***************************************************************************)
(* nofree.c: the allocator that only moves a pointer, the default of       *)
(* regions.  Free does nothing; shalloc_buff_reset starts again.           *)
(*                                                                         *)
(* Addresses and sizes are machine words, so sums wrap at Modulus, and     *)
(* rounding up to a multiple of the alignment wraps to zero.               *)
(***************************************************************************)
EXTENDS Integers

CONSTANTS
    Modulus,      \* 2^64: values of a size_t and of a pointer
    Buff,         \* address of the buffer
    BuffSize,     \* its size
    HeaderSize,   \* sizeof(nofree_header_t) rounded up: 24
    Align,        \* sizeof(long): 8
    Asked         \* sizes that callers pass to malloc

(* Assumed by every module that runs this one: the buffer holds the header *)
(* and something more (nofree_init refuses less), and lies well below the  *)
(* end of the address space.                                               *)
NoFreeConstants ==
    /\ Modulus \in Nat /\ Buff \in Nat \ {0}
    /\ BuffSize \in Nat /\ HeaderSize \in Nat \ {0} /\ Align \in Nat \ {0}
    /\ HeaderSize < BuffSize
    /\ Buff + BuffSize < Modulus
    /\ Asked \subseteq 0..(Modulus - 1)

VARIABLES
    next,      \* header->next
    live       \* history: extents handed out, as offsets in the buffer

vars == <<next, live>>

(* Rounded up to the alignment; past the largest multiple it wraps.        *)
nofree_align_up(size) ==
    LET sum == (size + Align - 1) % Modulus IN sum - (sum % Align)

Init == /\ next = Buff + HeaderSize
        /\ live = {}

(* Mutant: a sum that wrapped to below the buffer is not caught.           *)
FitsToEnd(to) == to <= Buff + BuffSize

(* header->next stays in the buffer after the step.                        *)
FitsIn(to) == Buff <= to /\ to <= Buff + BuffSize

Stepped(size) == (next + nofree_align_up(size)) % Modulus

Alloc(size) ==
    /\ size > 0
    /\ FitsIn(Stepped(size))
    /\ next' = Stepped(size)
    /\ live' = live \cup {[off |-> next - Buff, len |-> nofree_align_up(size)]}

AllocNull(size) ==
    /\ size = 0 \/ ~ FitsIn(Stepped(size))
    /\ UNCHANGED vars

(* _nofree_free is empty: the extent stays unused until a reset.           *)
Free(e) == live' = live \ {e} /\ UNCHANGED next

Reset == next' = Buff + HeaderSize /\ live' = {}

Next == \/ \E size \in Asked : Alloc(size)
        \/ \E size \in Asked : AllocNull(size)
        \/ \E e \in live : Free(e)
        \/ Reset

Spec == Init /\ [][Next]_vars

------------------------------------------------------------------------------
TypeOK == /\ next \in Buff..(Buff + BuffSize)
          /\ live \subseteq [off : 0..BuffSize, len : 0..(Modulus - 1)]

(* Everything handed out lies between the header and header->next: a reset *)
(* or a larger step is all that can make memory be handed out again.       *)
BelowNext == \A e \in live : /\ HeaderSize <= e.off
                             /\ e.off + e.len <= next - Buff

(* The extents are disjoint pieces of the buffer.                          *)
Abs == INSTANCE BufferAllocator WITH
           Size <- BuffSize,
           Lens <- {nofree_align_up(n) : n \in Asked}

Refinement == Abs!Spec
=============================================================================
