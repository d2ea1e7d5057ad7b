---------------------------- MODULE SpaceProofs ----------------------------
(***************************************************************************)
(* Theorems about module Space, for every size of the space and any number *)
(* of heaps.                                                               *)
(*                                                                         *)
(* Disjointness needs only that the handles returned lie below the pointer *)
(* that new heaps are carved from.  That a handle keeps describing its     *)
(* heap needs the callers' discipline InheritLIFO, and that no two handles *)
(* share a struct.                                                         *)
(***************************************************************************)
EXTENDS Space, FiniteSetTheorems, TLAPS

------------------------------------------------------------------------------
(* What the description of a new heap looks like.                          *)
LEMMA NewDesc ==
    ASSUME NEW addr \in Nat, NEW size \in Sizes, NEW kind \in Kinds
    PROVE  /\ shalloc_get_heap(addr, size, kind) \in Descs
           /\ shalloc_get_heap(addr, size, kind).start = addr
           /\ shalloc_get_heap(addr, size, kind).kind = kind
           /\ shalloc_get_heap(addr, size, kind).data
                 <= shalloc_get_heap(addr, size, kind).base
           /\ shalloc_get_heap(addr, size, kind).base > 0
  <1>1. size \in Nat \ {0} /\ PageSize \in Nat \ {0}
    BY SpaceAssumption
  <1>2. Rounded(size) \in Nat /\ Rounded(size) > 0
    <2>1. CASE size < PageSize
      BY <2>1 DEF Rounded
    <2>2. CASE ~ (size < PageSize)
      <3>1. size \div PageSize \in Int /\ size \div PageSize >= 1
        BY <1>1, <2>2, Z3
      <3>. QED
        BY <2>2, <3>1 DEF Rounded
    <2>. QED
      BY <2>1, <2>2
  <1>3. BigHeap \in Nat \ {0} /\ UseGuardPages \in BOOLEAN
    BY SpaceAssumption
  <1>. QED
    BY <1>2, <1>3 DEF shalloc_get_heap, Descs

------------------------------------------------------------------------------
(* The part of the invariant that holds whatever order heaps go in.  The   *)
(* number of records is that of the inheritable heaps in use even when the *)
(* records are not theirs.                                                 *)
HasPages == \A h \in handles : h.d.base > 0

Inherited(hs) == {h \in hs : h.ptr \in Magic}

Counted == /\ IsFiniteSet(handles)
           /\ status = "open" => magic = Cardinality(Inherited(handles))

SafeInv == TypeOK /\ HasPages /\ HeapsDisjoint /\ Counted

LEMMA SafeInit == Init => SafeInv
  <1>. SUFFICES ASSUME Init PROVE SafeInv
    OBVIOUS
  <1>1. NoDesc \in Descs
    BY DEF NoDesc, Descs, Kinds
  <1>2. DataPages \in 0..DataPages /\ 0 \in 0..MaxInherit
    BY SpaceAssumption
  <1>3. desc \in [Ptrs -> Descs]
    BY <1>1 DEF Init
  <1>4. space \in [unused : 0..DataPages, has_noninherit_heaps : BOOLEAN]
    BY <1>2 DEF Init
  <1>5. TypeOK
    BY <1>2, <1>3, <1>4 DEF Init, TypeOK
  <1>. QED
    BY <1>5, FS_EmptySet DEF Init, SafeInv, HasPages, HeapsDisjoint, Counted

(* A step that gives the callers no new heap and does not move the pointer *)
(* keeps the heaps disjoint.                                               *)
LEMMA FewerHandles ==
    ASSUME HasPages, HeapsDisjoint, handles' \subseteq handles, Bump' = Bump
    PROVE  HasPages' /\ HeapsDisjoint'
  BY DEF HasPages, HeapsDisjoint

(* So does a step that only stops the process or changes nothing of this.  *)
LEMMA SameHandles ==
    ASSUME Counted, handles' = handles, magic' = magic,
           status' = "open" => status = "open"
    PROVE  Counted'
  BY DEF Counted, Inherited

LEMMA SafeCreate ==
    ASSUME SafeInv, NEW size \in Sizes, NEW kind \in Kinds, NEW p \in Claims(kind),
           Create(size, kind, p)
    PROVE  SafeInv'
  <1>. DEFINE d == shalloc_get_heap(Bump, size, kind)
              made == [d EXCEPT !.attached = (kind = "inherit")]
              new == [ptr |-> p, d |-> made]
  <1>1. /\ DataPages \in Nat /\ space.unused \in 0..DataPages
        /\ Bump \in Nat /\ Bump = DataPages - space.unused
    BY SpaceAssumption DEF SafeInv, TypeOK, Bump
  <1>2. /\ d \in Descs /\ d.start = Bump /\ d.data <= d.base /\ d.base > 0
        /\ d.kind = kind
    BY <1>1, NewDesc
  <1>3. /\ made \in Descs /\ made.start = Bump /\ made.base = d.base
    BY <1>2 DEF Descs
  <1>4. d.base \in Nat /\ Bump + d.base <= DataPages
    BY <1>2 DEF Create, Fits, Descs
  <1>5. /\ kind = "inherit" => magic < MaxInherit /\ p = <<"magic", magic>>
        /\ kind # "inherit" => p \in Priv
    BY DEF Claims
  <1>6. magic \in 0..MaxInherit /\ MaxInherit \in Nat
    BY SpaceAssumption DEF SafeInv, TypeOK
  <1>7. kind = "inherit" => p \in Magic
    BY <1>5, <1>6 DEF Magic
  <1>8. p \in Ptrs
    BY <1>5, <1>7 DEF Ptrs
  <1>9. handles' = handles \cup {new} /\ new \in [ptr : Ptrs, d : Descs]
    BY <1>3, <1>8 DEF Create
  <1>10. Bump' = Bump + d.base /\ space'.unused = space.unused - d.base
    BY <1>1, <1>4 DEF Create, Bump
  <1>11. TypeOK'
    <2>1. space' \in [unused : 0..DataPages, has_noninherit_heaps : BOOLEAN]
      BY <1>1, <1>4 DEF Create, SafeInv, TypeOK
    <2>2. desc' \in [Ptrs -> Descs]
      BY <1>3 DEF Create, SafeInv, TypeOK
    <2>3. vm' \in [Pages -> {"none", "reserved", "written", "remapped", "segment", "guard"}]
      <3>1. vm' = shalloc_map_heap(d)
        BY DEF Create
      <3>2. MappedAs(d.kind) \in {"written", "remapped", "segment"}
        BY <1>2 DEF MappedAs, Kinds
      <3>. QED
        BY <3>1, <3>2 DEF SafeInv, TypeOK, shalloc_map_heap
    <2>4. privUsed' \subseteq Priv /\ magic' \in 0..MaxInherit
      BY <1>5, <1>6 DEF Create, SafeInv, TypeOK
    <2>. QED
      BY <1>9, <2>1, <2>2, <2>3, <2>4 DEF Create, SafeInv, TypeOK
  <1>12. \A h \in handles : h.d \in Descs /\ h.d.start + h.d.base <= Bump
    BY DEF SafeInv, TypeOK, HeapsDisjoint
  <1>13. HasPages' /\ HeapsDisjoint'
    <2>1. \A h \in handles : h.d.start + h.d.base <= Bump' /\ h.d.base > 0
      BY <1>1, <1>4, <1>10, <1>12 DEF SafeInv, HasPages, Descs
    <2>2. new.d.start + new.d.base <= Bump' /\ new.d.base > 0 /\ new.d.start = Bump
      <3>1. new.d = made
        OBVIOUS
      <3>. QED
        <4>. HIDE DEF made, d
        <4>. QED
          BY <1>1, <1>2, <1>3, <1>4, <1>10, <3>1
    <2>. QED
      BY <1>9, <1>12, <2>1, <2>2 DEF SafeInv, HasPages, HeapsDisjoint
  <1>14. new \notin handles
    <2>1. new.d.start = Bump /\ new.d.base > 0 /\ new.d.base \in Nat
      BY <1>2, <1>3, <1>4
    <2>. QED
      BY <1>1, <1>12, <2>1
  <1>15. Counted'
    <2>1. IsFiniteSet(handles)
      BY DEF SafeInv, Counted
    <2>2. IsFiniteSet(handles')
      BY <1>9, <2>1, FS_AddElement
    <2>3. CASE kind = "inherit"
      <3>1. Inherited(handles') = Inherited(handles) \cup {new}
        BY <1>7, <1>9, <2>3 DEF Inherited
      <3>2. IsFiniteSet(Inherited(handles)) /\ new \notin Inherited(handles)
        BY <1>14, <2>1, FS_Subset DEF Inherited
      <3>3. Cardinality(Inherited(handles')) = Cardinality(Inherited(handles)) + 1
        <4>. HIDE DEF new
        <4>. QED
          BY <3>1, <3>2, FS_AddElement
      <3>. QED
        BY <2>2, <2>3, <3>3 DEF Create, SafeInv, Counted
    <2>4. CASE kind # "inherit"
      <3>1. p \notin Magic
        BY <1>5, <2>4 DEF Priv, Magic
      <3>2. Inherited(handles') = Inherited(handles)
        BY <1>9, <3>1 DEF Inherited
      <3>. QED
        BY <2>2, <2>4, <3>2 DEF Create, SafeInv, Counted
    <2>. QED
      BY <2>3, <2>4
  <1>. QED
    BY <1>11, <1>13, <1>15 DEF SafeInv

LEMMA SafeDestroyInherit ==
    ASSUME SafeInv, NEW h \in handles, DestroyInherit(h)
    PROVE  SafeInv'
  <1>1. handles' = handles \ {h} /\ handles' \subseteq handles /\ Bump' = Bump
    BY DEF DestroyInherit, Bump
  <1>2. HasPages' /\ HeapsDisjoint'
    BY <1>1, FewerHandles DEF SafeInv
  <1>3. IsFiniteSet(handles) /\ IsFiniteSet(handles') /\ IsFiniteSet(Inherited(handles))
    BY <1>1, FS_Subset DEF SafeInv, Counted, Inherited
  <1>4. h \in Inherited(handles) /\ Inherited(handles') = Inherited(handles) \ {h}
    BY <1>1 DEF DestroyInherit, Inherited
  <1>5. /\ Cardinality(Inherited(handles')) = Cardinality(Inherited(handles)) - 1
        /\ Cardinality(Inherited(handles')) \in Nat
        /\ Cardinality(Inherited(handles)) \in Nat
    <2>1. IsFiniteSet(Inherited(handles'))
      BY <1>3, <1>4, FS_Subset
    <2>2. /\ Cardinality(Inherited(handles)) \in Nat
          /\ Cardinality(Inherited(handles')) \in Nat
      BY <1>3, <2>1, FS_CardinalityType
    <2>3. Cardinality(Inherited(handles) \ {h}) = Cardinality(Inherited(handles)) - 1
      BY <1>3, <1>4, FS_RemoveElement
    <2>. QED
      BY <1>4, <2>2, <2>3
  <1>6. magic' = magic - 1 /\ magic = Cardinality(Inherited(handles))
    BY DEF DestroyInherit, SafeInv, Counted
  <1>7. magic' \in 0..MaxInherit
    BY <1>5, <1>6, SpaceAssumption DEF SafeInv, TypeOK
  <1>8. desc' \in [Ptrs -> Descs]
    BY ZenonT(30) DEF DestroyInherit, SafeInv, TypeOK, Descs
  <1>9. vm' \in [Pages -> {"none", "reserved", "written", "remapped", "segment", "guard"}]
    BY DEF DestroyInherit, SafeInv, TypeOK, Unmapped
  <1>. QED
    BY <1>1, <1>2, <1>3, <1>5, <1>6, <1>7, <1>8, <1>9
       DEF DestroyInherit, SafeInv, TypeOK, Counted

LEMMA SafeDestroyPriv ==
    ASSUME SafeInv, NEW h \in handles, DestroyPriv(h)
    PROVE  SafeInv'
  <1>1. handles' = handles \ {h} /\ handles' \subseteq handles /\ Bump' = Bump
    BY DEF DestroyPriv, Bump
  <1>2. HasPages' /\ HeapsDisjoint'
    BY <1>1, FewerHandles DEF SafeInv
  <1>3. vm' \in [Pages -> {"none", "reserved", "written", "remapped", "segment", "guard"}]
    BY DEF DestroyPriv, SafeInv, TypeOK, Unmapped
  <1>4. TypeOK'
    BY <1>1, <1>3 DEF DestroyPriv, SafeInv, TypeOK
  <1>5. IsFiniteSet(handles')
    BY <1>1, FS_Subset DEF SafeInv, Counted
  <1>6. h.ptr \notin Magic
    BY DEF DestroyPriv, Priv, Magic
  <1>7. Inherited(handles') = Inherited(handles)
    BY <1>1, <1>6 DEF Inherited
  <1>8. Counted'
    BY <1>5, <1>7 DEF DestroyPriv, SafeInv, Counted
  <1>. QED
    BY <1>2, <1>4, <1>8 DEF SafeInv

LEMMA SafeCreateNull ==
    ASSUME SafeInv, NEW size \in Sizes, NEW kind \in Kinds, NEW p \in Claims(kind),
           CreateNull(size, kind, p)
    PROVE  SafeInv'
  <1>1. Bump \in Nat
    BY SpaceAssumption DEF SafeInv, TypeOK, Bump
  <1>2. shalloc_get_heap(Bump, size, kind) \in Descs
    BY <1>1, NewDesc
  <1>3. desc' \in [Ptrs -> Descs]
    BY <1>2 DEF CreateNull, SafeInv, TypeOK
  <1>4. HasPages' /\ HeapsDisjoint'
    BY FewerHandles DEF CreateNull, SafeInv, Bump
  <1>5. Counted'
    BY SameHandles DEF CreateNull, SafeInv
  <1>. QED
    BY <1>3, <1>4, <1>5 DEF CreateNull, SafeInv, TypeOK

LEMMA SafeCreateRefused ==
    ASSUME SafeInv, NEW size \in Sizes, NEW kind \in Kinds, NEW p \in Claims(kind),
           CreateRefused(size, kind, p)
    PROVE  SafeInv'
  <1>. DEFINE d == shalloc_get_heap(Bump, size, kind)
  <1>1. DataPages \in Nat /\ Bump \in Nat
    BY SpaceAssumption DEF SafeInv, TypeOK, Bump
  <1>2. d \in Descs /\ d.start = Bump /\ d.base \in Nat
    BY <1>1, NewDesc DEF Descs
  <1>3. Bump + d.base <= DataPages
    BY <1>2 DEF CreateRefused, Fits
  <1>. HIDE DEF d
  <1>4. desc' \in [Ptrs -> Descs]
    BY <1>2 DEF CreateRefused, SafeInv, TypeOK, d
  <1>5. vm' \in [Pages -> {"none", "reserved", "written", "remapped", "segment", "guard"}]
    BY DEF CreateRefused, SafeInv, TypeOK, MappedBack
  <1>6. left' \subseteq Pages
    <2>1. BaseOf(d) \subseteq Pages
      BY <1>1, <1>2, <1>3 DEF BaseOf, Pages
    <2>2. left' = LeftBehind(d) /\ left \subseteq Pages
      BY DEF CreateRefused, SafeInv, TypeOK, d
    <2>. QED
      BY <2>1, <2>2 DEF LeftBehind
  <1>7. HasPages' /\ HeapsDisjoint'
    BY FewerHandles DEF CreateRefused, SafeInv, Bump
  <1>8. Counted'
    BY SameHandles DEF CreateRefused, SafeInv
  <1>. QED
    BY <1>4, <1>5, <1>6, <1>7, <1>8 DEF CreateRefused, SafeInv, TypeOK

(* Starting or closing the space leaves the callers no handle.             *)
LEMMA SafeEmptied ==
    ASSUME SafeInv, shalloc_space_init \/ shalloc_space_close
    PROVE  SafeInv'
  <1>1. handles' = {} /\ IsFiniteSet(handles') /\ Inherited(handles') = {}
    BY FS_EmptySet DEF shalloc_space_init, shalloc_space_close, Inherited
  <1>2. HasPages' /\ HeapsDisjoint'
    BY <1>1 DEF HasPages, HeapsDisjoint
  <1>3. CASE shalloc_space_init
    <2>1. NoDesc \in Descs /\ DataPages \in 0..DataPages /\ 0 \in 0..MaxInherit
      BY SpaceAssumption DEF NoDesc, Descs, Kinds
    <2>2. desc' \in [Ptrs -> Descs]
      BY <1>3, <2>1 DEF shalloc_space_init
    <2>3. space' \in [unused : 0..DataPages, has_noninherit_heaps : BOOLEAN]
      BY <1>3, <2>1 DEF shalloc_space_init
    <2>4. TypeOK'
      BY <1>1, <1>3, <2>1, <2>2, <2>3 DEF shalloc_space_init, TypeOK
    <2>5. Counted'
      BY <1>1, <1>3, FS_EmptySet DEF shalloc_space_init, Counted
    <2>. QED
      BY <1>2, <2>4, <2>5 DEF SafeInv
  <1>4. CASE shalloc_space_close
    <2>1. TypeOK'
      BY <1>1, <1>4 DEF shalloc_space_close, SafeInv, TypeOK
    <2>2. Counted'
      BY <1>1, <1>4 DEF shalloc_space_close, Counted
    <2>. QED
      BY <1>2, <2>1, <2>2 DEF SafeInv
  <1>. QED
    BY <1>3, <1>4

(* Freezing, and ending the process, leave the heaps as they are.          *)
LEMMA SafeStopped ==
    ASSUME SafeInv,
           \/ shalloc_space_freeze
           \/ \E size \in Sizes, kind \in Kinds : CreateStops(size, kind)
           \/ \E h \in handles : DestroyStops(h)
    PROVE  SafeInv'
  <1>1. /\ UNCHANGED <<space, privUsed, magic, desc, vm, handles, left>>
        /\ status = "open"
        /\ status' \in {"open"} \cup Stops
        /\ frozen' \in BOOLEAN
    BY DEF shalloc_space_freeze, CreateStops, DestroyStops, Stops, SafeInv, TypeOK
  <1>2. HasPages' /\ HeapsDisjoint'
    BY <1>1, FewerHandles DEF SafeInv, Bump
  <1>3. Counted'
    BY <1>1, SameHandles DEF SafeInv
  <1>. QED
    BY <1>1, <1>2, <1>3 DEF SafeInv, TypeOK

LEMMA SafeStep == SafeInv /\ [Next]_vars => SafeInv'
  <1>. SUFFICES ASSUME SafeInv, [Next]_vars PROVE SafeInv'
    OBVIOUS
  <1>1. CASE UNCHANGED vars
    BY <1>1 DEF vars, SafeInv, TypeOK, HasPages, HeapsDisjoint, Counted, Inherited, Bump
  <1>2. CASE shalloc_space_init \/ shalloc_space_close
    BY <1>2, SafeEmptied
  <1>3. CASE \/ shalloc_space_freeze
             \/ \E size \in Sizes, kind \in Kinds : CreateStops(size, kind)
             \/ \E h \in handles : DestroyStops(h)
    BY <1>3, SafeStopped
  <1>4. CASE \E size \in Sizes, kind \in Kinds : \E p \in Claims(kind) : Create(size, kind, p)
    BY <1>4, SafeCreate
  <1>5. CASE \E size \in Sizes, kind \in Kinds : \E p \in Claims(kind) : CreateNull(size, kind, p)
    BY <1>5, SafeCreateNull
  <1>6. CASE \E h \in handles : DestroyInherit(h)
    BY <1>6, SafeDestroyInherit
  <1>7. CASE \E h \in handles : DestroyPriv(h)
    BY <1>7, SafeDestroyPriv
  <1>8. CASE \E size \in Sizes, kind \in Kinds : \E p \in Claims(kind) : CreateRefused(size, kind, p)
    BY <1>8, SafeCreateRefused
  <1>. QED
    BY <1>1, <1>2, <1>3, <1>4, <1>5, <1>6, <1>7, <1>8 DEF Next

THEOREM SafeAlways == Spec => []SafeInv
  BY SafeInit, SafeStep, PTL DEF Spec

(* The state of the space is always well formed; in particular num_heaps   *)
(* never leaves 0..SHALLOC_MAX_INHERIT_HEAPS, whatever is destroyed.       *)
THEOREM SpaceTyped == Spec => []TypeOK
  <1>1. SafeInv => TypeOK
    BY DEF SafeInv
  <1>. QED
    BY <1>1, SafeAlways, PTL

(* No two heaps in use share a page, in any space and in whatever order    *)
(* heaps are created and destroyed.                                        *)
THEOREM HeapsAlwaysDisjoint == Spec => []HeapsDisjoint
  <1>1. SafeInv => HeapsDisjoint
    BY DEF SafeInv
  <1>. QED
    BY <1>1, SafeAlways, PTL

------------------------------------------------------------------------------
(* What the discipline InheritLIFO adds: every handle has a struct of its  *)
(* own that nobody else rewrites, and the pages above the pointer are      *)
(* fresh, or hold what a refused creation left there.                      *)
OwnStruct ==
    /\ \A g, h \in handles : g.ptr = h.ptr => g = h
    /\ \A h \in handles : h.ptr \in Priv => h.ptr \in privUsed

Sized == \A h \in handles : h.d.data <= h.d.base

Fresh(pg) == vm[pg] = "reserved" \/ (pg \in left /\ vm[pg] = "guard")

Mapped(h, pg) == \/ vm[pg] = MappedAs(h.d.kind)
                 \/ h.d.kind = "default" /\ pg \in left /\ vm[pg] = "guard"

FreshAbove ==
    status = "open" => \A pg \in Pages : pg >= Bump => Fresh(pg)

OrderInv == /\ OwnStruct /\ Sized /\ FreshAbove
            /\ HandlesIntact /\ RecordsExact /\ HeapsMapped

(* No handle points at the place a new struct is put.                      *)
LEMMA ClaimIsFree ==
    ASSUME SafeInv, OrderInv, status = "open", NEW kind \in Kinds, NEW p \in Claims(kind)
    PROVE  /\ p \in Ptrs
           /\ \A h \in handles : h.ptr # p
           /\ kind = "inherit" => p = <<"magic", magic>> /\ p \in Magic
           /\ kind # "inherit" => p \in Priv /\ p \notin Magic
  <1>1. magic \in 0..MaxInherit /\ MaxInherit \in Nat
    BY SpaceAssumption DEF SafeInv, TypeOK
  <1>2. CASE kind = "inherit"
    <2>1. magic < MaxInherit /\ p = <<"magic", magic>>
      BY <1>2 DEF Claims
    <2>2. p \in Magic /\ p \in Ptrs
      BY <1>1, <2>1 DEF Magic, Ptrs
    <2>3. \A h \in handles : h.ptr \in Magic => h.ptr \in {<<"magic", i>> : i \in 0..(magic - 1)}
      BY DEF OrderInv, RecordsExact
    <2>4. p \notin {<<"magic", i>> : i \in 0..(magic - 1)}
      BY <1>1, <2>1
    <2>. QED
      BY <1>2, <2>1, <2>2, <2>3, <2>4
  <1>3. CASE kind # "inherit"
    <2>1. p \in Priv /\ p \notin privUsed
      BY <1>3 DEF Claims
    <2>2. p \notin Magic /\ p \in Ptrs
      BY <2>1 DEF Priv, Magic, Ptrs
    <2>. QED
      BY <1>3, <2>1, <2>2 DEF OrderInv, OwnStruct
  <1>. QED
    BY <1>2, <1>3

LEMMA OrderCreate ==
    ASSUME SafeInv, OrderInv, NEW size \in Sizes, NEW kind \in Kinds,
           NEW p \in Claims(kind), Create(size, kind, p)
    PROVE  OrderInv'
  <1>. DEFINE d == shalloc_get_heap(Bump, size, kind)
              made == [d EXCEPT !.attached = (kind = "inherit")]
              new == [ptr |-> p, d |-> made]
  <1>1. /\ DataPages \in Nat /\ space.unused \in 0..DataPages
        /\ Bump \in Nat /\ Bump = DataPages - space.unused
    BY SpaceAssumption DEF SafeInv, TypeOK, Bump
  <1>2. /\ d \in Descs /\ d.start = Bump /\ d.data <= d.base /\ d.base > 0
        /\ d.kind = kind /\ d.base \in Nat /\ d.data \in Nat
    BY <1>1, NewDesc DEF Descs
  <1>3. /\ made.start = Bump /\ made.base = d.base /\ made.data = d.data
        /\ made.kind = kind
    BY <1>2 DEF Descs
  <1>4. Bump + d.base <= DataPages /\ status = "open" /\ status' = "open"
    BY <1>2 DEF Create, Fits
  <1>5. /\ p \in Ptrs /\ (\A h \in handles : h.ptr # p)
        /\ kind = "inherit" => p = <<"magic", magic>> /\ p \in Magic
        /\ kind # "inherit" => p \in Priv /\ p \notin Magic
    BY <1>4, ClaimIsFree
  <1>6. handles' = handles \cup {new} /\ new.ptr = p /\ new.d = made
    BY DEF Create
  <1>7. Bump' = Bump + d.base
    BY <1>1, <1>2 DEF Create, Bump
  <1>. HIDE DEF new, made, d
  <1>8. \A h \in handles : h.ptr \in Ptrs /\ h.d \in Descs /\ h.d.start + h.d.base <= Bump
    BY DEF SafeInv, TypeOK, HeapsDisjoint
  <1>9. OwnStruct'
    <2>1. \A h \in handles' : h.ptr \in Priv => h.ptr \in privUsed'
      <3>1. kind = "inherit" => p \notin Priv
        BY <1>5 DEF Priv, Magic
      <3>. QED
        BY <1>6, <3>1 DEF Create, OrderInv, OwnStruct
    <2>. QED
      BY <1>5, <1>6, <2>1 DEF OrderInv, OwnStruct
  <1>10. Sized'
    BY <1>2, <1>3, <1>6 DEF OrderInv, Sized
  <1>11. HandlesIntact'
    <2>1. desc' = [desc EXCEPT ![p] = made] /\ desc \in [Ptrs -> Descs]
      BY DEF Create, SafeInv, TypeOK, made, d
    <2>. QED
      BY <1>5, <1>6, <1>8, <2>1 DEF OrderInv, HandlesIntact
  <1>12. RecordsExact'
    <2>1. magic \in Nat
      BY SpaceAssumption DEF SafeInv, TypeOK
    <2>2. {<<"magic", i>> : i \in 0..(magic - 1)} = {h.ptr : h \in handles} \cap Magic
      BY <1>4 DEF OrderInv, RecordsExact
    <2>3. {h.ptr : h \in handles'} = {h.ptr : h \in handles} \cup {p}
      BY <1>6
    <2>4. CASE kind = "inherit"
      <3>1. magic' = magic + 1
        BY <2>4 DEF Create
      <3>2. 0..(magic' - 1) = 0..(magic - 1) \cup {magic}
        BY <2>1, <3>1
      <3>3. {<<"magic", i>> : i \in 0..(magic' - 1)}
               = {<<"magic", i>> : i \in 0..(magic - 1)} \cup {p}
        BY <1>5, <2>4, <3>2
      <3>. QED
        BY <1>5, <2>2, <2>3, <2>4, <3>3 DEF RecordsExact
    <2>5. CASE kind # "inherit"
      <3>1. magic' = magic
        BY <2>5 DEF Create
      <3>. QED
        BY <1>5, <2>2, <2>3, <2>5, <3>1 DEF RecordsExact
    <2>. QED
      BY <2>4, <2>5
  <1>13. vm' = shalloc_map_heap(d)
    BY DEF Create, d
  <1>14. \A pg \in Pages : pg < Bump \/ pg >= Bump' => vm'[pg] = vm[pg]
    <2>1. SUFFICES ASSUME NEW pg \in Pages, pg < Bump \/ pg >= Bump'
                   PROVE  vm'[pg] = vm[pg]
      OBVIOUS
    <2>2. pg \notin DataOf(d) /\ pg \notin BaseOf(d)
      BY <1>1, <1>2, <1>7, <2>1 DEF DataOf, BaseOf, Pages
    <2>. QED
      BY <1>13, <2>2 DEF shalloc_map_heap
  <1>15. FreshAbove'
    <2>1. left' = left
      BY DEF Create
    <2>. QED
      BY <1>1, <1>2, <1>4, <1>7, <1>14, <2>1 DEF OrderInv, FreshAbove, Fresh, Pages
  <1>16. \A pg \in DataOf(made) :
            \/ vm'[pg] = MappedAs(made.kind)
            \/ made.kind = "default" /\ pg \in left' /\ vm'[pg] = "guard"
    <2>. TAKE pg \in DataOf(made)
    <2>1. pg \in DataOf(d) /\ pg \in Pages /\ pg >= Bump
      BY <1>1, <1>2, <1>3, <1>4 DEF DataOf, Pages
    <2>2. Writable(pg) \/ (pg \in left /\ vm[pg] = "guard")
      BY <1>4, <2>1 DEF OrderInv, FreshAbove, Fresh, Writable
    <2>3. left' = left
      BY DEF Create
    <2>. QED
      BY <1>2, <1>3, <1>13, <2>1, <2>2, <2>3 DEF shalloc_map_heap
  <1>17. \A pg \in BaseOf(made) \ DataOf(made) : vm'[pg] = "guard"
    <2>. TAKE pg \in BaseOf(made) \ DataOf(made)
    <2>1. pg \in BaseOf(d) /\ pg \notin DataOf(d) /\ pg \in Pages
      BY <1>1, <1>2, <1>3, <1>4 DEF DataOf, BaseOf, Pages
    <2>. QED
      BY <1>13, <2>1 DEF shalloc_map_heap
  <1>18. HeapsMapped'
    <2>1. ASSUME NEW h \in handles
          PROVE  /\ \A pg \in DataOf(h.d) : Mapped(h, pg)'
                 /\ \A pg \in BaseOf(h.d) \ DataOf(h.d) : vm'[pg] = "guard"
      <3>1. h.d.data <= h.d.base /\ h.d \in Descs /\ h.d.start + h.d.base <= Bump
        BY <1>8 DEF OrderInv, Sized
      <3>2. \A pg \in DataOf(h.d) \cup BaseOf(h.d) : pg \in Pages /\ pg < Bump
        BY <1>1, <3>1 DEF DataOf, BaseOf, Pages, Descs
      <3>3. \A pg \in DataOf(h.d) \cup BaseOf(h.d) : vm'[pg] = vm[pg]
        BY <1>14, <3>2
      <3>4. left' = left
        BY DEF Create
      <3>. QED
        BY <3>3, <3>4 DEF OrderInv, HeapsMapped, Mapped
    <2>2. \A h \in handles' : h \in handles \/ h.d = made
      BY <1>6
    <2>. QED
      BY <1>16, <1>17, <2>1, <2>2 DEF HeapsMapped, Mapped
  <1>. QED
    BY <1>9, <1>10, <1>11, <1>12, <1>15, <1>18 DEF OrderInv

(* Unmapping a heap in use disturbs no other, nor the pages above.         *)
LEMMA UnmapOwn ==
    ASSUME SafeInv, OrderInv, NEW h \in handles, vm' \in {vm, Unmapped(BaseOf(h.d))},
           handles' = handles \ {h}, space' = space, left' = left, status = "open"
    PROVE  HeapsMapped' /\ FreshAbove'
  <1>1. /\ DataPages \in Nat /\ space.unused \in 0..DataPages
        /\ Bump \in Nat /\ Bump = DataPages - space.unused
    BY SpaceAssumption DEF SafeInv, TypeOK, Bump
  <1>2. \A g \in handles : g.d \in Descs /\ g.d.data <= g.d.base
                             /\ g.d.start + g.d.base <= Bump
    BY DEF SafeInv, TypeOK, OrderInv, Sized, HeapsDisjoint
  <1>3. \A pg \in Pages \ BaseOf(h.d) : vm'[pg] = vm[pg]
    BY DEF Unmapped, SafeInv, TypeOK
  <1>4. ASSUME NEW g \in handles, g # h
        PROVE  /\ \A pg \in DataOf(g.d) : Mapped(g, pg)'
               /\ \A pg \in BaseOf(g.d) \ DataOf(g.d) : vm'[pg] = "guard"
    <2>1. \/ g.d.start + g.d.base <= h.d.start
          \/ h.d.start + h.d.base <= g.d.start
      BY <1>4 DEF SafeInv, HeapsDisjoint
    <2>2. \A pg \in DataOf(g.d) \cup BaseOf(g.d) : pg \in Pages \ BaseOf(h.d)
      <3>1. /\ g.d.start \in Nat /\ g.d.base \in Nat /\ g.d.data \in Nat
            /\ h.d.start \in Nat /\ h.d.base \in Nat
            /\ g.d.data <= g.d.base /\ g.d.start + g.d.base <= Bump
        BY <1>2 DEF Descs
      <3>. TAKE pg \in DataOf(g.d) \cup BaseOf(g.d)
      <3>2. pg \in Int /\ g.d.start <= pg /\ pg < g.d.start + g.d.base
        <4>. DEFINE s == g.d.start
                    n == g.d.base
                    m == g.d.data
        <4>1. s \in Nat /\ n \in Nat /\ m \in Nat /\ m <= n
          BY <3>1
        <4>2. pg \in s..(s + m - 1) \/ pg \in s..(s + n - 1)
          BY DEF DataOf, BaseOf
        <4>. HIDE DEF s, n, m
        <4>3. pg \in Int /\ s <= pg /\ pg < s + n
          BY <4>1, <4>2
        <4>. QED
          BY <4>3 DEF s, n
      <3>3. pg \in Pages
        BY <1>1, <3>1, <3>2 DEF Pages
      <3>4. pg \notin BaseOf(h.d)
        <4>1. CASE h.d.start + h.d.base <= g.d.start
          BY <3>1, <3>2, <4>1 DEF BaseOf
        <4>2. CASE g.d.start + g.d.base <= h.d.start
          BY <3>1, <3>2, <4>2 DEF BaseOf
        <4>. QED
          BY <2>1, <4>1, <4>2
      <3>. QED
        BY <3>3, <3>4
    <2>3. \A pg \in DataOf(g.d) \cup BaseOf(g.d) : vm'[pg] = vm[pg]
      BY <1>3, <2>2
    <2>. QED
      BY <2>3 DEF OrderInv, HeapsMapped, Mapped
  <1>5. HeapsMapped'
    BY <1>4 DEF HeapsMapped, Mapped
  <1>6. \A pg \in Pages : pg >= Bump => pg \notin BaseOf(h.d)
    BY <1>1, <1>2 DEF BaseOf, Pages, Descs
  <1>7. Bump' = Bump
    BY DEF Bump
  <1>. QED
    BY <1>3, <1>5, <1>6, <1>7 DEF OrderInv, FreshAbove, Fresh

LEMMA OrderDestroyInherit ==
    ASSUME InheritLIFO, SafeInv, OrderInv, NEW h \in handles, DestroyInherit(h)
    PROVE  OrderInv'
  <1>1. /\ handles' = handles \ {h} /\ space' = space /\ privUsed' = privUsed
        /\ left' = left /\ magic' = magic - 1 /\ status = "open" /\ status' = "open"
        /\ h.ptr = <<"magic", magic - 1>> /\ h.ptr \in Magic
    BY DEF DestroyInherit
  <1>2. desc[h.ptr] = h.d /\ vm' = Unmapped(BaseOf(h.d))
    BY DEF DestroyInherit, OrderInv, HandlesIntact
  <1>3. HeapsMapped' /\ FreshAbove'
    BY <1>1, <1>2, UnmapOwn
  <1>4. OwnStruct' /\ Sized'
    BY <1>1 DEF OrderInv, OwnStruct, Sized
  <1>5. HandlesIntact'
    <2>1. \A g \in handles' : g.ptr # h.ptr /\ g.ptr \in Ptrs
      BY <1>1 DEF OrderInv, OwnStruct, SafeInv, TypeOK
    <2>2. \A q \in Ptrs : q # h.ptr => desc'[q] = desc[q]
      BY DEF DestroyInherit, SafeInv, TypeOK
    <2>. QED
      BY <1>1, <2>1, <2>2 DEF OrderInv, HandlesIntact
  <1>6. RecordsExact'
    <2>1. magic \in Nat
      BY SpaceAssumption DEF SafeInv, TypeOK
    <2>2. {<<"magic", i>> : i \in 0..(magic - 1)} = {g.ptr : g \in handles} \cap Magic
      BY <1>1 DEF OrderInv, RecordsExact
    <2>3. {g.ptr : g \in handles'} = {g.ptr : g \in handles} \ {h.ptr}
      BY <1>1 DEF OrderInv, OwnStruct
    <2>4. 0..(magic' - 1) = 0..(magic - 1) \ {magic - 1}
      BY <1>1, <2>1
    <2>5. {<<"magic", i>> : i \in 0..(magic' - 1)}
             = {<<"magic", i>> : i \in 0..(magic - 1)} \ {h.ptr}
      BY <1>1, <2>4
    <2>. QED
      BY <2>2, <2>3, <2>5 DEF RecordsExact
  <1>. QED
    BY <1>3, <1>4, <1>5, <1>6 DEF OrderInv

LEMMA OrderDestroyPriv ==
    ASSUME SafeInv, OrderInv, NEW h \in handles, DestroyPriv(h)
    PROVE  OrderInv'
  <1>1. /\ handles' = handles \ {h} /\ space' = space /\ desc' = desc
        /\ left' = left /\ magic' = magic /\ status = "open" /\ status' = "open"
        /\ h.ptr \in Priv /\ privUsed' = privUsed \ {h.ptr}
    BY DEF DestroyPriv
  <1>2. desc[h.ptr] = h.d /\ vm' \in {vm, Unmapped(BaseOf(h.d))}
    BY DEF DestroyPriv, OrderInv, HandlesIntact
  <1>3. HeapsMapped' /\ FreshAbove'
    BY <1>1, <1>2, UnmapOwn
  <1>4. OwnStruct' /\ Sized' /\ HandlesIntact'
    BY <1>1 DEF OrderInv, OwnStruct, Sized, HandlesIntact
  <1>5. RecordsExact'
    <2>1. h.ptr \notin Magic
      BY <1>1 DEF Priv, Magic
    <2>2. {g.ptr : g \in handles'} \cap Magic = {g.ptr : g \in handles} \cap Magic
      BY <1>1, <2>1
    <2>. QED
      BY <1>1, <2>2 DEF OrderInv, RecordsExact
  <1>. QED
    BY <1>3, <1>4, <1>5 DEF OrderInv

LEMMA OrderCreateNull ==
    ASSUME SafeInv, OrderInv, NEW size \in Sizes, NEW kind \in Kinds,
           NEW p \in Claims(kind), CreateNull(size, kind, p)
    PROVE  OrderInv'
  <1>1. status = "open" /\ UNCHANGED <<status, frozen, space, privUsed, magic, vm, handles, left>>
    BY DEF CreateNull
  <1>2. p \in Ptrs /\ \A h \in handles : h.ptr # p /\ h.ptr \in Ptrs
    BY <1>1, ClaimIsFree DEF SafeInv, TypeOK
  <1>3. \A q \in Ptrs : q # p => desc'[q] = desc[q]
    BY DEF CreateNull, SafeInv, TypeOK
  <1>4. HandlesIntact'
    BY <1>1, <1>2, <1>3 DEF OrderInv, HandlesIntact
  <1>. QED
    BY <1>1, <1>4
       DEF OrderInv, OwnStruct, Sized, FreshAbove, Fresh, RecordsExact, HeapsMapped, Bump

LEMMA OrderCreateRefused ==
    ASSUME SafeInv, OrderInv, NEW size \in Sizes, NEW kind \in Kinds,
           NEW p \in Claims(kind), CreateRefused(size, kind, p)
    PROVE  OrderInv'
  <1>. DEFINE d == shalloc_get_heap(Bump, size, kind)
  <1>1. /\ status = "open"
        /\ UNCHANGED <<status, frozen, space, privUsed, magic, handles>>
        /\ vm' = MappedBack(d) /\ left' = LeftBehind(d)
    BY DEF CreateRefused
  <1>2. DataPages \in Nat /\ Bump \in Nat /\ Bump' = Bump
    BY <1>1, SpaceAssumption DEF SafeInv, TypeOK, Bump
  <1>3. d \in Descs /\ d.start = Bump /\ d.base \in Nat /\ d.data \in Nat /\ d.data <= d.base
    BY <1>2, NewDesc DEF Descs
  <1>. HIDE DEF d
  <1>4. p \in Ptrs /\ \A h \in handles : h.ptr # p /\ h.ptr \in Ptrs
    BY <1>1, ClaimIsFree DEF SafeInv, TypeOK
  <1>5. HandlesIntact'
    <2>1. \A q \in Ptrs : q # p => desc'[q] = desc[q]
      BY DEF CreateRefused, SafeInv, TypeOK
    <2>. QED
      BY <1>1, <1>4, <2>1 DEF OrderInv, HandlesIntact
  <1>6. \A pg \in Pages : pg < Bump => vm'[pg] = vm[pg] /\ (pg \in left' <=> pg \in left)
    <2>. SUFFICES ASSUME NEW pg \in Pages, pg < Bump
                  PROVE  vm'[pg] = vm[pg] /\ (pg \in left' <=> pg \in left)
      OBVIOUS
    <2>1. pg \notin DataOf(d) /\ pg \notin BaseOf(d)
      BY <1>2, <1>3 DEF DataOf, BaseOf, Pages
    <2>. QED
      BY <1>1, <2>1 DEF MappedBack, LeftBehind
  <1>7. FreshAbove'
    <2>. SUFFICES ASSUME NEW pg \in Pages, pg >= Bump
                  PROVE  Fresh(pg)'
      BY <1>2 DEF FreshAbove
    <2>1. Fresh(pg)
      BY <1>1 DEF OrderInv, FreshAbove
    <2>2. CASE pg \in BaseOf(d) \ DataOf(d)
      <3>1. Remapped(d)
        <4>1. ~ (d.base <= d.data)
          BY <1>2, <1>3, <2>2 DEF BaseOf, DataOf
        <4>. QED
          BY <1>3, <4>1 DEF Remapped
      <3>. QED
        BY <1>1, <2>2, <3>1 DEF MappedBack, LeftBehind, Fresh
    <2>3. CASE pg \in DataOf(d) /\ Remapped(d)
      BY <1>1, <2>3 DEF MappedBack, Fresh
    <2>4. CASE pg \notin BaseOf(d) \ DataOf(d) /\ ~ (pg \in DataOf(d) /\ Remapped(d))
      <3>1. vm'[pg] = vm[pg] /\ (pg \in left => pg \in left')
        BY <1>1, <2>4 DEF MappedBack, LeftBehind
      <3>. QED
        BY <2>1, <3>1 DEF Fresh
    <2>. QED
      BY <2>2, <2>3, <2>4
  <1>8. HeapsMapped'
    <2>1. ASSUME NEW h \in handles
          PROVE  /\ \A pg \in DataOf(h.d) : Mapped(h, pg)'
                 /\ \A pg \in BaseOf(h.d) \ DataOf(h.d) : vm'[pg] = "guard"
      <3>1. h.d.data <= h.d.base /\ h.d \in Descs /\ h.d.start + h.d.base <= Bump
        BY DEF SafeInv, TypeOK, HeapsDisjoint, OrderInv, Sized
      <3>2. \A pg \in DataOf(h.d) \cup BaseOf(h.d) : pg \in Pages /\ pg < Bump
        <4>1. Bump <= DataPages
          BY <1>2, SpaceAssumption DEF Bump, SafeInv, TypeOK
        <4>. QED
          BY <1>2, <3>1, <4>1 DEF DataOf, BaseOf, Pages, Descs
      <3>3. /\ \A pg \in DataOf(h.d) : Mapped(h, pg)
            /\ \A pg \in BaseOf(h.d) \ DataOf(h.d) : vm[pg] = "guard"
        BY DEF OrderInv, HeapsMapped, Mapped
      <3>. QED
        BY <1>6, <3>2, <3>3 DEF Mapped
    <2>. QED
      BY <1>1, <2>1 DEF HeapsMapped, Mapped
  <1>9. OwnStruct' /\ Sized' /\ RecordsExact'
    BY <1>1 DEF OrderInv, OwnStruct, Sized, RecordsExact
  <1>. QED
    BY <1>5, <1>7, <1>8, <1>9 DEF OrderInv

LEMMA OrderEmptied ==
    ASSUME SafeInv, shalloc_space_init \/ shalloc_space_close
    PROVE  OrderInv'
  <1>1. handles' = {}
    BY DEF shalloc_space_init, shalloc_space_close
  <1>2. CASE shalloc_space_init
    <2>1. {<<"magic", i>> : i \in 0..(magic' - 1)} = {}
      BY <1>2 DEF shalloc_space_init
    <2>. QED
      BY <1>1, <1>2, <2>1 DEF shalloc_space_init, OrderInv, OwnStruct, Sized,
         FreshAbove, Fresh, HandlesIntact, RecordsExact, HeapsMapped
  <1>3. CASE shalloc_space_close
    BY <1>1, <1>3 DEF shalloc_space_close, OrderInv, OwnStruct, Sized,
       FreshAbove, HandlesIntact, RecordsExact, HeapsMapped
  <1>. QED
    BY <1>2, <1>3

LEMMA OrderStopped ==
    ASSUME SafeInv, OrderInv,
           \/ shalloc_space_freeze
           \/ \E size \in Sizes, kind \in Kinds : CreateStops(size, kind)
           \/ \E h \in handles : DestroyStops(h)
    PROVE  OrderInv'
  <1>1. /\ UNCHANGED <<space, privUsed, magic, desc, vm, handles, left>>
        /\ status = "open"
    BY DEF shalloc_space_freeze, CreateStops, DestroyStops
  <1>. QED
    BY <1>1 DEF OrderInv, OwnStruct, Sized, FreshAbove, Fresh, HandlesIntact,
       RecordsExact, HeapsMapped, Bump

LEMMA OrderStep ==
    ASSUME InheritLIFO, SafeInv, OrderInv, [Next]_vars
    PROVE  OrderInv'
  <1>1. CASE UNCHANGED vars
    BY <1>1 DEF vars, OrderInv, OwnStruct, Sized, FreshAbove, Fresh, HandlesIntact,
       RecordsExact, HeapsMapped, Bump
  <1>2. CASE shalloc_space_init \/ shalloc_space_close
    BY <1>2, OrderEmptied
  <1>3. CASE \/ shalloc_space_freeze
             \/ \E size \in Sizes, kind \in Kinds : CreateStops(size, kind)
             \/ \E h \in handles : DestroyStops(h)
    BY <1>3, OrderStopped
  <1>4. CASE \E size \in Sizes, kind \in Kinds : \E p \in Claims(kind) : Create(size, kind, p)
    BY <1>4, OrderCreate
  <1>5. CASE \E size \in Sizes, kind \in Kinds : \E p \in Claims(kind) : CreateNull(size, kind, p)
    BY <1>5, OrderCreateNull
  <1>6. CASE \E h \in handles : DestroyInherit(h)
    BY <1>6, OrderDestroyInherit
  <1>7. CASE \E h \in handles : DestroyPriv(h)
    BY <1>7, OrderDestroyPriv
  <1>8. CASE \E size \in Sizes, kind \in Kinds : \E p \in Claims(kind) : CreateRefused(size, kind, p)
    BY <1>8, OrderCreateRefused
  <1>. QED
    BY <1>1, <1>2, <1>3, <1>4, <1>5, <1>6, <1>7, <1>8 DEF Next

THEOREM OrderAlways ==
    ASSUME InheritLIFO
    PROVE  Spec => [](SafeInv /\ OrderInv)
  <1>1. Init => OrderInv
    BY DEF Init, OrderInv, OwnStruct, Sized, FreshAbove, HandlesIntact,
       RecordsExact, HeapsMapped
  <1>2. SafeInv /\ OrderInv /\ [Next]_vars => (SafeInv /\ OrderInv)'
    BY SafeStep, OrderStep
  <1>. QED
    BY <1>1, <1>2, SafeInit, PTL DEF Spec

(* While inheritable heaps are destroyed in reverse order, a handle always *)
(* describes the heap it was returned for.                                 *)
THEOREM HandlesAlwaysIntact == ASSUME InheritLIFO PROVE Spec => []HandlesIntact
  <1>1. SafeInv /\ OrderInv => HandlesIntact
    BY DEF OrderInv
  <1>. QED
    BY <1>1, OrderAlways, PTL

(* Under the same discipline the list that an exec'ed program reads is     *)
(* exactly the list of the inheritable heaps in use.                       *)
THEOREM RecordsAlwaysExact == ASSUME InheritLIFO PROVE Spec => []RecordsExact
  <1>1. SafeInv /\ OrderInv => RecordsExact
    BY DEF OrderInv
  <1>. QED
    BY <1>1, OrderAlways, PTL

(* Under the same discipline no destroy unmaps a page of another heap, and *)
(* no creation, refused or not, maps over one: the only page of a heap in  *)
(* use that is not mapped as asked is a guard page that a creation refused *)
(* before it was made had left there.                                      *)
THEOREM HeapsAlwaysMapped == ASSUME InheritLIFO PROVE Spec => []HeapsMapped
  <1>1. SafeInv /\ OrderInv => HeapsMapped
    BY DEF OrderInv
  <1>. QED
    BY <1>1, OrderAlways, PTL

------------------------------------------------------------------------------
(* What a step may never do.                                               *)

(* A step that gives a caller a heap it did not have is a creation, and    *)
(* the heap is the one created.                                            *)
LEMMA NewHandle ==
    ASSUME Next, NEW h \in handles' \ handles
    PROVE  \E size \in Sizes, kind \in Kinds : \E p \in Claims(kind) :
               /\ Create(size, kind, p)
               /\ h.d = [shalloc_get_heap(Bump, size, kind)
                            EXCEPT !.attached = (kind = "inherit")]
  <1>1. CASE \E size \in Sizes, kind \in Kinds : \E p \in Claims(kind) : Create(size, kind, p)
    <2>1. PICK size \in Sizes, kind \in Kinds : \E p \in Claims(kind) : Create(size, kind, p)
      BY <1>1
    <2>2. PICK p \in Claims(kind) : Create(size, kind, p)
      BY <2>1
    <2>. DEFINE made == [shalloc_get_heap(Bump, size, kind)
                           EXCEPT !.attached = (kind = "inherit")]
    <2>3. handles' = handles \cup {[ptr |-> p, d |-> made]}
      BY <2>2 DEF Create
    <2>4. h.d = made
      BY <2>3
    <2>. QED
      BY <2>2, <2>4
  <1>2. ASSUME NEW size \in Sizes, NEW kind \in Kinds, NEW p \in Claims(kind),
               CreateNull(size, kind, p)
        PROVE  FALSE
    BY <1>2 DEF CreateNull
  <1>6. ASSUME NEW size \in Sizes, NEW kind \in Kinds, NEW p \in Claims(kind),
               CreateRefused(size, kind, p)
        PROVE  FALSE
    BY <1>6 DEF CreateRefused
  <1>3. ASSUME NEW size \in Sizes, NEW kind \in Kinds, CreateStops(size, kind)
        PROVE  FALSE
    BY <1>3 DEF CreateStops
  <1>4. ASSUME NEW g \in handles,
               DestroyInherit(g) \/ DestroyPriv(g) \/ DestroyStops(g)
        PROVE  FALSE
    BY <1>4 DEF DestroyInherit, DestroyPriv, DestroyStops
  <1>5. ASSUME shalloc_space_init \/ shalloc_space_close \/ shalloc_space_freeze
        PROVE  FALSE
    BY <1>5 DEF shalloc_space_init, shalloc_space_close, shalloc_space_freeze
  <1>. QED
    BY <1>1, <1>2, <1>3, <1>4, <1>5, <1>6 DEF Next

(* While inheritable heaps are destroyed in reverse order, a new heap      *)
(* takes pages that no heap before it had, in use or not: no unmapped page *)
(* and no page left mapped by a destroy that failed to unmap it.  The one  *)
(* thing it can find there is the guard page of a refused creation.        *)
THEOREM NewHeapsGetFreshPages == ASSUME InheritLIFO PROVE Spec => FreshPages
  <1>. DEFINE AllFresh == \A h \in handles' \ handles : \A pg \in BaseOf(h.d) : Fresh(pg)
  <1>1. ASSUME SafeInv, OrderInv, Next
        PROVE  AllFresh
    <2>. SUFFICES ASSUME NEW h \in handles' \ handles, NEW pg \in BaseOf(h.d)
                  PROVE  Fresh(pg)
      OBVIOUS
    <2>1. PICK size \in Sizes, kind \in Kinds : \E p \in Claims(kind) :
              /\ Create(size, kind, p)
              /\ h.d = [shalloc_get_heap(Bump, size, kind)
                           EXCEPT !.attached = (kind = "inherit")]
      BY <1>1, NewHandle
    <2>. DEFINE d == shalloc_get_heap(Bump, size, kind)
    <2>2. DataPages \in Nat /\ space.unused \in 0..DataPages /\ Bump \in Nat
      BY <1>1, SpaceAssumption DEF SafeInv, TypeOK, Bump
    <2>3. d \in Descs /\ d.start = Bump
      BY <2>2, NewDesc
    <2>4. h.d.start = Bump /\ h.d.base = d.base /\ d.base \in Nat
      BY <2>1, <2>3 DEF Descs
    <2>5. status = "open" /\ Bump + d.base <= DataPages
      BY <2>1, <2>3 DEF Create, Fits
    <2>6. pg \in Pages /\ pg >= Bump
      BY <2>2, <2>4, <2>5 DEF BaseOf, Pages
    <2>. QED
      BY <1>1, <2>5, <2>6 DEF OrderInv, FreshAbove
  <1>2. SafeInv /\ OrderInv /\ [Next]_vars => [AllFresh]_vars
    BY <1>1
  <1>. QED
    BY <1>2, OrderAlways, PTL DEF Spec, FreshPages, Fresh
=============================================================================
