---------------------------- MODULE InheritProofs ----------------------------
(***************************************************************************)
(* Theorems about module Inherit, for any number of processes, heaps and   *)
(* pages.                                                                  *)
(*                                                                         *)
(* Type correctness needs no discipline of the callers: that the number of *)
(* records never drops below zero is a matter of counting.  That heaps are *)
(* apart and each is the same memory everywhere needs the records to be    *)
(* left alone while a program starts, and heaps to be created in turns,    *)
(* where the listed ones end.                                              *)
(***************************************************************************)
EXTENDS Inherit, OrderLemmas, FiniteSetTheorems

------------------------------------------------------------------------------
(* A record is counted for each process that is about to fill one or to    *)
(* uncount one, and for each record that names a segment.                  *)
Pending == {p \in Procs : pc[p] \in {"filling", "dropping"}}

Filled == {k \in 0..(MaxInherit - 1) : magic.recs[k].seg # NoSeg}

Shape ==
    /\ TypeOK
    /\ vm = [p \in Procs |-> vm[p]]
    /\ \A p \in Procs : vm[p] = [pg \in Pages |-> vm[p][pg]]
    /\ heaps = [p \in Procs |-> heaps[p]]
    /\ \A p \in Procs :
          /\ pc[p] \in {"filling", "dropping"} => i[p] < MaxInherit
          /\ \A h \in heaps[p] : h.kind = "inherit" => h.d.seg # NoSeg

CountInv == Shape /\ Cardinality(Pending) + Cardinality(Filled) <= magic.num


LEMMA Bounds ==
    /\ MaxInherit \in Nat /\ DataPages \in Nat /\ GuardPages \in Nat /\ MaxSegs \in Nat
    /\ Sizes \subseteq Nat \ {0}
    /\ NoSeg \notin Segs
  BY InheritAssumption DEF Segs, NoSeg

LEMMA CountInit == Init => CountInv
  <1>. SUFFICES ASSUME Init PROVE CountInv
    OBVIOUS
  <1>1. NoRec \in Recs
    BY DEF NoRec, Recs
  <1>2. Shape
    BY <1>1, Bounds DEF Init, Shape, TypeOK, Stages, Gone, Unmapped, Starting
  <1>3. Pending = {} /\ Filled = {}
    BY DEF Init, Pending, Filled, NoRec
  <1>. QED
    BY <1>2, <1>3, FS_EmptySet DEF CountInv, Init

LEMMA Finite ==
    ASSUME Shape
    PROVE  /\ IsFiniteSet(Pending) /\ Cardinality(Pending) \in Nat
           /\ IsFiniteSet(Filled) /\ Cardinality(Filled) \in Nat
  <1>1. IsFiniteSet(Pending)
    BY InheritAssumption, FS_Subset DEF Pending
  <1>2. IsFiniteSet(0..(MaxInherit - 1))
    BY Bounds, FS_Interval
  <1>3. IsFiniteSet(Filled)
    BY <1>2, FS_Subset DEF Filled
  <1>. QED
    BY <1>1, <1>3, FS_CardinalityType

(* Who is about to fill or to uncount a record is counted himself.         *)
LEMMA CountedRecord ==
    ASSUME CountInv, NEW p \in Pending
    PROVE  magic.num >= 1
  <1>1. Cardinality(Pending) >= 1
    <2>1. Cardinality(Pending) # 0
      BY Finite, FS_EmptySet DEF CountInv
    <2>. QED
      BY <2>1, Finite DEF CountInv
  <1>2. magic.num \in Nat
    BY Bounds DEF CountInv, Shape, TypeOK
  <1>. QED
    BY <1>1, <1>2, Finite DEF CountInv

LEMMA OneMore ==
    ASSUME NEW S, IsFiniteSet(S), NEW x
    PROVE  /\ IsFiniteSet(S \cup {x}) /\ Cardinality(S \cup {x}) \in Nat
           /\ Cardinality(S \cup {x}) <= Cardinality(S) + 1
  <1>1. /\ IsFiniteSet(S \cup {x})
        /\ x \in S => Cardinality(S \cup {x}) = Cardinality(S)
        /\ x \notin S => Cardinality(S \cup {x}) = Cardinality(S) + 1
    BY FS_AddElement
  <1>2. Cardinality(S \cup {x}) \in Nat /\ Cardinality(S) \in Nat
    BY <1>1, FS_CardinalityType
  <1>. QED
    BY <1>1, <1>2

(* What the steps do to the number of records, and to what it counts.      *)
LEMMA Recounted ==
    ASSUME CountInv, Shape', NEW p, NEW k,
           \/ /\ magic'.num = magic.num
              /\ Pending' \subseteq Pending /\ Filled' \subseteq Filled
           \/ /\ magic'.num = magic.num + 1
              /\ Pending' \subseteq Pending \cup {p} /\ Filled' \subseteq Filled
           \/ /\ magic'.num = magic.num - 1
              /\ p \in Pending /\ Pending' \subseteq Pending \ {p} /\ Filled' \subseteq Filled
           \/ /\ magic'.num = magic.num
              /\ p \in Pending /\ Pending' \subseteq Pending \ {p}
              /\ Filled' \subseteq Filled \cup {k}
           \/ /\ magic'.num = magic.num
              /\ Pending' \subseteq Pending \cup {p}
              /\ k \in Filled /\ Filled' \subseteq Filled \ {k}
    PROVE  CountInv'
  <1>. DEFINE P == Cardinality(Pending)
              F == Cardinality(Filled)
  <1>1. /\ IsFiniteSet(Pending) /\ P \in Nat
        /\ IsFiniteSet(Filled) /\ F \in Nat
        /\ P + F <= magic.num /\ magic.num \in Nat
    BY Finite, Bounds DEF CountInv, Shape, TypeOK
  <1>2. /\ IsFiniteSet(Pending \cup {p}) /\ Cardinality(Pending \cup {p}) \in Nat
        /\ Cardinality(Pending \cup {p}) <= P + 1
    BY <1>1, OneMore
  <1>3. /\ IsFiniteSet(Filled \cup {k}) /\ Cardinality(Filled \cup {k}) \in Nat
        /\ Cardinality(Filled \cup {k}) <= F + 1
    BY <1>1, OneMore
  <1>4. p \in Pending => /\ IsFiniteSet(Pending \ {p})
                         /\ Cardinality(Pending \ {p}) = P - 1
    BY <1>1, FS_RemoveElement
  <1>5. k \in Filled => /\ IsFiniteSet(Filled \ {k})
                        /\ Cardinality(Filled \ {k}) = F - 1
    BY <1>1, FS_RemoveElement
  <1>6. \A S, T : IsFiniteSet(T) /\ S \subseteq T => Cardinality(S) <= Cardinality(T)
    BY FS_Subset
  <1>7. /\ Cardinality(Pending)' \in Nat
        /\ Cardinality(Filled)' \in Nat
    <2>1. IsFiniteSet(Pending') /\ IsFiniteSet(Filled')
      BY <1>1, <1>2, <1>3, <1>4, <1>5, FS_Subset
    <2>. QED
      BY <2>1, FS_CardinalityType
  <1>8. Cardinality(Pending)' + Cardinality(Filled)' <= magic'.num
    <2>1. CASE /\ magic'.num = magic.num
               /\ Pending' \subseteq Pending /\ Filled' \subseteq Filled
      <3>1. Cardinality(Pending)' <= P /\ Cardinality(Filled)' <= F
        BY <2>1, <1>1, <1>6
      <3>. QED
        BY <3>1, <2>1, <1>1, <1>7
    <2>2. CASE /\ magic'.num = magic.num + 1
               /\ Pending' \subseteq Pending \cup {p} /\ Filled' \subseteq Filled
      <3>1. Cardinality(Pending)' <= Cardinality(Pending \cup {p}) /\ Cardinality(Filled)' <= F
        BY <2>2, <1>1, <1>2, <1>6
      <3>. QED
        BY <3>1, <2>2, <1>1, <1>2, <1>7
    <2>3. CASE /\ magic'.num = magic.num - 1
               /\ p \in Pending /\ Pending' \subseteq Pending \ {p} /\ Filled' \subseteq Filled
      <3>1. Cardinality(Pending)' <= P - 1 /\ Cardinality(Filled)' <= F
        BY <2>3, <1>1, <1>4, <1>6
      <3>. QED
        BY <3>1, <2>3, <1>1, <1>7
    <2>4. CASE /\ magic'.num = magic.num
               /\ p \in Pending /\ Pending' \subseteq Pending \ {p}
               /\ Filled' \subseteq Filled \cup {k}
      <3>1. Cardinality(Pending)' <= P - 1 /\ Cardinality(Filled)' <= Cardinality(Filled \cup {k})
        BY <2>4, <1>1, <1>3, <1>4, <1>6
      <3>. QED
        BY <3>1, <2>4, <1>1, <1>3, <1>7
    <2>5. CASE /\ magic'.num = magic.num
               /\ Pending' \subseteq Pending \cup {p}
               /\ k \in Filled /\ Filled' \subseteq Filled \ {k}
      <3>1. Cardinality(Pending)' <= Cardinality(Pending \cup {p}) /\ Cardinality(Filled)' <= F - 1
        BY <2>5, <1>1, <1>2, <1>5, <1>6
      <3>. QED
        BY <3>1, <2>5, <1>1, <1>2, <1>7
    <2>. QED
      BY <2>1, <2>2, <2>3, <2>4, <2>5
  <1>. QED
    BY <1>8 DEF CountInv

(* Steps that leave the records alone.                                     *)
LEMMA CountStart ==
    ASSUME CountInv, NEW p \in Procs, Start(p)
    PROVE  CountInv'
  <1>. USE DEF CountInv
  <1>1. CASE AttachMagic(p)
    <2>1. Shape'
      BY <1>1, Bounds DEF AttachMagic, Shape, TypeOK, Stages, Starting
    <2>2. Pending' \subseteq Pending /\ Filled' \subseteq Filled /\ magic' = magic
      BY <1>1, <2>1 DEF AttachMagic, Pending, Filled, Shape, TypeOK
    <2>. QED
      BY <2>1, <2>2, Recounted
  <1>2. CASE AttachHeap(p)
    <2>. DEFINE d == magic.recs[i[p]]
                h == [d EXCEPT !.start = Place(p, d)]
    <2>1. /\ i[p] \in 0..(MaxInherit - 1) /\ i[p] + 1 \in 0..MaxInherit
          /\ d \in Recs /\ d.seg \in Segs /\ h = d
      <3>1. i[p] \in 0..(MaxInherit - 1) /\ i[p] + 1 \in 0..MaxInherit
        BY <1>2, Bounds DEF AttachHeap, Shape, TypeOK, Listed
      <3>. QED
        BY <3>1, <1>2 DEF AttachHeap, Shape, TypeOK, Recs, Place
    <2>2. /\ vm' = [vm EXCEPT ![p] = MapOver(@, DataOf(h), d.seg)]
          /\ heaps' = [heaps EXCEPT ![p] = @ \cup {[kind |-> "inherit", d |-> h]}]
          /\ i' = [i EXCEPT ![p] = @ + 1]
          /\ UNCHANGED <<magic, made, pc, unused, mixed>>
          /\ pc[p] = "attach"
      BY <1>2 DEF AttachHeap
    <2>. HIDE DEF h, d
    <2>3. /\ \A q \in Procs : vm'[q] = [pg \in Pages |-> vm'[q][pg]]
          /\ \A q \in Procs : \A pg \in Pages :
                vm'[q][pg] \in Segs \cup {Unmapped, Reserved, Guard, Private}
      BY <2>1, <2>2 DEF Shape, TypeOK, MapOver
    <2>4. \A q \in Procs : \A g \in heaps'[q] :
             g \in [kind : Kinds, d : Recs] /\ (g.kind = "inherit" => g.d.seg # NoSeg)
      BY <2>1, <2>2, Bounds DEF Shape, TypeOK, Kinds
    <2>5. Shape'
      BY <2>1, <2>2, <2>3, <2>4 DEF Shape, TypeOK
    <2>6. Pending' \subseteq Pending /\ Filled' \subseteq Filled
      BY <2>2 DEF Pending, Filled
    <2>. QED
      BY <2>2, <2>5, <2>6, Recounted
  <1>3. CASE EndAttach(p)
    <2>1. Shape'
      BY <1>3, Bounds DEF EndAttach, Shape, TypeOK, Stages, Starting
    <2>2. Pending' \subseteq Pending /\ Filled' \subseteq Filled /\ magic' = magic
      BY <1>3, <2>1 DEF EndAttach, Pending, Filled, Shape, TypeOK
    <2>. QED
      BY <2>1, <2>2, Recounted
  <1>4. CASE CountHeap(p)
    <2>. DEFINE n == magic.recs[i[p]].base
    <2>1. /\ i[p] \in 0..(MaxInherit - 1) /\ i[p] + 1 \in 0..MaxInherit
          /\ n \in Nat /\ unused[p] - n \in 0..DataPages
      <3>1. i[p] \in 0..(MaxInherit - 1) /\ i[p] + 1 \in 0..MaxInherit
        BY <1>4, Bounds DEF CountHeap, Shape, TypeOK, Listed
      <3>2. n \in Nat
        BY <3>1 DEF Shape, TypeOK, Recs
      <3>. QED
        BY <3>1, <3>2, <1>4, Bounds DEF CountHeap, Counted, Shape, TypeOK
    <2>2. /\ unused' = [unused EXCEPT ![p] = @ - n]
          /\ i' = [i EXCEPT ![p] = @ + 1]
          /\ UNCHANGED <<magic, made, pc, mixed, vm, heaps>>
          /\ pc[p] = "count"
      BY <1>4 DEF CountHeap, Counted
    <2>. HIDE DEF n
    <2>3. Shape'
      BY <2>1, <2>2 DEF Shape, TypeOK
    <2>4. Pending' \subseteq Pending /\ Filled' \subseteq Filled
      BY <2>2 DEF Pending, Filled
    <2>. QED
      BY <2>2, <2>3, <2>4, Recounted
  <1>5. CASE EndCount(p)
    <2>1. Shape'
      BY <1>5, Bounds DEF EndCount, Shape, TypeOK, Stages, Starting
    <2>2. Pending' \subseteq Pending /\ Filled' \subseteq Filled /\ magic' = magic
      BY <1>5, <2>1 DEF EndCount, Pending, Filled, Shape, TypeOK
    <2>. QED
      BY <2>1, <2>2, Recounted
  <1>6. CASE StartFails(p)
    <2>1. Shape'
      BY <1>6, Bounds, ZenonT(60) DEF StartFails, Fails, Shape, TypeOK, Stages, Starting, Gone, Unmapped
    <2>2. Pending' \subseteq Pending /\ Filled' \subseteq Filled /\ magic' = magic
      BY <1>6, <2>1 DEF StartFails, Fails, Pending, Filled, Shape, TypeOK
    <2>. QED
      BY <2>1, <2>2, Recounted
  <1>. QED
    BY <1>1, <1>2, <1>3, <1>4, <1>5, <1>6 DEF Start

LEMMA CountFamily ==
    ASSUME CountInv, NEW p \in Procs, Begin(p) \/ (\E q \in Procs : Exec(p, q)) \/ Close(p)
    PROVE  CountInv'
  <1>. USE DEF CountInv
  <1>1. CASE Begin(p)
    <2>1. NoRec \in Recs
      BY DEF NoRec, Recs
    <2>2. Shape'
      <3>1. /\ magic' \in [num : 0..MaxInherit, recs : [0..(MaxInherit - 1) -> Recs]]
            /\ made' \subseteq Segs
            /\ unused' \in [Procs -> 0..DataPages] /\ mixed' \in [Procs -> BOOLEAN]
        BY <1>1, <2>1, Bounds DEF Begin, Shape, TypeOK
      <3>2. pc' \in [Procs -> Stages] /\ i' = i /\ heaps' = heaps
        BY <1>1 DEF Begin, Shape, TypeOK, Stages
      <3>3. /\ vm' = [q \in Procs |-> vm'[q]]
            /\ \A q \in Procs : vm'[q] = [pg \in Pages |-> vm'[q][pg]]
            /\ \A q \in Procs : \A pg \in Pages :
                  vm'[q][pg] \in Segs \cup {Unmapped, Reserved, Guard, Private}
        BY <1>1 DEF Begin, Shape, TypeOK, Fresh
      <3>4. \A q \in Procs : pc'[q] \in {"filling", "dropping"} => i'[q] < MaxInherit
        BY <1>1 DEF Begin, Shape, TypeOK
      <3>. QED
        BY <3>1, <3>2, <3>3, <3>4 DEF Shape, TypeOK
    <2>3. Pending' = {} /\ Filled' = {}
      BY <1>1 DEF Begin, Pending, Filled, NoRec, Shape, TypeOK
    <2>. QED
      BY <1>1, <2>2, <2>3, FS_EmptySet DEF Begin
  <1>2. ASSUME NEW q \in Procs, Exec(p, q)
        PROVE  CountInv'
    <2>1. Shape'
      BY <1>2, Bounds DEF Exec, Shape, TypeOK, Stages, Starting, Fresh, Reserved
    <2>2. Pending' \subseteq Pending /\ Filled' \subseteq Filled /\ magic' = magic
      BY <1>2, <2>1 DEF Exec, Pending, Filled, Shape, TypeOK
    <2>. QED
      BY <2>1, <2>2, Recounted
  <1>3. CASE Close(p)
    <2>1. Shape'
      <3>1. /\ unused' \in [Procs -> 0..DataPages] /\ mixed' \in [Procs -> BOOLEAN]
            /\ UNCHANGED <<magic, made, i>>
            /\ pc' \in [Procs -> Stages]
        BY <1>3, Bounds DEF Close, Shape, TypeOK, Stages
      <3>2. /\ vm' = [q \in Procs |-> vm'[q]]
            /\ \A q \in Procs : vm'[q] = [pg \in Pages |-> vm'[q][pg]]
            /\ \A q \in Procs : \A pg \in Pages :
                  vm'[q][pg] \in Segs \cup {Unmapped, Reserved, Guard, Private}
        BY <1>3, SMTT(30) DEF Close, Shape, TypeOK, Gone
      <3>3. /\ heaps' = [q \in Procs |-> heaps'[q]]
            /\ \A q \in Procs : heaps'[q] \subseteq heaps[q]
            /\ \A q \in Procs : pc'[q] \in {"filling", "dropping"} => i'[q] < MaxInherit
        BY <1>3 DEF Close, Shape, TypeOK
      <3>. QED
        BY <3>1, <3>2, <3>3 DEF Shape, TypeOK
    <2>2. Pending' \subseteq Pending /\ Filled' \subseteq Filled /\ magic' = magic
      BY <1>3, <2>1 DEF Close, Pending, Filled, Shape, TypeOK
    <2>. QED
      BY <2>1, <2>2, Recounted
  <1>. QED
    BY <1>1, <1>2, <1>3

(* The record of a new heap.                                               *)
LEMMA NewRecord ==
    ASSUME Shape, NEW p \in Procs, NEW n \in Sizes
    PROVE  /\ Position(p) \in 0..DataPages
           /\ NewRec(p, n) \in Recs /\ NewRec(p, n).seg = NoSeg
           /\ NewRec(p, n).start = Position(p) /\ NewRec(p, n).data = n
           /\ NewRec(p, n).base = n + GuardPages
  BY Bounds DEF Shape, TypeOK, NewRec, Position, Recs

LEMMA NewSegment ==
    ASSUME Shape, made # Segs
    PROVE  Min(Segs \ made) \in Segs \ made
  <1>1. Segs \ made # {}
    BY DEF Shape, TypeOK
  <1>2. Segs \subseteq Nat
    BY Bounds DEF Segs
  <1>. QED
    BY <1>1, <1>2, MinIsLeast

LEMMA BlankRecord ==
    ASSUME NEW recs \in [0..(MaxInherit - 1) -> Recs], NEW k \in 0..(MaxInherit - 1)
    PROVE  [recs EXCEPT ![k].seg = NoSeg] \in [0..(MaxInherit - 1) -> Recs]
  <1>1. [recs[k] EXCEPT !.seg = NoSeg] \in Recs
    BY DEF Recs
  <1>. QED
    BY <1>1

(* Steps that change them.                                                 *)
LEMMA CountRecords ==
    ASSUME CountInv, NEW p \in Procs,
           \/ Claim(p)
           \/ \E n \in Sizes : Fill(p, n) \/ FillNull(p, n)
           \/ \E h \in heaps[p] : DestroyInherit(p, h)
           \/ Drop(p)
    PROVE  CountInv'
  <1>. USE DEF CountInv
  <1>1. CASE Claim(p)
    <2>1. /\ magic.num \in 0..(MaxInherit - 1) /\ magic.num + 1 \in 0..MaxInherit
          /\ pc' = [pc EXCEPT ![p] = "filling"]
          /\ i' = [i EXCEPT ![p] = magic.num]
          /\ magic' = [num |-> magic.num + 1,
                       recs |-> [magic.recs EXCEPT ![magic.num].seg = NoSeg]]
          /\ UNCHANGED <<made, unused, mixed, vm, heaps>>
      BY <1>1, Bounds DEF Claim, RecordLeft, Shape, TypeOK
    <2>2. magic'.num = magic.num + 1 /\ magic'.recs \in [0..(MaxInherit - 1) -> Recs]
      BY <2>1, BlankRecord DEF Shape, TypeOK
    <2>3. Shape'
      BY <2>1, <2>2, Bounds DEF Shape, TypeOK, Stages
    <2>4. Pending' \subseteq Pending \cup {p}
      BY <2>1 DEF Pending, Shape, TypeOK
    <2>5. Filled' \subseteq Filled
      BY <2>1 DEF Filled, Shape, TypeOK
    <2>. QED
      BY <2>2, <2>3, <2>4, <2>5, Recounted
  <1>2. ASSUME NEW n \in Sizes, Fill(p, n)
        PROVE  CountInv'
    <2>. DEFINE seg == Min(Segs \ made)
                d == [NewRec(p, n) EXCEPT !.seg = seg]
    <2>1. /\ pc[p] = "filling" /\ made # Segs
          /\ d.base <= unused[p]
          /\ magic' = [magic EXCEPT !.recs[i[p]] = d]
          /\ made' = made \cup {seg}
          /\ vm' = [vm EXCEPT ![p] = MapOver(MapOver(@, BaseOf(d), Guard), DataOf(d), seg)]
          /\ unused' = [unused EXCEPT ![p] = @ - d.base]
          /\ heaps' = [heaps EXCEPT ![p] = @ \cup
                          {[kind |-> "inherit", d |-> [d EXCEPT !.seg = seg]]}]
          /\ pc' = [pc EXCEPT ![p] = "open"]
          /\ i' = [i EXCEPT ![p] = 0]
          /\ UNCHANGED mixed
      BY <1>2 DEF Fill, Fits, InheritId
    <2>2. seg \in Segs \ made
      BY <2>1, NewSegment
    <2>3. /\ d \in Recs /\ d.seg = seg /\ [d EXCEPT !.seg = seg] = d
          /\ d.base \in Nat
      BY <2>2, NewRecord, ZenonT(60) DEF Recs
    <2>. HIDE DEF d, seg
    <2>4. i[p] \in 0..(MaxInherit - 1)
      BY <2>1, Bounds DEF Shape, TypeOK
    <2>5. magic' \in [num : 0..MaxInherit, recs : [0..(MaxInherit - 1) -> Recs]]
      BY <2>1, <2>3 DEF Shape, TypeOK
    <2>6. unused' \in [Procs -> 0..DataPages]
      BY <2>1, <2>3, Bounds DEF Shape, TypeOK
    <2>7. /\ \A q \in Procs : vm'[q] = [pg \in Pages |-> vm'[q][pg]]
          /\ \A q \in Procs : \A pg \in Pages :
                vm'[q][pg] \in Segs \cup {Unmapped, Reserved, Guard, Private}
      BY <2>1, <2>2 DEF Shape, TypeOK, MapOver
    <2>8. \A q \in Procs : \A g \in heaps'[q] :
             g \in [kind : Kinds, d : Recs] /\ (g.kind = "inherit" => g.d.seg # NoSeg)
      BY <2>1, <2>2, <2>3, Bounds, SMTT(30) DEF Shape, TypeOK, Kinds
    <2>9. Shape'
      <3>1. pc' \in [Procs -> Stages] /\ i' \in [Procs -> 0..MaxInherit]
        BY <2>1, <2>2, Bounds DEF Shape, TypeOK, Stages
      <3>2. \A q \in Procs : pc'[q] \in {"filling", "dropping"} => i'[q] < MaxInherit
        BY <2>1, <2>2, Bounds DEF Shape, TypeOK
      <3>3. vm' = [q \in Procs |-> vm'[q]] /\ heaps' = [q \in Procs |-> heaps'[q]]
        BY <2>1 DEF Shape
      <3>4. made' \subseteq Segs /\ mixed' \in [Procs -> BOOLEAN]
        BY <2>1, <2>2 DEF Shape, TypeOK
      <3>. QED
        BY <2>5, <2>6, <2>7, <2>8, <3>1, <3>2, <3>3, <3>4 DEF Shape, TypeOK
    <2>10. p \in Pending /\ Pending' \subseteq Pending \ {p}
      BY <2>1 DEF Pending, Shape, TypeOK
    <2>11. Filled' \subseteq Filled \cup {i[p]} /\ magic'.num = magic.num
      BY <2>1, <2>4 DEF Filled, Shape, TypeOK
    <2>. QED
      BY <2>9, <2>10, <2>11, Recounted
  <1>3. ASSUME NEW n \in Sizes, FillNull(p, n)
        PROVE  CountInv'
    <2>1. /\ pc[p] = "filling"
          /\ magic' = [num |-> magic.num - 1,
                       recs |-> [magic.recs EXCEPT ![i[p]] = NewRec(p, n)]]
          /\ pc' = [pc EXCEPT ![p] = "open"]
          /\ i' = [i EXCEPT ![p] = 0]
          /\ UNCHANGED <<made, unused, mixed, vm, heaps>>
      BY <1>3 DEF FillNull
    <2>2. p \in Pending /\ Pending' \subseteq Pending \ {p}
      BY <2>1 DEF Pending, Shape, TypeOK
    <2>3. magic.num - 1 \in 0..MaxInherit
      BY <2>2, CountedRecord, Bounds DEF Shape, TypeOK
    <2>4. /\ magic'.num = magic.num - 1
          /\ magic' \in [num : 0..MaxInherit, recs : [0..(MaxInherit - 1) -> Recs]]
      BY <2>1, <2>3, NewRecord DEF Shape, TypeOK
    <2>5. Shape'
      BY <2>1, <2>4, Bounds DEF Shape, TypeOK, Stages
    <2>6. Filled' \subseteq Filled
      BY <2>1, NewRecord DEF Filled, Shape, TypeOK
    <2>. QED
      BY <2>2, <2>4, <2>5, <2>6, Recounted
  <1>4. ASSUME NEW h \in heaps[p], DestroyInherit(p, h)
        PROVE  CountInv'
    <2>. DEFINE k == magic.num - 1
    <2>1. /\ k >= 0 /\ magic.recs[k] = h.d /\ h.kind = "inherit"
          /\ vm' = [vm EXCEPT ![p] = Detach(@, h.d.seg)]
          /\ magic' = [magic EXCEPT !.recs[k].seg = NoSeg]
          /\ heaps' = [heaps EXCEPT ![p] = @ \ {h}]
          /\ pc' = [pc EXCEPT ![p] = "dropping"]
          /\ i' = [i EXCEPT ![p] = k]
          /\ UNCHANGED <<made, unused, mixed>>
      BY <1>4 DEF DestroyInherit
    <2>2. k \in 0..(MaxInherit - 1) /\ h.d.seg # NoSeg
      BY <2>1, Bounds DEF Shape, TypeOK
    <2>. HIDE DEF k
    <2>3. magic' \in [num : 0..MaxInherit, recs : [0..(MaxInherit - 1) -> Recs]]
      BY <2>1, <2>2, BlankRecord DEF Shape, TypeOK
    <2>4. /\ \A q \in Procs : vm'[q] = [pg \in Pages |-> vm'[q][pg]]
          /\ \A q \in Procs : \A pg \in Pages :
                vm'[q][pg] \in Segs \cup {Unmapped, Reserved, Guard, Private}
      BY <2>1 DEF Shape, TypeOK, Detach
    <2>5. Shape'
      <3>1. pc' \in [Procs -> Stages] /\ i' \in [Procs -> 0..MaxInherit]
        BY <2>1, <2>2, Bounds DEF Shape, TypeOK, Stages
      <3>2. \A q \in Procs : pc'[q] \in {"filling", "dropping"} => i'[q] < MaxInherit
        BY <2>1, <2>2, Bounds DEF Shape, TypeOK
      <3>3. vm' = [q \in Procs |-> vm'[q]] /\ heaps' = [q \in Procs |-> heaps'[q]]
        BY <2>1 DEF Shape
      <3>4. \A q \in Procs : heaps'[q] \subseteq heaps[q]
        BY <2>1 DEF Shape
      <3>. QED
        BY <2>1, <2>3, <2>4, <3>1, <3>2, <3>3, <3>4 DEF Shape, TypeOK
    <2>6. Pending' \subseteq Pending \cup {p}
      BY <2>1 DEF Pending, Shape, TypeOK
    <2>7. k \in Filled /\ Filled' \subseteq Filled \ {k} /\ magic'.num = magic.num
      <3>1. k \in Filled
        BY <2>1, <2>2 DEF Filled
      <3>2. /\ magic'.num = magic.num /\ magic'.recs[k].seg = NoSeg
            /\ \A j \in 0..(MaxInherit - 1) : j # k => magic'.recs[j] = magic.recs[j]
        BY <2>1, <2>2 DEF Shape, TypeOK, Recs
      <3>. QED
        BY <3>1, <3>2 DEF Filled
    <2>. QED
      BY <2>5, <2>6, <2>7, Recounted
  <1>5. CASE Drop(p)
    <2>1. /\ pc[p] = "dropping"
          /\ magic' = [magic EXCEPT !.num = @ - 1]
          /\ vm' = [vm EXCEPT ![p] = MapOver(@, BaseOf(magic.recs[i[p]]), Unmapped)]
          /\ pc' = [pc EXCEPT ![p] = "open"]
          /\ i' = [i EXCEPT ![p] = 0]
          /\ UNCHANGED <<made, unused, mixed, heaps>>
      BY <1>5 DEF Drop
    <2>2. p \in Pending /\ Pending' \subseteq Pending \ {p}
      BY <2>1 DEF Pending, Shape, TypeOK
    <2>3. magic.num - 1 \in 0..MaxInherit
      BY <2>2, CountedRecord, Bounds DEF Shape, TypeOK
    <2>4. /\ magic'.num = magic.num - 1 /\ magic'.recs = magic.recs
          /\ magic' \in [num : 0..MaxInherit, recs : [0..(MaxInherit - 1) -> Recs]]
      BY <2>1, <2>3 DEF Shape, TypeOK
    <2>5. /\ \A q \in Procs : vm'[q] = [pg \in Pages |-> vm'[q][pg]]
          /\ \A q \in Procs : \A pg \in Pages :
                vm'[q][pg] \in Segs \cup {Unmapped, Reserved, Guard, Private}
      BY <2>1 DEF Shape, TypeOK, MapOver
    <2>6. Shape'
      <3>1. pc' \in [Procs -> Stages] /\ i' \in [Procs -> 0..MaxInherit]
        BY <2>1, <2>2, Bounds DEF Shape, TypeOK, Stages
      <3>2. \A q \in Procs : pc'[q] \in {"filling", "dropping"} => i'[q] < MaxInherit
        BY <2>1, <2>2, Bounds DEF Shape, TypeOK
      <3>3. vm' = [q \in Procs |-> vm'[q]] /\ heaps' = [q \in Procs |-> heaps'[q]]
        BY <2>1 DEF Shape
      <3>. QED
        BY <2>1, <2>4, <2>5, <3>1, <3>2, <3>3 DEF Shape, TypeOK
    <2>7. Filled' \subseteq Filled
      BY <2>4 DEF Filled
    <2>. QED
      BY <2>2, <2>4, <2>6, <2>7, Recounted
  <1>. QED
    BY <1>1, <1>2, <1>3, <1>4, <1>5

LEMMA CountPrivate ==
    ASSUME CountInv, NEW p \in Procs,
           \/ \E n \in Sizes : CreatePrivate(p, n)
           \/ \E h \in heaps[p] : DestroyPrivate(p, h)
    PROVE  CountInv'
  <1>. USE DEF CountInv
  <1>1. ASSUME NEW n \in Sizes, CreatePrivate(p, n)
        PROVE  CountInv'
    <2>. DEFINE d == NewRec(p, n)
    <2>1. /\ d.base <= unused[p]
          /\ vm' = [vm EXCEPT ![p] = MapOver(MapOver(@, BaseOf(d), Guard), DataOf(d), Private)]
          /\ unused' = [unused EXCEPT ![p] = @ - d.base]
          /\ mixed' = [mixed EXCEPT ![p] = TRUE]
          /\ heaps' = [heaps EXCEPT ![p] = @ \cup {[kind |-> "private", d |-> d]}]
          /\ UNCHANGED <<magic, made, pc, i>>
      BY <1>1 DEF CreatePrivate, Fits
    <2>2. d \in Recs /\ d.base \in Nat
      BY NewRecord DEF Recs
    <2>. HIDE DEF d
    <2>3. unused' \in [Procs -> 0..DataPages]
      BY <2>1, <2>2, Bounds DEF Shape, TypeOK
    <2>4. /\ \A q \in Procs : vm'[q] = [pg \in Pages |-> vm'[q][pg]]
          /\ \A q \in Procs : \A pg \in Pages :
                vm'[q][pg] \in Segs \cup {Unmapped, Reserved, Guard, Private}
      BY <2>1 DEF Shape, TypeOK, MapOver
    <2>5. \A q \in Procs : \A g \in heaps'[q] :
             g \in [kind : Kinds, d : Recs] /\ (g.kind = "inherit" => g.d.seg # NoSeg)
      BY <2>1, <2>2 DEF Shape, TypeOK, Kinds
    <2>6. Shape'
      BY <2>1, <2>3, <2>4, <2>5 DEF Shape, TypeOK
    <2>7. Pending' \subseteq Pending /\ Filled' \subseteq Filled
      BY <2>1 DEF Pending, Filled
    <2>. QED
      BY <2>1, <2>6, <2>7, Recounted
  <1>2. ASSUME NEW h \in heaps[p], DestroyPrivate(p, h)
        PROVE  CountInv'
    <2>1. /\ vm' = [vm EXCEPT ![p] = MapOver(@, BaseOf(h.d), Unmapped)]
          /\ heaps' = [heaps EXCEPT ![p] = @ \ {h}]
          /\ UNCHANGED <<magic, made, pc, i, unused, mixed>>
      BY <1>2 DEF DestroyPrivate
    <2>2. /\ \A q \in Procs : vm'[q] = [pg \in Pages |-> vm'[q][pg]]
          /\ \A q \in Procs : \A pg \in Pages :
                vm'[q][pg] \in Segs \cup {Unmapped, Reserved, Guard, Private}
      BY <2>1 DEF Shape, TypeOK, MapOver
    <2>3. Shape'
      BY <2>1, <2>2 DEF Shape, TypeOK
    <2>4. Pending' \subseteq Pending /\ Filled' \subseteq Filled
      BY <2>1 DEF Pending, Filled
    <2>. QED
      BY <2>1, <2>3, <2>4, Recounted
  <1>. QED
    BY <1>1, <1>2

LEMMA CountStep ==
    ASSUME CountInv, [Next]_vars
    PROVE  CountInv'
  <1>1. CASE UNCHANGED vars
    <2>1. Shape' /\ Pending' = Pending /\ Filled' = Filled /\ magic' = magic
      BY <1>1 DEF vars, CountInv, Shape, TypeOK, Pending, Filled
    <2>. QED
      BY <2>1 DEF CountInv
  <1>2. CASE Next
    BY <1>2, CountStart, CountFamily, CountRecords, CountPrivate DEF Next
  <1>. QED
    BY <1>1, <1>2

LEMMA CountAlways == Spec => []CountInv
  <1>1. CountInv /\ [Next]_vars => CountInv'
    BY CountStep
  <1>. QED
    BY <1>1, CountInit, PTL DEF Spec

(* Every field is of its type, however many processes create, destroy,     *)
(* start and end at once: num_heaps stays between 0 and                    *)
(* SHALLOC_MAX_INHERIT_HEAPS, each record read exists, and no process      *)
(* counts more pages than the space has.                                   *)
THEOREM InheritTyped == Spec => []TypeOK
  <1>1. CountInv => TypeOK
    BY DEF CountInv, Shape
  <1>. QED
    BY <1>1, CountAlways, PTL

------------------------------------------------------------------------------
(* Records, in the order of their positions, and what is attached where.   *)

(* The records that say where a heap is.                                   *)
Placed == {k \in Listed : \A p \in Procs : pc[p] = "filling" => i[p] # k}

Records ==
    /\ \A k \in Placed :
          /\ magic.recs[k].start = EndBefore(k)
          /\ magic.recs[k].data <= magic.recs[k].base
          /\ magic.recs[k].start + magic.recs[k].base <= DataPages
    /\ \A j, k \in Placed : j < k =>
          magic.recs[j].start + magic.recs[j].base <= magic.recs[k].start

(* One process at a time changes the records, the last one, and none does  *)
(* while a program starts.                                                 *)
InTurns ==
    /\ \A p, q \in Pending : p = q
    /\ \A p \in Pending : i[p] = magic.num - 1 /\ magic.recs[i[p]].seg = NoSeg
    /\ (\E p \in Procs : pc[p] \in Starting) => Pending = {}

(* A segment is that of one heap, whoever has it.                          *)
Inherited(p) == {h \in heaps[p] : h.kind = "inherit"}

OneEach ==
    /\ \A k \in Filled : magic.recs[k].seg \in made
    /\ \A j, k \in Filled : magic.recs[j].seg = magic.recs[k].seg => j = k
    /\ \A p \in Procs : \A g \in Inherited(p) : g.d.seg \in made
    /\ \A p \in Procs : \A g \in Inherited(p), k \in Filled :
          g.d.seg = magic.recs[k].seg => g.d = magic.recs[k]
    /\ \A p, q \in Procs : \A g \in Inherited(p), h \in Inherited(q) :
          g.d.seg = h.d.seg => g.d = h.d

(* The heaps of a process, by where it is in its init.                     *)
Own(p) ==
    /\ pc[p] \in {"off", "exec", "failed"} => heaps[p] = {}
    /\ pc[p] \in {"attach", "count"} =>
          /\ i[p] <= magic.num
          /\ \A h \in heaps[p] : h.kind = "inherit"
    /\ pc[p] = "attach" =>
          \A h \in heaps[p] : \E k \in 0..(i[p] - 1) : h.d = magic.recs[k]
    /\ pc[p] = "count" =>
          \A h \in heaps[p] : \E k \in Listed : h.d = magic.recs[k]
    /\ pc[p] \in {"count", "filling"} => Position(p) = EndBefore(i[p])
    /\ pc[p] \in {"open", "filling", "dropping"} =>
          \A h \in heaps[p] : h.d.start + h.d.base <= Position(p)
    /\ pc[p] = "dropping" =>
          \A h \in heaps[p] : BaseOf(h.d) \cap BaseOf(magic.recs[i[p]]) = {}

InData(p) ==
    \A h \in heaps[p] : h.d.data <= h.d.base /\ h.d.start + h.d.base <= DataPages

Apart(p) == \A g, h \in heaps[p] : g # h => BaseOf(g.d) \cap BaseOf(h.d) = {}

Mapped(p) == \A g \in Inherited(p) : \A pg \in DataOf(g.d) : vm[p][pg] = g.d.seg

Mine(p) == Own(p) /\ InData(p) /\ Apart(p) /\ Mapped(p)

SharedInv == CountInv /\ Records /\ InTurns /\ OneEach /\ \A p \in Procs : Mine(p)

LEMMA SharedInit == Init => SharedInv
  <1>. SUFFICES ASSUME Init PROVE SharedInv
    OBVIOUS
  <1>1. CountInv
    BY CountInit
  <1>2. Listed = {} /\ Pending = {} /\ Filled = {} /\ Placed = {}
    BY DEF Init, Listed, Pending, Filled, Placed, NoRec
  <1>3. \A p \in Procs : heaps[p] = {} /\ pc[p] = "off"
    BY DEF Init
  <1>4. \A p \in Procs : Mine(p)
    BY <1>3 DEF Mine, Own, InData, Apart, Mapped, Inherited
  <1>5. Records /\ OneEach /\ InTurns
    BY <1>2, <1>3 DEF Records, InTurns, OneEach, Inherited
  <1>. QED
    BY <1>1, <1>4, <1>5 DEF SharedInv

(* The types the steps below rest on.                                      *)
LEMMA SharedTypes ==
    ASSUME CountInv
    PROVE  /\ magic.num \in 0..MaxInherit
           /\ \A k \in 0..(MaxInherit - 1) :
                 /\ magic.recs[k].start \in Nat /\ magic.recs[k].data \in Nat
                 /\ magic.recs[k].base \in Nat
           /\ Listed \subseteq 0..(MaxInherit - 1)
           /\ \A p \in Procs :
                 /\ i[p] \in 0..MaxInherit /\ unused[p] \in 0..DataPages
                 /\ Position(p) \in 0..DataPages
                 /\ \A h \in heaps[p] :
                       /\ h.d.start \in Nat /\ h.d.data \in Nat /\ h.d.base \in Nat
                       /\ h = [kind |-> h.kind, d |-> h.d]
  <1>. USE DEF CountInv, Shape, TypeOK
  <1>1. /\ magic.num \in 0..MaxInherit
        /\ \A k \in 0..(MaxInherit - 1) : magic.recs[k] \in Recs
    OBVIOUS
  <1>2. Listed \subseteq 0..(MaxInherit - 1)
    BY <1>1, Bounds DEF Listed
  <1>3. \A p \in Procs :
           /\ i[p] \in 0..MaxInherit /\ unused[p] \in 0..DataPages
           /\ Position(p) \in 0..DataPages
    BY Bounds DEF Position
  <1>4. \A p \in Procs : \A h \in heaps[p] : h \in [kind : Kinds, d : Recs]
    OBVIOUS
  <1>. QED
    BY <1>1, <1>2, <1>3, <1>4 DEF Recs

(* A process that a step is not about.                                     *)
LEMMA Bystander ==
    ASSUME NEW q \in Procs, Mine(q),
           pc'[q] = pc[q], i'[q] = i[q], unused'[q] = unused[q],
           heaps'[q] = heaps[q], vm'[q] = vm[q],
           magic' = magic \/ pc[q] \in {"off", "exec", "failed", "open"}
    PROVE  Mine(q)'
  <1>1. InData(q)' /\ Apart(q)' /\ Mapped(q)'
    BY DEF Mine, InData, Apart, Mapped, Inherited, BaseOf, DataOf
  <1>2. Position(q)' = Position(q)
    BY DEF Position
  <1>3. CASE magic' = magic
    <2>1. \A k : EndBefore(k)' = EndBefore(k)
      BY <1>3 DEF EndBefore
    <2>2. Listed' = Listed
      BY <1>3 DEF Listed
    <2>3. Own(q)'
      BY <1>2, <1>3, <2>1, <2>2 DEF Mine, Own, BaseOf
    <2>. QED
      BY <1>1, <2>3 DEF Mine
  <1>4. CASE pc[q] \in {"off", "exec", "failed", "open"}
    <2>1. Own(q)'
      BY <1>2, <1>4 DEF Mine, Own
    <2>. QED
      BY <1>1, <2>1 DEF Mine
  <1>. QED
    BY <1>3, <1>4

(* A step that gives no process a heap and fills no record.                *)
LEMMA NothingNew ==
    ASSUME OneEach, made' = made,
           \A p \in Procs : heaps'[p] \subseteq heaps[p],
           \A k \in Filled' : k \in Filled /\ magic'.recs[k] = magic.recs[k]
    PROVE  OneEach'
  <1>1. \A p \in Procs : Inherited(p)' \subseteq Inherited(p)
    BY DEF Inherited
  <1>. QED
    BY <1>1 DEF OneEach

(* While a program starts every listed record says where its heap is, and  *)
(* heaps that records describe are apart.                                  *)
LEMMA Settled ==
    ASSUME SharedInv, NEW p \in Procs, pc[p] \in Starting
    PROVE  /\ Pending = {} /\ Placed = Listed
           /\ \A j, k \in Listed : j # k =>
                 BaseOf(magic.recs[j]) \cap BaseOf(magic.recs[k]) = {}
           /\ \A k \in Listed :
                 magic.recs[k].start + magic.recs[k].base <= EndBefore(magic.num)
  <1>1. Pending = {} /\ Placed = Listed
    BY DEF SharedInv, InTurns, Pending, Placed
  <1>2. Listed \subseteq 0..(MaxInherit - 1) /\ magic.num \in 0..MaxInherit
    BY SharedTypes DEF SharedInv
  <1>3. ASSUME NEW j \in Listed, NEW k \in Listed, j < k
        PROVE  BaseOf(magic.recs[j]) \cap BaseOf(magic.recs[k]) = {}
    <2>1. magic.recs[j].start + magic.recs[j].base <= magic.recs[k].start
      BY <1>1, <1>3 DEF SharedInv, Records
    <2>2. /\ magic.recs[j].start \in Nat /\ magic.recs[j].base \in Nat
          /\ magic.recs[k].start \in Nat /\ magic.recs[k].base \in Nat
      BY <1>2, SharedTypes DEF SharedInv
    <2>. QED
      BY <2>1, <2>2 DEF BaseOf
  <1>4. ASSUME NEW j \in Listed, NEW k \in Listed, j # k
        PROVE  BaseOf(magic.recs[j]) \cap BaseOf(magic.recs[k]) = {}
    <2>1. j < k \/ k < j
      BY <1>2, <1>4
    <2>. QED
      BY <2>1, <1>3
  <1>5. ASSUME NEW k \in Listed
        PROVE  magic.recs[k].start + magic.recs[k].base <= EndBefore(magic.num)
    <2>. DEFINE l == magic.num - 1
    <2>1. l \in Listed /\ k <= l /\ magic.num # 0
      BY <1>2, <1>5 DEF Listed
    <2>2. EndBefore(magic.num) = magic.recs[l].start + magic.recs[l].base
      BY <2>1 DEF EndBefore
    <2>3. k < l => magic.recs[k].start + magic.recs[k].base <= magic.recs[l].start
      BY <1>1, <2>1 DEF SharedInv, Records
    <2>4. /\ magic.recs[k].start \in Nat /\ magic.recs[k].base \in Nat
          /\ magic.recs[l].start \in Nat /\ magic.recs[l].base \in Nat
          /\ k \in Int /\ l \in Int
      BY <1>2, <2>1, SharedTypes DEF SharedInv
    <2>. HIDE DEF l
    <2>. QED
      BY <2>1, <2>2, <2>3, <2>4
  <1>. QED
    BY <1>1, <1>4, <1>5

LEMMA SharedStart ==
    ASSUME SharedInv, NEW p \in Procs, Start(p)
    PROVE  SharedInv'
  <1>1. CountInv' /\ Mine(p) /\ CountInv
    BY CountStart DEF SharedInv
  <1>2. /\ magic' = magic /\ made' = made
        /\ pc[p] \in Starting
        /\ pc' = [pc EXCEPT ![p] = pc'[p]] /\ pc'[p] \in {"attach", "count", "open", "failed"}
        /\ \A q \in Procs : q # p =>
              /\ i'[q] = i[q] /\ unused'[q] = unused[q]
              /\ heaps'[q] = heaps[q] /\ vm'[q] = vm[q]
    BY <1>1 DEF Start, AttachMagic, AttachHeap, EndAttach, CountHeap, EndCount, StartFails,
                Asserts, Fails, Starting, CountInv, Shape, TypeOK
  <1>3. Pending = {} /\ Placed = Listed
    BY <1>2, Settled
  <1>4. Pending' = {} /\ InTurns'
    <2>1. Pending' = {}
      BY <1>2, <1>3 DEF Pending, SharedInv, CountInv, Shape, TypeOK
    <2>. QED
      BY <2>1 DEF InTurns
  <1>5. Records'
    <2>1. Placed' = Listed /\ Listed' = Listed
      BY <1>2, <1>4 DEF Placed, Pending, Listed
    <2>2. \A k : EndBefore(k)' = EndBefore(k)
      BY <1>2 DEF EndBefore
    <2>. QED
      BY <1>2, <1>3, <2>1, <2>2 DEF SharedInv, Records
  <1>6. \A q \in Procs : q # p => Mine(q)'
    <2>. SUFFICES ASSUME NEW q \in Procs, q # p PROVE Mine(q)'
      OBVIOUS
    <2>1. pc'[q] = pc[q]
      BY <1>2 DEF CountInv, Shape, TypeOK, SharedInv
    <2>. QED
      BY <1>2, <2>1, Bystander DEF SharedInv
  <1>7. CASE UNCHANGED <<vm, heaps>>
    <2>1. OneEach'
      <3>1. \A k \in Filled' : k \in Filled /\ magic'.recs[k] = magic.recs[k]
        BY <1>2 DEF Filled
      <3>. QED
        BY <3>1, <1>2, <1>7, NothingNew DEF SharedInv
    <2>2. InData(p)' /\ Apart(p)' /\ Mapped(p)'
      BY <1>1, <1>7 DEF Mine, InData, Apart, Mapped, Inherited, BaseOf, DataOf
    <2>3. Own(p)'
      <3>1. \A k : EndBefore(k)' = EndBefore(k)
        BY <1>2 DEF EndBefore
      <3>2. Listed' = Listed
        BY <1>2 DEF Listed
      <3>3. CASE AttachMagic(p)
        <4>1. pc[p] = "exec" /\ pc'[p] = "attach" /\ i'[p] = 0
          BY <3>3 DEF AttachMagic, SharedInv, CountInv, Shape, TypeOK
        <4>2. heaps'[p] = {}
          BY <4>1, <1>1, <1>7 DEF Mine, Own
        <4>. QED
          BY <4>1, <4>2, <1>1, <1>2, SharedTypes DEF Own
      <3>4. CASE EndAttach(p)
        <4>1. /\ pc[p] = "attach" /\ pc'[p] = "count" /\ i'[p] = 0 /\ unused'[p] = DataPages
              /\ i[p] \notin Listed
          BY <3>4 DEF EndAttach, SharedInv, CountInv, Shape, TypeOK
        <4>2. (Position(p) = EndBefore(i[p]))'
          BY <4>1, Bounds DEF Position, EndBefore
        <4>3. 0..(i[p] - 1) \subseteq Listed
          BY <4>1, <1>1, SharedTypes DEF Mine, Own, Listed
        <4>. QED
          BY <4>1, <4>2, <4>3, <3>2, <1>1, <1>2, <1>7, SharedTypes DEF Mine, Own
      <3>5. CASE CountHeap(p)
        <4>1. /\ pc[p] = "count" /\ pc'[p] = "count" /\ i'[p] = i[p] + 1 /\ i[p] \in Listed
              /\ unused'[p] = unused[p] - magic.recs[i[p]].base
          BY <3>5 DEF CountHeap, Counted, SharedInv, CountInv, Shape, TypeOK
        <4>2. magic.recs[i[p]].start = EndBefore(i[p]) /\ Position(p) = EndBefore(i[p])
          BY <4>1, <1>1, <1>3 DEF SharedInv, Records, Mine, Own
        <4>3. /\ i[p] \in 0..(MaxInherit - 1) /\ magic.recs[i[p]].base \in Nat
              /\ magic.recs[i[p]].start \in Nat
              /\ unused[p] \in Int /\ DataPages \in Int
          BY <4>1, <1>1, SharedTypes, Bounds
        <4>4. EndBefore(i[p] + 1) = magic.recs[i[p]].start + magic.recs[i[p]].base
          BY <4>3 DEF EndBefore
        <4>5. (Position(p) = EndBefore(i[p]))'
          <5>1. Position(p)' = EndBefore(i[p] + 1)
            BY <4>1, <4>2, <4>3, <4>4 DEF Position
          <5>2. EndBefore(i[p])' = EndBefore(i[p] + 1)
            BY <4>1, <1>2 DEF EndBefore
          <5>. QED
            BY <5>1, <5>2
        <4>6. i'[p] <= magic.num
          BY <4>1, <4>3, <1>1, SharedTypes DEF Listed
        <4>. QED
          BY <4>1, <4>5, <4>6, <3>2, <1>1, <1>2, <1>7 DEF Mine, Own
      <3>6. CASE EndCount(p)
        <4>1. pc[p] = "count" /\ pc'[p] = "open" /\ i[p] \notin Listed /\ UNCHANGED unused
          BY <3>6 DEF EndCount, SharedInv, CountInv, Shape, TypeOK
        <4>2. i[p] = magic.num
          BY <4>1, <1>1, SharedTypes DEF Mine, Own, Listed
        <4>3. Position(p)' = EndBefore(magic.num)
          BY <4>1, <4>2, <1>1 DEF Mine, Own, Position
        <4>4. \A h \in heaps[p] : h.d.start + h.d.base <= EndBefore(magic.num)
          BY <4>1, <1>1, <1>2, Settled DEF Mine, Own
        <4>. QED
          BY <4>1, <4>3, <4>4, <1>7 DEF Own
      <3>7. CASE StartFails(p)
        <4>1. pc'[p] = "failed" /\ heaps'[p] = {}
          BY <3>7 DEF StartFails, Fails, SharedInv, CountInv, Shape, TypeOK
        <4>. QED
          BY <4>1 DEF Own
      <3>8. CASE AttachHeap(p)
        <4>1. /\ pc[p] = "attach" /\ pc'[p] = "attach" /\ i'[p] = i[p] + 1 /\ i[p] \in Listed
          BY <3>8 DEF AttachHeap, SharedInv, CountInv, Shape, TypeOK
        <4>2. i'[p] <= magic.num /\ 0..(i[p] - 1) \subseteq 0..(i'[p] - 1)
          BY <4>1, <1>1, SharedTypes DEF Listed
        <4>. QED
          BY <4>1, <4>2, <1>1, <1>2, <1>7 DEF Mine, Own
      <3>. QED
        BY <3>3, <3>4, <3>5, <3>6, <3>7, <3>8 DEF Start
    <2>. QED
      BY <1>1, <1>4, <1>5, <1>6, <2>1, <2>2, <2>3 DEF SharedInv, Mine
  <1>8. CASE StartFails(p)
    <2>1. /\ pc'[p] = "failed" /\ heaps'[p] = {}
          /\ \A q \in Procs : heaps'[q] \subseteq heaps[q]
      BY <1>8 DEF StartFails, Fails, SharedInv, CountInv, Shape, TypeOK
    <2>2. OneEach'
      <3>1. \A k \in Filled' : k \in Filled /\ magic'.recs[k] = magic.recs[k]
        BY <1>2 DEF Filled
      <3>. QED
        BY <3>1, <2>1, <1>2, NothingNew DEF SharedInv
    <2>3. Mine(p)'
      BY <2>1 DEF Mine, Own, InData, Apart, Mapped, Inherited
    <2>. QED
      BY <1>1, <1>4, <1>5, <1>6, <2>2, <2>3 DEF SharedInv
  <1>9. CASE AttachHeap(p)
    <2>. DEFINE k == i[p]
                d == magic.recs[k]
                new == [kind |-> "inherit", d |-> d]
    <2>1. /\ pc[p] = "attach" /\ pc'[p] = "attach" /\ i'[p] = k + 1 /\ k \in Listed
          /\ d.seg # NoSeg
          /\ heaps' = [heaps EXCEPT ![p] = @ \cup {new}]
          /\ vm'[p] = MapOver(vm[p], DataOf(d), d.seg)
      <3>1. k \in Listed /\ d \in Recs
        BY <1>9, <1>1, SharedTypes DEF AttachHeap, CountInv, Shape, TypeOK
      <3>2. [d EXCEPT !.start = Place(p, d)] = d
        BY <3>1 DEF Place, Recs
      <3>. QED
        BY <1>9, <3>1, <3>2 DEF AttachHeap, SharedInv, CountInv, Shape, TypeOK
    <2>2. /\ k \in 0..(MaxInherit - 1)
          /\ d.start \in Nat /\ d.data \in Nat /\ d.base \in Nat
      BY <2>1, <1>1, SharedTypes
    <2>3. k \in Filled
      BY <2>1, <2>2 DEF Filled
    <2>4. d.data <= d.base /\ d.start + d.base <= DataPages
      BY <2>1, <1>3 DEF SharedInv, Records
    <2>5. \A g \in heaps[p] : g # new => BaseOf(g.d) \cap BaseOf(d) = {}
      <3>. SUFFICES ASSUME NEW g \in heaps[p], g # new
                    PROVE  BaseOf(g.d) \cap BaseOf(d) = {}
        OBVIOUS
      <3>1. g.kind = "inherit" /\ \E j \in 0..(k - 1) : g.d = magic.recs[j]
        BY <1>1, <2>1 DEF Mine, Own
      <3>2. PICK j \in 0..(k - 1) : g.d = magic.recs[j]
        BY <3>1
      <3>3. j \in Listed /\ j # k
        BY <2>1, <2>2, <1>1, SharedTypes DEF Listed
      <3>. QED
        BY <3>2, <3>3, <2>1, <1>2, Settled
    <2>6. heaps'[p] = heaps[p] \cup {new} /\ new.d = d /\ new.kind = "inherit"
      BY <2>1, <1>1 DEF CountInv, Shape
    <2>7. OneEach'
      <3>1. Filled' = Filled /\ magic' = magic /\ made' = made
        BY <1>2 DEF Filled
      <3>2. \A q \in Procs : \A g \in Inherited(q)' : g \in Inherited(q) \/ g.d = magic.recs[k]
        BY <2>1, <2>6, <1>2 DEF Inherited
      <3>3. \A q \in Procs : \A g \in Inherited(q)' : g.d.seg \in made
        BY <3>2, <2>3 DEF SharedInv, OneEach
      <3>4. \A j, l \in Filled : magic.recs[j].seg = magic.recs[l].seg => j = l
        BY DEF SharedInv, OneEach
      <3>. QED
        BY <3>1, <3>2, <3>3, <3>4, <2>3 DEF SharedInv, OneEach
    <2>8. InData(p)' /\ Apart(p)'
      BY <2>4, <2>5, <2>6, <1>1 DEF Mine, InData, Apart, BaseOf
    <2>9. Mapped(p)'
      <3>1. ASSUME NEW g \in Inherited(p)', NEW pg \in DataOf(g.d)
            PROVE  vm'[p][pg] = g.d.seg
        <4>1. g \in heaps'[p] /\ g.kind = "inherit"
          BY <3>1 DEF Inherited
        <4>2. CASE g = new
          <5>1. pg \in Pages /\ pg \in DataOf(d)
            BY <4>2, <2>2, <2>4, <2>6, <3>1, Bounds DEF DataOf, Pages
          <5>. QED
            BY <5>1, <4>2, <2>1, <2>6 DEF MapOver
        <4>3. CASE g # new
          <5>1. g \in heaps[p] /\ g \in Inherited(p)
            BY <4>1, <4>3, <2>6 DEF Inherited
          <5>2. /\ g.d.start \in Nat /\ g.d.data \in Nat /\ g.d.base \in Nat
                /\ g.d.data <= g.d.base /\ g.d.start + g.d.base <= DataPages
            BY <5>1, <1>1, SharedTypes DEF Mine, InData
          <5>3. pg \in Pages /\ pg \in BaseOf(g.d)
            BY <5>2, <3>1, Bounds DEF DataOf, BaseOf, Pages
          <5>4. DataOf(d) \subseteq BaseOf(d)
            BY <2>2, <2>4 DEF DataOf, BaseOf
          <5>5. pg \notin DataOf(d)
            BY <5>1, <5>3, <5>4, <4>3, <2>5
          <5>6. vm[p][pg] = g.d.seg
            BY <5>1, <3>1, <1>1 DEF Mine, Mapped, DataOf
          <5>. QED
            BY <5>3, <5>5, <5>6, <2>1 DEF MapOver
        <4>. QED
          BY <4>2, <4>3
      <3>. QED
        BY <3>1 DEF Mapped, DataOf
    <2>10. Own(p)'
      <3>1. i'[p] <= magic.num /\ k \in 0..(i'[p] - 1) /\ 0..(k - 1) \subseteq 0..(i'[p] - 1)
        BY <2>1, <2>2, <1>1, SharedTypes DEF Listed
      <3>. QED
        BY <2>1, <2>6, <3>1, <1>1, <1>2 DEF Mine, Own
    <2>. QED
      BY <1>1, <1>4, <1>5, <1>6, <2>7, <2>8, <2>9, <2>10 DEF SharedInv, Mine
  <1>10. UNCHANGED <<vm, heaps>> \/ StartFails(p) \/ AttachHeap(p)
    BY DEF Start, AttachMagic, EndAttach, CountHeap, EndCount
  <1>. QED
    BY <1>7, <1>8, <1>9, <1>10

(* Steps that do not touch the records, unless to begin anew.              *)
LEMMA SharedFamily ==
    ASSUME QuietStart, SharedInv, NEW p \in Procs,
           Begin(p) \/ (\E q \in Procs : Exec(p, q)) \/ Close(p)
    PROVE  SharedInv'
  <1>1. CountInv' /\ CountInv
    BY CountFamily DEF SharedInv
  <1>2. CASE Begin(p)
    <2>1. /\ magic'.num = 0 /\ \A k \in 0..(MaxInherit - 1) : magic'.recs[k].seg = NoSeg
          /\ \A q \in Procs : pc[q] \in {"off", "failed"}
          /\ pc' = [pc EXCEPT ![p] = "open"] /\ heaps' = heaps
      BY <1>2 DEF Begin, NoRec
    <2>2. \A q \in Procs : pc'[q] \in {"off", "failed", "open"} /\ heaps'[q] = {}
      BY <2>1, <1>1 DEF SharedInv, Mine, Own, CountInv, Shape, TypeOK
    <2>3. \A q \in Procs : Mine(q)'
      BY <2>2 DEF Mine, Own, InData, Apart, Mapped, Inherited
    <2>4. Placed' = {} /\ Filled' = {} /\ Pending' = {}
      BY <2>1, <2>2 DEF Placed, Listed, Filled, Pending
    <2>5. Records' /\ InTurns' /\ OneEach'
      BY <2>2, <2>4 DEF Records, InTurns, OneEach, Inherited
    <2>. QED
      BY <1>1, <2>3, <2>5 DEF SharedInv
  <1>3. ASSUME NEW q \in Procs, Exec(p, q)
        PROVE  SharedInv'
    <2>1. /\ pc[q] = "off" /\ pc' = [pc EXCEPT ![q] = "exec"]
          /\ \A r \in Procs : pc[r] \notin {"filling", "dropping"}
          /\ vm' = [vm EXCEPT ![q] = Fresh]
          /\ UNCHANGED <<magic, made, i, unused, mixed, heaps>>
      BY <1>3 DEF Exec
    <2>2. Pending = {} /\ Pending' = {} /\ Filled' = Filled
      BY <2>1, <1>1 DEF Pending, Filled, CountInv, Shape, TypeOK
    <2>3. Placed' = Placed /\ \A k : EndBefore(k)' = EndBefore(k)
      BY <2>1, <2>2 DEF Placed, Pending, Listed, EndBefore
    <2>4. Records' /\ InTurns'
      BY <2>1, <2>2, <2>3 DEF SharedInv, Records, InTurns
    <2>5. OneEach'
      BY <2>1, <2>2, NothingNew DEF SharedInv
    <2>6. Mine(q)'
      <3>1. pc'[q] = "exec" /\ heaps'[q] = {}
        BY <2>1, <1>1 DEF SharedInv, Mine, Own, CountInv, Shape, TypeOK
      <3>. QED
        BY <3>1 DEF Mine, Own, InData, Apart, Mapped, Inherited
    <2>7. ASSUME NEW r \in Procs, r # q
          PROVE  Mine(r)'
      <3>1. pc'[r] = pc[r] /\ vm'[r] = vm[r]
        BY <2>1, <2>7, <1>1 DEF CountInv, Shape, TypeOK
      <3>. QED
        BY <3>1, <2>1, Bystander DEF SharedInv
    <2>. QED
      BY <1>1, <2>4, <2>5, <2>6, <2>7 DEF SharedInv
  <1>4. CASE Close(p)
    <2>1. /\ pc[p] = "open" /\ pc' = [pc EXCEPT ![p] = "off"]
          /\ vm' = [vm EXCEPT ![p] = Gone]
          /\ heaps' = [heaps EXCEPT ![p] = {}]
          /\ unused' = [unused EXCEPT ![p] = DataPages]
          /\ UNCHANGED <<magic, made, i>>
      BY <1>4 DEF Close
    <2>2. /\ pc'[p] = "off" /\ heaps'[p] = {}
          /\ \A q \in Procs : heaps'[q] \subseteq heaps[q]
      BY <2>1, <1>1 DEF CountInv, Shape, TypeOK
    <2>3. /\ \A q \in Procs : q # p =>
                /\ pc'[q] = pc[q] /\ unused'[q] = unused[q]
                /\ heaps'[q] = heaps[q] /\ vm'[q] = vm[q]
      BY <2>1, <1>1 DEF CountInv, Shape, TypeOK
    <2>4. Pending' = Pending /\ Filled' = Filled
      BY <2>1, <2>2, <2>3 DEF Pending, Filled
    <2>5. Placed' = Placed /\ \A k : EndBefore(k)' = EndBefore(k)
      BY <2>1, <2>2, <2>3 DEF Placed, Listed, EndBefore
    <2>6. Records'
      BY <2>1, <2>5 DEF SharedInv, Records
    <2>7. InTurns'
      <3>1. (\E q \in Procs : pc'[q] \in Starting) => \E q \in Procs : pc[q] \in Starting
        BY <2>1, <2>2, <2>3 DEF Starting
      <3>. QED
        BY <2>1, <2>4, <3>1 DEF SharedInv, InTurns
    <2>8. OneEach'
      BY <2>1, <2>2, <2>4, NothingNew DEF SharedInv
    <2>9. Mine(p)'
      BY <2>2 DEF Mine, Own, InData, Apart, Mapped, Inherited
    <2>10. ASSUME NEW q \in Procs, q # p
           PROVE  Mine(q)'
      BY <2>1, <2>3, <2>10, Bystander DEF SharedInv
    <2>. QED
      BY <1>1, <2>6, <2>7, <2>8, <2>9, <2>10 DEF SharedInv
  <1>. QED
    BY <1>2, <1>3, <1>4

(* A page of a heap is one of the space, and mapped.                       *)
LEMMA PageOfHeap ==
    ASSUME CountInv, NEW p \in Procs, Mine(p), NEW g \in Inherited(p),
           NEW pg \in DataOf(g.d)
    PROVE  pg \in Pages /\ pg \in BaseOf(g.d) /\ vm[p][pg] = g.d.seg
  <1>1. g \in heaps[p]
    BY DEF Inherited
  <1>2. /\ g.d.start \in Nat /\ g.d.data \in Nat /\ g.d.base \in Nat
        /\ g.d.data <= g.d.base /\ g.d.start + g.d.base <= DataPages
    BY <1>1, SharedTypes DEF Mine, InData
  <1>3. pg \in Pages /\ pg \in BaseOf(g.d)
    BY <1>2, Bounds DEF DataOf, BaseOf, Pages
  <1>. QED
    BY <1>3 DEF Mine, Mapped

(* A heap placed where the heaps of a process end.                         *)
LEMMA PlacedAtEnd ==
    ASSUME CountInv, NEW p \in Procs, Mine(p), pc[p] \in {"open", "filling"},
           NEW d, d.start = Position(p), d.base \in Nat, d.data \in Nat, d.data <= d.base,
           d.base <= unused[p],
           NEW kind, heaps'[p] = heaps[p] \cup {[kind |-> kind, d |-> d]},
           unused'[p] = unused[p] - d.base
    PROVE  /\ \A g \in heaps[p] : BaseOf(g.d) \cap BaseOf(d) = {}
           /\ DataOf(d) \subseteq BaseOf(d) /\ BaseOf(d) \subseteq Pages
           /\ InData(p)' /\ Apart(p)'
           /\ (\A h \in heaps[p] : h.d.start + h.d.base <= Position(p))'
  <1>1. /\ Position(p) \in Nat /\ Position(p) = DataPages - unused[p]
        /\ unused[p] \in Nat /\ DataPages \in Nat
    BY SharedTypes, Bounds DEF Position
  <1>2. ASSUME NEW g \in heaps[p]
        PROVE  /\ BaseOf(g.d) \cap BaseOf(d) = {}
               /\ g.d.start + g.d.base <= Position(p)'
    <2>1. g.d.start + g.d.base <= Position(p) /\ g.d.start \in Nat /\ g.d.base \in Nat
      BY SharedTypes DEF Mine, Own
    <2>. QED
      BY <1>1, <2>1 DEF BaseOf, Position
  <1>3. DataOf(d) \subseteq BaseOf(d) /\ BaseOf(d) \subseteq Pages
    BY <1>1 DEF DataOf, BaseOf, Pages
  <1>4. d.start + d.base <= DataPages /\ d.start + d.base <= Position(p)'
    BY <1>1 DEF Position
  <1>5. InData(p)'
    BY <1>4 DEF Mine, InData
  <1>6. Apart(p)'
    BY <1>2 DEF Mine, Apart, BaseOf
  <1>7. (\A h \in heaps[p] : h.d.start + h.d.base <= Position(p))'
    BY <1>2, <1>4
  <1>. QED
    BY <1>2, <1>3, <1>5, <1>6, <1>7

LEMMA SharedPrivate ==
    ASSUME SharedInv, NEW p \in Procs,
           \/ \E n \in Sizes : CreatePrivate(p, n)
           \/ \E h \in heaps[p] : DestroyPrivate(p, h)
    PROVE  SharedInv'
  <1>1. CountInv' /\ CountInv /\ Mine(p)
    BY CountPrivate DEF SharedInv
  <1>2. /\ UNCHANGED <<magic, made, pc, i>> /\ pc[p] = "open"
        /\ \A q \in Procs : q # p =>
              unused'[q] = unused[q] /\ heaps'[q] = heaps[q] /\ vm'[q] = vm[q]
    BY <1>1 DEF CreatePrivate, DestroyPrivate, CountInv, Shape, TypeOK
  <1>3. Records' /\ InTurns' /\ Filled' = Filled
    <2>1. Placed' = Placed /\ Listed' = Listed /\ Pending' = Pending /\ Filled' = Filled
      BY <1>2 DEF Placed, Listed, Pending, Filled
    <2>2. \A k : EndBefore(k)' = EndBefore(k)
      BY <1>2 DEF EndBefore
    <2>. QED
      BY <1>2, <2>1, <2>2 DEF SharedInv, Records, InTurns
  <1>4. ASSUME NEW q \in Procs, q # p
        PROVE  Mine(q)'
    BY <1>2, <1>4, Bystander DEF SharedInv
  <1>5. ASSUME NEW n \in Sizes, CreatePrivate(p, n)
        PROVE  OneEach' /\ Mine(p)'
    <2>. DEFINE d == NewRec(p, n)
                new == [kind |-> "private", d |-> d]
    <2>1. /\ d.base <= unused[p]
          /\ vm'[p] = MapOver(MapOver(vm[p], BaseOf(d), Guard), DataOf(d), Private)
          /\ unused'[p] = unused[p] - d.base
          /\ heaps'[p] = heaps[p] \cup {new}
      BY <1>1, <1>5 DEF CreatePrivate, Fits, CountInv, Shape, TypeOK
    <2>2. /\ d.start = Position(p) /\ d.base \in Nat /\ d.data \in Nat /\ d.data <= d.base
      BY <1>1, NewRecord, Bounds DEF CountInv
    <2>. HIDE DEF d
    <2>3. /\ \A g \in heaps[p] : BaseOf(g.d) \cap BaseOf(d) = {}
          /\ DataOf(d) \subseteq BaseOf(d)
          /\ InData(p)' /\ Apart(p)'
          /\ (\A h \in heaps[p] : h.d.start + h.d.base <= Position(p))'
      BY <1>1, <1>2, <2>1, <2>2, PlacedAtEnd
    <2>4. \A q \in Procs : Inherited(q)' = Inherited(q)
      BY <1>2, <2>1 DEF Inherited
    <2>5. OneEach'
      BY <1>2, <1>3, <2>4 DEF SharedInv, OneEach
    <2>6. Mapped(p)'
      <3>1. ASSUME NEW g \in Inherited(p)', NEW pg \in DataOf(g.d)
            PROVE  vm'[p][pg] = g.d.seg
        <4>1. g \in Inherited(p) /\ g \in heaps[p] /\ pg \in DataOf(g.d)
          BY <2>4, <3>1 DEF Inherited
        <4>2. BaseOf(g.d) \cap BaseOf(d) = {}
          BY <4>1, <2>3
        <4>3. pg \in Pages /\ pg \in BaseOf(g.d) /\ vm[p][pg] = g.d.seg
          BY <4>1, <1>1, PageOfHeap
        <4>. QED
          BY <4>2, <4>3, <2>1, <2>3 DEF MapOver
      <3>. QED
        BY <3>1 DEF Mapped, DataOf
    <2>7. Own(p)'
      BY <1>2, <2>3 DEF Own
    <2>. QED
      BY <2>3, <2>5, <2>6, <2>7 DEF Mine
  <1>6. ASSUME NEW h \in heaps[p], DestroyPrivate(p, h)
        PROVE  OneEach' /\ Mine(p)'
    <2>1. /\ h.kind = "private"
          /\ vm'[p] = MapOver(vm[p], BaseOf(h.d), Unmapped)
          /\ heaps'[p] = heaps[p] \ {h}
          /\ unused' = unused
      BY <1>1, <1>6 DEF DestroyPrivate, CountInv, Shape, TypeOK
    <2>2. OneEach'
      <3>1. \A q \in Procs : heaps'[q] \subseteq heaps[q]
        BY <1>2, <2>1
      <3>. QED
        BY <1>2, <1>3, <3>1, NothingNew DEF SharedInv
    <2>3. Own(p)' /\ InData(p)' /\ Apart(p)'
      BY <1>1, <1>2, <2>1 DEF Mine, Own, InData, Apart, Position, BaseOf
    <2>4. Mapped(p)'
      <3>1. ASSUME NEW g \in Inherited(p)', NEW pg \in DataOf(g.d)
            PROVE  vm'[p][pg] = g.d.seg
        <4>1. g \in Inherited(p) /\ g \in heaps[p] /\ g # h /\ pg \in DataOf(g.d)
          BY <2>1, <3>1 DEF Inherited
        <4>2. BaseOf(g.d) \cap BaseOf(h.d) = {}
          BY <4>1, <1>1 DEF Mine, Apart
        <4>3. pg \in Pages /\ pg \in BaseOf(g.d) /\ vm[p][pg] = g.d.seg
          BY <4>1, <1>1, PageOfHeap
        <4>. QED
          BY <4>2, <4>3, <2>1 DEF MapOver
      <3>. QED
        BY <3>1 DEF Mapped, DataOf
    <2>. QED
      BY <2>2, <2>3, <2>4 DEF Mine
  <1>. QED
    BY <1>1, <1>3, <1>4, <1>5, <1>6 DEF SharedInv

LEMMA SharedClaim ==
    ASSUME QuietStart, InStep, SharedInv, NEW p \in Procs, Claim(p)
    PROVE  SharedInv'
  <1>. DEFINE n == magic.num
  <1>1. CountInv' /\ CountInv /\ Mine(p)
    BY CountRecords DEF SharedInv
  <1>2. /\ pc[p] = "open" /\ pc' = [pc EXCEPT ![p] = "filling"]
        /\ \A q \in Procs : pc[q] \notin Starting
        /\ \A q \in Procs : pc[q] \notin {"filling", "dropping"}
        /\ n \in 0..(MaxInherit - 1)
        /\ Position(p) = EndBefore(n)
        /\ i' = [i EXCEPT ![p] = n]
        /\ magic' = [num |-> n + 1, recs |-> [magic.recs EXCEPT ![n].seg = NoSeg]]
        /\ UNCHANGED <<made, unused, mixed, vm, heaps>>
    BY DEF Claim, Quiet, RecordLeft
  <1>3. /\ \A k \in 0..(MaxInherit - 1) :
              /\ magic'.recs[k].start = magic.recs[k].start
              /\ magic'.recs[k].data = magic.recs[k].data
              /\ magic'.recs[k].base = magic.recs[k].base
              /\ k # n => magic'.recs[k] = magic.recs[k]
        /\ magic'.recs[n].seg = NoSeg /\ magic'.num = n + 1
    <2>1. /\ magic'.num = n + 1 /\ magic.recs \in [0..(MaxInherit - 1) -> Recs]
          /\ magic'.recs = [magic.recs EXCEPT ![n].seg = NoSeg]
      BY <1>1, <1>2 DEF CountInv, Shape, TypeOK
    <2>2. /\ magic'.recs[n] = [magic.recs[n] EXCEPT !.seg = NoSeg]
          /\ \A k \in 0..(MaxInherit - 1) : k # n => magic'.recs[k] = magic.recs[k]
          /\ magic.recs[n] \in Recs
      BY <2>1, <1>2
    <2>3. /\ magic'.recs[n].seg = NoSeg
          /\ magic'.recs[n].start = magic.recs[n].start
          /\ magic'.recs[n].data = magic.recs[n].data
          /\ magic'.recs[n].base = magic.recs[n].base
      BY <2>2 DEF Recs
    <2>. QED
      BY <2>1, <2>2, <2>3
  <1>4. /\ pc'[p] = "filling" /\ i'[p] = n
        /\ \A q \in Procs : q # p => pc'[q] = pc[q] /\ i'[q] = i[q]
    BY <1>1, <1>2 DEF CountInv, Shape, TypeOK
  <1>5. Pending = {} /\ Pending' = {p}
    BY <1>2, <1>4 DEF Pending
  <1>6. InTurns'
    <2>1. \A q \in Procs : pc'[q] \notin Starting
      BY <1>2, <1>4 DEF Starting
    <2>2. i'[p] = magic'.num - 1 /\ magic'.recs[i'[p]].seg = NoSeg
      BY <1>2, <1>3, <1>4, Bounds
    <2>. QED
      BY <1>5, <2>1, <2>2 DEF InTurns
  <1>7. \A k \in 0..n : EndBefore(k)' = EndBefore(k)
    <2>. SUFFICES ASSUME NEW k \in 0..n PROVE EndBefore(k)' = EndBefore(k)
      OBVIOUS
    <2>1. k = 0 \/ k - 1 \in 0..(MaxInherit - 1)
      BY <1>2, Bounds
    <2>. QED
      BY <2>1, <1>3 DEF EndBefore
  <1>8. Placed' = Listed /\ Placed = Listed
    BY <1>2, <1>3, <1>4, Bounds DEF Placed, Listed
  <1>9. Records'
    <2>1. \A k \in Listed : k \in 0..n /\ k \in 0..(MaxInherit - 1)
      BY <1>2, Bounds DEF Listed
    <2>. QED
      BY <1>3, <1>7, <1>8, <2>1 DEF SharedInv, Records
  <1>10. OneEach'
    <2>1. \A k \in Filled' : k \in Filled /\ magic'.recs[k] = magic.recs[k]
      BY <1>3 DEF Filled
    <2>. QED
      BY <1>2, <2>1, NothingNew DEF SharedInv
  <1>11. ASSUME NEW q \in Procs, q # p
         PROVE  Mine(q)'
    <2>1. pc[q] \in {"off", "exec", "failed", "open"}
      BY <1>1, <1>2 DEF CountInv, Shape, TypeOK, Stages, Starting
    <2>. QED
      BY <2>1, <1>2, <1>4, <1>11, Bystander DEF SharedInv
  <1>12. Mine(p)'
    <2>1. InData(p)' /\ Apart(p)' /\ Mapped(p)'
      BY <1>1, <1>2 DEF Mine, InData, Apart, Mapped, Inherited, BaseOf, DataOf
    <2>2. Position(p)' = Position(p) /\ heaps'[p] = heaps[p]
      BY <1>2 DEF Position
    <2>3. (Position(p) = EndBefore(i[p]))'
      <3>1. EndBefore(i[p])' = EndBefore(n)
        BY <1>2, <1>3, <1>4, Bounds DEF EndBefore
      <3>. QED
        BY <3>1, <1>2, <2>2
    <2>4. Own(p)'
      BY <1>1, <1>2, <1>4, <2>2, <2>3 DEF Mine, Own
    <2>. QED
      BY <2>1, <2>4 DEF Mine
  <1>. QED
    BY <1>1, <1>6, <1>9, <1>10, <1>11, <1>12 DEF SharedInv

(* While a process is about to fill or to uncount a record, the others do  *)
(* not look at the records.                                                *)
LEMMA OthersAway ==
    ASSUME SharedInv, NEW p \in Pending
    PROVE  /\ \A q \in Procs : q # p => pc[q] \in {"off", "failed", "open"}
           /\ i[p] = magic.num - 1 /\ magic.recs[i[p]].seg = NoSeg
           /\ i[p] \in 0..(MaxInherit - 1)
  <1>1. \A q \in Procs : q # p => q \notin Pending
    BY DEF SharedInv, InTurns
  <1>2. \A q \in Procs : pc[q] \notin Starting /\ pc[q] \in Stages
    BY DEF SharedInv, InTurns, CountInv, Shape, TypeOK
  <1>3. i[p] = magic.num - 1 /\ magic.recs[i[p]].seg = NoSeg
    BY DEF SharedInv, InTurns
  <1>4. i[p] \in 0..(MaxInherit - 1)
    BY Bounds DEF SharedInv, CountInv, Shape, TypeOK, Pending
  <1>. QED
    BY <1>1, <1>2, <1>3, <1>4 DEF Stages, Starting, Pending

LEMMA SharedFill ==
    ASSUME SharedInv, NEW p \in Procs, NEW n \in Sizes, Fill(p, n)
    PROVE  SharedInv'
  <1>. DEFINE k == i[p]
              seg == Min(Segs \ made)
              d == [NewRec(p, n) EXCEPT !.seg = seg]
              new == [kind |-> "inherit", d |-> d]
  <1>1. CountInv' /\ CountInv /\ Mine(p)
    BY CountRecords DEF SharedInv
  <1>2. /\ pc[p] = "filling" /\ made # Segs /\ d.base <= unused[p]
        /\ magic' = [magic EXCEPT !.recs[k] = d]
        /\ made' = made \cup {seg}
        /\ vm' = [vm EXCEPT ![p] = MapOver(MapOver(@, BaseOf(d), Guard), DataOf(d), seg)]
        /\ unused' = [unused EXCEPT ![p] = @ - d.base]
        /\ heaps' = [heaps EXCEPT ![p] = @ \cup {[kind |-> "inherit", d |-> [d EXCEPT !.seg = seg]]}]
        /\ pc' = [pc EXCEPT ![p] = "open"]
        /\ i' = [i EXCEPT ![p] = 0]
    BY DEF Fill, Fits, InheritId
  <1>3. seg \in Segs \ made
    BY <1>1, <1>2, NewSegment DEF CountInv
  <1>4. /\ d.seg = seg /\ d.start = Position(p) /\ d.base \in Nat /\ d.data \in Nat
        /\ d.data <= d.base
        /\ [d EXCEPT !.seg = seg] = d
    <2>1. /\ NewRec(p, n) \in Recs /\ NewRec(p, n).start = Position(p)
          /\ NewRec(p, n).data = n /\ NewRec(p, n).base = n + GuardPages
          /\ n \in Nat /\ GuardPages \in Nat
      BY <1>1, NewRecord, Bounds DEF CountInv
    <2>2. /\ d.seg = seg /\ d.start = NewRec(p, n).start /\ d.base = NewRec(p, n).base
          /\ d.data = NewRec(p, n).data /\ [d EXCEPT !.seg = seg] = d
      BY <2>1 DEF Recs
    <2>. QED
      BY <2>1, <2>2
  <1>. HIDE DEF d, seg
  <1>5. p \in Pending
    BY <1>2 DEF Pending
  <1>6. /\ k = magic.num - 1 /\ k \in 0..(MaxInherit - 1)
        /\ \A q \in Procs : q # p => pc[q] \in {"off", "failed", "open"}
    BY <1>5, OthersAway
  <1>7. /\ pc'[p] = "open"
        /\ unused'[p] = unused[p] - d.base
        /\ heaps'[p] = heaps[p] \cup {new}
        /\ vm'[p] = MapOver(MapOver(vm[p], BaseOf(d), Guard), DataOf(d), seg)
        /\ \A q \in Procs : q # p =>
              /\ pc'[q] = pc[q] /\ i'[q] = i[q] /\ unused'[q] = unused[q]
              /\ heaps'[q] = heaps[q] /\ vm'[q] = vm[q]
    BY <1>1, <1>2, <1>4 DEF CountInv, Shape, TypeOK
  <1>8. /\ magic'.num = magic.num /\ magic'.recs[k] = d
        /\ \A j \in 0..(MaxInherit - 1) : j # k => magic'.recs[j] = magic.recs[j]
    BY <1>1, <1>2, <1>6 DEF CountInv, Shape, TypeOK
  <1>. HIDE DEF k
  <1>9. InTurns'
    <2>1. \A q \in Procs : pc'[q] \in {"off", "failed", "open"}
      BY <1>6, <1>7
    <2>2. Pending' = {}
      BY <2>1 DEF Pending
    <2>. QED
      BY <2>2 DEF InTurns
  <1>10. /\ Placed' = Listed /\ Listed' = Listed /\ Placed = Listed \ {k}
    <2>1. \A q \in Procs : pc'[q] # "filling" /\ (pc[q] = "filling" => q = p)
      BY <1>6, <1>7
    <2>. QED
      BY <2>1, <1>2, <1>8 DEF Placed, Listed, k
  <1>11. \A j \in Listed : EndBefore(j)' = EndBefore(j)
    <2>. SUFFICES ASSUME NEW j \in Listed PROVE EndBefore(j)' = EndBefore(j)
      OBVIOUS
    <2>1. j = 0 \/ (j - 1 \in 0..(MaxInherit - 1) /\ j - 1 # k)
      BY <1>1, <1>6, SharedTypes DEF Listed
    <2>. QED
      BY <2>1, <1>8 DEF EndBefore
  <1>12. d.start = EndBefore(k)
    BY <1>1, <1>2, <1>4 DEF Mine, Own, k
  <1>13. d.start + d.base <= DataPages
    BY <1>1, <1>2, <1>4, SharedTypes, Bounds DEF Position
  <1>14. Records'
    <2>1. \A j \in Listed : j # k =>
             j \in 0..(MaxInherit - 1) /\ j \in Placed /\ magic'.recs[j] = magic.recs[j]
      BY <1>1, <1>8, <1>10, SharedTypes
    <2>2. ASSUME NEW j \in Listed, j < k
          PROVE  magic.recs[j].start + magic.recs[j].base <= d.start
      <3>. DEFINE l == k - 1
      <3>1. k # 0 /\ l \in Listed /\ l # k /\ j # k /\ j <= l /\ l \in Int /\ j \in Int
        BY <1>6, <2>2, <1>1, SharedTypes DEF Listed
      <3>2. d.start = magic.recs[l].start + magic.recs[l].base
        BY <3>1, <1>12 DEF EndBefore
      <3>3. /\ magic.recs[l].start \in Nat /\ magic.recs[l].base \in Nat
            /\ magic.recs[j].start \in Nat /\ magic.recs[j].base \in Nat
        BY <3>1, <1>1, <2>1, SharedTypes
      <3>. HIDE DEF l
      <3>4. j < l => magic.recs[j].start + magic.recs[j].base <= magic.recs[l].start
        BY <3>1, <2>1 DEF SharedInv, Records
      <3>5. CASE j < l
        <4>1. magic.recs[j].start + magic.recs[j].base <= magic.recs[l].start
          BY <3>4, <3>5
        <4>. QED
          BY <4>1, <3>2, <3>3
      <3>6. CASE j = l
        BY <3>2, <3>3, <3>6
      <3>. QED
        BY <3>1, <3>5, <3>6
    <2>3. \A j \in Listed : j <= k
      BY <1>1, <1>6, SharedTypes DEF Listed
    <2>4. \A j \in Listed :
             /\ magic'.recs[j].start = EndBefore(j)'
             /\ magic'.recs[j].data <= magic'.recs[j].base
             /\ magic'.recs[j].start + magic'.recs[j].base <= DataPages
      BY <2>1, <1>4, <1>8, <1>11, <1>12, <1>13 DEF SharedInv, Records
    <2>5. \A j, l \in Listed : j < l =>
             magic'.recs[j].start + magic'.recs[j].base <= magic'.recs[l].start
      <3>. SUFFICES ASSUME NEW j \in Listed, NEW l \in Listed, j < l
                    PROVE  magic'.recs[j].start + magic'.recs[j].base <= magic'.recs[l].start
        OBVIOUS
      <3>1. j # k /\ j \in Int /\ l \in Int
        BY <2>3, <1>6, <1>1, SharedTypes DEF Listed
      <3>2. CASE l = k
        BY <3>1, <3>2, <2>1, <2>2, <1>8
      <3>3. CASE l # k
        BY <3>1, <3>3, <2>1 DEF SharedInv, Records
      <3>. QED
        BY <3>2, <3>3
    <2>. QED
      BY <2>4, <2>5, <1>10 DEF Records
  <1>15. OneEach'
    <2>1. \A j \in Filled' : j = k \/ (j \in Filled /\ magic'.recs[j] = magic.recs[j])
      BY <1>8 DEF Filled
    <2>2. \A q \in Procs : \A g \in Inherited(q)' : g \in Inherited(q) \/ g.d = d
      BY <1>7 DEF Inherited
    <2>3. /\ \A j \in Filled : magic.recs[j].seg # seg
          /\ \A q \in Procs : \A g \in Inherited(q) : g.d.seg # seg
      BY <1>3 DEF SharedInv, OneEach
    <2>4. /\ \A j \in Filled' : magic'.recs[j].seg \in made'
          /\ \A q \in Procs : \A g \in Inherited(q)' : g.d.seg \in made'
      BY <2>1, <2>2, <1>2, <1>4, <1>8 DEF SharedInv, OneEach
    <2>5. \A j, l \in Filled' : magic'.recs[j].seg = magic'.recs[l].seg => j = l
      BY <2>1, <2>3, <1>4, <1>8 DEF SharedInv, OneEach
    <2>6. \A q \in Procs : \A g \in Inherited(q)', j \in Filled' :
             g.d.seg = magic'.recs[j].seg => g.d = magic'.recs[j]
      BY <2>1, <2>2, <2>3, <1>4, <1>8 DEF SharedInv, OneEach
    <2>7. \A q, r \in Procs : \A g \in Inherited(q)', h \in Inherited(r)' :
             g.d.seg = h.d.seg => g.d = h.d
      BY <2>2, <2>3, <1>4 DEF SharedInv, OneEach
    <2>. QED
      BY <2>4, <2>5, <2>6, <2>7 DEF OneEach
  <1>16. ASSUME NEW q \in Procs, q # p
         PROVE  Mine(q)'
    BY <1>6, <1>7, <1>16, Bystander DEF SharedInv
  <1>17. Mine(p)'
    <2>1. /\ \A g \in heaps[p] : BaseOf(g.d) \cap BaseOf(d) = {}
          /\ DataOf(d) \subseteq BaseOf(d) /\ BaseOf(d) \subseteq Pages
          /\ InData(p)' /\ Apart(p)'
          /\ (\A h \in heaps[p] : h.d.start + h.d.base <= Position(p))'
      BY <1>1, <1>2, <1>4, <1>7, PlacedAtEnd, ZenonT(60)
    <2>2. Mapped(p)'
      <3>1. ASSUME NEW g \in Inherited(p)', NEW pg \in DataOf(g.d)
            PROVE  vm'[p][pg] = g.d.seg
        <4>1. g \in heaps[p] \cup {new} /\ g.kind = "inherit" /\ pg \in DataOf(g.d)
          BY <1>7, <3>1 DEF Inherited
        <4>2. CASE g = new
          <5>1. pg \in DataOf(d) /\ pg \in Pages /\ g.d.seg = seg
            BY <4>1, <4>2, <2>1, <1>4
          <5>. QED
            BY <5>1, <1>7 DEF MapOver
        <4>3. CASE g # new
          <5>1. g \in Inherited(p) /\ BaseOf(g.d) \cap BaseOf(d) = {}
            BY <4>1, <4>3, <2>1 DEF Inherited
          <5>2. pg \in Pages /\ pg \in BaseOf(g.d) /\ vm[p][pg] = g.d.seg
            BY <4>1, <5>1, <1>1, PageOfHeap
          <5>. QED
            BY <5>1, <5>2, <2>1, <1>7 DEF MapOver
        <4>. QED
          BY <4>2, <4>3
      <3>. QED
        BY <3>1 DEF Mapped, DataOf
    <2>3. Own(p)'
      BY <1>7, <2>1 DEF Own
    <2>. QED
      BY <2>1, <2>2, <2>3 DEF Mine
  <1>. QED
    BY <1>1, <1>9, <1>14, <1>15, <1>16, <1>17 DEF SharedInv

(* The record that was claimed is given up, or the last one uncounted.     *)
LEMMA SharedFillNull ==
    ASSUME SharedInv, NEW p \in Procs, NEW n \in Sizes, FillNull(p, n)
    PROVE  SharedInv'
  <1>. DEFINE k == i[p]
              d == NewRec(p, n)
  <1>1. CountInv' /\ CountInv /\ Mine(p)
    BY CountRecords DEF SharedInv
  <1>2. /\ pc[p] = "filling"
        /\ magic' = [num |-> magic.num - 1, recs |-> [magic.recs EXCEPT ![k] = d]]
        /\ pc' = [pc EXCEPT ![p] = "open"]
        /\ i' = [i EXCEPT ![p] = 0]
        /\ UNCHANGED <<made, unused, mixed, vm, heaps>>
    BY DEF FillNull
  <1>3. p \in Pending
    BY <1>2 DEF Pending
  <1>4. /\ k = magic.num - 1 /\ k \in 0..(MaxInherit - 1)
        /\ \A q \in Procs : q # p => pc[q] \in {"off", "failed", "open"}
    BY <1>3, OthersAway
  <1>5. d.seg = NoSeg
    BY <1>1, NewRecord DEF CountInv
  <1>. HIDE DEF d
  <1>6. /\ magic'.num = magic.num - 1 /\ magic'.recs[k].seg = NoSeg
        /\ \A j \in 0..(MaxInherit - 1) : j # k => magic'.recs[j] = magic.recs[j]
    BY <1>1, <1>2, <1>4, <1>5 DEF CountInv, Shape, TypeOK
  <1>7. /\ pc'[p] = "open" /\ i'[p] = 0
        /\ \A q \in Procs : q # p => pc'[q] = pc[q] /\ i'[q] = i[q]
    BY <1>1, <1>2 DEF CountInv, Shape, TypeOK
  <1>. HIDE DEF k
  <1>8. InTurns'
    <2>1. \A q \in Procs : pc'[q] \in {"off", "failed", "open"}
      BY <1>4, <1>7
    <2>2. Pending' = {}
      BY <2>1 DEF Pending
    <2>. QED
      BY <2>2 DEF InTurns
  <1>9. Placed' \subseteq Placed /\ \A j \in Placed' : j \in 0..(MaxInherit - 1) /\ j < k
    <2>1. \A q \in Procs : pc[q] = "filling" => q = p
      BY <1>4
    <2>2. magic.num \in 0..MaxInherit
      BY <1>1, SharedTypes
    <2>. QED
      BY <2>1, <2>2, <1>4, <1>6, Bounds DEF Placed, Listed, k
  <1>10. Records'
    <2>1. \A j \in Placed' : magic'.recs[j] = magic.recs[j]
      BY <1>4, <1>6, <1>9
    <2>2. \A j \in Placed' : EndBefore(j)' = EndBefore(j)
      <3>. SUFFICES ASSUME NEW j, j \in Placed' PROVE EndBefore(j)' = EndBefore(j)
        OBVIOUS
      <3>1. j = 0 \/ (j - 1 \in 0..(MaxInherit - 1) /\ j - 1 # k)
        BY <1>4, <1>9, Bounds
      <3>. QED
        BY <3>1, <1>6 DEF EndBefore
    <2>. QED
      BY <2>1, <2>2, <1>9 DEF SharedInv, Records
  <1>11. OneEach'
    <2>1. \A j \in Filled' : j \in Filled /\ magic'.recs[j] = magic.recs[j]
      BY <1>6 DEF Filled
    <2>. QED
      BY <2>1, <1>2, NothingNew DEF SharedInv
  <1>12. ASSUME NEW q \in Procs, q # p
         PROVE  Mine(q)'
    BY <1>2, <1>4, <1>7, <1>12, Bystander DEF SharedInv
  <1>13. Mine(p)'
    <2>1. InData(p)' /\ Apart(p)' /\ Mapped(p)' /\ Position(p)' = Position(p)
      BY <1>1, <1>2 DEF Mine, InData, Apart, Mapped, Inherited, BaseOf, DataOf, Position
    <2>2. Own(p)'
      BY <1>1, <1>2, <1>7, <2>1 DEF Mine, Own
    <2>. QED
      BY <2>1, <2>2 DEF Mine
  <1>. QED
    BY <1>1, <1>8, <1>10, <1>11, <1>12, <1>13 DEF SharedInv

LEMMA SharedDrop ==
    ASSUME SharedInv, NEW p \in Procs, Drop(p)
    PROVE  SharedInv'
  <1>. DEFINE k == i[p]
              d == magic.recs[k]
  <1>1. CountInv' /\ CountInv /\ Mine(p)
    BY CountRecords DEF SharedInv
  <1>2. /\ pc[p] = "dropping"
        /\ magic' = [magic EXCEPT !.num = @ - 1]
        /\ vm' = [vm EXCEPT ![p] = MapOver(@, BaseOf(d), Unmapped)]
        /\ pc' = [pc EXCEPT ![p] = "open"]
        /\ i' = [i EXCEPT ![p] = 0]
        /\ UNCHANGED <<made, unused, mixed, heaps>>
    BY DEF Drop
  <1>3. p \in Pending
    BY <1>2 DEF Pending
  <1>4. \A q \in Procs : q # p => pc[q] \in {"off", "failed", "open"}
    BY <1>3, OthersAway
  <1>5. magic'.num = magic.num - 1 /\ magic'.recs = magic.recs
    BY <1>1, <1>2 DEF CountInv, Shape, TypeOK
  <1>6. /\ pc'[p] = "open" /\ vm'[p] = MapOver(vm[p], BaseOf(d), Unmapped)
        /\ \A q \in Procs : q # p => pc'[q] = pc[q] /\ i'[q] = i[q] /\ vm'[q] = vm[q]
    BY <1>1, <1>2 DEF CountInv, Shape, TypeOK
  <1>. HIDE DEF k
  <1>7. InTurns'
    <2>1. \A q \in Procs : pc'[q] \in {"off", "failed", "open"}
      BY <1>4, <1>6
    <2>2. Pending' = {}
      BY <2>1 DEF Pending
    <2>. QED
      BY <2>2 DEF InTurns
  <1>8. Placed' \subseteq Placed
    <2>1. \A q \in Procs : pc[q] # "filling"
      BY <1>2, <1>4
    <2>2. magic.num \in 0..MaxInherit
      BY <1>1, SharedTypes
    <2>. QED
      BY <2>1, <2>2, <1>5, Bounds DEF Placed, Listed
  <1>9. Records'
    <2>1. \A j : EndBefore(j)' = EndBefore(j)
      BY <1>5 DEF EndBefore
    <2>. QED
      BY <2>1, <1>5, <1>8 DEF SharedInv, Records
  <1>10. OneEach'
    <2>1. \A j \in Filled' : j \in Filled /\ magic'.recs[j] = magic.recs[j]
      BY <1>5 DEF Filled
    <2>. QED
      BY <2>1, <1>2, NothingNew DEF SharedInv
  <1>11. ASSUME NEW q \in Procs, q # p
         PROVE  Mine(q)'
    BY <1>2, <1>4, <1>6, <1>11, Bystander DEF SharedInv
  <1>12. Mine(p)'
    <2>1. InData(p)' /\ Apart(p)' /\ Position(p)' = Position(p) /\ Inherited(p)' = Inherited(p)
      BY <1>1, <1>2 DEF Mine, InData, Apart, Inherited, BaseOf, Position
    <2>2. Own(p)'
      BY <1>1, <1>2, <1>6, <2>1 DEF Mine, Own
    <2>3. Mapped(p)'
      <3>1. ASSUME NEW g \in Inherited(p)', NEW pg \in DataOf(g.d)
            PROVE  vm'[p][pg] = g.d.seg
        <4>1. g \in Inherited(p) /\ g \in heaps[p] /\ pg \in DataOf(g.d)
          BY <2>1, <3>1 DEF Inherited
        <4>2. BaseOf(g.d) \cap BaseOf(d) = {}
          BY <4>1, <1>1, <1>2 DEF Mine, Own, k
        <4>3. pg \in Pages /\ pg \in BaseOf(g.d) /\ vm[p][pg] = g.d.seg
          BY <4>1, <1>1, PageOfHeap
        <4>. QED
          BY <4>2, <4>3, <1>6 DEF MapOver
      <3>. QED
        BY <3>1 DEF Mapped, DataOf
    <2>. QED
      BY <2>1, <2>2, <2>3 DEF Mine
  <1>. QED
    BY <1>1, <1>7, <1>9, <1>10, <1>11, <1>12 DEF SharedInv

LEMMA SharedDestroy ==
    ASSUME QuietStart, SharedInv, NEW p \in Procs, NEW h \in heaps[p], DestroyInherit(p, h)
    PROVE  SharedInv'
  <1>. DEFINE k == magic.num - 1
  <1>1. CountInv' /\ CountInv /\ Mine(p)
    BY CountRecords DEF SharedInv
  <1>2. /\ pc[p] = "open" /\ \A q \in Procs : pc[q] \notin Starting
        /\ k >= 0 /\ magic.recs[k] = h.d /\ h.kind = "inherit"
        /\ vm' = [vm EXCEPT ![p] = Detach(@, h.d.seg)]
        /\ magic' = [magic EXCEPT !.recs[k].seg = NoSeg]
        /\ heaps' = [heaps EXCEPT ![p] = @ \ {h}]
        /\ pc' = [pc EXCEPT ![p] = "dropping"]
        /\ i' = [i EXCEPT ![p] = k]
        /\ UNCHANGED <<made, unused, mixed>>
    BY DEF DestroyInherit, Quiet
  <1>3. /\ k \in 0..(MaxInherit - 1) /\ k \in Listed /\ h.d.seg # NoSeg
        /\ magic.recs \in [0..(MaxInherit - 1) -> Recs]
    BY <1>1, <1>2, Bounds DEF CountInv, Shape, TypeOK, Listed
  <1>4. \A q \in Procs : pc[q] \in {"off", "failed", "open"}
    <2>1. Pending = {}
      BY <1>2, <1>3, OthersAway
    <2>. QED
      BY <2>1, <1>1, <1>2 DEF Pending, CountInv, Shape, TypeOK, Stages, Starting
  <1>5. magic'.num = magic.num /\ magic'.recs = [magic.recs EXCEPT ![k].seg = NoSeg]
    BY <1>1, <1>2 DEF CountInv, Shape, TypeOK
  <1>. HIDE DEF k
  <1>6. /\ magic'.recs[k].seg = NoSeg
        /\ \A j \in 0..(MaxInherit - 1) :
              /\ magic'.recs[j].start = magic.recs[j].start
              /\ magic'.recs[j].data = magic.recs[j].data
              /\ magic'.recs[j].base = magic.recs[j].base
              /\ j # k => magic'.recs[j] = magic.recs[j]
    <2>1. /\ magic'.recs[k] = [magic.recs[k] EXCEPT !.seg = NoSeg]
          /\ \A j \in 0..(MaxInherit - 1) : j # k => magic'.recs[j] = magic.recs[j]
          /\ magic.recs[k] \in Recs
      BY <1>3, <1>5
    <2>2. /\ magic'.recs[k].seg = NoSeg
          /\ magic'.recs[k].start = magic.recs[k].start
          /\ magic'.recs[k].data = magic.recs[k].data
          /\ magic'.recs[k].base = magic.recs[k].base
      BY <2>1 DEF Recs
    <2>. QED
      BY <2>1, <2>2
  <1>7. /\ pc'[p] = "dropping" /\ i'[p] = k
        /\ heaps'[p] = heaps[p] \ {h} /\ vm'[p] = Detach(vm[p], h.d.seg)
        /\ \A q \in Procs : q # p =>
              /\ pc'[q] = pc[q] /\ i'[q] = i[q]
              /\ heaps'[q] = heaps[q] /\ vm'[q] = vm[q]
    BY <1>1, <1>2 DEF CountInv, Shape, TypeOK
  <1>8. InTurns'
    <2>1. Pending' = {p} /\ \A q \in Procs : pc'[q] \notin Starting
      BY <1>4, <1>7 DEF Pending, Starting
    <2>2. i'[p] = magic'.num - 1 /\ magic'.recs[i'[p]].seg = NoSeg
      BY <1>5, <1>6, <1>7 DEF k
    <2>. QED
      BY <2>1, <2>2 DEF InTurns
  <1>9. Placed = Listed /\ Placed' = Listed
    BY <1>4, <1>5, <1>7 DEF Placed, Listed
  <1>10. Records'
    <2>1. Listed \subseteq 0..(MaxInherit - 1)
      BY <1>1, SharedTypes
    <2>2. \A j \in Listed : EndBefore(j)' = EndBefore(j)
      <3>. SUFFICES ASSUME NEW j \in Listed PROVE EndBefore(j)' = EndBefore(j)
        OBVIOUS
      <3>1. j = 0 \/ j - 1 \in 0..(MaxInherit - 1)
        BY <2>1, Bounds
      <3>. QED
        BY <3>1, <1>6 DEF EndBefore
    <2>. QED
      BY <2>1, <2>2, <1>6, <1>9 DEF SharedInv, Records
  <1>11. OneEach'
    <2>1. \A j \in Filled' : j \in Filled /\ magic'.recs[j] = magic.recs[j]
      BY <1>6 DEF Filled
    <2>2. \A q \in Procs : heaps'[q] \subseteq heaps[q]
      BY <1>7
    <2>. QED
      BY <2>1, <2>2, <1>2, NothingNew DEF SharedInv
  <1>12. ASSUME NEW q \in Procs, q # p
         PROVE  Mine(q)'
    BY <1>2, <1>4, <1>7, <1>12, Bystander DEF SharedInv
  <1>13. Mine(p)'
    <2>1. InData(p)' /\ Apart(p)' /\ Position(p)' = Position(p)
      BY <1>1, <1>2, <1>7 DEF Mine, InData, Apart, BaseOf, Position
    <2>2. Own(p)'
      <3>1. BaseOf(magic.recs[i[p]])' = BaseOf(h.d)
        BY <1>2, <1>3, <1>6, <1>7 DEF BaseOf
      <3>2. (\A g \in heaps[p] : BaseOf(g.d) \cap BaseOf(magic.recs[i[p]]) = {})'
        BY <3>1, <1>1, <1>7 DEF Mine, Apart, BaseOf
      <3>. QED
        BY <3>2, <1>1, <1>2, <1>7, <2>1 DEF Mine, Own
    <2>3. Mapped(p)'
      <3>1. ASSUME NEW g \in Inherited(p)', NEW pg \in DataOf(g.d)
            PROVE  vm'[p][pg] = g.d.seg
        <4>1. g \in Inherited(p) /\ g \in heaps[p] /\ g # h /\ pg \in DataOf(g.d)
          BY <1>7, <3>1 DEF Inherited
        <4>2. h \in Inherited(p)
          BY <1>2 DEF Inherited
        <4>3. g.d.seg # h.d.seg
          <5>1. g = [kind |-> g.kind, d |-> g.d] /\ h = [kind |-> h.kind, d |-> h.d]
            BY <4>1, <1>1, SharedTypes
          <5>2. g.kind = h.kind
            BY <4>1, <1>2 DEF Inherited
          <5>3. g.d # h.d
            BY <4>1, <5>1, <5>2
          <5>4. \A q, r \in Procs : \A e \in Inherited(q), f \in Inherited(r) :
                   e.d.seg = f.d.seg => e.d = f.d
            BY DEF SharedInv, OneEach
          <5>. QED
            BY <4>1, <4>2, <5>3, <5>4
        <4>4. pg \in Pages /\ vm[p][pg] = g.d.seg
          BY <4>1, <1>1, PageOfHeap
        <4>. QED
          BY <4>3, <4>4, <1>7 DEF Detach
      <3>. QED
        BY <3>1 DEF Mapped, DataOf
    <2>. QED
      BY <2>1, <2>2, <2>3 DEF Mine
  <1>. QED
    BY <1>1, <1>8, <1>10, <1>11, <1>12, <1>13 DEF SharedInv

LEMMA SharedStep ==
    ASSUME QuietStart, InStep, SharedInv, [Next]_vars
    PROVE  SharedInv'
  <1>1. CASE UNCHANGED vars
    <2>1. CountInv'
      BY CountStep DEF SharedInv
    <2>2. \A p \in Procs : Mine(p)'
      <3>. SUFFICES ASSUME NEW p \in Procs PROVE Mine(p)'
        OBVIOUS
      <3>. QED
        BY <1>1, Bystander DEF SharedInv, vars
    <2>3. /\ Placed' = Placed /\ Listed' = Listed /\ Pending' = Pending /\ Filled' = Filled
          /\ \A k : EndBefore(k)' = EndBefore(k)
      BY <1>1 DEF vars, Placed, Listed, Pending, Filled, EndBefore
    <2>4. OneEach'
      BY <1>1, <2>3, NothingNew DEF vars, SharedInv
    <2>5. Records' /\ InTurns'
      BY <1>1, <2>3 DEF vars, SharedInv, Records, InTurns
    <2>. QED
      BY <2>1, <2>2, <2>4, <2>5 DEF SharedInv
  <1>2. CASE Next
    BY <1>2, SharedStart, SharedFamily, SharedClaim, SharedFill, SharedFillNull,
       SharedDestroy, SharedDrop, SharedPrivate DEF Next
  <1>. QED
    BY <1>1, <1>2

LEMMA SharedAlways == ASSUME QuietStart, InStep PROVE Spec => []SharedInv
  <1>1. SharedInv /\ [Next]_vars => SharedInv'
    BY SharedStep
  <1>. QED
    BY <1>1, SharedInit, PTL DEF Spec

(* When the records are left alone while a program starts, and heaps are   *)
(* created in turns where the listed ones end, the heaps a process         *)
(* inherited and those it created share no page, guard pages included,     *)
(* whatever was destroyed in between (space.c:197-201).                    *)
THEOREM InheritApart ==
    ASSUME QuietStart, InStep
    PROVE  Spec => []HeapsApart
  <1>1. SharedInv => HeapsApart
    BY DEF SharedInv, Mine, Apart, HeapsApart
  <1>. QED
    BY <1>1, SharedAlways, PTL

(* An inheritable heap is the same segment at the same address in every    *)
(* process that has it, and its pages stay that segment's in each of them  *)
(* (space.c:165-170).                                                      *)
THEOREM InheritSameMemory ==
    ASSUME QuietStart, InStep
    PROVE  Spec => []SameMemory
  <1>1. SharedInv => SameMemory
    <2>. SUFFICES ASSUME SharedInv, NEW p \in Procs, NEW q \in Procs,
                         NEW g \in heaps[p], NEW h \in heaps[q], g.kind = "inherit"
                  PROVE  /\ \A pg \in DataOf(g.d) : vm[p][pg] = g.d.seg
                         /\ h.kind = "inherit" /\ g.d.seg = h.d.seg => g.d.start = h.d.start
      BY DEF SameMemory
    <2>1. g \in Inherited(p)
      BY DEF Inherited
    <2>2. h.kind = "inherit" => h \in Inherited(q)
      BY DEF Inherited
    <2>3. \A pg \in DataOf(g.d) : vm[p][pg] = g.d.seg
      BY <2>1 DEF SharedInv, Mine, Mapped
    <2>4. h.kind = "inherit" /\ g.d.seg = h.d.seg => g.d = h.d
      BY <2>1, <2>2 DEF SharedInv, OneEach
    <2>. QED
      BY <2>3, <2>4
  <1>. QED
    BY <1>1, SharedAlways, PTL
==============================================================================
