---------------------------- MODULE RegionProofs ----------------------------
(***************************************************************************)
(* Proofs about regions: however regions are nested, grow, are reset and   *)
(* destroyed, what callers may use lies in memory that is allocated.       *)
(*                                                                         *)
(* The functions of region.c are operators on a state; most lemmas say     *)
(* what one of them makes of a state that is Sound.  A call that makes a   *)
(* region grow is a call to its parent, so the states that the calls at    *)
(* one level of the tree lead to are found from those one level up.        *)
(***************************************************************************)
EXTENDS Region, OrderLemmas

AllNames == Names \cup {Incoming}
BuffNames == {<<"buff", b>> : b \in Buffs}
Kinds == {"nofree", "pool"}
AllModes == [kind : Kinds, elastic : BOOLEAN, fixed : BOOLEAN]
AllRegions == Regions \cup {Root}
AllBuffs == Buffs \cup {RootBuff}

Structs == [parent : AllRegions, chain : Seq(AllBuffs), size : Nat, mode : AllModes]
Bufs == [kind : Kinds, size : Nat, used : Nat]
Blocks == [name : AllNames, host : AllBuffs, size : Nat]

RegionMaps == UNION {[D -> Structs] : D \in SUBSET AllRegions}
BuffMaps == UNION {[D -> Bufs] : D \in SUBSET AllBuffs}

States == [region : RegionMaps, buff : BuffMaps, blocks : SUBSET Blocks,
           misused : {FALSE}]

NamesOf(s) == {k.name : k \in s.blocks}

(* The root is the heap's own region, and never grows.                     *)
Rooted(s) ==
    /\ Root \in DOMAIN s.region
    /\ s.region[Root].parent = Root
    /\ s.region[Root].chain = <<RootBuff>>
    /\ s.region[Root].mode.fixed

(* Every buffer is in one chain, once, and has the allocator of its region.*)
Chained(s) ==
    /\ \A r \in DOMAIN s.region : \A i \in 1..Len(s.region[r].chain) :
          /\ s.region[r].chain[i] \in DOMAIN s.buff
          /\ s.buff[s.region[r].chain[i]].kind = s.region[r].mode.kind
    /\ \A b \in DOMAIN s.buff : \E r \in DOMAIN s.region :
          \E i \in 1..Len(s.region[r].chain) : s.region[r].chain[i] = b
    /\ \A q, r \in DOMAIN s.region :
          \A i \in 1..Len(s.region[q].chain), j \in 1..Len(s.region[r].chain) :
             s.region[q].chain[i] = s.region[r].chain[j] => q = r /\ i = j

(* Every region is below the root.                                         *)
Treed(s) ==
    /\ \A r \in DOMAIN s.region : s.region[r].parent \in DOMAIN s.region
    /\ \A S \in SUBSET DOMAIN s.region :
          Root \in S /\ Closed(s, S) => DOMAIN s.region \subseteq S

(* Blocks have names of their own.                                         *)
Lodged(s) ==
    /\ \A k \in s.blocks : k.host \in DOMAIN s.buff
    /\ \A k, l \in s.blocks : k.name = l.name => k = l

(* A block of the name lies in the chain of r.                             *)
Lies(s, name, r) ==
    \E k \in s.blocks : /\ k.name = name
                        /\ \E i \in 1..Len(s.region[r].chain) :
                              k.host = s.region[r].chain[i]

(* The region's struct and buffers are blocks of its parent.               *)
Hosted(s, r) ==
    /\ Lies(s, <<"region", r>>, s.region[r].parent)
    /\ \A i \in 1..Len(s.region[r].chain) :
          Lies(s, <<"buff", s.region[r].chain[i]>>, s.region[r].parent)

Roomy(s, r) ==
    /\ s.region[r].size >= MinBuff
    /\ \A i \in 1..Len(s.region[r].chain) : \A k \in s.blocks :
          k.name = <<"buff", s.region[r].chain[i]>> =>
             BuffStruct + s.buff[s.region[r].chain[i]].size <= k.size

Serves(s, r, n) ==
    s.region[r].mode.kind = "nofree" =>
       \A i \in 2..n : s.buff[s.region[r].chain[i]].used > Header

(* All but what the buffers of a nofree region served.                     *)
Core(s) ==
    /\ s \in States
    /\ Rooted(s) /\ Chained(s) /\ Treed(s) /\ Lodged(s)
    /\ \A r \in DOMAIN s.region \ {Root} : Hosted(s, r) /\ Roomy(s, r)

Sound(s) ==
    /\ Core(s)
    /\ \A r \in DOMAIN s.region : Serves(s, r, Len(s.region[r].chain))

(* What callers hold.                                                      *)
Kept(s, H) ==
    /\ H \subseteq [name : Users, region : DOMAIN s.region, size : Nat]
    /\ \A h \in H : Lies(s, <<"user", h.name>>, h.region)
    /\ \A h, g \in H : h.name = g.name => h = g

Inv ==
    /\ Sound(State)
    /\ Incoming \notin NamesOf(State)
    /\ Kept(State, held)
------------------------------------------------------------------------------
(* Shapes.                                                                 *)

LEMMA RegionMapIs ==
    ASSUME NEW f \in RegionMaps
    PROVE  DOMAIN f \subseteq AllRegions /\ f \in [DOMAIN f -> Structs]
  <1>1. PICK D \in SUBSET AllRegions : f \in [D -> Structs]
    BY DEF RegionMaps
  <1>. QED
    BY <1>1

LEMMA BuffMapIs ==
    ASSUME NEW f \in BuffMaps
    PROVE  DOMAIN f \subseteq AllBuffs /\ f \in [DOMAIN f -> Bufs]
  <1>1. PICK D \in SUBSET AllBuffs : f \in [D -> Bufs]
    BY DEF BuffMaps
  <1>. QED
    BY <1>1

LEMMA IsRegionMap ==
    ASSUME NEW D \in SUBSET AllRegions, NEW f \in [D -> Structs]
    PROVE  f \in RegionMaps
  BY DEF RegionMaps

LEMMA IsBuffMap ==
    ASSUME NEW D \in SUBSET AllBuffs, NEW f \in [D -> Bufs]
    PROVE  f \in BuffMaps
  BY DEF BuffMaps

LEMMA StateIs ==
    ASSUME NEW s \in States
    PROVE  /\ s = [region |-> s.region, buff |-> s.buff, blocks |-> s.blocks,
                   misused |-> s.misused]
           /\ DOMAIN s.region \subseteq AllRegions
           /\ s.region \in [DOMAIN s.region -> Structs]
           /\ DOMAIN s.buff \subseteq AllBuffs
           /\ s.buff \in [DOMAIN s.buff -> Bufs]
           /\ s.blocks \subseteq Blocks
           /\ s.misused = FALSE
  <1>1. s.region \in RegionMaps /\ s.buff \in BuffMaps
    BY DEF States
  <1>. QED
    BY <1>1, RegionMapIs, BuffMapIs DEF States

LEMMA ChainIs ==
    ASSUME NEW s \in States, NEW r \in DOMAIN s.region
    PROVE  /\ s.region[r].chain \in Seq(AllBuffs)
           /\ Len(s.region[r].chain) \in Nat
           /\ \A i \in 1..Len(s.region[r].chain) : s.region[r].chain[i] \in AllBuffs
           /\ Chain(s, r) = {s.region[r].chain[i] : i \in 1..Len(s.region[r].chain)}
           /\ s.region[r].size \in Nat /\ s.region[r].mode \in AllModes
           /\ s.region[r].parent \in AllRegions
  <1>1. s.region[r] \in Structs
    BY StateIs
  <1>2. s.region[r].chain \in Seq(AllBuffs)
    BY <1>1 DEF Structs
  <1>3. /\ DOMAIN s.region[r].chain = 1..Len(s.region[r].chain)
        /\ Len(s.region[r].chain) \in Nat
        /\ \A i \in 1..Len(s.region[r].chain) : s.region[r].chain[i] \in AllBuffs
    BY <1>2
  <1>. QED
    BY <1>1, <1>2, <1>3 DEF Structs, Chain, Range

LEMMA BlockIs ==
    ASSUME NEW s \in States, NEW k \in s.blocks
    PROVE  /\ k.name \in AllNames /\ k.host \in AllBuffs /\ k.size \in Nat
           /\ k = [name |-> k.name, host |-> k.host, size |-> k.size]
  BY StateIs DEF Blocks

(* Names of different things differ.                                       *)
LEMMA NamesDiffer ==
    /\ \A x, y : <<"buff", x>> # <<"region", y>> /\ <<"buff", x>> # <<"user", y>>
                 /\ <<"region", x>> # <<"user", y>>
    /\ \A x, y : <<"buff", x>> = <<"buff", y>> => x = y
    /\ \A x, y : <<"region", x>> = <<"region", y>> => x = y
    /\ \A x, y : <<"user", x>> = <<"user", y>> => x = y
    /\ Incoming = <<"buff", RootBuff>> /\ Incoming \notin BuffNames
    /\ BuffNames \subseteq Names
    /\ \A u \in Users : <<"user", u>> \in Names
    /\ \A r \in Regions : <<"region", r>> \in Names
  BY RegionAssumption DEF Incoming, BuffNames, Names

LEMMA NumbersAre ==
    /\ RootSize \in Nat \ {0} /\ Header \in Nat \ {0} /\ BuffStruct \in Nat \ {0}
    /\ RegionStruct \in Nat \ {0} /\ MinBuff \in Nat \ {0} /\ 2 * Header <= MinBuff
    /\ Regions \subseteq Nat \ {0} /\ IsFiniteSet(Regions)
    /\ Buffs \subseteq Nat \ {0} /\ Users \subseteq Nat
    /\ Modes \subseteq AllModes /\ RootKind \in Kinds
    /\ InitSizes \subseteq Nat /\ BuffSizes \subseteq Nat \ {0} /\ Asked \subseteq Nat \ {0}
    /\ Root = 0 /\ RootBuff = 0
  BY RegionAssumption DEF AllModes, Kinds, Root, RootBuff

LEMMA WithIs ==
    ASSUME NEW f, NEW x, NEW v
    PROVE  /\ DOMAIN With(f, x, v) = DOMAIN f \cup {x}
           /\ With(f, x, v)[x] = v
           /\ \A y \in DOMAIN f : y # x => With(f, x, v)[y] = f[y]
           /\ With(f, x, v) = [y \in DOMAIN f \cup {x} |-> IF y = x THEN v ELSE f[y]]
  BY DEF With

LEMMA WithoutIs ==
    ASSUME NEW f, NEW S
    PROVE  /\ DOMAIN Without(f, S) = DOMAIN f \ S
           /\ \A y \in DOMAIN f \ S : Without(f, S)[y] = f[y]
           /\ Without(f, S) = [y \in DOMAIN f \ S |-> f[y]]
  BY DEF Without

------------------------------------------------------------------------------
(* Growth.                                                                 *)

(* What calls to the allocators and new buffers leave of a state.          *)
Grew(s, t) ==
    /\ DOMAIN t.region = DOMAIN s.region
    /\ \A q \in DOMAIN s.region :
          /\ t.region[q].parent = s.region[q].parent
          /\ t.region[q].mode = s.region[q].mode
          /\ Len(s.region[q].chain) <= Len(t.region[q].chain)
          /\ \A i \in 1..Len(s.region[q].chain) :
                t.region[q].chain[i] = s.region[q].chain[i]
    /\ s.blocks \subseteq t.blocks

LEMMA GrewSelf ==
    ASSUME NEW s \in States
    PROVE  Grew(s, s)
  BY ChainIs DEF Grew

LEMMA GrewTwice ==
    ASSUME NEW s \in States, NEW t \in States, NEW u \in States, Grew(s, t), Grew(t, u)
    PROVE  Grew(s, u)
  <1>. SUFFICES ASSUME NEW q \in DOMAIN s.region
                PROVE  /\ Len(s.region[q].chain) <= Len(u.region[q].chain)
                       /\ \A i \in 1..Len(s.region[q].chain) :
                             u.region[q].chain[i] = s.region[q].chain[i]
    BY DEF Grew
  <1>1. /\ Len(s.region[q].chain) \in Nat /\ Len(t.region[q].chain) \in Nat
        /\ Len(u.region[q].chain) \in Nat
    BY ChainIs DEF Grew
  <1>2. /\ Len(s.region[q].chain) <= Len(t.region[q].chain)
        /\ \A i \in 1..Len(s.region[q].chain) : t.region[q].chain[i] = s.region[q].chain[i]
    BY DEF Grew
  <1>3. /\ Len(t.region[q].chain) <= Len(u.region[q].chain)
        /\ \A i \in 1..Len(t.region[q].chain) : u.region[q].chain[i] = t.region[q].chain[i]
    BY DEF Grew
  <1>. DEFINE a == Len(s.region[q].chain)
              b == Len(t.region[q].chain)
              c == Len(u.region[q].chain)
  <1>4. a <= c /\ 1..a \subseteq 1..b
    <2>1. a \in Nat /\ b \in Nat /\ c \in Nat /\ a <= b /\ b <= c
      BY <1>1, <1>2, <1>3
    <2>. HIDE DEF a, b, c
    <2>. QED
      BY <2>1
  <1>5. \A i \in 1..Len(s.region[q].chain) : i \in 1..Len(t.region[q].chain)
    BY <1>4
  <1>. QED
    BY <1>2, <1>3, <1>4, <1>5

LEMMA LiesGrows ==
    ASSUME NEW s \in States, NEW t \in States, Grew(s, t),
           NEW q \in DOMAIN s.region, NEW name, Lies(s, name, q)
    PROVE  Lies(t, name, q)
  <1>1. PICK k \in s.blocks : /\ k.name = name
                              /\ \E i \in 1..Len(s.region[q].chain) :
                                    k.host = s.region[q].chain[i]
    BY DEF Lies
  <1>2. PICK i \in 1..Len(s.region[q].chain) : k.host = s.region[q].chain[i]
    BY <1>1
  <1>3. Len(s.region[q].chain) \in Nat /\ Len(t.region[q].chain) \in Nat
    BY ChainIs DEF Grew
  <1>4. k \in t.blocks /\ i \in 1..Len(t.region[q].chain) /\ k.host = t.region[q].chain[i]
    BY <1>2, <1>3 DEF Grew
  <1>. QED
    BY <1>1, <1>4 DEF Lies

LEMMA TreeGrows ==
    ASSUME NEW s, NEW t, Grew(s, t), Treed(s)
    PROVE  Treed(t)
  <1>1. \A S : Closed(t, S) <=> Closed(s, S)
    BY DEF Closed, Grew
  <1>. QED
    BY <1>1, Zenon DEF Treed, Grew

LEMMA KeptGrows ==
    ASSUME NEW s \in States, NEW t \in States, Grew(s, t), NEW H, Kept(s, H)
    PROVE  Kept(t, H)
  <1>1. ASSUME NEW h \in H
        PROVE  Lies(t, <<"user", h.name>>, h.region)
    <2>1. h.region \in DOMAIN s.region
      BY DEF Kept
    <2>. QED
      BY <2>1, LiesGrows DEF Kept
  <1>. QED
    BY <1>1 DEF Kept, Grew

(* A block is placed in the last buffer of r.                              *)
Fresh(s, name) == name \in AllNames \ BuffNames /\ name \notin NamesOf(s)

PlacedIs(s, r, name, n, t) ==
    /\ t \in States
    /\ t.region = s.region
    /\ DOMAIN t.buff = DOMAIN s.buff
    /\ \A b \in DOMAIN s.buff : /\ t.buff[b].kind = s.buff[b].kind
                                /\ t.buff[b].size = s.buff[b].size
                                /\ t.buff[b].used >= s.buff[b].used
    /\ LastBuff(s, r) \in DOMAIN s.buff
    /\ Len(s.region[r].chain) \in 1..Len(s.region[r].chain)
    /\ s.buff[LastBuff(s, r)].kind = "nofree" =>
          t.buff[LastBuff(s, r)].used = s.buff[LastBuff(s, r)].used + n
    /\ t.blocks = s.blocks \cup {[name |-> name, host |-> LastBuff(s, r), size |-> n]}

LEMMA PlacedShape ==
    ASSUME NEW s, Core(s), NEW r \in DOMAIN s.region, s.region[r].chain # <<>>,
           NEW name, Fresh(s, name), NEW n \in Nat \ {0},
           NEW t, t = Placed(s, LastBuff(s, r), name, n)
    PROVE  PlacedIs(s, r, name, n, t)
  <1>. DEFINE b == LastBuff(s, r)
              len == Len(s.region[r].chain)
              k == [name |-> name, host |-> b, size |-> n]
  <1>1. s \in States
    BY DEF Core
  <1>2. /\ s = [region |-> s.region, buff |-> s.buff, blocks |-> s.blocks, misused |-> s.misused]
        /\ DOMAIN s.buff \subseteq AllBuffs
        /\ s.buff \in [DOMAIN s.buff -> Bufs]
        /\ s.blocks \subseteq Blocks
        /\ s.misused = FALSE
    BY <1>1, StateIs
  <1>3. len \in Nat \ {0} /\ s.region[r].chain \in Seq(AllBuffs)
    BY <1>1, ChainIs
  <1>4. b = s.region[r].chain[len] /\ b \in DOMAIN s.buff
    BY <1>3 DEF LastBuff, Core, Chained
  <1>5. s.buff[b] \in Bufs /\ s.buff[b].used \in Nat
    BY <1>2, <1>4 DEF Bufs
  <1>. DEFINE used == IF s.buff[b].kind = "nofree" THEN s.buff[b].used + n ELSE s.buff[b].used
              c == [s.buff EXCEPT ![b] = [s.buff[b] EXCEPT !.used = used]]
  <1>6. used \in Nat /\ used >= s.buff[b].used
    BY <1>5
  <1>7. [s.buff[b] EXCEPT !.used = used] \in Bufs
    BY <1>5, <1>6 DEF Bufs
  <1>8. /\ DOMAIN c = DOMAIN s.buff
        /\ c \in [DOMAIN s.buff -> Bufs]
        /\ c[b].used = used
        /\ \A x \in DOMAIN s.buff : /\ c[x].kind = s.buff[x].kind
                                    /\ c[x].size = s.buff[x].size
                                    /\ c[x].used >= s.buff[x].used
    <2>1. \A x \in DOMAIN s.buff : s.buff[x] \in Bufs /\ s.buff[x].used \in Nat
      BY <1>2 DEF Bufs
    <2>2. \A x \in DOMAIN s.buff : c[x] = IF x = b THEN [s.buff[b] EXCEPT !.used = used]
                                          ELSE s.buff[x]
      BY <1>2
    <2>3. /\ [s.buff[b] EXCEPT !.used = used].kind = s.buff[b].kind
          /\ [s.buff[b] EXCEPT !.used = used].size = s.buff[b].size
          /\ [s.buff[b] EXCEPT !.used = used].used = used
      BY <1>5 DEF Bufs
    <2>4. DOMAIN c = DOMAIN s.buff /\ c \in [DOMAIN s.buff -> Bufs]
      BY <1>2, <1>7
    <2>5. c[b].used = used
      BY <1>4, <2>2, <2>3
    <2>6. ASSUME NEW x \in DOMAIN s.buff
          PROVE  /\ c[x].kind = s.buff[x].kind
                 /\ c[x].size = s.buff[x].size
                 /\ c[x].used >= s.buff[x].used
      <3>1. CASE x = b
        <4>1. c[x] = [s.buff[b] EXCEPT !.used = used]
          BY <2>2, <3>1
        <4>. HIDE DEF c, used
        <4>. QED
          BY <1>6, <2>3, <3>1, <4>1
      <3>2. CASE x # b
        <4>1. c[x] = s.buff[x]
          BY <2>2, <3>2
        <4>. HIDE DEF c, used
        <4>. QED
          BY <2>1, <4>1
      <3>. QED
        BY <3>1, <3>2
    <2>. HIDE DEF c, used
    <2>. QED
      BY <2>4, <2>5, <2>6
  <1>9. t = [region |-> s.region, buff |-> c, blocks |-> s.blocks \cup {k}, misused |-> FALSE]
    BY <1>2, <1>5 DEF Placed, Bufs
  <1>10. c \in BuffMaps
    BY <1>2, <1>8, IsBuffMap
  <1>11. k \in Blocks
    BY <1>2, <1>4 DEF Blocks, Fresh
  <1>. HIDE DEF c, k, used
  <1>12. s.region \in RegionMaps /\ s.blocks \cup {k} \in SUBSET Blocks
    BY <1>1, <1>2, <1>11 DEF States
  <1>13. s.buff[b].kind = "nofree" => used = s.buff[b].used + n
    BY DEF used
  <1>14. /\ t \in States
         /\ t.region = s.region /\ t.buff = c /\ t.blocks = s.blocks \cup {k}
    <2>. DEFINE K == s.blocks \cup {k}
                R == s.region
    <2>1. /\ t = [region |-> R, buff |-> c, blocks |-> K, misused |-> FALSE]
          /\ R \in RegionMaps /\ c \in BuffMaps /\ K \in SUBSET Blocks
      BY <1>9, <1>10, <1>12
    <2>. HIDE DEF K, R
    <2>2. t.region = R /\ t.buff = c /\ t.blocks = K /\ t.misused = FALSE
      BY <2>1
    <2>3. t \in States
      BY <2>1 DEF States
    <2>. QED
      BY <2>2, <2>3 DEF K, R
  <1>15. len \in 1..len
    BY <1>3
  <1>. QED
    BY <1>4, <1>8, <1>13, <1>14, <1>15 DEF k, PlacedIs

LEMMA PlacedKeeps ==
    ASSUME NEW s, Core(s), NEW r \in DOMAIN s.region, s.region[r].chain # <<>>,
           NEW name, Fresh(s, name), NEW n \in Nat \ {0},
           NEW t, t = Placed(s, LastBuff(s, r), name, n)
    PROVE  /\ Core(t) /\ Grew(s, t) /\ t.region = s.region
           /\ NamesOf(t) = NamesOf(s) \cup {name}
           /\ \E k \in t.blocks : /\ k.name = name /\ k.size = n
                                  /\ \E i \in 1..Len(t.region[r].chain) :
                                        k.host = t.region[r].chain[i]
  <1>. DEFINE b == LastBuff(s, r)
              k == [name |-> name, host |-> b, size |-> n]
  <1>1. /\ t \in States
        /\ t.region = s.region
        /\ DOMAIN t.buff = DOMAIN s.buff
        /\ \A x \in DOMAIN s.buff : /\ t.buff[x].kind = s.buff[x].kind
                                    /\ t.buff[x].size = s.buff[x].size
        /\ b \in DOMAIN s.buff
        /\ Len(s.region[r].chain) \in 1..Len(s.region[r].chain)
        /\ t.blocks = s.blocks \cup {k}
    BY PlacedShape DEF PlacedIs
  <1>2. s \in States
    BY DEF Core
  <1>3. Grew(s, t)
    BY <1>1, <1>2, ChainIs DEF Grew
  <1>4. Rooted(t)
    BY <1>1 DEF Core, Rooted
  <1>5. Chained(t)
    <2>1. Chained(s)
      BY DEF Core
    <2>2. /\ t.region = s.region /\ DOMAIN t.buff = DOMAIN s.buff
          /\ \A c \in DOMAIN s.buff : t.buff[c].kind = s.buff[c].kind
      BY <1>1
    <2>. HIDE DEF b, k
    <2>3. \A q \in DOMAIN t.region : \A i \in 1..Len(t.region[q].chain) :
             /\ t.region[q].chain[i] \in DOMAIN t.buff
             /\ t.buff[t.region[q].chain[i]].kind = t.region[q].mode.kind
      <3>. SUFFICES ASSUME NEW q \in DOMAIN s.region, NEW i \in 1..Len(s.region[q].chain)
                    PROVE  /\ s.region[q].chain[i] \in DOMAIN t.buff
                           /\ t.buff[s.region[q].chain[i]].kind = s.region[q].mode.kind
        BY <2>2
      <3>. DEFINE c == s.region[q].chain[i]
      <3>1. c \in DOMAIN s.buff /\ s.buff[c].kind = s.region[q].mode.kind
        BY <2>1 DEF Chained
      <3>. HIDE DEF c
      <3>2. c \in DOMAIN t.buff /\ t.buff[c].kind = s.region[q].mode.kind
        BY <2>2, <3>1
      <3>. QED
        BY <3>2 DEF c
    <2>4. \A c \in DOMAIN t.buff : \E q \in DOMAIN t.region :
             \E i \in 1..Len(t.region[q].chain) : t.region[q].chain[i] = c
      BY <2>1, <2>2 DEF Chained
    <2>5. \A p, q \in DOMAIN t.region :
             \A i \in 1..Len(t.region[p].chain), j \in 1..Len(t.region[q].chain) :
                t.region[p].chain[i] = t.region[q].chain[j] => p = q /\ i = j
      BY <2>1, <2>2 DEF Chained
    <2>. QED
      BY <2>3, <2>4, <2>5 DEF Chained
  <1>6. Treed(t)
    BY <1>3, TreeGrows DEF Core
  <1>7. \A l \in s.blocks : l.name # name
    BY DEF Fresh, NamesOf
  <1>8. Lodged(t)
    <2>1. k.name = name /\ k.host = b
      OBVIOUS
    <2>. HIDE DEF k, b
    <2>. QED
      BY <1>1, <1>7, <2>1 DEF Core, Lodged
  <1>9. ASSUME NEW q \in DOMAIN t.region \ {Root}
        PROVE  Hosted(t, q)
    <2>1. q \in DOMAIN s.region /\ Hosted(s, q) /\ s.region[q].parent \in DOMAIN s.region
      BY <1>1 DEF Core, Treed
    <2>2. \A x : Lies(s, x, s.region[q].parent) => Lies(t, x, s.region[q].parent)
      BY <1>1, <1>2, <1>3, <2>1, LiesGrows
    <2>. QED
      BY <1>1, <2>1, <2>2 DEF Hosted
  <1>10. ASSUME NEW q \in DOMAIN t.region \ {Root}
         PROVE  Roomy(t, q)
    <2>1. q \in DOMAIN s.region /\ Roomy(s, q)
      BY <1>1 DEF Core
    <2>2. s.region[q].size >= MinBuff
      BY <2>1 DEF Roomy
    <2>3. ASSUME NEW i \in 1..Len(s.region[q].chain), NEW l \in t.blocks,
                 l.name = <<"buff", s.region[q].chain[i]>>
          PROVE  BuffStruct + t.buff[s.region[q].chain[i]].size <= l.size
      <3>. DEFINE c == s.region[q].chain[i]
      <3>1. c \in DOMAIN s.buff
        BY <2>1 DEF Core, Chained
      <3>2. c \in AllBuffs
        BY <1>2, <3>1, StateIs
      <3>3. c # RootBuff
        <4>1. Root \in DOMAIN s.region /\ s.region[Root].chain = <<RootBuff>>
          BY DEF Core, Rooted
        <4>2. 1 \in 1..Len(s.region[Root].chain) /\ s.region[Root].chain[1] = RootBuff
          BY <4>1
        <4>3. Chained(s) /\ q # Root
          BY DEF Core
        <4>4. \A j \in 1..Len(s.region[Root].chain) : c = s.region[Root].chain[j] => q = Root
          <5>. HIDE DEF b, k
          <5>. QED
            BY <2>1, <4>1, <4>3 DEF Chained
        <4>. HIDE DEF c
        <4>. QED
          BY <4>2, <4>3, <4>4
      <3>4. l.name \in BuffNames
        BY <2>3, <3>2, <3>3 DEF BuffNames, AllBuffs
      <3>5. l \in s.blocks
        BY <1>1, <3>4 DEF Fresh
      <3>. QED
        BY <1>1, <2>1, <2>3, <3>1, <3>5 DEF Roomy
    <2>. QED
      BY <1>1, <2>2, <2>3 DEF Roomy
  <1>11. NamesOf(t) = NamesOf(s) \cup {name}
    <2>1. k.name = name
      OBVIOUS
    <2>. HIDE DEF k
    <2>. QED
      BY <1>1, <2>1 DEF NamesOf
  <1>12. /\ k \in t.blocks /\ k.name = name /\ k.size = n
         /\ k.host = t.region[r].chain[Len(t.region[r].chain)]
    BY <1>1 DEF LastBuff
  <1>. HIDE DEF k, b
  <1>13. Core(t)
    BY <1>1, <1>4, <1>5, <1>6, <1>8, <1>9, <1>10 DEF Core
  <1>. QED
    BY <1>1, <1>3, <1>11, <1>12, <1>13

Given(s, r, name, n) ==
    \E k \in s.blocks : /\ k.name = name /\ k.size = n
                        /\ \E i \in 1..Len(s.region[r].chain) :
                              k.host = s.region[r].chain[i]

Outcomes == [s : States, ok : BOOLEAN]

(* What comes of a request of r for n bytes, to be called name.            *)
Good(s, r, name, n, o) ==
    /\ o \in Outcomes
    /\ Sound(o.s) /\ Grew(s, o.s)
    /\ \A q \in DOMAIN s.region \ {r} :
          s.region[q].chain = <<>> => o.s.region[q].chain = <<>>
    /\ NamesOf(o.s) \subseteq NamesOf(s) \cup BuffNames \cup (IF o.ok THEN {name} ELSE {})
    /\ o.ok => Given(o.s, r, name, n)

LEMMA OutcomeIs ==
    ASSUME NEW s \in States, NEW ok \in BOOLEAN
    PROVE  /\ Outcome(s, ok) \in Outcomes
           /\ Outcome(s, ok).s = s /\ Outcome(s, ok).ok = ok
  BY DEF Outcome, Outcomes

LEMMA RefusedGood ==
    ASSUME NEW s, Sound(s), NEW r, NEW name, NEW n
    PROVE  Good(s, r, name, n, Outcome(s, FALSE))
  <1>1. s \in States
    BY DEF Sound, Core
  <1>2. /\ Outcome(s, FALSE) \in Outcomes
        /\ Outcome(s, FALSE).s = s /\ Outcome(s, FALSE).ok = FALSE
    BY <1>1, OutcomeIs
  <1>3. Grew(s, s)
    BY <1>1, GrewSelf
  <1>. QED
    BY <1>2, <1>3 DEF Good

LEMMA AskAnswers ==
    ASSUME NEW s, NEW r, NEW name, NEW n, NEW o \in Ask(s, r, name, n)
    PROVE  /\ \/ o = Outcome(s, FALSE)
              \/ o = Outcome(Placed(s, LastBuff(s, r), name, n), TRUE)
           /\ /\ s.buff[LastBuff(s, r)].kind = "nofree"
              /\ s.buff[LastBuff(s, r)].used + n <= s.buff[LastBuff(s, r)].size
              => o = Outcome(Placed(s, LastBuff(s, r), name, n), TRUE)
  BY DEF Ask, Answers

LEMMA PlacedServes ==
    ASSUME NEW s, Core(s), NEW r \in DOMAIN s.region, s.region[r].chain # <<>>,
           NEW name, Fresh(s, name), NEW n \in Nat \ {0},
           NEW t, t = Placed(s, LastBuff(s, r), name, n),
           NEW q \in DOMAIN s.region, NEW m \in 0..Len(s.region[q].chain), Serves(s, q, m)
    PROVE  Serves(t, q, m)
  <1>1. /\ t.region = s.region
        /\ DOMAIN t.buff = DOMAIN s.buff
        /\ \A b \in DOMAIN s.buff : t.buff[b].used >= s.buff[b].used
        /\ t \in States
    BY PlacedShape DEF PlacedIs
  <1>2. Chained(s) /\ s \in States
    BY DEF Core
  <1>3. ASSUME NEW i \in 2..m, s.region[q].mode.kind = "nofree"
        PROVE  t.buff[t.region[q].chain[i]].used > Header
    <2>. DEFINE b == s.region[q].chain[i]
    <2>1. Len(s.region[q].chain) \in Nat
      BY <1>2, ChainIs
    <2>2. i \in 1..Len(s.region[q].chain)
      BY <2>1
    <2>3. b \in DOMAIN s.buff
      BY <1>2, <2>2 DEF Chained
    <2>4. s.buff[b] \in Bufs /\ t.buff[b] \in Bufs
      BY <1>1, <1>2, <2>3, StateIs
    <2>5. s.buff[b].used > Header /\ t.buff[b].used >= s.buff[b].used
      BY <1>1, <1>3, <2>3 DEF Serves
    <2>6. s.buff[b].used \in Nat /\ t.buff[b].used \in Nat
      BY <2>4 DEF Bufs
    <2>7. t.region[q].chain[i] = b
      BY <1>1
    <2>. HIDE DEF b
    <2>. QED
      BY <2>5, <2>6, <2>7, NumbersAre
  <1>. QED
    BY <1>1, <1>3 DEF Serves

LEMMA PlacedGood ==
    ASSUME NEW s, Sound(s), NEW r \in DOMAIN s.region, s.region[r].chain # <<>>,
           NEW name, Fresh(s, name), NEW n \in Nat \ {0}
    PROVE  Good(s, r, name, n, Outcome(Placed(s, LastBuff(s, r), name, n), TRUE))
  <1>. DEFINE t == Placed(s, LastBuff(s, r), name, n)
  <1>0. Core(s)
    BY DEF Sound
  <1>1. /\ Core(t) /\ Grew(s, t) /\ t.region = s.region
        /\ NamesOf(t) = NamesOf(s) \cup {name}
        /\ Given(t, r, name, n)
    BY <1>0, PlacedKeeps DEF Given
  <1>2. ASSUME NEW q \in DOMAIN s.region
        PROVE  Serves(t, q, Len(s.region[q].chain))
    <2>1. Serves(s, q, Len(s.region[q].chain))
      BY DEF Sound
    <2>2. Len(s.region[q].chain) \in 0..Len(s.region[q].chain)
      BY <1>0, ChainIs DEF Core
    <2>. QED
      BY <1>0, <2>1, <2>2, PlacedServes
  <1>. HIDE DEF t
  <1>3. Sound(t) /\ t \in States
    BY <1>1, <1>2 DEF Sound, Core
  <1>4. /\ Outcome(t, TRUE) \in Outcomes
        /\ Outcome(t, TRUE).s = t /\ Outcome(t, TRUE).ok = TRUE
    BY <1>3, OutcomeIs
  <1>5. Good(s, r, name, n, Outcome(t, TRUE))
    BY <1>1, <1>3, <1>4 DEF Good
  <1>. QED
    BY <1>5 DEF t

LEMMA AskGood ==
    ASSUME NEW s, Sound(s), NEW r \in DOMAIN s.region, s.region[r].chain # <<>>,
           NEW name, Fresh(s, name), NEW n \in Nat \ {0},
           NEW o \in Ask(s, r, name, n)
    PROVE  Good(s, r, name, n, o)
  <1>1. CASE o = Outcome(s, FALSE)
    BY <1>1, RefusedGood
  <1>2. CASE o = Outcome(Placed(s, LastBuff(s, r), name, n), TRUE)
    BY <1>2, PlacedGood
  <1>. QED
    BY <1>1, <1>2, AskAnswers

(* The block that was allocated for a buffer of r joins its chain.         *)
JoinedIs(s, r, size, b, u) ==
    /\ u \in States
    /\ b \in Buffs /\ b \notin DOMAIN s.buff /\ <<"buff", b>> \notin NamesOf(s)
    /\ DOMAIN u.region = DOMAIN s.region
    /\ \A q \in DOMAIN s.region \ {r} : u.region[q] = s.region[q]
    /\ u.region[r].parent = s.region[r].parent
    /\ u.region[r].mode = s.region[r].mode
    /\ u.region[r].size >= MinBuff
    /\ Len(u.region[r].chain) = Len(s.region[r].chain) + 1
    /\ u.region[r].chain[Len(s.region[r].chain) + 1] = b
    /\ \A i \in 1..Len(s.region[r].chain) : u.region[r].chain[i] = s.region[r].chain[i]
    /\ DOMAIN u.buff = DOMAIN s.buff \cup {b}
    /\ \A x \in DOMAIN s.buff : u.buff[x] = s.buff[x]
    /\ u.buff[b] = [kind |-> s.region[r].mode.kind, size |-> size, used |-> Header]
    /\ u.blocks = {IF k.name = Incoming
                   THEN [name |-> <<"buff", b>>, host |-> k.host, size |-> k.size]
                   ELSE k : k \in s.blocks}

LEMMA SizesGrow ==
    ASSUME NEW s, Core(s), NEW r \in DOMAIN s.region \ {Root}, NEW n \in Nat
    PROVE  /\ DefaultSize(s.region[r]) \in Nat /\ DefaultSize(s.region[r]) >= MinBuff
           /\ Larger(n, DefaultSize(s.region[r])) \in Nat
           /\ Larger(n, DefaultSize(s.region[r])) >= MinBuff
           /\ Larger(n, DefaultSize(s.region[r])) >= n
  <1>1. s.region[r].size \in Nat /\ s.region[r].size >= MinBuff
    BY ChainIs DEF Core, Roomy
  <1>2. DefaultSize(s.region[r]) \in {s.region[r].size, 2 * s.region[r].size}
    BY DEF DefaultSize
  <1>3. DefaultSize(s.region[r]) \in Nat /\ DefaultSize(s.region[r]) >= MinBuff
    BY <1>1, <1>2, NumbersAre
  <1>. QED
    BY <1>3, NumbersAre DEF Larger

LEMMA Renamed ==
    ASSUME NEW k \in Blocks, NEW x
    PROVE  [k EXCEPT !.name = x] = [name |-> x, host |-> k.host, size |-> k.size]
  <1>1. k = [name |-> k.name, host |-> k.host, size |-> k.size]
    BY DEF Blocks
  <1>2. [[name |-> k.name, host |-> k.host, size |-> k.size] EXCEPT !.name = x]
           = [name |-> x, host |-> k.host, size |-> k.size]
    OBVIOUS
  <1>. QED
    BY <1>1, <1>2, Zenon

LEMMA JoinedRecord ==
    ASSUME NEW F, NEW B, NEW K, NEW m, NEW F2, NEW B2, NEW K2,
           NEW s, s = [region |-> F, buff |-> B, blocks |-> K, misused |-> m]
    PROVE  [[[s EXCEPT !.region = F2] EXCEPT !.buff = B2] EXCEPT !.blocks = K2] =
              [region |-> F2, buff |-> B2, blocks |-> K2, misused |-> m]
  <1>1. [s EXCEPT !.region = F2] = [region |-> F2, buff |-> B, blocks |-> K, misused |-> m]
    OBVIOUS
  <1>2. [[region |-> F2, buff |-> B, blocks |-> K, misused |-> m] EXCEPT !.buff = B2]
           = [region |-> F2, buff |-> B2, blocks |-> K, misused |-> m]
    OBVIOUS
  <1>3. [[region |-> F2, buff |-> B2, blocks |-> K, misused |-> m] EXCEPT !.blocks = K2]
           = [region |-> F2, buff |-> B2, blocks |-> K2, misused |-> m]
    OBVIOUS
  <1>. QED
    BY <1>1, <1>2, <1>3, Zenon

LEMMA JoinedShape ==
    ASSUME NEW s, Core(s), NEW r \in DOMAIN s.region \ {Root},
           NEW size \in Nat, size >= MinBuff, Unnamed(s) # {},
           NEW u, u = Joined(s, r, size)
    PROVE  JoinedIs(s, r, size, Min(Unnamed(s)), u)
  <1>. DEFINE b == Min(Unnamed(s))
              g == s.region[r]
              n == Len(g.chain)
              h == [parent |-> g.parent, chain |-> Append(g.chain, b),
                    size |-> DefaultSize(g), mode |-> g.mode]
              d == [kind |-> g.mode.kind, size |-> size, used |-> Header]
              R == [s.region EXCEPT ![r] = h]
              B == With(s.buff, b, d)
              K == {IF k.name = Incoming
                    THEN [name |-> <<"buff", b>>, host |-> k.host, size |-> k.size]
                    ELSE k : k \in s.blocks}
  <1>1. s \in States
    BY DEF Core
  <1>2. /\ s = [region |-> s.region, buff |-> s.buff, blocks |-> s.blocks, misused |-> s.misused]
        /\ DOMAIN s.region \subseteq AllRegions
        /\ s.region \in [DOMAIN s.region -> Structs]
        /\ DOMAIN s.buff \subseteq AllBuffs
        /\ s.buff \in [DOMAIN s.buff -> Bufs]
        /\ s.blocks \subseteq Blocks
        /\ s.misused = FALSE
    BY <1>1, StateIs
  <1>3. b \in Unnamed(s)
    <2>1. Unnamed(s) \in SUBSET Nat
      BY NumbersAre DEF Unnamed
    <2>. QED
      BY <2>1, MinIsLeast
  <1>4. b \in Buffs /\ b \notin DOMAIN s.buff /\ <<"buff", b>> \notin NamesOf(s)
    BY <1>3 DEF Unnamed, NamesOf
  <1>5. g \in Structs
    BY <1>2
  <1>6. /\ g.parent \in AllRegions /\ g.chain \in Seq(AllBuffs) /\ g.mode \in AllModes
        /\ g.size \in Nat /\ g = [parent |-> g.parent, chain |-> g.chain, size |-> g.size,
                                  mode |-> g.mode]
    BY <1>5 DEF Structs
  <1>7. DefaultSize(g) \in Nat /\ DefaultSize(g) >= MinBuff
    BY SizesGrow
  <1>8. b \in AllBuffs
    BY <1>4 DEF AllBuffs
  <1>. HIDE DEF b
  <1>9. /\ Append(g.chain, b) \in Seq(AllBuffs)
        /\ n \in Nat
        /\ Len(Append(g.chain, b)) = n + 1
        /\ Append(g.chain, b)[n + 1] = b
        /\ \A i \in 1..n : Append(g.chain, b)[i] = g.chain[i]
    BY <1>6, <1>8
  <1>10. h \in Structs
    BY <1>6, <1>7, <1>9 DEF Structs
  <1>11. d \in Bufs
    BY <1>6, NumbersAre DEF Bufs, AllModes
  <1>12. BuffSize(size) = size /\ NewBuff(g.mode.kind, BuffSize(size)) = d
    BY NumbersAre DEF BuffSize, Larger, NewBuff
  <1>13. u = [region |-> R, buff |-> B, blocks |-> K, misused |-> FALSE]
    <2>1. \A k \in s.blocks : [k EXCEPT !.name = <<"buff", b>>] =
                                 [name |-> <<"buff", b>>, host |-> k.host, size |-> k.size]
      BY <1>2, Renamed
    <2>. DEFINE K2 == {IF k.name = Incoming THEN [k EXCEPT !.name = <<"buff", b>>]
                       ELSE k : k \in s.blocks}
    <2>2. K2 = K
      <3>. DEFINE e(k) == [k EXCEPT !.name = <<"buff", b>>]
                  f(k) == [name |-> <<"buff", b>>, host |-> k.host, size |-> k.size]
      <3>1. \A k \in s.blocks : e(k) = f(k)
        BY <2>1
      <3>. HIDE DEF e, f
      <3>2. {IF k.name = Incoming THEN e(k) ELSE k : k \in s.blocks}
               = {IF k.name = Incoming THEN f(k) ELSE k : k \in s.blocks}
        BY <3>1
      <3>. QED
        BY <3>2 DEF e, f
    <2>4. u = [[[s EXCEPT !.region = R] EXCEPT !.buff = B] EXCEPT !.blocks = K2]
      BY <1>12, Zenon DEF Joined, b, Region
    <2>. HIDE DEF K, K2, B, R
    <2>. QED
      BY <1>2, <2>2, <2>4, JoinedRecord
  <1>14. /\ DOMAIN R = DOMAIN s.region /\ R \in [DOMAIN s.region -> Structs]
         /\ R[r] = h /\ \A q \in DOMAIN s.region \ {r} : R[q] = s.region[q]
    <2>. HIDE DEF h
    <2>. QED
      BY <1>2, <1>10
  <1>15. R \in RegionMaps
    BY <1>2, <1>14, IsRegionMap
  <1>16. /\ B \in BuffMaps
         /\ DOMAIN B = DOMAIN s.buff \cup {b} /\ B[b] = d
         /\ \A x \in DOMAIN s.buff : B[x] = s.buff[x]
    <2>. HIDE DEF d
    <2>0. \A x \in DOMAIN s.buff : x # b
      BY <1>4
    <2>1. DOMAIN B = DOMAIN s.buff \cup {b} /\ B[b] = d /\ \A x \in DOMAIN s.buff : B[x] = s.buff[x]
      BY <2>0 DEF With
    <2>2. B \in [DOMAIN s.buff \cup {b} -> Bufs]
      BY <1>2, <1>11 DEF With
    <2>. QED
      BY <1>2, <1>8, <2>1, <2>2, IsBuffMap
  <1>17. K \in SUBSET Blocks
    <2>1. ASSUME NEW k \in s.blocks
          PROVE  [name |-> <<"buff", b>>, host |-> k.host, size |-> k.size] \in Blocks
      <3>1. k.host \in AllBuffs /\ k.size \in Nat
        BY <1>1, BlockIs
      <3>2. <<"buff", b>> \in AllNames
        BY <1>4, NamesDiffer DEF AllNames, BuffNames
      <3>. QED
        BY <3>1, <3>2 DEF Blocks
    <2>. QED
      BY <1>2, <2>1
  <1>18. h.parent = g.parent /\ h.mode = g.mode /\ h.size = DefaultSize(g)
         /\ h.chain = Append(g.chain, b)
    OBVIOUS
  <1>. HIDE DEF R, B, K, d, h
  <1>19. u.region = R /\ u.buff = B /\ u.blocks = K /\ u.misused = FALSE
    BY <1>13
  <1>20. u \in States
    <2>1. R \in RegionMaps /\ B \in BuffMaps /\ K \in SUBSET Blocks
      BY <1>15, <1>16, <1>17, Zenon
    <2>. QED
      BY <1>13, <2>1 DEF States
  <1>21. JoinedIs(s, r, size, b, u)
    BY <1>4, <1>7, <1>9, <1>14, <1>16, <1>18, <1>19, <1>20 DEF JoinedIs, K, d
  <1>. QED
    BY <1>21 DEF b

(* No other chain has the heap's own buffer.                               *)
LEMMA BuffsOfRegions ==
    ASSUME NEW s, Core(s), NEW r \in DOMAIN s.region \ {Root},
           NEW i \in 1..Len(s.region[r].chain)
    PROVE  /\ s.region[r].chain[i] \in Buffs
           /\ s.region[r].chain[i] \in DOMAIN s.buff
           /\ <<"buff", s.region[r].chain[i]>> # Incoming
  <1>. DEFINE c == s.region[r].chain[i]
  <1>1. s \in States /\ Chained(s) /\ Rooted(s)
    BY DEF Core
  <1>2. c \in DOMAIN s.buff
    BY <1>1 DEF Chained
  <1>3. c \in AllBuffs
    BY <1>1, <1>2, StateIs
  <1>4. Root \in DOMAIN s.region /\ s.region[Root].chain = <<RootBuff>>
    BY <1>1 DEF Rooted
  <1>5. 1 \in 1..Len(s.region[Root].chain) /\ s.region[Root].chain[1] = RootBuff
    BY <1>4
  <1>6. c # RootBuff
    BY <1>1, <1>4, <1>5 DEF Chained
  <1>7. <<"buff", c>> # Incoming
    BY <1>6, NamesDiffer
  <1>. QED
    BY <1>2, <1>3, <1>6, <1>7 DEF AllBuffs

Renaming(s, b, u) ==
    /\ Incoming \notin NamesOf(u)
    /\ NamesOf(u) \subseteq NamesOf(s) \cup {<<"buff", b>>}
    /\ \A k \in s.blocks : k.name # Incoming => k \in u.blocks
    /\ \A k \in s.blocks : k.name = Incoming =>
          [name |-> <<"buff", b>>, host |-> k.host, size |-> k.size] \in u.blocks
    /\ \A l \in u.blocks : \E k \in s.blocks :
          IF k.name = Incoming THEN l = [name |-> <<"buff", b>>, host |-> k.host, size |-> k.size]
          ELSE l = k

LEMMA JoinedRenames ==
    ASSUME NEW s, NEW r, NEW size, NEW b, NEW u, JoinedIs(s, r, size, b, u)
    PROVE  Renaming(s, b, u)
  <1>. DEFINE f(k) == [name |-> <<"buff", b>>, host |-> k.host, size |-> k.size]
  <1>1. u.blocks = {IF k.name = Incoming THEN f(k) ELSE k : k \in s.blocks}
    BY DEF JoinedIs
  <1>2. \A k : f(k).name = <<"buff", b>>
    OBVIOUS
  <1>3. <<"buff", b>> # Incoming
    BY NamesDiffer DEF JoinedIs, BuffNames
  <1>. HIDE DEF f
  <1>4. \A l \in u.blocks : \E k \in s.blocks : l = IF k.name = Incoming THEN f(k) ELSE k
    BY <1>1
  <1>5. \A k \in s.blocks : (IF k.name = Incoming THEN f(k) ELSE k) \in u.blocks
    BY <1>1
  <1>6. \A l \in u.blocks : l.name # Incoming /\ (l.name = <<"buff", b>> \/ l.name \in NamesOf(s))
    BY <1>2, <1>3, <1>4 DEF NamesOf
  <1>7. Incoming \notin NamesOf(u) /\ NamesOf(u) \subseteq NamesOf(s) \cup {<<"buff", b>>}
    BY <1>6 DEF NamesOf
  <1>8. \A l \in u.blocks : \E k \in s.blocks :
           IF k.name = Incoming THEN l = f(k) ELSE l = k
    BY <1>4
  <1>. QED
    BY <1>5, <1>7, <1>8 DEF Renaming, f

LEMMA JoinedLies ==
    ASSUME NEW s \in States, NEW r, NEW size, NEW b, NEW u, JoinedIs(s, r, size, b, u),
           NEW q \in DOMAIN s.region, NEW name, Lies(s, name, q)
    PROVE  /\ name # Incoming => Lies(u, name, q)
           /\ name = Incoming => Lies(u, <<"buff", b>>, q)
  <1>1. PICK k \in s.blocks : k.name = name /\ \E i \in 1..Len(s.region[q].chain) :
                                                   k.host = s.region[q].chain[i]
    BY DEF Lies
  <1>2. PICK i \in 1..Len(s.region[q].chain) : k.host = s.region[q].chain[i]
    BY <1>1
  <1>3. Len(s.region[q].chain) \in Nat
    BY ChainIs
  <1>4. i \in 1..Len(u.region[q].chain) /\ k.host = u.region[q].chain[i]
    <2>1. CASE q = r
      BY <1>2, <1>3, <2>1 DEF JoinedIs
    <2>2. CASE q # r
      BY <1>2, <2>2 DEF JoinedIs
    <2>. QED
      BY <2>1, <2>2
  <1>5. Renaming(s, b, u)
    BY JoinedRenames
  <1>6. CASE name # Incoming
    BY <1>1, <1>4, <1>5, <1>6 DEF Lies, Renaming
  <1>7. CASE name = Incoming
    <2>. DEFINE l == [name |-> <<"buff", b>>, host |-> k.host, size |-> k.size]
    <2>1. l \in u.blocks /\ l.name = <<"buff", b>> /\ l.host = k.host
      BY <1>1, <1>5, <1>7 DEF Renaming
    <2>. HIDE DEF l
    <2>. QED
      BY <1>4, <1>7, <2>1 DEF Lies
  <1>. QED
    BY <1>6, <1>7

LEMMA JoinedChained ==
    ASSUME NEW s, Core(s), NEW r \in DOMAIN s.region, NEW size, NEW b, NEW u,
           JoinedIs(s, r, size, b, u)
    PROVE  Chained(u)
  <1>. DEFINE n == Len(s.region[r].chain)
  <1>1. s \in States /\ Chained(s)
    BY DEF Core
  <1>2. n \in Nat
    BY <1>1, ChainIs
  <1>3. \A q \in DOMAIN s.region \ {r} : u.region[q] = s.region[q]
    BY DEF JoinedIs
  <1>4. /\ DOMAIN u.region = DOMAIN s.region
        /\ u.region[r].mode = s.region[r].mode
        /\ Len(u.region[r].chain) = n + 1
        /\ u.region[r].chain[n + 1] = b
        /\ \A i \in 1..n : u.region[r].chain[i] = s.region[r].chain[i]
        /\ b \notin DOMAIN s.buff
        /\ DOMAIN u.buff = DOMAIN s.buff \cup {b}
        /\ \A x \in DOMAIN s.buff : u.buff[x] = s.buff[x]
        /\ u.buff[b].kind = s.region[r].mode.kind
    BY DEF JoinedIs
  <1>. HIDE DEF n
  <1>5. ASSUME NEW q \in DOMAIN s.region, NEW i \in 1..Len(u.region[q].chain)
        PROVE  \/ /\ i \in 1..Len(s.region[q].chain)
                  /\ u.region[q].chain[i] = s.region[q].chain[i]
               \/ /\ q = r /\ i = n + 1 /\ u.region[q].chain[i] = b
    <2>1. CASE q = r
      <3>1. i \in 1..(n + 1) /\ Len(s.region[q].chain) = n
        BY <1>4, <2>1 DEF n
      <3>2. i \in 1..n \/ i = n + 1
        BY <1>2, <3>1
      <3>. QED
        BY <1>4, <2>1, <3>1, <3>2
    <2>2. CASE q # r
      BY <1>3, <2>2
    <2>. QED
      BY <2>1, <2>2
  <1>6. ASSUME NEW q \in DOMAIN s.region, NEW i \in 1..Len(s.region[q].chain)
        PROVE  i \in 1..Len(u.region[q].chain) /\ u.region[q].chain[i] = s.region[q].chain[i]
    <2>1. CASE q = r
      <3>1. i \in 1..n
        BY <2>1 DEF n
      <3>2. i \in 1..(n + 1)
        BY <1>2, <3>1
      <3>. QED
        BY <1>4, <2>1, <3>1, <3>2
    <2>2. CASE q # r
      BY <1>3, <2>2
    <2>. QED
      BY <2>1, <2>2
  <1>7. ASSUME NEW q \in DOMAIN u.region, NEW i \in 1..Len(u.region[q].chain)
        PROVE  /\ u.region[q].chain[i] \in DOMAIN u.buff
               /\ u.buff[u.region[q].chain[i]].kind = u.region[q].mode.kind
    <2>1. u.region[q].mode = s.region[q].mode /\ q \in DOMAIN s.region
      BY <1>3, <1>4
    <2>2. CASE i \in 1..Len(s.region[q].chain) /\ u.region[q].chain[i] = s.region[q].chain[i]
      <3>. DEFINE c == s.region[q].chain[i]
      <3>1. c \in DOMAIN s.buff /\ s.buff[c].kind = s.region[q].mode.kind
        BY <1>1, <2>1, <2>2 DEF Chained
      <3>2. c \in DOMAIN u.buff /\ u.buff[c] = s.buff[c]
        BY <1>4, <3>1
      <3>. QED
        BY <2>1, <2>2, <3>1, <3>2
    <2>3. CASE q = r /\ i = n + 1 /\ u.region[q].chain[i] = b
      BY <1>4, <2>1, <2>3
    <2>. QED
      BY <1>5, <2>1, <2>2, <2>3
  <1>8. ASSUME NEW c \in DOMAIN u.buff
        PROVE  \E q \in DOMAIN u.region : \E i \in 1..Len(u.region[q].chain) :
                  u.region[q].chain[i] = c
    <2>1. CASE c = b
      BY <1>2, <1>4, <2>1
    <2>2. CASE c \in DOMAIN s.buff
      <3>1. PICK q \in DOMAIN s.region : \E i \in 1..Len(s.region[q].chain) :
               s.region[q].chain[i] = c
        BY <1>1, <2>2 DEF Chained
      <3>2. PICK i \in 1..Len(s.region[q].chain) : s.region[q].chain[i] = c
        BY <3>1
      <3>3. i \in 1..Len(u.region[q].chain) /\ u.region[q].chain[i] = c
        BY <1>6, <3>2
      <3>4. q \in DOMAIN u.region
        BY <1>4
      <3>. QED
        BY <3>3, <3>4
    <2>. QED
      BY <1>4, <2>1, <2>2
  <1>9. ASSUME NEW p \in DOMAIN u.region, NEW q \in DOMAIN u.region,
               NEW i \in 1..Len(u.region[p].chain), NEW j \in 1..Len(u.region[q].chain),
               u.region[p].chain[i] = u.region[q].chain[j]
        PROVE  p = q /\ i = j
    <2>1. \A x \in DOMAIN s.region : \A y \in 1..Len(s.region[x].chain) :
             s.region[x].chain[y] # b
      BY <1>1, <1>4 DEF Chained
    <2>2. p \in DOMAIN s.region /\ q \in DOMAIN s.region
      BY <1>4
    <2>3. CASE /\ i \in 1..Len(s.region[p].chain) /\ u.region[p].chain[i] = s.region[p].chain[i]
               /\ j \in 1..Len(s.region[q].chain) /\ u.region[q].chain[j] = s.region[q].chain[j]
      <3>1. s.region[p].chain[i] = s.region[q].chain[j]
        BY <1>9, <2>3
      <3>. QED
        BY <1>1, <2>2, <2>3, <3>1 DEF Chained
    <2>4. CASE /\ p = r /\ i = n + 1 /\ u.region[p].chain[i] = b
               /\ q = r /\ j = n + 1 /\ u.region[q].chain[j] = b
      BY <2>4
    <2>5. CASE /\ i \in 1..Len(s.region[p].chain) /\ u.region[p].chain[i] = s.region[p].chain[i]
               /\ u.region[q].chain[j] = b
      BY <1>9, <2>1, <2>2, <2>5
    <2>6. CASE /\ j \in 1..Len(s.region[q].chain) /\ u.region[q].chain[j] = s.region[q].chain[j]
               /\ u.region[p].chain[i] = b
      BY <1>9, <2>1, <2>2, <2>6
    <2>7. /\ \/ i \in 1..Len(s.region[p].chain) /\ u.region[p].chain[i] = s.region[p].chain[i]
             \/ p = r /\ i = n + 1 /\ u.region[p].chain[i] = b
          /\ \/ j \in 1..Len(s.region[q].chain) /\ u.region[q].chain[j] = s.region[q].chain[j]
             \/ q = r /\ j = n + 1 /\ u.region[q].chain[j] = b
      <3>. HIDE DEF n
      <3>. QED
        BY <1>5, <2>2
    <2>. QED
      BY <2>3, <2>4, <2>5, <2>6, <2>7
  <1>. QED
    BY <1>7, <1>8, <1>9 DEF Chained

LEMMA JoinedKeeps ==
    ASSUME NEW s, Core(s), NEW r \in DOMAIN s.region \ {Root}, NEW size \in Nat,
           Given(s, s.region[r].parent, Incoming, BuffStruct + size),
           NEW b, NEW u, JoinedIs(s, r, size, b, u)
    PROVE  Core(u)
  <1>. DEFINE p == s.region[r].parent
  <1>1. s \in States /\ Chained(s) /\ Rooted(s) /\ Treed(s) /\ Lodged(s)
    BY DEF Core
  <1>2. /\ DOMAIN u.region = DOMAIN s.region
        /\ \A q \in DOMAIN s.region \ {r} : u.region[q] = s.region[q]
        /\ u.region[r].parent = p
        /\ u.region[r].size >= MinBuff
        /\ b \in Buffs /\ b \notin DOMAIN s.buff /\ <<"buff", b>> \notin NamesOf(s)
        /\ DOMAIN u.buff = DOMAIN s.buff \cup {b}
        /\ \A x \in DOMAIN s.buff : u.buff[x] = s.buff[x]
        /\ u.buff[b].size = size
        /\ u \in States
    BY DEF JoinedIs
  <1>3. Renaming(s, b, u) /\ Chained(u)
    BY JoinedRenames, JoinedChained
  <1>4. p \in DOMAIN s.region
    BY <1>1 DEF Treed
  <1>5. PICK g \in s.blocks : /\ g.name = Incoming /\ g.size = BuffStruct + size
                              /\ \E i \in 1..Len(s.region[p].chain) :
                                    g.host = s.region[p].chain[i]
    BY DEF Given
  <1>6. Lies(s, Incoming, p)
    BY <1>5 DEF Lies
  <1>7. Rooted(u)
    BY <1>1, <1>2 DEF Rooted
  <1>8. \A q \in DOMAIN s.region : u.region[q].parent = s.region[q].parent
    BY <1>2
  <1>9. Treed(u)
    <2>1. \A S : Closed(u, S) <=> Closed(s, S)
      BY <1>2, <1>8 DEF Closed
    <2>. QED
      BY <1>1, <1>2, <1>8, <2>1, Zenon DEF Treed
  <1>10. \A l \in u.blocks : \E k \in s.blocks :
            /\ l.host = k.host /\ l.size = k.size
            /\ IF k.name = Incoming THEN k = g /\ l.name = <<"buff", b>> ELSE l = k
    BY <1>1, <1>3, <1>5 DEF Renaming, Lodged
  <1>11. Lodged(u)
    <2>1. \A l \in u.blocks : l.host \in DOMAIN u.buff
      BY <1>1, <1>2, <1>10 DEF Lodged
    <2>2. ASSUME NEW l \in u.blocks, NEW m \in u.blocks, l.name = m.name
          PROVE  l = m
      <3>1. PICK k \in s.blocks : 
               IF k.name = Incoming THEN l = [name |-> <<"buff", b>>, host |-> k.host, size |-> k.size]
               ELSE l = k
        BY <1>3 DEF Renaming
      <3>2. PICK j \in s.blocks :
               IF j.name = Incoming THEN m = [name |-> <<"buff", b>>, host |-> j.host, size |-> j.size]
               ELSE m = j
        BY <1>3 DEF Renaming
      <3>3. k.name # <<"buff", b>> /\ j.name # <<"buff", b>>
        BY <1>2 DEF NamesOf
      <3>4. k = j
        BY <1>1, <2>2, <3>1, <3>2, <3>3 DEF Lodged
      <3>. QED
        BY <3>1, <3>2, <3>4
    <2>. QED
      BY <2>1, <2>2 DEF Lodged
  <1>12. ASSUME NEW q \in DOMAIN u.region \ {Root}, NEW i \in 1..Len(u.region[q].chain)
         PROVE  \/ /\ i \in 1..Len(s.region[q].chain)
                   /\ u.region[q].chain[i] = s.region[q].chain[i]
                \/ q = r /\ u.region[q].chain[i] = b
    <2>1. Len(s.region[q].chain) \in Nat
      BY <1>1, <1>2, ChainIs
    <2>2. CASE q = r
      <3>1. /\ Len(u.region[q].chain) = Len(s.region[q].chain) + 1
            /\ u.region[q].chain[Len(s.region[q].chain) + 1] = b
            /\ \A j \in 1..Len(s.region[q].chain) : u.region[q].chain[j] = s.region[q].chain[j]
        BY <2>2 DEF JoinedIs
      <3>2. i \in 1..Len(s.region[q].chain) \/ i = Len(s.region[q].chain) + 1
        BY <2>1, <3>1
      <3>. QED
        BY <2>2, <3>1, <3>2
    <2>3. CASE q # r
      BY <1>2, <2>3
    <2>. QED
      BY <2>2, <2>3
  <1>13. ASSUME NEW q \in DOMAIN u.region \ {Root}
         PROVE  Hosted(u, q)
    <2>. DEFINE o == s.region[q].parent
    <2>1. q \in DOMAIN s.region \ {Root} /\ Hosted(s, q) /\ o \in DOMAIN s.region
          /\ u.region[q].parent = o
      BY <1>1, <1>2, <1>8 DEF Core, Treed
    <2>2. <<"region", q>> # Incoming
      BY NamesDiffer
    <2>3. Lies(u, <<"region", q>>, o)
      BY <1>1, <2>1, <2>2, JoinedLies DEF Hosted
    <2>4. ASSUME NEW i \in 1..Len(u.region[q].chain)
          PROVE  Lies(u, <<"buff", u.region[q].chain[i]>>, o)
      <3>1. CASE i \in 1..Len(s.region[q].chain) /\ u.region[q].chain[i] = s.region[q].chain[i]
        <4>. DEFINE x == <<"buff", s.region[q].chain[i]>>
        <4>1. x # Incoming
          BY <2>1, <3>1, BuffsOfRegions
        <4>2. Lies(s, x, o)
          BY <2>1, <3>1 DEF Hosted
        <4>. HIDE DEF x, o
        <4>3. Lies(u, x, o)
          BY <1>1, <2>1, <4>1, <4>2, JoinedLies
        <4>. QED
          BY <3>1, <4>3 DEF x
      <3>2. CASE q = r /\ u.region[q].chain[i] = b
        <4>1. Lies(u, <<"buff", b>>, p)
          <5>. HIDE DEF p, o
          <5>. QED
            BY <1>1, <1>4, <1>6, JoinedLies
        <4>. QED
          BY <3>2, <4>1
      <3>. QED
        BY <1>12, <3>1, <3>2
    <2>. QED
      BY <2>1, <2>3, <2>4 DEF Hosted
  <1>14. ASSUME NEW q \in DOMAIN u.region \ {Root}
         PROVE  Roomy(u, q)
    <2>1. q \in DOMAIN s.region \ {Root} /\ Roomy(s, q)
      BY <1>2 DEF Core
    <2>2. u.region[q].size >= MinBuff
      BY <1>2, <2>1 DEF Roomy
    <2>3. ASSUME NEW i \in 1..Len(u.region[q].chain), NEW l \in u.blocks,
                 l.name = <<"buff", u.region[q].chain[i]>>
          PROVE  BuffStruct + u.buff[u.region[q].chain[i]].size <= l.size
      <3>1. PICK k \in s.blocks :
              /\ l.host = k.host /\ l.size = k.size
              /\ IF k.name = Incoming THEN k = g /\ l.name = <<"buff", b>> ELSE l = k
        BY <1>10
      <3>2. CASE i \in 1..Len(s.region[q].chain) /\ u.region[q].chain[i] = s.region[q].chain[i]
        <4>. DEFINE c == s.region[q].chain[i]
        <4>1. c \in DOMAIN s.buff /\ <<"buff", c>> # Incoming
          BY <2>1, <3>2, BuffsOfRegions
        <4>2. c # b
          BY <1>2, <4>1
        <4>3. <<"buff", c>> # <<"buff", b>>
          BY <4>2, NamesDiffer
        <4>4. l.name = <<"buff", c>>
          BY <2>3, <3>2
        <4>5. k.name = <<"buff", c>>
          BY <3>1, <4>3, <4>4
        <4>6. BuffStruct + s.buff[c].size <= k.size
          BY <2>1, <3>2, <4>5 DEF Roomy
        <4>. QED
          BY <1>2, <3>1, <3>2, <4>1, <4>6
      <3>3. CASE q = r /\ u.region[q].chain[i] = b
        <4>1. k.name = Incoming
          BY <1>2, <2>3, <3>1, <3>3 DEF NamesOf
        <4>2. l.size = BuffStruct + size
          BY <1>5, <3>1, <4>1
        <4>. QED
          BY <1>2, <3>3, <4>2, NumbersAre
      <3>. QED
        BY <1>12, <3>2, <3>3
    <2>. QED
      BY <2>2, <2>3 DEF Roomy
  <1>. QED
    BY <1>2, <1>3, <1>7, <1>9, <1>11, <1>13, <1>14 DEF Core

(* A new buffer is large enough for what it was made for, whatever its     *)
(* allocator adds.                                                         *)
LEMMA RoomForRequest ==
    ASSUME NEW n \in Nat \ {0}, NEW size \in Nat, size >= MinBuff, size >= GrowBy(n)
    PROVE  GrowBy(n) \in Nat /\ Header + n <= size
  <1>1. (21 * n) \div 10 >= 2 * n /\ (21 * n) \div 10 \in Nat
    OBVIOUS
  <1>2. GrowBy(n) >= 2 * n /\ GrowBy(n) \in Nat
    BY <1>1 DEF GrowBy
  <1>. QED
    BY <1>2, NumbersAre

(* A region that grew: all is well but that its new buffer is unused.      *)
Extended(s, r, n, u) ==
    /\ Core(u) /\ Grew(s, u)
    /\ \A q \in DOMAIN s.region \ {r} :
          /\ Serves(u, q, Len(u.region[q].chain))
          /\ s.region[q].chain = <<>> => u.region[q].chain = <<>>
    /\ Serves(u, r, Len(u.region[r].chain) - 1)
    /\ u.region[r].chain # <<>>
    /\ s.region[r].chain = <<>> => Len(u.region[r].chain) = 1
    /\ Incoming \notin NamesOf(u) /\ NamesOf(u) \subseteq NamesOf(s) \cup BuffNames
    /\ \E size \in Nat :
          /\ size >= n /\ size >= MinBuff
          /\ u.buff[LastBuff(u, r)] =
                [kind |-> u.region[r].mode.kind, size |-> size, used |-> Header]

LEMMA JoinedServes ==
    ASSUME NEW s, Core(s), NEW r, NEW size, NEW b, NEW u, JoinedIs(s, r, size, b, u),
           NEW q \in DOMAIN s.region, Serves(s, q, Len(s.region[q].chain))
    PROVE  Serves(u, q, Len(s.region[q].chain))
  <1>1. s \in States /\ Chained(s)
    BY DEF Core
  <1>2. Len(s.region[q].chain) \in Nat
    BY <1>1, ChainIs
  <1>3. ASSUME NEW i \in 2..Len(s.region[q].chain), s.region[q].mode.kind = "nofree"
        PROVE  u.buff[u.region[q].chain[i]].used > Header
    <2>. DEFINE c == s.region[q].chain[i]
    <2>1. i \in 1..Len(s.region[q].chain)
      BY <1>2
    <2>2. c \in DOMAIN s.buff
      BY <1>1, <2>1 DEF Chained
    <2>3. u.region[q].chain[i] = c
      BY <2>1 DEF JoinedIs
    <2>4. u.buff[c] = s.buff[c]
      BY <2>2 DEF JoinedIs
    <2>. QED
      BY <1>3, <2>3, <2>4 DEF Serves
  <1>4. u.region[q].mode = s.region[q].mode
    BY DEF JoinedIs
  <1>. QED
    BY <1>3, <1>4 DEF Serves

LEMMA JoinedGrew ==
    ASSUME NEW s \in States, NEW t \in States, Grew(s, t), Incoming \notin NamesOf(s),
           NEW r \in DOMAIN s.region, NEW size, NEW b, NEW u, JoinedIs(t, r, size, b, u)
    PROVE  Grew(s, u)
  <1>1. \A k \in s.blocks : k \in t.blocks /\ k.name # Incoming
    BY DEF Grew, NamesOf
  <1>2. s.blocks \subseteq u.blocks
    BY <1>1, JoinedRenames DEF Renaming
  <1>3. ASSUME NEW q \in DOMAIN s.region
        PROVE  /\ u.region[q].parent = s.region[q].parent
               /\ u.region[q].mode = s.region[q].mode
               /\ Len(s.region[q].chain) <= Len(u.region[q].chain)
               /\ \A i \in 1..Len(s.region[q].chain) :
                     u.region[q].chain[i] = s.region[q].chain[i]
    <2>1. q \in DOMAIN t.region /\ Len(s.region[q].chain) \in Nat /\ Len(t.region[q].chain) \in Nat
      BY ChainIs DEF Grew
    <2>2. /\ t.region[q].parent = s.region[q].parent /\ t.region[q].mode = s.region[q].mode
          /\ Len(s.region[q].chain) <= Len(t.region[q].chain)
          /\ \A i \in 1..Len(s.region[q].chain) : t.region[q].chain[i] = s.region[q].chain[i]
      BY DEF Grew
    <2>3. /\ u.region[q].parent = t.region[q].parent /\ u.region[q].mode = t.region[q].mode
          /\ Len(u.region[q].chain) \in {Len(t.region[q].chain), Len(t.region[q].chain) + 1}
          /\ \A i \in 1..Len(t.region[q].chain) : u.region[q].chain[i] = t.region[q].chain[i]
      <3>1. CASE q = r
        BY <3>1 DEF JoinedIs
      <3>2. CASE q # r
        <4>1. u.region[q] = t.region[q]
          BY <2>1, <3>2 DEF JoinedIs
        <4>. QED
          BY <4>1
      <3>. QED
        BY <3>1, <3>2
    <2>4. \A i \in 1..Len(s.region[q].chain) : i \in 1..Len(t.region[q].chain)
      BY <2>1, <2>2
    <2>5. Len(s.region[q].chain) <= Len(u.region[q].chain)
      <3>. DEFINE x == Len(s.region[q].chain)
                  y == Len(t.region[q].chain)
                  z == Len(u.region[q].chain)
      <3>1. x \in Nat /\ y \in Nat /\ x <= y /\ z \in {y, y + 1}
        BY <2>1, <2>2, <2>3
      <3>. HIDE DEF x, y, z
      <3>2. x <= z
        BY <3>1
      <3>. QED
        BY <3>2 DEF x, z
    <2>. QED
      BY <2>2, <2>3, <2>4, <2>5
  <1>4. DOMAIN u.region = DOMAIN s.region
    BY DEF Grew, JoinedIs
  <1>. QED
    BY <1>2, <1>3, <1>4 DEF Grew

GoodCalls(s, f) ==
    /\ f \in [Requests(s) -> SUBSET Outcomes]
    /\ \A q \in Requests(s) : \A o \in f[q] : Good(s, q[1], Incoming, q[2], o)

LEMMA ParentHasBuff ==
    ASSUME NEW s, Core(s), NEW r \in DOMAIN s.region \ {Root}
    PROVE  /\ s.region[r].parent \in DOMAIN s.region
           /\ s.region[s.region[r].parent].chain # <<>>
  <1>1. s.region[r].parent \in DOMAIN s.region /\ s \in States
    BY DEF Core, Treed
  <1>2. Lies(s, <<"region", r>>, s.region[r].parent)
    BY DEF Core, Hosted
  <1>3. \E i \in 1..Len(s.region[s.region[r].parent].chain) : TRUE
    BY <1>2 DEF Lies
  <1>. QED
    BY <1>1, <1>3

LEMMA JoinedExtends ==
    ASSUME NEW s, Core(s), Incoming \notin NamesOf(s),
           NEW r \in DOMAIN s.region \ {Root}, NEW n \in Nat,
           NEW size, size = Larger(n, DefaultSize(s.region[r])),
           NEW o, o.ok, Good(s, s.region[r].parent, Incoming, BuffStruct + size, o),
           Unnamed(o.s) # {}
    PROVE  Extended(s, r, n, Joined(o.s, r, size))
  <1>. DEFINE p == s.region[r].parent
              t == o.s
              b == Min(Unnamed(t))
              u == Joined(t, r, size)
              m == Len(t.region[r].chain)
  <1>1. size \in Nat /\ size >= MinBuff /\ size >= n
    BY SizesGrow
  <1>3. p \in DOMAIN s.region /\ s.region[p].chain # <<>>
    BY ParentHasBuff
  <1>4. /\ Sound(t) /\ Grew(s, t)
        /\ \A q \in DOMAIN s.region \ {p} :
              s.region[q].chain = <<>> => t.region[q].chain = <<>>
        /\ NamesOf(t) \subseteq NamesOf(s) \cup BuffNames \cup {Incoming}
        /\ Given(t, p, Incoming, BuffStruct + size)
    BY DEF Good
  <1>5. Core(t) /\ t \in States /\ s \in States
    BY <1>4 DEF Sound, Core
  <1>6. r \in DOMAIN t.region \ {Root} /\ t.region[r].parent = p /\ DOMAIN t.region = DOMAIN s.region
    BY <1>4 DEF Grew
  <1>. HIDE DEF t, p
  <1>7. JoinedIs(t, r, size, b, u)
    BY <1>1, <1>5, <1>6, JoinedShape DEF t
  <1>. HIDE DEF b, u
  <1>8. Core(u)
    BY <1>1, <1>4, <1>5, <1>6, <1>7, JoinedKeeps
  <1>9. Grew(s, u)
    BY <1>4, <1>5, <1>6, <1>7, JoinedGrew
  <1>10. m \in Nat
    BY <1>5, <1>6, ChainIs
  <1>11. /\ Len(u.region[r].chain) = m + 1 /\ u.region[r].chain[m + 1] = b
         /\ u.buff[b] = [kind |-> t.region[r].mode.kind, size |-> size, used |-> Header]
         /\ u.region[r].mode = t.region[r].mode
         /\ \A q \in DOMAIN s.region \ {r} : u.region[q] = t.region[q]
    BY <1>6, <1>7 DEF JoinedIs
  <1>12. \A q \in DOMAIN s.region : Serves(u, q, Len(t.region[q].chain))
    <2>1. ASSUME NEW q \in DOMAIN s.region
          PROVE  Serves(u, q, Len(t.region[q].chain))
      <3>1. q \in DOMAIN t.region /\ Serves(t, q, Len(t.region[q].chain))
        BY <1>4, <1>6 DEF Sound
      <3>. QED
        BY <1>5, <1>7, <3>1, JoinedServes
    <2>. QED
      BY <2>1
  <1>13. \A q \in DOMAIN s.region : s.region[q].chain = <<>> => t.region[q].chain = <<>>
    BY <1>3, <1>4
  <1>14. s.region[r].chain = <<>> => m = 0
    BY <1>13
  <1>15. LastBuff(u, r) = b
    BY <1>11 DEF LastBuff
  <1>16. u.region[r].chain # <<>>
    <2>1. m + 1 # 0
      BY <1>10
    <2>. QED
      BY <1>11, <2>1
  <1>17. Incoming \notin NamesOf(u) /\ NamesOf(u) \subseteq NamesOf(s) \cup BuffNames
    <2>1. /\ Incoming \notin NamesOf(u)
          /\ NamesOf(u) \subseteq NamesOf(t) \cup {<<"buff", b>>}
      BY <1>7, JoinedRenames DEF Renaming
    <2>2. <<"buff", b>> \in BuffNames
      BY <1>7 DEF JoinedIs, BuffNames
    <2>. QED
      BY <1>4, <2>1, <2>2
  <1>18. Serves(u, r, Len(u.region[r].chain) - 1)
    <2>1. (m + 1) - 1 = m
      BY <1>10
    <2>. QED
      BY <1>11, <1>12, <2>1
  <1>19. ASSUME NEW q \in DOMAIN s.region \ {r}
         PROVE  /\ Serves(u, q, Len(u.region[q].chain))
                /\ s.region[q].chain = <<>> => u.region[q].chain = <<>>
    BY <1>11, <1>12, <1>13
  <1>20. s.region[r].chain = <<>> => Len(u.region[r].chain) = 1
    BY <1>10, <1>11, <1>14
  <1>21. /\ size \in Nat /\ size >= n /\ size >= MinBuff
         /\ u.buff[LastBuff(u, r)] =
               [kind |-> u.region[r].mode.kind, size |-> size, used |-> Header]
    BY <1>1, <1>11, <1>15
  <1>22. Extended(s, r, n, u)
    BY <1>8, <1>9, <1>16, <1>17, <1>18, <1>19, <1>20, <1>21 DEF Extended
  <1>. QED
    BY <1>22 DEF u, t
(* The calls a region makes to its parent turn out well, so its growth     *)
(* does.                                                                   *)
Refused(s, r, o) ==
    /\ \A name, n : Good(s, r, name, n, o)
    /\ s.region[r].chain = <<>> => o.s.region[r].chain = <<>>

LEMMA GrownByGood ==
    ASSUME NEW s, Sound(s), Incoming \notin NamesOf(s), NEW f, GoodCalls(s, f),
           NEW r \in DOMAIN s.region, NEW n \in Nat, NEW o \in GrownBy(f, s, r, n)
    PROVE  /\ o \in Outcomes
           /\ o.ok => Extended(s, r, n, o.s)
           /\ ~ o.ok => Refused(s, r, o)
  <1>. DEFINE g == s.region[r]
              p == g.parent
              size == Larger(n, DefaultSize(g))
              m == BuffStruct + size
  <1>1. Core(s) /\ s \in States
    BY DEF Sound, Core
  <1>2. CASE g.chain # <<>> /\ g.mode.fixed
    <2>1. o = Outcome(s, FALSE)
      BY <1>2 DEF GrownBy
    <2>2. o \in Outcomes /\ o.s = s /\ o.ok = FALSE
      BY <1>1, <2>1, OutcomeIs
    <2>. QED
      BY <2>1, <2>2, RefusedGood DEF Refused
  <1>3. CASE ~ (g.chain # <<>> /\ g.mode.fixed)
    <2>1. r \in DOMAIN s.region \ {Root}
      <3>1. s.region[Root].mode.fixed /\ s.region[Root].chain = <<RootBuff>>
        BY <1>1 DEF Core, Rooted
      <3>. QED
        BY <1>3, <3>1
    <2>2. p \in DOMAIN s.region /\ s.region[p].chain # <<>>
      BY <1>1, <2>1, ParentHasBuff
    <2>3. size \in Nat /\ m \in Nat \ {0}
      BY <1>1, <2>1, SizesGrow, NumbersAre
    <2>4. <<p, m>> \in Requests(s) /\ <<p, m>>[1] = p /\ <<p, m>>[2] = m
      BY <2>2, <2>3 DEF Requests
    <2>5. f[<<p, m>>] \subseteq Outcomes /\ \A x \in f[<<p, m>>] : Good(s, p, Incoming, m, x)
      BY <2>4 DEF GoodCalls
    <2>6. \/ o \in f[<<p, m>>] /\ ~ o.ok
          \/ \E x \in f[<<p, m>>] : /\ x.ok /\ Unnamed(x.s) # {}
                                    /\ o = Outcome(Joined(x.s, r, size), TRUE)
      BY <1>3 DEF GrownBy
    <2>7. CASE o \in f[<<p, m>>] /\ ~ o.ok
      <3>1. Good(s, p, Incoming, m, o)
        BY <2>5, <2>7
      <3>2. \A q \in DOMAIN s.region : s.region[q].chain = <<>> => o.s.region[q].chain = <<>>
        BY <2>2, <3>1 DEF Good
      <3>3. \A name, x : Good(s, r, name, x, o)
        BY <2>7, <3>1, <3>2 DEF Good
      <3>. QED
        BY <2>5, <2>7, <3>2, <3>3 DEF Refused
    <2>8. CASE \E x \in f[<<p, m>>] : /\ x.ok /\ Unnamed(x.s) # {}
                                      /\ o = Outcome(Joined(x.s, r, size), TRUE)
      <3>1. PICK x \in f[<<p, m>>] : /\ x.ok /\ Unnamed(x.s) # {}
                                     /\ o = Outcome(Joined(x.s, r, size), TRUE)
        BY <2>8
      <3>2. Good(s, p, Incoming, m, x)
        BY <2>5
      <3>. DEFINE u == Joined(x.s, r, size)
      <3>3. Extended(s, r, n, u)
        BY <1>1, <2>1, <3>1, <3>2, JoinedExtends
      <3>. HIDE DEF u
      <3>4. u \in States
        BY <3>3 DEF Extended, Core
      <3>5. o \in Outcomes /\ o.s = u /\ o.ok = TRUE
        BY <3>1, <3>4, OutcomeIs DEF u
      <3>. QED
        BY <3>3, <3>5
    <2>. QED
      BY <2>6, <2>7, <2>8
  <1>. QED
    BY <1>2, <1>3

(* Whatever the new buffer of a nofree region adds, the request fits.      *)
LEMMA AskExtended ==
    ASSUME NEW s, s \in States, NEW r \in DOMAIN s.region, NEW n \in Nat \ {0},
           NEW u, Extended(s, r, GrowBy(n), u),
           NEW name, Fresh(s, name), NEW o \in Ask(u, r, name, n)
    PROVE  Good(s, r, name, n, o)
  <1>. DEFINE b == LastBuff(u, r)
              t == Placed(u, b, name, n)
              len == Len(u.region[r].chain)
  <1>1. Core(u) /\ u \in States /\ Grew(s, u) /\ u.region[r].chain # <<>>
    BY DEF Extended, Core
  <1>2. r \in DOMAIN u.region /\ DOMAIN u.region = DOMAIN s.region
    BY <1>1 DEF Grew
  <1>3. len \in Nat \ {0} /\ u.region[r].chain \in Seq(AllBuffs)
    BY <1>1, <1>2, ChainIs
  <1>4. Fresh(u, name)
    BY DEF Fresh, Extended
  <1>5. PICK size \in Nat :
           /\ size >= GrowBy(n) /\ size >= MinBuff
           /\ u.buff[b] = [kind |-> u.region[r].mode.kind, size |-> size, used |-> Header]
    BY DEF Extended
  <1>6. Header + n <= size
    BY <1>5, RoomForRequest
  <1>7. /\ u.buff[b].kind = u.region[r].mode.kind
        /\ u.buff[b].size = size /\ u.buff[b].used = Header
    BY <1>5
  <1>8. /\ \A q \in DOMAIN s.region \ {r} : Serves(u, q, Len(u.region[q].chain))
        /\ Serves(u, r, len - 1)
        /\ \A q \in DOMAIN s.region \ {r} :
              s.region[q].chain = <<>> => u.region[q].chain = <<>>
        /\ NamesOf(u) \subseteq NamesOf(s) \cup BuffNames
    BY DEF Extended
  <1>9. \/ o = Outcome(u, FALSE) /\ u.region[r].mode.kind # "nofree"
        \/ o = Outcome(t, TRUE)
    BY <1>6, <1>7, AskAnswers
  <1>10. CASE o = Outcome(u, FALSE) /\ u.region[r].mode.kind # "nofree"
    <2>1. Serves(u, r, len)
      BY <1>10 DEF Serves
    <2>2. Sound(u)
      BY <1>1, <1>2, <1>8, <2>1 DEF Sound
    <2>3. o \in Outcomes /\ o.s = u /\ o.ok = FALSE
      BY <1>1, <1>10, OutcomeIs
    <2>. QED
      BY <1>1, <1>8, <2>2, <2>3 DEF Good
  <1>11. CASE o = Outcome(t, TRUE)
    <2>1. /\ Core(t) /\ Grew(u, t) /\ t.region = u.region
          /\ NamesOf(t) = NamesOf(u) \cup {name}
          /\ Given(t, r, name, n)
      BY <1>1, <1>2, <1>4, PlacedKeeps DEF Given
    <2>2. \A q \in DOMAIN u.region : \A m \in 0..Len(u.region[q].chain) :
             Serves(u, q, m) => Serves(t, q, m)
      BY <1>1, <1>2, <1>4, PlacedServes
    <2>3. u.buff[b].kind = "nofree" => t.buff[b].used = Header + n
      <3>1. PlacedIs(u, r, name, n, t)
        BY <1>1, <1>2, <1>4, PlacedShape
      <3>. HIDE DEF t
      <3>. QED
        BY <1>7, <3>1 DEF PlacedIs
    <2>. HIDE DEF t
    <2>4. ASSUME NEW q \in DOMAIN s.region \ {r}
          PROVE  Serves(t, q, Len(t.region[q].chain))
      <3>1. Len(u.region[q].chain) \in 0..Len(u.region[q].chain)
        BY <1>1, <1>2, ChainIs
      <3>. QED
        BY <1>2, <1>8, <2>1, <2>2, <3>1
    <2>5. Serves(t, r, Len(t.region[r].chain))
      <3>1. len - 1 \in 0..len
        <4>. HIDE DEF len
        <4>. QED
          BY <1>3
      <3>2. Serves(t, r, len - 1)
        BY <1>2, <1>8, <2>2, <3>1
      <3>3. ASSUME NEW i \in 2..len, t.region[r].mode.kind = "nofree"
            PROVE  t.buff[t.region[r].chain[i]].used > Header
        <4>1. CASE i = len
          <5>1. t.region[r].chain[i] = b
            BY <2>1, <4>1 DEF LastBuff
          <5>2. t.buff[b].used = Header + n
            BY <1>7, <2>1, <2>3, <3>3
          <5>. QED
            BY <5>1, <5>2, NumbersAre
        <4>2. CASE i # len
          <5>1. i \in 2..(len - 1)
            BY <1>3, <4>2
          <5>. QED
            BY <3>2, <3>3, <5>1 DEF Serves
        <4>. QED
          BY <4>1, <4>2
      <3>. QED
        BY <2>1, <3>3 DEF Serves
    <2>6. Sound(t) /\ t \in States
      BY <1>2, <2>1, <2>4, <2>5 DEF Sound, Core
    <2>7. o \in Outcomes /\ o.s = t /\ o.ok = TRUE
      BY <1>11, <2>6, OutcomeIs
    <2>8. Grew(s, t)
      BY <1>1, <2>1, <2>6, GrewTwice
    <2>. QED
      BY <1>8, <2>1, <2>6, <2>7, <2>8 DEF Good
  <1>. QED
    BY <1>9, <1>10, <1>11

LEMMA MallocedByGood ==
    ASSUME NEW s, Sound(s), Incoming \notin NamesOf(s), NEW f, GoodCalls(s, f),
           NEW r \in DOMAIN s.region, NEW name, Fresh(s, name), NEW n \in Nat \ {0},
           NEW o \in MallocedBy(f, s, r, name, n)
    PROVE  Good(s, r, name, n, o)
  <1>. DEFINE first == IF s.region[r].chain = <<>> THEN {Outcome(s, FALSE)}
                       ELSE Ask(s, r, name, n)
              grown == IF \A x \in first : x.ok THEN {}
                       ELSE GrownBy(f, s, r, GrowBy(n))
  <1>1. s \in States
    BY DEF Sound, Core
  <1>2. \A x \in first : Good(s, r, name, n, x)
    BY AskGood, RefusedGood
  <1>3. GrowBy(n) \in Nat
    BY DEF GrowBy
  <1>4. ASSUME NEW x \in grown
        PROVE  /\ ~ x.ok => Good(s, r, name, n, x)
               /\ x.ok => Extended(s, r, GrowBy(n), x.s)
    <2>1. x \in GrownBy(f, s, r, GrowBy(n))
      BY <1>4
    <2>. HIDE DEF first, grown
    <2>. QED
      BY <1>3, <2>1, GrownByGood DEF Refused
  <1>5. o \in {x \in first : x.ok}
             \cup {x \in grown : ~ x.ok}
             \cup UNION {Ask(x.s, r, name, n) : x \in {y \in grown : y.ok}}
    BY DEF MallocedBy
  <1>. HIDE DEF first, grown
  <1>6. CASE o \in first
    BY <1>2, <1>6
  <1>7. CASE o \in grown /\ ~ o.ok
    BY <1>4, <1>7
  <1>8. CASE \E x \in grown : x.ok /\ o \in Ask(x.s, r, name, n)
    <2>1. PICK x \in grown : x.ok /\ o \in Ask(x.s, r, name, n)
      BY <1>8
    <2>. QED
      BY <1>1, <1>4, <2>1, AskExtended
  <1>. QED
    BY <1>5, <1>6, <1>7, <1>8

LEMMA CallsGood ==
    ASSUME NEW s, Sound(s), Incoming \notin NamesOf(s)
    PROVE  GoodCalls(s, Calls(s))
  <1>. DEFINE N == Cardinality(Regions)
              V == {f \in [Requests(s) -> SUBSET Outcomes] : GoodCalls(s, f)}
              v0 == [q \in Requests(s) |-> {Outcome(s, FALSE)}]
              Up(f) == [q \in Requests(s) |-> MallocedBy(f, s, q[1], Incoming, q[2])]
              G == [k \in 1..N |-> [f \in V |-> Up(f)]]
              at[k \in 0..N] ==
                  [q \in Requests(s) |->
                      IF k = 0 THEN {Outcome(s, FALSE)}
                      ELSE MallocedBy(at[k - 1], s, q[1], Incoming, q[2])]
              body(f) == [k \in 0..N |->
                            [q \in Requests(s) |->
                               IF k = 0 THEN {Outcome(s, FALSE)}
                               ELSE MallocedBy(f[k - 1], s, q[1], Incoming, q[2])]]
  <1>1. N \in Nat
    BY NumbersAre, FS_CardinalityType
  <1>2. Fresh(s, Incoming)
    BY NamesDiffer DEF Fresh, AllNames
  <1>3. \A q \in Requests(s) : q[1] \in DOMAIN s.region /\ q[2] \in Nat \ {0}
    BY DEF Requests
  <1>4. v0 \in V
    <2>1. s \in States
      BY DEF Sound, Core
    <2>2. Outcome(s, FALSE) \in Outcomes
      BY <2>1, OutcomeIs
    <2>3. v0 \in [Requests(s) -> SUBSET Outcomes]
      BY <2>2
    <2>4. \A q \in Requests(s) : \A o \in v0[q] : Good(s, q[1], Incoming, q[2], o)
      BY RefusedGood
    <2>. QED
      BY <2>3, <2>4 DEF GoodCalls
  <1>5. ASSUME NEW f \in V
        PROVE  Up(f) \in V
    <2>1. GoodCalls(s, f)
      OBVIOUS
    <2>2. \A q \in Requests(s) : \A o \in MallocedBy(f, s, q[1], Incoming, q[2]) :
             Good(s, q[1], Incoming, q[2], o)
      BY <1>2, <1>3, <2>1, MallocedByGood
    <2>3. \A q \in Requests(s) : MallocedBy(f, s, q[1], Incoming, q[2]) \in SUBSET Outcomes
      BY <2>2 DEF Good
    <2>4. Up(f) \in [Requests(s) -> SUBSET Outcomes]
      BY <2>3
    <2>5. \A q \in Requests(s) : \A o \in Up(f)[q] : Good(s, q[1], Incoming, q[2], o)
      BY <2>2
    <2>. HIDE DEF Up
    <2>. QED
      BY <2>4, <2>5 DEF GoodCalls
  <1>6. G \in [1..N -> [V -> V]]
    <2>. HIDE DEF V, Up, N
    <2>. QED
      BY <1>5
  <1>7. PICK f \in Ascents(N, V, v0, G) : TRUE
    <2>. HIDE DEF V, v0, G, N
    <2>. QED
      BY <1>1, <1>4, <1>6, AscentExists
  <1>8. /\ f \in [0..N -> V] /\ f[0] = v0
        /\ \A k \in 1..N : f[k] = Up(f[k - 1])
    <2>1. /\ f \in [0..N -> V] /\ f[0] = v0
          /\ \A k \in 1..N : f[k] = G[k][f[k - 1]]
      <3>. HIDE DEF V, v0, G, N
      <3>. QED
        BY <1>7 DEF Ascents
    <2>2. \A k \in 1..N : f[k - 1] \in V
      <3>. HIDE DEF V, N, v0, G
      <3>. QED
        BY <1>1, <2>1
    <2>3. \A k \in 1..N : G[k][f[k - 1]] = Up(f[k - 1])
      <3>. HIDE DEF V, N, v0, Up
      <3>. QED
        BY <2>2
    <2>. QED
      BY <2>1, <2>3
  <1>9. f = body(f)
    <2>1. \A k \in 0..N : f[k] = body(f)[k]
      <3>1. f[0] = body(f)[0]
        BY <1>1, <1>8
      <3>2. ASSUME NEW k \in 1..N
            PROVE  f[k] = body(f)[k]
        <4>1. k # 0 /\ k \in 0..N
          BY <1>1
        <4>. QED
          BY <1>8, <4>1
      <3>. HIDE DEF body
      <3>. QED
        BY <1>1, <3>1, <3>2
    <2>2. DOMAIN f = 0..N /\ DOMAIN body(f) = 0..N
      BY <1>8
    <2>3. f = [k \in 0..N |-> f[k]] /\ body(f) = [k \in 0..N |-> body(f)[k]]
      BY <1>8
    <2>. HIDE DEF body
    <2>. QED
      BY <2>1, <2>3
  <1>10. at = [k \in 0..N |->
                 [q \in Requests(s) |->
                    IF k = 0 THEN {Outcome(s, FALSE)}
                    ELSE MallocedBy(at[k - 1], s, q[1], Incoming, q[2])]]
    BY <1>9
  <1>11. Calls(s) = at[N]
    BY DEF Calls
  <1>. HIDE DEF at
  <1>12. \A k \in Nat : k <= N => at[k] \in V
    <2>. DEFINE S == {k \in Nat : k <= N => at[k] \in V}
    <2>1. at[0] = v0
      BY <1>1, <1>10
    <2>2. 0 \in S
      BY <1>4, <2>1
    <2>3. ASSUME NEW k \in Nat, k \in S
          PROVE  k + 1 \in S
      <3>. SUFFICES ASSUME k + 1 <= N
                    PROVE  at[k + 1] \in V
        OBVIOUS
      <3>1. at[k] \in V /\ k + 1 \in 0..N /\ k + 1 # 0 /\ (k + 1) - 1 = k
        BY <1>1, <2>3
      <3>2. at[k + 1] = Up(at[k])
        BY <1>10, <3>1
      <3>. HIDE DEF V, Up
      <3>. QED
        BY <1>5, <3>1, <3>2
    <2>. HIDE DEF S
    <2>4. Nat \subseteq S
      BY <2>2, <2>3, NatSetInduction
    <2>. QED
      BY <2>4 DEF S
  <1>. QED
    BY <1>1, <1>11, <1>12
LEMMA MallocedGood ==
    ASSUME NEW s, Sound(s), Incoming \notin NamesOf(s),
           NEW r \in DOMAIN s.region, NEW name, Fresh(s, name), NEW n \in Nat \ {0},
           NEW o \in Malloced(s, r, name, n)
    PROVE  Good(s, r, name, n, o)
  BY CallsGood, MallocedByGood DEF Malloced

LEMMA GrownGood ==
    ASSUME NEW s, Sound(s), Incoming \notin NamesOf(s),
           NEW r \in DOMAIN s.region, NEW n \in Nat, NEW o \in Grown(s, r, n)
    PROVE  /\ o.ok => Extended(s, r, n, o.s)
           /\ ~ o.ok => Refused(s, r, o)
  BY CallsGood, GrownByGood DEF Grown

(* The first buffer of a region owes its users nothing.                    *)
LEMMA FirstBufferSound ==
    ASSUME NEW s, NEW r \in DOMAIN s.region, s.region[r].chain = <<>>, NEW n, NEW u,
           Extended(s, r, n, u)
    PROVE  Sound(u)
  <1>1. Core(u) /\ DOMAIN u.region = DOMAIN s.region /\ Len(u.region[r].chain) = 1
    BY DEF Extended, Grew
  <1>2. Serves(u, r, Len(u.region[r].chain))
    <2>1. 2..1 = {}
      OBVIOUS
    <2>. QED
      BY <1>1, <2>1 DEF Serves
  <1>. QED
    BY <1>1, <1>2 DEF Extended, Sound

------------------------------------------------------------------------------
(* The regions below a region.                                             *)
LEMMA UnderIs ==
    ASSUME NEW s, NEW r \in DOMAIN s.region
    PROVE  /\ r \in Under(s, r) /\ Under(s, r) \subseteq DOMAIN s.region
           /\ \A q \in DOMAIN s.region : s.region[q].parent \in Under(s, r) => q \in Under(s, r)
           /\ \A S \in SUBSET DOMAIN s.region : r \in S /\ Closed(s, S) => Under(s, r) \subseteq S
  <1>1. ASSUME NEW q \in DOMAIN s.region, s.region[q].parent \in Under(s, r),
               NEW S \in SUBSET DOMAIN s.region, r \in S, Closed(s, S)
        PROVE  q \in S
    <2>1. s.region[q].parent \in S
      BY <1>1 DEF Under
    <2>. QED
      BY <1>1, <2>1 DEF Closed
  <1>. QED
    BY <1>1 DEF Under

(* A region is not below itself.                                           *)
LEMMA ParentAbove ==
    ASSUME NEW s, Treed(s), Rooted(s), NEW r \in DOMAIN s.region \ {Root}
    PROVE  s.region[r].parent \notin Under(s, r) /\ Root \notin Under(s, r)
  <1>. DEFINE D == DOMAIN s.region
              U == Under(s, r)
              p == s.region[r].parent
  <1>1. r \in U /\ U \subseteq D /\ \A q \in D : s.region[q].parent \in U => q \in U
    BY UnderIs
  <1>2. \A S \in SUBSET D : r \in S /\ Closed(s, S) => U \subseteq S
    BY UnderIs
  <1>3. Root \in D /\ s.region[Root].parent = Root
    BY DEF Rooted
  <1>4. \A S \in SUBSET D : Root \in S /\ Closed(s, S) => D \subseteq S
    BY DEF Treed
  <1>5. Root \notin U
    <2>. DEFINE S == U \ {Root}
    <2>1. S \in SUBSET D /\ r \in S
      BY <1>1
    <2>2. Closed(s, S)
      BY <1>1, <1>3 DEF Closed
    <2>. HIDE DEF S
    <2>3. U \subseteq S
      BY <1>2, <2>1, <2>2
    <2>. QED
      BY <2>3 DEF S
  <1>6. ASSUME p \in U
        PROVE  FALSE
    <2>. DEFINE S == D \ U
    <2>1. S \in SUBSET D /\ Root \in S
      BY <1>3, <1>5
    <2>2. ASSUME NEW q \in D, s.region[q].parent \in S, q \in U
          PROVE  FALSE
      <3>1. q # r
        BY <1>6, <2>2
      <3>. DEFINE T == {x \in U : s.region[x].parent \in U}
      <3>2. T \in SUBSET D /\ r \in T
        BY <1>1, <1>6
      <3>3. Closed(s, T)
        BY <1>1 DEF Closed
      <3>4. q \notin T
        BY <2>2
      <3>. HIDE DEF T, U
      <3>. QED
        BY <1>2, <2>2, <3>2, <3>3, <3>4
    <2>3. Closed(s, S)
      BY <2>2 DEF Closed
    <2>4. r \in S
      <3>. HIDE DEF S
      <3>. QED
        BY <1>4, <2>1, <2>3
    <2>. QED
      BY <1>1, <2>4
  <1>. QED
    BY <1>5, <1>6

(* A region without buffers has none below it.                             *)
LEMMA EmptyAlone ==
    ASSUME NEW s, Core(s), NEW r \in DOMAIN s.region, s.region[r].chain = <<>>
    PROVE  Under(s, r) = {r} /\ r # Root
  <1>1. r # Root
    <2>1. s.region[Root].chain = <<RootBuff>>
      BY DEF Core, Rooted
    <2>2. <<RootBuff>> # <<>>
      OBVIOUS
    <2>. QED
      BY <2>1, <2>2
  <1>2. ASSUME NEW q \in DOMAIN s.region, s.region[q].parent = r
        PROVE  FALSE
    <2>1. q # Root
      BY <1>1, <1>2 DEF Core, Rooted
    <2>. QED
      BY <1>2, <2>1, ParentHasBuff
  <1>3. Closed(s, {r})
    BY <1>2 DEF Closed
  <1>. QED
    BY <1>1, <1>3, UnderIs

------------------------------------------------------------------------------
(* Release.                                                                *)
FreedIs(s, name, u) ==
    /\ u \in States /\ u.region = s.region /\ u.buff = s.buff
    /\ u.blocks \subseteq s.blocks
    /\ \A k \in s.blocks : k.name # name => k \in u.blocks

LEMMA FreedShape ==
    ASSUME NEW s \in States, NEW r, NEW name \in NamesOf(s), NEW u, u = Freed(s, r, name)
    PROVE  FreedIs(s, name, u)
  <1>. DEFINE found == {k \in s.blocks : k.name = name}
              K == s.blocks \ {k \in found : k.host = LastBuff(s, r)}
  <1>1. found # {}
    BY DEF NamesOf
  <1>2. u = [s EXCEPT !.blocks = K]
    BY <1>1 DEF Freed
  <1>3. s.blocks \in SUBSET Blocks /\ s.region \in RegionMaps /\ s.buff \in BuffMaps
    BY DEF States
  <1>4. K \in SUBSET Blocks /\ K \subseteq s.blocks /\ \A k \in s.blocks : k.name # name => k \in K
    BY <1>3
  <1>. HIDE DEF K
  <1>5. u \in States /\ u.region = s.region /\ u.buff = s.buff /\ u.blocks = K
    BY <1>2, <1>3, <1>4 DEF States
  <1>. QED
    BY <1>4, <1>5 DEF FreedIs

LEMMA FreedKeeps ==
    ASSUME NEW s, Sound(s), NEW name, name \notin BuffNames,
           \A q \in Regions : name # <<"region", q>>,
           NEW u, FreedIs(s, name, u)
    PROVE  Sound(u) /\ NamesOf(u) \subseteq NamesOf(s)
  <1>1. /\ s \in States /\ u \in States /\ Rooted(s) /\ Chained(s) /\ Treed(s) /\ Lodged(s)
        /\ u.region = s.region /\ u.buff = s.buff /\ u.blocks \subseteq s.blocks
        /\ \A k \in s.blocks : k.name # name => k \in u.blocks
    BY DEF Sound, Core, FreedIs
  <1>2. Rooted(u) /\ Chained(u) /\ Treed(u)
    <2>1. u.region = s.region /\ u.buff = s.buff
      BY <1>1
    <2>2. Rooted(s) /\ Chained(s) /\ Treed(s)
      BY <1>1
    <2>3. Rooted(u)
      BY <2>1, <2>2 DEF Rooted
    <2>4. Chained(u)
      BY <2>1, <2>2, SMT DEF Chained
    <2>5. Treed(u)
      BY <2>1, <2>2, Zenon DEF Treed, Closed
    <2>. QED
      BY <2>3, <2>4, <2>5
  <1>3. Lodged(u)
    BY <1>1 DEF Lodged
  <1>4. ASSUME NEW x, x # name, NEW q \in DOMAIN s.region, Lies(s, x, q)
        PROVE  Lies(u, x, q)
    BY <1>1, <1>4 DEF Lies
  <1>5. ASSUME NEW q \in DOMAIN s.region \ {Root}
        PROVE  Hosted(u, q) /\ Roomy(u, q)
    <2>1. q \in Regions /\ s.region[q].parent \in DOMAIN s.region
      BY <1>1, StateIs DEF AllRegions, Treed
    <2>2. Hosted(s, q) /\ Roomy(s, q)
      BY DEF Sound, Core
    <2>3. Lies(u, <<"region", q>>, s.region[q].parent)
      <3>1. <<"region", q>> # name
        BY <2>1
      <3>2. Lies(s, <<"region", q>>, s.region[q].parent)
        BY <2>2 DEF Hosted
      <3>. QED
        BY <1>4, <2>1, <3>1, <3>2
    <2>4. ASSUME NEW i \in 1..Len(s.region[q].chain)
          PROVE  Lies(u, <<"buff", s.region[q].chain[i]>>, s.region[q].parent)
      <3>. DEFINE x == <<"buff", s.region[q].chain[i]>>
      <3>1. s.region[q].chain[i] \in Buffs
        BY BuffsOfRegions DEF Sound
      <3>2. x # name
        BY <3>1 DEF BuffNames
      <3>3. Lies(s, x, s.region[q].parent)
        BY <2>2 DEF Hosted
      <3>. HIDE DEF x
      <3>4. Lies(u, x, s.region[q].parent)
        BY <1>4, <2>1, <3>2, <3>3
      <3>. QED
        BY <3>4 DEF x
    <2>5. Hosted(u, q)
      BY <1>1, <2>3, <2>4 DEF Hosted
    <2>6. Roomy(u, q)
      BY <1>1, <2>2 DEF Roomy
    <2>. QED
      BY <2>5, <2>6
  <1>6. ASSUME NEW q \in DOMAIN s.region
        PROVE  Serves(u, q, Len(u.region[q].chain))
    BY <1>1 DEF Sound, Serves
  <1>. QED
    BY <1>1, <1>2, <1>3, <1>5, <1>6 DEF Sound, Core, NamesOf
(* A reset or a destroy of r: the regions below it go with what lay in     *)
(* them, r itself may stay with its first buffer, and of the other blocks  *)
(* only those that made up r may go.                                       *)
Parts(s, r) == {<<"buff", s.region[r].chain[j]>> : j \in 2..Len(s.region[r].chain)}

Hosts(s, r) == UNION {Chain(s, q) : q \in Under(s, r)}

CutIs(s, r, u) ==
    /\ u \in States
    /\ r = Root => r \in DOMAIN u.region
    /\ DOMAIN u.region \ {r} = DOMAIN s.region \ Under(s, r)
    /\ DOMAIN u.region \subseteq DOMAIN s.region
    /\ \A q \in DOMAIN u.region \ {r} : u.region[q] = s.region[q]
    /\ r \in DOMAIN u.region =>
          /\ u.region[r].parent = s.region[r].parent
          /\ u.region[r].mode = s.region[r].mode
          /\ u.region[r].size = s.region[r].size
          /\ Len(u.region[r].chain) <= 1
          /\ Len(u.region[r].chain) <= Len(s.region[r].chain)
          /\ s.region[r].chain # <<>> => Len(u.region[r].chain) = 1
          /\ \A i \in 1..Len(u.region[r].chain) : u.region[r].chain[i] = s.region[r].chain[i]
    /\ DOMAIN u.buff = (DOMAIN s.buff \ Hosts(s, r))
                         \cup (IF r \in DOMAIN u.region THEN Chain(u, r) ELSE {})
    /\ DOMAIN u.buff \subseteq DOMAIN s.buff
    /\ \A b \in DOMAIN u.buff :
          /\ u.buff[b].kind = s.buff[b].kind /\ u.buff[b].size = s.buff[b].size
          /\ b \notin Hosts(s, r) => u.buff[b] = s.buff[b]
    /\ u.blocks \subseteq s.blocks
    /\ \A k \in u.blocks : k.host \notin Hosts(s, r)
    /\ \A k \in s.blocks :
          /\ k.host \notin Hosts(s, r) /\ k.name \notin Parts(s, r)
          /\ r \notin DOMAIN u.region =>
                /\ k.name # <<"region", r>>
                /\ \A i \in 1..Len(s.region[r].chain) : k.name # <<"buff", s.region[r].chain[i]>>
          => k \in u.blocks

(* Only the buffers of the regions that go are gone.                       *)
LEMMA HostsIs ==
    ASSUME NEW s, Core(s), NEW r \in DOMAIN s.region, NEW q \in DOMAIN s.region,
           NEW i \in 1..Len(s.region[q].chain)
    PROVE  s.region[q].chain[i] \in Hosts(s, r) <=> q \in Under(s, r)
  <1>1. s \in States /\ Under(s, r) \subseteq DOMAIN s.region
    BY UnderIs DEF Core
  <1>2. ASSUME q \in Under(s, r)
        PROVE  s.region[q].chain[i] \in Hosts(s, r)
    <2>1. s.region[q].chain[i] \in Chain(s, q)
      BY <1>1, ChainIs
    <2>. QED
      BY <1>2, <2>1 DEF Hosts
  <1>3. ASSUME s.region[q].chain[i] \in Hosts(s, r)
        PROVE  q \in Under(s, r)
    <2>1. PICK p \in Under(s, r) : s.region[q].chain[i] \in Chain(s, p)
      BY <1>3 DEF Hosts
    <2>2. p \in DOMAIN s.region
      BY <1>1
    <2>3. PICK j \in 1..Len(s.region[p].chain) : s.region[q].chain[i] = s.region[p].chain[j]
      BY <1>1, <2>1, <2>2, ChainIs, SMTT(30)
    <2>4. q = p
      BY <2>2, <2>3 DEF Core, Chained
    <2>. QED
      BY <2>4
  <1>. QED
    BY <1>2, <1>3

(* Where a block of a region that stays is, it stays, unless its name is   *)
(* among those that go.                                                    *)
LEMMA CutLies ==
    ASSUME NEW s, Core(s), NEW r \in DOMAIN s.region, NEW u, CutIs(s, r, u),
           NEW q \in DOMAIN s.region \ Under(s, r), NEW name, Lies(s, name, q),
           name \notin Parts(s, r),
           r \notin DOMAIN u.region =>
              /\ name # <<"region", r>>
              /\ \A i \in 1..Len(s.region[r].chain) : name # <<"buff", s.region[r].chain[i]>>
    PROVE  Lies(u, name, q)
  <1>1. PICK k \in s.blocks : /\ k.name = name
                              /\ \E i \in 1..Len(s.region[q].chain) :
                                    k.host = s.region[q].chain[i]
    BY DEF Lies
  <1>2. PICK i \in 1..Len(s.region[q].chain) : k.host = s.region[q].chain[i]
    BY <1>1
  <1>3. k.host \notin Hosts(s, r)
    BY <1>2, HostsIs
  <1>4. k \in u.blocks
    BY <1>1, <1>3 DEF CutIs
  <1>5. q # r
    BY UnderIs
  <1>6. u.region[q] = s.region[q]
    BY <1>5 DEF CutIs
  <1>. QED
    BY <1>1, <1>2, <1>4, <1>6 DEF Lies

LEMMA CutTreed ==
    ASSUME NEW s, Core(s), NEW r \in DOMAIN s.region, NEW u, CutIs(s, r, u)
    PROVE  Treed(u)
  <1>. DEFINE U == Under(s, r)
              D == DOMAIN s.region
              E == DOMAIN u.region
  <1>1. /\ r \in U /\ U \subseteq D
        /\ \A q \in D : s.region[q].parent \in U => q \in U
    BY UnderIs
  <1>2. /\ r = Root => r \in E
        /\ E \ {r} = D \ U /\ E \subseteq D
        /\ \A q \in E : u.region[q].parent = s.region[q].parent
    BY DEF CutIs
  <1>3. /\ \A q \in D : s.region[q].parent \in D
        /\ \A S \in SUBSET D : Root \in S /\ Closed(s, S) => D \subseteq S
    BY DEF Core, Treed
  <1>4. r # Root => s.region[r].parent \notin U
    BY ParentAbove DEF Core
  <1>5. Root \in D /\ s.region[Root].parent = Root
    BY DEF Core, Rooted
  <1>6. ASSUME NEW q \in E
        PROVE  s.region[q].parent \in E
    <2>1. CASE q # r
      <3>1. q \in D \ U
        BY <1>2, <2>1
      <3>2. s.region[q].parent \in D \ U
        BY <1>1, <1>3, <3>1
      <3>. QED
        BY <1>2, <3>2
    <2>2. CASE q = r /\ r # Root
      <3>1. s.region[q].parent \in D \ U
        BY <1>2, <1>3, <1>4, <2>2
      <3>. QED
        BY <1>2, <3>1
    <2>3. CASE q = r /\ r = Root
      BY <1>2, <1>5, <2>3
    <2>. QED
      BY <2>1, <2>2, <2>3
  <1>7. ASSUME NEW S \in SUBSET E, Root \in S, Closed(u, S)
        PROVE  E \subseteq S
    <2>. DEFINE T == S \cup (D \ E)
    <2>1. T \in SUBSET D /\ Root \in T
      BY <1>2, <1>7
    <2>2. Closed(s, T)
      BY <1>2, <1>6, <1>7 DEF Closed
    <2>3. D \subseteq T
      <3>. HIDE DEF T
      <3>. QED
        BY <1>3, <2>1, <2>2
    <2>. QED
      BY <1>2, <2>3
  <1>. QED
    BY <1>2, <1>6, <1>7 DEF Treed

LEMMA CutParents ==
    ASSUME NEW s, Core(s), NEW r \in DOMAIN s.region, NEW u, CutIs(s, r, u),
           NEW q \in DOMAIN u.region \ {Root}
    PROVE  /\ q \in DOMAIN s.region \ {Root}
           /\ u.region[q].parent = s.region[q].parent
           /\ s.region[q].parent \in DOMAIN s.region \ Under(s, r)
           /\ q # r => q \notin Under(s, r)
  <1>1. /\ q \in DOMAIN s.region
        /\ u.region[q].parent = s.region[q].parent
        /\ q # r => q \notin Under(s, r)
    BY DEF CutIs
  <1>2. s.region[q].parent \in DOMAIN s.region
    BY <1>1 DEF Core, Treed
  <1>3. CASE q = r
    BY <1>1, <1>2, <1>3, ParentAbove DEF Core
  <1>4. CASE q # r
    BY <1>1, <1>2, <1>4, UnderIs
  <1>. QED
    BY <1>1, <1>2, <1>3, <1>4

LEMMA CutChained ==
    ASSUME NEW s, Core(s), NEW r \in DOMAIN s.region, NEW u, CutIs(s, r, u)
    PROVE  /\ Chained(u)
           /\ \A q \in DOMAIN u.region :
                 /\ u.region[q].mode = s.region[q].mode
                 /\ Len(u.region[q].chain) <= Len(s.region[q].chain)
                 /\ \A i \in 1..Len(u.region[q].chain) :
                       u.region[q].chain[i] = s.region[q].chain[i]
  <1>1. s \in States /\ u \in States /\ Chained(s)
    BY DEF Core, CutIs
  <1>2. DOMAIN u.region \subseteq DOMAIN s.region
    BY DEF CutIs
  <1>3. \A q \in DOMAIN s.region : Len(s.region[q].chain) \in Nat
    BY <1>1, ChainIs
  <1>4. ASSUME NEW q \in DOMAIN u.region
        PROVE  /\ u.region[q].mode = s.region[q].mode
               /\ Len(u.region[q].chain) \in Nat
               /\ Len(u.region[q].chain) <= Len(s.region[q].chain)
               /\ \A i \in 1..Len(u.region[q].chain) :
                     u.region[q].chain[i] = s.region[q].chain[i]
    <2>1. Len(u.region[q].chain) \in Nat
      BY <1>1, ChainIs
    <2>2. CASE q = r
      BY <2>1, <2>2 DEF CutIs
    <2>3. CASE q # r
      <3>1. u.region[q] = s.region[q]
        BY <2>3 DEF CutIs
      <3>. QED
        BY <2>1, <3>1
    <2>. QED
      BY <2>2, <2>3
  <1>5. ASSUME NEW q \in DOMAIN u.region, NEW i \in 1..Len(u.region[q].chain)
        PROVE  /\ i \in 1..Len(s.region[q].chain)
               /\ u.region[q].chain[i] = s.region[q].chain[i]
               /\ q \in DOMAIN s.region
    <2>1. Len(s.region[q].chain) \in Nat
      BY <1>2, <1>3
    <2>. QED
      BY <1>2, <1>4, <2>1
  <1>6. ASSUME NEW q \in DOMAIN u.region, NEW i \in 1..Len(u.region[q].chain)
        PROVE  /\ u.region[q].chain[i] \in DOMAIN u.buff
               /\ u.buff[u.region[q].chain[i]].kind = u.region[q].mode.kind
    <2>. DEFINE b == s.region[q].chain[i]
    <2>1. /\ q \in DOMAIN s.region /\ i \in 1..Len(s.region[q].chain)
          /\ u.region[q].chain[i] = b
      BY <1>5
    <2>2. b \in DOMAIN s.buff /\ s.buff[b].kind = s.region[q].mode.kind
      BY <1>1, <2>1 DEF Chained
    <2>3. b \in DOMAIN u.buff
      <3>1. CASE q = r
        <4>1. Chain(u, q) = {u.region[q].chain[j] : j \in 1..Len(u.region[q].chain)}
          BY <1>1, ChainIs
        <4>2. b \in Chain(u, r)
          BY <2>1, <3>1, <4>1
        <4>. QED
          BY <3>1, <4>2 DEF CutIs
      <3>2. CASE q # r
        <4>1. q \notin Under(s, r)
          BY <3>2 DEF CutIs
        <4>2. b \notin Hosts(s, r)
          BY <2>1, <4>1, HostsIs
        <4>. QED
          BY <2>2, <4>2 DEF CutIs
      <3>. QED
        BY <3>1, <3>2
    <2>4. u.buff[b].kind = s.buff[b].kind
      BY <2>3 DEF CutIs
    <2>. QED
      BY <1>4, <2>1, <2>2, <2>3, <2>4
  <1>7. ASSUME NEW b \in DOMAIN u.buff
        PROVE  \E q \in DOMAIN u.region : \E i \in 1..Len(u.region[q].chain) :
                  u.region[q].chain[i] = b
    <2>1. CASE b \in Hosts(s, r)
      <3>1. r \in DOMAIN u.region /\ b \in Chain(u, r)
        BY <2>1 DEF CutIs
      <3>. QED
        BY <1>1, <3>1, ChainIs
    <2>2. CASE b \notin Hosts(s, r)
      <3>1. b \in DOMAIN s.buff
        BY DEF CutIs
      <3>2. PICK q \in DOMAIN s.region : \E i \in 1..Len(s.region[q].chain) : s.region[q].chain[i] = b
        BY <1>1, <3>1 DEF Chained
      <3>3. PICK i \in 1..Len(s.region[q].chain) : s.region[q].chain[i] = b
        BY <3>2
      <3>4. q \notin Under(s, r)
        BY <2>2, <3>3, HostsIs
      <3>5. q # r /\ q \in DOMAIN u.region
        BY <3>4, UnderIs DEF CutIs
      <3>6. u.region[q] = s.region[q]
        BY <3>5 DEF CutIs
      <3>. QED
        BY <3>3, <3>5, <3>6
    <2>. QED
      BY <2>1, <2>2
  <1>8. ASSUME NEW q \in DOMAIN u.region, NEW p \in DOMAIN u.region,
               NEW i \in 1..Len(u.region[q].chain), NEW j \in 1..Len(u.region[p].chain),
               u.region[q].chain[i] = u.region[p].chain[j]
        PROVE  q = p /\ i = j
    <2>1. /\ q \in DOMAIN s.region /\ p \in DOMAIN s.region
          /\ i \in 1..Len(s.region[q].chain) /\ j \in 1..Len(s.region[p].chain)
          /\ s.region[q].chain[i] = s.region[p].chain[j]
      BY <1>5, <1>8
    <2>. QED
      BY <1>1, <2>1 DEF Chained
  <1>9. Chained(u)
    BY <1>6, <1>7, <1>8 DEF Chained
  <1>. QED
    BY <1>4, <1>9

LEMMA CutRooted ==
    ASSUME NEW s, Core(s), NEW r \in DOMAIN s.region, NEW u, CutIs(s, r, u)
    PROVE  Rooted(u)
  <1>1. /\ Root \in DOMAIN s.region /\ s.region[Root].parent = Root
        /\ s.region[Root].chain = <<RootBuff>> /\ s.region[Root].mode.fixed
    BY DEF Core, Rooted
  <1>2. CASE r = Root
    <2>1. /\ Root \in DOMAIN u.region /\ u.region[Root].parent = Root
          /\ u.region[Root].mode = s.region[Root].mode
          /\ s.region[Root].chain # <<>> => Len(u.region[Root].chain) = 1
          /\ \A i \in 1..Len(u.region[Root].chain) :
                u.region[Root].chain[i] = s.region[Root].chain[i]
      BY <1>1, <1>2 DEF CutIs
    <2>2. <<RootBuff>> # <<>> /\ <<RootBuff>>[1] = RootBuff
      OBVIOUS
    <2>3. Len(u.region[Root].chain) = 1
      BY <1>1, <2>1, <2>2
    <2>4. u.region[Root].chain[1] = RootBuff
      BY <1>1, <2>1, <2>2, <2>3
    <2>5. u.region[Root].chain \in Seq(AllBuffs)
      BY <2>1, ChainIs DEF CutIs
    <2>6. u.region[Root].chain = <<RootBuff>>
      BY <2>3, <2>4, <2>5
    <2>. QED
      BY <1>1, <2>1, <2>6 DEF Rooted
  <1>3. CASE r # Root
    <2>1. Root \notin Under(s, r)
      BY <1>3, ParentAbove DEF Core
    <2>2. Root \in DOMAIN u.region \ {r} /\ u.region[Root] = s.region[Root]
      BY <1>1, <1>3, <2>1 DEF CutIs
    <2>. QED
      BY <1>1, <2>2 DEF Rooted
  <1>. QED
    BY <1>2, <1>3

LEMMA CutHosted ==
    ASSUME NEW s, Core(s), NEW r \in DOMAIN s.region, NEW u, CutIs(s, r, u),
           NEW q \in DOMAIN u.region \ {Root}
    PROVE  Hosted(u, q)
  <1>. DEFINE p == s.region[q].parent
  <1>1. /\ q \in DOMAIN s.region \ {Root} /\ u.region[q].parent = p
        /\ p \in DOMAIN s.region \ Under(s, r)
        /\ q # r => q \notin Under(s, r)
    BY CutParents
  <1>2. Hosted(s, q)
    BY <1>1 DEF Core
  <1>. HIDE DEF p
  <1>3. Lies(u, <<"region", q>>, p)
    <2>. DEFINE x == <<"region", q>>
    <2>1. Lies(s, x, p)
      BY <1>2 DEF Hosted, p
    <2>2. x \notin Parts(s, r) /\ \A i \in 1..Len(s.region[r].chain) : x # <<"buff", s.region[r].chain[i]>>
      BY NamesDiffer DEF Parts
    <2>3. r \notin DOMAIN u.region => x # <<"region", r>>
      BY NamesDiffer
    <2>. HIDE DEF x
    <2>4. Lies(u, x, p)
      BY <1>1, <2>1, <2>2, <2>3, CutLies
    <2>. QED
      BY <2>4 DEF x
  <1>4. ASSUME NEW i \in 1..Len(u.region[q].chain)
        PROVE  Lies(u, <<"buff", u.region[q].chain[i]>>, p)
    <2>. DEFINE b == s.region[q].chain[i]
                x == <<"buff", b>>
    <2>0. s \in States /\ u \in States /\ Chained(s)
      BY DEF Core, CutIs
    <2>1. /\ Len(u.region[q].chain) <= Len(s.region[q].chain)
          /\ u.region[q].chain[i] = b
      BY CutChained
    <2>2. i \in 1..Len(s.region[q].chain)
      <3>1. Len(s.region[q].chain) \in Nat /\ Len(u.region[q].chain) \in Nat
        BY <1>1, <2>0, ChainIs
      <3>. QED
        BY <2>1, <3>1
    <2>3. Lies(s, x, p)
      BY <1>2, <2>2 DEF Hosted, p
    <2>4. \A j \in 1..Len(s.region[r].chain) : b = s.region[r].chain[j] => q = r /\ i = j
      BY <1>1, <2>0, <2>2 DEF Chained
    <2>. HIDE DEF b
    <2>5. q = r => i = 1
      <3>1. q = r => Len(u.region[q].chain) <= 1
        BY DEF CutIs
      <3>2. Len(u.region[q].chain) \in Nat
        BY <2>0, ChainIs
      <3>. QED
        BY <3>1, <3>2
    <2>6. x \notin Parts(s, r)
      <3>1. ASSUME NEW j \in 2..Len(s.region[r].chain), x = <<"buff", s.region[r].chain[j]>>
            PROVE  FALSE
        <4>1. b = s.region[r].chain[j]
          BY <3>1, NamesDiffer
        <4>2. j \in 1..Len(s.region[r].chain) /\ j # 1
          <5>1. Len(s.region[r].chain) \in Nat
            BY <2>0, ChainIs
          <5>. QED
            BY <5>1
        <4>. QED
          BY <2>4, <2>5, <4>1, <4>2
      <3>. QED
        BY <3>1 DEF Parts
    <2>7. ASSUME r \notin DOMAIN u.region
          PROVE  /\ x # <<"region", r>>
                 /\ \A j \in 1..Len(s.region[r].chain) : x # <<"buff", s.region[r].chain[j]>>
      <3>1. q # r
        BY <2>7
      <3>. QED
        BY <2>4, <3>1, NamesDiffer
    <2>. HIDE DEF x
    <2>8. Lies(u, x, p)
      BY <1>1, <2>3, <2>6, <2>7, CutLies
    <2>. QED
      BY <2>1, <2>8 DEF x
  <1>. QED
    BY <1>1, <1>3, <1>4 DEF Hosted

LEMMA CutRoomy ==
    ASSUME NEW s, Core(s), NEW r \in DOMAIN s.region, NEW u, CutIs(s, r, u),
           NEW q \in DOMAIN u.region \ {Root}
    PROVE  Roomy(u, q)
  <1>1. q \in DOMAIN s.region \ {Root} /\ s \in States /\ u \in States
    BY CutParents DEF Core, CutIs
  <1>2. Roomy(s, q)
    BY <1>1 DEF Core
  <1>3. u.region[q].size = s.region[q].size
    BY DEF CutIs
  <1>4. ASSUME NEW i \in 1..Len(u.region[q].chain), NEW k \in u.blocks,
               k.name = <<"buff", u.region[q].chain[i]>>
        PROVE  BuffStruct + u.buff[u.region[q].chain[i]].size <= k.size
    <2>. DEFINE b == s.region[q].chain[i]
    <2>1. /\ Len(u.region[q].chain) <= Len(s.region[q].chain)
          /\ u.region[q].chain[i] = b
          /\ u.region[q].chain[i] \in DOMAIN u.buff
      BY CutChained DEF Chained
    <2>2. i \in 1..Len(s.region[q].chain)
      <3>1. Len(s.region[q].chain) \in Nat /\ Len(u.region[q].chain) \in Nat
        BY <1>1, ChainIs
      <3>. QED
        BY <2>1, <3>1
    <2>3. k \in s.blocks
      BY DEF CutIs
    <2>4. BuffStruct + s.buff[b].size <= k.size
      BY <1>2, <1>4, <2>1, <2>2, <2>3 DEF Roomy
    <2>5. u.buff[b].size = s.buff[b].size
      BY <2>1 DEF CutIs
    <2>. QED
      BY <2>1, <2>4, <2>5
  <1>. QED
    BY <1>2, <1>3, <1>4 DEF Roomy

LEMMA CutKeeps ==
    ASSUME NEW s, Sound(s), NEW r \in DOMAIN s.region, NEW u, CutIs(s, r, u)
    PROVE  /\ Sound(u) /\ NamesOf(u) \subseteq NamesOf(s)
           /\ \A H : Kept(s, H) => Kept(u, {h \in H : h.region \notin Under(s, r)})
  <1>1. Core(s) /\ s \in States /\ u \in States /\ Chained(s)
    BY DEF Sound, Core, CutIs
  <1>2. Lodged(u)
    <2>1. \A k \in u.blocks : k \in s.blocks /\ k.host \notin Hosts(s, r)
      BY DEF CutIs
    <2>2. \A k \in s.blocks : k.host \in DOMAIN s.buff
      BY <1>1 DEF Core, Lodged
    <2>3. \A k \in u.blocks : k.host \in DOMAIN u.buff
      BY <2>1, <2>2 DEF CutIs
    <2>. QED
      BY <1>1, <2>1, <2>3 DEF Core, Lodged
  <1>3. Core(u)
    BY <1>1, <1>2, CutRooted, CutChained, CutTreed, CutHosted, CutRoomy DEF Core
  <1>4. ASSUME NEW q \in DOMAIN u.region
        PROVE  Serves(u, q, Len(u.region[q].chain))
    <2>1. CASE q = r
      <3>1. Len(u.region[r].chain) <= 1 /\ Len(u.region[r].chain) \in Nat
        BY <1>1, <2>1, ChainIs DEF CutIs
      <3>2. 2..Len(u.region[r].chain) = {}
        BY <3>1
      <3>. QED
        BY <2>1, <3>2 DEF Serves
    <2>2. CASE q # r
      <3>1. /\ q \in DOMAIN s.region /\ q \notin Under(s, r)
            /\ u.region[q] = s.region[q]
        BY <2>2 DEF CutIs
      <3>2. Serves(s, q, Len(s.region[q].chain))
        BY <3>1 DEF Sound
      <3>3. ASSUME NEW i \in 2..Len(s.region[q].chain), s.region[q].mode.kind = "nofree"
            PROVE  u.buff[s.region[q].chain[i]].used > Header
        <4>. DEFINE b == s.region[q].chain[i]
        <4>1. i \in 1..Len(s.region[q].chain)
          <5>1. Len(s.region[q].chain) \in Nat
            BY <1>1, <3>1, ChainIs
          <5>. QED
            BY <5>1
        <4>2. b \notin Hosts(s, r) /\ b \in DOMAIN s.buff
          BY <1>1, <3>1, <4>1, HostsIs DEF Chained
        <4>3. b \in DOMAIN u.buff /\ u.buff[b] = s.buff[b]
          BY <4>2 DEF CutIs
        <4>4. s.buff[b].used > Header
          BY <3>2, <3>3 DEF Serves
        <4>. QED
          BY <4>3, <4>4
      <3>. QED
        BY <3>1, <3>3 DEF Serves
    <2>. QED
      BY <2>1, <2>2
  <1>5. NamesOf(u) \subseteq NamesOf(s)
    BY DEF CutIs, NamesOf
  <1>6. ASSUME NEW H, Kept(s, H)
        PROVE  Kept(u, {h \in H : h.region \notin Under(s, r)})
    <2>1. ASSUME NEW h \in H, h.region \notin Under(s, r)
          PROVE  /\ h \in [name : Users, region : DOMAIN u.region, size : Nat]
                 /\ Lies(u, <<"user", h.name>>, h.region)
      <3>. DEFINE x == <<"user", h.name>>
      <3>1. h \in [name : Users, region : DOMAIN s.region, size : Nat] /\ Lies(s, x, h.region)
        BY <1>6 DEF Kept
      <3>2. h.region \in DOMAIN s.region \ Under(s, r)
        BY <2>1, <3>1
      <3>3. h.region \in DOMAIN u.region
        BY <3>2 DEF CutIs
      <3>4. /\ x \notin Parts(s, r) /\ x # <<"region", r>>
            /\ \A i \in 1..Len(s.region[r].chain) : x # <<"buff", s.region[r].chain[i]>>
        BY NamesDiffer DEF Parts
      <3>5. Lies(s, x, h.region)
        BY <3>1
      <3>. HIDE DEF x
      <3>6. Lies(u, x, h.region)
        BY <1>1, <3>2, <3>4, <3>5, CutLies
      <3>. QED
        BY <3>1, <3>3, <3>6 DEF x
    <2>. QED
      BY <1>6, <2>1 DEF Kept
  <1>. QED
    BY <1>3, <1>4, <1>5, <1>6 DEF Sound

(* The buffers are freed one after the other.                              *)
Work(F, B, K) == [region : {F}, buff : {B}, blocks : SUBSET K, misused : BOOLEAN]

LEMMA BuffFreedIs ==
    ASSUME NEW F, NEW B, NEW K, NEW t \in Work(F, B, K), NEW r, NEW b,
           NEW u, u = BuffFreed(t, r, b)
    PROVE  /\ u \in Work(F, B, K) /\ u.blocks \subseteq t.blocks
           /\ \A k \in t.blocks : k.name # <<"buff", b>> => k \in u.blocks
           /\ ~ t.misused /\ <<"buff", b>> \in NamesOf(t) => ~ u.misused
  <1>. DEFINE name == <<"buff", b>>
              intact == \E k \in t.blocks : k.name = name
              v == [t EXCEPT !.misused = @ \/ ~ intact]
              p == t.region[r].parent
              found == {k \in t.blocks : k.name = name}
              L == t.blocks \ {k \in found : k.host = LastBuff(v, p)}
  <1>1. /\ t = [region |-> F, buff |-> B, blocks |-> t.blocks, misused |-> t.misused]
        /\ t.blocks \subseteq K /\ t.misused \in BOOLEAN
    BY DEF Work
  <1>. DEFINE m == t.misused \/ ~ intact
  <1>2. v = [region |-> F, buff |-> B, blocks |-> t.blocks, misused |-> m] /\ m \in BOOLEAN
    <2>. HIDE DEF intact
    <2>. QED
      BY <1>1
  <1>3. u = Freed(v, p, name)
    BY DEF BuffFreed
  <1>4. intact <=> name \in NamesOf(t)
    BY DEF NamesOf
  <1>5. intact <=> found # {}
    OBVIOUS
  <1>6. v.blocks = t.blocks
    BY <1>2
  <1>7. CASE found = {}
    <2>1. u = [v EXCEPT !.misused = TRUE]
      BY <1>3, <1>6, <1>7 DEF Freed
    <2>. HIDE DEF v, m, found, intact, name
    <2>2. u = [region |-> F, buff |-> B, blocks |-> t.blocks, misused |-> TRUE]
      BY <1>2, <2>1
    <2>. QED
      BY <1>1, <1>4, <1>5, <1>7, <2>2 DEF Work, name
  <1>8. CASE found # {}
    <2>1. u = [v EXCEPT !.blocks = L]
      BY <1>3, <1>6, <1>8 DEF Freed
    <2>2. L \subseteq t.blocks /\ \A k \in t.blocks : k.name # name => k \in L
      OBVIOUS
    <2>3. ~ t.misused => ~ m
      BY <1>5, <1>8
    <2>. HIDE DEF v, m, found, intact, L, name
    <2>4. u = [region |-> F, buff |-> B, blocks |-> L, misused |-> m]
      BY <1>2, <2>1
    <2>5. u \in Work(F, B, K)
      BY <1>1, <1>2, <2>2, <2>4 DEF Work
    <2>. QED
      BY <2>2, <2>3, <2>4, <2>5 DEF name
  <1>. QED
    BY <1>7, <1>8

InTurn(e, r, doomed, n, at) ==
    at = [i \in 0..n |-> IF i = 0 THEN e ELSE BuffFreed(at[i - 1], r, doomed[i])]

LEMMA InTurnExists ==
    ASSUME NEW F, NEW B, NEW K, NEW e \in Work(F, B, K), NEW r, NEW doomed, NEW n \in Nat
    PROVE  \E at : InTurn(e, r, doomed, n, at)
  <1>. DEFINE V == Work(F, B, K)
              G == [i \in 1..n |-> [t \in V |-> BuffFreed(t, r, doomed[i])]]
  <1>1. \A t \in V : \A b : BuffFreed(t, r, b) \in V
    BY BuffFreedIs
  <1>. HIDE DEF V
  <1>2. G \in [1..n -> [V -> V]]
    BY <1>1
  <1>3. PICK at \in Ascents(n, V, e, G) : TRUE
    <2>1. e \in V
      BY DEF V
    <2>. HIDE DEF G
    <2>. QED
      BY <1>2, <2>1, AscentExists
  <1>4. /\ at \in [0..n -> V] /\ at[0] = e
        /\ \A i \in 1..n : at[i] = G[i][at[i - 1]]
    <2>. HIDE DEF G
    <2>. QED
      BY <1>3 DEF Ascents
  <1>5. \A i \in 1..n : at[i] = BuffFreed(at[i - 1], r, doomed[i])
    <2>1. \A i \in 1..n : at[i - 1] \in V
      BY <1>4
    <2>. QED
      BY <1>4, <2>1
  <1>6. at = [i \in 0..n |-> IF i = 0 THEN e ELSE BuffFreed(at[i - 1], r, doomed[i])]
    <2>1. \A i \in 0..n : at[i] = IF i = 0 THEN e ELSE BuffFreed(at[i - 1], r, doomed[i])
      BY <1>4, <1>5
    <2>2. at = [i \in 0..n |-> at[i]]
      BY <1>4
    <2>. QED
      BY <2>1, <2>2
  <1>. QED
    BY <1>6 DEF InTurn

AllFreed(F, B, K, doomed, n, t) ==
    /\ t \in Work(F, B, K) /\ ~ t.misused
    /\ \A k \in K : (\A j \in 1..n : k.name # <<"buff", doomed[j]>>) => k \in t.blocks

LEMMA InTurnIs ==
    ASSUME NEW F, NEW B, NEW K, NEW e \in Work(F, B, K), ~ e.misused, e.blocks = K,
           NEW r, NEW doomed, NEW n \in Nat,
           \A i \in 1..n : <<"buff", doomed[i]>> \in NamesOf(e),
           \A i, j \in 1..n : doomed[i] = doomed[j] => i = j,
           NEW at, InTurn(e, r, doomed, n, at)
    PROVE  AllFreed(F, B, K, doomed, n, at[n])
  <1>. DEFINE P(i) == /\ at[i] \in Work(F, B, K) /\ ~ at[i].misused
                      /\ \A k \in K : (\A j \in 1..i : k.name # <<"buff", doomed[j]>>)
                                        => k \in at[i].blocks
              S == {i \in Nat : i <= n => P(i)}
  <1>1. at[0] = e /\ \A i \in 1..n : at[i] = BuffFreed(at[i - 1], r, doomed[i])
    BY DEF InTurn
  <1>2. 0 \in S
    BY <1>1
  <1>3. ASSUME NEW i \in Nat, i \in S
        PROVE  i + 1 \in S
    <2>. SUFFICES ASSUME i + 1 <= n
                  PROVE  P(i + 1)
      OBVIOUS
    <2>1. P(i) /\ i + 1 \in 1..n /\ (i + 1) - 1 = i
      BY <1>3
    <2>2. at[i + 1] = BuffFreed(at[i], r, doomed[i + 1])
      BY <1>1, <2>1
    <2>3. PICK k \in K : k.name = <<"buff", doomed[i + 1]>>
      BY <2>1 DEF NamesOf
    <2>4. ASSUME NEW j \in 1..i
          PROVE  k.name # <<"buff", doomed[j]>>
      <3>1. j \in 1..n /\ j # i + 1
        BY <2>1
      <3>2. doomed[j] # doomed[i + 1]
        BY <2>1, <3>1
      <3>. QED
        BY <2>3, <3>2, NamesDiffer
    <2>5. <<"buff", doomed[i + 1]>> \in NamesOf(at[i])
      BY <2>1, <2>3, <2>4 DEF NamesOf
    <2>6. /\ at[i + 1] \in Work(F, B, K) /\ ~ at[i + 1].misused
          /\ \A l \in at[i].blocks : l.name # <<"buff", doomed[i + 1]>> => l \in at[i + 1].blocks
      BY <2>1, <2>2, <2>5, BuffFreedIs
    <2>7. ASSUME NEW l \in K, \A j \in 1..(i + 1) : l.name # <<"buff", doomed[j]>>
          PROVE  l \in at[i + 1].blocks
      <3>1. \A j \in 1..i : j \in 1..(i + 1)
        OBVIOUS
      <3>2. i + 1 \in 1..(i + 1)
        OBVIOUS
      <3>. QED
        BY <2>1, <2>6, <2>7, <3>1, <3>2
    <2>. QED
      BY <2>6, <2>7
  <1>. HIDE DEF S
  <1>4. n \in S
    BY <1>2, <1>3, NatSetInduction
  <1>. QED
    BY <1>4 DEF S, AllFreed

LEMMA DoomedIs ==
    ASSUME NEW chain \in Seq(AllBuffs), chain # <<>>
    PROVE  /\ Len(FreedByReset(chain)) \in Nat
           /\ \A i \in 1..Len(FreedByReset(chain)) :
                 /\ i + 1 \in 2..Len(chain)
                 /\ FreedByReset(chain)[i] = chain[i + 1]
           /\ Head(chain) = chain[1] /\ 1 \in 1..Len(chain)
  BY DEF FreedByReset

(* What lay in the regions below is forgotten, r keeps its buffers.        *)
EmptiedIs(s, r, e) ==
    e = [region |-> Without(s.region, Under(s, r) \ {r}), buff |-> s.buff,
         blocks |-> s.blocks \ HostedIn(s, Hosts(s, r)), misused |-> FALSE]

LEMMA EmptiedRecord ==
    ASSUME NEW F, NEW B, NEW K, NEW m, NEW F2, NEW K2,
           NEW s, s = [region |-> F, buff |-> B, blocks |-> K, misused |-> m]
    PROVE  [[s EXCEPT !.blocks = K2] EXCEPT !.region = F2] =
              [region |-> F2, buff |-> B, blocks |-> K2, misused |-> m]
  <1>1. [s EXCEPT !.blocks = K2] = [region |-> F, buff |-> B, blocks |-> K2, misused |-> m]
    OBVIOUS
  <1>2. [[region |-> F, buff |-> B, blocks |-> K2, misused |-> m] EXCEPT !.region = F2]
           = [region |-> F2, buff |-> B, blocks |-> K2, misused |-> m]
    OBVIOUS
  <1>. QED
    BY <1>1, <1>2, Zenon

LEMMA EmptiedShape ==
    ASSUME NEW s, s \in States, NEW r,
           NEW e, e = [s EXCEPT !.blocks = @ \ HostedIn(s, Hosts(s, r)),
                                !.region = Without(@, Under(s, r) \ {r})]
    PROVE  EmptiedIs(s, r, e)
  <1>. DEFINE K == s.blocks \ HostedIn(s, Hosts(s, r))
              F == Without(s.region, Under(s, r) \ {r})
  <1>1. /\ s = [region |-> s.region, buff |-> s.buff, blocks |-> s.blocks, misused |-> s.misused]
        /\ s.misused = FALSE
    BY StateIs
  <1>2. e = [[s EXCEPT !.blocks = K] EXCEPT !.region = F]
    OBVIOUS
  <1>3. e = [region |-> F, buff |-> s.buff, blocks |-> K, misused |-> FALSE]
    <2>. HIDE DEF F, K
    <2>. QED
      BY <1>1, <1>2, EmptiedRecord
  <1>. QED
    BY <1>3 DEF EmptiedIs, K, F

Remaining(s, r, F) ==
    /\ F \in [DOMAIN F -> Structs]
    /\ DOMAIN F \subseteq DOMAIN s.region /\ r \in DOMAIN F
    /\ DOMAIN F \ {r} = DOMAIN s.region \ Under(s, r)
    /\ \A q \in DOMAIN F : F[q] = s.region[q]
    /\ r # Root => s.region[r].parent \in DOMAIN F \ {r}

LEMMA EmptiedMap ==
    ASSUME NEW s, Core(s), NEW r \in DOMAIN s.region,
           NEW F, F = Without(s.region, Under(s, r) \ {r})
    PROVE  Remaining(s, r, F)
  <1>1. s.region \in [DOMAIN s.region -> Structs]
    BY StateIs DEF Core
  <1>2. r \in Under(s, r) /\ Under(s, r) \subseteq DOMAIN s.region
    BY UnderIs
  <1>3. /\ DOMAIN F = DOMAIN s.region \ (Under(s, r) \ {r})
        /\ \A q \in DOMAIN F : F[q] = s.region[q]
        /\ F = [q \in DOMAIN F |-> s.region[q]]
    BY DEF Without
  <1>4. r # Root => s.region[r].parent \in DOMAIN s.region \ Under(s, r)
    BY ParentAbove DEF Core, Treed
  <1>. QED
    BY <1>1, <1>2, <1>3, <1>4 DEF Remaining

LEMMA WasResetShape ==
    ASSUME NEW s, Core(s), NEW r \in DOMAIN s.region, NEW u, u = WasReset(s, r)
    PROVE  CutIs(s, r, u) /\ r \in DOMAIN u.region
  <1>. DEFINE chain == s.region[r].chain
              gone == Under(s, r)
              hosts == Hosts(s, r)
              e == [s EXCEPT !.blocks = @ \ HostedIn(s, hosts),
                             !.region = Without(@, gone \ {r})]
              F == Without(s.region, gone \ {r})
              K == s.blocks \ HostedIn(s, hosts)
              doomed == FreedByReset(chain)
              n == Len(doomed)
              freed[i \in 0..n] ==
                  IF i = 0 THEN e ELSE BuffFreed(freed[i - 1], r, doomed[i])
              head == Head(chain)
  <1>1. s \in States /\ Chained(s)
    BY DEF Core
  <1>2. e = [region |-> F, buff |-> s.buff, blocks |-> K, misused |-> FALSE]
    <2>1. EmptiedIs(s, r, e)
      BY <1>1, EmptiedShape
    <2>. QED
      BY <2>1 DEF EmptiedIs
  <1>3. /\ F \in [DOMAIN F -> Structs] /\ DOMAIN F \subseteq DOMAIN s.region /\ r \in DOMAIN F
        /\ DOMAIN F \ {r} = DOMAIN s.region \ gone
        /\ \A q \in DOMAIN F : F[q] = s.region[q]
        /\ r # Root => s.region[r].parent \in DOMAIN F \ {r}
    <2>1. F = Without(s.region, Under(s, r) \ {r})
      OBVIOUS
    <2>. HIDE DEF F
    <2>2. Remaining(s, r, F)
      BY <2>1, EmptiedMap
    <2>. QED
      BY <2>2 DEF Remaining
  <1>4. K \in SUBSET Blocks /\ K \subseteq s.blocks
        /\ \A k \in s.blocks : k \in K <=> k.host \notin hosts
    BY <1>1, StateIs DEF HostedIn
  <1>5. chain \in Seq(AllBuffs) /\ Len(chain) \in Nat
    BY <1>1, ChainIs
  <1>6. DOMAIN s.region \subseteq AllRegions /\ s.buff \in BuffMaps /\ DOMAIN s.buff \subseteq AllBuffs
        /\ s.buff \in [DOMAIN s.buff -> Bufs]
    BY <1>1, StateIs DEF States
  <1>7. /\ (chain = <<>> => u = e)
        /\ (chain # <<>> =>
              u = [freed[n] EXCEPT
                     !.buff = With(Without(@, hosts), head, NewBuff(s.buff[head].kind, s.buff[head].size)),
                     !.region[r].chain = <<head>>])
    BY DEF WasReset, Hosts
  <1>8. CASE chain = <<>>
    <2>1. /\ u.region = F /\ u.buff = s.buff /\ u.blocks = K /\ u.misused = FALSE
          /\ u = [region |-> F, buff |-> s.buff, blocks |-> K, misused |-> FALSE]
      BY <1>2, <1>7, <1>8
    <2>2. gone = {r}
      BY <1>8, EmptyAlone
    <2>3. hosts = {}
      <3>1. Chain(s, r) = {}
        BY <1>8 DEF Chain, Range
      <3>. QED
        BY <2>2, <3>1 DEF Hosts
    <2>4. u \in States
      <3>1. F \in RegionMaps
        BY <1>3, <1>6 DEF RegionMaps
      <3>. HIDE DEF F, K
      <3>. QED
        BY <1>4, <1>6, <2>1, <3>1 DEF States
    <2>5. Len(u.region[r].chain) = 0 /\ u.region[r] = s.region[r]
      <3>1. u.region[r] = s.region[r]
        <4>. HIDE DEF F
        <4>. QED
          BY <1>3, <2>1
      <3>2. u.region[r].chain = <<>>
        BY <1>8, <3>1
      <3>. QED
        BY <3>1, <3>2
    <2>6. Chain(u, r) = {}
      BY <1>8, <2>5 DEF Chain, Range
    <2>. HIDE DEF F, K, hosts, gone, e, freed
    <2>7. /\ DOMAIN u.region \ {r} = DOMAIN s.region \ Under(s, r)
          /\ DOMAIN u.region \subseteq DOMAIN s.region /\ r \in DOMAIN u.region
          /\ \A q \in DOMAIN u.region \ {r} : u.region[q] = s.region[q]
      BY <1>3, <2>1 DEF gone
    <2>8. Hosts(s, r) = {} /\ u.buff = s.buff
      BY <2>1, <2>3 DEF hosts
    <2>9. u.blocks \subseteq s.blocks /\ s.blocks \subseteq u.blocks
      BY <1>4, <2>1, <2>3
    <2>10. /\ Len(u.region[r].chain) <= 1 /\ Len(u.region[r].chain) <= Len(s.region[r].chain)
           /\ 1..Len(u.region[r].chain) = {}
      BY <2>5
    <2>11. /\ DOMAIN u.buff = (DOMAIN s.buff \ Hosts(s, r)) \cup Chain(u, r)
           /\ DOMAIN u.buff \subseteq DOMAIN s.buff
      BY <2>6, <2>8
    <2>. QED
      BY <1>8, <2>4, <2>5, <2>7, <2>8, <2>9, <2>10, <2>11 DEF CutIs
  <1>9. CASE chain # <<>>
    <2>1. /\ n \in Nat
          /\ \A i \in 1..n : i + 1 \in 2..Len(chain) /\ doomed[i] = chain[i + 1]
          /\ head = chain[1] /\ 1 \in 1..Len(chain)
      BY <1>5, <1>9, DoomedIs
    <2>2. ~ e.misused /\ e.blocks = K /\ e \in Work(F, s.buff, K)
      BY <1>2 DEF Work
    <2>3. InTurn(e, r, doomed, n, freed)
      <3>1. \E at : InTurn(e, r, doomed, n, at)
        <4>. HIDE DEF e, doomed, n, F, K
        <4>. QED
          BY <2>1, <2>2, InTurnExists
      <3>2. \E at : at = [i \in 0..n |-> IF i = 0 THEN e ELSE BuffFreed(at[i - 1], r, doomed[i])]
        <4>. HIDE DEF e, doomed, n
        <4>. QED
          BY <3>1 DEF InTurn
      <3>3. freed = [i \in 0..n |-> IF i = 0 THEN e ELSE BuffFreed(freed[i - 1], r, doomed[i])]
        <4>. HIDE DEF e, doomed, n
        <4>. QED
          BY <3>2
      <3>. HIDE DEF e, doomed, n, freed
      <3>. QED
        BY <3>3 DEF InTurn
    <2>. DEFINE w == freed[n]
    <2>4. \A i \in 1..n : <<"buff", doomed[i]>> \in NamesOf(e)
      <3>1. ASSUME NEW i \in 1..n
            PROVE  <<"buff", doomed[i]>> \in NamesOf(e)
        <4>. DEFINE j == i + 1
                    x == <<"buff", chain[j]>>
                    p == s.region[r].parent
        <4>1. j \in 1..Len(chain) /\ j # 1 /\ Len(chain) > 1
          BY <1>5, <2>1
        <4>2. r # Root
          <5>. SUFFICES ASSUME r = Root
                        PROVE  FALSE
            OBVIOUS
          <5>1. chain = <<RootBuff>>
            BY DEF Core, Rooted
          <5>2. Len(<<RootBuff>>) = 1
            OBVIOUS
          <5>. HIDE DEF chain
          <5>3. Len(chain) = 1
            BY <5>1, <5>2
          <5>. QED
            BY <4>1, <5>3
        <4>3. Lies(s, x, p)
          BY <4>1, <4>2 DEF Core, Hosted
        <4>4. p \in DOMAIN s.region \ gone
          BY <1>3, <4>2
        <4>. HIDE DEF x, p
        <4>5. PICK k \in s.blocks : /\ k.name = x
                                    /\ \E l \in 1..Len(s.region[p].chain) : k.host = s.region[p].chain[l]
          BY <4>3 DEF Lies
        <4>6. k.host \notin hosts
          BY <4>4, <4>5, HostsIs
        <4>7. k \in e.blocks
          BY <1>4, <2>2, <4>6
        <4>. HIDE DEF e, doomed, n
        <4>. QED
          BY <2>1, <4>5, <4>7 DEF NamesOf, x
      <3>. QED
        BY <3>1
    <2>5. \A i, j \in 1..n : doomed[i] = doomed[j] => i = j
      <3>1. \A i, j \in 1..Len(chain) : chain[i] = chain[j] => i = j
        BY <1>1 DEF Chained
      <3>2. \A i \in 1..n : i + 1 \in 1..Len(chain) /\ doomed[i] = chain[i + 1]
        BY <1>5, <2>1
      <3>3. ASSUME NEW i \in 1..n, NEW j \in 1..n, doomed[i] = doomed[j]
            PROVE  i = j
        <4>1. i + 1 = j + 1
          BY <3>1, <3>2, <3>3
        <4>. QED
          BY <4>1
      <3>. QED
        BY <3>3
    <2>6. /\ w \in Work(F, s.buff, K) /\ ~ w.misused
          /\ \A k \in K : (\A j \in 1..n : k.name # <<"buff", doomed[j]>>) => k \in w.blocks
      <3>1. n \in Nat
        BY <2>1
      <3>. HIDE DEF e, doomed, n, freed, F, K, chain
      <3>2. AllFreed(F, s.buff, K, doomed, n, freed[n])
        BY <2>2, <2>3, <2>4, <2>5, <3>1, InTurnIs
      <3>. QED
        BY <3>2 DEF AllFreed
    <2>. DEFINE L == w.blocks
                g == [F[r] EXCEPT !.chain = <<head>>]
                F2 == [F EXCEPT ![r] = g]
                d == NewBuff(s.buff[head].kind, s.buff[head].size)
                B2 == With(Without(s.buff, hosts), head, d)
    <2>7. w = [region |-> F, buff |-> s.buff, blocks |-> L, misused |-> FALSE] /\ L \subseteq K
      BY <2>6 DEF Work
    <2>8. u = [region |-> F2, buff |-> B2, blocks |-> L, misused |-> FALSE]
      <3>. HIDE DEF freed, n, F, L, hosts, d, head, gone
      <3>1. w.region = F /\ w.buff = s.buff
        BY <2>7
      <3>2. u = [[w EXCEPT !.buff = B2] EXCEPT !.region = F2]
        BY <1>7, <1>9, <3>1 DEF d
      <3>. HIDE DEF w, B2, F2
      <3>. QED
        BY <2>7, <3>2
    <2>9. head \in AllBuffs /\ head \in DOMAIN s.buff
      <3>1. chain[1] \in DOMAIN s.buff
        BY <1>1, <2>1 DEF Chained
      <3>. QED
        BY <1>6, <2>1, <3>1
    <2>10. head \in hosts
      <3>1. r \in gone
        BY UnderIs
      <3>2. chain[1] \in Hosts(s, r) <=> r \in Under(s, r)
        BY <2>1, HostsIs
      <3>. QED
        BY <2>1, <3>1, <3>2
    <2>. HIDE DEF head
    <2>11. /\ F[r] = s.region[r] /\ F[r] \in Structs
      BY <1>3
    <2>12. /\ g \in Structs /\ g.parent = F[r].parent /\ g.mode = F[r].mode
           /\ g.size = F[r].size /\ g.chain = <<head>>
      <3>1. F[r] = [parent |-> F[r].parent, chain |-> F[r].chain, size |-> F[r].size, mode |-> F[r].mode]
        BY <2>11 DEF Structs
      <3>2. g = [parent |-> F[r].parent, chain |-> <<head>>, size |-> F[r].size, mode |-> F[r].mode]
        <4>. HIDE DEF F
        <4>. QED
          BY <3>1
      <3>3. <<head>> \in Seq(AllBuffs)
        BY <2>9
      <3>. HIDE DEF g, F
      <3>. QED
        BY <2>11, <3>2, <3>3 DEF Structs
    <2>13. /\ DOMAIN F2 = DOMAIN F /\ F2 \in [DOMAIN F -> Structs] /\ F2[r] = g
           /\ \A q \in DOMAIN F \ {r} : F2[q] = s.region[q]
      <3>. HIDE DEF F, g
      <3>. QED
        BY <1>3, <2>12
    <2>. HIDE DEF F2, g, F, K, L
    <2>14. /\ s.buff[head] \in Bufs /\ d \in Bufs
           /\ d.kind = s.buff[head].kind /\ d.size = s.buff[head].size
      BY <1>6, <2>9, NumbersAre DEF NewBuff, Bufs
    <2>. HIDE DEF d
    <2>15. /\ DOMAIN B2 = (DOMAIN s.buff \ hosts) \cup {head}
           /\ B2[head] = d
           /\ \A b \in DOMAIN s.buff \ hosts : B2[b] = s.buff[b]
           /\ B2 \in [DOMAIN B2 -> Bufs]
      <3>. DEFINE W == Without(s.buff, hosts)
      <3>1. DOMAIN W = DOMAIN s.buff \ hosts /\ \A b \in DOMAIN s.buff \ hosts : W[b] = s.buff[b]
        BY WithoutIs
      <3>2. /\ DOMAIN With(W, head, d) = DOMAIN W \cup {head}
            /\ With(W, head, d)[head] = d
            /\ \A b \in DOMAIN W : b # head => With(W, head, d)[b] = W[b]
            /\ With(W, head, d) = [b \in DOMAIN W \cup {head} |-> IF b = head THEN d ELSE W[b]]
        BY DEF With
      <3>3. \A b \in DOMAIN s.buff \ hosts : W[b] \in Bufs
        BY <1>6, <3>1
      <3>. HIDE DEF W, hosts
      <3>4. With(W, head, d) \in [DOMAIN W \cup {head} -> Bufs]
        BY <2>14, <3>1, <3>2, <3>3
      <3>. QED
        BY <2>10, <3>1, <3>2, <3>4 DEF W
    <2>. HIDE DEF B2
    <2>16. u \in States
      <3>1. F2 \in RegionMaps
        BY <1>3, <1>6, <2>13 DEF RegionMaps
      <3>2. DOMAIN B2 \in SUBSET AllBuffs
        BY <1>6, <2>9, <2>15
      <3>3. B2 \in BuffMaps
        BY <2>15, <3>2 DEF BuffMaps
      <3>4. L \in SUBSET Blocks
        BY <1>4, <2>7
      <3>. QED
        BY <2>8, <3>1, <3>3, <3>4 DEF States
    <2>17. u.region = F2 /\ u.buff = B2 /\ u.blocks = L
      BY <2>8
    <2>18. Len(<<head>>) = 1 /\ <<head>>[1] = head
      OBVIOUS
    <2>19. /\ Len(u.region[r].chain) = 1 /\ u.region[r].chain[1] = chain[1]
           /\ u.region[r].parent = s.region[r].parent /\ u.region[r].mode = s.region[r].mode
           /\ u.region[r].size = s.region[r].size
      BY <2>1, <2>11, <2>12, <2>13, <2>17, <2>18
    <2>20. Chain(u, r) = {head}
      <3>1. u.region[r].chain = <<head>>
        BY <2>12, <2>13, <2>17
      <3>. QED
        BY <3>1 DEF Chain, Range
    <2>21. Len(chain) >= 1
      BY <1>5, <2>1
    <2>22. ASSUME NEW k \in s.blocks, k.host \notin hosts, k.name \notin Parts(s, r)
           PROVE  k \in L
      <3>1. k \in K
        BY <1>4, <2>22
      <3>2. \A j \in 1..n : k.name # <<"buff", doomed[j]>>
        <4>. HIDE DEF doomed, n
        <4>. QED
          BY <2>1, <2>22 DEF Parts
      <3>. HIDE DEF n, doomed, freed
      <3>. QED
        BY <2>6, <3>1, <3>2 DEF L
    <2>23. /\ DOMAIN u.region \ {r} = DOMAIN s.region \ Under(s, r)
           /\ DOMAIN u.region \subseteq DOMAIN s.region /\ r \in DOMAIN u.region
           /\ \A q \in DOMAIN u.region \ {r} : u.region[q] = s.region[q]
      BY <1>3, <2>13, <2>17
    <2>24. /\ DOMAIN u.buff = (DOMAIN s.buff \ Hosts(s, r)) \cup Chain(u, r)
           /\ DOMAIN u.buff \subseteq DOMAIN s.buff
           /\ \A b \in DOMAIN u.buff :
                 /\ u.buff[b].kind = s.buff[b].kind /\ u.buff[b].size = s.buff[b].size
                 /\ b \notin Hosts(s, r) => u.buff[b] = s.buff[b]
      BY <2>9, <2>10, <2>14, <2>15, <2>17, <2>20
    <2>25. /\ u.blocks \subseteq s.blocks
           /\ \A k \in u.blocks : k.host \notin Hosts(s, r)
           /\ \A k \in s.blocks : k.host \notin Hosts(s, r) /\ k.name \notin Parts(s, r)
                                    => k \in u.blocks
      BY <1>4, <2>7, <2>17, <2>22
    <2>26. /\ Len(u.region[r].chain) <= 1 /\ Len(u.region[r].chain) <= Len(s.region[r].chain)
           /\ \A i \in 1..Len(u.region[r].chain) : u.region[r].chain[i] = s.region[r].chain[i]
      BY <2>19, <2>21
    <2>. QED
      BY <2>16, <2>19, <2>23, <2>24, <2>25, <2>26 DEF CutIs
  <1>. QED
    BY <1>8, <1>9

LEMMA DestroyedRecord ==
    ASSUME NEW F, NEW B, NEW K, NEW m, NEW F2, NEW B2,
           NEW s, s = [region |-> F, buff |-> B, blocks |-> K, misused |-> m]
    PROVE  [[s EXCEPT !.region = F2] EXCEPT !.buff = B2] =
              [region |-> F2, buff |-> B2, blocks |-> K, misused |-> m]
  <1>1. [s EXCEPT !.region = F2] = [region |-> F2, buff |-> B, blocks |-> K, misused |-> m]
    OBVIOUS
  <1>2. [[region |-> F2, buff |-> B, blocks |-> K, misused |-> m] EXCEPT !.buff = B2]
           = [region |-> F2, buff |-> B2, blocks |-> K, misused |-> m]
    OBVIOUS
  <1>. QED
    BY <1>1, <1>2, Zenon

LEMMA DestroyedShape ==
    ASSUME NEW s, Sound(s), NEW r \in DOMAIN s.region \ {Root}, NEW u, u = Destroyed(s, r)
    PROVE  CutIs(s, r, u)
  <1>. DEFINE t == WasReset(s, r)
              name == <<"region", r>>
              v == Freed(t, s.region[r].parent, name)
              F == Without(t.region, {r})
              B == Without(t.buff, Chain(t, r))
  <1>1. Core(s) /\ s \in States
    BY DEF Sound, Core
  <1>2. CutIs(s, r, t) /\ r \in DOMAIN t.region
    BY <1>1, WasResetShape
  <1>. HIDE DEF t
  <1>3. t \in States
    BY <1>2 DEF CutIs
  <1>4. name \in NamesOf(t)
    <2>1. Hosted(t, r)
      BY <1>1, <1>2, CutHosted
    <2>. QED
      BY <2>1 DEF Hosted, Lies, NamesOf
  <1>5. FreedIs(t, name, v)
    <2>. HIDE DEF name
    <2>. QED
      BY <1>3, <1>4, FreedShape
  <1>. HIDE DEF v
  <1>6. /\ v \in States /\ v.region = t.region /\ v.buff = t.buff /\ v.blocks \subseteq t.blocks
        /\ \A k \in t.blocks : k.name # name => k \in v.blocks
    BY <1>5 DEF FreedIs
  <1>7. u = [[v EXCEPT !.region = F] EXCEPT !.buff = B]
    <2>1. u = [v EXCEPT !.region = Without(@, {r}), !.buff = Without(@, Chain(t, r))]
      BY DEF Destroyed, t, v
    <2>. QED
      BY <1>6, <2>1
  <1>8. /\ DOMAIN F = DOMAIN t.region \ {r}
        /\ \A q \in DOMAIN F : F[q] = t.region[q]
        /\ F = [q \in DOMAIN t.region \ {r} |-> t.region[q]]
    BY DEF Without
  <1>9. /\ DOMAIN B = DOMAIN t.buff \ Chain(t, r)
        /\ \A b \in DOMAIN B : B[b] = t.buff[b]
        /\ B = [b \in DOMAIN t.buff \ Chain(t, r) |-> t.buff[b]]
    BY DEF Without
  <1>. HIDE DEF F, B
  <1>10. u = [region |-> F, buff |-> B, blocks |-> v.blocks, misused |-> FALSE]
    <2>1. /\ v = [region |-> v.region, buff |-> v.buff, blocks |-> v.blocks, misused |-> v.misused]
          /\ v.misused = FALSE
      BY <1>6, StateIs
    <2>. QED
      BY <1>7, <2>1, DestroyedRecord
  <1>11. u \in States
    <2>1. /\ DOMAIN t.region \subseteq AllRegions /\ t.region \in [DOMAIN t.region -> Structs]
          /\ DOMAIN t.buff \subseteq AllBuffs /\ t.buff \in [DOMAIN t.buff -> Bufs]
          /\ v.blocks \in SUBSET Blocks
      BY <1>3, <1>6, StateIs
    <2>2. F \in [DOMAIN F -> Structs] /\ DOMAIN F \in SUBSET AllRegions
      BY <1>8, <2>1
    <2>3. B \in [DOMAIN B -> Bufs] /\ DOMAIN B \in SUBSET AllBuffs
      BY <1>9, <2>1
    <2>4. F \in RegionMaps /\ B \in BuffMaps
      BY <2>2, <2>3 DEF RegionMaps, BuffMaps
    <2>. QED
      BY <1>10, <2>1, <2>4 DEF States
  <1>12. u.region = F /\ u.buff = B /\ u.blocks = v.blocks
    BY <1>10
  <1>13. Chain(t, r) \subseteq Hosts(s, r)
    <2>1. ASSUME NEW i \in 1..Len(t.region[r].chain)
          PROVE  t.region[r].chain[i] \in Hosts(s, r)
      <3>1. /\ Len(t.region[r].chain) <= Len(s.region[r].chain)
            /\ t.region[r].chain[i] = s.region[r].chain[i]
        BY <1>2 DEF CutIs
      <3>2. Len(t.region[r].chain) \in Nat /\ Len(s.region[r].chain) \in Nat
        BY <1>1, <1>2, <1>3, ChainIs
      <3>3. i \in 1..Len(s.region[r].chain)
        BY <3>1, <3>2
      <3>4. r \in Under(s, r)
        BY UnderIs
      <3>5. s.region[r].chain[i] \in Hosts(s, r)
        BY <1>1, <3>3, <3>4, HostsIs
      <3>. QED
        BY <3>1, <3>5
    <2>. QED
      BY <1>2, <1>3, <2>1, ChainIs
  <1>14. /\ DOMAIN u.region \ {r} = DOMAIN s.region \ Under(s, r)
         /\ DOMAIN u.region \subseteq DOMAIN s.region /\ r \notin DOMAIN u.region
         /\ \A q \in DOMAIN u.region \ {r} : u.region[q] = s.region[q]
    BY <1>2, <1>8, <1>12 DEF CutIs
  <1>15. DOMAIN t.buff = (DOMAIN s.buff \ Hosts(s, r)) \cup Chain(t, r)
    BY <1>2 DEF CutIs
  <1>16. DOMAIN u.buff = DOMAIN s.buff \ Hosts(s, r)
    BY <1>9, <1>12, <1>13, <1>15
  <1>17. \A b \in DOMAIN u.buff : u.buff[b] = s.buff[b]
    <2>1. \A b \in DOMAIN u.buff : b \in DOMAIN t.buff /\ b \notin Hosts(s, r) /\ u.buff[b] = t.buff[b]
      BY <1>9, <1>12, <1>15, <1>16
    <2>. QED
      BY <1>2, <2>1 DEF CutIs
  <1>18. /\ u.blocks \subseteq s.blocks
         /\ \A k \in u.blocks : k.host \notin Hosts(s, r)
         /\ \A k \in s.blocks : /\ k.host \notin Hosts(s, r) /\ k.name \notin Parts(s, r)
                                /\ k.name # <<"region", r>>
                                => k \in u.blocks
    BY <1>2, <1>6, <1>12 DEF CutIs
  <1>. HIDE DEF name
  <1>. QED
    BY <1>11, <1>14, <1>16, <1>17, <1>18 DEF CutIs

------------------------------------------------------------------------------
(* The calls of the interface.                                             *)
LEMMA BecomesKeeps ==
    ASSUME NEW s, Sound(s), Incoming \notin NamesOf(s), Becomes(s), Kept(s, held')
    PROVE  Inv'
  <1>1. s = [region |-> s.region, buff |-> s.buff, blocks |-> s.blocks, misused |-> s.misused]
    BY StateIs DEF Sound, Core
  <1>2. [region |-> region', buff |-> buff', blocks |-> blocks', misused |-> misused'] = s
    BY <1>1 DEF Becomes
  <1>3. State' = s
    BY <1>2 DEF State
  <1>. QED
    BY <1>3 DEF Inv

LEMMA SameHeld ==
    ASSUME NEW s, NEW t, Sound(s), Sound(t), Grew(s, t), Kept(s, held), held' = held
    PROVE  Kept(t, held')
  BY KeptGrows DEF Sound, Core

LEMMA InvIs ==
    ASSUME Inv
    PROVE  /\ Sound(State) /\ Core(State) /\ State \in States
           /\ Incoming \notin NamesOf(State) /\ Kept(State, held)
           /\ State.region = region /\ State.buff = buff /\ State.blocks = blocks
           /\ State.misused = misused
  BY DEF Inv, Sound, Core, State

(* Nobody uses the name of a block that is asked for.                      *)
LEMMA AskedForFresh ==
    ASSUME NEW s, NEW name, \A k \in s.blocks : k.name # name,
           \/ \E u \in Users : name = <<"user", u>>
           \/ \E r \in Regions : name = <<"region", r>>
    PROVE  Fresh(s, name)
  <1>1. name \in AllNames
    BY NamesDiffer DEF AllNames
  <1>2. name \notin BuffNames
    BY NamesDiffer DEF BuffNames
  <1>. QED
    BY <1>1, <1>2 DEF Fresh, NamesOf

LEMMA GivenLies ==
    ASSUME NEW s, NEW r, NEW name, NEW n, Given(s, r, name, n)
    PROVE  Lies(s, name, r)
  BY DEF Given, Lies

(* A request leaves no buffer without a name.                              *)
LEMMA GoodNamed ==
    ASSUME NEW s, Incoming \notin NamesOf(s), NEW name, Fresh(s, name), name # Incoming,
           NEW r, NEW n, NEW o, Good(s, r, name, n, o)
    PROVE  Incoming \notin NamesOf(o.s)
  <1>1. Incoming \notin BuffNames
    BY NamesDiffer
  <1>. QED
    BY <1>1 DEF Good

(* The holdings after a block for the caller.                              *)
LEMMA HeldMore ==
    ASSUME NEW s, NEW H, Kept(s, H), NEW t, Kept(t, H), NEW r \in DOMAIN t.region,
           NEW u \in Users, NEW n \in Nat, \A k \in s.blocks : k.name # <<"user", u>>,
           Lies(t, <<"user", u>>, r)
    PROVE  /\ Kept(t, H \cup {[name |-> u, region |-> r, size |-> n]})
           /\ \A h \in H : h.name # u
  <1>. DEFINE g == [name |-> u, region |-> r, size |-> n]
  <1>1. ASSUME NEW h \in H
        PROVE  h.name # u
    <2>1. Lies(s, <<"user", h.name>>, h.region)
      BY DEF Kept
    <2>. QED
      BY <2>1 DEF Lies
  <1>2. g.name = u /\ g.region = r /\ g \in [name : Users, region : DOMAIN t.region, size : Nat]
    OBVIOUS
  <1>. HIDE DEF g
  <1>3. Kept(t, H \cup {g})
    BY <1>1, <1>2 DEF Kept
  <1>. QED
    BY <1>1, <1>3 DEF g

LEMMA MallocKeeps ==
    ASSUME Inv, NEW r \in DOMAIN region, NEW n \in Asked, Malloc(r, n)
    PROVE  Inv'
  <1>. DEFINE u == Min(FreeUserNames)
              name == <<"user", u>>
  <1>1. /\ Sound(State) /\ Core(State) /\ State \in States
        /\ Incoming \notin NamesOf(State) /\ Kept(State, held)
        /\ State.region = region /\ State.blocks = blocks
    BY InvIs
  <1>2. u \in Users /\ \A k \in blocks : k.name # <<"user", u>>
    <2>1. FreeUserNames \in SUBSET Nat /\ FreeUserNames # {}
      BY NumbersAre DEF FreeUserNames, Malloc
    <2>2. u \in FreeUserNames
      BY <2>1, MinIsLeast
    <2>. QED
      BY <2>2 DEF FreeUserNames
  <1>3. n \in Nat \ {0}
    BY NumbersAre
  <1>4. PICK o \in Malloced(State, r, name, n) :
           /\ Becomes(o.s)
           /\ held' = IF o.ok THEN held \cup {[name |-> u, region |-> r, size |-> n]}
                      ELSE held
    BY DEF Malloc
  <1>. HIDE DEF u
  <1>5. Fresh(State, name) /\ name # Incoming
    BY <1>1, <1>2, AskedForFresh, NamesDiffer
  <1>. HIDE DEF name
  <1>6. Good(State, r, name, n, o)
    BY <1>1, <1>3, <1>5, MallocedGood
  <1>7. Sound(o.s) /\ Grew(State, o.s) /\ Incoming \notin NamesOf(o.s)
    BY <1>1, <1>5, <1>6, GoodNamed DEF Good
  <1>8. Kept(o.s, held)
    BY <1>1, <1>7, KeptGrows DEF Sound, Core
  <1>9. Kept(o.s, held')
    <2>1. CASE o.ok
      <3>1. Lies(o.s, name, r)
        BY <1>6, <2>1, GivenLies DEF Good
      <3>2. r \in DOMAIN o.s.region
        BY <1>1, <1>7 DEF Grew
      <3>. QED
        BY <1>1, <1>2, <1>3, <1>4, <1>8, <2>1, <3>1, <3>2, HeldMore DEF name
    <2>2. CASE ~ o.ok
      BY <1>4, <1>8, <2>2
    <2>. QED
      BY <2>1, <2>2
  <1>. QED
    BY <1>4, <1>7, <1>9, BecomesKeeps

(* A caller gives back what it holds.                                      *)
LEMMA GivenBack ==
    ASSUME NEW s, Sound(s), NEW H, Kept(s, H), NEW h \in H, NEW r,
           NEW u, u = Freed(s, r, <<"user", h.name>>)
    PROVE  /\ Sound(u) /\ NamesOf(u) \subseteq NamesOf(s)
           /\ Kept(u, H \ {h})
  <1>. DEFINE name == <<"user", h.name>>
  <1>1. s \in States
    BY DEF Sound, Core
  <1>2. name \in NamesOf(s)
    BY DEF Kept, Lies, NamesOf
  <1>3. /\ name \notin BuffNames /\ \A q \in Regions : name # <<"region", q>>
    BY NamesDiffer DEF BuffNames
  <1>4. \A x : name = <<"user", x>> => x = h.name
    BY NamesDiffer
  <1>5. u = Freed(s, r, name)
    OBVIOUS
  <1>. HIDE DEF name
  <1>6. FreedIs(s, name, u)
    BY <1>1, <1>2, <1>5, FreedShape
  <1>7. Sound(u) /\ NamesOf(u) \subseteq NamesOf(s)
    BY <1>3, <1>6, FreedKeeps
  <1>8. ASSUME NEW g \in H \ {h}
        PROVE  Lies(u, <<"user", g.name>>, g.region)
    <2>. DEFINE x == <<"user", g.name>>
    <2>1. x # name
      BY <1>4 DEF Kept
    <2>2. Lies(s, x, g.region)
      BY DEF Kept
    <2>. HIDE DEF x
    <2>3. Lies(u, x, g.region)
      BY <1>6, <2>1, <2>2 DEF Lies, FreedIs
    <2>. QED
      BY <2>3 DEF x
  <1>9. u.region = s.region
    BY <1>6 DEF FreedIs
  <1>10. Kept(u, H \ {h})
    BY <1>8, <1>9 DEF Kept
  <1>. QED
    BY <1>7, <1>10

LEMMA FreeKeeps ==
    ASSUME Inv, NEW h \in held, Free(h)
    PROVE  Inv'
  <1>. DEFINE u == Freed(State, h.region, <<"user", h.name>>)
  <1>1. Sound(State) /\ Incoming \notin NamesOf(State) /\ Kept(State, held)
    BY InvIs
  <1>2. Becomes(u) /\ held' = held \ {h}
    BY DEF Free
  <1>3. Sound(u) /\ NamesOf(u) \subseteq NamesOf(State) /\ Kept(u, held \ {h})
    BY <1>1, GivenBack
  <1>. HIDE DEF u
  <1>. QED
    BY <1>1, <1>2, <1>3, BecomesKeeps

LEMMA OreallocKeeps ==
    ASSUME Inv, NEW h \in held, NEW n \in Asked, Orealloc(h, n)
    PROVE  Inv'
  <1>. DEFINE u == Min(FreeUserNames)
              name == <<"user", u>>
              r == h.region
              g == [name |-> u, region |-> r, size |-> n]
  <1>1. /\ Sound(State) /\ Core(State) /\ State \in States
        /\ Incoming \notin NamesOf(State) /\ Kept(State, held)
        /\ State.region = region /\ State.blocks = blocks
    BY InvIs
  <1>2. u \in Users /\ \A k \in blocks : k.name # <<"user", u>>
    <2>1. FreeUserNames \in SUBSET Nat /\ FreeUserNames # {}
      BY NumbersAre DEF FreeUserNames, Orealloc
    <2>2. u \in FreeUserNames
      BY <2>1, MinIsLeast
    <2>. QED
      BY <2>2 DEF FreeUserNames
  <1>3. n \in Nat \ {0} /\ r \in DOMAIN region
    BY <1>1, NumbersAre DEF Kept
  <1>4. PICK o \in Malloced(State, r, name, n) :
           IF o.ok THEN /\ Becomes(Freed(o.s, r, <<"user", h.name>>))
                        /\ held' = (held \ {h}) \cup {g}
           ELSE Becomes(o.s) /\ UNCHANGED held
    BY DEF Orealloc
  <1>. HIDE DEF u
  <1>5. Fresh(State, name) /\ name # Incoming
    BY <1>1, <1>2, AskedForFresh, NamesDiffer
  <1>. HIDE DEF name, r
  <1>6. Good(State, r, name, n, o)
    BY <1>1, <1>3, <1>5, MallocedGood
  <1>7. Sound(o.s) /\ Grew(State, o.s) /\ Incoming \notin NamesOf(o.s)
    BY <1>1, <1>5, <1>6, GoodNamed DEF Good
  <1>8. Kept(o.s, held)
    BY <1>1, <1>7, KeptGrows DEF Sound, Core
  <1>9. CASE o.ok
    <2>. DEFINE f == Freed(o.s, r, <<"user", h.name>>)
    <2>1. Becomes(f) /\ held' = (held \ {h}) \cup {g}
      BY <1>4, <1>9
    <2>2. Lies(o.s, name, r)
      BY <1>6, <1>9, GivenLies DEF Good
    <2>3. r \in DOMAIN o.s.region
      BY <1>1, <1>3, <1>7 DEF Grew
    <2>4. Kept(o.s, held \cup {g}) /\ \A x \in held : x.name # u
      BY <1>1, <1>2, <1>3, <1>8, <2>2, <2>3, HeldMore DEF name
    <2>5. h \in held \cup {g} /\ (held \cup {g}) \ {h} = (held \ {h}) \cup {g}
      BY <2>4
    <2>. HIDE DEF g
    <2>6. Sound(f) /\ NamesOf(f) \subseteq NamesOf(o.s) /\ Kept(f, (held \cup {g}) \ {h})
      BY <1>7, <2>4, <2>5, GivenBack
    <2>. HIDE DEF f
    <2>. QED
      BY <1>7, <2>1, <2>5, <2>6, BecomesKeeps
  <1>10. CASE ~ o.ok
    <2>1. Becomes(o.s) /\ held' = held
      BY <1>4, <1>10
    <2>. QED
      BY <1>7, <1>8, <2>1, BecomesKeeps
  <1>. QED
    BY <1>9, <1>10

LEMMA CutInv ==
    ASSUME Inv, NEW r \in DOMAIN region, NEW u, CutIs(State, r, u), Becomes(u),
           held' = HeldAfter(Under(State, r))
    PROVE  Inv'
  <1>1. /\ Sound(State) /\ Incoming \notin NamesOf(State) /\ Kept(State, held)
        /\ r \in DOMAIN State.region
    BY InvIs
  <1>2. /\ Sound(u) /\ NamesOf(u) \subseteq NamesOf(State)
        /\ Kept(u, {h \in held : h.region \notin Under(State, r)})
    BY <1>1, CutKeeps
  <1>. QED
    BY <1>1, <1>2, BecomesKeeps DEF HeldAfter

LEMMA RegionResetKeeps ==
    ASSUME Inv, NEW r \in DOMAIN region, RegionReset(r)
    PROVE  Inv'
  <1>1. Core(State) /\ r \in DOMAIN State.region
    BY InvIs
  <1>2. CutIs(State, r, WasReset(State, r))
    BY <1>1, WasResetShape
  <1>. QED
    BY <1>2, CutInv DEF RegionReset

LEMMA RegionDestroyKeeps ==
    ASSUME Inv, NEW r \in DOMAIN region, RegionDestroy(r)
    PROVE  Inv'
  <1>1. Sound(State) /\ r \in DOMAIN State.region \ {Root}
    BY InvIs DEF RegionDestroy
  <1>2. CutIs(State, r, Destroyed(State, r))
    BY <1>1, DestroyedShape
  <1>. QED
    BY <1>2, CutInv DEF RegionDestroy

(* The new region, before its first buffer.                                *)
MadeIs(s, r, parent, size, mode, t) ==
    /\ t \in States
    /\ DOMAIN t.region = DOMAIN s.region \cup {r}
    /\ t.region[r] = Region(parent, <<>>, Default(size), mode)
    /\ \A q \in DOMAIN s.region : t.region[q] = s.region[q]
    /\ t.buff = s.buff /\ t.blocks = s.blocks

LEMMA MadeShape ==
    ASSUME NEW s, s \in States, NEW r \in Regions \ DOMAIN s.region,
           NEW parent \in DOMAIN s.region, NEW size \in Nat, NEW mode \in AllModes,
           NEW t, t = [s EXCEPT !.region = With(@, r, Region(parent, <<>>, Default(size), mode))]
    PROVE  MadeIs(s, r, parent, size, mode, t)
  <1>. DEFINE g == Region(parent, <<>>, Default(size), mode)
              F == With(s.region, r, g)
  <1>1. /\ DOMAIN s.region \subseteq AllRegions
        /\ s.region \in [DOMAIN s.region -> Structs]
        /\ s.buff \in BuffMaps /\ s.blocks \in SUBSET Blocks /\ s.misused = FALSE
    BY StateIs DEF States
  <1>2. g \in Structs
    <2>1. Default(size) \in Nat
      BY NumbersAre DEF Default, BuffSize, Larger
    <2>2. parent \in AllRegions /\ <<>> \in Seq(AllBuffs)
      BY <1>1
    <2>. QED
      BY <2>1, <2>2 DEF Region, Structs
  <1>. HIDE DEF g
  <1>3. /\ DOMAIN F = DOMAIN s.region \cup {r}
        /\ F[r] = g
        /\ \A q \in DOMAIN s.region : q # r => F[q] = s.region[q]
        /\ F = [q \in DOMAIN s.region \cup {r} |-> IF q = r THEN g ELSE s.region[q]]
    BY DEF With
  <1>4. t = [s EXCEPT !.region = F]
    BY DEF g
  <1>. HIDE DEF F
  <1>5. F \in [DOMAIN F -> Structs] /\ DOMAIN F \in SUBSET AllRegions
    <2>1. r \in AllRegions
      BY DEF AllRegions
    <2>2. \A q \in DOMAIN F : F[q] \in Structs
      BY <1>1, <1>2, <1>3
    <2>3. F = [q \in DOMAIN F |-> F[q]]
      BY <1>3
    <2>. QED
      BY <1>1, <1>3, <2>1, <2>2, <2>3
  <1>6. F \in RegionMaps
    BY <1>5 DEF RegionMaps
  <1>7. t \in States /\ t.region = F /\ t.buff = s.buff /\ t.blocks = s.blocks
    BY <1>1, <1>4, <1>6 DEF States
  <1>. QED
    BY <1>3, <1>7 DEF MadeIs, g

LEMMA MadeKeeps ==
    ASSUME NEW s, Sound(s), NEW r \in Regions \ DOMAIN s.region,
           NEW parent \in DOMAIN s.region, NEW size \in Nat, NEW mode \in AllModes,
           Lies(s, <<"region", r>>, parent),
           NEW t, MadeIs(s, r, parent, size, mode, t)
    PROVE  /\ Sound(t) /\ t.region[r].chain = <<>>
           /\ \A H : Kept(s, H) => Kept(t, H)
  <1>1. /\ s \in States /\ t \in States /\ Rooted(s) /\ Chained(s) /\ Treed(s) /\ Lodged(s)
        /\ \A q \in DOMAIN s.region \ {Root} : Hosted(s, q) /\ Roomy(s, q)
    BY DEF Sound, Core, MadeIs
  <1>2. /\ DOMAIN t.region = DOMAIN s.region \cup {r}
        /\ t.region[r].parent = parent /\ t.region[r].chain = <<>>
        /\ t.region[r].size = Default(size)
        /\ \A q \in DOMAIN s.region : t.region[q] = s.region[q] /\ q # r
        /\ t.buff = s.buff /\ t.blocks = s.blocks
    BY DEF MadeIs, Region
  <1>3. Len(t.region[r].chain) = 0 /\ 1..Len(t.region[r].chain) = {} /\ 2..Len(t.region[r].chain) = {}
    BY <1>2
  <1>4. r # Root /\ Root \in DOMAIN s.region
    BY <1>1, NumbersAre DEF Rooted
  <1>5. Rooted(t)
    BY <1>1, <1>2, <1>4 DEF Rooted
  <1>6. Chained(t)
    <2>1. ASSUME NEW q \in DOMAIN t.region, NEW i \in 1..Len(t.region[q].chain)
          PROVE  /\ q \in DOMAIN s.region /\ t.region[q] = s.region[q]
                 /\ i \in 1..Len(s.region[q].chain)
      BY <1>2, <1>3
    <2>2. \A q \in DOMAIN t.region : \A i \in 1..Len(t.region[q].chain) :
             /\ t.region[q].chain[i] \in DOMAIN t.buff
             /\ t.buff[t.region[q].chain[i]].kind = t.region[q].mode.kind
      <3>1. \A q \in DOMAIN s.region : \A i \in 1..Len(s.region[q].chain) :
               /\ s.region[q].chain[i] \in DOMAIN t.buff
               /\ t.buff[s.region[q].chain[i]].kind = s.region[q].mode.kind
        BY <1>1, <1>2 DEF Chained
      <3>. QED
        BY <2>1, <3>1
    <2>3. ASSUME NEW b \in DOMAIN t.buff
          PROVE  \E q \in DOMAIN t.region : \E i \in 1..Len(t.region[q].chain) :
                    t.region[q].chain[i] = b
      <3>1. PICK q \in DOMAIN s.region : \E i \in 1..Len(s.region[q].chain) : s.region[q].chain[i] = b
        BY <1>1, <1>2 DEF Chained
      <3>. QED
        BY <1>2, <3>1
    <2>4. ASSUME NEW q \in DOMAIN t.region, NEW p \in DOMAIN t.region,
                 NEW i \in 1..Len(t.region[q].chain), NEW j \in 1..Len(t.region[p].chain),
                 t.region[q].chain[i] = t.region[p].chain[j]
          PROVE  q = p /\ i = j
      <3>1. /\ q \in DOMAIN s.region /\ p \in DOMAIN s.region
            /\ i \in 1..Len(s.region[q].chain) /\ j \in 1..Len(s.region[p].chain)
            /\ s.region[q].chain[i] = s.region[p].chain[j]
        BY <2>1, <2>4
      <3>. QED
        BY <1>1, <3>1 DEF Chained
    <2>. QED
      BY <2>2, <2>3, <2>4 DEF Chained
  <1>7. Treed(t)
    <2>1. \A q \in DOMAIN t.region : t.region[q].parent \in DOMAIN t.region
      BY <1>1, <1>2 DEF Treed
    <2>2. ASSUME NEW S \in SUBSET DOMAIN t.region, Root \in S, Closed(t, S)
          PROVE  DOMAIN t.region \subseteq S
      <3>. DEFINE T == S \ {r}
      <3>1. T \in SUBSET DOMAIN s.region /\ Root \in T
        BY <1>2, <1>4, <2>2
      <3>2. Closed(s, T)
        BY <1>2, <2>2 DEF Closed
      <3>3. DOMAIN s.region \subseteq T
        <4>. HIDE DEF T
        <4>. QED
          BY <1>1, <3>1, <3>2 DEF Treed
      <3>4. parent \in S
        BY <3>3
      <3>5. r \in S
        BY <1>2, <2>2, <3>4 DEF Closed
      <3>. QED
        BY <1>2, <3>3, <3>5
    <2>. QED
      BY <2>1, <2>2 DEF Treed
  <1>8. Lodged(t)
    BY <1>1, <1>2 DEF Lodged
  <1>9. ASSUME NEW x, NEW q \in DOMAIN s.region, Lies(s, x, q)
        PROVE  Lies(t, x, q)
    BY <1>2, <1>9 DEF Lies
  <1>10. ASSUME NEW q \in DOMAIN t.region \ {Root}
         PROVE  Hosted(t, q) /\ Roomy(t, q)
    <2>1. CASE q = r
      <3>1. Lies(t, <<"region", r>>, parent)
        BY <1>9
      <3>2. Hosted(t, r)
        BY <1>2, <1>3, <3>1 DEF Hosted
      <3>3. Default(size) >= MinBuff
        BY NumbersAre DEF Default, BuffSize, Larger
      <3>4. Roomy(t, r)
        BY <1>2, <1>3, <3>3 DEF Roomy
      <3>. QED
        BY <2>1, <3>2, <3>4
    <2>2. CASE q # r
      <3>1. q \in DOMAIN s.region \ {Root} /\ t.region[q] = s.region[q]
        BY <1>2, <2>2
      <3>2. s.region[q].parent \in DOMAIN s.region
        BY <1>1, <3>1 DEF Treed
      <3>3. Hosted(s, q) /\ Roomy(s, q)
        BY <1>1, <3>1
      <3>4. Lies(t, <<"region", q>>, s.region[q].parent)
        BY <1>9, <3>2, <3>3 DEF Hosted
      <3>5. \A i \in 1..Len(s.region[q].chain) :
               Lies(t, <<"buff", s.region[q].chain[i]>>, s.region[q].parent)
        BY <1>9, <3>2, <3>3 DEF Hosted
      <3>6. Hosted(t, q)
        BY <3>1, <3>4, <3>5 DEF Hosted
      <3>7. Roomy(t, q)
        BY <1>2, <3>1, <3>3 DEF Roomy
      <3>. QED
        BY <3>6, <3>7
    <2>. QED
      BY <2>1, <2>2
  <1>11. ASSUME NEW q \in DOMAIN t.region
         PROVE  Serves(t, q, Len(t.region[q].chain))
    <2>1. CASE q = r
      BY <1>3, <2>1 DEF Serves
    <2>2. CASE q # r
      <3>1. q \in DOMAIN s.region /\ t.region[q] = s.region[q]
        BY <1>2, <2>2
      <3>2. Serves(s, q, Len(s.region[q].chain))
        BY <3>1 DEF Sound
      <3>. QED
        BY <1>2, <3>1, <3>2 DEF Serves
    <2>. QED
      BY <2>1, <2>2
  <1>12. ASSUME NEW H, Kept(s, H)
         PROVE  Kept(t, H)
    <2>1. ASSUME NEW h \in H
          PROVE  Lies(t, <<"user", h.name>>, h.region)
      <3>1. Lies(s, <<"user", h.name>>, h.region) /\ h.region \in DOMAIN s.region
        BY <1>12 DEF Kept
      <3>. QED
        BY <1>9, <3>1
    <2>. QED
      BY <1>2, <1>12, <2>1 DEF Kept
  <1>. QED
    BY <1>1, <1>2, <1>5, <1>6, <1>7, <1>8, <1>10, <1>11, <1>12 DEF Sound, Core

LEMMA RegionCreateKeeps ==
    ASSUME Inv, NEW p \in DOMAIN region, NEW i \in InitSizes, NEW n \in BuffSizes,
           NEW m \in Modes, RegionCreate(p, i, n, m)
    PROVE  Inv'
  <1>. DEFINE r == Min(FreeRegionNames)
              name == <<"region", r>>
              made(s) == [s EXCEPT !.region =
                             With(@, r, Region(p, <<>>, Default(n), m))]
  <1>1. /\ Sound(State) /\ Core(State) /\ State \in States
        /\ Incoming \notin NamesOf(State) /\ Kept(State, held)
        /\ State.region = region /\ State.blocks = blocks
    BY InvIs
  <1>2. /\ r \in Regions /\ r \notin DOMAIN region
        /\ \A k \in blocks : k.name # <<"region", r>>
    <2>1. FreeRegionNames \in SUBSET Nat /\ FreeRegionNames # {}
      BY NumbersAre DEF FreeRegionNames, RegionCreate
    <2>2. r \in FreeRegionNames
      BY <2>1, MinIsLeast
    <2>. QED
      BY <2>2 DEF FreeRegionNames
  <1>3. i \in Nat /\ n \in Nat /\ m \in AllModes /\ RegionStruct \in Nat \ {0}
    BY NumbersAre
  <1>4. PICK o \in Malloced(State, p, name, RegionStruct) :
           IF ~ o.ok THEN Becomes(o.s)
           ELSE IF i = 0 THEN Becomes(made(o.s))
           ELSE \E g \in Grown(made(o.s), r, i) :
                   Becomes(IF g.ok THEN g.s ELSE Destroyed(g.s, r))
    BY DEF RegionCreate
  <1>5. held' = held
    BY DEF RegionCreate
  <1>. HIDE DEF r
  <1>6. Fresh(State, name) /\ name # Incoming
    BY <1>1, <1>2, AskedForFresh, NamesDiffer
  <1>. HIDE DEF name
  <1>7. Good(State, p, name, RegionStruct, o)
    BY <1>1, <1>3, <1>6, MallocedGood
  <1>8. Sound(o.s) /\ Grew(State, o.s) /\ Incoming \notin NamesOf(o.s) /\ o.s \in States
    BY <1>1, <1>6, <1>7, GoodNamed DEF Good, Sound, Core
  <1>9. Kept(o.s, held)
    BY <1>1, <1>8, KeptGrows DEF Sound, Core
  <1>10. CASE ~ o.ok
    <2>1. Becomes(o.s)
      BY <1>4, <1>10
    <2>. QED
      BY <1>5, <1>8, <1>9, <2>1, BecomesKeeps
  <1>11. CASE o.ok
    <2>. DEFINE t == made(o.s)
    <2>1. Lies(o.s, <<"region", r>>, p)
      BY <1>7, <1>11, GivenLies DEF Good, name
    <2>2. r \in Regions \ DOMAIN o.s.region /\ p \in DOMAIN o.s.region
      BY <1>1, <1>2, <1>8 DEF Grew
    <2>3. MadeIs(o.s, r, p, n, m, t)
      BY <1>3, <1>8, <2>2, MadeShape
    <2>4. i = 0 => Becomes(t)
      BY <1>4, <1>11
    <2>5. i # 0 => \E g \in Grown(t, r, i) : Becomes(IF g.ok THEN g.s ELSE Destroyed(g.s, r))
      BY <1>4, <1>11
    <2>. HIDE DEF t
    <2>6. Sound(t) /\ t.region[r].chain = <<>> /\ Kept(t, held)
      BY <1>3, <1>8, <1>9, <2>1, <2>2, <2>3, MadeKeeps
    <2>7. Incoming \notin NamesOf(t) /\ DOMAIN t.region = DOMAIN o.s.region \cup {r}
      BY <1>8, <2>3 DEF MadeIs, NamesOf
    <2>8. CASE i = 0
      BY <1>5, <2>4, <2>6, <2>7, <2>8, BecomesKeeps
    <2>9. CASE i # 0
      <3>1. PICK g \in Grown(t, r, i) : Becomes(IF g.ok THEN g.s ELSE Destroyed(g.s, r))
        BY <2>5, <2>9
      <3>2. r \in DOMAIN t.region
        BY <2>7
      <3>3. /\ g.ok => Extended(t, r, i, g.s)
            /\ ~ g.ok => Refused(t, r, g)
        BY <1>3, <2>6, <2>7, <3>2, GrownGood
      <3>4. CASE g.ok
        <4>1. Extended(t, r, i, g.s) /\ Becomes(g.s)
          BY <3>1, <3>3, <3>4
        <4>2. Sound(g.s)
          BY <2>6, <3>2, <4>1, FirstBufferSound
        <4>3. Grew(t, g.s) /\ Incoming \notin NamesOf(g.s)
          BY <4>1 DEF Extended
        <4>4. Kept(g.s, held)
          BY <2>6, <4>2, <4>3, KeptGrows DEF Sound, Core
        <4>. QED
          BY <1>5, <4>1, <4>2, <4>3, <4>4, BecomesKeeps
      <3>5. CASE ~ g.ok
        <4>. DEFINE v == g.s
                    u == Destroyed(v, r)
        <4>1. Refused(t, r, g) /\ Becomes(u)
          BY <3>1, <3>3, <3>5
        <4>2. Good(t, r, Incoming, 0, g) /\ v.region[r].chain = <<>>
          BY <2>6, <4>1 DEF Refused
        <4>3. Sound(v) /\ Grew(t, v) /\ NamesOf(v) \subseteq NamesOf(t) \cup BuffNames
          BY <3>5, <4>2 DEF Good
        <4>4. Incoming \notin NamesOf(v)
          BY <2>7, <4>3, NamesDiffer
        <4>5. Kept(v, held)
          BY <2>6, <4>3, KeptGrows DEF Sound, Core
        <4>6. r \in DOMAIN v.region
          BY <3>2, <4>3 DEF Grew
        <4>. HIDE DEF v
        <4>7. Under(v, r) = {r} /\ r # Root
          BY <4>2, <4>3, <4>6, EmptyAlone DEF Sound
        <4>8. CutIs(v, r, u)
          BY <4>3, <4>6, <4>7, DestroyedShape
        <4>. HIDE DEF u
        <4>9. /\ Sound(u) /\ NamesOf(u) \subseteq NamesOf(v)
              /\ Kept(u, {h \in held : h.region \notin Under(v, r)})
          BY <4>3, <4>5, <4>6, <4>8, CutKeeps
        <4>10. {h \in held : h.region \notin Under(v, r)} = held
          <5>1. \A h \in held : h.region \in DOMAIN region
            BY <1>1 DEF Kept
          <5>. QED
            BY <1>2, <4>7, <5>1
        <4>. QED
          BY <1>5, <4>1, <4>4, <4>9, <4>10, BecomesKeeps
      <3>. QED
        BY <3>4, <3>5
    <2>. QED
      BY <2>8, <2>9
  <1>. QED
    BY <1>10, <1>11

LEMMA InitInv == Init => Inv
  <1>. SUFFICES ASSUME Init
                PROVE  Inv
    OBVIOUS
  <1>. DEFINE s == State
              g == Region(Root, <<RootBuff>>, RootSize,
                          [kind |-> RootKind, elastic |-> FALSE, fixed |-> TRUE])
              d == NewBuff(RootKind, RootSize)
  <1>1. /\ s = [region |-> region, buff |-> buff, blocks |-> blocks, misused |-> misused]
        /\ region = [q \in {Root} |-> g] /\ buff = [b \in {RootBuff} |-> d]
        /\ blocks = {} /\ held = {} /\ misused = FALSE
    BY DEF State, Init
  <1>. HIDE DEF s
  <1>2. /\ s.region = region /\ s.buff = buff /\ s.blocks = {} /\ s.misused = FALSE
    BY <1>1
  <1>3. /\ g \in Structs /\ g.parent = Root /\ g.chain = <<RootBuff>> /\ g.mode.fixed
        /\ g.mode.kind = RootKind
    <2>1. <<RootBuff>> \in Seq(AllBuffs) /\ Root \in AllRegions
      BY DEF AllBuffs, AllRegions
    <2>2. RootSize \in Nat /\ RootKind \in Kinds
      BY NumbersAre
    <2>. DEFINE m == [kind |-> RootKind, elastic |-> FALSE, fixed |-> TRUE]
    <2>3. m \in AllModes /\ m.fixed /\ m.kind = RootKind
      BY <2>2 DEF AllModes
    <2>. HIDE DEF m
    <2>4. g = [parent |-> Root, chain |-> <<RootBuff>>, size |-> RootSize, mode |-> m]
      BY DEF Region, m
    <2>. HIDE DEF g
    <2>. QED
      BY <2>1, <2>2, <2>3, <2>4 DEF Structs
  <1>4. d \in Bufs /\ d.kind = RootKind
    BY NumbersAre DEF NewBuff, Bufs
  <1>. HIDE DEF g, d
  <1>5. /\ DOMAIN region = {Root} /\ region[Root] = g /\ DOMAIN buff = {RootBuff}
        /\ buff[RootBuff] = d
    BY <1>1
  <1>6. Len(g.chain) = 1 /\ g.chain[1] = RootBuff /\ 1..Len(g.chain) = {1} /\ 2..Len(g.chain) = {}
    BY <1>3
  <1>7. s \in States
    <2>1. region \in [{Root} -> Structs] /\ buff \in [{RootBuff} -> Bufs]
      BY <1>1, <1>3, <1>4
    <2>2. {Root} \in SUBSET AllRegions /\ {RootBuff} \in SUBSET AllBuffs
      BY DEF AllRegions, AllBuffs
    <2>3. region \in RegionMaps /\ buff \in BuffMaps
      BY <2>1, <2>2 DEF RegionMaps, BuffMaps
    <2>. QED
      BY <1>1, <2>3 DEF States
  <1>8. Rooted(s)
    BY <1>2, <1>3, <1>5 DEF Rooted
  <1>9. Chained(s)
    <2>1. /\ DOMAIN s.region = {Root} /\ s.region[Root].chain = g.chain
          /\ s.region[Root].mode.kind = RootKind /\ 1..Len(s.region[Root].chain) = {1}
          /\ s.region[Root].chain[1] = RootBuff
          /\ DOMAIN s.buff = {RootBuff} /\ s.buff[RootBuff].kind = RootKind
      BY <1>2, <1>3, <1>4, <1>5, <1>6
    <2>. QED
      BY <2>1 DEF Chained
  <1>10. Treed(s)
    BY <1>2, <1>3, <1>5 DEF Treed
  <1>11. Lodged(s)
    BY <1>2 DEF Lodged
  <1>12. \A q \in DOMAIN s.region : q = Root /\ Serves(s, q, Len(s.region[q].chain))
    BY <1>2, <1>5, <1>6 DEF Serves
  <1>13. Sound(s)
    BY <1>7, <1>8, <1>9, <1>10, <1>11, <1>12 DEF Sound, Core
  <1>14. Incoming \notin NamesOf(s) /\ Kept(s, held)
    BY <1>1, <1>2 DEF NamesOf, Kept
  <1>. QED
    BY <1>13, <1>14 DEF Inv, s

LEMMA NextKeeps == Inv /\ [Next]_vars => Inv'
  <1>. SUFFICES ASSUME Inv, [Next]_vars
                PROVE  Inv'
    OBVIOUS
  <1>1. CASE UNCHANGED vars
    BY <1>1 DEF vars, Inv, State
  <1>2. CASE \E p \in DOMAIN region, i \in InitSizes, n \in BuffSizes, m \in Modes :
                RegionCreate(p, i, n, m)
    BY <1>2, RegionCreateKeeps
  <1>3. CASE \E r \in DOMAIN region : RegionDestroy(r)
    BY <1>3, RegionDestroyKeeps
  <1>4. CASE \E r \in DOMAIN region : RegionReset(r)
    BY <1>4, RegionResetKeeps
  <1>5. CASE \E r \in DOMAIN region, n \in Asked : Malloc(r, n)
    BY <1>5, MallocKeeps
  <1>6. CASE \E h \in held : Free(h)
    BY <1>6, FreeKeeps
  <1>7. CASE \E h \in held, n \in Asked : Orealloc(h, n)
    BY <1>7, OreallocKeeps
  <1>. QED
    BY <1>1, <1>2, <1>3, <1>4, <1>5, <1>6, <1>7 DEF Next

LEMMA AlwaysInv == Spec => []Inv
  BY InitInv, NextKeeps, PTL DEF Spec

LEMMA InvTyped == Inv => TypeOK
  <1>. SUFFICES ASSUME Inv
                PROVE  TypeOK
    OBVIOUS
  <1>1. /\ Core(State) /\ State \in States /\ State.region = region /\ State.buff = buff
        /\ State.blocks = blocks /\ State.misused = misused
        /\ Incoming \notin NamesOf(State)
    BY InvIs
  <1>2. Chained(State) /\ Lodged(State)
    BY <1>1 DEF Core
  <1>3. DOMAIN region \subseteq Regions \cup {Root} /\ misused \in BOOLEAN
    BY <1>1, StateIs DEF AllRegions
  <1>4. \A r \in DOMAIN region :
           Chain(State, r) = {region[r].chain[i] : i \in 1..Len(region[r].chain)}
    BY <1>1, ChainIs
  <1>5. \A r \in DOMAIN region : Chain(State, r) \subseteq DOMAIN buff
    BY <1>1, <1>2, <1>4 DEF Chained
  <1>6. DOMAIN buff = UNION {Chain(State, r) : r \in DOMAIN region}
    <2>1. ASSUME NEW b \in DOMAIN buff
          PROVE  \E r \in DOMAIN region : b \in Chain(State, r)
      <3>1. PICK r \in DOMAIN region : \E i \in 1..Len(region[r].chain) : region[r].chain[i] = b
        BY <1>1, <1>2 DEF Chained
      <3>. QED
        BY <1>4, <3>1
    <2>. QED
      BY <1>5, <2>1
  <1>7. ASSUME NEW k \in blocks
        PROVE  k.name \in Names /\ k.host \in DOMAIN buff
    <2>1. k.name \in AllNames /\ k.host \in DOMAIN buff
      BY <1>1, <1>2, BlockIs DEF Lodged
    <2>2. k.name # Incoming
      BY <1>1 DEF NamesOf
    <2>. QED
      BY <2>1, <2>2 DEF AllNames
  <1>. QED
    BY <1>3, <1>5, <1>6, <1>7 DEF TypeOK

LEMMA InvAnchored == Inv => Anchored
  <1>. SUFFICES ASSUME Inv
                PROVE  Anchored
    OBVIOUS
  <1>1. /\ Core(State) /\ State \in States /\ State.region = region
        /\ State.blocks = blocks /\ Kept(State, held)
    BY InvIs
  <1>2. \A r \in DOMAIN region :
           Chain(State, r) = {region[r].chain[i] : i \in 1..Len(region[r].chain)}
    BY <1>1, ChainIs
  <1>3. ASSUME NEW name, NEW r \in DOMAIN region, Lies(State, name, r)
        PROVE  \E k \in blocks : k.name = name /\ k.host \in Chain(State, r)
    <2>1. PICK k \in blocks : /\ k.name = name
                              /\ \E i \in 1..Len(region[r].chain) : k.host = region[r].chain[i]
      BY <1>1, <1>3 DEF Lies
    <2>2. k.host \in Chain(State, r)
      BY <1>2, <2>1
    <2>. QED
      BY <2>1, <2>2
  <1>4. ASSUME NEW r \in DOMAIN region \ {Root}
        PROVE  /\ region[r].parent \in DOMAIN region
               /\ \E k \in blocks : /\ k.name = <<"region", r>>
                                    /\ k.host \in Chain(State, region[r].parent)
               /\ \A b \in Chain(State, r) :
                     \E k \in blocks : /\ k.name = <<"buff", b>>
                                       /\ k.host \in Chain(State, region[r].parent)
    <2>1. Hosted(State, r) /\ region[r].parent \in DOMAIN region
      BY <1>1 DEF Core, Treed
    <2>2. Lies(State, <<"region", r>>, region[r].parent)
      BY <1>1, <2>1 DEF Hosted
    <2>3. \E k \in blocks : k.name = <<"region", r>> /\ k.host \in Chain(State, region[r].parent)
      BY <1>3, <2>1, <2>2
    <2>4. ASSUME NEW b \in Chain(State, r)
          PROVE  \E k \in blocks : k.name = <<"buff", b>> /\ k.host \in Chain(State, region[r].parent)
      <3>1. PICK i \in 1..Len(region[r].chain) : b = region[r].chain[i]
        BY <1>2
      <3>2. Lies(State, <<"buff", b>>, region[r].parent)
        BY <1>1, <2>1, <3>1 DEF Hosted
      <3>. QED
        BY <1>3, <2>1, <3>2
    <2>. QED
      BY <2>1, <2>3, <2>4
  <1>5. ASSUME NEW h \in held
        PROVE  \E k \in blocks : k.name = <<"user", h.name>> /\ k.host \in Chain(State, h.region)
    <2>1. Lies(State, <<"user", h.name>>, h.region) /\ h.region \in DOMAIN region
      BY <1>1 DEF Kept
    <2>. QED
      BY <1>3, <2>1
  <1>. QED
    BY <1>4, <1>5 DEF Anchored

LEMMA InvCovered == Inv => BuffersCovered
  <1>. SUFFICES ASSUME Inv, NEW r \in DOMAIN region \ {Root}, NEW b \in Chain(State, r),
                       NEW k \in blocks, k.name = <<"buff", b>>
                PROVE  BuffStruct + buff[b].size <= k.size
    BY DEF BuffersCovered
  <1>1. /\ Core(State) /\ State \in States /\ State.region = region
        /\ State.blocks = blocks /\ State.buff = buff
    BY InvIs
  <1>2. PICK i \in 1..Len(region[r].chain) : b = region[r].chain[i]
    BY <1>1, ChainIs
  <1>3. Roomy(State, r)
    BY <1>1 DEF Core
  <1>. QED
    BY <1>1, <1>2, <1>3 DEF Roomy

LEMMA InvServes == Inv => GrowthServes
  BY InvIs DEF Sound, Serves, GrowthServes

LEMMA InvNotMisused == Inv => NeverMisused
  BY InvIs, StateIs DEF NeverMisused

------------------------------------------------------------------------------
(* Every buffer that exists is in a chain and every block that is out in a *)
(* buffer that exists, whatever regions are created, reset and destroyed.  *)
THEOREM RegionTyped == Spec => []TypeOK
  BY AlwaysInv, InvTyped, PTL

(* region.c never takes back memory that a caller may still use, or that a *)
(* region with all that lies below it is built of.                         *)
THEOREM RegionAnchored == Spec => []Anchored
  BY AlwaysInv, InvAnchored, PTL

(* Nor does it give back, or close, what is not allocated, although a      *)
(* region's buffers go back one by one and it forgets what is below it.    *)
THEOREM RegionNeverMisused == Spec => []NeverMisused
  BY AlwaysInv, InvNotMisused, PTL

(* The size in a shalloc_buff_t is backed by its block, through the        *)
(* minimum, the default and the doubling that shalloc_region_grow applies. *)
THEOREM RegionBuffersCovered == Spec => []BuffersCovered
  BY AlwaysInv, InvCovered, PTL

(* The factor in SHALLOC_BUFF_ALLOC_SIZE is enough: shalloc_malloc never   *)
(* adds a nofree buffer that cannot serve the request it was added for.    *)
THEOREM RegionGrowthServes == Spec => []GrowthServes
  BY AlwaysInv, InvServes, PTL
=============================================================================
