----------------------------- MODULE MpliteProofs -----------------------------
(***************************************************************************)
(* The buddy allocator, for a pool of any size.                            *)
(*                                                                         *)
(* The proofs name the free chunks by a set F of pairs <<first atom, log>> *)
(* and the chunks handed out by a set U of such pairs.  Lists(p, F) says   *)
(* that the free lists of p hold exactly F; Tiles(F \cup U) that the       *)
(* chunks lie side by side, each at a multiple of its length, and leave no *)
(* gap.  Each function of mplite.c moves a chunk from the one set to the   *)
(* other, cuts one, or joins two.                                          *)
(***************************************************************************)
EXTENDS MpliteShared, OrderLemmas

------------------------------------------------------------------------------
(* Sizes.                                                                  *)
LEMMA Widths ==
    /\ MPLITE_LOGMAX \in Nat /\ IntBits \in Nat /\ MPLITE_LOGMAX + 2 = IntBits
    /\ szAtom \in Nat \ {0}
    /\ nBlock \in Nat
    /\ nBlock < 2 * 2 ^ MPLITE_LOGMAX
    /\ szAtom * nBlock \in 0..(2 ^ IntBits - 1)
  <1>1. MPLITE_LOGMAX \in Nat /\ MPLITE_LOGMAX + 2 = IntBits /\ IntBits \in Nat
    BY MpliteAssumption DEF MPLITE_LOGMAX
  <1>2. szAtom \in Nat \ {0}
    <2>. DEFINE S == {l \in 0..MinAlloc : MinAlloc <= 2 ^ l}
    <2>1. MinAlloc \in S
      BY MpliteAssumption, PowerPositive
    <2>2. Min(S) \in Nat
      BY <2>1, MinIsLeast
    <2>3. mplite_logarithm(MinAlloc) \in Nat
      BY <2>2 DEF mplite_logarithm
    <2>. DEFINE a == 2 ^ mplite_logarithm(MinAlloc)
    <2>4. a \in Nat \ {0}
      BY <2>3, PowerPositive
    <2>. HIDE DEF a
    <2>5. Max({a, LinkSize}) \in {a, LinkSize}
      BY <2>4, MpliteAssumption, MaxOfTwo
    <2>. QED
      BY <2>4, <2>5, MpliteAssumption DEF szAtom, a
  <1>. DEFINE P == 2 ^ MPLITE_LOGMAX
  <1>3. P \in Nat \ {0} /\ 2 ^ IntBits = 4 * P
    <2>1. 2 ^ (MPLITE_LOGMAX + 1) = 2 * P /\ 2 ^ (MPLITE_LOGMAX + 1 + 1) = 2 * 2 ^ (MPLITE_LOGMAX + 1)
      BY <1>1, PowerNext
    <2>2. MPLITE_LOGMAX + 1 + 1 = IntBits
      BY <1>1
    <2>. QED
      BY <1>1, <2>1, <2>2, PowerPositive
  <1>4. PoolBytes \in Nat /\ PoolBytes < 4 * P
    BY <1>3, MpliteAssumption
  <1>. HIDE DEF P
  <1>5. nBlock \in Nat /\ nBlock * (szAtom + 1) <= PoolBytes
    BY <1>2, <1>4, QuotientRange DEF nBlock
  <1>6. nBlock * (szAtom + 1) >= 2 * nBlock /\ szAtom * nBlock <= nBlock * (szAtom + 1)
        /\ szAtom * nBlock \in Nat
    <2>1. \A n, s \in Nat : s # 0 =>
             n * (s + 1) >= 2 * n /\ s * n <= n * (s + 1) /\ s * n \in Nat
      BY Z3
    <2>. QED
      BY <1>2, <1>5, <2>1
  <1>. QED
    BY <1>1, <1>2, <1>3, <1>4, <1>5, <1>6 DEF P

LEMMA LogForLeast ==
    ASSUME NEW n \in Int, n <= MPLITE_MAX_ALLOC_SIZE
    PROVE  /\ LogFor(n) \in Logs
           /\ n <= szAtom * 2 ^ LogFor(n)
           /\ \A l \in 0..IntBits : n <= szAtom * 2 ^ l => LogFor(n) <= l
  <1>. DEFINE S == {l \in 0..IntBits : n <= szAtom * 2 ^ l}
  <1>1. MPLITE_LOGMAX \in S
    <2>. DEFINE P == 2 ^ MPLITE_LOGMAX
    <2>1. P \in Nat /\ n <= P
      BY Widths, PowerNext DEF MPLITE_MAX_ALLOC_SIZE
    <2>. HIDE DEF P
    <2>2. P <= szAtom * P /\ szAtom * P \in Nat
      BY <2>1, Widths, Z3
    <2>. QED
      BY <2>1, <2>2, Widths DEF P
  <1>2. Min(S) \in S /\ \A l \in S : Min(S) <= l
    <2>1. S \in SUBSET Nat
      BY Widths
    <2>. HIDE DEF S
    <2>. QED
      BY <1>1, <2>1, MinIsLeast
  <1>3. LogFor(n) = Min(S)
    BY DEF LogFor
  <1>4. \A l \in S : l \in 0..IntBits /\ n <= szAtom * 2 ^ l
    BY Zenon
  <1>5. \A l \in 0..IntBits : n <= szAtom * 2 ^ l => l \in S
    BY Zenon
  <1>6. LogFor(n) \in S /\ \A l \in S : LogFor(n) <= l
    BY <1>2, <1>3, Zenon
  <1>. HIDE DEF S
  <1>7. LogFor(n) \in 0..IntBits /\ LogFor(n) <= MPLITE_LOGMAX
    BY <1>1, <1>4, <1>6
  <1>. QED
    BY <1>4, <1>5, <1>6, <1>7, Widths DEF Logs

------------------------------------------------------------------------------
(* Free lists: the pool as far as types go, and F as what its lists hold.  *)
Links == Atoms \cup {Nil, Junk}

Pools == [aCtrl : [Atoms -> Ctrl],
          next : [Atoms -> Links],
          prev : [Atoms -> Links],
          aiFreelist : [Logs -> Links]]

(* A measure that falls along every list: no list runs in a circle.        *)
Falling(p, F, r) ==
    \A b, l : <<b, l>> \in F /\ p.next[b] # Nil => r[p.next[b]] < r[b]

Linked(p, F) ==
    /\ F \subseteq Atoms \X Logs
    /\ \A b, l : <<b, l>> \in F => p.aCtrl[b] = FreeChunk(l)
    /\ \A l \in Logs : p.aiFreelist[l] # Nil =>
          <<p.aiFreelist[l], l>> \in F /\ p.prev[p.aiFreelist[l]] = Nil
    /\ \A b, l : <<b, l>> \in F /\ p.next[b] # Nil =>
          <<p.next[b], l>> \in F /\ p.prev[p.next[b]] = b
    /\ \A b, l : <<b, l>> \in F =>
          IF p.prev[b] = Nil THEN p.aiFreelist[l] = b
          ELSE <<p.prev[b], l>> \in F /\ p.next[p.prev[b]] = b

Lists(p, F) ==
    /\ p \in Pools
    /\ Linked(p, F)
    /\ \E R \in Nat : \E r \in [Atoms -> 0..R] : Falling(p, F, r)

LEMMA OneLog ==
    ASSUME NEW p, NEW F, Lists(p, F), NEW b, NEW k, NEW l, <<b, k>> \in F, <<b, l>> \in F
    PROVE  k = l
  <1>1. p.aCtrl[b] = FreeChunk(k) /\ p.aCtrl[b] = FreeChunk(l)
    BY Zenon DEF Lists, Linked
  <1>. QED
    BY <1>1 DEF FreeChunk

LEMMA LinkKeeps ==
    ASSUME NEW p \in Pools, NEW i \in Atoms, NEW l \in Logs
    PROVE  /\ mplite_link(p, i, l) \in Pools
           /\ mplite_link(p, i, l).aCtrl = p.aCtrl
  <1>. DEFINE q == mplite_link(p, i, l)
              x == p.aiFreelist[l]
  <1>1. q = [p EXCEPT !.next = [@ EXCEPT ![i] = x],
                      !.prev = [b \in Atoms |-> IF b = i THEN Nil
                                                ELSE IF b = x THEN i ELSE @[b]],
                      !.aiFreelist = [@ EXCEPT ![l] = i]]
    BY DEF mplite_link, Pools
  <1>2. i \in Links /\ x \in Links /\ Nil \in Links
    BY DEF Links, Pools
  <1>3. /\ [p.next EXCEPT ![i] = x] \in [Atoms -> Links]
        /\ [b \in Atoms |-> IF b = i THEN Nil ELSE IF b = x THEN i ELSE p.prev[b]]
             \in [Atoms -> Links]
        /\ [p.aiFreelist EXCEPT ![l] = i] \in [Logs -> Links]
    BY <1>2 DEF Pools
  <1>. HIDE DEF q, x
  <1>. QED
    BY <1>1, <1>3 DEF Pools, q

LEMMA LinkAdds ==
    ASSUME NEW p, NEW F, Lists(p, F), NEW i \in Atoms, NEW l \in Logs,
           p.aCtrl[i] = FreeChunk(l), \A k : <<i, k>> \notin F
    PROVE  Lists(mplite_link(p, i, l), F \cup {<<i, l>>})
  <1>. DEFINE q == mplite_link(p, i, l)
              G == F \cup {<<i, l>>}
              x == p.aiFreelist[l]
  <1>1. /\ q.aCtrl = p.aCtrl
        /\ q.next = [p.next EXCEPT ![i] = x]
        /\ q.prev = [b \in Atoms |-> IF b = i THEN Nil
                                     ELSE IF b = x THEN i ELSE p.prev[b]]
        /\ q.aiFreelist = [p.aiFreelist EXCEPT ![l] = i]
    BY DEF mplite_link, Lists, Pools
  <1>2. q \in Pools
    BY LinkKeeps DEF Lists
  <1>3. PICK R \in Nat : \E r \in [Atoms -> 0..R] : Falling(p, F, r)
    BY DEF Lists
  <1>15. PICK r \in [Atoms -> 0..R] : Falling(p, F, r)
    BY <1>3
  <1>. HIDE DEF q
  <1>. USE DEF Lists, Linked
  <1>4. \A b, k : <<b, k>> \in F => b \in Atoms /\ k \in Logs /\ b # i
    OBVIOUS
  <1>5. \A b : b \in Atoms => b # Nil /\ b \in Nat
    BY Widths DEF Atoms, Nil
  <1>6. x # Nil => x # i /\ x \in Atoms
    BY <1>4
  <1>7. /\ q.next[i] = x /\ q.prev[i] = Nil /\ q.aiFreelist[l] = i
        /\ \A b \in Atoms : b # i => q.next[b] = p.next[b]
        /\ \A b \in Atoms : b # i /\ b # x => q.prev[b] = p.prev[b]
        /\ x # Nil => q.prev[x] = i
        /\ \A k \in Logs : k # l => q.aiFreelist[k] = p.aiFreelist[k]
    BY <1>1, <1>6 DEF Pools
  <1>8. \A b, k : <<b, k>> \in G => q.aCtrl[b] = FreeChunk(k)
    BY <1>1
  <1>9. G \subseteq Atoms \X Logs
    OBVIOUS
  <1>10. ASSUME NEW k \in Logs, q.aiFreelist[k] # Nil
         PROVE  <<q.aiFreelist[k], k>> \in G /\ q.prev[q.aiFreelist[k]] = Nil
    <2>1. CASE k = l
      BY <2>1, <1>7
    <2>2. CASE k # l
      <3>1. /\ q.aiFreelist[k] = p.aiFreelist[k] /\ <<p.aiFreelist[k], k>> \in F
            /\ p.prev[p.aiFreelist[k]] = Nil
        BY <1>7, <1>10, <2>2
      <3>2. p.aiFreelist[k] # x
        <4>. SUFFICES ASSUME p.aiFreelist[k] = x
                      PROVE  FALSE
          OBVIOUS
        <4>1. <<x, k>> \in F /\ <<x, l>> \in F
          BY <3>1, <1>5, <1>4
        <4>. QED
          BY <4>1, <2>2, OneLog
      <3>. QED
        BY <3>1, <3>2, <1>4, <1>7
    <2>. QED
      BY <2>1, <2>2
  <1>11. ASSUME NEW b, NEW k, <<b, k>> \in G, q.next[b] # Nil
         PROVE  <<q.next[b], k>> \in G /\ q.prev[q.next[b]] = b
    <2>1. CASE b = i
      <3>1. k = l
        BY <1>4, <1>11, <2>1
      <3>. QED
        BY <2>1, <3>1, <1>7, <1>11
    <2>2. CASE b # i
      <3>1. /\ <<b, k>> \in F /\ q.next[b] = p.next[b]
            /\ <<p.next[b], k>> \in F /\ p.prev[p.next[b]] = b
        BY <1>4, <1>7, <1>11, <2>2
      <3>2. p.next[b] # x
        <4>. SUFFICES ASSUME p.next[b] = x
                      PROVE  FALSE
          OBVIOUS
        <4>1. x # Nil /\ b # Nil
          BY <3>1, <1>4, <1>5
        <4>. QED
          BY <4>1, <3>1
      <3>. QED
        BY <3>1, <3>2, <1>4, <1>7
    <2>. QED
      BY <2>1, <2>2
  <1>12. ASSUME NEW b, NEW k, <<b, k>> \in G
         PROVE  IF q.prev[b] = Nil THEN q.aiFreelist[k] = b
                ELSE <<q.prev[b], k>> \in G /\ q.next[q.prev[b]] = b
    <2>1. CASE b = i
      <3>1. k = l
        BY <1>4, <1>12, <2>1
      <3>. QED
        BY <2>1, <3>1, <1>7
    <2>2. CASE b # i /\ b = x
      <3>1. <<b, k>> \in F /\ <<x, l>> \in F
        BY <1>12, <2>2, <1>4, <1>5
      <3>2. k = l
        BY <2>2, <3>1, OneLog
      <3>3. x # Nil /\ q.prev[x] = i /\ i # Nil
        BY <1>7, <3>1, <1>4, <1>5
      <3>. QED
        BY <2>2, <3>2, <3>3, <1>7
    <2>3. CASE b # i /\ b # x
      <3>1. <<b, k>> \in F /\ q.prev[b] = p.prev[b]
        BY <1>4, <1>7, <1>12, <2>3
      <3>2. CASE p.prev[b] = Nil
        <4>1. p.aiFreelist[k] = b /\ k # l
          BY <2>3, <3>1, <3>2
        <4>. QED
          BY <3>1, <3>2, <4>1, <1>4, <1>7
      <3>3. CASE p.prev[b] # Nil
        <4>1. <<p.prev[b], k>> \in F /\ p.next[p.prev[b]] = b
          BY <3>1, <3>3
        <4>. QED
          BY <3>1, <3>3, <4>1, <1>4, <1>7
      <3>. QED
        BY <3>2, <3>3
    <2>. QED
      BY <2>1, <2>2, <2>3
  <1>13. Linked(q, G)
    BY <1>8, <1>9, <1>10, <1>11, <1>12
  <1>14. \E R2 \in Nat : \E r2 \in [Atoms -> 0..R2] : Falling(q, G, r2)
    <2>. DEFINE s == [b \in Atoms |-> IF b = i THEN R + 1 ELSE r[b]]
    <2>1. R + 1 \in Nat /\ s \in [Atoms -> 0..(R + 1)]
      OBVIOUS
    <2>2. ASSUME NEW b, NEW k, <<b, k>> \in G, q.next[b] # Nil
          PROVE  s[q.next[b]] < s[b]
      <3>1. CASE b = i
        <4>1. q.next[b] = x /\ x \in Atoms /\ x # i
          BY <2>2, <3>1, <1>6, <1>7
        <4>. QED
          BY <3>1, <4>1
      <3>2. CASE b # i
        <4>1. <<b, k>> \in F /\ q.next[b] = p.next[b] /\ <<p.next[b], k>> \in F
          BY <1>4, <1>7, <2>2, <3>2
        <4>2. r[p.next[b]] < r[b]
          BY <4>1, <1>15, <2>2 DEF Falling
        <4>. QED
          BY <4>1, <4>2, <3>2, <1>4
      <3>. QED
        BY <3>1, <3>2
    <2>. HIDE DEF s
    <2>3. Falling(q, G, s)
      BY <2>2 DEF Falling
    <2>. QED
      BY <2>1, <2>3
  <1>. QED
    BY <1>2, <1>13, <1>14 DEF q

LEMMA UnlinkKeeps ==
    ASSUME NEW p \in Pools, NEW i \in Atoms, NEW l \in Logs
    PROVE  /\ mplite_unlink(p, i, l) \in Pools
           /\ mplite_unlink(p, i, l).aCtrl = p.aCtrl
  <1>. DEFINE q == mplite_unlink(p, i, l)
              n == p.next[i]
              v == p.prev[i]
  <1>. DEFINE head == IF v < 0 THEN n ELSE p.aiFreelist[l]
              next == [b \in Atoms |-> IF b = i THEN Junk
                                       ELSE IF b = v THEN n ELSE p.next[b]]
              prev == [b \in Atoms |-> IF b = i THEN Junk
                                       ELSE IF b = n THEN v ELSE p.prev[b]]
  <1>5. q = [p EXCEPT !.aiFreelist[l] = head, !.next = next, !.prev = prev]
    BY DEF mplite_unlink
  <1>6. q = [aCtrl |-> q.aCtrl, next |-> q.next, prev |-> q.prev,
             aiFreelist |-> q.aiFreelist]
    <2>. HIDE DEF q, head, next, prev
    <2>. QED
      BY <1>5 DEF Pools
  <1>1. /\ q.aCtrl = p.aCtrl
        /\ q.aiFreelist = [p.aiFreelist EXCEPT ![l] = IF v < 0 THEN n ELSE @]
        /\ q.next = [b \in Atoms |-> IF b = i THEN Junk
                                     ELSE IF b = v THEN n ELSE p.next[b]]
        /\ q.prev = [b \in Atoms |-> IF b = i THEN Junk
                                     ELSE IF b = n THEN v ELSE p.prev[b]]
    BY DEF mplite_unlink, Pools
  <1>2. n \in Links /\ v \in Links /\ Junk \in Links
    BY DEF Pools, Links
  <1>4. p.aCtrl \in [Atoms -> Ctrl]
    BY DEF Pools
  <1>3. /\ [p.aiFreelist EXCEPT ![l] = IF v < 0 THEN n ELSE @] \in [Logs -> Links]
        /\ [b \in Atoms |-> IF b = i THEN Junk ELSE IF b = v THEN n ELSE p.next[b]]
             \in [Atoms -> Links]
        /\ [b \in Atoms |-> IF b = i THEN Junk ELSE IF b = n THEN v ELSE p.prev[b]]
             \in [Atoms -> Links]
    BY <1>2 DEF Pools
  <1>. HIDE DEF q, n, v
  <1>. QED
    BY <1>1, <1>3, <1>4, <1>6 DEF Pools, q

LEMMA UnlinkRemoves ==
    ASSUME NEW p, NEW F, Lists(p, F), NEW i, NEW l, <<i, l>> \in F
    PROVE  Lists(mplite_unlink(p, i, l), F \ {<<i, l>>})
  <1>. DEFINE q == mplite_unlink(p, i, l)
              G == F \ {<<i, l>>}
              n == p.next[i]
              v == p.prev[i]
  <1>1. i \in Atoms /\ l \in Logs /\ p \in Pools
    BY DEF Lists, Linked
  <1>2. /\ q.aCtrl = p.aCtrl
        /\ q.aiFreelist = [p.aiFreelist EXCEPT ![l] = IF v < 0 THEN n ELSE @]
        /\ q.next = [b \in Atoms |-> IF b = i THEN Junk
                                     ELSE IF b = v THEN n ELSE p.next[b]]
        /\ q.prev = [b \in Atoms |-> IF b = i THEN Junk
                                     ELSE IF b = n THEN v ELSE p.prev[b]]
    BY <1>1 DEF mplite_unlink, Pools
  <1>3. q \in Pools
    BY <1>1, UnlinkKeeps
  <1>4. PICK R \in Nat : \E r \in [Atoms -> 0..R] : Falling(p, F, r)
    BY DEF Lists
  <1>5. PICK r \in [Atoms -> 0..R] : Falling(p, F, r)
    BY <1>4
  <1>. HIDE DEF q
  <1>. USE DEF Lists, Linked
  <1>6. \A b, k : <<b, k>> \in F => b \in Atoms /\ k \in Logs
    OBVIOUS
  <1>7. \A b : b \in Atoms => b # Nil /\ b \in Nat
    BY Widths DEF Atoms, Nil
  <1>8. \A b, k : <<b, k>> \in G <=> <<b, k>> \in F /\ b # i
    <2>1. ASSUME NEW b, NEW k, <<b, k>> \in G
          PROVE  b # i
      BY <2>1, OneLog
    <2>. QED
      BY <2>1
  <1>9. n # Nil => <<n, l>> \in F /\ p.prev[n] = i /\ n \in Atoms /\ r[n] < r[i]
    BY <1>5, <1>6 DEF Falling
  <1>10. IF v = Nil THEN p.aiFreelist[l] = i ELSE <<v, l>> \in F /\ p.next[v] = i
    BY Zenon
  <1>11. v # Nil => v \in Atoms /\ r[i] < r[v] /\ ~ (v < 0)
    <2>. SUFFICES ASSUME v # Nil
                  PROVE  v \in Atoms /\ r[i] < r[v] /\ ~ (v < 0)
      OBVIOUS
    <2>1. <<v, l>> \in F /\ p.next[v] = i /\ v \in Atoms
      BY <1>6, <1>10
    <2>2. p.next[v] # Nil
      BY <1>1, <1>7, <2>1
    <2>3. r[p.next[v]] < r[v]
      BY <1>5, <2>1, <2>2, Zenon DEF Falling
    <2>. QED
      BY <1>7, <2>1, <2>3
  <1>12. v = Nil => v < 0
    BY DEF Nil
  <1>13. n # i /\ v # i /\ (n # Nil => n # v)
    BY <1>1, <1>6, <1>7, <1>9, <1>11
  <1>14. /\ \A b \in Atoms : b # i /\ b # v => q.next[b] = p.next[b]
         /\ v # Nil => q.next[v] = n
         /\ \A b \in Atoms : b # i /\ b # n => q.prev[b] = p.prev[b]
         /\ n # Nil => q.prev[n] = v
         /\ \A k \in Logs : k # l => q.aiFreelist[k] = p.aiFreelist[k]
         /\ v = Nil => q.aiFreelist[l] = n
         /\ v # Nil => q.aiFreelist[l] = p.aiFreelist[l]
    BY <1>1, <1>2, <1>9, <1>11, <1>12, <1>13 DEF Pools
  <1>15. \A b, k : <<b, k>> \in G => q.aCtrl[b] = FreeChunk(k)
    BY <1>2
  <1>16. G \subseteq Atoms \X Logs
    OBVIOUS
  <1>17. ASSUME NEW k \in Logs, q.aiFreelist[k] # Nil
         PROVE  <<q.aiFreelist[k], k>> \in G /\ q.prev[q.aiFreelist[k]] = Nil
    <2>1. CASE k = l /\ v = Nil
      BY <2>1, <1>8, <1>9, <1>13, <1>14, <1>17
    <2>. DEFINE h == p.aiFreelist[k]
    <2>2. CASE k # l \/ v # Nil
      <3>1. q.aiFreelist[k] = h /\ <<h, k>> \in F /\ p.prev[h] = Nil
        BY <1>14, <1>17, <2>2
      <3>2. h # i
        <4>1. CASE k = l
          BY <2>2, <3>1, <4>1
        <4>2. CASE k # l
          BY <3>1, <4>2, OneLog
        <4>. QED
          BY <4>1, <4>2
      <3>3. h # n
        <4>1. n # Nil => p.prev[n] = i /\ i # Nil
          BY <1>1, <1>7, <1>9
        <4>2. h # Nil
          BY <3>1, <1>6, <1>7
        <4>. QED
          BY <3>1, <4>1, <4>2
      <3>. QED
        BY <3>1, <3>2, <3>3, <1>6, <1>8, <1>14
    <2>. QED
      BY <2>1, <2>2
  <1>18. ASSUME NEW b, NEW k, <<b, k>> \in G, q.next[b] # Nil
         PROVE  <<q.next[b], k>> \in G /\ q.prev[q.next[b]] = b
    <2>1. <<b, k>> \in F /\ b # i /\ b \in Atoms /\ b # Nil
      BY <1>6, <1>7, <1>8, <1>18
    <2>2. CASE b = v
      <3>1. k = l
        BY <2>1, <2>2, <1>10, OneLog
      <3>2. q.next[b] = n
        BY <2>1, <2>2, <1>14
      <3>. QED
        BY <1>8, <1>9, <1>13, <1>14, <1>18, <2>2, <3>1, <3>2
    <2>3. CASE b # v
      <3>. DEFINE m == p.next[b]
      <3>1. q.next[b] = m /\ <<m, k>> \in F /\ p.prev[m] = b
        BY <1>14, <1>18, <2>1, <2>3
      <3>2. m # i
        BY <2>3, <3>1
      <3>3. m # n
        <4>1. m # Nil
          BY <1>6, <1>7, <3>1
        <4>. QED
          BY <1>9, <2>1, <3>1, <4>1
      <3>. QED
        BY <1>6, <1>8, <1>14, <3>1, <3>2, <3>3
    <2>. QED
      BY <2>2, <2>3
  <1>19. ASSUME NEW b, NEW k, <<b, k>> \in G
         PROVE  IF q.prev[b] = Nil THEN q.aiFreelist[k] = b
                ELSE <<q.prev[b], k>> \in G /\ q.next[q.prev[b]] = b
    <2>1. <<b, k>> \in F /\ b # i /\ b \in Atoms /\ b # Nil
      BY <1>6, <1>7, <1>8, <1>19
    <2>2. CASE b = n
      <3>1. k = l
        BY <2>1, <2>2, <1>9, OneLog
      <3>2. q.prev[b] = v
        BY <2>1, <2>2, <1>14
      <3>3. v # Nil => <<v, l>> \in G
        BY <1>8, <1>10, <1>13
      <3>. QED
        BY <1>14, <2>2, <3>1, <3>2, <3>3
    <2>3. CASE b # n
      <3>. DEFINE w == p.prev[b]
      <3>1. q.prev[b] = w /\ IF w = Nil THEN p.aiFreelist[k] = b
                             ELSE <<w, k>> \in F /\ p.next[w] = b
        BY <1>14, <2>1, <2>3
      <3>2. CASE w = Nil
        <4>1. k = l => v # Nil
          BY <1>10, <2>1, <3>1, <3>2
        <4>2. k \in Logs
          BY <1>6, <2>1
        <4>3. q.aiFreelist[k] = p.aiFreelist[k]
          BY <1>14, <4>1, <4>2
        <4>. QED
          BY <3>1, <3>2, <4>3
      <3>3. CASE w # Nil
        <4>1. w # i
          BY <2>3, <3>1, <3>3
        <4>2. w # v
          BY <1>10, <2>1, <3>1, <3>3
        <4>3. <<w, k>> \in G /\ q.next[w] = b
          BY <1>6, <1>8, <1>14, <3>1, <3>3, <4>1, <4>2
        <4>. QED
          BY <3>1, <3>3, <4>3
      <3>. QED
        BY <3>2, <3>3
    <2>. QED
      BY <2>2, <2>3
  <1>20. Linked(q, G)
    BY <1>15, <1>16, <1>17, <1>18, <1>19
  <1>21. ASSUME NEW b, NEW k, <<b, k>> \in G, q.next[b] # Nil
         PROVE  r[q.next[b]] < r[b]
    <2>1. <<b, k>> \in F /\ b # i /\ b \in Atoms /\ b # Nil
      BY <1>6, <1>7, <1>8, <1>21
    <2>2. CASE b = v
      <3>1. q.next[b] = n /\ r[n] < r[i] /\ r[i] < r[v]
        BY <1>9, <1>11, <1>14, <1>21, <2>1, <2>2
      <3>2. n \in Atoms /\ v \in Atoms
        BY <1>9, <1>14, <1>21, <2>1, <2>2
      <3>. QED
        BY <1>1, <2>2, <3>1, <3>2
    <2>3. CASE b # v
      BY <1>5, <1>14, <1>21, <2>1, <2>3 DEF Falling
    <2>. QED
      BY <2>2, <2>3
  <1>22. Falling(q, G, r)
    BY <1>21 DEF Falling
  <1>. QED
    BY <1>3, <1>4, <1>5, <1>20, <1>22 DEF q

(* Control bytes of other atoms play no part.                              *)
LEMMA CtrlElsewhere ==
    ASSUME NEW p, NEW F, Lists(p, F), NEW q \in Pools,
           q.next = p.next, q.prev = p.prev, q.aiFreelist = p.aiFreelist,
           \A b, l : <<b, l>> \in F => q.aCtrl[b] = p.aCtrl[b]
    PROVE  Lists(q, F)
  <1>1. Linked(q, F)
    <2>1. \A b, l : <<b, l>> \in F => q.aCtrl[b] = FreeChunk(l)
      <3>1. \A b, l : <<b, l>> \in F => p.aCtrl[b] = FreeChunk(l)
        BY DEF Lists, Linked
      <3>. QED
        BY <3>1, Zenon
    <2>2. Linked(p, F)
      BY DEF Lists
    <2>. QED
      BY <2>1, <2>2 DEF Linked
  <1>2. PICK R \in Nat : \E r \in [Atoms -> 0..R] : Falling(p, F, r)
    BY DEF Lists
  <1>3. PICK r \in [Atoms -> 0..R] : Falling(p, F, r)
    BY <1>2
  <1>4. Falling(q, F, r)
    BY <1>3, Zenon DEF Falling
  <1>. QED
    BY <1>1, <1>4, Zenon DEF Lists

(* Where a walk along the list of l can be.                                *)
Stops(F, l) == {Nil} \cup {b \in Atoms : <<b, l>> \in F}

LEMMA StopsFollow ==
    ASSUME NEW p, NEW F, Lists(p, F), NEW l \in Logs
    PROVE  /\ p.aiFreelist[l] \in Stops(F, l)
           /\ \A b \in Stops(F, l) \ {Nil} : /\ b \in Atoms /\ <<b, l>> \in F
                                             /\ p.next[b] \in Stops(F, l)
           /\ \A b \in Stops(F, l) : b \in Int
  <1>1. \A b, k : <<b, k>> \in F => b \in Atoms
    BY DEF Lists, Linked
  <1>2. p.aiFreelist[l] # Nil => <<p.aiFreelist[l], l>> \in F
    BY DEF Lists, Linked
  <1>3. \A b \in Atoms : <<b, l>> \in F /\ p.next[b] # Nil => <<p.next[b], l>> \in F
    BY DEF Lists, Linked
  <1>. QED
    BY <1>1, <1>2, <1>3, Widths DEF Stops, Atoms, Nil

LEMMA FirstFreeIsFree ==
    ASSUME NEW p, NEW F, Lists(p, F), NEW l \in Logs, p.aiFreelist[l] # Nil
    PROVE  <<FirstFree(p, l), l>> \in F
  <1>. DEFINE head == p.aiFreelist[l]
              V == Stops(F, l)
              step == [i \in V |-> IF i > 0 THEN p.next[i] ELSE i]
              G == [k \in 1..nBlock |-> step]
  <1>1. \A i \in V : i > 0 => i # Nil
    BY DEF Nil
  <1>2. step \in [V -> V]
    BY <1>1, StopsFollow
  <1>3. G \in [1..nBlock -> [V -> V]] /\ head \in V /\ nBlock \in Nat
    BY <1>2, StopsFollow, Widths
  <1>4. PICK f : f \in Ascents(nBlock, V, head, G)
    <2>. HIDE DEF V, G, head
    <2>. QED
      BY <1>3, AscentExists
  <1>5. f \in [0..nBlock -> V] /\ f[0] = head /\ \A k \in 1..nBlock : f[k] = step[f[k - 1]]
    BY <1>4 DEF Ascents
  <1>. DEFINE at[k \in 0..nBlock] ==
                  IF k = 0 THEN head
                  ELSE LET i == at[k - 1] IN IF i > 0 THEN p.next[i] ELSE i
  <1>6. f = [k \in 0..nBlock |-> IF k = 0 THEN head
                                 ELSE LET i == f[k - 1] IN IF i > 0 THEN p.next[i] ELSE i]
    <2>1. \A k \in 1..nBlock : k - 1 \in 0..nBlock
      BY Widths
    <2>. HIDE DEF V
    <2>2. \A k \in 1..nBlock : f[k] = IF f[k - 1] > 0 THEN p.next[f[k - 1]] ELSE f[k - 1]
      BY <1>5, <2>1
    <2>. QED
      BY <1>5, <2>2, Widths
  <1>7. at = [k \in 0..nBlock |-> IF k = 0 THEN head
                                  ELSE LET i == at[k - 1] IN IF i > 0 THEN p.next[i] ELSE i]
    BY <1>6
  <1>8. FirstFree(p, l) = Min({head} \cup {at[k] : k \in {j \in 0..nBlock : at[j] > 0}})
    BY DEF FirstFree
  <1>. HIDE DEF at
  <1>9. at \in [0..nBlock -> V]
    <2>. DEFINE S == {k \in Nat : k <= nBlock => at[k] \in V}
    <2>1. 0 \in S
      BY <1>3, <1>7
    <2>2. ASSUME NEW k \in Nat, k \in S
          PROVE  k + 1 \in S
      <3>. SUFFICES ASSUME k + 1 <= nBlock
                    PROVE  at[k + 1] \in V
        OBVIOUS
      <3>1. at[k] \in V /\ k + 1 \in 0..nBlock /\ k + 1 # 0 /\ (k + 1) - 1 = k
        BY <2>2, Widths
      <3>2. at[k + 1] = IF at[k] > 0 THEN p.next[at[k]] ELSE at[k]
        BY <1>7, <3>1
      <3>3. at[k + 1] = step[at[k]]
        BY <3>1, <3>2
      <3>. QED
        BY <1>2, <3>1, <3>3
    <2>. HIDE DEF S
    <2>3. Nat \subseteq S
      BY <2>1, <2>2, NatSetInduction
    <2>. HIDE DEF V
    <2>4. \A k \in 0..nBlock : at[k] \in V
      BY <2>3 DEF S
    <2>. QED
      BY <1>7, <2>4
  <1>. DEFINE S == {head} \cup {at[k] : k \in {j \in 0..nBlock : at[j] > 0}}
  <1>10. S \subseteq V \ {Nil}
    <2>1. \A k \in 0..nBlock : at[k] > 0 => at[k] \in V /\ at[k] # Nil
      BY <1>1, <1>9
    <2>. HIDE DEF V
    <2>2. head \in V \ {Nil}
      BY <1>3
    <2>3. ASSUME NEW b \in S
          PROVE  b \in V \ {Nil}
      <3>1. CASE b = head
        BY <2>2, <3>1
      <3>2. CASE \E k \in 0..nBlock : at[k] > 0 /\ b = at[k]
        BY <2>1, <3>2
      <3>. HIDE DEF head
      <3>. QED
        BY <3>1, <3>2
    <2>. QED
      BY <2>3
  <1>11. S \in SUBSET Nat /\ S # {}
    <2>1. \A b \in V \ {Nil} : b \in Atoms
      BY StopsFollow
    <2>2. Atoms \subseteq Nat
      BY Widths DEF Atoms
    <2>. HIDE DEF V
    <2>. QED
      BY <1>10, <2>1, <2>2
  <1>12. Min(S) \in S
    <2>. HIDE DEF S
    <2>. QED
      BY <1>11, MinIsLeast
  <1>13. FirstFree(p, l) \in V \ {Nil}
    <2>. HIDE DEF S, V
    <2>1. FirstFree(p, l) = Min(S)
      BY <1>8 DEF S
    <2>. QED
      BY <1>10, <1>12, <2>1
  <1>. QED
    BY <1>13, StopsFollow

(* A walk along a list of the pool ends, and meets every chunk on it once. *)
LEMMA ListWalk ==
    ASSUME NEW F, Lists(pool, F), NEW l \in Logs
    PROVE  LET L == ListOf(l)
           IN /\ L \in [0..nBlock -> Stops(F, l)]
              /\ L[0] = pool.aiFreelist[l]
              /\ \A k \in 1..nBlock :
                    L[k] = IF L[k - 1] \in Atoms THEN pool.next[L[k - 1]] ELSE L[k - 1]
  <1>. DEFINE head == pool.aiFreelist[l]
              V == Stops(F, l)
              step == [i \in V |-> IF i \in Atoms THEN pool.next[i] ELSE i]
              G == [k \in 1..nBlock |-> step]
  <1>1. \A i \in Atoms : i # Nil
    BY Widths DEF Nil, Atoms
  <1>2. step \in [V -> V]
    BY <1>1, StopsFollow
  <1>3. G \in [1..nBlock -> [V -> V]] /\ head \in V /\ nBlock \in Nat
    BY <1>2, StopsFollow, Widths
  <1>4. PICK f : f \in Ascents(nBlock, V, head, G)
    <2>. HIDE DEF V, G, head
    <2>. QED
      BY <1>3, AscentExists
  <1>5. f \in [0..nBlock -> V] /\ f[0] = head /\ \A k \in 1..nBlock : f[k] = step[f[k - 1]]
    BY <1>4 DEF Ascents
  <1>. DEFINE at[k \in 0..nBlock] ==
                  IF k = 0 THEN pool.aiFreelist[l]
                  ELSE LET i == at[k - 1] IN IF i \in Atoms THEN pool.next[i] ELSE i
  <1>6. f = [k \in 0..nBlock |-> IF k = 0 THEN pool.aiFreelist[l]
                                 ELSE LET i == f[k - 1]
                                      IN IF i \in Atoms THEN pool.next[i] ELSE i]
    <2>1. \A k \in 1..nBlock : k - 1 \in 0..nBlock
      BY Widths
    <2>. HIDE DEF V
    <2>2. \A k \in 1..nBlock : f[k] = IF f[k - 1] \in Atoms THEN pool.next[f[k - 1]] ELSE f[k - 1]
      BY <1>5, <2>1
    <2>. QED
      BY <1>5, <2>2, Widths
  <1>7. at = [k \in 0..nBlock |-> IF k = 0 THEN pool.aiFreelist[l]
                                  ELSE LET i == at[k - 1]
                                       IN IF i \in Atoms THEN pool.next[i] ELSE i]
    BY <1>6
  <1>8. ListOf(l) = [k \in 0..nBlock |-> at[k]]
    BY DEF ListOf
  <1>. HIDE DEF at
  <1>9. \A k \in 1..nBlock : at[k] = IF at[k - 1] \in Atoms THEN pool.next[at[k - 1]] ELSE at[k - 1]
    BY <1>7, Widths
  <1>10. at[0] = head
    BY <1>7, Widths
  <1>11. \A k \in 0..nBlock : at[k] \in V
    <2>. DEFINE S == {k \in Nat : k <= nBlock => at[k] \in V}
    <2>1. 0 \in S
      BY <1>3, <1>10
    <2>2. ASSUME NEW k \in Nat, k \in S
          PROVE  k + 1 \in S
      <3>. SUFFICES ASSUME k + 1 <= nBlock
                    PROVE  at[k + 1] \in V
        OBVIOUS
      <3>1. at[k] \in V /\ k + 1 \in 1..nBlock /\ (k + 1) - 1 = k
        BY <2>2, Widths
      <3>2. at[k + 1] = step[at[k]]
        BY <1>9, <3>1
      <3>. QED
        BY <1>2, <3>1, <3>2
    <2>. HIDE DEF S
    <2>3. Nat \subseteq S
      BY <2>1, <2>2, NatSetInduction
    <2>. HIDE DEF V
    <2>. QED
      BY <2>3 DEF S
  <1>. HIDE DEF V
  <1>12. ListOf(l) \in [0..nBlock -> V] /\ ListOf(l)[0] = at[0]
    BY <1>8, <1>11, Widths
  <1>13. \A k \in 1..nBlock : ListOf(l)[k] = at[k] /\ ListOf(l)[k - 1] = at[k - 1]
    BY <1>8, Widths
  <1>. QED
    BY <1>9, <1>10, <1>12, <1>13 DEF V

LEMMA ListEnds ==
    ASSUME NEW F, Lists(pool, F), NEW l \in Logs
    PROVE  ListOf(l)[nBlock] = Nil
  <1>. DEFINE L == ListOf(l)
              V == Stops(F, l)
  <1>1. /\ L \in [0..nBlock -> V]
        /\ \A k \in 1..nBlock : L[k] = IF L[k - 1] \in Atoms THEN pool.next[L[k - 1]] ELSE L[k - 1]
    BY ListWalk
  <1>2. PICK R \in Nat : \E r \in [Atoms -> 0..R] : Falling(pool, F, r)
    BY DEF Lists
  <1>3. PICK r \in [Atoms -> 0..R] : Falling(pool, F, r)
    BY <1>2
  <1>. HIDE DEF L
  <1>. SUFFICES ASSUME L[nBlock] # Nil
                PROVE  FALSE
    BY DEF L
  <1>4. \A b \in V : b # Nil => b \in Atoms /\ <<b, l>> \in F
    BY StopsFollow
  <1>5. Nil \notin Atoms
    BY Widths DEF Nil, Atoms
  <1>. HIDE DEF V
  <1>6. \A k \in 0..nBlock : L[k] # Nil
    <2>. DEFINE S == {k \in 0..nBlock : L[k] # Nil}
    <2>1. nBlock \in S
      BY Widths
    <2>2. ASSUME NEW k \in 0..(nBlock - 1), k + 1 \in S
          PROVE  k \in S
      <3>1. k + 1 \in 1..nBlock /\ k \in 0..nBlock /\ (k + 1) - 1 = k
        BY Widths
      <3>. QED
        BY <1>1, <1>5, <2>2, <3>1
    <2>. HIDE DEF S
    <2>3. 0..nBlock \subseteq S
      BY <2>1, <2>2, DescentInduction, Widths
    <2>. QED
      BY <2>3 DEF S
  <1>7. \A k \in 0..nBlock : L[k] \in Atoms /\ <<L[k], l>> \in F
    BY <1>1, <1>4, <1>6
  <1>8. ASSUME NEW k \in 0..(nBlock - 1)
        PROVE  r[L[k + 1]] < r[L[k]]
    <2>1. k + 1 \in 1..nBlock /\ k \in 0..nBlock /\ k + 1 \in 0..nBlock /\ (k + 1) - 1 = k
      BY Widths
    <2>2. L[k + 1] = pool.next[L[k]] /\ pool.next[L[k]] # Nil
      BY <1>1, <1>6, <1>7, <2>1
    <2>3. r[pool.next[L[k]]] < r[L[k]]
      BY <1>3, <1>7, <2>1, <2>2, Zenon DEF Falling
    <2>. QED
      BY <2>2, <2>3
  <1>14. \A b \in Atoms : r[b] \in Nat
    OBVIOUS
  <1>9. \A j \in 0..nBlock, k \in 0..nBlock : j < k => L[j] # L[k]
    <2>. DEFINE S == {k \in Nat : k <= nBlock => \A j \in 0..nBlock : j < k => r[L[k]] < r[L[j]]}
    <2>1. 0 \in S
      OBVIOUS
    <2>2. ASSUME NEW k \in Nat, k \in S
          PROVE  k + 1 \in S
      <3>. SUFFICES ASSUME k + 1 <= nBlock, NEW j \in 0..nBlock, j < k + 1
                    PROVE  r[L[k + 1]] < r[L[j]]
        OBVIOUS
      <3>1. k \in 0..(nBlock - 1) /\ k \in 0..nBlock /\ k + 1 \in 0..nBlock
        BY Widths
      <3>2. r[L[k + 1]] < r[L[k]]
        BY <1>8, <3>1
      <3>3. r[L[k + 1]] \in Nat /\ r[L[k]] \in Nat /\ r[L[j]] \in Nat
        BY <1>7, <1>14, <3>1, Zenon
      <3>4. j < k => r[L[k]] < r[L[j]]
        BY <2>2, <3>1
      <3>. QED
        BY <3>1, <3>2, <3>3, <3>4
    <2>. HIDE DEF S
    <2>3. Nat \subseteq S
      BY <2>1, <2>2, NatSetInduction
    <2>4. ASSUME NEW j \in 0..nBlock, NEW k \in 0..nBlock, j < k
          PROVE  r[L[k]] < r[L[j]]
      BY <2>3, <2>4, Widths DEF S
    <2>5. \A j \in 0..nBlock : r[L[j]] \in Nat
      BY <1>7, <1>14, Zenon
    <2>. QED
      BY <2>4, <2>5
  <1>10. L \in [0..nBlock -> Atoms]
    BY <1>1, <1>7
  <1>11. IsFiniteSet(0..nBlock) /\ Cardinality(0..nBlock) = nBlock + 1
    BY FS_Interval, Widths
  <1>12. IsFiniteSet(Atoms) /\ Cardinality(Atoms) = nBlock
    BY FS_Interval, Widths DEF Atoms
  <1>13. L \in Injection(0..nBlock, Atoms)
    <2>1. \A j, k \in 0..nBlock : L[j] = L[k] => j = k
      BY <1>9, Widths
    <2>. QED
      BY <1>10, <2>1 DEF Injection, IsInjective
  <1>15. Cardinality(0..nBlock) <= Cardinality(Atoms)
    BY <1>12, <1>13, FS_Injection, Zenon
  <1>. QED
    BY <1>11, <1>12, <1>15, Widths

LEMMA ListHolds ==
    ASSUME NEW F, Lists(pool, F), NEW l \in Logs
    PROVE  OnList(l) = {b \in Atoms : <<b, l>> \in F}
  <1>. DEFINE L == ListOf(l)
              V == Stops(F, l)
              lost == {b \in Atoms : <<b, l>> \in F /\ b \notin OnList(l)}
  <1>1. /\ L \in [0..nBlock -> V]
        /\ L[0] = pool.aiFreelist[l]
        /\ \A k \in 1..nBlock : L[k] = IF L[k - 1] \in Atoms THEN pool.next[L[k - 1]] ELSE L[k - 1]
    BY ListWalk
  <1>2. PICK R \in Nat : \E r \in [Atoms -> 0..R] : Falling(pool, F, r)
    BY DEF Lists
  <1>3. PICK r \in [Atoms -> 0..R] : Falling(pool, F, r)
    BY <1>2
  <1>4. \A b \in V : b # Nil => b \in Atoms /\ <<b, l>> \in F
    BY StopsFollow
  <1>5. Nil \notin Atoms
    BY Widths DEF Nil, Atoms
  <1>6. OnList(l) = {L[k] : k \in 0..nBlock} \cap Atoms
    BY DEF OnList
  <1>7. L[nBlock] = Nil
    BY ListEnds
  <1>. HIDE DEF L, V
  <1>8. \A b \in OnList(l) : b \in Atoms /\ <<b, l>> \in F
    BY <1>1, <1>4, <1>5, <1>6
  <1>9. ASSUME lost # {}
        PROVE  FALSE
    <2>. DEFINE D == {R - r[b] : b \in lost}
    <2>1. \A b \in lost : r[b] \in 0..R /\ R - r[b] \in Nat
      OBVIOUS
    <2>2. D \in SUBSET Nat /\ D # {}
      <3>. HIDE DEF lost
      <3>. QED
        BY <1>9, <2>1
    <2>3. PICK d \in D : \A e \in D : d <= e
      <3>. HIDE DEF D
      <3>. QED
        BY <2>2, HasLeast
    <2>4. PICK b \in lost : d = R - r[b]
      OBVIOUS
    <2>5. ASSUME NEW c \in lost
          PROVE  r[c] <= r[b]
      <3>1. R - r[c] \in D
        OBVIOUS
      <3>2. d <= R - r[c]
        BY <2>3, <3>1
      <3>. HIDE DEF lost, D
      <3>. QED
        BY <2>1, <2>4, <3>2
    <2>. DEFINE w == pool.prev[b]
    <2>6. <<b, l>> \in F /\ b \in Atoms /\ b # Nil
      BY <1>5
    <2>7. IF w = Nil THEN pool.aiFreelist[l] = b
          ELSE <<w, l>> \in F /\ pool.next[w] = b /\ w \in Atoms
      BY <2>6 DEF Lists, Linked
    <2>8. CASE w = Nil
      <3>1. 0 \in 0..nBlock /\ L[0] = b
        BY <1>1, <2>7, <2>8, Widths
      <3>2. b \in OnList(l)
        BY <1>6, <2>6, <3>1
      <3>. QED
        BY <3>2
    <2>9. CASE w # Nil
      <3>1. <<w, l>> \in F /\ pool.next[w] = b /\ w \in Atoms
        BY <2>7, <2>9
      <3>2. r[b] < r[w]
        BY <1>3, <2>6, <3>1, Zenon DEF Falling
      <3>3. w \in OnList(l)
        <4>1. w \notin lost
          BY <1>3, <2>1, <2>5, <3>1, <3>2
        <4>. QED
          BY <3>1, <4>1
      <3>4. PICK k \in 0..nBlock : L[k] = w
        BY <1>6, <3>3
      <3>5. k # nBlock
        BY <1>7, <2>9, <3>4
      <3>6. k + 1 \in 1..nBlock /\ (k + 1) - 1 = k /\ k + 1 \in 0..nBlock
        BY <3>5, Widths
      <3>7. L[k + 1] = b
        BY <1>1, <3>1, <3>4, <3>6
      <3>8. b \in OnList(l)
        BY <1>6, <2>6, <3>6, <3>7
      <3>. QED
        BY <3>8
    <2>. QED
      BY <2>8, <2>9
  <1>. QED
    BY <1>8, <1>9

(* Every free list ends, holds chunks of its own size only, and can be     *)
(* walked backwards.                                                       *)
LEMMA ListsAreSound ==
    ASSUME NEW F, Lists(pool, F)
    PROVE  FreeListsSound
  <1>. SUFFICES ASSUME NEW l \in Logs
                PROVE  LET at == ListOf(l)
                       IN /\ at[nBlock] = Nil
                          /\ \A k \in 0..nBlock : at[k] \in Atoms =>
                               /\ pool.aCtrl[at[k]] = FreeChunk(l)
                               /\ pool.prev[at[k]] = IF k = 0 THEN Nil ELSE at[k - 1]
    BY DEF FreeListsSound
  <1>. DEFINE L == ListOf(l)
              V == Stops(F, l)
  <1>1. /\ L \in [0..nBlock -> V]
        /\ L[0] = pool.aiFreelist[l]
        /\ \A k \in 1..nBlock : L[k] = IF L[k - 1] \in Atoms THEN pool.next[L[k - 1]] ELSE L[k - 1]
    BY ListWalk
  <1>2. \A b \in V : b # Nil => b \in Atoms /\ <<b, l>> \in F
    BY StopsFollow
  <1>3. Nil \notin Atoms
    BY Widths DEF Nil, Atoms
  <1>4. L[nBlock] = Nil
    BY ListEnds
  <1>. HIDE DEF L, V
  <1>5. ASSUME NEW k \in 0..nBlock, L[k] \in Atoms
        PROVE  /\ pool.aCtrl[L[k]] = FreeChunk(l)
               /\ pool.prev[L[k]] = IF k = 0 THEN Nil ELSE L[k - 1]
    <2>1. <<L[k], l>> \in F /\ L[k] # Nil
      BY <1>1, <1>2, <1>3, <1>5
    <2>2. pool.aCtrl[L[k]] = FreeChunk(l)
      BY <2>1, Zenon DEF Lists, Linked
    <2>3. CASE k = 0
      <3>1. pool.aiFreelist[l] # Nil /\ L[k] = pool.aiFreelist[l]
        BY <1>1, <2>1, <2>3
      <3>2. pool.prev[pool.aiFreelist[l]] = Nil
        BY <3>1, Zenon DEF Lists, Linked
      <3>. QED
        BY <2>2, <2>3, <3>1, <3>2
    <2>4. CASE k # 0
      <3>1. k \in 1..nBlock /\ k - 1 \in 0..nBlock
        BY <2>4, Widths
      <3>2. L[k - 1] \in Atoms /\ L[k] = pool.next[L[k - 1]]
        BY <1>1, <1>5, <3>1
      <3>3. <<L[k - 1], l>> \in F
        BY <1>1, <1>2, <1>3, <3>1, <3>2
      <3>4. pool.prev[pool.next[L[k - 1]]] = L[k - 1]
        BY <2>1, <3>2, <3>3, Zenon DEF Lists, Linked
      <3>. QED
        BY <2>2, <2>4, <3>2, <3>4
    <2>. QED
      BY <2>3, <2>4
  <1>. QED
    BY <1>4, <1>5 DEF L

------------------------------------------------------------------------------
(* The chunks lie side by side, each at a multiple of its length.          *)
Aligned(b, l) == \E q \in Nat : b = q * 2 ^ l

Meets(b, l, c, k) == b < c + 2 ^ k /\ c < b + 2 ^ l

Tiles(T) ==
    /\ T \subseteq Atoms \X Logs
    /\ \A b, l : <<b, l>> \in T => b + 2 ^ l <= nBlock /\ Aligned(b, l)
    /\ \A b, l, c, k : <<b, l>> \in T /\ <<c, k>> \in T /\ Meets(b, l, c, k) =>
          b = c /\ l = k
    /\ \A x \in Atoms : \E b, l : <<b, l>> \in T /\ b <= x /\ x < b + 2 ^ l

LEMMA Lengths ==
    /\ \A l \in Logs : 2 ^ l \in Nat \ {0} /\ l \in Nat
    /\ \A l \in Logs : l + 1 \in Logs => 2 ^ (l + 1) = 2 * 2 ^ l
    /\ \A b \in Atoms : b \in Nat /\ b < nBlock
    /\ \A b \in Nat, l \in Logs : b + 2 ^ l <= nBlock => b \in Atoms
  BY Widths, PowerPositive, PowerNext DEF Logs, Atoms

LEMMA TilesTyped ==
    ASSUME NEW T, Tiles(T), NEW b, NEW l, <<b, l>> \in T
    PROVE  b \in Atoms /\ l \in Logs /\ b \in Nat /\ 2 ^ l \in Nat \ {0} /\ b + 2 ^ l <= nBlock
  <1>1. b \in Atoms /\ l \in Logs /\ b + 2 ^ l <= nBlock
    BY DEF Tiles
  <1>. QED
    BY <1>1, Lengths

LEMMA OneStart ==
    ASSUME NEW T, Tiles(T), NEW b, NEW k, NEW l, <<b, k>> \in T, <<b, l>> \in T
    PROVE  k = l
  <1>1. b < b + 2 ^ k /\ b < b + 2 ^ l
    BY TilesTyped
  <1>. QED
    BY <1>1, Zenon DEF Tiles, Meets

(* A chunk is cut in two.                                                  *)
LEMMA CutTile ==
    ASSUME NEW T, NEW i, NEW k \in Logs, k + 1 \in Logs,
           Tiles(T \cup {<<i, k + 1>>}), <<i, k + 1>> \notin T
    PROVE  /\ i + 2 ^ k \in Atoms
           /\ Tiles((T \cup {<<i + 2 ^ k, k>>}) \cup {<<i, k>>})
           /\ \A l : <<i + 2 ^ k, l>> \notin T /\ <<i, l>> \notin T
  <1>. DEFINE s == 2 ^ k
              j == i + s
              X == T \cup {<<i, k + 1>>}
              Y == (T \cup {<<j, k>>}) \cup {<<i, k>>}
  <1>1. s \in Nat \ {0} /\ 2 ^ (k + 1) = 2 * s
    BY Lengths
  <1>2. i \in Nat /\ i \in Atoms /\ i + 2 * s <= nBlock
    BY <1>1, TilesTyped
  <1>3. j \in Nat /\ j \in Atoms /\ j + s <= nBlock /\ i + s <= nBlock
    BY <1>1, <1>2, Widths DEF Atoms
  <1>4. \A b, l : <<b, l>> \in T => /\ b \in Nat /\ 2 ^ l \in Nat \ {0}
                                    /\ b \in Atoms /\ l \in Logs
                                    /\ b + 2 ^ l <= i \/ i + 2 * s <= b
    <2>. SUFFICES ASSUME NEW b, NEW l, <<b, l>> \in T
                  PROVE  /\ b \in Nat /\ 2 ^ l \in Nat \ {0} /\ b \in Atoms /\ l \in Logs
                         /\ b + 2 ^ l <= i \/ i + 2 * s <= b
      OBVIOUS
    <2>1. b \in Nat /\ 2 ^ l \in Nat \ {0} /\ b \in Atoms /\ l \in Logs
      BY TilesTyped
    <2>2. ~ Meets(b, l, i, k + 1)
      BY Zenon DEF Tiles
    <2>. QED
      BY <1>1, <1>2, <2>1, <2>2 DEF Meets
  <1>5. Aligned(i, k) /\ Aligned(j, k)
    <2>1. Aligned(i, k + 1)
      BY DEF Tiles
    <2>2. PICK q \in Nat : i = q * (2 * s)
      BY <1>1, <2>1 DEF Aligned
    <2>. HIDE DEF s
    <2>3. i = (2 * q) * s /\ j = (2 * q + 1) * s
      BY <1>1, <2>2, Z3
    <2>4. 2 * q \in Nat /\ 2 * q + 1 \in Nat
      OBVIOUS
    <2>. QED
      BY <2>3, <2>4 DEF Aligned, s
  <1>6. Y \subseteq Atoms \X Logs
    BY <1>2, <1>3 DEF Tiles
  <1>7. \A b, l : <<b, l>> \in T => b + 2 ^ l <= nBlock /\ Aligned(b, l)
    BY DEF Tiles
  <1>8. \A b, l : <<b, l>> \in Y => <<b, l>> \in T \/ (b = j /\ l = k) \/ (b = i /\ l = k)
    OBVIOUS
  <1>9. \A b, l : <<b, l>> \in Y => b + 2 ^ l <= nBlock /\ Aligned(b, l)
    <2>1. i + 2 ^ k <= nBlock /\ j + 2 ^ k <= nBlock
      BY <1>3
    <2>. HIDE DEF s, j, Y
    <2>. QED
      BY <1>5, <1>7, <1>8, <2>1
  <1>10. \A b, l, c, m : <<b, l>> \in T /\ <<c, m>> \in T /\ Meets(b, l, c, m) =>
            b = c /\ l = m
    BY DEF Tiles
  <1>11. ASSUME NEW b, NEW l, NEW c, NEW m, <<b, l>> \in Y, <<c, m>> \in Y, Meets(b, l, c, m)
         PROVE  b = c /\ l = m
    <2>1. CASE <<b, l>> \in T /\ <<c, m>> \in T
      BY <1>10, <1>11, <2>1
    <2>2. CASE <<b, l>> \in T /\ <<c, m>> \notin T
      <3>1. m = k /\ c \in {i, j}
        BY <1>8, <1>11, <2>2
      <3>2. b \in Nat /\ 2 ^ l \in Nat /\ (b + 2 ^ l <= i \/ i + 2 * s <= b)
        BY <1>4, <2>2
      <3>. QED
        BY <1>1, <1>2, <1>11, <3>1, <3>2 DEF Meets
    <2>3. CASE <<b, l>> \notin T /\ <<c, m>> \in T
      <3>1. l = k /\ b \in {i, j}
        BY <1>8, <1>11, <2>3
      <3>2. c \in Nat /\ 2 ^ m \in Nat /\ (c + 2 ^ m <= i \/ i + 2 * s <= c)
        BY <1>4, <2>3
      <3>. QED
        BY <1>1, <1>2, <1>11, <3>1, <3>2 DEF Meets
    <2>4. CASE <<b, l>> \notin T /\ <<c, m>> \notin T
      <3>1. l = k /\ m = k /\ b \in {i, j} /\ c \in {i, j}
        BY <1>8, <1>11, <2>4
      <3>. QED
        BY <1>1, <1>2, <1>11, <3>1 DEF Meets
    <2>. QED
      BY <2>1, <2>2, <2>3, <2>4
  <1>12. ASSUME NEW x \in Atoms
         PROVE  \E b, l : <<b, l>> \in Y /\ b <= x /\ x < b + 2 ^ l
    <2>1. PICK b, l : <<b, l>> \in X /\ b <= x /\ x < b + 2 ^ l
      BY DEF Tiles
    <2>2. CASE <<b, l>> \in T
      BY <2>1, <2>2
    <2>3. CASE b = i /\ l = k + 1
      <3>1. x \in Nat /\ i <= x /\ x < i + 2 * s
        BY <1>1, <2>1, <2>3, Lengths
      <3>2. CASE x < i + s
        <4>1. <<i, k>> \in Y /\ i <= x /\ x < i + 2 ^ k
          BY <3>1, <3>2
        <4>. HIDE DEF Y
        <4>. QED
          BY <4>1
      <3>3. CASE ~ (x < i + s)
        <4>1. <<j, k>> \in Y
          OBVIOUS
        <4>2. j <= x /\ x < j + 2 ^ k
          BY <1>1, <1>2, <3>1, <3>3
        <4>. HIDE DEF Y, j
        <4>. QED
          BY <4>1, <4>2
      <3>. QED
        BY <3>2, <3>3
    <2>. QED
      BY <2>1, <2>2, <2>3
  <1>13. Tiles(Y)
    <2>. HIDE DEF Y
    <2>. QED
      BY <1>6, <1>9, <1>11, <1>12 DEF Tiles
  <1>14. \A l : <<j, l>> \notin T /\ <<i, l>> \notin T
    BY <1>1, <1>2, <1>4
  <1>. QED
    BY <1>3, <1>13, <1>14

(* Two halves are joined.                                                  *)
LEMMA JoinTiles ==
    ASSUME NEW T, NEW i, NEW k \in Logs, k + 1 \in Logs,
           Tiles(T \cup {<<i, k>>, <<i + 2 ^ k, k>>}),
           <<i, k>> \notin T, <<i + 2 ^ k, k>> \notin T, Aligned(i, k + 1)
    PROVE  /\ Tiles(T \cup {<<i, k + 1>>})
           /\ \A l : <<i, l>> \notin T
  <1>. DEFINE s == 2 ^ k
              j == i + s
              X == T \cup {<<i, k>>, <<j, k>>}
              Y == T \cup {<<i, k + 1>>}
  <1>1. s \in Nat \ {0} /\ 2 ^ (k + 1) = 2 * s
    BY Lengths
  <1>2. i \in Nat /\ i \in Atoms /\ j \in Nat /\ j \in Atoms /\ j + s <= nBlock
    <2>1. <<i, k>> \in X /\ <<j, k>> \in X /\ Tiles(X)
      OBVIOUS
    <2>. HIDE DEF X
    <2>. QED
      BY <2>1, TilesTyped
  <1>3. \A b, l : <<b, l>> \in T => /\ b \in Nat /\ 2 ^ l \in Nat \ {0}
                                    /\ b \in Atoms /\ l \in Logs
                                    /\ b + 2 ^ l <= i \/ j + s <= b
    <2>. SUFFICES ASSUME NEW b, NEW l, <<b, l>> \in T
                  PROVE  /\ b \in Nat /\ 2 ^ l \in Nat \ {0} /\ b \in Atoms /\ l \in Logs
                         /\ b + 2 ^ l <= i \/ j + s <= b
      OBVIOUS
    <2>1. <<b, l>> \in X /\ <<i, k>> \in X /\ <<j, k>> \in X /\ Tiles(X)
      OBVIOUS
    <2>2. <<b, l>> # <<i, k>> /\ <<b, l>> # <<j, k>>
      OBVIOUS
    <2>. HIDE DEF X
    <2>3. b \in Nat /\ 2 ^ l \in Nat \ {0} /\ b \in Atoms /\ l \in Logs
      BY <2>1, TilesTyped
    <2>4. ~ Meets(b, l, i, k) /\ ~ Meets(b, l, j, k)
      BY <2>1, <2>2, ZenonT(40) DEF Tiles
    <2>. QED
      BY <1>1, <1>2, <2>3, <2>4 DEF Meets
  <1>4. Y \subseteq Atoms \X Logs
    BY <1>2 DEF Tiles
  <1>5. \A b, l : <<b, l>> \in T => b + 2 ^ l <= nBlock /\ Aligned(b, l)
    BY DEF Tiles
  <1>6. \A b, l : <<b, l>> \in Y => <<b, l>> \in T \/ (b = i /\ l = k + 1)
    OBVIOUS
  <1>7. \A b, l : <<b, l>> \in Y => b + 2 ^ l <= nBlock /\ Aligned(b, l)
    <2>1. i + 2 ^ (k + 1) <= nBlock
      BY <1>1, <1>2
    <2>. HIDE DEF Y
    <2>. QED
      BY <1>5, <1>6, <2>1
  <1>8. \A b, l, c, m : <<b, l>> \in T /\ <<c, m>> \in T /\ Meets(b, l, c, m) =>
           b = c /\ l = m
    BY DEF Tiles
  <1>9. \A b, l : <<b, l>> \in T => ~ Meets(b, l, i, k + 1) /\ ~ Meets(i, k + 1, b, l)
    BY <1>1, <1>2, <1>3 DEF Meets
  <1>10. ASSUME NEW b, NEW l, NEW c, NEW m, <<b, l>> \in Y, <<c, m>> \in Y, Meets(b, l, c, m)
         PROVE  b = c /\ l = m
    <2>. HIDE DEF Y
    <2>1. <<b, l>> \in T \/ (b = i /\ l = k + 1)
      BY <1>6, <1>10
    <2>2. <<c, m>> \in T \/ (c = i /\ m = k + 1)
      BY <1>6, <1>10
    <2>3. CASE <<b, l>> \in T /\ <<c, m>> \in T
      BY <1>8, <1>10, <2>3, Zenon
    <2>4. CASE <<b, l>> \in T /\ c = i /\ m = k + 1
      BY <1>9, <1>10, <2>4
    <2>5. CASE <<c, m>> \in T /\ b = i /\ l = k + 1
      BY <1>9, <1>10, <2>5
    <2>. QED
      BY <2>1, <2>2, <2>3, <2>4, <2>5
  <1>11. ASSUME NEW x \in Atoms
         PROVE  \E b, l : <<b, l>> \in Y /\ b <= x /\ x < b + 2 ^ l
    <2>1. PICK b, l : <<b, l>> \in X /\ b <= x /\ x < b + 2 ^ l
      BY DEF Tiles
    <2>2. CASE <<b, l>> \in T
      BY <2>1, <2>2
    <2>3. CASE l = k /\ b \in {i, j}
      <3>1. i <= x /\ x < i + 2 ^ (k + 1)
        BY <1>1, <1>2, <2>1, <2>3, Lengths
      <3>2. <<i, k + 1>> \in Y
        OBVIOUS
      <3>. HIDE DEF Y
      <3>. QED
        BY <3>1, <3>2
    <2>. QED
      BY <2>1, <2>2, <2>3
  <1>12. Tiles(Y)
    <2>. HIDE DEF Y
    <2>. QED
      BY <1>4, <1>7, <1>10, <1>11 DEF Tiles
  <1>13. \A l : <<i, l>> \notin T
    BY <1>1, <1>2, <1>3
  <1>. QED
    BY <1>12, <1>13

(* The buddy of a chunk, when it fits in the pool, is the start of a chunk *)
(* that is no larger: the byte of aCtrl the code reads there is the byte   *)
(* of a chunk.                                                             *)
LEMMA BuddyPair ==
    ASSUME NEW b, NEW l \in Logs, Aligned(b, l)
    PROVE  /\ Buddy(Buddy(b, l), l) = b
           /\ \E low \in Nat : /\ \/ b = low /\ Buddy(b, l) = low + 2 ^ l
                                  \/ b = low + 2 ^ l /\ Buddy(b, l) = low
                               /\ \E e \in Nat : low = e * (2 * 2 ^ l)
  <1>. DEFINE s == 2 ^ l
              d == Buddy(b, l)
  <1>1. s \in Nat \ {0}
    BY Lengths
  <1>2. PICK q \in Nat : b = q * s
    BY DEF Aligned
  <1>3. b \div s = q
    BY <1>1, <1>2, Halves
  <1>4. d = IF q % 2 = 1 THEN b - s ELSE b + s
    BY <1>3 DEF Buddy
  <1>. HIDE DEF s, d
  <1>5. CASE q % 2 = 1
    <2>1. PICK e \in Nat : b - s = e * (2 * s) /\ b = e * (2 * s) + s
      BY <1>1, <1>2, <1>5, Halves
    <2>2. e * (2 * s) \in Nat
      BY <1>1, Z3
    <2>3. d = (q - 1) * s /\ q - 1 \in Nat /\ (q - 1) % 2 # 1
      <3>1. q - 1 \in Nat /\ (q - 1) % 2 # 1
        BY <1>5
      <3>2. (q - 1) * s = q * s - s
        BY <1>1, Z3
      <3>. QED
        BY <1>2, <1>4, <1>5, <3>1, <3>2
    <2>4. d \div s = q - 1
      BY <1>1, <2>3, Halves
    <2>5. Buddy(d, l) = d + s
      BY <2>3, <2>4 DEF Buddy, s
    <2>6. d = e * (2 * s) /\ b = d + s
      BY <1>1, <1>4, <1>5, <2>1, <2>2
    <2>. QED
      BY <2>2, <2>5, <2>6 DEF s, d
  <1>6. CASE q % 2 # 1
    <2>1. PICK e \in Nat : b = e * (2 * s)
      BY <1>1, <1>2, <1>6, Halves
    <2>2. e * (2 * s) \in Nat
      BY <1>1, Z3
    <2>3. d = (q + 1) * s /\ q + 1 \in Nat /\ (q + 1) % 2 = 1
      <3>1. q + 1 \in Nat /\ (q + 1) % 2 = 1
        BY <1>6
      <3>2. (q + 1) * s = q * s + s
        BY <1>1, Z3
      <3>. QED
        BY <1>2, <1>4, <1>6, <3>1, <3>2
    <2>4. d \div s = q + 1
      BY <1>1, <2>3, Halves
    <2>5. Buddy(d, l) = d - s
      BY <2>3, <2>4 DEF Buddy, s
    <2>6. b \in Nat /\ d = b + s
      BY <1>4, <1>6, <2>1, <2>2
    <2>7. Buddy(d, l) = b
      BY <1>1, <2>5, <2>6
    <2>. QED
      BY <2>1, <2>6, <2>7 DEF s, d
  <1>. QED
    BY <1>5, <1>6

LEMMA BuddyStarts ==
    ASSUME NEW T, Tiles(T), NEW b, NEW l, <<b, l>> \in T, Buddy(b, l) + 2 ^ l <= nBlock,
           NEW c, NEW k, <<c, k>> \in T, c <= Buddy(b, l), Buddy(b, l) < c + 2 ^ k
    PROVE  c = Buddy(b, l) /\ k <= l
  <1>. DEFINE s == 2 ^ l
              t == 2 ^ k
              d == Buddy(b, l)
  <1>1. b \in Nat /\ l \in Logs /\ c \in Nat /\ k \in Logs /\ Aligned(b, l) /\ Aligned(c, k)
    <2>1. Aligned(b, l) /\ Aligned(c, k)
      BY DEF Tiles
    <2>. QED
      BY <2>1, TilesTyped
  <1>2. s \in Nat \ {0} /\ t \in Nat \ {0} /\ l \in Nat /\ k \in Nat
    BY <1>1, Lengths
  <1>3. PICK low \in Nat :
               /\ (b = low /\ d = low + s) \/ (b = low + s /\ d = low)
               /\ \E e \in Nat : low = e * (2 * s)
    BY <1>1, BuddyPair
  <1>4. PICK e \in Nat : low = e * (2 * s)
    BY <1>3
  <1>5. PICK Q \in Nat : c = Q * t
    BY <1>1 DEF Aligned
  <1>6. d \in Nat /\ c <= d /\ d < c + t
    BY <1>2, <1>3
  <1>7. CASE k <= l
    <2>1. PICK m \in Nat \ {0} : s = m * t
      BY <1>2, <1>7, PowersGrow
    <2>2. \E w \in Nat : d = w * t
      <3>. DEFINE x == e * (2 * m)
      <3>1. x \in Nat /\ x + m \in Nat
        BY Z3
      <3>. HIDE DEF s, t, d
      <3>2. e * (2 * (m * t)) = x * t /\ (x + m) * t = x * t + m * t
        BY <1>2, Z3
      <3>3. low = x * t /\ low + s = (x + m) * t
        BY <1>4, <2>1, <3>2
      <3>. HIDE DEF x
      <3>. QED
        BY <1>3, <3>1, <3>3
    <2>3. PICK w \in Nat : d = w * t
      BY <2>2
    <2>. HIDE DEF s, t, d
    <2>4. w = Q
      <3>1. w * t <= d /\ d < w * t + t
        BY <1>2, <1>6, <2>3
      <3>2. Q * t <= d /\ d < Q * t + t
        BY <1>5, <1>6
      <3>. QED
        BY <1>2, <1>6, <3>1, <3>2, SamePiece
    <2>. QED
      BY <1>5, <1>7, <2>3, <2>4 DEF d
  <1>8. CASE l < k
    <2>1. PICK m \in Nat \ {0} : t = m * (2 * s)
      BY <1>2, <1>8, PowersGrow
    <2>. DEFINE u == 2 * s
    <2>2. u \in Nat /\ t = m * u /\ low = e * u
      BY <1>2, <1>4, <2>1
    <2>. HIDE DEF s, t, d
    <2>3. e * u <= d /\ d < e * u + u
      BY <1>2, <1>3, <2>2
    <2>4. Q * (m * u) <= d /\ d < Q * (m * u) + m * u
      BY <1>5, <1>6, <2>2
    <2>. HIDE DEF u
    <2>5. Q * (m * u) <= e * u /\ e * u + u <= Q * (m * u) + m * u
      BY <1>6, <2>2, <2>3, <2>4, PieceInRun
    <2>6. c <= low /\ low + u <= c + t
      BY <1>5, <2>2, <2>5
    <2>7. Meets(b, l, c, k)
      BY <1>1, <1>2, <1>3, <2>6 DEF Meets, s, t, u
    <2>8. l = k
      BY <2>7, Zenon DEF Tiles
    <2>. QED
      BY <1>2, <1>8, <2>8
  <1>. QED
    BY <1>2, <1>7, <1>8

------------------------------------------------------------------------------
(* What holds of a pool between two calls: its lists hold the free chunks, *)
(* the chunks handed out are marked used, together they tile the pool, and *)
(* no two free buddies are left apart.                                     *)
Marked(p, U) == \A b, l : <<b, l>> \in U => p.aCtrl[b] = UsedChunk(l)

Coalescent(F) == \A b, l : <<b, l>> \in F /\ l + 1 \in Logs => <<Buddy(b, l), l>> \notin F

Good(p, F, U) ==
    /\ Lists(p, F)
    /\ Marked(p, U)
    /\ Tiles(F \cup U)
    /\ Coalescent(F)

(* No atom begins a free and a used chunk.                                 *)
LEMMA FreeNotUsed ==
    ASSUME NEW p, NEW F, NEW U, Lists(p, F), Marked(p, U),
           NEW b, NEW k, NEW l, <<b, k>> \in F, <<b, l>> \in U
    PROVE  FALSE
  <1>1. p.aCtrl[b] = FreeChunk(k)
    BY Zenon DEF Lists, Linked
  <1>2. p.aCtrl[b] = UsedChunk(l)
    BY Zenon DEF Marked
  <1>. QED
    BY <1>1, <1>2 DEF FreeChunk, UsedChunk

LEMMA ChunkTypes ==
    ASSUME NEW l \in Logs
    PROVE  FreeChunk(l) \in Ctrl /\ UsedChunk(l) \in Ctrl
  BY DEF FreeChunk, UsedChunk, Ctrl

LEMMA CtrlKeeps ==
    ASSUME NEW p \in Pools, NEW b \in Atoms, NEW c \in Ctrl
    PROVE  LET q == [p EXCEPT !.aCtrl[b] = c]
           IN /\ q \in Pools
              /\ q.next = p.next /\ q.prev = p.prev /\ q.aiFreelist = p.aiFreelist
              /\ q.aCtrl[b] = c
              /\ \A x : x # b => q.aCtrl[x] = p.aCtrl[x]
  BY DEF Pools

------------------------------------------------------------------------------
(* mplite_init.                                                            *)

(* The chunks placed when those down to log l have been: they fill the     *)
(* pool up to n, and there is one of each size at most.                    *)
Placed(F, n, l) ==
    /\ F \subseteq Atoms \X Logs
    /\ \A b, k : <<b, k>> \in F => b + 2 ^ k <= n /\ l <= k /\ Aligned(b, k)
    /\ \A b, k, c, m : <<b, k>> \in F /\ <<c, m>> \in F /\ Meets(b, k, c, m) =>
          b = c /\ k = m
    /\ \A x \in 0..(n - 1) : \E b, k : <<b, k>> \in F /\ b <= x /\ x < b + 2 ^ k
    /\ \A b, c, k : <<b, k>> \in F /\ <<c, k>> \in F => b = c

Carved(c, l) ==
    /\ c.iOffset \in 0..nBlock
    /\ nBlock - c.iOffset < 2 ^ l
    /\ Aligned(c.iOffset, l)
    /\ \E F : Lists(c.p, F) /\ Placed(F, c.iOffset, l)

Carve(c, l) ==
    IF c.iOffset + 2 ^ l > nBlock THEN c
    ELSE [p |-> mplite_link([c.p EXCEPT !.aCtrl[c.iOffset] = FreeChunk(l)], c.iOffset, l),
          iOffset |-> c.iOffset + 2 ^ l]

LEMMA CarveOn ==
    ASSUME NEW l \in Logs, NEW c, Carved(c, l + 1)
    PROVE  Carved(Carve(c, l), l)
  <1>. DEFINE o == c.iOffset
              s == 2 ^ l
  <1>1. s \in Nat \ {0} /\ 2 ^ (l + 1) = 2 * s /\ l \in Nat
    BY Lengths, PowerNext
  <1>2. o \in 0..nBlock /\ nBlock - o < 2 * s /\ nBlock \in Nat
    BY <1>1, Widths DEF Carved
  <1>3. PICK F : Lists(c.p, F) /\ Placed(F, o, l + 1)
    BY DEF Carved
  <1>4. PICK q \in Nat : o = (2 * q) * s /\ o + s = (2 * q + 1) * s
    <2>1. PICK q \in Nat : o = q * (2 * s)
      BY <1>1 DEF Carved, Aligned
    <2>. HIDE DEF s
    <2>2. q * (2 * s) = (2 * q) * s /\ q * (2 * s) + s = (2 * q + 1) * s
      BY <1>1, Z3
    <2>. QED
      BY <2>1, <2>2
  <1>5. Aligned(o, l) /\ Aligned(o + s, l)
    BY <1>4 DEF Aligned
  <1>6. CASE o + s > nBlock
    <2>1. Carve(c, l) = c
      BY <1>6 DEF Carve
    <2>2. nBlock - o < s
      BY <1>1, <1>2, <1>6
    <2>3. Placed(F, o, l)
      <3>1. \A b, k : <<b, k>> \in F => k \in Logs /\ l + 1 <= k
        BY <1>3 DEF Placed
      <3>2. \A k \in Logs : l + 1 <= k => l <= k
        BY <1>1, Lengths
      <3>3. \A b, k : <<b, k>> \in F => l <= k
        BY <3>1, <3>2
      <3>. QED
        BY <1>3, <3>3 DEF Placed
    <2>. QED
      BY <1>2, <1>3, <1>5, <2>1, <2>2, <2>3 DEF Carved
  <1>7. CASE o + s <= nBlock
    <2>. DEFINE p0 == [c.p EXCEPT !.aCtrl[o] = FreeChunk(l)]
                p1 == mplite_link(p0, o, l)
                H == F \cup {<<o, l>>}
    <2>1. Carve(c, l) = [p |-> p1, iOffset |-> o + s]
      BY <1>1, <1>2, <1>7 DEF Carve
    <2>2. o \in Atoms
      BY <1>2, <1>7, Lengths
    <2>3. /\ p0 \in Pools
          /\ p0.next = c.p.next /\ p0.prev = c.p.prev /\ p0.aiFreelist = c.p.aiFreelist
          /\ p0.aCtrl[o] = FreeChunk(l)
          /\ \A x : x # o => p0.aCtrl[x] = c.p.aCtrl[x]
      BY <1>3, <2>2, ChunkTypes, CtrlKeeps DEF Lists
    <2>4. \A b, k : <<b, k>> \in F =>
             b \in Nat /\ b + 2 ^ k <= o /\ b < o /\ l < k /\ k \in Logs /\ 2 ^ k \in Nat \ {0}
      <3>. SUFFICES ASSUME NEW b, NEW k, <<b, k>> \in F
                    PROVE  /\ b \in Nat /\ b + 2 ^ k <= o /\ b < o /\ l < k /\ k \in Logs
                           /\ 2 ^ k \in Nat \ {0}
        OBVIOUS
      <3>1. b \in Atoms /\ k \in Logs /\ b + 2 ^ k <= o /\ l + 1 <= k
        BY <1>3 DEF Placed
      <3>. QED
        BY <1>1, <1>2, <3>1, Lengths
    <2>. HIDE DEF p0
    <2>5. Lists(p0, F)
      <3>1. \A b, k : <<b, k>> \in F => b # o
        BY <1>2, <2>4
      <3>. QED
        BY <1>3, <2>3, <3>1, CtrlElsewhere
    <2>6. Lists(p1, H)
      <3>1. \A k : <<o, k>> \notin F
        BY <1>2, <2>4
      <3>. QED
        BY <2>2, <2>3, <2>5, <3>1, LinkAdds
    <2>7. Placed(H, o + s, l)
      <3>1. H \subseteq Atoms \X Logs
        BY <1>3, <2>2 DEF Placed
      <3>2. \A b, k : <<b, k>> \in H => <<b, k>> \in F \/ (b = o /\ k = l)
        OBVIOUS
      <3>3. ASSUME NEW b, NEW k, <<b, k>> \in H
            PROVE  b + 2 ^ k <= o + s /\ l <= k /\ Aligned(b, k)
        <4>1. CASE <<b, k>> \in F
          <5>1. Aligned(b, k)
            BY <1>3, <4>1 DEF Placed
          <5>. QED
            <6>1. b \in Nat /\ 2 ^ k \in Nat /\ b + 2 ^ k <= o /\ l < k /\ k \in Nat
              BY <2>4, <4>1, Lengths
            <6>. HIDE DEF s
            <6>. QED
              BY <1>1, <1>2, <5>1, <6>1
        <4>2. CASE b = o /\ k = l
          BY <1>1, <1>2, <1>5, <4>2
        <4>. QED
          BY <3>2, <3>3, <4>1, <4>2
      <3>4. ASSUME NEW b, NEW k, NEW d, NEW m, <<b, k>> \in H, <<d, m>> \in H, Meets(b, k, d, m)
            PROVE  b = d /\ k = m
        <4>1. CASE <<b, k>> \in F /\ <<d, m>> \in F
          BY <1>3, <3>4, <4>1, Zenon DEF Placed
        <4>2. CASE <<b, k>> \in F /\ d = o /\ m = l
          BY <1>1, <1>2, <2>4, <3>4, <4>2 DEF Meets
        <4>3. CASE <<d, m>> \in F /\ b = o /\ k = l
          BY <1>1, <1>2, <2>4, <3>4, <4>3 DEF Meets
        <4>4. CASE b = o /\ k = l /\ d = o /\ m = l
          BY <4>4
        <4>. QED
          BY <3>2, <3>4, <4>1, <4>2, <4>3, <4>4
      <3>5. ASSUME NEW x, x \in 0..((o + s) - 1)
            PROVE  \E b, k : <<b, k>> \in H /\ b <= x /\ x < b + 2 ^ k
        <4>1. CASE x < o
          <5>1. x \in 0..(o - 1)
            BY <1>1, <1>2, <3>5, <4>1
          <5>2. PICK b, k : <<b, k>> \in F /\ b <= x /\ x < b + 2 ^ k
            BY <1>3, <5>1, Zenon DEF Placed
          <5>3. <<b, k>> \in H
            BY <5>2
          <5>. HIDE DEF H
          <5>. QED
            BY <5>2, <5>3
        <4>2. CASE ~ (x < o)
          <5>1. o <= x /\ x < o + 2 ^ l
            BY <1>1, <1>2, <3>5, <4>2
          <5>2. <<o, l>> \in H
            OBVIOUS
          <5>. HIDE DEF H, o
          <5>. QED
            BY <5>1, <5>2
        <4>. QED
          BY <4>1, <4>2
      <3>6. \A b, d, k : <<b, k>> \in H /\ <<d, k>> \in H => b = d
        <4>1. \A b, d, k : <<b, k>> \in F /\ <<d, k>> \in F => b = d
          BY <1>3 DEF Placed
        <4>2. \A b : <<b, l>> \notin F
          BY <1>1, <2>4
        <4>. HIDE DEF H
        <4>. QED
          BY <3>2, <4>1, <4>2
      <3>. HIDE DEF H, s, o
      <3>7. \A b, k : <<b, k>> \in H => b + 2 ^ k <= o + s /\ l <= k /\ Aligned(b, k)
        BY <3>3, Zenon
      <3>8. \A b, k, d, m : <<b, k>> \in H /\ <<d, m>> \in H /\ Meets(b, k, d, m) =>
               b = d /\ k = m
        BY <3>4, Zenon
      <3>9. \A x \in 0..((o + s) - 1) : \E b, k : <<b, k>> \in H /\ b <= x /\ x < b + 2 ^ k
        BY <3>5, Zenon
      <3>. QED
        BY <3>1, <3>6, <3>7, <3>8, <3>9 DEF Placed
    <2>8. o + s \in 0..nBlock /\ nBlock - (o + s) < s
      BY <1>1, <1>2, <1>7
    <2>9. Carve(c, l).iOffset = o + s /\ Carve(c, l).p = p1
      BY <2>1
    <2>. HIDE DEF p1, H, s, o
    <2>. QED
      BY <1>5, <2>6, <2>7, <2>8, <2>9 DEF Carved, s
  <1>. QED
    BY <1>1, <1>2, <1>6, <1>7

LEMMA CarveKeeps ==
    ASSUME NEW l \in Logs, NEW c \in [p : Pools, iOffset : Nat]
    PROVE  Carve(c, l) \in [p : Pools, iOffset : Nat]
  <1>1. 2 ^ l \in Nat /\ c.iOffset + 2 ^ l \in Nat
    BY Lengths
  <1>2. CASE c.iOffset + 2 ^ l > nBlock
    BY <1>2 DEF Carve
  <1>3. CASE ~ (c.iOffset + 2 ^ l > nBlock)
    <2>1. c.iOffset \in Atoms
      BY <1>1, <1>3, Lengths, Widths
    <2>. DEFINE p0 == [c.p EXCEPT !.aCtrl[c.iOffset] = FreeChunk(l)]
    <2>2. p0 \in Pools
      BY <2>1, ChunkTypes, CtrlKeeps
    <2>. HIDE DEF p0
    <2>3. mplite_link(p0, c.iOffset, l) \in Pools
      BY <2>1, <2>2, LinkKeeps
    <2>4. Carve(c, l) = [p |-> mplite_link(p0, c.iOffset, l), iOffset |-> c.iOffset + 2 ^ l]
      BY <1>3 DEF Carve, p0
    <2>. QED
      BY <1>1, <2>3, <2>4
  <1>. QED
    BY <1>2, <1>3

(* mplite_init leaves a pool that is all free, whatever it found there.    *)
LEMMA FormattedGood ==
    ASSUME NEW ctrl \in [Atoms -> Ctrl]
    PROVE  \E F : Good(Formatted(ctrl), F, {})
  <1>. DEFINE hi == MPLITE_LOGMAX + 1
              blank == [aCtrl |-> ctrl,
                        next |-> [b \in Atoms |-> Junk],
                        prev |-> [b \in Atoms |-> Junk],
                        aiFreelist |-> [l \in Logs |-> Nil]]
              c0 == [p |-> blank, iOffset |-> 0]
              V == [p : Pools, iOffset : Nat]
              G == [l \in 0..(hi - 1) |-> [c \in V |-> Carve(c, l)]]
  <1>1. hi \in Nat /\ hi - 1 = MPLITE_LOGMAX /\ 0..(hi - 1) = Logs /\ 0 <= hi
    BY Widths DEF Logs
  <1>2. blank \in Pools
    BY DEF Pools, Links
  <1>3. c0 \in V /\ c0.p = blank /\ c0.iOffset = 0
    BY <1>2
  <1>. HIDE DEF blank
  <1>4. G \in [0..(hi - 1) -> [V -> V]]
    BY <1>1, CarveKeeps
  <1>5. PICK f : f \in Descents(0, hi, V, c0, G)
    <2>. HIDE DEF V, G, hi, c0
    <2>1. hi \in Nat /\ 0 \in Nat /\ 0 <= hi
      BY <1>1
    <2>2. Descents(0, hi, V, c0, G) # {}
      BY <1>3, <1>4, <2>1, DescentExists, Zenon
    <2>. QED
      BY <2>2
  <1>6. f \in [0..hi -> V] /\ f[hi] = c0 /\ \A l \in Logs : f[l] = Carve(f[l + 1], l)
    <2>1. f \in [0..hi -> V] /\ f[hi] = c0 /\ \A l \in 0..(hi - 1) : f[l] = G[l][f[l + 1]]
      BY <1>5 DEF Descents
    <2>2. \A l \in Logs : l \in 0..(hi - 1) /\ l + 1 \in 0..hi
      BY <1>1 DEF Logs
    <2>. HIDE DEF V, hi, c0
    <2>. QED
      BY <2>1, <2>2
  <1>. DEFINE carve[l \in 0..(MPLITE_LOGMAX + 1)] ==
                  IF l > MPLITE_LOGMAX THEN [p |-> blank, iOffset |-> 0]
                  ELSE LET c == carve[l + 1]
                       IN IF c.iOffset + 2 ^ l > nBlock THEN c
                          ELSE [p |-> mplite_link([c.p EXCEPT !.aCtrl[c.iOffset]
                                                     = FreeChunk(l)], c.iOffset, l),
                                iOffset |-> c.iOffset + 2 ^ l]
  <1>7. f = [l \in 0..(MPLITE_LOGMAX + 1) |->
                IF l > MPLITE_LOGMAX THEN [p |-> blank, iOffset |-> 0]
                ELSE LET c == f[l + 1]
                     IN IF c.iOffset + 2 ^ l > nBlock THEN c
                        ELSE [p |-> mplite_link([c.p EXCEPT !.aCtrl[c.iOffset]
                                                   = FreeChunk(l)], c.iOffset, l),
                              iOffset |-> c.iOffset + 2 ^ l]]
    <2>1. \A l \in 0..hi : l > MPLITE_LOGMAX => l = hi
      BY <1>1
    <2>2. \A l \in 0..hi : ~ (l > MPLITE_LOGMAX) => l \in Logs
      BY <1>1
    <2>. HIDE DEF V
    <2>. QED
      BY <1>6, <2>1, <2>2 DEF Carve
  <1>8. carve = [l \in 0..(MPLITE_LOGMAX + 1) |->
                IF l > MPLITE_LOGMAX THEN [p |-> blank, iOffset |-> 0]
                ELSE LET c == carve[l + 1]
                     IN IF c.iOffset + 2 ^ l > nBlock THEN c
                        ELSE [p |-> mplite_link([c.p EXCEPT !.aCtrl[c.iOffset]
                                                   = FreeChunk(l)], c.iOffset, l),
                              iOffset |-> c.iOffset + 2 ^ l]]
    BY <1>7
  <1>9. Formatted(ctrl) = carve[0].p
    BY DEF Formatted, blank
  <1>. HIDE DEF carve
  <1>10. \A l \in Logs : carve[l] = Carve(carve[l + 1], l)
    <2>1. \A l \in Logs : l \in 0..hi /\ ~ (l > MPLITE_LOGMAX)
      BY <1>1
    <2>. QED
      BY <1>8, <2>1 DEF Carve
  <1>11. carve[hi] = c0
    <2>1. hi \in 0..hi /\ hi > MPLITE_LOGMAX
      BY <1>1, Widths
    <2>. QED
      BY <1>8, <2>1
  <1>12. Carved(c0, hi)
    <2>1. Linked(blank, {})
      BY DEF Linked, blank
    <2>2. [b \in Atoms |-> 0] \in [Atoms -> 0..0] /\ 0 \in Nat
      OBVIOUS
    <2>3. Falling(blank, {}, [b \in Atoms |-> 0])
      BY DEF Falling
    <2>4. Lists(blank, {})
      BY <1>2, <2>1, <2>2, <2>3 DEF Lists
    <2>5. Placed({}, 0, hi)
      BY DEF Placed
    <2>6. nBlock - 0 < 2 ^ hi /\ 0 \in 0..nBlock
      BY Widths, PowerNext
    <2>7. 0 = 0 * 2 ^ hi
      <3>1. 2 ^ hi \in Nat
        BY <1>1, PowerNext
      <3>2. \A x \in Nat : 0 = 0 * x
        OBVIOUS
      <3>. QED
        BY <3>1, <3>2, Zenon
    <2>8. Aligned(0, hi)
      BY <2>7 DEF Aligned
    <2>. HIDE DEF c0, hi
    <2>. QED
      BY <1>3, <2>4, <2>5, <2>6, <2>8 DEF Carved
  <1>13. Carved(carve[0], 0)
    <2>. DEFINE S == {l \in 0..hi : Carved(carve[l], l)}
    <2>1. hi \in S
      BY <1>1, <1>11, <1>12
    <2>2. ASSUME NEW l \in 0..(hi - 1), l + 1 \in S
          PROVE  l \in S
      <3>1. l \in Logs /\ l \in 0..hi
        BY <1>1
      <3>2. Carved(carve[l + 1], l + 1)
        BY <2>2
      <3>. QED
        BY <1>10, <3>1, <3>2, CarveOn
    <2>. HIDE DEF S, hi
    <2>3. 0..hi \subseteq S
      BY <1>1, <2>1, <2>2, DescentInduction
    <2>4. 0 \in 0..hi
      BY <1>1
    <2>. QED
      BY <2>3, <2>4 DEF S
  <1>14. PICK F : Lists(carve[0].p, F) /\ Placed(F, carve[0].iOffset, 0)
    BY <1>13 DEF Carved
  <1>15. carve[0].iOffset = nBlock
    <2>1. 2 ^ 0 = 1
      BY PowerNext
    <2>2. carve[0].iOffset \in 0..nBlock /\ nBlock - carve[0].iOffset < 2 ^ 0
      BY <1>13, Zenon DEF Carved
    <2>3. \A x \in 0..nBlock : nBlock - x < 1 => x = nBlock
      BY Widths
    <2>. QED
      BY <2>1, <2>2, <2>3
  <1>16. Tiles(F \cup {})
    <2>1. F \cup {} = F
      OBVIOUS
    <2>2. Tiles(F)
      BY <1>14, <1>15 DEF Placed, Tiles, Atoms
    <2>. QED
      BY <2>1, <2>2
  <1>17. Coalescent(F)
    <2>. SUFFICES ASSUME NEW b, NEW l, <<b, l>> \in F, <<Buddy(b, l), l>> \in F
                  PROVE  FALSE
      BY DEF Coalescent
    <2>1. Buddy(b, l) = b
      BY <1>14, Zenon DEF Placed
    <2>2. l \in Logs /\ Aligned(b, l)
      BY <1>14 DEF Placed
    <2>3. 2 ^ l \in Nat \ {0}
      BY <2>2, Lengths
    <2>4. \E low \in Nat : \/ b = low /\ Buddy(b, l) = low + 2 ^ l
                           \/ b = low + 2 ^ l /\ Buddy(b, l) = low
      BY <2>2, BuddyPair
    <2>. QED
      BY <2>1, <2>3, <2>4
  <1>18. Marked(carve[0].p, {})
    BY DEF Marked
  <1>. QED
    BY <1>9, <1>14, <1>16, <1>17, <1>18 DEF Good

------------------------------------------------------------------------------
(* mplite_malloc.                                                          *)

(* A chunk is in the allocator's hands: neither free nor handed out.       *)
Open(p, F, U, b, l) ==
    /\ Lists(p, F)
    /\ Marked(p, U)
    /\ Coalescent(F)
    /\ Tiles((F \cup U) \cup {<<b, l>>})
    /\ <<b, l>> \notin F \cup U

LEMMA OpenAlone ==
    ASSUME NEW p, NEW F, NEW U, NEW b, NEW l, Open(p, F, U, b, l)
    PROVE  /\ b \in Atoms /\ l \in Logs /\ b + 2 ^ l <= nBlock /\ Aligned(b, l)
           /\ \A k : <<b, k>> \notin F /\ <<b, k>> \notin U
  <1>. DEFINE T == (F \cup U) \cup {<<b, l>>}
  <1>1. Tiles(T) /\ <<b, l>> \in T
    BY DEF Open
  <1>2. \A k : <<b, k>> \in F \cup U => <<b, k>> \in T
    OBVIOUS
  <1>. HIDE DEF T
  <1>3. b \in Atoms /\ l \in Logs /\ b + 2 ^ l <= nBlock
    BY <1>1, TilesTyped
  <1>4. Aligned(b, l)
    BY <1>1, Zenon DEF Tiles
  <1>5. \A k : <<b, k>> \in F \cup U => k = l
    BY <1>1, <1>2, OneStart
  <1>. QED
    BY <1>3, <1>4, <1>5 DEF Open

LEMMA BuddyOfLow ==
    ASSUME NEW i, NEW l \in Logs, l + 1 \in Logs, Aligned(i, l + 1)
    PROVE  Buddy(i, l) = i + 2 ^ l /\ Buddy(i + 2 ^ l, l) = i
  <1>. DEFINE s == 2 ^ l
  <1>1. s \in Nat \ {0} /\ 2 ^ (l + 1) = 2 * s
    BY Lengths
  <1>2. PICK q \in Nat : i = q * (2 * s)
    BY <1>1 DEF Aligned
  <1>. HIDE DEF s
  <1>3. i = (2 * q) * s /\ i + s = (2 * q + 1) * s /\ i \in Nat
    BY <1>1, <1>2, Z3
  <1>4. 2 * q \in Nat /\ 2 * q + 1 \in Nat /\ (2 * q) % 2 # 1 /\ (2 * q + 1) % 2 = 1
    OBVIOUS
  <1>5. i \div s = 2 * q /\ (i + s) \div s = 2 * q + 1
    BY <1>1, <1>3, <1>4, Halves
  <1>6. Buddy(i, l) = i + s
    BY <1>4, <1>5 DEF Buddy, s
  <1>7. Buddy(i + s, l) = (i + s) - s
    BY <1>4, <1>5 DEF Buddy, s
  <1>. QED
    BY <1>1, <1>3, <1>6, <1>7 DEF s

(* The upper half of an open chunk is put on its list.                     *)
CutOff(p, i, k) == mplite_link([p EXCEPT !.aCtrl[i + 2 ^ k] = FreeChunk(k)], i + 2 ^ k, k)

LEMMA CutOffOpen ==
    ASSUME NEW p, NEW U, NEW i, NEW k \in Logs, k + 1 \in Logs,
           \E F : Open(p, F, U, i, k + 1)
    PROVE  \E F : Open(CutOff(p, i, k), F, U, i, k)
  <1>1. PICK F : Open(p, F, U, i, k + 1)
    OBVIOUS
  <1>. DEFINE j == i + 2 ^ k
              T == F \cup U
              q == [p EXCEPT !.aCtrl[j] = FreeChunk(k)]
              G == F \cup {<<j, k>>}
  <1>2. i \in Atoms /\ Aligned(i, k + 1)
    BY <1>1, OpenAlone
  <1>3. /\ j \in Atoms
        /\ Tiles((T \cup {<<j, k>>}) \cup {<<i, k>>})
        /\ \A l : <<j, l>> \notin T /\ <<i, l>> \notin T
    <2>1. Tiles(T \cup {<<i, k + 1>>}) /\ <<i, k + 1>> \notin T
      BY <1>1 DEF Open
    <2>. HIDE DEF T
    <2>. QED
      BY <2>1, CutTile
  <1>4. Buddy(i, k) = j /\ Buddy(j, k) = i /\ i # j
    <2>1. i \in Nat /\ 2 ^ k \in Nat \ {0}
      BY <1>2, Lengths
    <2>2. i # j
      BY <2>1
    <2>. QED
      BY <1>2, <2>2, BuddyOfLow
  <1>. HIDE DEF j
  <1>5. /\ q \in Pools
        /\ q.next = p.next /\ q.prev = p.prev /\ q.aiFreelist = p.aiFreelist
        /\ q.aCtrl[j] = FreeChunk(k)
        /\ \A x : x # j => q.aCtrl[x] = p.aCtrl[x]
    BY <1>1, <1>3, ChunkTypes, CtrlKeeps DEF Open, Lists
  <1>. HIDE DEF q
  <1>6. Lists(q, F)
    <2>1. \A b, l : <<b, l>> \in F => b # j
      BY <1>3
    <2>. QED
      BY <1>1, <1>5, <2>1, CtrlElsewhere DEF Open
  <1>7. Lists(mplite_link(q, j, k), G)
    BY <1>3, <1>5, <1>6, LinkAdds
  <1>8. Marked(mplite_link(q, j, k), U)
    <2>1. mplite_link(q, j, k).aCtrl = q.aCtrl
      BY <1>3, <1>5, LinkKeeps
    <2>2. \A b, l : <<b, l>> \in U => b # j
      BY <1>3
    <2>. QED
      BY <1>1, <1>5, <2>1, <2>2 DEF Open, Marked
  <1>9. Coalescent(G)
    <2>1. ASSUME NEW b, NEW l, <<b, l>> \in G, l + 1 \in Logs, <<Buddy(b, l), l>> \in G
          PROVE  FALSE
      <3>1. CASE b = j /\ l = k
        BY <1>3, <1>4, <2>1, <3>1
      <3>2. CASE <<b, l>> \in F /\ <<Buddy(b, l), l>> \in F
        BY <1>1, <2>1, <3>2, Zenon DEF Open, Coalescent
      <3>3. CASE <<b, l>> \in F /\ Buddy(b, l) = j /\ l = k
        <4>1. Aligned(b, l)
          BY <1>3, <3>3 DEF Tiles
        <4>2. Buddy(j, l) = b
          BY <3>3, <4>1, BuddyPair
        <4>. QED
          BY <1>3, <1>4, <3>3, <4>2
      <3>. QED
        BY <2>1, <3>1, <3>2, <3>3
    <2>. HIDE DEF G
    <2>. QED
      BY <2>1 DEF Coalescent
  <1>10. (G \cup U) \cup {<<i, k>>} = (T \cup {<<j, k>>}) \cup {<<i, k>>}
    OBVIOUS
  <1>11. <<i, k>> \notin G \cup U
    BY <1>3, <1>4
  <1>12. CutOff(p, i, k) = mplite_link(q, j, k)
    BY DEF CutOff, q, j
  <1>. HIDE DEF G, T
  <1>13. Tiles((G \cup U) \cup {<<i, k>>})
    BY <1>3, <1>10
  <1>14. Open(mplite_link(q, j, k), G, U, i, k)
    BY <1>7, <1>8, <1>9, <1>11, <1>13 DEF Open
  <1>. QED
    BY <1>12, <1>14

(* What is left in the end is the chunk handed out.                        *)
LEMMA HandedOut ==
    ASSUME NEW p, NEW F, NEW U, NEW i, NEW l, Open(p, F, U, i, l)
    PROVE  Good([p EXCEPT !.aCtrl[i] = UsedChunk(l)], F, U \cup {<<i, l>>})
  <1>. DEFINE q == [p EXCEPT !.aCtrl[i] = UsedChunk(l)]
  <1>1. i \in Atoms /\ l \in Logs /\ \A k : <<i, k>> \notin F /\ <<i, k>> \notin U
    BY OpenAlone
  <1>2. /\ q \in Pools
        /\ q.next = p.next /\ q.prev = p.prev /\ q.aiFreelist = p.aiFreelist
        /\ q.aCtrl[i] = UsedChunk(l)
        /\ \A x : x # i => q.aCtrl[x] = p.aCtrl[x]
    BY <1>1, ChunkTypes, CtrlKeeps DEF Open, Lists
  <1>. HIDE DEF q
  <1>3. Lists(q, F)
    <2>1. \A b, k : <<b, k>> \in F => b # i
      BY <1>1
    <2>. QED
      BY <1>2, <2>1, CtrlElsewhere DEF Open
  <1>4. Marked(q, U \cup {<<i, l>>})
    BY <1>1, <1>2 DEF Open, Marked
  <1>5. (F \cup U) \cup {<<i, l>>} = F \cup (U \cup {<<i, l>>})
    OBVIOUS
  <1>. QED
    BY <1>3, <1>4, <1>5 DEF Open, Good, q

LEMMA SplitGood ==
    ASSUME NEW p, NEW F, NEW U, NEW i, NEW from \in Logs, NEW to \in Logs, to <= from,
           Open(p, F, U, i, from)
    PROVE  \E H : Good(Split(p, i, from, to), H, U \cup {<<i, to>>})
  <1>. DEFINE V == Pools
              G == [k \in to..(from - 1) |-> [c \in V |-> CutOff(c, i, k)]]
  <1>1. to \in Nat /\ from \in Nat /\ to..from \subseteq Logs
    BY Widths DEF Logs
  <1>2. i \in Nat /\ i + 2 ^ from <= nBlock /\ p \in V
    BY OpenAlone, Lengths DEF Open, Lists
  <1>3. \A k \in to..(from - 1) : /\ k \in Logs /\ k + 1 \in Logs
                                  /\ k \in to..from /\ k + 1 \in to..from
                                  /\ i + 2 ^ k \in Atoms
    <2>. SUFFICES ASSUME NEW k \in to..(from - 1)
                  PROVE  /\ k \in Logs /\ k + 1 \in Logs
                         /\ k \in to..from /\ k + 1 \in to..from
                         /\ i + 2 ^ k \in Atoms
      OBVIOUS
    <2>1. k \in to..from /\ k + 1 \in to..from /\ k \in Nat /\ k < from
      BY <1>1
    <2>2. 2 * 2 ^ k <= 2 ^ from /\ 2 ^ k \in Nat \ {0} /\ 2 ^ from \in Nat
      BY <1>1, <2>1, PowersGrow, PowerPositive
    <2>3. i + 2 ^ k < nBlock /\ i + 2 ^ k \in Nat
      BY <1>2, <2>2, Widths
    <2>. QED
      BY <1>1, <2>1, <2>3, Widths DEF Atoms
  <1>4. G \in [to..(from - 1) -> [V -> V]]
    <2>1. ASSUME NEW k \in to..(from - 1), NEW c \in V
          PROVE  CutOff(c, i, k) \in V
      <3>. DEFINE j == i + 2 ^ k
                  q == [c EXCEPT !.aCtrl[j] = FreeChunk(k)]
      <3>1. j \in Atoms /\ k \in Logs
        BY <1>3
      <3>. HIDE DEF j
      <3>2. q \in Pools
        BY <3>1, ChunkTypes, CtrlKeeps
      <3>. HIDE DEF q
      <3>3. mplite_link(q, j, k) \in Pools
        BY <3>1, <3>2, LinkKeeps
      <3>. QED
        BY <3>3 DEF CutOff, q, j
    <2>. HIDE DEF V
    <2>. QED
      BY <2>1
  <1>5. PICK f : f \in Descents(to, from, V, p, G)
    <2>. HIDE DEF V, G
    <2>1. Descents(to, from, V, p, G) # {}
      BY <1>1, <1>2, <1>4, DescentExists, Zenon
    <2>. QED
      BY <2>1
  <1>6. f \in [to..from -> V] /\ f[from] = p /\ \A k \in to..(from - 1) : f[k] = CutOff(f[k + 1], i, k)
    <2>1. f \in [to..from -> V] /\ f[from] = p /\ \A k \in to..(from - 1) : f[k] = G[k][f[k + 1]]
      BY <1>5 DEF Descents
    <2>. HIDE DEF V
    <2>. QED
      BY <1>3, <2>1
  <1>. DEFINE cut[k \in to..from] ==
                  IF k = from THEN p
                  ELSE mplite_link([cut[k + 1] EXCEPT !.aCtrl[i + 2 ^ k] = FreeChunk(k)],
                                   i + 2 ^ k, k)
  <1>7. f = [k \in to..from |->
                IF k = from THEN p
                ELSE mplite_link([f[k + 1] EXCEPT !.aCtrl[i + 2 ^ k] = FreeChunk(k)],
                                 i + 2 ^ k, k)]
    <2>1. \A k \in to..from : k # from => k \in to..(from - 1)
      BY <1>1
    <2>. HIDE DEF V
    <2>. QED
      BY <1>6, <2>1 DEF CutOff
  <1>8. cut = [k \in to..from |->
                IF k = from THEN p
                ELSE mplite_link([cut[k + 1] EXCEPT !.aCtrl[i + 2 ^ k] = FreeChunk(k)],
                                 i + 2 ^ k, k)]
    BY <1>7
  <1>9. Split(p, i, from, to) = [cut[to] EXCEPT !.aCtrl[i] = UsedChunk(to)]
    BY DEF Split
  <1>. HIDE DEF cut
  <1>10. \A k \in to..(from - 1) : cut[k] = CutOff(cut[k + 1], i, k)
    <2>1. \A k \in to..(from - 1) : k \in to..from /\ k # from
      BY <1>1
    <2>. QED
      BY <1>8, <2>1 DEF CutOff
  <1>11. cut[from] = p
    BY <1>1, <1>8
  <1>12. \E H : Open(cut[to], H, U, i, to)
    <2>. DEFINE S == {k \in to..from : \E H : Open(cut[k], H, U, i, k)}
    <2>1. from \in S
      BY <1>1, <1>11
    <2>2. ASSUME NEW k \in to..(from - 1), k + 1 \in S
          PROVE  k \in S
      <3>1. \E H : Open(cut[k + 1], H, U, i, k + 1)
        BY <2>2
      <3>2. \E H : Open(CutOff(cut[k + 1], i, k), H, U, i, k)
        BY <1>3, <3>1, CutOffOpen
      <3>. QED
        BY <1>3, <1>10, <3>2
    <2>. HIDE DEF S
    <2>3. to..from \subseteq S
      BY <1>1, <2>1, <2>2, DescentInduction
    <2>4. to \in to..from
      BY <1>1
    <2>. QED
      BY <2>3, <2>4 DEF S
  <1>13. PICK H : Open(cut[to], H, U, i, to)
    BY <1>12
  <1>. QED
    BY <1>9, <1>13, HandedOut

(* The chunk taken off a list, before it is cut.                           *)
LEMMA UnlinkOpens ==
    ASSUME NEW p, NEW F, NEW U, Good(p, F, U), NEW i, NEW l, <<i, l>> \in F
    PROVE  Open(mplite_unlink(p, i, l), F \ {<<i, l>>}, U, i, l)
  <1>. DEFINE q == mplite_unlink(p, i, l)
              G == F \ {<<i, l>>}
  <1>1. i \in Atoms /\ l \in Logs /\ p \in Pools
    BY DEF Good, Lists, Linked
  <1>2. Lists(q, G)
    BY UnlinkRemoves DEF Good
  <1>3. q.aCtrl = p.aCtrl
    BY <1>1, UnlinkKeeps
  <1>. HIDE DEF q
  <1>4. Marked(q, U)
    BY <1>3 DEF Good, Marked
  <1>5. Coalescent(G)
    BY DEF Good, Coalescent
  <1>6. <<i, l>> \notin U
    BY FreeNotUsed DEF Good
  <1>7. (G \cup U) \cup {<<i, l>>} = F \cup U /\ <<i, l>> \notin G \cup U
    BY <1>6
  <1>. HIDE DEF G
  <1>. QED
    BY <1>2, <1>4, <1>5, <1>7 DEF Open, Good, q, G

Takes(t, U, s, n) ==
    /\ \E H : Good(t.pool, H, U \cup {<<t.i, LogFor(n)>>})
    /\ t.i \in Atoms /\ LogFor(n) \in Logs
    /\ \A k : <<t.i, k>> \notin U
    /\ t.chunk = [size |-> n, log |-> LogFor(n)]
    /\ t.stat = CountOut(Asked(s, n), szAtom * 2 ^ LogFor(n))

LEMMA TakenGood ==
    ASSUME NEW p, NEW F, NEW U, Good(p, F, U), NEW s, NEW n \in Int, Serves(p, n)
    PROVE  Takes(TakenFrom(p, s, n), U, s, n)
  <1>. DEFINE l == LogFor(n)
              bin == Min(Usable(p, l))
              i == FirstFree(p, bin)
              q == mplite_unlink(p, i, bin)
              t == TakenFrom(p, s, n)
  <1>1. l \in Logs /\ l \in Nat
    BY LogForLeast, Lengths DEF Serves
  <1>2. bin \in Usable(p, l)
    <2>1. Usable(p, l) # {}
      BY DEF Serves
    <2>2. Usable(p, l) \in SUBSET Nat
      BY <1>1, Widths DEF Usable
    <2>. HIDE DEF l
    <2>. QED
      BY <2>1, <2>2, MinIsLeast
  <1>3. bin \in Logs /\ l <= bin /\ p.aiFreelist[bin] # Nil
    BY <1>1, <1>2, Widths DEF Usable, Logs
  <1>. HIDE DEF bin, l
  <1>4. <<i, bin>> \in F
    BY <1>3, FirstFreeIsFree DEF Good
  <1>. HIDE DEF i
  <1>5. Open(q, F \ {<<i, bin>>}, U, i, bin)
    BY <1>4, UnlinkOpens
  <1>6. i \in Atoms /\ \A k : <<i, k>> \notin U
    BY <1>5, OpenAlone
  <1>. HIDE DEF q
  <1>7. \E H : Good(Split(q, i, bin, l), H, U \cup {<<i, l>>})
    BY <1>1, <1>3, <1>5, SplitGood
  <1>8. /\ t.i = i /\ t.pool = Split(q, i, bin, l) /\ t.chunk = [size |-> n, log |-> l]
        /\ t.stat = CountOut(Asked(s, n), szAtom * 2 ^ l)
    BY DEF TakenFrom, l, bin, i, q
  <1>. HIDE DEF t
  <1>. QED
    BY <1>1, <1>6, <1>7, <1>8 DEF t, l, Takes

------------------------------------------------------------------------------
(* mplite_free.                                                            *)

(* The chunk that the merge loop holds, and one round of the loop.         *)
Merging(U) ==
    {c \in [p : Pools, b : Atoms, l : Logs] :
        /\ \E F : Open(c.p, F, U, c.b, c.l)
        /\ c.p.aCtrl[c.b] = FreeChunk(c.l)}

Joinable(c) ==
    /\ c.l < MPLITE_LOGMAX
    /\ Buddy(c.b, c.l) + 2 ^ c.l <= nBlock
    /\ c.p.aCtrl[Buddy(c.b, c.l)] = FreeChunk(c.l)

Joined(c) ==
    LET d == Buddy(c.b, c.l)
        low == Min({c.b, d})
        high == Max({c.b, d})
    IN [p |-> [mplite_unlink(c.p, d, c.l) EXCEPT
                  !.aCtrl[low] = FreeChunk(c.l + 1),
                  !.aCtrl[high] = UsedChunk(0)],
        b |-> low,
        l |-> c.l + 1]

LEMMA JoinKeeps ==
    ASSUME NEW U, NEW c \in Merging(U), Joinable(c)
    PROVE  Joined(c) \in Merging(U)
  <1>. DEFINE p == c.p
              b == c.b
              l == c.l
              s == 2 ^ l
              d == Buddy(b, l)
  <1>1. p \in Pools /\ b \in Atoms /\ l \in Logs /\ p.aCtrl[b] = FreeChunk(l)
    BY DEF Merging
  <1>2. PICK F : Open(p, F, U, b, l)
    BY DEF Merging
  <1>3. l < MPLITE_LOGMAX /\ d + s <= nBlock /\ p.aCtrl[d] = FreeChunk(l)
    BY DEF Joinable
  <1>4. Joined(c) = [p |-> [mplite_unlink(p, d, l) EXCEPT
                               !.aCtrl[Min({b, d})] = FreeChunk(l + 1),
                               !.aCtrl[Max({b, d})] = UsedChunk(0)],
                     b |-> Min({b, d}), l |-> l + 1]
    BY DEF Joined
  <1>. HIDE DEF p, b, l
  <1>5. l + 1 \in Logs /\ s \in Nat \ {0} /\ 2 ^ (l + 1) = 2 * s /\ b \in Nat /\ 0 \in Logs
    BY <1>1, <1>3, Lengths, Widths DEF Logs
  <1>6. Aligned(b, l) /\ \A k : <<b, k>> \notin F /\ <<b, k>> \notin U
    BY <1>2, OpenAlone
  <1>7. PICK low \in Nat :
               /\ (b = low /\ d = low + s) \/ (b = low + s /\ d = low)
               /\ \E e \in Nat : low = e * (2 * s)
    BY <1>1, <1>6, BuddyPair
  <1>. DEFINE high == low + s
  <1>8. Aligned(low, l + 1)
    BY <1>5, <1>7 DEF Aligned
  <1>9. d \in Nat /\ d \in Atoms /\ d # b
    <2>1. d \in Nat /\ d # b
      BY <1>5, <1>7
    <2>. QED
      BY <1>1, <1>3, <2>1, Lengths
  <1>10. {b, d} = {low, high} /\ low \in Atoms /\ high \in Atoms /\ low # high
    BY <1>1, <1>5, <1>7, <1>9
  <1>11. Min({b, d}) = low /\ Max({b, d}) = high
    <2>1. high \in Nat /\ low <= high
      BY <1>5, <1>7
    <2>. HIDE DEF high, d
    <2>. QED
      BY <1>7, <1>10, <2>1, MinOfTwo, MaxOfTwo
  <1>. HIDE DEF d
  <1>. DEFINE T == (F \cup U) \cup {<<b, l>>}
  <1>12. Tiles(T) /\ <<b, l>> \in T
    BY <1>2 DEF Open
  <1>13. <<d, l>> \in F
    <2>1. PICK x, k : <<x, k>> \in T /\ x <= d /\ d < x + 2 ^ k
      BY <1>9, <1>12 DEF Tiles
    <2>2. x = d /\ k <= l
      <3>. HIDE DEF T, s
      <3>. QED
        BY <1>3, <1>12, <2>1, BuddyStarts DEF d, s
    <2>3. <<d, k>> \in F \cup U
      BY <1>9, <2>1, <2>2
    <2>4. <<d, k>> \notin U
      <3>1. <<d, k>> \in U => p.aCtrl[d] = UsedChunk(k)
        BY <1>2, Zenon DEF Open, Marked
      <3>. QED
        BY <1>3, <3>1 DEF UsedChunk, FreeChunk
    <2>5. p.aCtrl[d] = FreeChunk(k)
      <3>1. <<d, k>> \in F
        BY <2>3, <2>4
      <3>. QED
        BY <1>2, <3>1, Zenon DEF Open, Lists, Linked
    <2>6. k = l
      BY <1>3, <2>5 DEF FreeChunk
    <2>. QED
      BY <2>3, <2>4, <2>6
  <1>. DEFINE q == mplite_unlink(p, d, l)
              G == F \ {<<d, l>>}
              r1 == [q EXCEPT !.aCtrl[low] = FreeChunk(l + 1)]
              r == [r1 EXCEPT !.aCtrl[high] = UsedChunk(0)]
  <1>14. Lists(q, G) /\ q.aCtrl = p.aCtrl /\ q \in Pools
    BY <1>1, <1>2, <1>9, <1>13, UnlinkRemoves, UnlinkKeeps DEF Open
  <1>15. Joined(c) = [p |-> r, b |-> low, l |-> l + 1]
    <2>1. r = [q EXCEPT !.aCtrl[low] = FreeChunk(l + 1), !.aCtrl[high] = UsedChunk(0)]
      BY DEF r, r1
    <2>. QED
      BY <1>4, <1>11, <2>1
  <1>. HIDE DEF q, high
  <1>16. /\ r1 \in Pools
         /\ r1.next = q.next /\ r1.prev = q.prev /\ r1.aiFreelist = q.aiFreelist
         /\ r1.aCtrl[low] = FreeChunk(l + 1)
         /\ \A x : x # low => r1.aCtrl[x] = q.aCtrl[x]
    BY <1>5, <1>10, <1>14, ChunkTypes, CtrlKeeps
  <1>. HIDE DEF r1
  <1>17. /\ r \in Pools
         /\ r.next = q.next /\ r.prev = q.prev /\ r.aiFreelist = q.aiFreelist
         /\ r.aCtrl[low] = FreeChunk(l + 1)
         /\ \A x : x # low /\ x # high => r.aCtrl[x] = q.aCtrl[x]
    <2>1. /\ r \in Pools
          /\ r.next = r1.next /\ r.prev = r1.prev /\ r.aiFreelist = r1.aiFreelist
          /\ \A x : x # high => r.aCtrl[x] = r1.aCtrl[x]
      BY <1>5, <1>10, <1>16, ChunkTypes, CtrlKeeps
    <2>. HIDE DEF r
    <2>. QED
      BY <1>10, <1>16, <2>1
  <1>. HIDE DEF r
  <1>18. \A x, k : <<x, k>> \in G => x # low /\ x # high
    <2>1. \A x, k : <<x, k>> \in G => x # b
      BY <1>6
    <2>2. \A k : <<d, k>> \in F => k = l
      BY <1>2, <1>13, OneLog DEF Open
    <2>3. \A x, k : <<x, k>> \in G => x # d
      BY <2>2
    <2>. QED
      BY <1>10, <2>1, <2>3
  <1>19. \A x, k : <<x, k>> \in U => x # low /\ x # high
    <2>1. \A x, k : <<x, k>> \in U => x # b
      BY <1>6
    <2>2. \A x, k : <<x, k>> \in U => x # d
      BY <1>2, <1>13, FreeNotUsed DEF Open
    <2>. QED
      BY <1>10, <2>1, <2>2
  <1>20. Lists(r, G)
    BY <1>14, <1>17, <1>18, CtrlElsewhere
  <1>21. Marked(r, U)
    BY <1>2, <1>14, <1>17, <1>19 DEF Open, Marked
  <1>22. Coalescent(G)
    BY <1>2 DEF Open, Coalescent
  <1>23. Tiles((G \cup U) \cup {<<low, l + 1>>}) /\ <<low, l + 1>> \notin G \cup U
    <2>. DEFINE T0 == G \cup U
    <2>1. <<low, l>> \notin T0 /\ <<high, l>> \notin T0
      BY <1>18, <1>19
    <2>2. T = T0 \cup {<<b, l>>, <<d, l>>}
      BY <1>13
    <2>3. {<<b, l>>, <<d, l>>} = {<<low, l>>, <<high, l>>}
      BY <1>7, <1>10
    <2>4. Tiles(T0 \cup {<<low, l>>, <<high, l>>})
      BY <1>12, <2>2, <2>3
    <2>. HIDE DEF T0, T
    <2>5. Tiles(T0 \cup {<<low, l + 1>>}) /\ <<low, l + 1>> \notin T0
      BY <1>1, <1>5, <1>8, <2>1, <2>4, JoinTiles DEF high
    <2>. QED
      BY <2>5 DEF T0
  <1>24. Open(r, G, U, low, l + 1)
    BY <1>20, <1>21, <1>22, <1>23 DEF Open
  <1>. QED
    BY <1>5, <1>10, <1>15, <1>17, <1>24 DEF Merging

(* The merge loop stops at a chunk that no free buddy is left beside.      *)
LEMMA LinkLast ==
    ASSUME NEW U, NEW c \in Merging(U), ~ Joinable(c)
    PROVE  \E G : Good(mplite_link(c.p, c.b, c.l), G, U)
  <1>. DEFINE p == c.p
              b == c.b
              l == c.l
              q == mplite_link(p, b, l)
  <1>1. p \in Pools /\ b \in Atoms /\ l \in Logs /\ p.aCtrl[b] = FreeChunk(l)
    BY DEF Merging
  <1>2. PICK F : Open(p, F, U, b, l)
    BY DEF Merging
  <1>3. l < MPLITE_LOGMAX /\ Buddy(b, l) + 2 ^ l <= nBlock => p.aCtrl[Buddy(b, l)] # FreeChunk(l)
    BY DEF Joinable
  <1>. HIDE DEF p, b, l
  <1>. DEFINE G == F \cup {<<b, l>>}
  <1>4. Aligned(b, l) /\ \A k : <<b, k>> \notin F /\ <<b, k>> \notin U
    BY <1>2, OpenAlone
  <1>5. Lists(q, G)
    BY <1>1, <1>2, <1>4, LinkAdds DEF Open
  <1>6. q.aCtrl = p.aCtrl
    BY <1>1, LinkKeeps
  <1>. HIDE DEF q
  <1>7. Marked(q, U)
    BY <1>2, <1>6 DEF Open, Marked
  <1>8. G \cup U = (F \cup U) \cup {<<b, l>>}
    OBVIOUS
  <1>9. Tiles(G \cup U)
    BY <1>2, <1>8 DEF Open
  <1>10. Buddy(b, l) # b
    <2>1. \E low \in Nat : \/ b = low /\ Buddy(b, l) = low + 2 ^ l
                           \/ b = low + 2 ^ l /\ Buddy(b, l) = low
      BY <1>1, <1>4, BuddyPair
    <2>2. 2 ^ l \in Nat \ {0}
      BY <1>1, Lengths
    <2>. QED
      BY <2>1, <2>2
  <1>11. l + 1 \in Logs => <<Buddy(b, l), l>> \notin F
    <2>. SUFFICES ASSUME l + 1 \in Logs, <<Buddy(b, l), l>> \in F
                  PROVE  FALSE
      OBVIOUS
    <2>1. p.aCtrl[Buddy(b, l)] = FreeChunk(l)
      BY <1>2, Zenon DEF Open, Lists, Linked
    <2>2. Buddy(b, l) + 2 ^ l <= nBlock
      BY <1>9, TilesTyped
    <2>3. l < MPLITE_LOGMAX
      BY <1>1, Widths DEF Logs
    <2>. QED
      BY <1>3, <2>1, <2>2, <2>3
  <1>12. Coalescent(G)
    <2>1. ASSUME NEW x, NEW k, <<x, k>> \in G, k + 1 \in Logs, <<Buddy(x, k), k>> \in G
          PROVE  FALSE
      <3>1. CASE x = b /\ k = l
        BY <1>10, <1>11, <2>1, <3>1
      <3>2. CASE <<x, k>> \in F /\ <<Buddy(x, k), k>> \in F
        BY <1>2, <2>1, <3>2, Zenon DEF Open, Coalescent
      <3>3. CASE <<x, k>> \in F /\ Buddy(x, k) = b /\ k = l
        <4>1. Aligned(x, k)
          BY <1>9, <3>3 DEF Tiles
        <4>2. Buddy(b, k) = x
          BY <1>1, <3>3, <4>1, BuddyPair
        <4>. QED
          BY <1>11, <2>1, <3>3, <4>2
      <3>. QED
        BY <2>1, <3>1, <3>2, <3>3
    <2>. HIDE DEF G
    <2>. QED
      BY <2>1 DEF Coalescent
  <1>. HIDE DEF G
  <1>13. Good(q, G, U)
    BY <1>5, <1>7, <1>9, <1>12 DEF Good
  <1>. QED
    BY <1>13 DEF q, p, b, l

LEMMA CoalescedGood ==
    ASSUME NEW p, NEW F, NEW U, NEW b, NEW l, Open(p, F, U, b, l), p.aCtrl[b] = FreeChunk(l)
    PROVE  \E G : Good(Coalesced(p, b, l), G, U)
  <1>. DEFINE n == MPLITE_LOGMAX
              V == Merging(U)
              c0 == [p |-> p, b |-> b, l |-> l]
              Round(c) == IF Joinable(c) THEN Joined(c) ELSE c
              H == [k \in 1..n |-> [c \in V |-> Round(c)]]
  <1>1. n \in Nat /\ Logs = 0..n
    BY Widths DEF Logs
  <1>2. c0 \in V
    BY OpenAlone DEF Merging, Open, Lists
  <1>3. \A c \in V : Round(c) \in V
    BY JoinKeeps
  <1>. HIDE DEF V
  <1>4. H \in [1..n -> [V -> V]]
    BY <1>3
  <1>5. PICK f : f \in Ascents(n, V, c0, H)
    <2>. HIDE DEF n, H, c0
    <2>. QED
      BY <1>1, <1>2, <1>4, AscentExists
  <1>6. f \in [0..n -> V] /\ f[0] = c0 /\ \A k \in 1..n : f[k] = Round(f[k - 1])
    <2>1. f \in [0..n -> V] /\ f[0] = c0 /\ \A k \in 1..n : f[k] = H[k][f[k - 1]]
      BY <1>5 DEF Ascents
    <2>2. \A k \in 1..n : k - 1 \in 0..n
      BY <1>1
    <2>. HIDE DEF n, c0, Round
    <2>. QED
      BY <2>1, <2>2
  <1>. DEFINE Joins(c) == /\ c.l < MPLITE_LOGMAX
                          /\ Buddy(c.b, c.l) + 2 ^ c.l <= nBlock
                          /\ c.p.aCtrl[Buddy(c.b, c.l)] = FreeChunk(c.l)
              Join(c) ==
                  LET d == Buddy(c.b, c.l)
                      low == Min({c.b, d})
                      high == Max({c.b, d})
                  IN [p |-> [mplite_unlink(c.p, d, c.l) EXCEPT
                                !.aCtrl[low] = FreeChunk(c.l + 1),
                                !.aCtrl[high] = UsedChunk(0)],
                      b |-> low,
                      l |-> c.l + 1]
              grown[k \in Logs] ==
                  IF k = 0 THEN [p |-> p, b |-> b, l |-> l]
                  ELSE LET c == grown[k - 1] IN IF Joins(c) THEN Join(c) ELSE c
  <1>7. \A c : Joins(c) = Joinable(c) /\ Join(c) = Joined(c)
    BY DEF Joinable, Joined
  <1>. HIDE DEF Joins, Join
  <1>8. f = [k \in Logs |-> IF k = 0 THEN [p |-> p, b |-> b, l |-> l]
                            ELSE LET c == f[k - 1] IN IF Joins(c) THEN Join(c) ELSE c]
    <2>1. f \in [Logs -> V] /\ 0 \in Logs /\ \A k \in Logs : k # 0 => k \in 1..n
      BY <1>1, <1>6
    <2>2. \A k \in Logs : k # 0 => f[k] = IF Joins(f[k - 1]) THEN Join(f[k - 1]) ELSE f[k - 1]
      BY <1>6, <1>7, <2>1
    <2>3. f[0] = [p |-> p, b |-> b, l |-> l]
      BY <1>6
    <2>. QED
      BY <2>1, <2>2, <2>3
  <1>9. grown = [k \in Logs |-> IF k = 0 THEN [p |-> p, b |-> b, l |-> l]
                                ELSE LET c == grown[k - 1] IN IF Joins(c) THEN Join(c) ELSE c]
    BY <1>8
  <1>. DEFINE last == grown[MPLITE_LOGMAX]
  <1>10. Coalesced(p, b, l) = mplite_link(last.p, last.b, last.l)
    BY DEF Coalesced, Joins, Join
  <1>. HIDE DEF grown
  <1>11. grown[0] = c0 /\ \A k \in 1..n : grown[k] = Round(grown[k - 1])
    <2>1. 0 \in Logs /\ \A k \in 1..n : k \in Logs /\ k # 0
      BY <1>1
    <2>. QED
      BY <1>7, <1>9, <2>1
  <1>. DEFINE S == {k \in Nat : k <= n => /\ grown[k] \in V
                                          /\ Joinable(grown[k]) => grown[k].l >= k}
  <1>12. 0 \in S
    <2>1. c0.l \in Nat
      BY OpenAlone, Lengths
    <2>. QED
      BY <1>2, <1>11, <2>1
  <1>13. ASSUME NEW k \in Nat, k \in S
         PROVE  k + 1 \in S
    <2>. SUFFICES ASSUME k + 1 <= n
                  PROVE  /\ grown[k + 1] \in V
                         /\ Joinable(grown[k + 1]) => grown[k + 1].l >= k + 1
      OBVIOUS
    <2>1. grown[k] \in V /\ (Joinable(grown[k]) => grown[k].l >= k)
      BY <1>1, <1>13
    <2>2. grown[k + 1] = Round(grown[k])
      <3>1. k + 1 \in 1..n /\ (k + 1) - 1 = k
        BY <1>1
      <3>. QED
        BY <1>11, <3>1
    <2>3. grown[k + 1] \in V
      BY <1>3, <2>1, <2>2
    <2>4. CASE Joinable(grown[k])
      <3>1. grown[k + 1].l = grown[k].l + 1
        BY <2>2, <2>4 DEF Joined
      <3>2. grown[k].l \in Nat
        BY <2>1, Lengths DEF V, Merging
      <3>. QED
        BY <2>1, <2>3, <2>4, <3>1, <3>2
    <2>5. CASE ~ Joinable(grown[k])
      BY <2>2, <2>3, <2>5
    <2>. QED
      BY <2>4, <2>5
  <1>. HIDE DEF S
  <1>14. n \in S
    BY <1>1, <1>12, <1>13, NatSetInduction
  <1>15. last \in V /\ ~ Joinable(last)
    <2>1. last \in V /\ (Joinable(last) => last.l >= n)
      BY <1>1, <1>14 DEF S
    <2>. HIDE DEF last
    <2>2. last.l \in Nat
      BY <2>1, Lengths DEF V, Merging
    <2>3. Joinable(last) => last.l < n
      BY DEF Joinable
    <2>. QED
      BY <1>1, <2>1, <2>2, <2>3
  <1>. HIDE DEF last
  <1>16. \E G : Good(mplite_link(last.p, last.b, last.l), G, U)
    BY <1>15, LinkLast DEF V
  <1>. QED
    BY <1>10, <1>16

LEMMA ReleasedGood ==
    ASSUME NEW p, NEW F, NEW U, NEW b, NEW l, Good(p, F, U \cup {<<b, l>>}), <<b, l>> \notin U
    PROVE  /\ \E G : Good(Released(p, b), G, U)
           /\ p.aCtrl[b] = UsedChunk(l)
  <1>. DEFINE T == F \cup (U \cup {<<b, l>>})
              m == b + 2 ^ l - 1
  <1>1. Tiles(T) /\ <<b, l>> \in T /\ p \in Pools /\ p.aCtrl[b] = UsedChunk(l)
    BY DEF Good, Lists, Marked
  <1>2. p.aCtrl[b].log = l
    BY <1>1 DEF UsedChunk
  <1>3. b \in Atoms /\ b \in Nat /\ l \in Logs /\ 2 ^ l \in Nat \ {0} /\ b + 2 ^ l <= nBlock
    <2>. HIDE DEF T
    <2>. QED
      BY <1>1, TilesTyped
  <1>4. m \in Atoms /\ m \in Nat /\ b <= m /\ m < b + 2 ^ l
    BY <1>3, Widths DEF Atoms
  <1>5. \A x, k : <<x, k>> \in F \cup U => x # b
    <2>1. \A k : <<b, k>> \in F => FALSE
      BY FreeNotUsed DEF Good
    <2>2. \A k : <<b, k>> \in U => k = l
      BY <1>1, OneStart
    <2>. QED
      BY <2>1, <2>2
  <1>. HIDE DEF m
  <1>6. \A x, k : <<x, k>> \in F \cup U => x # m
    <2>. SUFFICES ASSUME NEW k, <<m, k>> \in F \cup U
                  PROVE  FALSE
      OBVIOUS
    <2>1. <<m, k>> \in T
      OBVIOUS
    <2>. HIDE DEF T
    <2>2. 2 ^ k \in Nat \ {0}
      BY <1>1, <2>1, TilesTyped
    <2>3. Meets(m, k, b, l)
      BY <1>3, <1>4, <2>2 DEF Meets
    <2>4. m = b
      BY <1>1, <2>1, <2>3, Zenon DEF Tiles
    <2>. QED
      BY <1>5, <2>4
  <1>. DEFINE c == [p.aCtrl[m] EXCEPT !.free = TRUE]
              p1 == [p EXCEPT !.aCtrl[m] = c]
              q == [p1 EXCEPT !.aCtrl[b] = FreeChunk(l)]
  <1>7. Released(p, b) = Coalesced(q, b, l)
    BY <1>2 DEF Released, m
  <1>8. c \in Ctrl
    BY <1>1, <1>4, ZenonT(30) DEF Pools, Ctrl
  <1>. HIDE DEF c
  <1>9. /\ p1 \in Pools
        /\ p1.next = p.next /\ p1.prev = p.prev /\ p1.aiFreelist = p.aiFreelist
        /\ \A x : x # m => p1.aCtrl[x] = p.aCtrl[x]
    BY <1>1, <1>4, <1>8, CtrlKeeps
  <1>. HIDE DEF p1
  <1>10. /\ q \in Pools
         /\ q.next = p1.next /\ q.prev = p1.prev /\ q.aiFreelist = p1.aiFreelist
         /\ q.aCtrl[b] = FreeChunk(l)
         /\ \A x : x # b => q.aCtrl[x] = p1.aCtrl[x]
    BY <1>3, <1>9, ChunkTypes, CtrlKeeps
  <1>. HIDE DEF q
  <1>11. Lists(q, F)
    <2>1. \A x, k : <<x, k>> \in F => q.aCtrl[x] = p.aCtrl[x]
      BY <1>5, <1>6, <1>9, <1>10
    <2>. QED
      BY <1>9, <1>10, <2>1, CtrlElsewhere DEF Good
  <1>12. Marked(q, U)
    <2>1. \A x, k : <<x, k>> \in U => q.aCtrl[x] = p.aCtrl[x]
      BY <1>5, <1>6, <1>9, <1>10
    <2>. QED
      BY <2>1 DEF Good, Marked
  <1>13. Tiles((F \cup U) \cup {<<b, l>>})
    <2>1. T = (F \cup U) \cup {<<b, l>>}
      OBVIOUS
    <2>. QED
      BY <1>1, <2>1
  <1>14. Open(q, F, U, b, l)
    BY <1>5, <1>11, <1>12, <1>13 DEF Open, Good
  <1>. QED
    BY <1>1, <1>7, <1>10, <1>14, CoalescedGood

------------------------------------------------------------------------------
(* The statistics count the chunks handed out and the atoms under them.    *)
Covered(U) == {x \in Atoms : \E b, l : <<b, l>> \in U /\ b <= x /\ x < b + 2 ^ l}

LEMMA CoveredCounts ==
    ASSUME NEW U
    PROVE  IsFiniteSet(Covered(U)) /\ Cardinality(Covered(U)) \in 0..nBlock
  <1>1. IsFiniteSet(Atoms) /\ Cardinality(Atoms) = nBlock
    BY FS_Interval, Widths DEF Atoms
  <1>2. Covered(U) \in SUBSET Atoms
    BY DEF Covered
  <1>3. IsFiniteSet(Covered(U)) /\ Cardinality(Covered(U)) <= nBlock
    BY <1>1, <1>2, FS_Subset
  <1>. QED
    BY <1>3, FS_CardinalityType, Widths

CoversMore(V, U, l) == Cardinality(Covered(V)) = Cardinality(Covered(U)) + 2 ^ l

LEMMA CoveredAdds ==
    ASSUME NEW F, NEW U, NEW b, NEW l, Tiles(F \cup (U \cup {<<b, l>>})), <<b, l>> \notin U
    PROVE  CoversMore(U \cup {<<b, l>>}, U, l)
  <1>. DEFINE T == F \cup (U \cup {<<b, l>>})
              n == 2 ^ l
              e == (b + n) - 1
              I == b..e
              C == Covered(U)
              D == Covered(U \cup {<<b, l>>})
  <1>1. Tiles(T) /\ <<b, l>> \in T /\ U \subseteq T
    OBVIOUS
  <1>. HIDE DEF T
  <1>2. b \in Nat /\ n \in Nat \ {0} /\ b + n <= nBlock
    BY <1>1, TilesTyped
  <1>3. IsFiniteSet(I) /\ Cardinality(I) = n
    <2>1. e \in Int /\ b \in Int /\ ~ (b > e) /\ (e - b) + 1 = n
      BY <1>2
    <2>. HIDE DEF e, n
    <2>. QED
      BY <2>1, FS_Interval
  <1>4. I = {x \in Atoms : b <= x /\ x < b + n}
    BY <1>2, Widths DEF Atoms
  <1>. HIDE DEF I
  <1>5. D = C \cup I
    BY <1>4 DEF Covered
  <1>6. C \cap I = {}
    <2>. SUFFICES ASSUME NEW x \in C, x \in I
                  PROVE  FALSE
      OBVIOUS
    <2>1. x \in Atoms /\ x \in Nat /\ b <= x /\ x < b + n
      BY <1>4, Lengths
    <2>2. PICK c, k : <<c, k>> \in U /\ c <= x /\ x < c + 2 ^ k
      BY DEF Covered
    <2>3. c \in Nat /\ 2 ^ k \in Nat /\ <<c, k>> \in T
      BY <1>1, <2>2, TilesTyped
    <2>4. Meets(c, k, b, l)
      BY <1>2, <2>1, <2>2, <2>3 DEF Meets
    <2>5. c = b /\ k = l
      BY <1>1, <2>3, <2>4, Zenon DEF Tiles
    <2>. QED
      BY <2>2, <2>5
  <1>7. IsFiniteSet(C) /\ Cardinality(C) \in Nat
    BY CoveredCounts
  <1>. HIDE DEF C, D, n
  <1>8. Cardinality(C \cup I) = Cardinality(C) + Cardinality(I) - Cardinality(C \cap I)
    BY <1>3, <1>7, FS_Union
  <1>9. Cardinality(C \cap I) = 0
    BY <1>6, FS_EmptySet
  <1>10. Cardinality(D) = Cardinality(C) + n
    BY <1>2, <1>3, <1>5, <1>7, <1>8, <1>9
  <1>. QED
    BY <1>10 DEF C, D, n, CoversMore

Owned(h) == {<<b, h[b].log>> : b \in DOMAIN h}

Books(s, h) ==
    /\ s \in [currentOut : Nat, currentCount : Nat, maxOut : Nat, maxCount : Nat,
              maxRequest : Nat]
    /\ s.currentCount = Cardinality(DOMAIN h)
    /\ s.currentOut = szAtom * Cardinality(Covered(Owned(h)))
    /\ s.currentOut <= s.maxOut /\ s.maxOut <= szAtom * nBlock
    /\ s.currentCount <= s.maxCount /\ s.maxCount <= nBlock
    /\ s.maxRequest < 2 ^ IntBits

LEMMA CountedOut ==
    ASSUME NEW s, NEW h, Books(s, h), NEW g, NEW F, NEW b, NEW l,
           DOMAIN h \subseteq Atoms, b \in Atoms, b \notin DOMAIN h, DOMAIN g = DOMAIN h \cup {b},
           Owned(g) = Owned(h) \cup {<<b, l>>}, <<b, l>> \notin Owned(h),
           Tiles(F \cup Owned(g))
    PROVE  Books(CountOut(s, szAtom * 2 ^ l), g)
  <1>. DEFINE n == 2 ^ l
              C == Cardinality(Covered(Owned(h)))
              t == CountOut(s, szAtom * n)
  <1>2. n \in Nat
    <2>1. <<b, l>> \in F \cup Owned(g)
      OBVIOUS
    <2>. QED
      BY <2>1, TilesTyped
  <1>1. C \in 0..nBlock /\ C + n \in 0..nBlock /\ Cardinality(Covered(Owned(g))) = C + n
    <2>1. Tiles(F \cup (Owned(h) \cup {<<b, l>>}))
      OBVIOUS
    <2>2. Cardinality(Covered(Owned(h) \cup {<<b, l>>})) = C + n
      <3>1. CoversMore(Owned(h) \cup {<<b, l>>}, Owned(h), l)
        BY <2>1, CoveredAdds
      <3>. QED
        BY <3>1 DEF CoversMore
    <2>3. Cardinality(Covered(Owned(g))) = C + n
      BY <2>2
    <2>. QED
      BY <1>2, <2>3, CoveredCounts, Widths
  <1>3. Cardinality(DOMAIN h) \in Nat /\ Cardinality(DOMAIN g) = Cardinality(DOMAIN h) + 1
        /\ Cardinality(DOMAIN g) <= nBlock
    <2>1. IsFiniteSet(Atoms) /\ Cardinality(Atoms) = nBlock
      BY FS_Interval, Widths, SMTT(30) DEF Atoms
    <2>2. DOMAIN h \in SUBSET Atoms /\ DOMAIN g \in SUBSET Atoms
      OBVIOUS
    <2>3. IsFiniteSet(DOMAIN h) /\ Cardinality(DOMAIN g) <= nBlock
      BY <2>1, <2>2, FS_Subset
    <2>. QED
      BY <2>3, FS_CardinalityType, FS_AddElement
  <1>. HIDE DEF C, n
  <1>4. /\ szAtom * (C + n) = szAtom * C + szAtom * n
        /\ szAtom * (C + n) <= szAtom * nBlock
        /\ szAtom * C \in Nat /\ szAtom * n \in Nat /\ szAtom * nBlock \in Nat
    <2>1. \A x \in Nat, c \in Nat, m \in Nat, d \in Nat :
             c + m <= d => /\ x * (c + m) = x * c + x * m /\ x * (c + m) <= x * d
                           /\ x * c \in Nat /\ x * m \in Nat /\ x * d \in Nat
      BY Z3
    <2>. QED
      BY <1>1, <1>2, <2>1, Widths
  <1>. DEFINE w == szAtom * n
              m == szAtom * nBlock
  <1>5. s.currentOut = szAtom * C
    BY DEF Books, C
  <1>6. /\ t.currentCount = s.currentCount + 1
        /\ t.currentOut = s.currentOut + w
        /\ t.maxCount = Larger(s.maxCount, s.currentCount + 1)
        /\ t.maxOut = Larger(s.maxOut, s.currentOut + w)
        /\ t.maxRequest = s.maxRequest
        /\ t = [currentOut |-> t.currentOut, currentCount |-> t.currentCount,
                maxOut |-> t.maxOut, maxCount |-> t.maxCount, maxRequest |-> t.maxRequest]
    <2>1. s \in [currentOut : Nat, currentCount : Nat, maxOut : Nat, maxCount : Nat,
                 maxRequest : Nat]
      BY DEF Books
    <2>2. t = [s EXCEPT !.currentCount = s.currentCount + 1,
                        !.currentOut = s.currentOut + w,
                        !.maxCount = Larger(s.maxCount, s.currentCount + 1),
                        !.maxOut = Larger(s.maxOut, s.currentOut + w)]
      BY <2>1 DEF CountOut
    <2>. HIDE DEF t, w
    <2>. QED
      BY <2>1, <2>2
  <1>. HIDE DEF t, w, m
  <1>7. /\ w \in Nat /\ m \in Nat /\ s.currentOut + w <= m
        /\ szAtom * (C + n) = s.currentOut + w
    BY <1>4, <1>5 DEF w, m
  <1>8. /\ s.currentOut \in Nat /\ s.currentCount \in Nat /\ s.maxOut \in Nat
        /\ s.maxCount \in Nat /\ s.maxRequest \in Nat
        /\ s.maxOut <= m /\ s.maxCount <= nBlock /\ s.maxRequest < 2 ^ IntBits
        /\ s.currentCount = Cardinality(DOMAIN h)
    BY DEF Books, m
  <1>9. /\ t.maxCount \in Nat /\ t.currentCount <= t.maxCount /\ t.maxCount <= nBlock
        /\ t.maxOut \in Nat /\ t.currentOut <= t.maxOut /\ t.maxOut <= m
        /\ t.currentOut \in Nat /\ t.currentCount \in Nat
        /\ t.currentCount = Cardinality(DOMAIN g)
        /\ t.currentOut = szAtom * Cardinality(Covered(Owned(g)))
    BY <1>1, <1>3, <1>6, <1>7, <1>8, Widths DEF Larger
  <1>10. Books(t, g)
    BY <1>6, <1>8, <1>9 DEF Books, m
  <1>. QED
    BY <1>10 DEF t, n

LEMMA CountedIn ==
    ASSUME NEW s, NEW h, Books(s, h), NEW g, NEW F, NEW b, NEW l,
           DOMAIN h \subseteq Atoms, b \in DOMAIN h, DOMAIN g = DOMAIN h \ {b},
           Owned(h) = Owned(g) \cup {<<b, l>>}, <<b, l>> \notin Owned(g),
           Tiles(F \cup Owned(h))
    PROVE  Books(CountIn(s, szAtom * 2 ^ l), g)
  <1>. DEFINE n == 2 ^ l
              C == Cardinality(Covered(Owned(g)))
              t == CountIn(s, szAtom * n)
  <1>1. n \in Nat
    <2>1. <<b, l>> \in F \cup Owned(h)
      OBVIOUS
    <2>. QED
      BY <2>1, TilesTyped
  <1>2. C \in Nat /\ C + n <= nBlock /\ Cardinality(Covered(Owned(h))) = C + n
    <2>1. Tiles(F \cup (Owned(g) \cup {<<b, l>>}))
      OBVIOUS
    <2>2. Cardinality(Covered(Owned(g) \cup {<<b, l>>})) = C + n
      <3>1. CoversMore(Owned(g) \cup {<<b, l>>}, Owned(g), l)
        BY <2>1, CoveredAdds
      <3>. QED
        BY <3>1 DEF CoversMore
    <2>3. Cardinality(Covered(Owned(h))) = C + n
      BY <2>2
    <2>. QED
      BY <1>1, <2>3, CoveredCounts, Widths
  <1>3. Cardinality(DOMAIN g) \in Nat /\ Cardinality(DOMAIN h) = Cardinality(DOMAIN g) + 1
    <2>1. IsFiniteSet(Atoms)
      BY FS_Interval, Widths DEF Atoms
    <2>2. DOMAIN h \in SUBSET Atoms /\ DOMAIN g \in SUBSET Atoms
      OBVIOUS
    <2>3. IsFiniteSet(DOMAIN h) /\ IsFiniteSet(DOMAIN g)
      BY <2>1, <2>2, FS_Subset
    <2>4. Cardinality(DOMAIN g) \in Nat /\ Cardinality(DOMAIN h) \in Nat
      BY <2>3, FS_CardinalityType
    <2>. QED
      BY <2>3, <2>4, FS_RemoveElement
  <1>. HIDE DEF C, n
  <1>. DEFINE w == szAtom * n
              x == szAtom * C
  <1>4. w \in Nat /\ x \in Nat /\ szAtom * (C + n) = x + w
    <2>1. \A y \in Nat, c \in Nat, m \in Nat :
             y * (c + m) = y * c + y * m /\ y * c \in Nat /\ y * m \in Nat
      BY Z3
    <2>. QED
      BY <1>1, <1>2, <2>1, Widths
  <1>5. s.currentOut = szAtom * (C + n)
    BY <1>2 DEF Books
  <1>6. /\ t.currentCount = s.currentCount - 1
        /\ t.currentOut = s.currentOut - w
        /\ t.maxCount = s.maxCount /\ t.maxOut = s.maxOut /\ t.maxRequest = s.maxRequest
        /\ t = [currentOut |-> t.currentOut, currentCount |-> t.currentCount,
                maxOut |-> t.maxOut, maxCount |-> t.maxCount, maxRequest |-> t.maxRequest]
    <2>1. s \in [currentOut : Nat, currentCount : Nat, maxOut : Nat, maxCount : Nat,
                 maxRequest : Nat]
      BY DEF Books
    <2>2. t = [s EXCEPT !.currentCount = s.currentCount - 1, !.currentOut = s.currentOut - w]
      BY <2>1 DEF CountIn
    <2>. HIDE DEF t, w
    <2>. QED
      BY <2>1, <2>2
  <1>. DEFINE m == szAtom * nBlock
  <1>7. /\ s.currentOut = x + w /\ s.currentCount \in Nat /\ s.maxOut \in Nat
        /\ s.maxCount \in Nat /\ s.maxRequest \in Nat
        /\ s.maxOut <= m /\ s.maxCount <= nBlock /\ s.maxRequest < 2 ^ IntBits
        /\ s.currentOut <= s.maxOut /\ s.currentCount <= s.maxCount
        /\ s.currentCount = Cardinality(DOMAIN h)
    BY <1>4, <1>5 DEF Books
  <1>. HIDE DEF t, w, m, x
  <1>8. /\ t.currentOut = x /\ t.currentOut \in Nat /\ t.currentOut <= t.maxOut
        /\ t.currentCount = Cardinality(DOMAIN g) /\ t.currentCount \in Nat
        /\ t.currentCount <= t.maxCount
    BY <1>3, <1>4, <1>6, <1>7
  <1>9. Books(t, g)
    BY <1>6, <1>7, <1>8 DEF Books, m, x, C
  <1>. QED
    BY <1>9 DEF t, n

(* g is what the callers hold who held h before chunk c at i was granted.  *)
Granted(g, h, i, c) ==
    /\ DOMAIN g = DOMAIN h \cup {i}
    /\ g[i] = c
    /\ \A b \in DOMAIN h : g[b] = h[b]
    /\ Owned(g) = Owned(h) \cup {<<i, c.log>>}

LEMMA HeldWith ==
    ASSUME NEW h, NEW i, NEW c, i \notin DOMAIN h
    PROVE  Granted(With(h, i, c), h, i, c)
  <1>. DEFINE g == With(h, i, c)
  <1>1. DOMAIN g = DOMAIN h \cup {i} /\ g[i] = c /\ \A b \in DOMAIN h : g[b] = h[b]
    BY DEF With
  <1>. HIDE DEF g
  <1>2. Owned(g) = Owned(h) \cup {<<i, c.log>>}
    BY <1>1 DEF Owned
  <1>. QED
    BY <1>1, <1>2 DEF g, Granted

LEMMA HeldWithout ==
    ASSUME NEW h, NEW b, b \in DOMAIN h
    PROVE  /\ DOMAIN Without(h, b) = DOMAIN h \ {b}
           /\ \A x \in DOMAIN Without(h, b) : Without(h, b)[x] = h[x]
           /\ Owned(h) = Owned(Without(h, b)) \cup {<<b, h[b].log>>}
           /\ \A k : <<b, k>> \notin Owned(Without(h, b))
  BY DEF Without, Owned

LEMMA FreshBooks ==
    ASSUME NEW h, DOMAIN h = {}
    PROVE  Owned(h) = {} /\ Books(NoStat, h)
  <1>1. Owned(h) = {} /\ Covered({}) = {}
    BY DEF Owned, Covered
  <1>2. Cardinality(DOMAIN h) = 0 /\ Cardinality(Covered(Owned(h))) = 0
    BY <1>1, FS_EmptySet
  <1>3. szAtom * 0 = 0 /\ 0 <= szAtom * nBlock /\ 0 < 2 ^ IntBits
    BY Widths, PowerPositive
  <1>. QED
    BY <1>1, <1>2, <1>3, Widths DEF Books, NoStat

LEMMA AskedBooks ==
    ASSUME NEW s, NEW h, Books(s, h), NEW n \in Int, n < 2 ^ IntBits
    PROVE  Books(Asked(s, n), h)
  <1>. DEFINE t == Asked(s, n)
  <1>1. s \in [currentOut : Nat, currentCount : Nat, maxOut : Nat, maxCount : Nat,
               maxRequest : Nat]
    BY DEF Books
  <1>2. /\ t.currentOut = s.currentOut /\ t.currentCount = s.currentCount
        /\ t.maxOut = s.maxOut /\ t.maxCount = s.maxCount
        /\ t.maxRequest = Larger(s.maxRequest, n)
        /\ t = [currentOut |-> t.currentOut, currentCount |-> t.currentCount,
                maxOut |-> t.maxOut, maxCount |-> t.maxCount, maxRequest |-> t.maxRequest]
    BY <1>1 DEF Asked
  <1>. HIDE DEF t
  <1>3. s.maxRequest < 2 ^ IntBits
    BY DEF Books
  <1>4. t.maxRequest \in Nat /\ t.maxRequest < 2 ^ IntBits
    BY <1>1, <1>2, <1>3 DEF Larger
  <1>5. t \in [currentOut : Nat, currentCount : Nat, maxOut : Nat, maxCount : Nat,
               maxRequest : Nat]
    BY <1>1, <1>2, <1>4
  <1>6. Books(t, h)
    BY <1>2, <1>4, <1>5 DEF Books
  <1>. QED
    BY <1>6 DEF t

------------------------------------------------------------------------------
(* The state between two calls.                                            *)
Sound(p, s, h) ==
    /\ \E F : Good(p, F, Owned(h))
    /\ Books(s, h)

LEMMA SoundChunks ==
    ASSUME NEW p, NEW s, NEW h, Sound(p, s, h)
    PROVE  /\ p \in Pools
           /\ DOMAIN h \subseteq Atoms
           /\ \A b \in DOMAIN h : /\ h[b].log \in Logs
                                  /\ b + 2 ^ h[b].log <= nBlock
                                  /\ p.aCtrl[b] = UsedChunk(h[b].log)
                                  /\ mplite_size(p, b) = szAtom * 2 ^ h[b].log
  <1>1. PICK F : Good(p, F, Owned(h))
    BY DEF Sound
  <1>2. p \in Pools
    BY <1>1 DEF Good, Lists
  <1>3. ASSUME NEW b \in DOMAIN h
        PROVE  /\ b \in Atoms /\ h[b].log \in Logs
               /\ b + 2 ^ h[b].log <= nBlock
               /\ p.aCtrl[b] = UsedChunk(h[b].log)
               /\ mplite_size(p, b) = szAtom * 2 ^ h[b].log
    <2>1. <<b, h[b].log>> \in Owned(h)
      BY DEF Owned
    <2>2. <<b, h[b].log>> \in F \cup Owned(h) /\ Tiles(F \cup Owned(h))
      BY <1>1, <2>1 DEF Good
    <2>3. b \in Atoms /\ h[b].log \in Logs /\ b + 2 ^ h[b].log <= nBlock
      BY <2>2, TilesTyped
    <2>4. p.aCtrl[b] = UsedChunk(h[b].log)
      BY <1>1, <2>1, Zenon DEF Good, Marked
    <2>. QED
      BY <2>3, <2>4 DEF mplite_size, UsedChunk
  <1>. QED
    BY <1>2, <1>3

LEMMA TakeSound ==
    ASSUME NEW p, NEW s, NEW h, Sound(p, s, h), NEW n \in Int, Serves(p, n), NEW size
    PROVE  LET t == TakenFrom(p, s, n)
           IN /\ Sound(t.pool, t.stat, With(h, t.i, [size |-> size, log |-> LogFor(n)]))
              /\ t.i \notin DOMAIN h
              /\ t.chunk = [size |-> n, log |-> LogFor(n)]
  <1>. DEFINE t == TakenFrom(p, s, n)
              l == LogFor(n)
              c == [size |-> size, log |-> l]
              g == With(h, t.i, c)
  <1>. DEFINE U == Owned(h)
  <1>1. PICK F : Good(p, F, U)
    BY DEF Sound
  <1>. HIDE DEF U
  <1>2. /\ \E H : Good(t.pool, H, U \cup {<<t.i, l>>})
        /\ t.i \in Atoms /\ l \in Logs
        /\ \A k : <<t.i, k>> \notin U
        /\ t.chunk = [size |-> n, log |-> l]
        /\ t.stat = CountOut(Asked(s, n), szAtom * 2 ^ l)
    <2>1. Takes(t, U, s, n)
      BY <1>1, TakenGood
    <2>. QED
      BY <2>1 DEF Takes
  <1>. HIDE DEF t, l
  <1>3. PICK H : Good(t.pool, H, U \cup {<<t.i, l>>})
    BY <1>2
  <1>. USE DEF U
  <1>4. t.i \notin DOMAIN h
    BY <1>2 DEF Owned
  <1>5. DOMAIN g = DOMAIN h \cup {t.i} /\ Owned(g) = Owned(h) \cup {<<t.i, l>>}
    <2>. DEFINE i == t.i
    <2>1. c.log = l /\ i \notin DOMAIN h
      BY <1>4
    <2>. HIDE DEF c, i
    <2>2. Granted(With(h, i, c), h, i, c)
      BY <2>1, HeldWith
    <2>. QED
      BY <2>1, <2>2 DEF i, Granted
  <1>. HIDE DEF g
  <1>6. Good(t.pool, H, Owned(g))
    BY <1>3, <1>5
  <1>7. n < 2 ^ IntBits
    <2>1. MPLITE_LOGMAX < IntBits /\ MPLITE_LOGMAX \in Nat /\ IntBits \in Nat
      BY Widths
    <2>2. 2 * 2 ^ MPLITE_LOGMAX <= 2 ^ IntBits /\ 2 ^ MPLITE_LOGMAX \in Nat \ {0}
          /\ 2 ^ IntBits \in Nat
      BY <2>1, PowersGrow, PowerPositive
    <2>3. n <= 2 ^ MPLITE_LOGMAX
      BY DEF Serves, MPLITE_MAX_ALLOC_SIZE
    <2>. QED
      BY <2>2, <2>3
  <1>8. Books(Asked(s, n), h)
    BY <1>7, AskedBooks DEF Sound
  <1>9. Books(t.stat, g)
    <2>1. Tiles(H \cup Owned(g))
      BY <1>6 DEF Good
    <2>2. DOMAIN h \subseteq Atoms /\ <<t.i, l>> \notin Owned(h)
      BY <1>2, SoundChunks
    <2>. DEFINE a == Asked(s, n)
                i == t.i
    <2>3. t.stat = CountOut(a, szAtom * 2 ^ l) /\ Books(a, h) /\ i \in Atoms /\ i \notin DOMAIN h
          /\ DOMAIN g = DOMAIN h \cup {i} /\ Owned(g) = Owned(h) \cup {<<i, l>>}
          /\ <<i, l>> \notin Owned(h)
      BY <1>2, <1>4, <1>5, <1>8, <2>2
    <2>. HIDE DEF a, i
    <2>4. Books(CountOut(a, szAtom * 2 ^ l), g)
      BY <2>1, <2>2, <2>3, CountedOut
    <2>. QED
      BY <2>3, <2>4
  <1>10. Sound(t.pool, t.stat, g)
    BY <1>6, <1>9 DEF Sound
  <1>. QED
    BY <1>2, <1>4, <1>10 DEF g, t, l

LEMMA ReleaseSound ==
    ASSUME NEW p, NEW s, NEW h, Sound(p, s, h), NEW b \in DOMAIN h
    PROVE  Sound(Released(p, b), CountIn(s, mplite_size(p, b)), Without(h, b))
  <1>. DEFINE g == Without(h, b)
              l == h[b].log
  <1>1. PICK F : Good(p, F, Owned(h))
    BY DEF Sound
  <1>2. /\ DOMAIN g = DOMAIN h \ {b}
        /\ Owned(h) = Owned(g) \cup {<<b, l>>} /\ <<b, l>> \notin Owned(g)
    BY HeldWithout
  <1>3. DOMAIN h \subseteq Atoms /\ mplite_size(p, b) = szAtom * 2 ^ l
    BY SoundChunks
  <1>. HIDE DEF g, l
  <1>4. \E G : Good(Released(p, b), G, Owned(g))
    <2>1. Good(p, F, Owned(g) \cup {<<b, l>>})
      BY <1>1, <1>2
    <2>. QED
      BY <1>2, <2>1, ReleasedGood
  <1>5. Books(CountIn(s, szAtom * 2 ^ l), g)
    <2>1. Tiles(F \cup Owned(h)) /\ Books(s, h)
      BY <1>1 DEF Good, Sound
    <2>. QED
      BY <1>2, <1>3, <2>1, CountedIn
  <1>. QED
    BY <1>3, <1>4, <1>5 DEF Sound, g

LEMMA ToIntRange ==
    ASSUME NEW size \in Nat
    PROVE  /\ ToInt(size) \in Int /\ ToInt(size) < 2 ^ IntBits
           /\ size < 2 ^ IntBits /\ ToInt(size) > 0 => ToInt(size) = size
  <1>. DEFINE w == 2 ^ IntBits
              h == 2 ^ (IntBits - 1)
  <1>1. w \in Nat \ {0} /\ w = 2 * h /\ h \in Nat \ {0}
    <2>1. IntBits - 1 \in Nat /\ (IntBits - 1) + 1 = IntBits
      BY Widths
    <2>. QED
      BY <2>1, PowerNext, PowerPositive
  <1>2. ToInt(size) = IF size % w < h THEN size % w ELSE (size % w) - w
    BY DEF ToInt
  <1>. HIDE DEF w, h
  <1>3. size % w \in 0..(w - 1)
    BY <1>1, RemainderRange
  <1>4. size < w => size % w = size
    BY <1>1
  <1>. QED
    BY <1>1, <1>2, <1>3, <1>4 DEF w

LEMMA PowersFit ==
    ASSUME NEW n, PowerOfTwo(n)
    PROVE  n \in Nat \ {0} /\ n < 2 ^ IntBits
  <1>1. PICK l \in Logs : n = 2 ^ l
    BY DEF PowerOfTwo
  <1>2. l \in Nat /\ l < IntBits /\ IntBits \in Nat
    BY Widths DEF Logs
  <1>3. 2 * 2 ^ l <= 2 ^ IntBits /\ 2 ^ l \in Nat \ {0} /\ 2 ^ IntBits \in Nat
    BY <1>2, PowersGrow, PowerPositive
  <1>. QED
    BY <1>1, <1>3

Inv == Sound(pool, stat, held)

LEMMA SoundInit == Init => Inv
  <1>. SUFFICES ASSUME Init
                PROVE  Inv
    OBVIOUS
  <1>1. PICK c \in Stale : pool = Formatted([b \in Atoms |-> c])
    BY DEF Init
  <1>2. c \in Ctrl
    BY MpliteAssumption
  <1>3. [b \in Atoms |-> c] \in [Atoms -> Ctrl]
    BY <1>2
  <1>4. \E F : Good(pool, F, {})
    <2>. DEFINE ctrl == [b \in Atoms |-> c]
    <2>. HIDE DEF ctrl
    <2>1. \E F : Good(Formatted(ctrl), F, {})
      BY <1>3, FormattedGood DEF ctrl
    <2>. QED
      BY <1>1, <2>1 DEF ctrl
  <1>5. DOMAIN held = {} /\ stat = NoStat
    BY DEF Init
  <1>. QED
    BY <1>4, <1>5, FreshBooks DEF Inv, Sound

LEMMA SoundMalloc ==
    ASSUME Inv, NEW size \in Requests, Malloc(size)
    PROVE  Inv'
  <1>. DEFINE n == ToInt(size)
              t == TakenFrom(pool, stat, n)
  <1>1. n \in Int
    BY ToIntRange, MpliteAssumption
  <1>2. Serves(pool, n) /\ pool' = t.pool /\ stat' = t.stat
        /\ held' = With(held, t.i, [t.chunk EXCEPT !.size = size])
    BY DEF Malloc, Taken, Servable
  <1>. DEFINE c == [size |-> size, log |-> LogFor(n)]
  <1>. HIDE DEF n
  <1>3. Sound(t.pool, t.stat, With(held, t.i, c)) /\ t.chunk = [size |-> n, log |-> LogFor(n)]
    BY <1>1, <1>2, TakeSound DEF Inv
  <1>. HIDE DEF t
  <1>4. [t.chunk EXCEPT !.size = size] = c
    BY <1>3
  <1>. HIDE DEF c
  <1>. QED
    BY <1>2, <1>3, <1>4 DEF Inv

LEMMA SoundFree ==
    ASSUME Inv, NEW b \in DOMAIN held, Free(b)
    PROVE  Inv'
  <1>1. pool' = Released(pool, b) /\ stat' = CountIn(stat, mplite_size(pool, b))
        /\ held' = Without(held, b)
    BY DEF Free
  <1>2. Sound(Released(pool, b), CountIn(stat, mplite_size(pool, b)), Without(held, b))
    BY ReleaseSound DEF Inv
  <1>. QED
    BY <1>1, <1>2 DEF Inv

LEMMA SoundRealloc ==
    ASSUME Inv, NEW b \in DOMAIN held, NEW n, Realloc(b, n)
    PROVE  Inv'
  <1>. DEFINE t == TakenFrom(pool, stat, n)
              g == With(held, t.i, t.chunk)
  <1>1. n \in Int /\ Serves(pool, n)
    BY PowersFit DEF Realloc, Servable
  <1>2. pool' = Released(t.pool, b) /\ stat' = CountIn(t.stat, mplite_size(pool, b))
        /\ held' = With(Without(held, b), t.i, t.chunk)
    BY DEF Realloc, Taken
  <1>. DEFINE c == [size |-> n, log |-> LogFor(n)]
  <1>3. Sound(t.pool, t.stat, With(held, t.i, c)) /\ t.i \notin DOMAIN held /\ t.chunk = c
    BY <1>1, TakeSound DEF Inv
  <1>. HIDE DEF t
  <1>4. Sound(t.pool, t.stat, g)
    BY <1>3
  <1>5. b \in DOMAIN g /\ g[b] = held[b] /\ Without(g, b) = held'
    BY <1>2, <1>3 DEF With, Without
  <1>. HIDE DEF g
  <1>6. Sound(Released(t.pool, b), CountIn(t.stat, mplite_size(t.pool, b)), Without(g, b))
    BY <1>4, <1>5, ReleaseSound
  <1>7. mplite_size(t.pool, b) = mplite_size(pool, b)
    <2>1. mplite_size(pool, b) = szAtom * 2 ^ held[b].log
      BY SoundChunks DEF Inv
    <2>2. mplite_size(t.pool, b) = szAtom * 2 ^ g[b].log
      BY <1>4, <1>5, SoundChunks
    <2>. QED
      BY <1>5, <2>1, <2>2
  <1>. QED
    BY <1>2, <1>5, <1>6, <1>7 DEF Inv

LEMMA SoundReset == Inv /\ Reset => Inv'
  <1>. SUFFICES ASSUME Inv, Reset
                PROVE  Inv'
    OBVIOUS
  <1>1. pool.aCtrl \in [Atoms -> Ctrl]
    BY SoundChunks DEF Inv, Pools
  <1>2. \E F : Good(pool', F, {})
    BY <1>1, FormattedGood DEF Reset
  <1>3. DOMAIN held' = {} /\ stat' = NoStat
    BY DEF Reset
  <1>4. Owned(held') = {} /\ Books(NoStat, held')
    BY <1>3, FreshBooks
  <1>. QED
    BY <1>2, <1>3, <1>4 DEF Inv, Sound

LEMMA SoundStep == Inv /\ [Next]_vars => Inv'
  <1>. SUFFICES ASSUME Inv, [Next]_vars
                PROVE  Inv'
    OBVIOUS
  <1>1. CASE \E size \in Requests : Malloc(size)
    BY <1>1, SoundMalloc
  <1>2. CASE \E size \in Requests : MallocFails(size)
    <2>1. PICK size \in Requests : MallocFails(size)
      BY <1>2
    <2>2. ToInt(size) \in Int /\ ToInt(size) < 2 ^ IntBits
      BY ToIntRange, MpliteAssumption
    <2>3. pool' = pool /\ held' = held /\ stat' \in {stat, Asked(stat, ToInt(size))}
      BY <2>1 DEF MallocFails
    <2>4. Books(stat', held)
      BY <2>2, <2>3, AskedBooks DEF Inv, Sound
    <2>. QED
      BY <2>3, <2>4 DEF Inv, Sound
  <1>3. CASE \E b \in DOMAIN held : Free(b)
    BY <1>3, SoundFree
  <1>4. CASE \E b \in DOMAIN held, n \in Resizes : Realloc(b, n)
    BY <1>4, SoundRealloc
  <1>5. CASE \E b \in DOMAIN held, n \in Resizes : ReallocStays(b, n)
    <2>1. PICK b \in DOMAIN held, n \in Resizes : ReallocStays(b, n)
      BY <1>5
    <2>2. pool' = pool /\ held' = held
          /\ stat' = IF PowerOfTwo(n) /\ n > mplite_size(pool, b) THEN Asked(stat, n) ELSE stat
      BY <2>1 DEF ReallocStays
    <2>3. Books(stat', held)
      BY <2>2, PowersFit, AskedBooks DEF Inv, Sound
    <2>. QED
      BY <2>2, <2>3 DEF Inv, Sound
  <1>6. CASE Reset
    BY <1>6, SoundReset
  <1>7. CASE UNCHANGED vars
    BY <1>7 DEF vars, Inv
  <1>. QED
    BY <1>1, <1>2, <1>3, <1>4, <1>5, <1>6, <1>7 DEF Next

LEMMA SoundAlways == Spec => []Inv
  BY SoundInit, SoundStep, PTL DEF Spec

------------------------------------------------------------------------------
LEMMA SoundTyped == Inv => TypeOK
  <1>. SUFFICES ASSUME Inv
                PROVE  TypeOK
    OBVIOUS
  <1>1. PICK F : Good(pool, F, Owned(held))
    BY DEF Inv, Sound
  <1>2. pool \in Pools /\ DOMAIN held \subseteq Atoms
    BY SoundChunks DEF Inv
  <1>3. \A l \in Logs : pool.aiFreelist[l] \in Atoms \cup {Nil}
    BY <1>1, ZenonT(30) DEF Good, Lists, Linked
  <1>4. pool.aiFreelist \in [Logs -> Atoms \cup {Nil}]
    BY <1>2, <1>3 DEF Pools
  <1>5. pool \in [aCtrl : [Atoms -> Ctrl],
                  next : [Atoms -> Atoms \cup {Nil, Junk}],
                  prev : [Atoms -> Atoms \cup {Nil, Junk}],
                  aiFreelist : [Logs -> Atoms \cup {Nil}]]
    BY <1>2, <1>4 DEF Pools, Links
  <1>. DEFINE w == 2 ^ IntBits
              m == szAtom * nBlock
  <1>6. w \in Nat /\ m \in 0..(w - 1) /\ nBlock \in Nat /\ nBlock < w
    <2>1. IntBits \in Nat /\ MPLITE_LOGMAX \in Nat /\ MPLITE_LOGMAX < IntBits
      BY Widths
    <2>2. 2 * 2 ^ MPLITE_LOGMAX <= w /\ w \in Nat /\ 2 ^ MPLITE_LOGMAX \in Nat
      BY <2>1, PowersGrow, PowerPositive
    <2>. QED
      BY <2>2, Widths
  <1>7. /\ stat \in [currentOut : Nat, currentCount : Nat, maxOut : Nat, maxCount : Nat,
                     maxRequest : Nat]
        /\ stat.currentOut <= stat.maxOut /\ stat.maxOut <= m
        /\ stat.currentCount <= stat.maxCount /\ stat.maxCount <= nBlock
        /\ stat.maxRequest < w
    BY DEF Inv, Sound, Books
  <1>. HIDE DEF w, m
  <1>8. /\ stat.currentOut \in 0..(w - 1) /\ stat.currentCount \in 0..(w - 1)
        /\ stat.maxOut \in 0..(w - 1) /\ stat.maxCount \in 0..(w - 1)
        /\ stat.maxRequest \in 0..(w - 1)
    BY <1>6, <1>7
  <1>9. \A f \in DOMAIN stat : stat[f] \in 0..(w - 1)
    BY <1>7, <1>8
  <1>. QED
    BY <1>2, <1>5, <1>9 DEF TypeOK, w

(* Every index the allocator keeps names an atom of its pool, and its      *)
(* 32-bit statistics never wrap: the pool is too small for that.           *)
THEOREM PoolTyped == Spec => []TypeOK
  BY SoundTyped, SoundAlways, PTL

(* Every free list can be walked to its end and back, and holds the free   *)
(* chunks of its size only.                                                *)
THEOREM FreeListsStaySound == Spec => []FreeListsSound
  <1>1. Inv => FreeListsSound
    BY ListsAreSound DEF Inv, Sound, Good
  <1>. QED
    BY <1>1, SoundAlways, PTL

LEMMA SoundTiles == Inv => PoolTiled
  <1>. SUFFICES ASSUME Inv
                PROVE  PoolTiled
    OBVIOUS
  <1>. DEFINE free == {c \in Atoms \X Logs : c[1] \in OnList(c[2])}
              used == {<<b, held[b].log>> : b \in DOMAIN held}
  <1>1. PICK F : Good(pool, F, Owned(held))
    BY DEF Inv, Sound
  <1>2. used = Owned(held)
    BY DEF Owned
  <1>3. free = F
    <2>1. \A l \in Logs : OnList(l) = {b \in Atoms : <<b, l>> \in F}
      BY <1>1, ListHolds DEF Good
    <2>2. F \subseteq Atoms \X Logs
      BY <1>1 DEF Good, Lists, Linked
    <2>. QED
      BY <2>1, <2>2
  <1>. HIDE DEF free, used
  <1>4. Tiles(free \cup used)
    BY <1>1, <1>2, <1>3 DEF Good
  <1>5. free \cap used = {}
    <2>. SUFFICES ASSUME NEW c \in free, c \in used
                  PROVE  FALSE
      OBVIOUS
    <2>1. c \in F /\ c \in Owned(held) /\ F \subseteq Atoms \X Logs
      BY <1>1, <1>2, <1>3 DEF Good, Lists, Linked
    <2>2. PICK b \in Atoms, l \in Logs : c = <<b, l>>
      BY <2>1
    <2>. QED
      BY <1>1, <2>1, <2>2, FreeNotUsed DEF Good
  <1>6. ASSUME NEW x \in Atoms
        PROVE  Cardinality({c \in free \cup used : x \in ChunkAtoms(c[1], c[2])}) = 1
    <2>. DEFINE T == free \cup used
                S == {c \in T : x \in ChunkAtoms(c[1], c[2])}
    <2>1. \A b, l : <<b, l>> \in T => (x \in ChunkAtoms(b, l) <=> b <= x /\ x < b + 2 ^ l)
      <3>. SUFFICES ASSUME NEW b, NEW l, <<b, l>> \in T
                    PROVE  x \in ChunkAtoms(b, l) <=> b <= x /\ x < b + 2 ^ l
        OBVIOUS
      <3>1. b \in Nat /\ 2 ^ l \in Nat \ {0}
        BY <1>4, TilesTyped
      <3>2. x \in Nat
        BY Lengths
      <3>. QED
        BY <3>1, <3>2 DEF ChunkAtoms
    <2>2. PICK b, l : <<b, l>> \in T /\ b <= x /\ x < b + 2 ^ l
      BY <1>4 DEF Tiles
    <2>3. T \subseteq Atoms \X Logs
      BY <1>4 DEF Tiles
    <2>. HIDE DEF T
    <2>4. <<b, l>> \in S
      BY <2>1, <2>2
    <2>5. ASSUME NEW c \in S
          PROVE  c = <<b, l>>
      <3>1. PICK d \in Atoms, k \in Logs : c = <<d, k>>
        BY <2>3
      <3>2. <<d, k>> \in T /\ d <= x /\ x < d + 2 ^ k
        BY <2>1, <3>1
      <3>3. d \in Nat /\ b \in Nat /\ 2 ^ k \in Nat /\ 2 ^ l \in Nat /\ x \in Nat
        BY <1>4, <2>2, <3>2, TilesTyped, Lengths DEF T
      <3>4. Meets(d, k, b, l)
        BY <2>2, <3>2, <3>3 DEF Meets
      <3>5. d = b /\ k = l
        BY <1>4, <2>2, <3>2, <3>4, Zenon DEF Tiles, T
      <3>. QED
        BY <3>1, <3>5
    <2>. HIDE DEF S
    <2>6. S = {<<b, l>>}
      BY <2>4, <2>5
    <2>7. Cardinality(S) = 1
      BY <2>6, FS_Singleton
    <2>. QED
      BY <2>7 DEF S, T
  <1>7. \A b \in DOMAIN held : pool.aCtrl[b] = UsedChunk(held[b].log)
    BY SoundChunks DEF Inv
  <1>. QED
    BY <1>5, <1>6, <1>7 DEF PoolTiled, free, used

(* Nothing is lost and nothing is given out twice: every atom lies in one  *)
(* chunk, free or in a caller's hands.                                     *)
THEOREM PoolStaysTiled == Spec => []PoolTiled
  BY SoundTiles, SoundAlways, PTL

LEMMA SoundCoalesces == Inv => BuddiesCoalesced
  <1>. SUFFICES ASSUME Inv, NEW l \in Logs \ {MPLITE_LOGMAX}, NEW b \in OnList(l)
                PROVE  Buddy(b, l) \notin OnList(l)
    BY DEF BuddiesCoalesced
  <1>1. PICK F : Good(pool, F, Owned(held))
    BY DEF Inv, Sound
  <1>2. OnList(l) = {a \in Atoms : <<a, l>> \in F}
    BY <1>1, ListHolds DEF Good
  <1>3. l + 1 \in Logs
    BY Widths DEF Logs
  <1>. QED
    BY <1>1, <1>2, <1>3 DEF Good, Coalescent

(* Two free halves of a larger chunk never outlast the call that freed the *)
(* second of them.                                                         *)
THEOREM BuddiesStayCoalesced == Spec => []BuddiesCoalesced
  BY SoundCoalesces, SoundAlways, PTL

LEMMA SoundStats == Inv => StatsAgree
  <1>. SUFFICES ASSUME Inv
                PROVE  StatsAgree
    OBVIOUS
  <1>1. Covered(Owned(held)) = UNION {ChunkAtoms(b, held[b].log) : b \in DOMAIN held}
    <2>1. \A b \in DOMAIN held : b \in Nat /\ 2 ^ held[b].log \in Nat \ {0}
                                 /\ b + 2 ^ held[b].log <= nBlock
      BY SoundChunks, Lengths DEF Inv
    <2>2. \A b \in DOMAIN held : \A x :
             x \in ChunkAtoms(b, held[b].log) <=> x \in Atoms /\ b <= x /\ x < b + 2 ^ held[b].log
      BY <2>1, Widths DEF ChunkAtoms, Atoms
    <2>. QED
      BY <2>2 DEF Covered, Owned
  <1>. QED
    BY <1>1 DEF Inv, Sound, Books, StatsAgree

(* The statistics agree with what the callers hold.                        *)
THEOREM StatsStayRight == Spec => []StatsAgree
  BY SoundStats, SoundAlways, PTL

------------------------------------------------------------------------------
(* What mplite_roundup announces is what mplite_malloc sets aside.         *)
LEMMA RoundupExact ==
    ASSUME NEW n \in Int, n <= MPLITE_MAX_ALLOC_SIZE
    PROVE  mplite_roundup(n) = szAtom * 2 ^ LogFor(n)
  <1>. DEFINE S == {s \in {szAtom * 2 ^ l : l \in 0..IntBits} : n <= s}
              z == szAtom * 2 ^ LogFor(n)
  <1>1. LogFor(n) \in 0..IntBits /\ n <= z /\ LogFor(n) \in Nat
    BY LogForLeast, Widths DEF Logs
  <1>2. \A l \in 0..IntBits : szAtom * 2 ^ l \in Nat
    <2>1. \A l \in 0..IntBits : 2 ^ l \in Nat
      BY PowerNext, Widths
    <2>2. \A x \in Nat : szAtom * x \in Nat
      BY Widths, Z3
    <2>. QED
      BY <2>1, <2>2
  <1>3. z \in S /\ S \in SUBSET Nat
    BY <1>1, <1>2
  <1>4. \A s \in S : z <= s
    <2>. SUFFICES ASSUME NEW l \in 0..IntBits, n <= szAtom * 2 ^ l
                  PROVE  z <= szAtom * 2 ^ l
      OBVIOUS
    <2>1. LogFor(n) <= l /\ l \in Nat
      BY LogForLeast, Widths
    <2>2. 2 ^ LogFor(n) <= 2 ^ l /\ 2 ^ LogFor(n) \in Nat /\ 2 ^ l \in Nat
      BY <1>1, <2>1, PowersGrow, PowerNext
    <2>3. \A x, y \in Nat : x <= y => szAtom * x <= szAtom * y
      BY Widths, Z3
    <2>. QED
      BY <2>2, <2>3
  <1>5. mplite_roundup(n) = Min(S)
    <2>1. ~ (n > MPLITE_MAX_ALLOC_SIZE)
      BY Widths, PowerNext DEF MPLITE_MAX_ALLOC_SIZE
    <2>. QED
      BY <2>1 DEF mplite_roundup
  <1>. HIDE DEF S, z
  <1>6. Min(S) \in S /\ \A s \in S : Min(S) <= s
    BY <1>3, MinIsLeast
  <1>7. Min(S) = z
    <2>1. Min(S) \in Nat /\ z \in Nat
      BY <1>3, <1>6
    <2>2. Min(S) <= z /\ z <= Min(S)
      BY <1>3, <1>4, <1>6
    <2>. QED
      BY <2>1, <2>2
  <1>. QED
    BY <1>5, <1>7 DEF z

LEMMA RequestFitsStep ==
    ASSUME Requests \subseteq 0..(2 ^ IntBits - 1)
    PROVE  Inv /\ RequestFits /\ [Next]_vars => RequestFits'
  <1>. SUFFICES ASSUME Inv, RequestFits, [Next]_vars
                PROVE  RequestFits'
    OBVIOUS
  <1>. DEFINE Fits(h) == \A b \in DOMAIN h : mplite_roundup(h[b].size) = szAtom * 2 ^ h[b].log
  <1>1. Fits(held)
    BY DEF RequestFits
  <1>2. ASSUME NEW h, Fits(h), NEW i, NEW n \in Int, n <= MPLITE_MAX_ALLOC_SIZE
        PROVE  Fits(With(h, i, [size |-> n, log |-> LogFor(n)]))
    <2>1. mplite_roundup(n) = szAtom * 2 ^ LogFor(n)
      BY <1>2, RoundupExact
    <2>. QED
      BY <1>2, <2>1 DEF With
  <1>3. ASSUME NEW h, Fits(h), NEW b
        PROVE  Fits(Without(h, b))
    BY <1>3 DEF Without
  <1>4. Fits(held') => RequestFits'
    BY DEF RequestFits
  <1>. HIDE DEF Fits
  <1>5. ASSUME NEW size \in Requests, Malloc(size)
        PROVE  Fits(held')
    <2>. DEFINE n == ToInt(size)
                t == TakenFrom(pool, stat, n)
    <2>1. n = size /\ n \in Int
      <3>1. size \in Nat /\ size < 2 ^ IntBits
        BY Widths, PowerNext
      <3>2. n > 0
        BY <1>5 DEF Malloc
      <3>. QED
        BY <3>1, <3>2, ToIntRange
    <2>2. Serves(pool, n) /\ held' = With(held, t.i, [t.chunk EXCEPT !.size = size])
      BY <1>5 DEF Malloc, Taken, Servable
    <2>. HIDE DEF n
    <2>3. t.chunk = [size |-> n, log |-> LogFor(n)]
      BY DEF TakenFrom
    <2>. HIDE DEF t
    <2>4. held' = With(held, t.i, [size |-> n, log |-> LogFor(n)])
      BY <2>1, <2>2, <2>3
    <2>. QED
      BY <1>1, <1>2, <2>1, <2>2, <2>4 DEF Serves
  <1>6. ASSUME NEW b \in DOMAIN held, NEW n, Realloc(b, n)
        PROVE  Fits(held')
    <2>. DEFINE t == TakenFrom(pool, stat, n)
    <2>1. n \in Int /\ Serves(pool, n)
      BY <1>6, PowersFit DEF Realloc, Servable
    <2>2. held' = With(Without(held, b), t.i, t.chunk)
      BY <1>6 DEF Realloc, Taken
    <2>3. t.chunk = [size |-> n, log |-> LogFor(n)]
      BY DEF TakenFrom
    <2>. HIDE DEF t
    <2>. QED
      BY <1>1, <1>2, <1>3, <2>1, <2>2, <2>3 DEF Serves
  <1>7. ASSUME NEW b \in DOMAIN held, Free(b)
        PROVE  Fits(held')
    BY <1>1, <1>3, <1>7 DEF Free
  <1>8. held' = held => Fits(held')
    BY <1>1
  <1>9. Reset => Fits(held')
    <2>. SUFFICES ASSUME Reset
                  PROVE  Fits(held')
      OBVIOUS
    <2>1. DOMAIN held' = {}
      BY DEF Reset
    <2>. QED
      BY <2>1 DEF Fits
  <1>10. Fits(held')
    <2>1. CASE UNCHANGED vars
      BY <2>1, <1>8 DEF vars
    <2>2. CASE \E size \in Requests : Malloc(size)
      BY <2>2, <1>5
    <2>3. CASE \E size \in Requests : MallocFails(size)
      BY <2>3, <1>8 DEF MallocFails
    <2>4. CASE \E b \in DOMAIN held : Free(b)
      BY <2>4, <1>7
    <2>5. CASE \E b \in DOMAIN held, n \in Resizes : Realloc(b, n)
      BY <2>5, <1>6
    <2>6. CASE \E b \in DOMAIN held, n \in Resizes : ReallocStays(b, n)
      BY <2>6, <1>8 DEF ReallocStays
    <2>7. CASE Reset
      BY <2>7, <1>9
    <2>. QED
      BY <2>1, <2>2, <2>3, <2>4, <2>5, <2>6, <2>7 DEF Next
  <1>. QED
    BY <1>4, <1>10

(* A caller is granted the chunk that mplite_roundup announces for the     *)
(* size it asked for, as long as that size is an int once truncated to 32  *)
(* bits: a larger one is cut to its low 32 bits before it is looked at.    *)
THEOREM RequestsStayFit ==
    ASSUME Requests \subseteq 0..(2 ^ IntBits - 1)
    PROVE  Spec => []RequestFits
  <1>1. Init => RequestFits
    <2>. SUFFICES ASSUME Init
                  PROVE  RequestFits
      OBVIOUS
    <2>1. DOMAIN held = {}
      BY DEF Init
    <2>. QED
      BY <2>1 DEF RequestFits
  <1>2. Inv /\ RequestFits /\ [Next]_vars => RequestFits'
    BY RequestFitsStep
  <1>. QED
    BY <1>1, <1>2, SoundAlways, PTL DEF Spec

------------------------------------------------------------------------------
(* The chunks handed out, as the extents of the allocator interface.       *)
Extent(b, l) == [off |-> b, len |-> 2 ^ l]

ExtentsOf(h) == {Extent(b, h[b].log) : b \in DOMAIN h}

AddsExtent(h, i, c) ==
    LET e == Extent(i, c.log)
    IN /\ e \in Abs!Extents
       /\ Abs!Vacant(e, ExtentsOf(h))
       /\ ExtentsOf(With(h, i, c)) = ExtentsOf(h) \cup {e}

LEMMA LengthFits ==
    ASSUME NEW l \in Logs, 2 ^ l <= nBlock
    PROVE  l \in 0..mplite_logarithm(nBlock)
  <1>. DEFINE S == {k \in 0..nBlock : nBlock <= 2 ^ k}
              L == mplite_logarithm(nBlock)
  <1>1. nBlock \in Nat /\ l \in Nat
    BY Widths DEF Logs
  <1>2. nBlock \in S
    BY <1>1, PowerPositive
  <1>3. S \in SUBSET Nat
    BY <1>1
  <1>4. L = Min(S)
    BY DEF mplite_logarithm
  <1>5. L \in S
    <2>. HIDE DEF S, L
    <2>. QED
      BY <1>2, <1>3, <1>4, MinIsLeast
  <1>6. L \in Nat /\ nBlock <= 2 ^ L
    BY <1>1, <1>5
  <1>. HIDE DEF L
  <1>7. ~ (L < l)
    <2>. SUFFICES ASSUME L < l
                  PROVE  FALSE
      OBVIOUS
    <2>1. 2 * 2 ^ L <= 2 ^ l /\ 2 ^ L \in Nat \ {0} /\ 2 ^ l \in Nat
      BY <1>1, <1>6, PowersGrow, PowerPositive
    <2>. QED
      BY <1>1, <1>6, <2>1
  <1>8. l \in 0..L
    BY <1>1, <1>6, <1>7
  <1>. QED
    BY <1>8 DEF L

LEMMA ExtentAdded ==
    ASSUME NEW p, NEW s, NEW h, NEW i, NEW c, i \notin DOMAIN h,
           Sound(p, s, With(h, i, c))
    PROVE  AddsExtent(h, i, c)
  <1>. DEFINE g == With(h, i, c)
              e == Extent(i, c.log)
  <1>1. DOMAIN g = DOMAIN h \cup {i} /\ g[i] = c /\ \A b \in DOMAIN h : g[b] = h[b]
    BY DEF With
  <1>2. ExtentsOf(g) = ExtentsOf(h) \cup {e}
    <2>. HIDE DEF g
    <2>. QED
      BY <1>1 DEF ExtentsOf
  <1>3. PICK F : Good(p, F, Owned(g))
    BY DEF Sound
  <1>. HIDE DEF g
  <1>4. Tiles(F \cup Owned(g))
    BY <1>3 DEF Good
  <1>5. \A b \in DOMAIN g : <<b, g[b].log>> \in F \cup Owned(g)
    BY DEF Owned
  <1>6. i \in Atoms /\ c.log \in Logs /\ i \in Nat /\ 2 ^ c.log \in Nat \ {0}
        /\ i + 2 ^ c.log <= nBlock
    BY <1>1, <1>4, <1>5, TilesTyped
  <1>7. e \in Abs!Extents
    <2>1. c.log \in 0..mplite_logarithm(nBlock)
      <3>1. 2 ^ c.log <= nBlock
        BY <1>6, Widths
      <3>. QED
        BY <1>6, <3>1, LengthFits
    <2>. QED
      BY <1>6, <2>1 DEF Abs!Extents, Extent, Atoms
  <1>8. \A b \in DOMAIN h : ~ Abs!Overlap(e, Extent(b, h[b].log))
    <2>. SUFFICES ASSUME NEW b \in DOMAIN h, Abs!Overlap(e, Extent(b, h[b].log))
                  PROVE  FALSE
      OBVIOUS
    <2>1. Meets(i, c.log, b, h[b].log)
      BY DEF Abs!Overlap, Extent, Meets
    <2>2. <<i, c.log>> \in F \cup Owned(g) /\ <<b, h[b].log>> \in F \cup Owned(g)
      BY <1>1, <1>5
    <2>3. i = b
      BY <1>4, <2>1, <2>2, Zenon DEF Tiles
    <2>. QED
      BY <2>3
  <1>9. Abs!Vacant(e, ExtentsOf(h))
    BY <1>6, <1>8 DEF Abs!Vacant, ExtentsOf, Extent
  <1>. QED
    BY <1>2, <1>7, <1>9 DEF AddsExtent, g

LEMMA ExtentRemoved ==
    ASSUME NEW h, NEW b \in DOMAIN h
    PROVE  /\ Extent(b, h[b].log) \in ExtentsOf(h)
           /\ ExtentsOf(Without(h, b)) = ExtentsOf(h) \ {Extent(b, h[b].log)}
  <1>. DEFINE g == Without(h, b)
  <1>1. DOMAIN g = DOMAIN h \ {b} /\ \A x \in DOMAIN g : g[x] = h[x]
    BY DEF Without
  <1>2. \A x \in DOMAIN h : Extent(x, h[x].log) = Extent(b, h[b].log) => x = b
    BY DEF Extent
  <1>. HIDE DEF g
  <1>3. ExtentsOf(g) = ExtentsOf(h) \ {Extent(b, h[b].log)}
    BY <1>1, <1>2 DEF ExtentsOf
  <1>. QED
    BY <1>3 DEF ExtentsOf, g

LEMMA ExtentStep == Inv /\ [Next]_vars =>
          \/ \E e \in ExtentsOf(held) : ExtentsOf(held') = ExtentsOf(held) \ {e}
          \/ ExtentsOf(held') = {}
          \/ \E e \in Abs!Extents : /\ Abs!Vacant(e, ExtentsOf(held))
                                    /\ ExtentsOf(held') = ExtentsOf(held) \cup {e}
          \/ \E e \in ExtentsOf(held), f \in Abs!Extents :
                /\ Abs!Vacant(f, ExtentsOf(held))
                /\ ExtentsOf(held') = (ExtentsOf(held) \ {e}) \cup {f}
          \/ ExtentsOf(held') = ExtentsOf(held)
  <1>. DEFINE Frees == \E e \in ExtentsOf(held) : ExtentsOf(held') = ExtentsOf(held) \ {e}
              Adds == \E e \in Abs!Extents : /\ Abs!Vacant(e, ExtentsOf(held))
                                             /\ ExtentsOf(held') = ExtentsOf(held) \cup {e}
              Moves == \E e \in ExtentsOf(held), f \in Abs!Extents :
                          /\ Abs!Vacant(f, ExtentsOf(held))
                          /\ ExtentsOf(held') = (ExtentsOf(held) \ {e}) \cup {f}
              Stays == ExtentsOf(held') = ExtentsOf(held)
              Empties == ExtentsOf(held') = {}
  <1>. SUFFICES ASSUME Inv, [Next]_vars
                PROVE  Frees \/ Empties \/ Adds \/ Moves \/ Stays
    OBVIOUS
  <1>1. ASSUME NEW size \in Requests, Malloc(size)
        PROVE  Adds
    <2>. DEFINE n == ToInt(size)
                t == TakenFrom(pool, stat, n)
                c == [size |-> size, log |-> LogFor(n)]
    <2>1. n \in Int
      BY ToIntRange, MpliteAssumption
    <2>2. Serves(pool, n) /\ held' = With(held, t.i, [t.chunk EXCEPT !.size = size])
      BY <1>1 DEF Malloc, Taken, Servable
    <2>. HIDE DEF n
    <2>3. /\ Sound(t.pool, t.stat, With(held, t.i, c))
          /\ t.i \notin DOMAIN held /\ t.chunk = [size |-> n, log |-> LogFor(n)]
      BY <2>1, <2>2, TakeSound DEF Inv
    <2>. DEFINE i == t.i
                q == t.pool
                r == t.stat
                d == t.chunk
    <2>. HIDE DEF t
    <2>4. [d EXCEPT !.size = size] = c
      BY <2>3
    <2>5. held' = With(held, i, c)
      BY <2>2, <2>4
    <2>6. Sound(q, r, With(held, i, c)) /\ i \notin DOMAIN held
      BY <2>3
    <2>. HIDE DEF i, q, r, d, c
    <2>7. AddsExtent(held, i, c)
      BY <2>6, ExtentAdded
    <2>. QED
      BY <2>5, <2>7 DEF AddsExtent
  <1>2. ASSUME NEW b \in DOMAIN held, Free(b)
        PROVE  Frees
    <2>1. held' = Without(held, b)
      BY <1>2 DEF Free
    <2>. QED
      BY <2>1, ExtentRemoved
  <1>3. ASSUME NEW b \in DOMAIN held, NEW n, Realloc(b, n)
        PROVE  Moves
    <2>. DEFINE t == TakenFrom(pool, stat, n)
                c == [size |-> n, log |-> LogFor(n)]
    <2>1. n \in Int /\ Serves(pool, n)
      BY <1>3, PowersFit DEF Realloc, Servable
    <2>2. held' = With(Without(held, b), t.i, t.chunk)
      BY <1>3 DEF Realloc, Taken
    <2>3. /\ Sound(t.pool, t.stat, With(held, t.i, c))
          /\ t.i \notin DOMAIN held /\ t.chunk = c
      BY <2>1, TakeSound DEF Inv
    <2>. DEFINE i == t.i
                q == t.pool
                r == t.stat
    <2>. HIDE DEF t
    <2>4. Sound(q, r, With(held, i, c)) /\ i \notin DOMAIN held
          /\ held' = With(Without(held, b), i, c)
      BY <2>2, <2>3
    <2>. HIDE DEF i, q, r, c
    <2>5. AddsExtent(held, i, c)
      BY <2>4, ExtentAdded
    <2>. DEFINE e == Extent(b, held[b].log)
                f == Extent(i, c.log)
                g == Without(held, b)
    <2>6. e \in ExtentsOf(held) /\ ExtentsOf(g) = ExtentsOf(held) \ {e}
      BY ExtentRemoved
    <2>7. f \in Abs!Extents /\ Abs!Vacant(f, ExtentsOf(held))
      BY <2>5 DEF AddsExtent
    <2>8. ExtentsOf(held') = ExtentsOf(g) \cup {f}
      <3>1. i \notin DOMAIN g
        BY <2>4 DEF Without
      <3>2. DOMAIN held' = DOMAIN g \cup {i} /\ held'[i] = c
            /\ \A x \in DOMAIN g : held'[x] = g[x]
        BY <2>4, <3>1 DEF With
      <3>. HIDE DEF g
      <3>. QED
        BY <3>2 DEF ExtentsOf
    <2>. HIDE DEF e, f, g
    <2>. QED
      BY <2>6, <2>7, <2>8
  <1>4. Reset => Empties
    <2>. SUFFICES ASSUME Reset
                  PROVE  Empties
      OBVIOUS
    <2>1. DOMAIN held' = {}
      BY DEF Reset
    <2>. QED
      BY <2>1 DEF ExtentsOf
  <1>5. held' = held => Stays
    OBVIOUS
  <1>. HIDE DEF Frees, Empties, Adds, Moves, Stays
  <1>6. CASE UNCHANGED vars
    BY <1>6, <1>5 DEF vars
  <1>7. CASE \E size \in Requests : Malloc(size)
    BY <1>7, <1>1
  <1>8. CASE \E size \in Requests : MallocFails(size)
    BY <1>8, <1>5 DEF MallocFails
  <1>9. CASE \E b \in DOMAIN held : Free(b)
    BY <1>9, <1>2
  <1>10. CASE \E b \in DOMAIN held, n \in Resizes : Realloc(b, n)
    BY <1>10, <1>3
  <1>11. CASE \E b \in DOMAIN held, n \in Resizes : ReallocStays(b, n)
    BY <1>11, <1>5 DEF ReallocStays
  <1>12. CASE Reset
    BY <1>12, <1>4
  <1>. QED
    BY <1>6, <1>7, <1>8, <1>9, <1>10, <1>11, <1>12 DEF Next

(* mplite.c implements the allocator interface: free lists, splitting and  *)
(* coalescing are hidden, and to its callers malloc returns memory of the  *)
(* pool that no other caller holds, realloc moves, free gives back.        *)
THEOREM MpliteImplements == Spec => Refinement
  <1>1. Init => Abs!Create
    <2>. SUFFICES ASSUME Init
                  PROVE  Abs!Create
      OBVIOUS
    <2>1. DOMAIN held = {}
      BY DEF Init
    <2>. QED
      BY <2>1 DEF Abs!Create
  <1>2. Inv /\ [Next]_vars => [Abs!Next]_(ExtentsOf(held))
    <2>. SUFFICES ASSUME Inv, [Next]_vars
                  PROVE  Abs!Next \/ ExtentsOf(held)' = ExtentsOf(held)
      OBVIOUS
    <2>. QED
      BY ExtentStep DEF Abs!Next, Abs!Free, Abs!Reset, Abs!Malloc, Abs!Move, ExtentsOf, Extent
  <1>. QED
    BY <1>1, <1>2, SoundAlways, PTL DEF Spec, Refinement, Abs!Spec, ExtentsOf, Extent

------------------------------------------------------------------------------
(***************************************************************************)
(* What the lock of mplite_lock_t buys, for any number of processes and    *)
(* any pool: one process at a time is between mplite_enter and             *)
(* mplite_leave, each call acts as if at once, and so the pool as the last *)
(* call left it is one the proofs above speak of, whatever the processes   *)
(* interleave.  The functions of Mplite that search, cut and merge are     *)
(* never expanded here.                                                    *)
(***************************************************************************)

Stages == {"idle", "malloc", "search", "found", "unlinked", "free", "mark", "marked"}

(* Between mplite_enter and mplite_leave, and there with pool or stat      *)
(* different from what the last call left.                                 *)
InCall == {"search", "found", "unlinked", "mark", "marked"}
MidWay == {"found", "unlinked", "marked"}

------------------------------------------------------------------------------
(* The locals a process has are those of the function it is in.            *)
Shape ==
    /\ pc \in [Procs -> Stages]
    /\ lock \in Procs \cup {Nobody}
    /\ local = [p \in Procs |-> local[p]]
    /\ owns = [p \in Procs |-> owns[p]]
    /\ \A p \in Procs : \A c \in owns[p] : c = Chunk(c.b, c.size, c.log)
    /\ \A p \in Procs :
          IF pc[p] \in {"free", "mark", "marked"}
          THEN local[p] = Chunk(local[p].b, local[p].size, local[p].log)
          ELSE local[p] = [n |-> local[p].n, bin |-> local[p].bin, i |-> local[p].i]

(* Who is inside has the lock.                                             *)
Mutex == \A p \in Procs : pc[p] \in InCall => lock = p

(* What the process inside has done so far to what the last call left.     *)
MarkedIn(s, b) ==
    LET l == s.aCtrl[b].log
    IN [s EXCEPT !.aCtrl[b + 2 ^ l - 1].free = TRUE, !.aCtrl[b] = FreeChunk(l)]

BinFor(n) == Min(Usable(settled.pool, LogFor(n)))

Searched(p) ==
    /\ Serves(settled.pool, local[p].n)
    /\ local[p].bin = BinFor(local[p].n)
    /\ local[p].i = FirstFree(settled.pool, BinFor(local[p].n))
    /\ stat = Asked(settled.stat, local[p].n)

AsSettled ==
    /\ (\A p \in Procs : pc[p] \notin MidWay) => settled = [pool |-> pool, stat |-> stat]
    /\ \A p \in Procs :
          /\ pc[p] = "found" => Searched(p) /\ pool = settled.pool
          /\ pc[p] = "unlinked" =>
                /\ Searched(p)
                /\ pool = mplite_unlink(settled.pool, local[p].i, local[p].bin)
          /\ pc[p] = "marked" =>
                /\ local[p].log = settled.pool.aCtrl[local[p].b].log
                /\ pool = MarkedIn(settled.pool, local[p].b)
                /\ stat = CountIn(settled.stat, szAtom * 2 ^ local[p].log)

LockInv == Shape /\ Mutex /\ AsSettled

LEMMA LockInit == SharedInit => LockInv
  BY SharedAssumption
     DEF SharedInit, LockInv, Shape, Mutex, AsSettled, Stages, InCall, MidWay, Idle

(* A process inside is the only one there, and the only one that can be    *)
(* half way.                                                               *)
LEMMA Alone ==
    ASSUME LockInv, NEW p \in Procs, pc[p] \in InCall
    PROVE  /\ lock = p
           /\ \A q \in Procs : q # p => pc[q] \notin InCall /\ pc[q] \notin MidWay
           /\ pc[p] \notin MidWay => settled = [pool |-> pool, stat |-> stat]
  BY DEF LockInv, Mutex, AsSettled, InCall, MidWay

(* Calls begin outside.                                                    *)
LEMMA LockOutside ==
    ASSUME LockInv, NEW p \in Procs,
           (\E n \in Requests : CallMalloc(p, n)) \/ (\E c \in owns[p] : CallFree(p, c))
    PROVE  LockInv'
  <1>1. ASSUME NEW n \in Requests, CallMalloc(p, n)
        PROVE  LockInv'
    <2>1. /\ pc[p] = "idle" /\ pc' = [pc EXCEPT ![p] = "malloc"]
          /\ local' = [local EXCEPT ![p].n = n]
          /\ UNCHANGED <<vars, lock, owns, settled>>
      BY <1>1 DEF CallMalloc, Goes
    <2>2. Shape'
      BY <2>1 DEF LockInv, Shape, Stages, vars
    <2>3. \A q \in Procs : q # p => pc'[q] = pc[q] /\ local'[q] = local[q]
      BY <2>1 DEF LockInv, Shape
    <2>4. pc'[p] = "malloc"
      BY <2>1 DEF LockInv, Shape
    <2>5. Mutex'
      BY <2>1, <2>3, <2>4 DEF LockInv, Mutex, InCall
    <2>6. AsSettled'
      BY <2>1, <2>3, <2>4 DEF LockInv, AsSettled, MidWay, vars, Searched, BinFor
    <2>. QED
      BY <2>2, <2>5, <2>6 DEF LockInv
  <1>2. ASSUME NEW c \in owns[p], CallFree(p, c)
        PROVE  LockInv'
    <2>1. /\ pc[p] = "idle" /\ pc' = [pc EXCEPT ![p] = "free"]
          /\ local' = [local EXCEPT ![p] = c]
          /\ owns' = [owns EXCEPT ![p] = @ \ {c}]
          /\ UNCHANGED <<vars, lock, settled>>
      BY <1>2 DEF CallFree, Goes
    <2>2. Shape'
      BY <2>1 DEF LockInv, Shape, Stages, vars, Chunk
    <2>3. \A q \in Procs : q # p => pc'[q] = pc[q] /\ local'[q] = local[q]
      BY <2>1 DEF LockInv, Shape
    <2>4. pc'[p] = "free"
      BY <2>1 DEF LockInv, Shape
    <2>5. Mutex'
      BY <2>1, <2>3, <2>4 DEF LockInv, Mutex, InCall
    <2>6. AsSettled'
      BY <2>1, <2>3, <2>4 DEF LockInv, AsSettled, MidWay, vars, Searched, BinFor
    <2>. QED
      BY <2>2, <2>5, <2>6 DEF LockInv
  <1>. QED
    BY <1>1, <1>2

LEMMA LockEnter ==
    ASSUME Locked, LockInv, NEW p \in Procs, Enter(p)
    PROVE  LockInv'
  <1>1. /\ \/ pc[p] = "malloc" /\ pc' = [pc EXCEPT ![p] = "search"]
           \/ pc[p] = "free" /\ pc' = [pc EXCEPT ![p] = "mark"]
        /\ lock = Nobody /\ lock' = p
        /\ UNCHANGED <<vars, local, owns, settled>>
    BY DEF Enter, EnterMalloc, EnterFree, Goes, mplite_enter
  <1>2. \A q \in Procs : pc[q] \notin InCall
    BY <1>1, SharedAssumption DEF LockInv, Mutex
  <1>3. Shape'
    BY <1>1 DEF LockInv, Shape, Stages, vars
  <1>4. Mutex'
    BY <1>1, <1>2 DEF LockInv, Shape, Mutex, InCall
  <1>5. AsSettled'
    <2>1. settled = [pool |-> pool, stat |-> stat]
      BY <1>2 DEF LockInv, AsSettled, InCall, MidWay
    <2>2. \A q \in Procs : pc'[q] \notin MidWay
      BY <1>1, <1>2 DEF LockInv, Shape, InCall, MidWay
    <2>. QED
      BY <1>1, <2>1, <2>2 DEF AsSettled, MidWay, vars
  <1>. QED
    BY <1>3, <1>4, <1>5 DEF LockInv

(* A step that ends a call.                                                *)
LEMMA LockReturns ==
    ASSUME LockInv, NEW p \in Procs, pc[p] \in InCall, pc' = [pc EXCEPT ![p] = "idle"],
           Returns(p), owns' = [q \in Procs |-> owns'[q]],
           \A q \in Procs : \A c \in owns'[q] : c = Chunk(c.b, c.size, c.log)
    PROVE  LockInv'
  <1>1. /\ lock' = Nobody
        /\ local' = [local EXCEPT ![p] = Idle]
        /\ settled' = [pool |-> pool', stat |-> stat']
    BY DEF Returns, mplite_leave
  <1>2. Shape'
    BY <1>1 DEF LockInv, Shape, Stages, Idle
  <1>3. \A q \in Procs : pc'[q] \notin InCall /\ pc'[q] \notin MidWay
    BY Alone DEF LockInv, Shape, InCall, MidWay
  <1>4. Mutex'
    BY <1>3 DEF Mutex
  <1>5. AsSettled'
    BY <1>1, <1>3 DEF AsSettled, MidWay
  <1>. QED
    BY <1>2, <1>4, <1>5 DEF LockInv

(* A step of a call that goes on.                                          *)
LEMMA LockGoesOn ==
    ASSUME LockInv, NEW p \in Procs, pc[p] \in InCall, NEW to \in MidWay,
           pc' = [pc EXCEPT ![p] = to], UNCHANGED <<lock, owns, settled>>,
           Shape',
           \A q \in Procs : q # p => local'[q] = local[q],
           to = "found" => Searched(p)' /\ pool' = settled.pool,
           to = "unlinked" => /\ Searched(p)'
                              /\ pool' = mplite_unlink(settled.pool, local'[p].i, local'[p].bin),
           to = "marked" =>
                /\ local'[p].log = settled.pool.aCtrl[local'[p].b].log
                /\ pool' = MarkedIn(settled.pool, local'[p].b)
                /\ stat' = CountIn(settled.stat, szAtom * 2 ^ local'[p].log)
    PROVE  LockInv'
  <1>1. \A q \in Procs : q # p => pc'[q] = pc[q] /\ pc[q] \notin MidWay /\ pc[q] \notin InCall
    BY Alone DEF LockInv, Shape
  <1>2. pc'[p] = to
    BY DEF LockInv, Shape
  <1>3. Mutex'
    BY <1>1, <1>2 DEF LockInv, Mutex, InCall, MidWay
  <1>4. AsSettled'
    BY <1>1, <1>2 DEF AsSettled, MidWay
  <1>. QED
    BY <1>3, <1>4 DEF LockInv

LEMMA LockInside ==
    ASSUME Locked, LockInv, NEW p \in Procs, Inside(p)
    PROVE  LockInv'
  <1>1. CASE Search(p)
    <2>1. /\ pc[p] = "search" /\ pc' = [pc EXCEPT ![p] = "found"]
          /\ stat' = Asked(stat, local[p].n)
          /\ local' = [local EXCEPT ![p].bin = Min(Usable(pool, LogFor(local[p].n))),
                                    ![p].i = FirstFree(pool, Min(Usable(pool, LogFor(local[p].n))))]
          /\ Serves(pool, local[p].n)
          /\ UNCHANGED <<pool, held, lock, owns, settled>>
      BY <1>1 DEF Search, Goes, Servable
    <2>2. settled = [pool |-> pool, stat |-> stat]
      BY <2>1, Alone DEF InCall, MidWay
    <2>3. /\ \A q \in Procs : q # p => local'[q] = local[q]
          /\ local'[p] = [n |-> local[p].n,
                          bin |-> BinFor(local[p].n),
                          i |-> FirstFree(settled.pool, BinFor(local[p].n))]
      <3>. DEFINE bin == BinFor(local[p].n)
                  i == FirstFree(settled.pool, bin)
      <3>1. settled.pool = pool
        BY <2>2
      <3>2. local' = [local EXCEPT ![p].bin = bin, ![p].i = i]
        BY <2>1, <3>1 DEF BinFor
      <3>. HIDE DEF bin, i
      <3>3. /\ \A q \in Procs : q # p => local'[q] = local[q]
            /\ local'[p] = [n |-> local[p].n, bin |-> bin, i |-> i]
        BY <2>1, <3>2 DEF LockInv, Shape
      <3>. QED
        BY <3>3 DEF bin, i
    <2>4. Shape'
      BY <2>1, <2>3 DEF LockInv, Shape, Stages
    <2>5. Searched(p)'
      BY <2>1, <2>2, <2>3 DEF Searched, BinFor
    <2>. QED
      BY <2>1, <2>2, <2>3, <2>4, <2>5, LockGoesOn DEF InCall, MidWay
  <1>2. CASE SearchFails(p)
    <2>1. pc[p] \in InCall
      BY <1>2 DEF SearchFails, Goes, InCall
    <2>2. UNCHANGED owns
      BY <1>2 DEF SearchFails
    <2>. QED
      BY <1>2, <2>1, <2>2, LockReturns DEF SearchFails, Goes, LockInv, Shape
  <1>3. CASE Unlink(p)
    <2>1. /\ pc[p] = "found" /\ pc' = [pc EXCEPT ![p] = "unlinked"]
          /\ pool' = mplite_unlink(pool, local[p].i, local[p].bin)
          /\ UNCHANGED <<stat, held, local, lock, owns, settled>>
      BY <1>3 DEF Unlink, Goes
    <2>2. Searched(p) /\ pool = settled.pool
      BY <2>1 DEF LockInv, AsSettled
    <2>3. Searched(p)'
      BY <2>1, <2>2 DEF Searched, BinFor
    <2>4. Shape'
      BY <2>1 DEF LockInv, Shape, Stages
    <2>. QED
      BY <2>1, <2>2, <2>3, <2>4, LockGoesOn DEF InCall, MidWay
  <1>4. CASE Cut(p)
    <2>1. pc[p] \in InCall
      BY <1>4 DEF Cut, Goes, InCall
    <2>2. owns' = [owns EXCEPT ![p] = @ \cup {Chunk(local[p].i, local[p].n, LogFor(local[p].n))}]
      BY <1>4 DEF Cut
    <2>3. \A q \in Procs : \A c \in owns'[q] : c = Chunk(c.b, c.size, c.log)
      BY <2>2 DEF LockInv, Shape, Chunk
    <2>4. owns' = [q \in Procs |-> owns'[q]]
      BY <2>2 DEF LockInv, Shape
    <2>. QED
      BY <1>4, <2>1, <2>3, <2>4, LockReturns DEF Cut, Goes
  <1>5. CASE Mark(p)
    <2>. DEFINE l == pool.aCtrl[local[p].b].log
    <2>1. /\ pc[p] = "mark" /\ pc' = [pc EXCEPT ![p] = "marked"]
          /\ pool' = MarkedIn(pool, local[p].b)
          /\ stat' = CountIn(stat, szAtom * 2 ^ l)
          /\ local' = [local EXCEPT ![p].log = l]
          /\ UNCHANGED <<held, lock, owns, settled>>
      BY <1>5 DEF Mark, Goes, MarkedIn
    <2>2. settled = [pool |-> pool, stat |-> stat]
      BY <2>1, Alone DEF InCall, MidWay
    <2>3. /\ \A q \in Procs : q # p => local'[q] = local[q]
          /\ local'[p] = Chunk(local[p].b, local[p].size, l)
          /\ local'[p].b = local[p].b /\ local'[p].log = l
      BY <2>1 DEF LockInv, Shape, Chunk
    <2>. HIDE DEF l
    <2>4. Shape'
      BY <2>1, <2>3 DEF LockInv, Shape, Stages, Chunk
    <2>5. l = settled.pool.aCtrl[local'[p].b].log
      BY <2>2, <2>3 DEF l
    <2>6. /\ pool' = MarkedIn(settled.pool, local'[p].b)
          /\ stat' = CountIn(settled.stat, szAtom * 2 ^ local'[p].log)
      BY <2>1, <2>2, <2>3
    <2>. QED
      BY <2>1, <2>3, <2>4, <2>5, <2>6, LockGoesOn DEF InCall, MidWay
  <1>6. CASE Merge(p)
    <2>1. pc[p] \in InCall
      BY <1>6 DEF Merge, Goes, InCall
    <2>2. UNCHANGED owns
      BY <1>6 DEF Merge
    <2>. QED
      BY <1>6, <2>1, <2>2, LockReturns DEF Merge, Goes, LockInv, Shape
  <1>. QED
    BY <1>1, <1>2, <1>3, <1>4, <1>5, <1>6 DEF Inside

LEMMA LockStep ==
    ASSUME Locked, LockInv, [SharedNext]_sharedVars
    PROVE  LockInv'
  <1>1. CASE UNCHANGED sharedVars
    BY <1>1 DEF sharedVars, vars, LockInv, Shape, Mutex, AsSettled, Searched, BinFor
  <1>2. ASSUME NEW p \in Procs,
               \/ \E n \in Requests : CallMalloc(p, n)
               \/ \E c \in owns[p] : CallFree(p, c)
        PROVE  LockInv'
    BY <1>2, LockOutside
  <1>3. ASSUME NEW p \in Procs, Enter(p)
        PROVE  LockInv'
    BY <1>3, LockEnter
  <1>4. ASSUME NEW p \in Procs, Inside(p)
        PROVE  LockInv'
    BY <1>4, LockInside
  <1>. QED
    BY <1>1, <1>2, <1>3, <1>4 DEF SharedNext

LEMMA LockAlways == ASSUME Locked PROVE SharedSpec => []LockInv
  <1>1. LockInv /\ [SharedNext]_sharedVars => LockInv'
    BY LockStep
  <1>. QED
    BY <1>1, LockInit, PTL DEF SharedSpec

(* "There is never any chance that two or more threads can be in this      *)
(* routine at the same time" (mplite.c:335), for any number of processes   *)
(* and whatever the pool holds.                                            *)
THEOREM OneInside ==
    ASSUME Locked
    PROVE  SharedSpec => [](\A p, q \in Procs : pc[p] \in InCall /\ pc[q] \in InCall => p = q)
  <1>1. LockInv => \A p, q \in Procs : pc[p] \in InCall /\ pc[q] \in InCall => p = q
    BY DEF LockInv, Mutex
  <1>. QED
    BY <1>1, LockAlways, PTL

------------------------------------------------------------------------------
(* The steps that can end the call of p.                                   *)
LEMMA EndsBy ==
    ASSUME LockInv, SharedNext, NEW p \in Procs, pc[p] # "idle", pc'[p] = "idle"
    PROVE  \/ pc[p] = "search" /\ SearchFails(p)
           \/ pc[p] = "unlinked" /\ Cut(p)
           \/ pc[p] = "marked" /\ Merge(p)
  <1>1. PICK q \in Procs :
            \/ \E n \in Requests : CallMalloc(q, n)
            \/ \E c \in owns[q] : CallFree(q, c)
            \/ Enter(q)
            \/ Inside(q)
    BY DEF SharedNext
  <1>2. PICK from \in Stages, to \in Stages : Goes(q, from, to)
    BY <1>1 DEF CallMalloc, CallFree, Enter, EnterMalloc, EnterFree, Inside, Search,
                SearchFails, Unlink, Cut, Mark, Merge, Stages
  <1>3. q = p
    BY <1>2 DEF Goes, LockInv, Shape
  <1>4. to = "idle" /\ from # "idle"
    BY <1>2, <1>3 DEF Goes, LockInv, Shape
  <1>5. ~ (\E n \in Requests : CallMalloc(p, n)) /\ ~ (\E c \in owns[p] : CallFree(p, c))
    BY DEF CallMalloc, CallFree, Goes
  <1>6. ~ Enter(p) /\ ~ Search(p) /\ ~ Unlink(p) /\ ~ Mark(p)
    BY DEF Enter, EnterMalloc, EnterFree, Search, Unlink, Mark, Goes, LockInv, Shape
  <1>. QED
    BY <1>1, <1>3, <1>5, <1>6 DEF Inside, SearchFails, Cut, Merge, Goes

(* What a call that ends has done, as a function of what the call before   *)
(* it left.                                                                *)
Atomically(p) ==
    LET n == local[p].n
        t == TakenFrom(settled.pool, settled.stat, n)
        b == local[p].b
    IN CASE pc[p] = "unlinked" ->
              /\ settled' = [pool |-> t.pool, stat |-> t.stat]
              /\ Chunk(t.i, n, t.chunk.log) \in owns'[p]
         [] pc[p] = "search" ->
              /\ ~ Serves(settled.pool, n)
              /\ settled' = [settled EXCEPT !.stat = Asked(@, n)]
         [] pc[p] = "marked" ->
              settled' = [pool |-> Released(settled.pool, b),
                          stat |-> CountIn(settled.stat, mplite_size(settled.pool, b))]

LEMMA EndsAtomically ==
    ASSUME LockInv, SharedNext, NEW p \in Procs, pc[p] # "idle", pc'[p] = "idle"
    PROVE  Atomically(p)
  <1>. DEFINE n == local[p].n
              t == TakenFrom(settled.pool, settled.stat, n)
              b == local[p].b
  <1>1. CASE pc[p] = "search" /\ SearchFails(p)
    <2>1. settled = [pool |-> pool, stat |-> stat]
      BY <1>1, Alone DEF InCall, MidWay
    <2>2. /\ ~ Serves(pool, n) /\ stat' = Asked(stat, n) /\ pool' = pool
          /\ settled' = [pool |-> pool', stat |-> stat']
      BY <1>1 DEF SearchFails, Returns, Servable
    <2>3. /\ ~ Serves(settled.pool, n)
          /\ settled' = [settled EXCEPT !.stat = Asked(@, n)]
      BY <2>1, <2>2
    <2>. QED
      BY <1>1, <2>3 DEF Atomically
  <1>2. CASE pc[p] = "unlinked" /\ Cut(p)
    <2>. DEFINE l == LogFor(n)
                bin == BinFor(n)
                i == FirstFree(settled.pool, bin)
    <2>1. /\ local[p].bin = bin /\ local[p].i = i
          /\ stat = Asked(settled.stat, n)
          /\ pool = mplite_unlink(settled.pool, i, bin)
      BY <1>2 DEF LockInv, AsSettled, Searched
    <2>2. /\ settled' = [pool |-> Split(pool, i, bin, l), stat |-> CountOut(stat, szAtom * 2 ^ l)]
          /\ owns' = [owns EXCEPT ![p] = @ \cup {Chunk(i, n, l)}]
      BY <1>2, <2>1 DEF Cut, Returns
    <2>3. t = [i |-> i,
               pool |-> Split(mplite_unlink(settled.pool, i, bin), i, bin, l),
               stat |-> CountOut(Asked(settled.stat, n), szAtom * 2 ^ l),
               chunk |-> [size |-> n, log |-> l]]
      BY DEF TakenFrom, BinFor
    <2>. HIDE DEF l, i, bin, t
    <2>4. settled' = [pool |-> t.pool, stat |-> t.stat]
      BY <2>1, <2>2, <2>3
    <2>5. Chunk(t.i, n, t.chunk.log) \in owns'[p]
      BY <2>2, <2>3 DEF LockInv, Shape
    <2>. QED
      BY <1>2, <2>4, <2>5 DEF Atomically, t
  <1>3. CASE pc[p] = "marked" /\ Merge(p)
    <2>. DEFINE l == local[p].log
    <2>1. /\ l = settled.pool.aCtrl[b].log
          /\ pool = MarkedIn(settled.pool, b)
          /\ stat = CountIn(settled.stat, szAtom * 2 ^ l)
      BY <1>3 DEF LockInv, AsSettled
    <2>2. settled' = [pool |-> Coalesced(pool, b, l), stat |-> stat]
      BY <1>3 DEF Merge, Returns
    <2>3. Released(settled.pool, b) = Coalesced(MarkedIn(settled.pool, b), b, settled.pool.aCtrl[b].log)
      BY DEF Released, MarkedIn
    <2>4. mplite_size(settled.pool, b) = szAtom * 2 ^ settled.pool.aCtrl[b].log
      BY DEF mplite_size
    <2>5. settled' = [pool |-> Released(settled.pool, b),
                      stat |-> CountIn(settled.stat, mplite_size(settled.pool, b))]
      BY <2>1, <2>2, <2>3, <2>4
    <2>. QED
      BY <1>3, <2>5 DEF Atomically
  <1>. QED
    BY <1>1, <1>2, <1>3, EndsBy

(* With the lock, what other processes do between two steps of a call      *)
(* never shows: each malloc and each free acts on the pool as the single   *)
(* function of Mplite would, at the moment it returns.                     *)
THEOREM CallsActAtOnce == ASSUME Locked PROVE SharedSpec => ActsAtOnce
  <1>1. LockInv /\ [SharedNext]_sharedVars =>
            [\A p \in Procs : pc[p] # "idle" /\ pc'[p] = "idle" => Atomically(p)]_sharedVars
    BY EndsAtomically
  <1>. QED
    BY <1>1, LockAlways, PTL DEF SharedSpec, ActsAtOnce, Atomically
------------------------------------------------------------------------------
(* What p was given and has not given back: a chunk that is being freed is *)
(* still out for those who look at the pool the last call left.            *)
Freeing(p) == pc[p] \in {"free", "mark", "marked"}
Asking(p) == pc[p] \in {"malloc", "search", "found", "unlinked"}

Away(p) == owns[p] \cup {c \in {local[p]} : Freeing(p)}

Out == {<<c.b, c.log>> : c \in UNION {Away(p) : p \in Procs}}

Lent ==
    /\ \A p \in Procs : Asking(p) => local[p].n \in Nat
    /\ \A p \in Procs : Freeing(p) => local[p] \notin owns[p]
    /\ \A p, q \in Procs : \A c \in Away(p), d \in Away(q) :
          c.b = d.b => p = q /\ c = d
    /\ \E F : Good(settled.pool, F, Out)

LEMMA LentInit == SharedInit => Lent
  <1>. SUFFICES ASSUME SharedInit
                PROVE  Lent
    OBVIOUS
  <1>1. \A p \in Procs : ~ Freeing(p) /\ ~ Asking(p) /\ Away(p) = {}
    BY DEF SharedInit, Freeing, Asking, Away
  <1>2. Out = {}
    BY <1>1 DEF Out
  <1>3. \E F : Good(settled.pool, F, {})
    <2>1. \E F : Good(pool, F, Owned(held))
      BY SoundInit DEF SharedInit, Inv, Sound
    <2>2. Owned(held) = {}
      <3>1. DOMAIN held = {}
        BY DEF SharedInit, Init
      <3>. QED
        BY <3>1 DEF Owned
    <2>. QED
      BY <2>1, <2>2 DEF SharedInit
  <1>. QED
    BY <1>1, <1>2, <1>3 DEF Lent

(* A step that gives no chunk out and takes none back.                     *)
LEMMA LentStays ==
    ASSUME Lent, settled'.pool = settled.pool,
           \A p \in Procs : /\ Away(p)' = Away(p)
                            /\ Asking(p)' => local'[p].n \in Nat
                            /\ Freeing(p)' => local'[p] \notin owns'[p]
    PROVE  Lent'
  <1>1. Out' = Out
    BY DEF Out
  <1>2. \A p \in Procs : Away(p)' = Away(p)
    OBVIOUS
  <1>3. \A p, q \in Procs : \A c \in Away(p)', d \in Away(q)' : c.b = d.b => p = q /\ c = d
    BY <1>2 DEF Lent
  <1>4. \E F : Good(settled'.pool, F, Out')
    BY <1>1 DEF Lent
  <1>. QED
    BY <1>3, <1>4 DEF Lent

LEMMA OnlyHere ==
    ASSUME LockInv, NEW p \in Procs, NEW from, NEW to, Goes(p, from, to)
    PROVE  /\ pc[p] = from /\ pc'[p] = to
           /\ \A q \in Procs : q # p => pc'[q] = pc[q]
  BY DEF Goes, LockInv, Shape

(* The steps of p that leave its own chunks and the settled pool alone.    *)
LEMMA LentHere ==
    ASSUME LockInv, Lent, NEW p \in Procs, NEW from, NEW to, Goes(p, from, to),
           settled'.pool = settled.pool, Away(p)' = Away(p),
           \A q \in Procs : q # p => local'[q] = local[q] /\ owns'[q] = owns[q],
           to \in {"malloc", "search", "found", "unlinked"} => local'[p].n \in Nat,
           to \in {"free", "mark", "marked"} => local'[p] \notin owns'[p]
    PROVE  Lent'
  <1>1. ASSUME NEW q \in Procs
        PROVE  /\ Away(q)' = Away(q)
               /\ Asking(q)' => local'[q].n \in Nat
               /\ Freeing(q)' => local'[q] \notin owns'[q]
    <2>1. CASE q = p
      BY <2>1, OnlyHere DEF Asking, Freeing
    <2>2. CASE q # p
      <3>1. pc'[q] = pc[q] /\ local'[q] = local[q] /\ owns'[q] = owns[q]
        BY <2>2, OnlyHere
      <3>. QED
        BY <3>1 DEF Away, Asking, Freeing, Lent
    <2>. QED
      BY <2>1, <2>2
  <1>. QED
    BY <1>1, LentStays

LEMMA LentOutside ==
    ASSUME LockInv, Lent, NEW p \in Procs,
           \/ \E n \in Requests : CallMalloc(p, n)
           \/ \E c \in owns[p] : CallFree(p, c)
           \/ Enter(p)
           \/ Search(p) \/ SearchFails(p) \/ Unlink(p) \/ Mark(p)
    PROVE  Lent'
  <1>1. ASSUME NEW n \in Requests, CallMalloc(p, n)
        PROVE  Lent'
    <2>1. /\ Goes(p, "idle", "malloc") /\ settled' = settled /\ owns' = owns
          /\ local'[p].n = n /\ \A q \in Procs : q # p => local'[q] = local[q]
      BY <1>1 DEF CallMalloc, LockInv, Shape, Goes
    <2>2. pc[p] = "idle" /\ pc'[p] = "malloc"
      BY <2>1, OnlyHere
    <2>3. Away(p)' = Away(p)
      BY <2>1, <2>2 DEF Away, Freeing
    <2>. QED
      BY <2>1, <2>3, MpliteAssumption, LentHere
  <1>2. ASSUME NEW c \in owns[p], CallFree(p, c)
        PROVE  Lent'
    <2>1. /\ Goes(p, "idle", "free") /\ settled' = settled
          /\ local'[p] = c /\ \A q \in Procs : q # p => local'[q] = local[q]
          /\ owns'[p] = owns[p] \ {c} /\ \A q \in Procs : q # p => owns'[q] = owns[q]
      BY <1>2 DEF CallFree, LockInv, Shape
    <2>2. pc[p] = "idle" /\ pc'[p] = "free"
      BY <2>1, OnlyHere
    <2>3. Away(p)' = Away(p)
      BY <2>1, <2>2 DEF Away, Freeing
    <2>. QED
      BY <2>1, <2>3, LentHere
  <1>3. CASE EnterMalloc(p)
    <2>1. Goes(p, "malloc", "search") /\ settled' = settled /\ owns' = owns /\ local' = local
      BY <1>3 DEF EnterMalloc
    <2>2. pc[p] = "malloc" /\ pc'[p] = "search"
      BY <2>1, OnlyHere
    <2>3. Away(p)' = Away(p) /\ local[p].n \in Nat
      BY <2>1, <2>2 DEF Away, Freeing, Asking, Lent
    <2>. QED
      BY <2>1, <2>3, LentHere
  <1>4. CASE EnterFree(p)
    <2>1. Goes(p, "free", "mark") /\ settled' = settled /\ owns' = owns /\ local' = local
      BY <1>4 DEF EnterFree
    <2>2. pc[p] = "free" /\ pc'[p] = "mark"
      BY <2>1, OnlyHere
    <2>3. Away(p)' = Away(p) /\ local[p] \notin owns[p]
      BY <2>1, <2>2 DEF Away, Freeing, Lent
    <2>. QED
      BY <2>1, <2>3, LentHere
  <1>5. CASE Search(p)
    <2>1. Goes(p, "search", "found") /\ settled' = settled /\ owns' = owns
          /\ \A q \in Procs : q # p => local'[q] = local[q]
      BY <1>5 DEF Search, LockInv, Shape
    <2>2. pc[p] = "search" /\ pc'[p] = "found"
      BY <2>1, OnlyHere
    <2>3. local'[p].n = local[p].n
      <3>1. local[p] = [n |-> local[p].n, bin |-> local[p].bin, i |-> local[p].i]
        BY <2>2 DEF LockInv, Shape
      <3>. QED
        BY <1>5, <3>1 DEF Search, LockInv, Shape
    <2>4. Away(p)' = Away(p) /\ local[p].n \in Nat
      BY <2>1, <2>2 DEF Away, Freeing, Asking, Lent
    <2>. QED
      BY <2>1, <2>3, <2>4, LentHere
  <1>6. CASE SearchFails(p)
    <2>1. Goes(p, "search", "idle") /\ settled'.pool = pool' /\ owns' = owns /\ pool' = pool
          /\ \A q \in Procs : q # p => local'[q] = local[q]
      BY <1>6 DEF SearchFails, Returns, LockInv, Shape
    <2>2. pc[p] = "search" /\ pc'[p] = "idle"
      BY <2>1, OnlyHere
    <2>3. settled.pool = pool
      BY <2>2, Alone DEF InCall, MidWay
    <2>4. Away(p)' = Away(p)
      BY <2>1, <2>2 DEF Away, Freeing
    <2>. QED
      BY <2>1, <2>3, <2>4, LentHere
  <1>7. CASE Unlink(p)
    <2>1. Goes(p, "found", "unlinked") /\ settled' = settled /\ owns' = owns /\ local' = local
      BY <1>7 DEF Unlink
    <2>2. pc[p] = "found" /\ pc'[p] = "unlinked"
      BY <2>1, OnlyHere
    <2>3. Away(p)' = Away(p) /\ local[p].n \in Nat
      BY <2>1, <2>2 DEF Away, Freeing, Asking, Lent
    <2>. QED
      BY <2>1, <2>3, LentHere
  <1>8. CASE Mark(p)
    <2>. DEFINE b == local[p].b
                l == pool.aCtrl[b].log
    <2>1. Goes(p, "mark", "marked") /\ settled' = settled /\ owns' = owns
          /\ local'[p] = [local[p] EXCEPT !.log = l]
          /\ \A q \in Procs : q # p => local'[q] = local[q]
      BY <1>8 DEF Mark, LockInv, Shape
    <2>2. pc[p] = "mark" /\ pc'[p] = "marked"
      BY <2>1, OnlyHere
    <2>3. settled.pool = pool
      BY <2>2, Alone DEF InCall, MidWay
    <2>4. local[p] = [b |-> local[p].b, size |-> local[p].size, log |-> local[p].log]
      BY <2>2 DEF LockInv, Shape, Chunk
    <2>5. l = local[p].log
      <3>1. PICK F : Good(pool, F, Out)
        BY <2>3 DEF Lent
      <3>2. local[p] \in Away(p)
        BY <2>2 DEF Away, Freeing
      <3>3. <<b, local[p].log>> \in Out
        BY <3>2 DEF Out
      <3>4. pool.aCtrl[b] = UsedChunk(local[p].log)
        BY <3>1, <3>3, Zenon DEF Good, Marked
      <3>. QED
        BY <3>4 DEF UsedChunk
    <2>. HIDE DEF l
    <2>6. local'[p] = local[p]
      BY <2>1, <2>4, <2>5
    <2>7. Away(p)' = Away(p) /\ local[p] \notin owns[p]
      BY <2>1, <2>2, <2>6 DEF Away, Freeing, Lent
    <2>. QED
      BY <2>1, <2>6, <2>7, LentHere
  <1>. QED
    BY <1>1, <1>2, <1>3, <1>4, <1>5, <1>6, <1>7, <1>8 DEF Enter
(* A chunk cut for p is one that nobody has.                               *)
LEMMA LentCut ==
    ASSUME LockInv, Lent, SharedNext, NEW p \in Procs, Cut(p)
    PROVE  Lent'
  <1>1. Goes(p, "unlinked", "idle")
    BY DEF Cut
  <1>2. pc[p] = "unlinked" /\ pc'[p] = "idle" /\ \A q \in Procs : q # p => pc'[q] = pc[q]
    BY <1>1, OnlyHere
  <1>. DEFINE n == local[p].n
              t == TakenFrom(settled.pool, settled.stat, n)
              c == Chunk(t.i, n, LogFor(n))
  <1>3. Serves(settled.pool, n) /\ t.i = local[p].i
    BY <1>2 DEF LockInv, AsSettled, Searched, TakenFrom, BinFor
  <1>4. n \in Int
    BY <1>2 DEF Lent, Asking
  <1>5. Atomically(p)
    BY <1>2, EndsAtomically
  <1>6. settled'.pool = t.pool
    BY <1>2, <1>5 DEF Atomically
  <1>7. PICK F : Good(settled.pool, F, Out)
    BY DEF Lent
  <1>8. /\ owns'[p] = owns[p] \cup {c}
        /\ \A q \in Procs : q # p => owns'[q] = owns[q] /\ local'[q] = local[q]
    <2>. DEFINE i == t.i
    <2>1. i = local[p].i
      BY <1>3
    <2>. HIDE DEF i, t
    <2>. QED
      BY <2>1 DEF Cut, Returns, LockInv, Shape, i
  <1>9. \E H : Good(t.pool, H, Out \cup {<<c.b, c.log>>}) /\ \A k : <<c.b, k>> \notin Out
    <2>. DEFINE U == Out
                s == settled.stat
                q == settled.pool
    <2>1. Good(q, F, U) /\ Serves(q, n)
      BY <1>3, <1>7
    <2>2. Takes(t, U, s, n)
      <3>1. t = TakenFrom(q, s, n)
        OBVIOUS
      <3>. HIDE DEF U, s, q, n, t
      <3>2. Takes(TakenFrom(q, s, n), U, s, n)
        BY <1>4, <2>1, TakenGood
      <3>. QED
        BY <3>1, <3>2
    <2>. QED
      BY <2>2 DEF Takes, Chunk
  <1>. HIDE DEF n, t, c
  <1>10. Away(p)' = Away(p) \cup {c} /\ \A q \in Procs : q # p => Away(q)' = Away(q)
    BY <1>2, <1>8 DEF Away, Freeing
  <1>11. Out' = Out \cup {<<c.b, c.log>>}
    <2>1. \A x : x \in Out' <=> \E q \in Procs : \E d \in Away(q)' : x = <<d.b, d.log>>
      BY DEF Out
    <2>2. \A x : x \in Out <=> \E q \in Procs : \E d \in Away(q) : x = <<d.b, d.log>>
      BY DEF Out
    <2>3. \A x : (\E q \in Procs : \E d \in Away(q)' : x = <<d.b, d.log>>)
                 <=> x = <<c.b, c.log>> \/ \E q \in Procs : \E d \in Away(q) : x = <<d.b, d.log>>
      BY <1>10
    <2>. QED
      BY <2>1, <2>2, <2>3
  <1>12. \A q \in Procs : \A d \in Away(q) : d.b # c.b
    <2>. SUFFICES ASSUME NEW q \in Procs, NEW d \in Away(q), d.b = c.b
                  PROVE  FALSE
      OBVIOUS
    <2>1. <<d.b, d.log>> \in Out
      BY DEF Out
    <2>. QED
      BY <1>9, <2>1
  <1>13. \A q, r \in Procs : \A d \in Away(q)', e \in Away(r)' : d.b = e.b => q = r /\ d = e
    BY <1>10, <1>12 DEF Lent
  <1>14. ASSUME NEW q \in Procs
         PROVE  /\ Asking(q)' => local'[q].n \in Nat
                /\ Freeing(q)' => local'[q] \notin owns'[q]
    <2>1. CASE q = p
      BY <1>2, <2>1 DEF Asking, Freeing
    <2>2. CASE q # p
      BY <1>2, <1>8, <2>2 DEF Asking, Freeing, Lent
    <2>. QED
      BY <2>1, <2>2
  <1>15. \E H : Good(settled'.pool, H, Out')
    BY <1>6, <1>9, <1>11
  <1>. QED
    BY <1>13, <1>14, <1>15 DEF Lent

(* A chunk that p has freed is nobody's.                                   *)
LEMMA LentMerge ==
    ASSUME LockInv, Lent, SharedNext, NEW p \in Procs, Merge(p)
    PROVE  Lent'
  <1>1. Goes(p, "marked", "idle") /\ owns' = owns
        /\ \A q \in Procs : q # p => local'[q] = local[q]
    BY DEF Merge, Returns, LockInv, Shape
  <1>2. pc[p] = "marked" /\ pc'[p] = "idle" /\ \A q \in Procs : q # p => pc'[q] = pc[q]
    BY <1>1, OnlyHere
  <1>. DEFINE c == local[p]
  <1>3. Away(p) = owns[p] \cup {c} /\ c \notin owns[p] /\ Away(p)' = owns[p]
        /\ \A q \in Procs : q # p => Away(q)' = Away(q)
    BY <1>1, <1>2 DEF Away, Freeing, Lent
  <1>4. settled'.pool = Released(settled.pool, c.b)
    <2>1. Atomically(p)
      BY <1>2, EndsAtomically
    <2>. QED
      BY <1>2, <2>1 DEF Atomically
  <1>5. PICK F : Good(settled.pool, F, Out)
    BY DEF Lent
  <1>6. \A q \in Procs : \A d \in Away(q)' : d \in Away(q) /\ d.b # c.b
    <2>1. c \in Away(p)
      BY <1>3
    <2>2. \A q \in Procs : \A d \in Away(q)' : d \in Away(q) /\ ~ (q = p /\ d = c)
      BY <1>3
    <2>. QED
      BY <2>1, <2>2 DEF Lent
  <1>. HIDE DEF c
  <1>7. <<c.b, c.log>> \notin Out'
    BY <1>6 DEF Out
  <1>8. Out = Out' \cup {<<c.b, c.log>>}
    <2>1. \A x : x \in Out' <=> \E q \in Procs : \E d \in Away(q)' : x = <<d.b, d.log>>
      BY DEF Out
    <2>2. \A x : x \in Out <=> \E q \in Procs : \E d \in Away(q) : x = <<d.b, d.log>>
      BY DEF Out
    <2>3. \A x : (\E q \in Procs : \E d \in Away(q) : x = <<d.b, d.log>>)
                 <=> x = <<c.b, c.log>> \/ \E q \in Procs : \E d \in Away(q)' : x = <<d.b, d.log>>
      BY <1>3
    <2>. QED
      BY <2>1, <2>2, <2>3
  <1>9. \E G : Good(settled'.pool, G, Out')
    <2>. DEFINE U == Out'
                q == settled.pool
                b == c.b
                l == c.log
    <2>1. Good(q, F, U \cup {<<b, l>>}) /\ <<b, l>> \notin U
      BY <1>5, <1>7, <1>8
    <2>2. \E G : Good(Released(q, b), G, U)
      <3>. HIDE DEF U, q, b, l
      <3>. QED
        BY <2>1, ReleasedGood
    <2>. QED
      BY <1>4, <2>2
  <1>10. \A q, r \in Procs : \A d \in Away(q)', e \in Away(r)' : d.b = e.b => q = r /\ d = e
    BY <1>6 DEF Lent
  <1>11. ASSUME NEW q \in Procs
         PROVE  /\ Asking(q)' => local'[q].n \in Nat
                /\ Freeing(q)' => local'[q] \notin owns'[q]
    <2>1. CASE q = p
      BY <1>2, <2>1 DEF Asking, Freeing
    <2>2. CASE q # p
      BY <1>1, <1>2, <2>2 DEF Asking, Freeing, Lent
    <2>. QED
      BY <2>1, <2>2
  <1>. QED
    BY <1>9, <1>10, <1>11 DEF Lent

LEMMA LentStep == LockInv /\ Lent /\ [SharedNext]_sharedVars => Lent'
  <1>. SUFFICES ASSUME LockInv, Lent, [SharedNext]_sharedVars
                PROVE  Lent'
    OBVIOUS
  <1>1. CASE UNCHANGED sharedVars
    <2>1. settled' = settled /\ local' = local /\ owns' = owns /\ pc' = pc
      BY <1>1 DEF sharedVars
    <2>2. \A p \in Procs : /\ Away(p)' = Away(p)
                           /\ Asking(p)' => local'[p].n \in Nat
                           /\ Freeing(p)' => local'[p] \notin owns'[p]
      BY <2>1 DEF Away, Asking, Freeing, Lent
    <2>. QED
      BY <2>1, <2>2, LentStays
  <1>2. CASE SharedNext
    <2>1. PICK p \in Procs : \/ \E n \in Requests : CallMalloc(p, n)
                             \/ \E c \in owns[p] : CallFree(p, c)
                             \/ Enter(p)
                             \/ Inside(p)
      BY <1>2 DEF SharedNext
    <2>2. CASE Cut(p)
      BY <1>2, <2>2, LentCut
    <2>3. CASE Merge(p)
      BY <1>2, <2>3, LentMerge
    <2>4. CASE \/ \E n \in Requests : CallMalloc(p, n)
               \/ \E c \in owns[p] : CallFree(p, c)
               \/ Enter(p)
               \/ Search(p) \/ SearchFails(p) \/ Unlink(p) \/ Mark(p)
      BY <2>4, LentOutside
    <2>. QED
      BY <2>1, <2>2, <2>3, <2>4 DEF Inside
  <1>. QED
    BY <1>1, <1>2

LEMMA LentApart == Lent => HeldApart
  <1>. SUFFICES ASSUME Lent
                PROVE  HeldApart
    OBVIOUS
  <1>1. PICK F : Good(settled.pool, F, Out)
    BY DEF Lent
  <1>2. Tiles(F \cup Out)
    BY <1>1 DEF Good
  <1>3. ASSUME NEW p \in Procs, NEW q \in Procs, NEW c \in owns[p], NEW d \in owns[q],
               ~ (p = q /\ c = d)
        PROVE  AtomsOf(c) \cap AtomsOf(d) = {}
    <2>1. c \in Away(p) /\ d \in Away(q)
      BY DEF Away
    <2>2. c.b # d.b
      BY <1>3, <2>1 DEF Lent
    <2>3. <<c.b, c.log>> \in F \cup Out /\ <<d.b, d.log>> \in F \cup Out
      BY <2>1 DEF Out
    <2>4. /\ c.b \in Nat /\ 2 ^ c.log \in Nat \ {0}
          /\ d.b \in Nat /\ 2 ^ d.log \in Nat \ {0}
      BY <1>2, <2>3, TilesTyped
    <2>5. ~ Meets(c.b, c.log, d.b, d.log)
      BY <1>2, <2>2, <2>3, Zenon DEF Tiles
    <2>. SUFFICES ASSUME NEW x \in AtomsOf(c), x \in AtomsOf(d)
                  PROVE  FALSE
      OBVIOUS
    <2>6. /\ x \in Int /\ c.b <= x /\ x < c.b + 2 ^ c.log
          /\ d.b <= x /\ x < d.b + 2 ^ d.log
      BY <2>4 DEF AtomsOf, ChunkAtoms
    <2>. QED
      BY <2>4, <2>5, <2>6 DEF Meets
  <1>. QED
    BY <1>3 DEF HeldApart

(* Memory one process was given is given to no other, nor twice to the     *)
(* same, while the lock is there to be taken.                              *)
THEOREM ChunksStayApart == ASSUME Locked PROVE SharedSpec => []HeldApart
  <1>1. SharedInit => LockInv /\ Lent
    BY LockInit, LentInit
  <1>2. LockInv /\ Lent /\ [SharedNext]_sharedVars => Lent'
    BY LentStep
  <1>. QED
    BY <1>1, <1>2, LockAlways, LentApart, PTL DEF SharedSpec
=============================================================================
