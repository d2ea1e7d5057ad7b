----------------------------- MODULE OrderLemmas -----------------------------
(***************************************************************************)
(* Facts about numbers that the proofs of several modules rest on.         *)
(*                                                                         *)
(* Induction is stated over a set instead of a predicate: the least number *)
(* that is not in it does not exist.  A recursive function of the models   *)
(* is reasoned about by giving the set of arguments at which it has the    *)
(* property in question.                                                   *)
(***************************************************************************)
EXTENDS Integers, FiniteSetsExt, FiniteSetTheorems, WellFoundedInduction, TLAPS

(* A set of natural numbers that is not empty has a least element.         *)
LEMMA HasLeast ==
    ASSUME NEW S \in SUBSET Nat, S # {}
    PROVE  \E x \in S : \A y \in S : x <= y
  <1>1. PICK x \in S : \A y \in S : ~ (<<y, x>> \in OpToRel(<, Nat))
    BY NatLessThanWellFounded, WFMin
  <1>2. OpToRel(<, Nat) = {ss \in Nat \X Nat : ss[1] < ss[2]}
    BY Zenon DEF OpToRel
  <1>3. ASSUME NEW y \in S
        PROVE  x <= y
    <2>1. <<y, x>> \notin {ss \in Nat \X Nat : ss[1] < ss[2]}
      BY <1>1, <1>2, Zenon
    <2>. QED
      BY <2>1
  <1>. QED
    BY <1>3

(* It is what Min returns.                                                 *)
LEMMA MinIsLeast ==
    ASSUME NEW S \in SUBSET Nat, S # {}
    PROVE  Min(S) \in S /\ \A y \in S : Min(S) <= y
  <1>1. \E x \in S : \A y \in S : x =< y
    BY HasLeast
  <1>. QED
    BY <1>1, Zenon DEF Min

LEMMA NatSetInduction ==
    ASSUME NEW S, 0 \in S, \A n \in Nat : n \in S => n + 1 \in S
    PROVE  Nat \subseteq S
  <1>. SUFFICES ASSUME Nat \ S # {}
                PROVE  FALSE
    OBVIOUS
  <1>1. PICK x \in Nat \ S : \A y \in Nat \ S : x <= y
    BY HasLeast
  <1>2. x # 0 /\ x - 1 \in Nat
    BY <1>1
  <1>. QED
    BY <1>1, <1>2

------------------------------------------------------------------------------
(* Division.                                                               *)
LEMMA RemainderRange ==
    ASSUME NEW x \in Int, NEW m \in Nat \ {0}
    PROVE  x % m \in 0..(m - 1)
  BY Z3

LEMMA SmallRemainder ==
    ASSUME NEW m \in Nat \ {0}, NEW x \in Nat, x < m
    PROVE  x % m = x
  BY Z3

LEMMA QuotientRange ==
    ASSUME NEW x \in Nat, NEW m \in Nat \ {0}
    PROVE  /\ x \div m \in Nat
           /\ (x \div m) * m <= x /\ x < (x \div m) * m + m
           /\ x >= m => x \div m >= 1
  BY Z3

(* Equal pieces side by side do not meet.                                  *)
LEMMA PiecesApart ==
    ASSUME NEW b \in Nat, NEW c \in Nat, NEW s \in Nat, b < c
    PROVE  b * s \in Nat /\ c * s \in Nat /\ b * s + s <= c * s
  <1>1. c - b - 1 \in Nat
    OBVIOUS
  <1>2. c * s = b * s + s + (c - b - 1) * s
    BY Z3
  <1>3. (c - b - 1) * s >= 0 /\ b * s \in Nat /\ c * s \in Nat
    BY <1>1, Z3
  <1>. QED
    BY <1>2, <1>3

(* A number lies in one piece only.                                        *)
LEMMA SamePiece ==
    ASSUME NEW b \in Nat, NEW c \in Nat, NEW s \in Nat, NEW x \in Nat,
           b * s <= x, x < b * s + s, c * s <= x, x < c * s + s
    PROVE  b = c
  <1>. DEFINE u == b * s
              v == c * s
  <1>1. u \in Nat /\ v \in Nat
    BY Z3
  <1>2. b < c => u + s <= v
    BY PiecesApart
  <1>3. c < b => v + s <= u
    BY PiecesApart
  <1>4. u <= x /\ x < u + s /\ v <= x /\ x < v + s
    OBVIOUS
  <1>. HIDE DEF u, v
  <1>. QED
    BY <1>1, <1>2, <1>3, <1>4

(* A piece that meets a run of pieces, itself at a multiple of its length, *)
(* lies inside the run.                                                    *)
LEMMA PieceInRun ==
    ASSUME NEW e \in Nat, NEW s \in Nat, NEW Q \in Nat, NEW m \in Nat, NEW x \in Nat,
           e * s <= x, x < e * s + s, Q * (m * s) <= x, x < Q * (m * s) + m * s
    PROVE  Q * (m * s) <= e * s /\ e * s + s <= Q * (m * s) + m * s
  <1>. DEFINE u == e * s
              v == (Q * m) * s
              w == (Q * m + m) * s
  <1>1. Q * m \in Nat /\ Q * m + m \in Nat
    BY Z3
  <1>2. Q * (m * s) = v /\ Q * (m * s) + m * s = w
    BY Z3
  <1>3. u \in Nat /\ v \in Nat /\ w \in Nat
    BY <1>1, Z3
  <1>4. e < Q * m => u + s <= v
    BY <1>1, PiecesApart
  <1>5. Q * m < e => v + s <= u
    BY <1>1, PiecesApart
  <1>6. e < Q * m + m => u + s <= w
    BY <1>1, PiecesApart
  <1>7. Q * m + m < e => w + s <= u
    BY <1>1, PiecesApart
  <1>8. e = Q * m => u = v
    OBVIOUS
  <1>9. e = Q * m + m => u = w
    OBVIOUS
  <1>10. u <= x /\ x < u + s /\ v <= x /\ x < w
    BY <1>2
  <1>. HIDE DEF u, v, w
  <1>11. v <= u /\ u + s <= w
    BY <1>1, <1>3, <1>4, <1>5, <1>6, <1>7, <1>8, <1>9, <1>10
  <1>. QED
    BY <1>2, <1>11 DEF u

(* The two halves of a pair of pieces.                                     *)
LEMMA Halves ==
    ASSUME NEW q \in Nat, NEW s \in Nat \ {0}
    PROVE  /\ (q * s) \div s = q
           /\ q % 2 = 1 => \E e \in Nat : q * s - s = e * (2 * s) /\ q * s = e * (2 * s) + s
           /\ q % 2 # 1 => \E e \in Nat : q * s = e * (2 * s)
  <1>1. (q * s) \div s = q
    BY Z3
  <1>2. q \div 2 \in Nat /\ (q % 2 = 1 => q = 2 * (q \div 2) + 1)
        /\ (q % 2 # 1 => q = 2 * (q \div 2))
    OBVIOUS
  <1>3. \A e \in Nat : (2 * e) * s = e * (2 * s) /\ (2 * e + 1) * s = e * (2 * s) + s
    BY Z3
  <1>4. \A e \in Nat : e * (2 * s) \in Nat
    BY Z3
  <1>. QED
    BY <1>1, <1>2, <1>3, <1>4

------------------------------------------------------------------------------
(* The lesser and the greater of two numbers.                              *)
LEMMA MinOfTwo ==
    ASSUME NEW a \in Nat, NEW b \in Nat
    PROVE  /\ a <= b => Min({a, b}) = a
           /\ b <= a => Min({a, b}) = b
  BY MinIsLeast

LEMMA MaxOfTwo ==
    ASSUME NEW a \in Nat, NEW b \in Nat
    PROVE  /\ a <= b => Max({a, b}) = b
           /\ b <= a => Max({a, b}) = a
  <1>1. \E x \in {a, b} : \A y \in {a, b} : x >= y
    OBVIOUS
  <1>2. Max({a, b}) \in {a, b} /\ \A y \in {a, b} : Max({a, b}) >= y
    BY <1>1, Zenon DEF Max
  <1>. QED
    BY <1>2

------------------------------------------------------------------------------
(* Powers of two, counted as subsets.                                      *)
LEMMA PowerNext ==
    ASSUME NEW n \in Nat
    PROVE  2 ^ n \in Nat /\ 2 ^ (n + 1) = 2 * 2 ^ n
  <1>. DEFINE S == SUBSET (1..n)
              T == {B \cup {n + 1} : B \in S}
  <1>1. IsFiniteSet(1..n) /\ Cardinality(1..n) = n
    BY FS_Interval
  <1>2. IsFiniteSet(1..(n + 1)) /\ Cardinality(1..(n + 1)) = n + 1
    BY FS_Interval
  <1>3. IsFiniteSet(S) /\ Cardinality(S) = 2 ^ n
    BY <1>1, FS_SUBSET
  <1>4. Cardinality(SUBSET (1..(n + 1))) = 2 ^ (n + 1)
    BY <1>2, FS_SUBSET
  <1>5. Cardinality(T) = Cardinality(S) /\ IsFiniteSet(T)
    <2>. DEFINE f == [B \in S |-> B \cup {n + 1}]
    <2>1. \A B \in S : B = (B \cup {n + 1}) \ {n + 1}
      OBVIOUS
    <2>. HIDE DEF S
    <2>4. f \in [S -> T] /\ \A B \in S : f[B] = B \cup {n + 1}
      OBVIOUS
    <2>5. \A A, B \in S : f[A] = f[B] => A = B
      BY <2>1, <2>4
    <2>6. \A t \in T : \E B \in S : f[B] = t
      BY <2>4
    <2>. HIDE DEF f, T
    <2>2. f \in Bijection(S, T)
      BY <2>4, <2>5, <2>6 DEF Bijection, Injection, Surjection, IsInjective
    <2>3. ExistsBijection(S, T)
      BY <2>2, Zenon DEF ExistsBijection
    <2>. QED
      BY <1>3, <2>3, FS_Bijection, Zenon
  <1>6. S \cup T = SUBSET (1..(n + 1))
    <2>1. ASSUME NEW B \in SUBSET (1..(n + 1))
          PROVE  B \in S \cup T
      <3>1. CASE n + 1 \in B
        <4>1. B = (B \ {n + 1}) \cup {n + 1} /\ B \ {n + 1} \in S
          BY <3>1
        <4>. QED
          BY <4>1
      <3>2. CASE n + 1 \notin B
        BY <3>2
      <3>. QED
        BY <3>1, <3>2
    <2>2. n + 1 \in 1..(n + 1) /\ 1..n \subseteq 1..(n + 1)
      OBVIOUS
    <2>3. \A B \in S : B \subseteq 1..(n + 1) /\ B \cup {n + 1} \subseteq 1..(n + 1)
      BY <2>2
    <2>4. \A B \in T : B \in SUBSET (1..(n + 1))
      BY <2>3
    <2>5. \A B \in S : B \in SUBSET (1..(n + 1))
      BY <2>3
    <2>. HIDE DEF S, T
    <2>. QED
      BY <2>1, <2>4, <2>5
  <1>7. S \cap T = {}
    OBVIOUS
  <1>8. Cardinality(S \cup T) = Cardinality(S) + Cardinality(T)
    <2>. HIDE DEF S, T
    <2>1. Cardinality(S \cap T) = 0
      BY <1>7, FS_EmptySet
    <2>2. Cardinality(S \cup T) = Cardinality(S) + Cardinality(T) - Cardinality(S \cap T)
      BY <1>3, <1>5, FS_Union, Zenon
    <2>3. Cardinality(S) \in Nat /\ Cardinality(T) \in Nat
      BY <1>3, <1>5, FS_CardinalityType, Zenon
    <2>. QED
      BY <2>1, <2>2, <2>3
  <1>9. Cardinality(S) \in Nat
    BY <1>3, FS_CardinalityType, Zenon
  <1>10. 2 ^ (n + 1) = Cardinality(S) + Cardinality(S)
    BY <1>4, <1>5, <1>6, <1>8, Zenon
  <1>. HIDE DEF S, T
  <1>. QED
    BY <1>3, <1>9, <1>10

LEMMA PowerPositive ==
    ASSUME NEW n \in Nat
    PROVE  2 ^ n \in Nat \ {0} /\ n < 2 ^ n
  <1>. DEFINE S == {m \in Nat : m < 2 ^ m}
  <1>1. 0 \in S
    OBVIOUS
  <1>2. ASSUME NEW m \in Nat, m \in S
        PROVE  m + 1 \in S
    <2>1. 2 ^ m \in Nat /\ 2 ^ (m + 1) = 2 * 2 ^ m /\ m < 2 ^ m
      BY <1>2, PowerNext
    <2>. QED
      BY <2>1
  <1>. HIDE DEF S
  <1>3. n \in S
    BY <1>1, <1>2, NatSetInduction
  <1>. QED
    BY <1>3, PowerNext DEF S

LEMMA PowerSum ==
    ASSUME NEW a \in Nat, NEW b \in Nat
    PROVE  2 ^ (a + b) = 2 ^ b * 2 ^ a
  <1>. DEFINE S == {m \in Nat : 2 ^ (a + m) = 2 ^ m * 2 ^ a}
  <1>1. 0 \in S
    BY PowerNext
  <1>2. ASSUME NEW m \in Nat, m \in S
        PROVE  m + 1 \in S
    <2>. DEFINE u == 2 ^ m
                v == 2 ^ a
    <2>1. u \in Nat /\ v \in Nat /\ 2 ^ (m + 1) = 2 * u
      BY PowerNext
    <2>2. 2 ^ (a + m) = u * v /\ 2 ^ ((a + m) + 1) = 2 * 2 ^ (a + m)
      BY <1>2, PowerNext
    <2>3. (a + m) + 1 = a + (m + 1)
      OBVIOUS
    <2>. HIDE DEF u, v
    <2>4. 2 * (u * v) = (2 * u) * v
      BY <2>1, Z3
    <2>. QED
      BY <2>1, <2>2, <2>3, <2>4 DEF v
  <1>. HIDE DEF S
  <1>3. b \in S
    BY <1>1, <1>2, NatSetInduction
  <1>. QED
    BY <1>3 DEF S

LEMMA PowersGrow ==
    ASSUME NEW a \in Nat, NEW b \in Nat
    PROVE  /\ a <= b => /\ 2 ^ a <= 2 ^ b
                        /\ \E m \in Nat \ {0} : 2 ^ b = m * 2 ^ a
           /\ a < b => /\ 2 * 2 ^ a <= 2 ^ b
                       /\ \E m \in Nat \ {0} : 2 ^ b = m * (2 * 2 ^ a)
  <1>1. ASSUME NEW x \in Nat, NEW y \in Nat, x <= y
        PROVE  /\ 2 ^ x <= 2 ^ y
               /\ \E m \in Nat \ {0} : 2 ^ y = m * 2 ^ x
    <2>1. y - x \in Nat /\ y = x + (y - x)
      BY <1>1
    <2>. DEFINE m == 2 ^ (y - x)
                u == 2 ^ x
    <2>2. 2 ^ y = m * u /\ m \in Nat \ {0} /\ u \in Nat
      BY <2>1, PowerSum, PowerPositive
    <2>. HIDE DEF m, u
    <2>3. m * u >= u
      BY <2>2, Z3
    <2>. QED
      BY <2>2, <2>3 DEF u
  <1>2. ASSUME a < b
        PROVE  /\ 2 * 2 ^ a <= 2 ^ b
               /\ \E m \in Nat \ {0} : 2 ^ b = m * (2 * 2 ^ a)
    <2>1. 2 ^ (a + 1) = 2 * 2 ^ a /\ a + 1 <= b
      BY <1>2, PowerNext
    <2>2. 2 ^ (a + 1) <= 2 ^ b /\ \E m \in Nat \ {0} : 2 ^ b = m * 2 ^ (a + 1)
      BY <1>1, <2>1
    <2>. QED
      BY <2>1, <2>2
  <1>. QED
    BY <1>1, <1>2

------------------------------------------------------------------------------
(* A function defined by recursion on numbers exists: G[k] makes its value *)
(* at k of the value at k - 1.                                             *)
Ascents(n, V, v0, G) ==
    {f \in [0..n -> V] : f[0] = v0 /\ \A k \in 1..n : f[k] = G[k][f[k - 1]]}

LEMMA AscentExists ==
    ASSUME NEW n \in Nat, NEW V, NEW v0 \in V, NEW G \in [1..n -> [V -> V]]
    PROVE  Ascents(n, V, v0, G) # {}
  <1>. DEFINE Upto(m) == {f \in [0..m -> V] : f[0] = v0 /\ \A k \in 1..m : f[k] = G[k][f[k - 1]]}
              S == {m \in Nat : m <= n => Upto(m) # {}}
  <1>1. 0 \in S
    <2>1. [k \in 0..0 |-> v0] \in Upto(0)
      OBVIOUS
    <2>. QED
      BY <2>1
  <1>2. ASSUME NEW m \in Nat, m \in S
        PROVE  m + 1 \in S
    <2>. SUFFICES ASSUME m + 1 <= n
                  PROVE  Upto(m + 1) # {}
      OBVIOUS
    <2>1. PICK f \in [0..m -> V] : f[0] = v0 /\ \A k \in 1..m : f[k] = G[k][f[k - 1]]
      BY <1>2
    <2>. DEFINE g == [k \in 0..(m + 1) |-> IF k = m + 1 THEN G[m + 1][f[m]] ELSE f[k]]
    <2>2. m + 1 \in 1..n /\ f[m] \in V
      OBVIOUS
    <2>3. G[m + 1][f[m]] \in V
      BY <2>2
    <2>4. g \in [0..(m + 1) -> V]
      BY <2>3
    <2>5. g[0] = v0 /\ \A k \in 1..(m + 1) : g[k] = G[k][g[k - 1]]
      BY <2>1
    <2>6. g \in Upto(m + 1)
      BY <2>4, <2>5
    <2>. QED
      BY <2>6
  <1>. HIDE DEF S
  <1>3. Nat \subseteq S
    BY <1>1, <1>2, NatSetInduction
  <1>4. n \in S
    BY <1>3
  <1>. QED
    BY <1>4 DEF S, Ascents

(* The same from hi down to lo.                                            *)
Descents(lo, hi, V, v0, G) ==
    {f \in [lo..hi -> V] : f[hi] = v0 /\ \A k \in lo..(hi - 1) : f[k] = G[k][f[k + 1]]}

LEMMA DescentExists ==
    ASSUME NEW lo \in Nat, NEW hi \in Nat, lo <= hi, NEW V, NEW v0 \in V,
           NEW G \in [lo..(hi - 1) -> [V -> V]]
    PROVE  Descents(lo, hi, V, v0, G) # {}
  <1>. DEFINE n == hi - lo
              H == [k \in 1..n |-> G[hi - k]]
  <1>1. n \in Nat
    OBVIOUS
  <1>2. H \in [1..n -> [V -> V]]
    <2>1. \A k \in 1..n : hi - k \in lo..(hi - 1)
      OBVIOUS
    <2>. QED
      BY <2>1
  <1>3. PICK g \in [0..n -> V] : g[0] = v0 /\ \A k \in 1..n : g[k] = H[k][g[k - 1]]
    <2>. HIDE DEF n, H
    <2>1. Ascents(n, V, v0, H) # {}
      BY <1>1, <1>2, AscentExists
    <2>. QED
      BY <2>1 DEF Ascents
  <1>. DEFINE f == [k \in lo..hi |-> g[hi - k]]
  <1>4. f \in [lo..hi -> V] /\ f[hi] = v0
    <2>1. \A k \in lo..hi : hi - k \in 0..n
      OBVIOUS
    <2>. QED
      BY <1>3, <2>1
  <1>5. ASSUME NEW k \in lo..(hi - 1)
        PROVE  f[k] = G[k][f[k + 1]]
    <2>1. hi - k \in 1..n /\ hi - (hi - k) = k /\ (hi - k) - 1 = hi - (k + 1)
      OBVIOUS
    <2>2. g[hi - k] = H[hi - k][g[(hi - k) - 1]] /\ H[hi - k] = G[k]
      BY <1>3, <2>1
    <2>3. k \in lo..hi /\ k + 1 \in lo..hi
      OBVIOUS
    <2>. QED
      BY <2>1, <2>2, <2>3
  <1>. QED
    BY <1>4, <1>5 DEF Descents

(* Induction downwards.                                                    *)
LEMMA DescentInduction ==
    ASSUME NEW lo \in Nat, NEW hi \in Nat, lo <= hi, NEW S, hi \in S,
           \A k \in lo..(hi - 1) : k + 1 \in S => k \in S
    PROVE  lo..hi \subseteq S
  <1>. DEFINE T == {n \in Nat : n <= hi - lo => hi - n \in S}
  <1>1. 0 \in T
    OBVIOUS
  <1>2. ASSUME NEW n \in Nat, n \in T
        PROVE  n + 1 \in T
    <2>. SUFFICES ASSUME n + 1 <= hi - lo
                  PROVE  hi - (n + 1) \in S
      OBVIOUS
    <2>1. hi - n \in S /\ hi - (n + 1) \in lo..(hi - 1) /\ (hi - (n + 1)) + 1 = hi - n
      BY <1>2
    <2>. QED
      BY <2>1
  <1>. HIDE DEF T
  <1>3. Nat \subseteq T
    BY <1>1, <1>2, NatSetInduction
  <1>4. ASSUME NEW k \in lo..hi
        PROVE  k \in S
    <2>1. hi - k \in T /\ hi - k \in Nat /\ hi - k <= hi - lo /\ hi - (hi - k) = k
      BY <1>3
    <2>. QED
      BY <2>1 DEF T
  <1>. QED
    BY <1>4
==============================================================================
