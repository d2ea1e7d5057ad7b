----------------------------- MODULE AllocProofs -----------------------------
(***************************************************************************)
(* Theorems about alloc.c and nofree.c as module Buffers runs them, and    *)
(* about a buffer whatever allocator it has: for every size of pool and    *)
(* geometry of pages, under the hypotheses that each states about what     *)
(* callers ask for.                                                        *)
(***************************************************************************)
EXTENDS BuffersProofs, Sequences, FiniteSetTheorems

------------------------------------------------------------------------------
(* Sizes and page numbers.                                                 *)

PerLarge == Al!SMALL_PAGES_PER_LARGE_PAGE
Small == Al!SmallSize
NumWhole == LargePool \div Al!LargeSize
LastPage == (LargePool - 1) \div Small

LEMMA LargeMinMax == \A X : Al!Min(X) = Min(X) /\ Al!Max(X) = Max(X)
  BY DEF Al!Min, Al!Max, Min, Max

LEMMA LargeAssumed ==
    /\ MaxLarge \in Nat \ {0} /\ LargeBits \in Nat \ {0} /\ ObjectOrder \in Nat \ {0}
    /\ PageHeader \in Nat \ {0} /\ LongBits \in Nat \ {0} /\ Word \in Nat \ {0}
    /\ HugeStruct \in Nat \ {0} /\ MaxHeld \in Nat \ {0}
    /\ LargePool \in Nat /\ LargePool > Al!LargeSize
    /\ LargePool >= MaxLarge * PerLarge
    /\ LargeHeader \in 1..(Al!LargeSize - 1)
    /\ Modulus \in Nat /\ LargeAsked \subseteq 1..(Modulus - 1) /\ UserData \subseteq Nat
  BY BuffersAssumption DEF Al!AllocAssumption, PerLarge

LEMMA SameAfls == \A v : Al!afls(v) = Ti!afls(v)
  BY DEF Al!afls, Ti!afls

(* Small and large pages are powers of two, a large one the longer.        *)
LEMMA PageSizes ==
    /\ Al!small_page_bits \in Nat /\ Small \in Nat \ {0} /\ Small = 2 ^ Al!small_page_bits
    /\ PerLarge \in Nat /\ PerLarge >= 2
    /\ Al!LargeSize = Small * PerLarge /\ Al!LargeSize \in Nat \ {0}
  <1>1. PerLarge \in Nat /\ PerLarge >= 2
    <2>1. LargeBits - 1 \in Nat /\ LargeBits = (LargeBits - 1) + 1
      BY LargeAssumed
    <2>2. 2 ^ (LargeBits - 1) \in Nat \ {0} /\ 2 ^ LargeBits = 2 * 2 ^ (LargeBits - 1)
      BY <2>1, PowerPositive, PowerNext
    <2>. QED
      BY <2>2 DEF PerLarge, Al!SMALL_PAGES_PER_LARGE_PAGE
  <1>. DEFINE m == MaxLarge * PerLarge
  <1>2. m \in Nat \ {0} /\ LargePool >= m
    <2>1. m \in Nat /\ m > 0
      BY <1>1, LargeAssumed, Z3
    <2>. QED
      BY <2>1, LargeAssumed
  <1>3. LargePool \div m - 1 \in Nat
    <2>. HIDE DEF m
    <2>1. LargePool \div m \in Nat /\ LargePool \div m >= 1
      BY <1>2, LargeAssumed, QuotientRange
    <2>. QED
      BY <2>1
  <1>4. Al!small_page_bits = Ti!afls(LargePool \div m - 1)
    BY SameAfls DEF Al!small_page_bits, PerLarge
  <1>5. Al!small_page_bits \in Nat
    <2>. HIDE DEF m
    <2>. QED
      BY <1>3, <1>4, AflsIs
  <1>6. Small = 2 ^ Al!small_page_bits /\ Small \in Nat \ {0}
    BY <1>5, PowerPositive DEF Small, Al!SmallSize
  <1>7. Al!LargeSize = Small * PerLarge /\ Al!LargeSize \in Nat \ {0}
    <2>1. Al!LargeSize = Small * PerLarge
      BY DEF Small, Al!LargeSize, PerLarge
    <2>2. Small * PerLarge \in Nat /\ Small * PerLarge > 0
      BY <1>1, <1>6, Z3
    <2>. QED
      BY <2>1, <2>2
  <1>. QED
    BY <1>1, <1>5, <1>6, <1>7

(* The small pages of a large one, which are numbered from its own number. *)
LEMMA PageNumbers ==
    /\ \A l \in Nat : /\ Al!FirstOf(l) = l * PerLarge /\ Al!FirstOf(l) \in Nat
                      /\ Al!SmallPagesOf(l) = (l * PerLarge)..(l * PerLarge + PerLarge - 1)
                      /\ Al!FirstOf(l) \in Al!SmallPagesOf(l)
                      /\ Al!LargeOf(Al!FirstOf(l)) = l
    /\ \A pg \in Nat : /\ Al!LargeOf(pg) \in Nat /\ pg \in Al!SmallPagesOf(Al!LargeOf(pg))
                       /\ Al!FirstOf(Al!LargeOf(pg)) <= pg
    /\ \A l \in Nat : \A pg \in Al!SmallPagesOf(l) : pg \in Nat /\ Al!LargeOf(pg) = l
  <1>1. PerLarge \in Nat /\ PerLarge >= 2
    BY PageSizes
  <1>2. ASSUME NEW l \in Nat
        PROVE  /\ Al!FirstOf(l) = l * PerLarge /\ Al!FirstOf(l) \in Nat
               /\ Al!SmallPagesOf(l) = (l * PerLarge)..(l * PerLarge + PerLarge - 1)
               /\ Al!FirstOf(l) \in Al!SmallPagesOf(l)
    <2>1. l * PerLarge \in Nat
      BY <1>1, Z3
    <2>2. Al!FirstOf(l) = l * PerLarge
      BY DEF Al!FirstOf, PerLarge
    <2>3. Al!SmallPagesOf(l) = (l * PerLarge)..(l * PerLarge + PerLarge - 1)
      BY DEF Al!FirstOf, Al!SmallPagesOf, PerLarge
    <2>. QED
      BY <1>1, <2>1, <2>2, <2>3
  <1>3. ASSUME NEW pg \in Nat
        PROVE  /\ Al!LargeOf(pg) \in Nat /\ pg \in Al!SmallPagesOf(Al!LargeOf(pg))
               /\ Al!FirstOf(Al!LargeOf(pg)) <= pg
    <2>. DEFINE q == pg \div PerLarge
    <2>1. q \in Nat /\ q * PerLarge <= pg /\ pg < q * PerLarge + PerLarge
      BY <1>1, QuotientRange
    <2>2. Al!LargeOf(pg) = q
      BY DEF Al!LargeOf, PerLarge
    <2>. HIDE DEF q
    <2>3. q * PerLarge \in Nat
      BY <1>1, <2>1, Z3
    <2>4. pg \in (q * PerLarge)..(q * PerLarge + PerLarge - 1)
      BY <1>1, <2>1, <2>3
    <2>. QED
      BY <1>2, <2>1, <2>2, <2>4
  <1>4. ASSUME NEW l \in Nat, NEW pg \in Al!SmallPagesOf(l)
        PROVE  pg \in Nat /\ Al!LargeOf(pg) = l
    <2>1. l * PerLarge \in Nat
      BY <1>1, Z3
    <2>2. pg \in Nat /\ l * PerLarge <= pg /\ pg < l * PerLarge + PerLarge
      <3>. DEFINE u == l * PerLarge
      <3>1. pg \in u..(u + PerLarge - 1) /\ u \in Nat
        BY <1>2, <2>1
      <3>. HIDE DEF u
      <3>2. pg \in Nat /\ u <= pg /\ pg < u + PerLarge
        BY <1>1, <3>1
      <3>. QED
        BY <3>2 DEF u
    <2>. DEFINE q == pg \div PerLarge
    <2>3. q \in Nat /\ q * PerLarge <= pg /\ pg < q * PerLarge + PerLarge
      BY <1>1, <2>2, QuotientRange
    <2>4. Al!LargeOf(pg) = q
      BY DEF Al!LargeOf, PerLarge
    <2>. HIDE DEF q
    <2>5. q = l
      BY <1>1, <2>2, <2>3, SamePiece
    <2>. QED
      BY <2>2, <2>4, <2>5
  <1>5. \A l \in Nat : Al!LargeOf(Al!FirstOf(l)) = l
    BY <1>2, <1>4
  <1>. QED
    BY <1>2, <1>3, <1>4, <1>5

(* align_up.                                                               *)
LEMMA LargeAligned ==
    ASSUME NEW x \in Nat, NEW n \in Nat \ {0}
    PROVE  /\ Al!align_up(x, n) \in Nat /\ Al!align_up(x, n) >= x /\ Al!align_up(x, n) < x + n
           /\ Al!align_up(x, n) \div n \in Nat
           /\ Al!align_up(x, n) = (Al!align_up(x, n) \div n) * n
  <1>. DEFINE y == x + n - 1
              q == y \div n
              z == q * n
  <1>1. y \in Nat
    OBVIOUS
  <1>2. q \in Nat /\ q * n <= y /\ y < q * n + n
    <2>. HIDE DEF y
    <2>. QED
      BY <1>1, QuotientRange
  <1>3. Al!align_up(x, n) = z
    BY DEF Al!align_up
  <1>. HIDE DEF q
  <1>4. z \in Nat
    BY <1>2, Z3
  <1>5. z \div n = q
    BY <1>2, Halves
  <1>6. z <= y /\ y < z + n
    BY <1>2
  <1>. QED
    BY <1>1, <1>2, <1>3, <1>4, <1>5, <1>6

(* The pages of whole large ones; the header takes up some of the first.   *)
WholeSmall == 0..(NumWhole * PerLarge - 1)

LEMMA PagesAre ==
    /\ NumWhole \in Nat /\ NumWhole >= 1 /\ LastPage \in Nat
    /\ Al!Pages = 0..LastPage /\ Al!WholePages = 0..(NumWhole - 1)
    /\ NumWhole * PerLarge \in Nat
    /\ (NumWhole * PerLarge) * Small <= LargePool
    /\ NumWhole * PerLarge - 1 <= LastPage
    /\ LastPage * Small < LargePool
  <1>1. /\ LargePool \in Nat /\ LargePool > Al!LargeSize /\ Al!LargeSize \in Nat \ {0}
        /\ Small \in Nat \ {0} /\ PerLarge \in Nat /\ Al!LargeSize = Small * PerLarge
        /\ PerLarge >= 2
    BY LargeAssumed, PageSizes
  <1>2. NumWhole \in Nat /\ NumWhole >= 1 /\ NumWhole * Al!LargeSize <= LargePool
    <2>. DEFINE L == Al!LargeSize
    <2>1. L \in Nat \ {0} /\ LargePool \in Nat /\ LargePool >= L
      BY <1>1
    <2>. HIDE DEF L
    <2>2. /\ LargePool \div L \in Nat /\ (LargePool \div L) * L <= LargePool
          /\ LargePool \div L >= 1
      BY <2>1, QuotientRange
    <2>. QED
      BY <2>2 DEF NumWhole, L
  <1>3. LargePool - 1 \in Nat
    BY <1>1
  <1>4. LastPage \in Nat /\ LastPage * Small <= LargePool - 1
        /\ LargePool - 1 < LastPage * Small + Small
    BY <1>1, <1>3, QuotientRange DEF LastPage
  <1>. DEFINE n == NumWhole * PerLarge
  <1>5. n \in Nat /\ n * Small = NumWhole * Al!LargeSize
    BY <1>1, <1>2, Z3
  <1>6. n >= 1
    BY <1>1, <1>2, Z3
  <1>. HIDE DEF n
  <1>7. n - 1 <= LastPage
    <2>. SUFFICES ASSUME LastPage < n - 1
                  PROVE  FALSE
      BY <1>4, <1>5
    <2>. DEFINE e == n - 1
                u == LastPage * Small
                v == e * Small
    <2>1. u + Small <= v /\ u \in Nat /\ v \in Nat
      BY <1>1, <1>4, <1>5, <1>6, PiecesApart
    <2>2. n * Small = v + Small
      BY <1>1, <1>5, Z3
    <2>3. LargePool - 1 < u + Small /\ v + Small <= LargePool
      BY <1>2, <1>4, <1>5, <2>2
    <2>. HIDE DEF u, v
    <2>. QED
      BY <1>1, <2>1, <2>3
  <1>8. Al!Pages = 0..LastPage
    BY DEF Al!Pages, LastPage, Small
  <1>9. Al!WholePages = 0..(NumWhole - 1)
    BY DEF Al!WholePages, NumWhole
  <1>10. LastPage * Small < LargePool
    BY <1>1, <1>4, Z3
  <1>. QED
    BY <1>2, <1>4, <1>5, <1>7, <1>8, <1>9, <1>10 DEF n

LEMMA WholeAre ==
    /\ WholeSmall \subseteq Al!Pages /\ WholeSmall \subseteq Nat
    /\ \A l \in 0..(NumWhole - 1) : Al!SmallPagesOf(l) \subseteq WholeSmall
    /\ \A pg \in WholeSmall : Al!LargeOf(pg) \in 0..(NumWhole - 1)
    /\ \A pg \in Nat : Al!LargeOf(pg) < NumWhole => pg \in WholeSmall
    /\ Al!HeaderPages \subseteq Al!SmallPagesOf(0) /\ 0 \in Al!HeaderPages
    /\ Al!HeaderPages \subseteq WholeSmall
  <1>1. /\ NumWhole \in Nat /\ NumWhole >= 1 /\ LastPage \in Nat
        /\ PerLarge \in Nat /\ PerLarge >= 2
        /\ NumWhole * PerLarge \in Nat /\ NumWhole * PerLarge - 1 <= LastPage
        /\ Small \in Nat \ {0} /\ Al!LargeSize = Small * PerLarge
    BY PagesAre, PageSizes
  <1>. DEFINE n == NumWhole * PerLarge
  <1>2. WholeSmall \subseteq Al!Pages /\ WholeSmall \subseteq Nat
    BY <1>1, PagesAre DEF WholeSmall
  <1>3. ASSUME NEW l \in Nat
        PROVE  /\ l < NumWhole => Al!SmallPagesOf(l) \subseteq WholeSmall
               /\ l >= NumWhole => \A pg \in Al!SmallPagesOf(l) : pg >= n
    <2>. DEFINE u == l * PerLarge
    <2>1. u \in Nat /\ Al!SmallPagesOf(l) = u..(u + PerLarge - 1)
      BY PageNumbers
    <2>2. l < NumWhole => u + PerLarge <= n
      BY <1>1, PiecesApart
    <2>3. l >= NumWhole => u >= n
      <3>1. CASE l = NumWhole
        BY <2>1, <3>1
      <3>2. CASE NumWhole < l
        <4>1. n + PerLarge <= u
          BY <1>1, <3>2, PiecesApart
        <4>. HIDE DEF u, n
        <4>. QED
          BY <1>1, <2>1, <4>1 DEF n
      <3>. QED
        BY <1>1, <3>1, <3>2
    <2>4. WholeSmall = 0..(n - 1) /\ n \in Nat
      BY <1>1 DEF WholeSmall
    <2>. HIDE DEF u, n
    <2>. QED
      BY <1>1, <2>1, <2>2, <2>3, <2>4
  <1>4. ASSUME NEW pg \in WholeSmall
        PROVE  Al!LargeOf(pg) \in 0..(NumWhole - 1)
    <2>1. pg \in Nat /\ pg < n /\ n \in Nat
      BY <1>1 DEF WholeSmall
    <2>2. Al!LargeOf(pg) \in Nat /\ pg \in Al!SmallPagesOf(Al!LargeOf(pg))
      BY <2>1, PageNumbers
    <2>. HIDE DEF n
    <2>3. ~ (Al!LargeOf(pg) >= NumWhole)
      BY <1>3, <2>1, <2>2
    <2>. QED
      BY <1>1, <2>2, <2>3
  <1>5. ASSUME NEW pg \in Nat, Al!LargeOf(pg) < NumWhole
        PROVE  pg \in WholeSmall
    <2>1. Al!LargeOf(pg) \in Nat /\ pg \in Al!SmallPagesOf(Al!LargeOf(pg))
      BY PageNumbers
    <2>. QED
      BY <1>3, <1>5, <2>1
  <1>6. Al!HeaderPages \subseteq Al!SmallPagesOf(0) /\ 0 \in Al!HeaderPages
    <2>. DEFINE h == Al!align_up(LargeHeader, Small)
                q == h \div Small
    <2>1. LargeHeader \in Nat /\ LargeHeader >= 1 /\ LargeHeader <= Small * PerLarge - 1
          /\ Small * PerLarge \in Nat
      BY <1>1, LargeAssumed, PageSizes
    <2>2. h \in Nat /\ h >= LargeHeader /\ h < LargeHeader + Small /\ q \in Nat /\ h = q * Small
      BY <1>1, <2>1, LargeAligned
    <2>3. Al!HeaderPages = 0..(q - 1)
      BY DEF Al!HeaderPages, Small
    <2>. HIDE DEF h, q
    <2>4. q >= 1
      <3>1. q = 0 => h = 0
        BY <1>1, <2>2, Z3
      <3>. QED
        BY <2>1, <2>2, <3>1
    <2>5. q <= PerLarge
      <3>. SUFFICES ASSUME PerLarge < q
                    PROVE  FALSE
        BY <1>1, <2>2
      <3>1. PerLarge * Small + Small <= q * Small
        BY <1>1, <2>2, PiecesApart
      <3>2. PerLarge * Small = Small * PerLarge
        BY <1>1, Z3
      <3>. DEFINE u == Small * PerLarge
      <3>3. u \in Nat /\ LargeHeader <= u - 1 /\ u + Small <= h
        BY <2>1, <2>2, <3>1, <3>2
      <3>. HIDE DEF u
      <3>. QED
        BY <1>1, <2>1, <2>2, <3>3
    <2>6. Al!SmallPagesOf(0) = 0..(PerLarge - 1)
      <3>. DEFINE u == 0 * PerLarge
      <3>1. Al!SmallPagesOf(0) = u..(u + PerLarge - 1)
        BY PageNumbers
      <3>2. u = 0
        BY <1>1
      <3>. HIDE DEF u
      <3>. QED
        BY <1>1, <3>1, <3>2
    <2>. QED
      BY <1>1, <2>2, <2>3, <2>4, <2>5, <2>6
  <1>. QED
    BY <1>1, <1>2, <1>3, <1>4, <1>5, <1>6

------------------------------------------------------------------------------
(* Buckets.                                                                *)

Bits(bucket) == bucket \div Al!INTER_BUCKET_SPACE
SizeOf(bucket) == Al!bucket_to_size(bucket)
Header(bucket) == Al!page_header_size(Bits(bucket), Al!PerPage[bucket])

LEMMA BucketSizes ==
    ASSUME NEW b \in Nat
    PROVE  /\ Bits(b) \in Nat /\ 2 ^ Bits(b) \in Nat \ {0}
           /\ SizeOf(b) \in Nat /\ SizeOf(b) >= 2 ^ Bits(b)
           /\ SizeOf(b) = 2 ^ Bits(b) + ((b % 4) * 2 ^ Bits(b)) \div 4
  <1>. DEFINE u == 2 ^ Bits(b)
              v == (b % 4) * u
  <1>1. Bits(b) \in Nat
    BY QuotientRange DEF Bits, Al!INTER_BUCKET_SPACE
  <1>2. u \in Nat \ {0}
    BY <1>1, PowerPositive
  <1>3. SizeOf(b) = u + v \div 4
    BY DEF SizeOf, Bits, Al!bucket_to_size, Al!INTER_BUCKET_SPACE
  <1>. HIDE DEF u
  <1>4. v \in Nat
    <2>1. b % 4 \in 0..3
      BY RemainderRange
    <2>. QED
      BY <1>2, <2>1, Z3
  <1>5. v \div 4 \in Nat
    <2>. HIDE DEF v
    <2>. QED
      BY <1>4, QuotientRange
  <1>. HIDE DEF v
  <1>6. SizeOf(b) \in Nat /\ SizeOf(b) >= u
    BY <1>2, <1>3, <1>5
  <1>. QED
    BY <1>1, <1>2, <1>3, <1>6 DEF u, v

LEMMA UsedSize ==
    ASSUME NEW n \in Nat
    PROVE  /\ Al!used_size(n) \in Nat
           /\ n = 1 => Al!used_size(n) = Word
  <1>. DEFINE a == Al!align_up(n, LongBits)
              q == a \div LongBits
  <1>1. a \in Nat /\ q \in Nat /\ a >= n /\ a < n + LongBits /\ a = q * LongBits
    BY LargeAligned, LargeAssumed
  <1>2. Al!used_size(n) = q * Word
    BY DEF Al!used_size
  <1>. HIDE DEF q, a
  <1>3. Word \in Nat /\ LongBits \in Nat \ {0}
    BY LargeAssumed
  <1>4. q * Word \in Nat
    BY <1>1, <1>3, Z3
  <1>5. n = 1 => q = 1
    <2>. SUFFICES ASSUME n = 1
                  PROVE  q = 1
      OBVIOUS
    <2>1. q # 0
      <3>1. q = 0 => q * LongBits = 0
        BY <1>3
      <3>. QED
        BY <1>1, <3>1
    <2>2. ~ (1 < q)
      <3>1. 1 < q => 1 * LongBits + LongBits <= q * LongBits
        BY <1>1, <1>3, PiecesApart
      <3>2. 1 * LongBits = LongBits
        BY <1>3
      <3>. QED
        BY <1>1, <1>3, <3>1, <3>2
    <2>. QED
      BY <1>1, <2>1, <2>2
  <1>. QED
    BY <1>2, <1>3, <1>4, <1>5

LEMMA HeaderSizes ==
    ASSUME NEW bits \in Nat, NEW n \in Nat
    PROVE  /\ Al!page_header_size(bits, n) \in Nat
           /\ Al!page_header_size(bits, n) >= PageHeader + Al!used_size(n)
           /\ \E k \in Nat : Al!page_header_size(bits, n) = k * 2 ^ bits
  <1>. DEFINE x == PageHeader + Al!used_size(n)
              m == 2 ^ bits
  <1>1. x \in Nat /\ m \in Nat \ {0}
    BY LargeAssumed, UsedSize, PowerPositive
  <1>2. Al!page_header_size(bits, n) = Al!align_up(x, m)
    BY DEF Al!page_header_size
  <1>. HIDE DEF x, m
  <1>3. Al!align_up(x, m) \in Nat /\ Al!align_up(x, m) >= x
        /\ Al!align_up(x, m) \div m \in Nat
        /\ Al!align_up(x, m) = (Al!align_up(x, m) \div m) * m
    BY <1>1, LargeAligned
  <1>. QED
    BY <1>2, <1>3 DEF x, m

LEMMA MaxIsGreatest ==
    ASSUME NEW n \in Nat, NEW X \in SUBSET (0..n), X # {}
    PROVE  Max(X) \in X /\ \A x \in X : x <= Max(X)
  <1>. DEFINE Y == {n - x : x \in X}
  <1>1. Y \in SUBSET Nat /\ Y # {}
    <2>1. \A x \in X : n - x \in Nat
      OBVIOUS
    <2>2. PICK x \in X : TRUE
      OBVIOUS
    <2>3. n - x \in Y
      OBVIOUS
    <2>. QED
      BY <2>1, <2>3
  <1>2. PICK y \in Y : \A z \in Y : y <= z
    <2>. HIDE DEF Y
    <2>. QED
      BY <1>1, HasLeast
  <1>3. PICK x \in X : y = n - x
    BY <1>2
  <1>4. \A z \in X : x >= z
    BY <1>2, <1>3
  <1>5. Max(X) \in X /\ \A z \in X : Max(X) >= z
    BY <1>4, Zenon DEF Max
  <1>. QED
    BY <1>5

(* The objects of a bucket fit behind the header of a page, and at least   *)
(* one does.                                                               *)
LEMMA PageHolds ==
    ASSUME NEW b \in Al!Buckets
    PROVE  /\ b \in Nat /\ Al!PerPage[b] \in Nat \ {0}
           /\ SizeOf(b) \in Nat \ {0} /\ Header(b) \in Nat
           /\ Header(b) >= PageHeader + Al!used_size(Al!PerPage[b])
           /\ Header(b) + SizeOf(b) * Al!PerPage[b] <= Al!PageSizeOf(b)
           /\ \E k \in Nat : Header(b) = k * 2 ^ Bits(b)
  <1>1. b \in Nat
    BY DEF Al!Buckets
  <1>. DEFINE bits == Bits(b)
              esize == SizeOf(b)
              psize == Al!PageSizeOf(b)
              w == Al!align_up(PageHeader + Word, 2 ^ bits)
              most == (psize - w) \div esize
              X == {n \in 0..most : Al!page_header_size(bits, n) + esize * n <= psize}
  <1>2. bits \in Nat /\ 2 ^ bits \in Nat \ {0} /\ esize \in Nat \ {0}
    BY <1>1, BucketSizes
  <1>3. psize \in Nat
    BY PageSizes DEF Al!PageSizeOf, Small
  <1>4. Al!page_header_size(bits, 1) = w
    BY UsedSize DEF Al!page_header_size
  <1>5. w \in Nat /\ w + esize <= psize
    <2>1. Al!page_header_size(bits, 1) + esize <= psize
      BY BuffersAssumption DEF Al!AllocAssumption, Bits, SizeOf
    <2>2. Al!page_header_size(bits, 1) \in Nat
      BY <1>2, HeaderSizes
    <2>. QED
      BY <1>4, <2>1, <2>2
  <1>6. Al!PerPage[b] = Max(X)
    <2>1. Al!PerPage[b] = Al!elements_per_page(b)
      BY DEF Al!PerPage
    <2>. QED
      BY <2>1, LargeMinMax DEF Al!elements_per_page, Bits, SizeOf
  <1>. HIDE DEF bits, esize, psize, w
  <1>7. most \in Nat /\ most >= 1
    <2>1. psize - w \in Nat /\ psize - w >= esize
      BY <1>2, <1>3, <1>5
    <2>. DEFINE d == psize - w
    <2>. HIDE DEF d
    <2>. QED
      BY <1>2, <2>1, QuotientRange DEF d
  <1>. HIDE DEF most
  <1>8. 1 \in X
    BY <1>2, <1>4, <1>5, <1>7
  <1>9. Max(X) \in X /\ 1 <= Max(X)
    BY <1>7, <1>8, MaxIsGreatest
  <1>. DEFINE n == Max(X)
  <1>10. n \in Nat \ {0} /\ Al!page_header_size(bits, n) + esize * n <= psize
    BY <1>7, <1>9
  <1>. HIDE DEF n, X
  <1>11. Al!PerPage[b] = n
    BY <1>6 DEF n
  <1>12. /\ Al!page_header_size(bits, n) \in Nat
         /\ Al!page_header_size(bits, n) >= PageHeader + Al!used_size(n)
         /\ \E k \in Nat : Al!page_header_size(bits, n) = k * 2 ^ bits
    BY <1>2, <1>10, HeaderSizes
  <1>. QED
    BY <1>1, <1>2, <1>10, <1>11, <1>12 DEF Header, bits, esize, psize

------------------------------------------------------------------------------
(* Lists, which name a page at most once.                                  *)

Once(xs) == \A i, j \in DOMAIN xs : xs[i] = xs[j] => i = j
Names(xs) == {xs[i] : i \in DOMAIN xs}

LEMMA SameRange == \A xs : Al!Range(xs) = Names(xs)
  BY DEF Al!Range, Names

LEMMA AppendedOnce ==
    ASSUME NEW T, NEW xs \in Seq(T), Once(xs), NEW x \in T, x \notin Names(xs)
    PROVE  /\ Append(xs, x) \in Seq(T) /\ Once(Append(xs, x))
           /\ Names(Append(xs, x)) = Names(xs) \cup {x}
  <1>. DEFINE n == Len(xs)
              long == Append(xs, x)
  <1>1. n \in Nat /\ DOMAIN xs = 1..n
    OBVIOUS
  <1>2. /\ long \in Seq(T) /\ DOMAIN long = 1..(n + 1) /\ long[n + 1] = x
        /\ \A i \in 1..n : long[i] = xs[i]
    OBVIOUS
  <1>. HIDE DEF long, n
  <1>3. \A i \in 1..n : long[i] # x
    BY <1>1, <1>2 DEF Names
  <1>4. Once(long)
    <2>. SUFFICES ASSUME NEW i \in DOMAIN long, NEW j \in DOMAIN long, long[i] = long[j]
                  PROVE  i = j
      BY DEF Once
    <2>1. i \in 1..n \/ i = n + 1
      BY <1>1, <1>2
    <2>2. j \in 1..n \/ j = n + 1
      BY <1>1, <1>2
    <2>3. i \in 1..n /\ j \in 1..n => i = j
      BY <1>1, <1>2 DEF Once
    <2>. QED
      BY <1>2, <1>3, <2>1, <2>2, <2>3
  <1>5. Names(long) = Names(xs) \cup {x}
    <2>1. 1..(n + 1) = (1..n) \cup {n + 1}
      BY <1>1
    <2>. QED
      BY <1>1, <1>2, <2>1 DEF Names
  <1>. QED
    BY <1>2, <1>4, <1>5 DEF long

(* del_from_list takes from a xs what it is told to and nothing else.    *)
LEMMA WithoutIs ==
    ASSUME NEW T, NEW xs \in Seq(T), Once(xs), NEW P
    PROVE  /\ Al!Without(xs, P) \in Seq(T) /\ Once(Al!Without(xs, P))
           /\ Names(Al!Without(xs, P)) = Names(xs) \ P
  <1>. DEFINE N == Len(xs)
              V == Seq(T)
              c == << >>
              Up(k, v) == IF xs[k] \in P THEN v ELSE Append(v, xs[k])
              G == [k \in 1..N |-> [v \in V |-> Up(k, v)]]
              at[k \in 0..N] ==
                  IF k = 0 THEN << >>
                  ELSE IF xs[k] \in P THEN at[k - 1]
                  ELSE Append(at[k - 1], xs[k])
              body(f) == [k \in 0..N |->
                  IF k = 0 THEN << >>
                  ELSE IF xs[k] \in P THEN f[k - 1]
                  ELSE Append(f[k - 1], xs[k])]
  <1>1. N \in Nat /\ DOMAIN xs = 1..N /\ \A k \in 1..N : xs[k] \in T
    OBVIOUS
  <1>2. c \in V
    OBVIOUS
  <1>3. \A k \in 1..N : \A v \in V : Up(k, v) \in V
    <2>. SUFFICES ASSUME NEW k \in 1..N, NEW v \in V
                  PROVE  Up(k, v) \in V
      OBVIOUS
    <2>1. Append(v, xs[k]) \in V
      BY <1>1
    <2>. QED
      BY <2>1
  <1>4. G \in [1..N -> [V -> V]]
    <2>. HIDE DEF V, Up, N
    <2>. QED
      BY <1>3
  <1>5. PICK f \in Ascents(N, V, c, G) : TRUE
    <2>. HIDE DEF V, c, G, N
    <2>. QED
      BY <1>1, <1>2, <1>4, AscentExists
  <1>6. /\ f \in [0..N -> V] /\ f[0] = c
        /\ \A k \in 1..N : f[k] = Up(k, f[k - 1])
    <2>1. /\ f \in [0..N -> V] /\ f[0] = c
          /\ \A k \in 1..N : f[k] = G[k][f[k - 1]]
      <3>. HIDE DEF V, c, G, N
      <3>. QED
        BY <1>5 DEF Ascents
    <2>2. \A k \in 1..N : f[k - 1] \in V
      <3>. HIDE DEF V, N, c, G
      <3>. QED
        BY <1>1, <2>1
    <2>3. \A k \in 1..N : G[k][f[k - 1]] = Up(k, f[k - 1])
      <3>. HIDE DEF V, N, c, Up
      <3>. QED
        BY <2>2
    <2>. QED
      BY <2>1, <2>3
  <1>7. f = body(f)
    <2>1. \A k \in 0..N : f[k] = body(f)[k]
      <3>1. f[0] = body(f)[0]
        BY <1>1, <1>6
      <3>2. ASSUME NEW k \in 1..N
            PROVE  f[k] = body(f)[k]
        <4>1. k # 0 /\ k \in 0..N
          BY <1>1
        <4>2. f[k] = Up(k, f[k - 1])
          BY <1>6
        <4>. HIDE DEF N
        <4>. QED
          BY <4>1, <4>2, Zenon
      <3>. HIDE DEF body, N
      <3>. QED
        BY <1>1, <3>1, <3>2
    <2>2. DOMAIN f = 0..N /\ DOMAIN body(f) = 0..N
      BY <1>6
    <2>3. f = [k \in 0..N |-> f[k]] /\ body(f) = [k \in 0..N |-> body(f)[k]]
      BY <1>6
    <2>. HIDE DEF body
    <2>. QED
      BY <2>1, <2>3
  <1>8. at = [k \in 0..N |->
                 IF k = 0 THEN << >>
                 ELSE IF xs[k] \in P THEN at[k - 1]
                 ELSE Append(at[k - 1], xs[k])]
    BY <1>7
  <1>9. Al!Without(xs, P) = at[N]
    BY DEF Al!Without
  <1>. HIDE DEF at
  <1>10. at[0] = c /\ \A k \in Nat : k + 1 <= N => at[k + 1] = Up(k + 1, at[k])
    <2>1. at[0] = c
      BY <1>1, <1>8
    <2>2. ASSUME NEW k \in Nat, k + 1 <= N
          PROVE  at[k + 1] = Up(k + 1, at[k])
      <3>1. k + 1 \in 0..N /\ k + 1 # 0 /\ (k + 1) - 1 = k
        BY <1>1, <2>2
      <3>. QED
        BY <1>8, <3>1
    <2>. QED
      BY <2>1, <2>2
  <1>. DEFINE Before(k) == {xs[i] : i \in 1..k}
              Good(k, v) == v \in V /\ Once(v) /\ Names(v) = Before(k) \ P
              S == {k \in Nat : k <= N => Good(k, at[k])}
  <1>11. 0 \in S
    <2>1. Before(0) = {} /\ Names(c) = {} /\ Once(c)
      BY DEF Names, Once
    <2>. QED
      BY <1>2, <1>10, <2>1
  <1>12. ASSUME NEW k \in Nat, k \in S
         PROVE  k + 1 \in S
    <2>. SUFFICES ASSUME k + 1 <= N
                  PROVE  Good(k + 1, at[k + 1])
      OBVIOUS
    <2>. DEFINE v == at[k]
                x == xs[k + 1]
    <2>1. v \in V /\ Once(v) /\ Names(v) = Before(k) \ P
      <3>1. k <= N
        BY <1>1
      <3>2. k <= N => Good(k, at[k])
        <4>. HIDE DEF Good, N
        <4>. QED
          BY <1>12
      <3>3. Good(k, v)
        BY <3>1, <3>2
      <3>. HIDE DEF V, v, Before
      <3>. QED
        BY <3>3
    <2>2. k + 1 \in 1..N /\ x \in T
      BY <1>1
    <2>3. Before(k + 1) = Before(k) \cup {x} /\ x \notin Before(k)
      <3>1. 1..(k + 1) = (1..k) \cup {k + 1}
        OBVIOUS
      <3>2. ASSUME NEW i \in 1..k
            PROVE  xs[i] # x
        <4>1. i \in DOMAIN xs /\ k + 1 \in DOMAIN xs /\ i # k + 1
          BY <1>1, <2>2
        <4>. QED
          BY <4>1, Zenon DEF Once
      <3>. QED
        BY <3>1, <3>2
    <2>4. at[k + 1] = Up(k + 1, v)
      BY <1>10
    <2>. HIDE DEF v, Before, N, at
    <2>5. CASE x \in P
      BY <2>1, <2>3, <2>4, <2>5
    <2>6. CASE x \notin P
      <3>1. /\ Append(v, x) \in Seq(T) /\ Once(Append(v, x))
            /\ Names(Append(v, x)) = Names(v) \cup {x}
        <4>. HIDE DEF x
        <4>. QED
          BY <2>1, <2>2, <2>3, AppendedOnce
      <3>2. at[k + 1] = Append(v, x)
        BY <2>4, <2>6
      <3>. HIDE DEF x
      <3>. QED
        BY <2>1, <2>3, <2>6, <3>1, <3>2
    <2>. QED
      BY <2>5, <2>6
  <1>. HIDE DEF S
  <1>13. N \in S
    BY <1>1, <1>11, <1>12, NatSetInduction
  <1>14. Good(N, at[N])
    BY <1>1, <1>13 DEF S
  <1>15. Before(N) = Names(xs)
    BY <1>1 DEF Names
  <1>. HIDE DEF Before, N, at
  <1>. QED
    BY <1>9, <1>14, <1>15

LEMMA JoinedOnce ==
    ASSUME NEW T, NEW r \in Seq(T), NEW s \in Seq(T), Once(r), Once(s),
           Names(r) \cap Names(s) = {}
    PROVE  r \o s \in Seq(T) /\ Once(r \o s) /\ Names(r \o s) = Names(r) \cup Names(s)
  <1>. DEFINE m == Len(r)
              n == Len(s)
              t == r \o s
  <1>1. m \in Nat /\ n \in Nat /\ DOMAIN r = 1..m /\ DOMAIN s = 1..n
    OBVIOUS
  <1>2. /\ t \in Seq(T) /\ DOMAIN t = 1..(m + n)
        /\ \A i \in 1..m : t[i] = r[i]
        /\ \A i \in 1..n : t[m + i] = s[i]
    OBVIOUS
  <1>. HIDE DEF m, n, t
  <1>3. \A i \in DOMAIN t : i \in 1..m \/ \E j \in 1..n : i = m + j
    <2>. SUFFICES ASSUME NEW i \in DOMAIN t, i \notin 1..m
                  PROVE  \E j \in 1..n : i = m + j
      OBVIOUS
    <2>1. i \in Nat /\ i > m /\ i <= m + n
      BY <1>1, <1>2
    <2>2. i - m \in 1..n /\ i = m + (i - m)
      BY <1>1, <2>1
    <2>. QED
      BY <2>2
  <1>4. \A i \in 1..m : \A j \in 1..n : r[i] # s[j]
    <2>1. \A i \in 1..m : r[i] \in Names(r)
      BY <1>1 DEF Names
    <2>2. \A j \in 1..n : s[j] \in Names(s)
      BY <1>1 DEF Names
    <2>. QED
      BY <2>1, <2>2
  <1>5. Once(t)
    <2>. SUFFICES ASSUME NEW i \in DOMAIN t, NEW j \in DOMAIN t, t[i] = t[j]
                  PROVE  i = j
      BY DEF Once
    <2>1. CASE i \in 1..m /\ j \in 1..m
      BY <1>1, <1>2, <2>1 DEF Once
    <2>2. CASE i \in 1..m /\ j \notin 1..m
      <3>1. PICK k \in 1..n : j = m + k
        BY <1>3, <2>2
      <3>. QED
        BY <1>2, <1>4, <2>2, <3>1
    <2>3. CASE i \notin 1..m /\ j \in 1..m
      <3>1. PICK k \in 1..n : i = m + k
        BY <1>3, <2>3
      <3>. QED
        BY <1>2, <1>4, <2>3, <3>1
    <2>4. CASE i \notin 1..m /\ j \notin 1..m
      <3>1. PICK k \in 1..n : i = m + k
        BY <1>3, <2>4
      <3>2. PICK l \in 1..n : j = m + l
        BY <1>3, <2>4
      <3>3. s[k] = s[l]
        BY <1>2, <3>1, <3>2
      <3>4. k = l
        BY <1>1, <3>3 DEF Once
      <3>. QED
        BY <3>1, <3>2, <3>4
    <2>. QED
      BY <2>1, <2>2, <2>3, <2>4
  <1>6. Names(t) \subseteq Names(r) \cup Names(s)
    <2>. SUFFICES ASSUME NEW i \in DOMAIN t
                  PROVE  t[i] \in Names(r) \cup Names(s)
      BY DEF Names
    <2>1. CASE i \in 1..m
      BY <1>1, <1>2, <2>1 DEF Names
    <2>2. CASE i \notin 1..m
      <3>1. PICK k \in 1..n : i = m + k
        BY <1>3, <2>2
      <3>. QED
        BY <1>1, <1>2, <3>1 DEF Names
    <2>. QED
      BY <2>1, <2>2
  <1>7. Names(r) \cup Names(s) \subseteq Names(t)
    <2>1. \A i \in 1..m : i \in DOMAIN t /\ r[i] = t[i]
      BY <1>1, <1>2
    <2>2. \A i \in 1..n : m + i \in DOMAIN t /\ s[i] = t[m + i]
      BY <1>1, <1>2
    <2>3. \A i \in 1..m : r[i] \in Names(t)
      BY <2>1 DEF Names
    <2>4. \A i \in 1..n : s[i] \in Names(t)
      BY <2>2 DEF Names
    <2>. QED
      BY <1>1, <2>3, <2>4 DEF Names
  <1>. QED
    BY <1>2, <1>5, <1>6, <1>7 DEF t

LEMMA ReversedOnce ==
    ASSUME NEW T, NEW r \in Seq(T), Once(r)
    PROVE  /\ Al!Reverse(r) \in Seq(T) /\ Once(Al!Reverse(r))
           /\ Names(Al!Reverse(r)) = Names(r)
  <1>. DEFINE m == Len(r)
              t == Al!Reverse(r)
  <1>1. m \in Nat /\ DOMAIN r = 1..m /\ \A i \in 1..m : r[i] \in T
    OBVIOUS
  <1>2. t = [i \in 1..m |-> r[(m - i) + 1]]
    BY DEF Al!Reverse
  <1>. HIDE DEF m, t
  <1>3. \A i \in 1..m : (m - i) + 1 \in 1..m
    BY <1>1
  <1>4. t \in Seq(T) /\ DOMAIN t = 1..m
    BY <1>1, <1>2, <1>3
  <1>5. Once(t)
    <2>. SUFFICES ASSUME NEW i \in 1..m, NEW j \in 1..m, t[i] = t[j]
                  PROVE  i = j
      BY <1>4 DEF Once
    <2>1. (m - i) + 1 = (m - j) + 1
      BY <1>1, <1>2, <1>3 DEF Once
    <2>. QED
      BY <1>1, <2>1
  <1>6. Names(t) \subseteq Names(r)
    BY <1>1, <1>2, <1>3, <1>4 DEF Names
  <1>7. Names(r) \subseteq Names(t)
    <2>. SUFFICES ASSUME NEW i \in 1..m
                  PROVE  r[i] \in Names(t)
      BY <1>1 DEF Names
    <2>1. (m - i) + 1 \in 1..m /\ (m - ((m - i) + 1)) + 1 = i
      BY <1>1
    <2>2. t[(m - i) + 1] = r[i]
      BY <1>2, <2>1
    <2>. QED
      BY <1>4, <2>1, <2>2 DEF Names
  <1>. QED
    BY <1>4, <1>5, <1>6, <1>7 DEF t

LEMMA AddedIsOnce ==
    ASSUME NEW T, NEW r \in Seq(T), NEW s \in Seq(T), Once(r), Once(s),
           Names(r) \cap Names(s) = {}
    PROVE  /\ Al!Added(r, s) \in Seq(T) /\ Once(Al!Added(r, s))
           /\ Names(Al!Added(r, s)) = Names(r) \cup Names(s)
  BY ReversedOnce, JoinedOnce DEF Al!Added

LEMMA AscendingIs ==
    ASSUME NEW P, P \subseteq Al!Pages
    PROVE  /\ Al!Ascending(P) \in Seq(Nat) /\ Once(Al!Ascending(P))
           /\ Names(Al!Ascending(P)) = P
  <1>. DEFINE n == LastPage + 1
              r == [k \in 1..n |-> k - 1]
  <1>1. n \in Nat /\ Al!Pages = 0..(n - 1)
    BY PagesAre
  <1>2. Al!Ascending(P) = Al!Without(r, Al!Pages \ P)
    BY DEF Al!Ascending, LastPage, Small
  <1>. HIDE DEF n
  <1>3. r \in Seq(Nat) /\ DOMAIN r = 1..n /\ \A k \in 1..n : r[k] = k - 1
    BY <1>1
  <1>. HIDE DEF r
  <1>4. Once(r)
    BY <1>1, <1>3 DEF Once
  <1>5. Names(r) = Al!Pages
    <2>1. \A k \in 1..n : r[k] \in 0..(n - 1)
      BY <1>1, <1>3
    <2>2. ASSUME NEW p \in 0..(n - 1)
          PROVE  p \in Names(r)
      <3>1. p + 1 \in 1..n /\ r[p + 1] = p
        BY <1>1, <1>3
      <3>. QED
        BY <1>3, <3>1 DEF Names
    <2>. QED
      BY <1>1, <1>3, <2>1, <2>2 DEF Names
  <1>6. /\ Al!Without(r, Al!Pages \ P) \in Seq(Nat) /\ Once(Al!Without(r, Al!Pages \ P))
        /\ Names(Al!Without(r, Al!Pages \ P)) = Names(r) \ (Al!Pages \ P)
    BY <1>3, <1>4, WithoutIs
  <1>. QED
    BY <1>2, <1>5, <1>6

LEMMA PushedOnce ==
    ASSUME NEW T, NEW s \in Seq(T), Once(s), NEW x \in T, x \notin Names(s)
    PROVE  /\ <<x>> \o s \in Seq(T) /\ Once(<<x>> \o s)
           /\ Names(<<x>> \o s) = Names(s) \cup {x}
           /\ <<x>> \o s # << >>
  <1>. DEFINE r == <<x>>
  <1>1. r \in Seq(T) /\ Once(r) /\ Names(r) = {x} /\ Len(r) = 1
    BY DEF Once, Names
  <1>2. Len(r \o s) = 1 + Len(s) /\ Len(s) \in Nat
    BY <1>1
  <1>. HIDE DEF r
  <1>3. r \o s \in Seq(T) /\ Once(r \o s) /\ Names(r \o s) = Names(r) \cup Names(s)
    BY <1>1, JoinedOnce
  <1>4. r \o s # << >>
    BY <1>2
  <1>. QED
    BY <1>1, <1>3, <1>4 DEF r

LEMMA PoppedOnce ==
    ASSUME NEW T, NEW s \in Seq(T), Once(s), s # << >>
    PROVE  /\ Head(s) \in Names(s) /\ Head(s) \in T
           /\ Tail(s) \in Seq(T) /\ Once(Tail(s)) /\ Names(Tail(s)) = Names(s) \ {Head(s)}
  <1>. DEFINE n == Len(s)
              t == Tail(s)
  <1>1. n \in Nat /\ n >= 1 /\ DOMAIN s = 1..n /\ Head(s) = s[1] /\ s[1] \in T
    OBVIOUS
  <1>2. t \in Seq(T) /\ DOMAIN t = 1..(n - 1) /\ \A i \in 1..(n - 1) : t[i] = s[i + 1]
    OBVIOUS
  <1>. HIDE DEF n, t
  <1>3. \A i \in 1..(n - 1) : i + 1 \in 1..n /\ i + 1 # 1
    BY <1>1
  <1>4. Once(t)
    <2>. SUFFICES ASSUME NEW i \in 1..(n - 1), NEW j \in 1..(n - 1), t[i] = t[j]
                  PROVE  i = j
      BY <1>2 DEF Once
    <2>1. s[i + 1] = s[j + 1] /\ i + 1 \in DOMAIN s /\ j + 1 \in DOMAIN s
      BY <1>1, <1>2, <1>3
    <2>2. i + 1 = j + 1
      BY <2>1, Zenon DEF Once
    <2>. QED
      BY <1>1, <2>2
  <1>5. Names(t) = Names(s) \ {s[1]}
    <2>1. ASSUME NEW i \in 1..(n - 1)
          PROVE  t[i] \in Names(s) \ {s[1]}
      <3>1. t[i] = s[i + 1] /\ i + 1 \in DOMAIN s /\ 1 \in DOMAIN s /\ i + 1 # 1
        BY <1>1, <1>2, <1>3
      <3>2. s[i + 1] # s[1]
        BY <3>1, Zenon DEF Once
      <3>. QED
        BY <3>1, <3>2 DEF Names
    <2>2. ASSUME NEW j \in 1..n, s[j] # s[1]
          PROVE  s[j] \in Names(t)
      <3>1. j - 1 \in 1..(n - 1) /\ (j - 1) + 1 = j
        BY <1>1, <2>2
      <3>2. t[j - 1] = s[j]
        BY <1>2, <3>1
      <3>. QED
        BY <1>2, <3>1, <3>2 DEF Names
    <2>3. Names(t) = {t[i] : i \in 1..(n - 1)} /\ Names(s) = {s[j] : j \in 1..n}
      BY <1>1, <1>2 DEF Names
    <2>. QED
      BY <2>1, <2>2, <2>3
  <1>6. s[1] \in Names(s)
    BY <1>1 DEF Names
  <1>. QED
    BY <1>1, <1>2, <1>4, <1>5, <1>6 DEF t

LEMMA NothingOnce ==
    ASSUME NEW T
    PROVE  /\ << >> \in Seq(T) /\ Once(<< >>) /\ Names(<< >>) = {}
           /\ \A s \in Seq(T) : s # << >> <=> Names(s) # {}
  <1>1. \A s \in Seq(T) : s # << >> => 1 \in DOMAIN s
    OBVIOUS
  <1>. QED
    BY <1>1 DEF Once, Names

------------------------------------------------------------------------------
(* What is true of a pool between and inside calls.  Pages in O are taken  *)
(* from a free list and not yet put to use.                                *)

Usable == WholeSmall \ Al!HeaderPages
Larges == {Al!LargeOf(pg) : pg \in Al!Pages} \ {0}
RunType == [ha : Nat, off : Nat, len : Nat]
ObjType == [bucket : Al!Buckets, bits : SUBSET Nat]

Typed(a) ==
    /\ DOMAIN a = {"large", "small_free", "large_free", "huge", "page_list",
                   "full_list", "used", "objs"}
    /\ a.large \subseteq Larges
    /\ a.small_free \in Seq(Nat) /\ a.large_free \in Seq(Nat)
    /\ a.huge \in Seq(RunType)
    /\ a.page_list \in [Al!Buckets -> Seq(Nat)]
    /\ a.full_list \in [Al!Buckets -> Seq(Nat)]
    /\ a.used \in [Al!Pages -> Nat]
    /\ \A pg \in DOMAIN a.objs : a.objs[pg] \in ObjType

IsLarge(a, pg) == Al!LargeOf(pg) \in a.large

(* The page with the header that says what pg is used for.                 *)
Home(a, pg) == IF IsLarge(a, pg) THEN Al!FirstOf(Al!LargeOf(pg)) ELSE pg

FreePages(a) == Names(a.small_free) \cup Names(a.large_free)
InRuns(a) == UNION {Al!PagesIn(r) : r \in Names(a.huge)}

(* The free lists name pages of their kind, once.                          *)
FreeListed(a) ==
    /\ Once(a.small_free) /\ Once(a.large_free)
    /\ \A pg \in Names(a.small_free) : pg \in Usable /\ ~ IsLarge(a, pg)
    /\ \A pg \in Names(a.large_free) : /\ pg \in Usable /\ IsLarge(a, pg)
                                       /\ pg = Al!FirstOf(Al!LargeOf(pg))

(* A page with objects is of the kind its bucket wants, and its count is   *)
(* that of its bitmap.                                                     *)
Objected(a) ==
    \A pg \in DOMAIN a.objs :
        /\ pg \in Usable /\ Home(a, pg) = pg
        /\ IsLarge(a, pg) <=> Al!large_page_bucket(a.objs[pg].bucket)
        /\ a.objs[pg].bits \subseteq 0..(Al!PerPage[a.objs[pg].bucket] - 1)
        /\ a.used[pg] = Cardinality(a.objs[pg].bits)

(* It is on one list of its bucket, which depends on the count.            *)
Bucketed(a) ==
    \A b \in Al!Buckets :
        /\ Once(a.page_list[b]) /\ Once(a.full_list[b])
        /\ Names(a.page_list[b]) = {pg \in DOMAIN a.objs : /\ a.objs[pg].bucket = b
                                                          /\ a.used[pg] # Al!PerPage[b]}
        /\ Names(a.full_list[b]) = {pg \in DOMAIN a.objs : /\ a.objs[pg].bucket = b
                                                          /\ a.used[pg] = Al!PerPage[b]}

(* A run is a row of pages, all small ones or whole large ones, in which   *)
(* callers have left no 0 where a count would be.                          *)
Row(a, r) ==
    /\ \E m, n \in Nat : r.off = m * Small /\ r.len = n * Small /\ n > 0
    /\ r.off + r.len <= LargePool
    /\ Al!PagesIn(r) \subseteq Usable
    /\ \A pg \in Al!PagesIn(r) : a.used[pg] # 0
    /\ \/ \A pg \in Al!PagesIn(r) : ~ IsLarge(a, pg)
       \/ \A pg \in Al!PagesIn(r) :
             IsLarge(a, pg) /\ Al!SmallPagesOf(Al!LargeOf(pg)) \subseteq Al!PagesIn(r)

Rowed(a) ==
    /\ Once(a.huge) /\ \A r \in Names(a.huge) : Row(a, r)
    /\ \A r, s \in Names(a.huge) : r # s => Al!PagesIn(r) \cap Al!PagesIn(s) = {}

(* No page is put to two uses, and none is lost.                           *)
Shared(a, O) ==
    /\ \A pg \in O : pg \in Usable /\ Home(a, pg) = pg
    /\ FreePages(a) \cap DOMAIN a.objs = {}
    /\ O \cap (FreePages(a) \cup DOMAIN a.objs) = {}
    /\ InRuns(a) \cap (FreePages(a) \cup DOMAIN a.objs \cup O) = {}
    /\ \A pg \in Usable : Home(a, pg) = pg =>
          pg \in FreePages(a) \cup DOMAIN a.objs \cup O \cup InRuns(a)

PoolSound(a, O) ==
    /\ Typed(a) /\ FreeListed(a) /\ Objected(a) /\ Bucketed(a) /\ Rowed(a)
    /\ Shared(a, O)

(* Every page with objects has one that is used, those in X apart.         *)
Busy(a, X) == \A pg \in DOMAIN a.objs \ X : a.objs[pg].bits # {}

(* The elements that are used, with their buckets.                         *)
Taken(a) == UNION {{<<Al!Element(pg, a.objs[pg].bucket, i), a.objs[pg].bucket>> :
                       i \in a.objs[pg].bits} : pg \in DOMAIN a.objs}

(* They are what callers hold and the structs of their runs.               *)
Booked(T, R, K) ==
    /\ \A p \in DOMAIN K : K[p] \in LargeAsked
    /\ \A p \in DOMAIN K : \/ \E r \in R : r.off = p /\ K[p] <= r.len
                           \/ <<p, Al!Bucket(K[p])>> \in T /\ \A r \in R : r.ha # p
    /\ \A r \in R : r.off \in DOMAIN K /\ <<r.ha, Al!StructBucket>> \in T
    /\ \A t \in T : t[1] \in DOMAIN K \/ \E r \in R : r.ha = t[1]
    /\ \A r, s \in R : r.ha = s.ha => r = s

LargeInv == /\ PoolSound(pool, {}) /\ Busy(pool, {})
            /\ Booked(Taken(pool), Names(pool.huge), largeHeld)

LEMMA HomeIs ==
    ASSUME NEW a, a.large \subseteq Larges, NEW pg \in Usable
    PROVE  /\ pg \in Nat /\ pg \in Al!Pages /\ Home(a, pg) \in Usable /\ Home(a, pg) <= pg
           /\ Al!LargeOf(Home(a, pg)) = Al!LargeOf(pg)
           /\ IsLarge(a, Home(a, pg)) <=> IsLarge(a, pg)
           /\ Home(a, Home(a, pg)) = Home(a, pg)
           /\ IsLarge(a, pg) => Home(a, pg) = Al!FirstOf(Al!LargeOf(pg))
           /\ ~ IsLarge(a, pg) => Home(a, pg) = pg
  <1>1. pg \in WholeSmall /\ pg \notin Al!HeaderPages /\ pg \in Nat /\ pg \in Al!Pages
    BY WholeAre DEF Usable
  <1>2. CASE ~ IsLarge(a, pg)
    BY <1>1, <1>2 DEF Home, IsLarge
  <1>3. CASE IsLarge(a, pg)
    <2>. DEFINE l == Al!LargeOf(pg)
                h == Al!FirstOf(l)
    <2>1. l \in a.large /\ l # 0 /\ l \in Nat /\ l \in 0..(NumWhole - 1)
      BY <1>1, <1>3, PageNumbers, WholeAre DEF IsLarge, Larges
    <2>2. h \in Nat /\ h \in Al!SmallPagesOf(l) /\ Al!LargeOf(h) = l /\ h <= pg
      BY <1>1, <2>1, PageNumbers
    <2>3. h \in WholeSmall
      BY <2>1, <2>2, WholeAre
    <2>4. h \notin Al!HeaderPages
      <3>1. SUFFICES ASSUME h \in Al!HeaderPages PROVE FALSE
        OBVIOUS
      <3>2. h \in Al!SmallPagesOf(0)
        BY <3>1, WholeAre
      <3>3. Al!LargeOf(h) = 0
        BY <3>2, PageNumbers
      <3>. QED
        BY <2>1, <2>2, <3>3
    <2>5. Home(a, pg) = h
      BY <1>3 DEF Home
    <2>6. IsLarge(a, h)
      BY <2>1, <2>2 DEF IsLarge
    <2>7. Home(a, h) = h
      BY <2>2, <2>6 DEF Home
    <2>. QED
      BY <1>1, <1>3, <2>2, <2>3, <2>4, <2>5, <2>6, <2>7 DEF Usable
  <1>. QED
    BY <1>2, <1>3

(* A bitmap has a bit for each element of a page.                          *)
LEMMA BitsAre ==
    ASSUME NEW b \in Al!Buckets, NEW B, B \subseteq 0..(Al!PerPage[b] - 1)
    PROVE  /\ IsFiniteSet(B) /\ Cardinality(B) \in Nat /\ Cardinality(B) <= Al!PerPage[b]
           /\ Cardinality(B) = 0 <=> B = {}
           /\ Cardinality(B) = Al!PerPage[b] <=> B = 0..(Al!PerPage[b] - 1)
           /\ \A i \in 0..(Al!PerPage[b] - 1) \ B :
                 Cardinality(B \cup {i}) = Cardinality(B) + 1
           /\ \A i \in B : Cardinality(B \ {i}) = Cardinality(B) - 1
  <1>. DEFINE n == Al!PerPage[b]
  <1>1. n \in Nat \ {0}
    BY PageHolds
  <1>. HIDE DEF n
  <1>2. IsFiniteSet(0..(n - 1)) /\ Cardinality(0..(n - 1)) = n
    BY <1>1, FS_Interval
  <1>3. B \subseteq 0..(n - 1)
    BY DEF n
  <1>4. IsFiniteSet(B) /\ Cardinality(B) \in Nat /\ Cardinality(B) <= n
        /\ (Cardinality(B) = n => B = 0..(n - 1))
    BY <1>2, <1>3, FS_Subset, FS_CardinalityType
  <1>5. Cardinality(B) = 0 <=> B = {}
    BY <1>4, FS_EmptySet
  <1>6. \A i \in 0..(n - 1) \ B : Cardinality(B \cup {i}) = Cardinality(B) + 1
    BY <1>4, FS_AddElement
  <1>7. \A i \in B : Cardinality(B \ {i}) = Cardinality(B) - 1
    BY <1>4, FS_RemoveElement
  <1>. QED
    BY <1>2, <1>4, <1>5, <1>6, <1>7 DEF n

(* Where all pages of some large ones are free, they can be joined.        *)
LEMMA RecombinedSound ==
    ASSUME NEW a, PoolSound(a, {}), Busy(a, {})
    PROVE  /\ PoolSound(Al!recombine_small_pages(a), {})
           /\ LET b == Al!recombine_small_pages(a)
              IN /\ b.objs = a.objs /\ b.huge = a.huge
                 /\ b.page_list = a.page_list /\ b.full_list = a.full_list
                 /\ b.used = a.used
  <1>. DEFINE E == {l \in Al!WholePages \ {0} : l \notin a.large /\ Al!all_empty(a, l)}
              SE == UNION {Al!SmallPagesOf(l) : l \in E}
              FE == {Al!FirstOf(l) : l \in E}
              small == Al!Without(a.small_free, SE)
              large == Al!Added(Al!Ascending(FE), a.large_free)
              b == Al!recombine_small_pages(a)
  <1>1. /\ Typed(a) /\ FreeListed(a) /\ Objected(a) /\ Bucketed(a) /\ Rowed(a)
        /\ Shared(a, {})
    BY DEF PoolSound
  <1>2. /\ DOMAIN b = DOMAIN a
        /\ b.large = a.large \cup E /\ b.small_free = small /\ b.large_free = large
        /\ b.objs = a.objs /\ b.huge = a.huge
        /\ b.page_list = a.page_list /\ b.full_list = a.full_list
        /\ b.used = a.used
    <2>1. b = [a EXCEPT !.large = @ \cup E, !.small_free = Al!Without(@, SE),
                        !.large_free = Al!Added(Al!Ascending(FE), @)]
      BY DEF Al!recombine_small_pages
    <2>. HIDE DEF E, SE, FE, b
    <2>. QED
      BY <1>1, <2>1 DEF Typed
  <1>3. ASSUME NEW l \in E
        PROVE  /\ l \in Nat /\ l # 0 /\ l \notin a.large /\ l \in 0..(NumWhole - 1)
               /\ Al!SmallPagesOf(l) \subseteq WholeSmall
               /\ \A pg \in Al!SmallPagesOf(l) : a.used[pg] = 0
    <2>1. l \in 0..(NumWhole - 1) /\ l # 0 /\ l \notin a.large /\ Al!all_empty(a, l)
      BY PagesAre
    <2>. QED
      BY <2>1, PagesAre, WholeAre DEF Al!all_empty
  <1>. HIDE DEF E, b, small, large
  <1>4. \A pg \in Nat : pg \in SE <=> Al!LargeOf(pg) \in E
    <2>1. ASSUME NEW pg \in Nat, Al!LargeOf(pg) \in E PROVE pg \in SE
      BY <2>1, <1>3, PageNumbers
    <2>2. ASSUME NEW pg \in SE PROVE Al!LargeOf(pg) \in E
      <3>1. PICK l \in E : pg \in Al!SmallPagesOf(l)
        OBVIOUS
      <3>. QED
        BY <3>1, <1>3, PageNumbers
    <2>. QED
      BY <2>1, <2>2
  <1>5. ASSUME NEW pg \in SE
        PROVE  /\ pg \in Nat /\ pg \in Usable /\ a.used[pg] = 0 /\ ~ IsLarge(a, pg)
    <2>1. PICK l \in E : pg \in Al!SmallPagesOf(l)
      OBVIOUS
    <2>2. pg \in Nat /\ Al!LargeOf(pg) = l /\ a.used[pg] = 0 /\ pg \in WholeSmall
      BY <1>3, <2>1, PageNumbers
    <2>3. pg \notin Al!HeaderPages
      BY <1>3, <2>1, <2>2, WholeAre, PageNumbers
    <2>. QED
      BY <1>3, <2>1, <2>2, <2>3 DEF Usable, IsLarge
  <1>6. E \subseteq Larges
    <2>1. SUFFICES ASSUME NEW l \in E PROVE l \in Larges
      OBVIOUS
    <2>2. Al!FirstOf(l) \in Al!Pages /\ Al!LargeOf(Al!FirstOf(l)) = l
      BY <1>3, PageNumbers, WholeAre
    <2>. QED
      BY <1>3, <2>2 DEF Larges
  <1>7. SE \subseteq Names(a.small_free)
    <2>1. SUFFICES ASSUME NEW pg \in SE PROVE pg \in Names(a.small_free)
      OBVIOUS
    <2>2. Home(a, pg) = pg
      BY <1>5 DEF Home
    <2>3. pg \in FreePages(a) \cup DOMAIN a.objs \cup InRuns(a)
      BY <1>1, <1>5, <2>2 DEF Shared
    <2>4. pg \notin DOMAIN a.objs
      <3>1. SUFFICES ASSUME pg \in DOMAIN a.objs PROVE FALSE
        OBVIOUS
      <3>2. /\ a.objs[pg].bits # {} /\ Cardinality(a.objs[pg].bits) = 0
            /\ a.objs[pg].bits \subseteq 0..(Al!PerPage[a.objs[pg].bucket] - 1)
            /\ a.objs[pg].bucket \in Al!Buckets
        BY <1>1, <1>5, <3>1 DEF Busy, Objected, Typed, ObjType
      <3>. QED
        BY <3>2, BitsAre
    <2>5. pg \notin InRuns(a)
      BY <1>1, <1>5 DEF InRuns, Rowed, Row
    <2>6. pg \notin Names(a.large_free)
      BY <1>1, <1>5 DEF FreeListed
    <2>. QED
      BY <2>3, <2>4, <2>5, <2>6 DEF FreePages
  <1>8. small \in Seq(Nat) /\ Once(small) /\ Names(small) = Names(a.small_free) \ SE
    <2>. HIDE DEF SE
    <2>. QED
      BY <1>1, WithoutIs DEF Typed, FreeListed, small
  <1>9. \A pg \in FE : /\ pg \in SE /\ pg \in Al!Pages /\ pg = Al!FirstOf(Al!LargeOf(pg))
                       /\ pg \in Nat /\ Al!LargeOf(pg) \in E
    <2>1. SUFFICES ASSUME NEW l \in E, NEW pg, pg = Al!FirstOf(l)
                   PROVE  /\ pg \in SE /\ pg \in Al!Pages /\ pg = Al!FirstOf(Al!LargeOf(pg))
                          /\ pg \in Nat /\ Al!LargeOf(pg) \in E
      OBVIOUS
    <2>2. pg \in Al!SmallPagesOf(l) /\ Al!LargeOf(pg) = l /\ pg \in Nat
      BY <1>3, <2>1, PageNumbers
    <2>. QED
      BY <1>3, <2>1, <2>2, WholeAre
  <1>10. \A pg \in SE : pg = Al!FirstOf(Al!LargeOf(pg)) => pg \in FE
    BY <1>4, <1>5
  <1>. HIDE DEF SE, FE
  <1>11. /\ large \in Seq(Nat) /\ Once(large)
         /\ Names(large) = Names(a.large_free) \cup FE
    <2>1. FE \subseteq Al!Pages
      BY <1>9
    <2>2. FE \cap Names(a.large_free) = {}
      BY <1>1, <1>5, <1>9 DEF FreeListed
    <2>3. /\ Al!Ascending(FE) \in Seq(Nat) /\ Once(Al!Ascending(FE))
          /\ Names(Al!Ascending(FE)) = FE
      BY <2>1, AscendingIs
    <2>. QED
      BY <1>1, <2>2, <2>3, AddedIsOnce DEF Typed, FreeListed, large
  <1>12. \A pg \in Nat : IsLarge(b, pg) <=> IsLarge(a, pg) \/ pg \in SE
    BY <1>2, <1>4 DEF IsLarge
  <1>13. Usable \subseteq Nat
    BY WholeAre DEF Usable
  <1>14. FreePages(a) \subseteq FreePages(b) \cup SE
         /\ FreePages(b) \subseteq FreePages(a)
    BY <1>2, <1>7, <1>8, <1>9, <1>11 DEF FreePages
  <1>15. Typed(b)
    BY <1>1, <1>2, <1>6, <1>8, <1>11 DEF Typed
  <1>16. FreeListed(b)
    BY <1>1, <1>2, <1>5, <1>8, <1>9, <1>11, <1>12, <1>13 DEF FreeListed
  <1>17. \A pg \in DOMAIN a.objs \cup InRuns(a) : pg \in Usable /\ pg \notin SE
    <2>1. InRuns(a) \subseteq Usable
      BY <1>1 DEF InRuns, Rowed, Row
    <2>2. DOMAIN a.objs \subseteq Usable
      BY <1>1 DEF Objected
    <2>3. (DOMAIN a.objs \cup InRuns(a)) \cap FreePages(a) = {}
      BY <1>1 DEF Shared
    <2>. QED
      BY <1>7, <2>1, <2>2, <2>3 DEF FreePages
  <1>18. \A pg \in DOMAIN a.objs \cup InRuns(a) :
             (IsLarge(b, pg) <=> IsLarge(a, pg)) /\ Home(b, pg) = Home(a, pg)
    BY <1>12, <1>13, <1>17 DEF Home
  <1>19. Objected(b)
    BY <1>1, <1>2, <1>18 DEF Objected
  <1>20. Bucketed(b)
    BY <1>1, <1>2 DEF Bucketed
  <1>21. Rowed(b)
    <2>1. ASSUME NEW r \in Names(a.huge)
          PROVE  Row(b, r)
      <3>1. \A pg \in Al!PagesIn(r) : IsLarge(b, pg) <=> IsLarge(a, pg)
        BY <1>18 DEF InRuns
      <3>2. Row(a, r)
        BY <1>1 DEF Rowed
      <3>. QED
        BY <1>2, <3>1, <3>2 DEF Row
    <2>. QED
      BY <1>1, <1>2, <2>1 DEF Rowed
  <1>22. Shared(b, {})
    <2>1. InRuns(b) = InRuns(a) /\ DOMAIN b.objs = DOMAIN a.objs
      BY <1>2 DEF InRuns
    <2>2. ASSUME NEW pg \in Usable, Home(b, pg) = pg
          PROVE  pg \in FreePages(b) \cup DOMAIN b.objs \cup InRuns(b)
      <3>1. CASE pg \in SE
        <4>1. pg \in FE
          BY <1>10, <1>12, <1>13, <2>2, <3>1 DEF Home
        <4>. QED
          BY <1>2, <1>11, <4>1 DEF FreePages
      <3>2. CASE pg \notin SE
        <4>1. Home(a, pg) = pg
          BY <1>12, <1>13, <2>2, <3>2 DEF Home
        <4>. QED
          BY <1>1, <1>14, <2>1, <3>2, <4>1 DEF Shared
      <3>. QED
        BY <3>1, <3>2
    <2>. QED
      BY <1>1, <1>14, <2>1, <2>2 DEF Shared
  <1>. QED
    BY <1>2, <1>15, <1>16, <1>19, <1>20, <1>21, <1>22 DEF PoolSound, b

------------------------------------------------------------------------------
(* Pages taken from the free lists.                                         *)

(* What a step that only changes the free lists leaves alone.              *)
Same(a, b) == /\ b.objs = a.objs /\ b.huge = a.huge
              /\ b.page_list = a.page_list /\ b.full_list = a.full_list

LEMMA SameObjects ==
    ASSUME NEW a, NEW b, Same(a, b), b.large = a.large, b.used = a.used
    PROVE  /\ Objected(a) => Objected(b)
           /\ Bucketed(a) => Bucketed(b)
           /\ Rowed(a) => Rowed(b)
           /\ InRuns(b) = InRuns(a)
           /\ \A pg : (IsLarge(b, pg) <=> IsLarge(a, pg)) /\ Home(b, pg) = Home(a, pg)
  <1>1. \A pg : IsLarge(b, pg) <=> IsLarge(a, pg)
    BY DEF IsLarge
  <1>2. \A pg : Home(b, pg) = Home(a, pg)
    BY <1>1 DEF Home
  <1>3. Objected(a) => Objected(b)
    BY <1>1, <1>2 DEF Objected, Same
  <1>4. Bucketed(a) => Bucketed(b)
    BY DEF Bucketed, Same
  <1>5. \A r : Row(a, r) => Row(b, r)
    BY <1>1 DEF Row
  <1>6. Rowed(a) => Rowed(b)
    BY <1>5 DEF Rowed, Same
  <1>. QED
    BY <1>1, <1>2, <1>3, <1>4, <1>6 DEF InRuns, Same

LEMMA PoppedSmall ==
    ASSUME NEW a, PoolSound(a, {}), a.small_free # << >>
    PROVE  LET b == [a EXCEPT !.small_free = Tail(@)]
               pg == Head(a.small_free)
           IN /\ PoolSound(b, {pg}) /\ Same(a, b)
              /\ pg \in Usable /\ ~ IsLarge(b, pg)
  <1>. DEFINE b == [a EXCEPT !.small_free = Tail(@)]
              pg == Head(a.small_free)
  <1>1. /\ Typed(a) /\ FreeListed(a) /\ Objected(a) /\ Bucketed(a) /\ Rowed(a)
        /\ Shared(a, {})
    BY DEF PoolSound
  <1>2. /\ DOMAIN b = DOMAIN a /\ b.large = a.large /\ b.used = a.used /\ Same(a, b)
        /\ b.small_free = Tail(a.small_free) /\ b.large_free = a.large_free
    BY <1>1 DEF Typed, Same
  <1>. HIDE DEF b
  <1>3. /\ pg \in Names(a.small_free)
        /\ Tail(a.small_free) \in Seq(Nat) /\ Once(Tail(a.small_free))
        /\ Names(Tail(a.small_free)) = Names(a.small_free) \ {pg}
    BY <1>1, PoppedOnce DEF Typed, FreeListed
  <1>. HIDE DEF pg
  <1>4. /\ Objected(b) /\ Bucketed(b) /\ Rowed(b) /\ InRuns(b) = InRuns(a)
        /\ \A q : (IsLarge(b, q) <=> IsLarge(a, q)) /\ Home(b, q) = Home(a, q)
    BY <1>1, <1>2, SameObjects
  <1>5. Typed(b)
    BY <1>1, <1>2, <1>3 DEF Typed, Same
  <1>6. FreeListed(b)
    BY <1>1, <1>2, <1>3, <1>4 DEF FreeListed
  <1>7. pg \in Usable /\ ~ IsLarge(b, pg) /\ Home(b, pg) = pg
    BY <1>1, <1>3, <1>4 DEF FreeListed, Home
  <1>8. pg \notin Names(a.large_free)
    BY <1>1, <1>4, <1>7 DEF FreeListed
  <1>9. FreePages(b) = FreePages(a) \ {pg} /\ pg \in FreePages(a)
    BY <1>2, <1>3, <1>8 DEF FreePages
  <1>10. Shared(b, {pg})
    BY <1>1, <1>2, <1>4, <1>7, <1>9 DEF Shared, Same
  <1>. QED
    BY <1>2, <1>4, <1>5, <1>6, <1>7, <1>10 DEF PoolSound, b, pg

LEMMA PoppedLarge ==
    ASSUME NEW a, PoolSound(a, {}), a.large_free # << >>
    PROVE  LET b == [a EXCEPT !.large_free = Tail(@)]
               pg == Head(a.large_free)
           IN /\ PoolSound(b, {pg}) /\ Same(a, b)
              /\ pg \in Usable /\ IsLarge(b, pg) /\ pg = Al!FirstOf(Al!LargeOf(pg))
  <1>. DEFINE b == [a EXCEPT !.large_free = Tail(@)]
              pg == Head(a.large_free)
  <1>1. /\ Typed(a) /\ FreeListed(a) /\ Objected(a) /\ Bucketed(a) /\ Rowed(a)
        /\ Shared(a, {})
    BY DEF PoolSound
  <1>2. /\ DOMAIN b = DOMAIN a /\ b.large = a.large /\ b.used = a.used /\ Same(a, b)
        /\ b.large_free = Tail(a.large_free) /\ b.small_free = a.small_free
    BY <1>1 DEF Typed, Same
  <1>. HIDE DEF b
  <1>3. /\ pg \in Names(a.large_free)
        /\ Tail(a.large_free) \in Seq(Nat) /\ Once(Tail(a.large_free))
        /\ Names(Tail(a.large_free)) = Names(a.large_free) \ {pg}
    BY <1>1, PoppedOnce DEF Typed, FreeListed
  <1>. HIDE DEF pg
  <1>4. /\ Objected(b) /\ Bucketed(b) /\ Rowed(b) /\ InRuns(b) = InRuns(a)
        /\ \A q : (IsLarge(b, q) <=> IsLarge(a, q)) /\ Home(b, q) = Home(a, q)
    BY <1>1, <1>2, SameObjects
  <1>5. Typed(b)
    BY <1>1, <1>2, <1>3 DEF Typed, Same
  <1>6. FreeListed(b)
    BY <1>1, <1>2, <1>3, <1>4 DEF FreeListed
  <1>7. /\ pg \in Usable /\ IsLarge(b, pg) /\ Home(b, pg) = pg
        /\ pg = Al!FirstOf(Al!LargeOf(pg))
    BY <1>1, <1>3, <1>4 DEF FreeListed, Home
  <1>8. pg \notin Names(a.small_free)
    BY <1>1, <1>4, <1>7 DEF FreeListed
  <1>9. FreePages(b) = FreePages(a) \ {pg} /\ pg \in FreePages(a)
    BY <1>2, <1>3, <1>8 DEF FreePages
  <1>10. Shared(b, {pg})
    BY <1>1, <1>2, <1>4, <1>7, <1>9 DEF Shared, Same
  <1>. QED
    BY <1>2, <1>4, <1>5, <1>6, <1>7, <1>10 DEF PoolSound, b, pg

(* Both ways to take a page; page 0 says that there is none.               *)
LEMMA LargePageGot ==
    ASSUME NEW a, PoolSound(a, {}), Busy(a, {})
    PROVE  LET n == Al!get_large_page(a)
           IN /\ Same(a, n.pool)
              /\ n.page = 0 => PoolSound(n.pool, {})
              /\ n.page # 0 => /\ PoolSound(n.pool, {n.page})
                               /\ n.page \in Usable /\ IsLarge(n.pool, n.page)
                               /\ n.page = Al!FirstOf(Al!LargeOf(n.page))
  <1>. DEFINE b == IF a.large_free # << >> THEN a ELSE Al!recombine_small_pages(a)
              n == Al!get_large_page(a)
  <1>1. PoolSound(b, {}) /\ Same(a, b)
    BY RecombinedSound DEF Same
  <1>2. n = IF b.large_free = << >> THEN Al!NoPage(b)
            ELSE [pool |-> [b EXCEPT !.large_free = Tail(@)], page |-> Head(b.large_free)]
    BY DEF Al!get_large_page
  <1>. HIDE DEF b, n
  <1>3. CASE b.large_free = << >>
    <2>1. n.page = 0 /\ n.pool = b
      BY <1>2, <1>3 DEF Al!NoPage
    <2>. QED
      BY <1>1, <2>1 DEF n
  <1>4. CASE b.large_free # << >>
    <2>. DEFINE c == [b EXCEPT !.large_free = Tail(@)]
                pg == Head(b.large_free)
    <2>1. n.page = pg /\ n.pool = c
      BY <1>2, <1>4
    <2>2. /\ PoolSound(c, {pg}) /\ Same(b, c) /\ pg \in Usable /\ IsLarge(c, pg)
          /\ pg = Al!FirstOf(Al!LargeOf(pg))
      BY <1>1, <1>4, PoppedLarge
    <2>. HIDE DEF c, pg
    <2>3. Same(a, c)
      BY <1>1, <2>2 DEF Same
    <2>4. pg # 0
      BY <2>2, WholeAre DEF Usable
    <2>. QED
      BY <2>1, <2>2, <2>3, <2>4 DEF n
  <1>. QED
    BY <1>3, <1>4

LEMMA BrokenUp ==
    ASSUME NEW a, NEW pg \in Usable, PoolSound(a, {pg}), IsLarge(a, pg),
           pg = Al!FirstOf(Al!LargeOf(pg))
    PROVE  LET b == Al!break_up_large_page(a, pg).pool
           IN /\ PoolSound(b, {pg}) /\ Same(a, b) /\ ~ IsLarge(b, pg)
  <1>. DEFINE l == Al!LargeOf(pg)
              SP == Al!SmallPagesOf(l)
              rest == SP \ {pg}
              sf == Al!Added(Al!Ascending(rest), a.small_free)
              us == [q \in Al!Pages |-> IF q \in rest THEN 0 ELSE a.used[q]]
              b == Al!break_up_large_page(a, pg).pool
  <1>1. /\ Typed(a) /\ FreeListed(a) /\ Objected(a) /\ Bucketed(a) /\ Rowed(a)
        /\ Shared(a, {pg})
    BY DEF PoolSound
  <1>2. /\ DOMAIN b = DOMAIN a /\ b.large = a.large \ {l} /\ b.used = us /\ Same(a, b)
        /\ b.small_free = sf /\ b.large_free = a.large_free
    <2>1. b = [a EXCEPT !.large = @ \ {l}, !.small_free = Al!Added(Al!Ascending(rest), @),
                        !.used = [q \in Al!Pages |-> IF q \in rest THEN 0 ELSE @[q]]]
      BY DEF Al!break_up_large_page
    <2>. HIDE DEF b, rest, l
    <2>. QED
      BY <1>1, <2>1 DEF Typed, Same
  <1>. HIDE DEF b, sf
  <1>3. l \in Nat /\ l # 0 /\ l \in a.large /\ l \in 0..(NumWhole - 1) /\ pg \in SP
        /\ pg \in Nat
    <2>1. pg \in WholeSmall /\ pg \in Nat
      BY WholeAre DEF Usable
    <2>. QED
      BY <1>1, <2>1, WholeAre, PageNumbers DEF IsLarge, Typed, Larges
  <1>. HIDE DEF l
  <1>4. \A q \in Nat : q \in SP <=> Al!LargeOf(q) = l
    BY <1>3, PageNumbers
  <1>5. \A q \in SP : /\ q \in Nat /\ q \in Usable /\ q \in Al!Pages
                     /\ IsLarge(a, q) /\ Home(a, q) = pg
    <2>1. SUFFICES ASSUME NEW q \in SP
                   PROVE  /\ q \in Nat /\ q \in Usable /\ q \in Al!Pages
                          /\ IsLarge(a, q) /\ Home(a, q) = pg
      OBVIOUS
    <2>2. q \in Nat /\ Al!LargeOf(q) = l /\ q \in WholeSmall
      BY <1>3, PageNumbers, WholeAre
    <2>3. q \notin Al!HeaderPages
      BY <1>3, <2>2, WholeAre, PageNumbers
    <2>. QED
      BY <1>3, <2>2, <2>3, WholeAre DEF Usable, IsLarge, Home, l
  <1>6. ASSUME NEW q \in rest
        PROVE  q \notin DOMAIN a.objs \cup FreePages(a) \cup InRuns(a) \cup {pg}
    <2>1. q # pg /\ Home(a, q) = pg /\ IsLarge(a, q) /\ q \in SP /\ q \in Nat
      BY <1>5
    <2>2. q \notin DOMAIN a.objs
      BY <1>1, <2>1 DEF Objected
    <2>3. q \notin Names(a.small_free)
      BY <1>1, <2>1 DEF FreeListed
    <2>4. q \notin Names(a.large_free)
      BY <1>1, <2>1 DEF FreeListed, Home
    <2>5. q \notin InRuns(a)
      <3>1. SUFFICES ASSUME NEW r \in Names(a.huge), q \in Al!PagesIn(r) PROVE FALSE
        BY DEF InRuns
      <3>2. Row(a, r)
        BY <1>1 DEF Rowed
      <3>3. SP \subseteq Al!PagesIn(r)
        BY <1>4, <2>1, <3>1, <3>2 DEF Row
      <3>4. pg \in InRuns(a)
        BY <1>3, <3>3 DEF InRuns
      <3>. QED
        BY <1>1, <3>4 DEF Shared
    <2>. QED
      BY <2>1, <2>2, <2>3, <2>4, <2>5 DEF FreePages
  <1>7. rest \subseteq Usable /\ rest \subseteq Nat /\ rest \subseteq Al!Pages
    BY <1>5
  <1>8. SP = rest \cup {pg} /\ pg \notin rest
    BY <1>3
  <1>. HIDE DEF SP, rest
  <1>9. /\ sf \in Seq(Nat) /\ Once(sf)
        /\ Names(sf) = Names(a.small_free) \cup rest
    <2>1. rest \cap Names(a.small_free) = {}
      BY <1>6 DEF FreePages
    <2>2. /\ Al!Ascending(rest) \in Seq(Nat) /\ Once(Al!Ascending(rest))
          /\ Names(Al!Ascending(rest)) = rest
      BY <1>7, AscendingIs
    <2>. QED
      BY <1>1, <2>1, <2>2, AddedIsOnce DEF Typed, FreeListed, sf
  <1>10. \A q \in Nat : IsLarge(b, q) <=> IsLarge(a, q) /\ q \notin SP
    BY <1>2, <1>4 DEF IsLarge
  <1>11. Usable \subseteq Nat /\ Usable \subseteq Al!Pages
    BY WholeAre DEF Usable
  <1>12. \A q \in Al!Pages : q \notin rest => us[q] = a.used[q]
    OBVIOUS
  <1>13. us \in [Al!Pages -> Nat]
    BY <1>1 DEF Typed
  <1>. HIDE DEF us
  <1>14. Typed(b)
    BY <1>1, <1>2, <1>9, <1>13 DEF Typed, Same
  <1>15. FreeListed(b)
    <2>1. \A q \in Names(a.small_free) : q \in Usable /\ ~ IsLarge(b, q)
      BY <1>1, <1>10, <1>11 DEF FreeListed
    <2>2. \A q \in rest : q \in Usable /\ ~ IsLarge(b, q)
      BY <1>7, <1>8, <1>10
    <2>3. ASSUME NEW q \in Names(a.large_free)
          PROVE  q \in Usable /\ IsLarge(b, q) /\ q = Al!FirstOf(Al!LargeOf(q))
      <3>1. q \in Usable /\ IsLarge(a, q) /\ q = Al!FirstOf(Al!LargeOf(q))
        BY <1>1 DEF FreeListed
      <3>2. q \notin rest /\ q # pg
        BY <1>1, <1>6 DEF FreePages, Shared
      <3>. QED
        BY <1>8, <1>10, <1>11, <3>1, <3>2
    <2>. QED
      BY <1>1, <1>2, <1>9, <2>1, <2>2, <2>3 DEF FreeListed
  <1>16. \A q \in DOMAIN a.objs \cup InRuns(a) : q \in Usable /\ q \notin SP
    <2>1. InRuns(a) \subseteq Usable
      BY <1>1 DEF InRuns, Rowed, Row
    <2>2. DOMAIN a.objs \subseteq Usable
      BY <1>1 DEF Objected
    <2>3. pg \notin DOMAIN a.objs \cup InRuns(a)
      BY <1>1 DEF Shared
    <2>. QED
      BY <1>6, <1>8, <2>1, <2>2, <2>3
  <1>17. \A q \in DOMAIN a.objs \cup InRuns(a) :
             (IsLarge(b, q) <=> IsLarge(a, q)) /\ Home(b, q) = Home(a, q)
             /\ b.used[q] = a.used[q]
    BY <1>2, <1>8, <1>10, <1>11, <1>12, <1>16 DEF Home
  <1>18. Objected(b)
    BY <1>1, <1>2, <1>17 DEF Objected, Same
  <1>19. Bucketed(b)
    BY <1>1, <1>2, <1>17 DEF Bucketed, Same
  <1>20. Rowed(b)
    <2>1. ASSUME NEW r \in Names(a.huge)
          PROVE  Row(b, r)
      <3>1. \A q \in Al!PagesIn(r) : (IsLarge(b, q) <=> IsLarge(a, q)) /\ b.used[q] = a.used[q]
        BY <1>17 DEF InRuns
      <3>2. Row(a, r)
        BY <1>1 DEF Rowed
      <3>. QED
        BY <3>1, <3>2 DEF Row
    <2>. QED
      BY <1>1, <1>2, <2>1 DEF Rowed, Same
  <1>21. Shared(b, {pg})
    <2>1. InRuns(b) = InRuns(a) /\ DOMAIN b.objs = DOMAIN a.objs
      BY <1>2 DEF InRuns, Same
    <2>2. FreePages(b) = FreePages(a) \cup rest
      BY <1>2, <1>9 DEF FreePages
    <2>3. ASSUME NEW q \in Usable, Home(b, q) = q
          PROVE  q \in FreePages(b) \cup DOMAIN b.objs \cup {pg} \cup InRuns(b)
      <3>1. CASE q \in SP
        BY <1>8, <2>2, <3>1
      <3>2. CASE q \notin SP
        <4>1. Home(a, q) = q
          BY <1>10, <1>11, <2>3, <3>2 DEF Home
        <4>. QED
          BY <1>1, <2>1, <2>2, <4>1 DEF Shared
      <3>. QED
        BY <3>1, <3>2
    <2>4. Home(b, pg) = pg
      BY <1>3, <1>10 DEF Home
    <2>5. (FreePages(a) \cup rest) \cap DOMAIN a.objs = {}
      BY <1>1, <1>6 DEF Shared
    <2>6. pg \notin FreePages(a) \cup rest \cup DOMAIN a.objs
      BY <1>1, <1>6 DEF Shared
    <2>7. InRuns(a) \cap (FreePages(a) \cup rest \cup DOMAIN a.objs \cup {pg}) = {}
      BY <1>1, <1>6 DEF Shared
    <2>. QED
      BY <2>1, <2>2, <2>3, <2>4, <2>5, <2>6, <2>7 DEF Shared
  <1>. QED
    BY <1>2, <1>3, <1>10, <1>14, <1>15, <1>18, <1>19, <1>20, <1>21 DEF PoolSound, b

LEMMA SmallPageGot ==
    ASSUME NEW a, PoolSound(a, {}), Busy(a, {})
    PROVE  LET n == Al!get_small_page(a)
           IN /\ Same(a, n.pool)
              /\ n.page = 0 => PoolSound(n.pool, {})
              /\ n.page # 0 => /\ PoolSound(n.pool, {n.page})
                               /\ n.page \in Usable /\ ~ IsLarge(n.pool, n.page)
  <1>. DEFINE n == Al!get_small_page(a)
              l == Al!get_large_page(a)
  <1>1. n = IF a.small_free # << >>
            THEN [pool |-> [a EXCEPT !.small_free = Tail(@)], page |-> Head(a.small_free)]
            ELSE IF l.page = 0 THEN l ELSE Al!break_up_large_page(l.pool, l.page)
    BY DEF Al!get_small_page
  <1>2. /\ Same(a, l.pool)
        /\ l.page = 0 => PoolSound(l.pool, {})
        /\ l.page # 0 => /\ PoolSound(l.pool, {l.page})
                         /\ l.page \in Usable /\ IsLarge(l.pool, l.page)
                         /\ l.page = Al!FirstOf(Al!LargeOf(l.page))
    BY LargePageGot
  <1>. HIDE DEF n, l
  <1>3. CASE a.small_free # << >>
    <2>. DEFINE c == [a EXCEPT !.small_free = Tail(@)]
                pg == Head(a.small_free)
    <2>1. n.page = pg /\ n.pool = c
      BY <1>1, <1>3
    <2>2. PoolSound(c, {pg}) /\ Same(a, c) /\ pg \in Usable /\ ~ IsLarge(c, pg)
      BY <1>3, PoppedSmall
    <2>. HIDE DEF c, pg
    <2>3. pg # 0
      BY <2>2, WholeAre DEF Usable
    <2>. QED
      BY <2>1, <2>2, <2>3 DEF n
  <1>4. CASE a.small_free = << >> /\ l.page = 0
    BY <1>1, <1>2, <1>4 DEF n
  <1>5. CASE a.small_free = << >> /\ l.page # 0
    <2>. DEFINE c == Al!break_up_large_page(l.pool, l.page)
    <2>1. n = c
      BY <1>1, <1>5
    <2>2. PoolSound(c.pool, {l.page}) /\ Same(l.pool, c.pool) /\ ~ IsLarge(c.pool, l.page)
      BY <1>2, <1>5, BrokenUp
    <2>3. c.page = l.page
      BY DEF Al!break_up_large_page
    <2>. HIDE DEF c
    <2>4. Same(a, c.pool)
      BY <1>2, <2>2 DEF Same
    <2>. QED
      BY <1>2, <1>5, <2>1, <2>2, <2>3, <2>4 DEF n
  <1>. QED
    BY <1>3, <1>4, <1>5

(* A page of the kind that a bucket wants.                                 *)
LEMMA NewPageGot ==
    ASSUME NEW a, PoolSound(a, {}), Busy(a, {}), NEW b \in Al!Buckets
    PROVE  LET n == Al!NewPage(a, b)
           IN /\ Same(a, n.pool)
              /\ n.page = 0 => PoolSound(n.pool, {})
              /\ n.page # 0 => /\ PoolSound(n.pool, {n.page}) /\ n.page \in Usable
                               /\ IsLarge(n.pool, n.page) <=> Al!large_page_bucket(b)
  BY LargePageGot, SmallPageGot DEF Al!NewPage

------------------------------------------------------------------------------
(* Where an element is.                                                    *)

LEMMA ElementIn ==
    ASSUME NEW pg \in Nat, NEW b \in Al!Buckets, NEW i \in 0..(Al!PerPage[b] - 1)
    PROVE  /\ Al!Element(pg, b, i) \in Nat /\ pg * Small \in Nat
           /\ Al!Element(pg, b, i) = pg * Small + Header(b) + i * SizeOf(b)
           /\ Al!Element(pg, b, i) > pg * Small
           /\ Al!Element(pg, b, i) >= pg * Small + PageHeader + Al!used_size(Al!PerPage[b])
           /\ Al!Element(pg, b, i) + SizeOf(b) <= pg * Small + Al!PageSizeOf(b)
           /\ Al!PageSizeOf(b) \in Nat
  <1>. DEFINE e == Al!Element(pg, b, i)
              n == Al!PerPage[b]
              s == SizeOf(b)
              h == Header(b)
              u == Al!used_size(n)
              z == Al!PageSizeOf(b)
              w == pg * Small
  <1>1. e = w + h + i * s
    BY DEF Al!Element, Header, Bits, SizeOf, Small
  <1>2. n \in Nat \ {0} /\ s \in Nat \ {0} /\ h \in Nat /\ h >= PageHeader + u /\ h + s * n <= z
    BY PageHolds
  <1>3. u \in Nat /\ PageHeader \in Nat \ {0}
    BY <1>2, UsedSize, LargeAssumed
  <1>4. z \in Nat /\ w \in Nat
    <2>1. Small \in Nat /\ Al!LargeSize \in Nat
      BY PageSizes
    <2>2. w \in Nat
      BY <2>1, Z3
    <2>. QED
      BY <2>1, <2>2 DEF Al!PageSizeOf, Small
  <1>5. i \in Nat /\ i + 1 <= n
    <2>1. i \in 0..(n - 1)
      OBVIOUS
    <2>. HIDE DEF n
    <2>. QED
      BY <1>2, <2>1
  <1>. HIDE DEF e, n, s, h, u, z, w
  <1>6. i * s \in Nat /\ s * n \in Nat /\ i * s + s <= s * n
    <2>1. i < n
      BY <1>2, <1>5
    <2>2. i * s \in Nat /\ n * s \in Nat /\ i * s + s <= n * s
      BY <1>2, <1>5, <2>1, PiecesApart
    <2>. QED
      BY <1>2, <2>2, Z3
  <1>7. e \in Nat /\ e > w /\ e >= w + PageHeader + u /\ e + s <= w + z
    <2>. DEFINE x == i * s
                y == s * n
    <2>1. x \in Nat /\ y \in Nat /\ x + s <= y /\ e = w + h + x /\ h + y <= z
      BY <1>1, <1>2, <1>6
    <2>. HIDE DEF x, y
    <2>. QED
      BY <1>2, <1>3, <1>4, <2>1
  <1>. QED
    BY <1>1, <1>4, <1>7 DEF e, n, s, h, u, z, w

(* Its number can be computed from its place, as alloc_free does.          *)
LEMMA ElementIndex ==
    ASSUME NEW pg \in Nat, NEW b \in Al!Buckets, NEW i \in 0..(Al!PerPage[b] - 1)
    PROVE  (Al!Element(pg, b, i) - Al!Element(pg, b, 0)) \div Al!bucket_to_size(b) = i
  <1>. DEFINE s == SizeOf(b)
              w == pg * Small
              h == Header(b)
  <1>1. Al!PerPage[b] \in Nat \ {0} /\ s \in Nat \ {0} /\ h \in Nat
    BY PageHolds
  <1>2. 0 \in 0..(Al!PerPage[b] - 1) /\ i \in Nat
    BY <1>1
  <1>3. w \in Nat /\ Al!Element(pg, b, i) = w + h + i * s
        /\ Al!Element(pg, b, 0) = w + h + 0 * s
    BY <1>2, ElementIn
  <1>4. i * s \in Nat /\ 0 * s = 0
    BY <1>1, <1>2, Z3
  <1>. HIDE DEF w, h, s
  <1>5. Al!Element(pg, b, i) - Al!Element(pg, b, 0) = i * s
    <2>. DEFINE x == i * s
    <2>1. x \in Nat /\ Al!Element(pg, b, i) = w + h + x /\ Al!Element(pg, b, 0) = w + h + 0
      BY <1>3, <1>4
    <2>. HIDE DEF x
    <2>2. Al!Element(pg, b, i) - Al!Element(pg, b, 0) = x
      BY <1>1, <1>3, <2>1
    <2>. QED
      BY <2>2 DEF x
  <1>6. (i * s) \div s = i
    BY <1>1, <1>2, Halves
  <1>. QED
    BY <1>5, <1>6 DEF s, SizeOf

LEMMA PageOfIs == \A a, x : Al!PageOf(a, x) = Home(a, x \div Small)
  BY DEF Al!PageOf, Home, IsLarge, Small

(* The page that a place in the bytes of a page belongs to is that page.   *)
LEMMA PageFound ==
    ASSUME NEW a, a.large \subseteq Larges, NEW pg \in Usable, Home(a, pg) = pg,
           NEW x \in Nat, pg * Small <= x,
           x < pg * Small + (IF IsLarge(a, pg) THEN Al!LargeSize ELSE Small)
    PROVE  /\ Al!PageOf(a, x) = pg
           /\ IsLarge(a, x \div Small) <=> IsLarge(a, pg)
           /\ x \div Small \in Usable
  <1>. DEFINE q == x \div Small
  <1>1. Small \in Nat \ {0} /\ PerLarge \in Nat /\ PerLarge >= 2
        /\ Al!LargeSize = Small * PerLarge
    BY PageSizes
  <1>2. pg \in Nat
    BY HomeIs
  <1>3. q \in Nat /\ q * Small <= x /\ x < q * Small + Small
    BY <1>1, QuotientRange
  <1>4. Al!PageOf(a, x) = Home(a, q)
    BY PageOfIs
  <1>. HIDE DEF q
  <1>5. CASE ~ IsLarge(a, pg)
    <2>1. q = pg
      BY <1>1, <1>2, <1>3, <1>5, SamePiece
    <2>. QED
      BY <1>4, <2>1 DEF q
  <1>6. CASE IsLarge(a, pg)
    <2>. DEFINE l == Al!LargeOf(pg)
                f == l * PerLarge
    <2>1. l \in Nat /\ pg = f /\ f \in Nat
      <3>1. l \in Nat
        BY <1>2, PageNumbers
      <3>2. pg = Al!FirstOf(l)
        BY <1>6, HomeIs
      <3>3. Al!FirstOf(l) = f /\ Al!FirstOf(l) \in Nat
        BY <3>1, PageNumbers
      <3>. QED
        BY <3>1, <3>2, <3>3
    <2>2. x < f * Small + PerLarge * Small /\ f * Small <= x
      <3>1. Small * PerLarge = PerLarge * Small
        BY <1>1, Z3
      <3>2. x < pg * Small + Al!LargeSize /\ pg * Small <= x
        BY <1>6
      <3>3. x < f * Small + Al!LargeSize /\ f * Small <= x
        BY <2>1, <3>2, Zenon
      <3>4. Al!LargeSize = PerLarge * Small
        BY <1>1, <3>1
      <3>. QED
        BY <3>3, <3>4, Zenon
    <2>. HIDE DEF f
    <2>3. f <= q /\ q < f + PerLarge
      <3>1. CASE q < f
        <4>1. q * Small + Small <= f * Small /\ q * Small \in Nat /\ f * Small \in Nat
          BY <1>1, <1>3, <2>1, <3>1, PiecesApart
        <4>. QED
          BY <1>1, <1>3, <2>2, <4>1
      <3>2. CASE q >= f + PerLarge
        <4>1. (f + PerLarge) * Small <= q * Small
          <5>1. CASE q = f + PerLarge
            BY <5>1, <1>1, <1>3, <2>1, Z3
          <5>2. CASE q > f + PerLarge
            <6>1. f + PerLarge \in Nat /\ f + PerLarge < q
              BY <1>1, <1>3, <2>1, <5>2
            <6>2. (f + PerLarge) * Small + Small <= q * Small
                  /\ (f + PerLarge) * Small \in Nat /\ q * Small \in Nat
              BY <1>1, <1>3, <6>1, PiecesApart
            <6>. QED
              BY <1>1, <6>2
          <5>. QED
            BY <1>1, <1>3, <2>1, <3>2, <5>1, <5>2
        <4>2. (f + PerLarge) * Small = f * Small + PerLarge * Small
          BY <1>1, <2>1, Z3
        <4>3. f * Small \in Nat /\ PerLarge * Small \in Nat /\ q * Small \in Nat
          BY <1>1, <1>3, <2>1, Z3
        <4>. QED
          BY <1>3, <2>2, <4>1, <4>2, <4>3
      <3>. QED
        BY <1>1, <1>3, <2>1, <3>1, <3>2
    <2>4. q \in Al!SmallPagesOf(l)
      <3>1. Al!SmallPagesOf(l) = f..(f + PerLarge - 1)
        BY <2>1, PageNumbers DEF f
      <3>. QED
        BY <1>1, <1>3, <2>1, <2>3, <3>1
    <2>5. Al!LargeOf(q) = l
      BY <2>1, <2>4, PageNumbers
    <2>6. Home(a, q) = pg /\ IsLarge(a, q)
      BY <1>6, <2>1, <2>5 DEF Home, IsLarge
    <2>7. q \in Usable
      <3>1. pg \in WholeSmall /\ l \in a.large /\ l # 0
        BY <1>6 DEF Usable, IsLarge, Larges
      <3>2. q \in WholeSmall
        BY <1>3, <2>4, <3>1, WholeAre
      <3>3. q \notin Al!HeaderPages
        BY <2>5, <3>1, WholeAre, PageNumbers
      <3>. QED
        BY <3>2, <3>3 DEF Usable
    <2>. QED
      BY <1>4, <1>6, <2>6, <2>7 DEF q
  <1>. QED
    BY <1>5, <1>6

(* A used element belongs to one page, which its place gives away.         *)
LEMMA ElementHome ==
    ASSUME NEW a, Typed(a), Objected(a), NEW pg \in DOMAIN a.objs,
           NEW i \in 0..(Al!PerPage[a.objs[pg].bucket] - 1)
    PROVE  LET b == a.objs[pg].bucket
               e == Al!Element(pg, b, i)
           IN /\ e \in Nat /\ Al!PageOf(a, e) = pg
              /\ e >= pg * Small + PageHeader + Al!used_size(Al!PerPage[b])
              /\ e + SizeOf(b) <= pg * Small + Al!PageSizeOf(b)
              /\ Al!PageSizeOf(b) = IF IsLarge(a, pg) THEN Al!LargeSize ELSE Small
              /\ e # pg * Small
              /\ b \in Al!Buckets
  <1>. DEFINE b == a.objs[pg].bucket
              e == Al!Element(pg, b, i)
  <1>1. b \in Al!Buckets
    BY DEF Typed, ObjType
  <1>2. /\ pg \in Usable /\ Home(a, pg) = pg /\ a.large \subseteq Larges
        /\ IsLarge(a, pg) <=> Al!large_page_bucket(b)
    BY DEF Objected, Typed
  <1>3. pg \in Nat
    BY <1>2, HomeIs
  <1>4. Al!PageSizeOf(b) = IF IsLarge(a, pg) THEN Al!LargeSize ELSE Small
    BY <1>2 DEF Al!PageSizeOf, Small
  <1>5. /\ e \in Nat /\ pg * Small \in Nat /\ e > pg * Small
        /\ e >= pg * Small + PageHeader + Al!used_size(Al!PerPage[b])
        /\ e + SizeOf(b) <= pg * Small + Al!PageSizeOf(b) /\ Al!PageSizeOf(b) \in Nat
    BY <1>1, <1>3, ElementIn
  <1>6. SizeOf(b) \in Nat \ {0}
    BY <1>1, PageHolds
  <1>. HIDE DEF b, e
  <1>7. pg * Small <= e /\ e < pg * Small + Al!PageSizeOf(b)
    <2>. DEFINE w == pg * Small
    <2>. HIDE DEF w
    <2>1. w <= e /\ e < w + Al!PageSizeOf(b)
      BY <1>5, <1>6 DEF w
    <2>. QED
      BY <2>1 DEF w
  <1>8. Al!PageOf(a, e) = pg
    <2>1. e < pg * Small + (IF IsLarge(a, pg) THEN Al!LargeSize ELSE Small)
      BY <1>4, <1>7
    <2>. QED
      BY <1>2, <1>5, <1>7, <2>1, PageFound
  <1>9. e # pg * Small
    BY <1>5
  <1>. QED
    BY <1>1, <1>4, <1>5, <1>8, <1>9 DEF b, e

LEMMA TakenIs ==
    ASSUME NEW a, NEW t
    PROVE  t \in Taken(a) <=>
             \E pg \in DOMAIN a.objs : \E i \in a.objs[pg].bits :
                t = <<Al!Element(pg, a.objs[pg].bucket, i), a.objs[pg].bucket>>
  BY DEF Taken

LEMMA TakenAt ==
    ASSUME NEW a, Typed(a), Objected(a), NEW x, NEW b, <<x, b>> \in Taken(a)
    PROVE  LET pg == Al!PageOf(a, x)
           IN /\ x \in Nat /\ pg \in DOMAIN a.objs /\ b = a.objs[pg].bucket
              /\ \E i \in a.objs[pg].bits : x = Al!Element(pg, b, i)
              /\ x # pg * Small
  <1>0. PICK q \in DOMAIN a.objs : \E i \in a.objs[q].bits :
            x = Al!Element(q, a.objs[q].bucket, i) /\ b = a.objs[q].bucket
    BY TakenIs
  <1>1. PICK i \in a.objs[q].bits :
            x = Al!Element(q, a.objs[q].bucket, i) /\ b = a.objs[q].bucket
    BY <1>0
  <1>2. i \in 0..(Al!PerPage[a.objs[q].bucket] - 1)
    BY DEF Objected
  <1>3. x \in Nat /\ Al!PageOf(a, x) = q /\ x # q * Small
    BY <1>1, <1>2, ElementHome
  <1>. QED
    BY <1>1, <1>3

(* Two places in one page that are the same are one element.               *)
LEMMA ElementOnce ==
    ASSUME NEW pg \in Nat, NEW b \in Al!Buckets, NEW i \in 0..(Al!PerPage[b] - 1),
           NEW j \in 0..(Al!PerPage[b] - 1), Al!Element(pg, b, i) = Al!Element(pg, b, j)
    PROVE  i = j
  BY ElementIndex

(* The bitmap of one page and its count change together.                   *)
Rebit(a, c, pg, B) ==
    /\ DOMAIN c = DOMAIN a /\ c.large = a.large /\ c.huge = a.huge
    /\ c.small_free = a.small_free /\ c.large_free = a.large_free
    /\ c.used \in [Al!Pages -> Nat] /\ c.used[pg] = Cardinality(B)
    /\ \A q \in Al!Pages : q # pg => c.used[q] = a.used[q]
    /\ DOMAIN c.objs = DOMAIN a.objs
    /\ c.objs[pg] \in ObjType
    /\ c.objs[pg].bucket = a.objs[pg].bucket /\ c.objs[pg].bits = B
    /\ \A q \in DOMAIN a.objs : q # pg => c.objs[q] = a.objs[q]

(* The lists of its bucket follow, in one order or the other.              *)
Relist(a, c, pg, B) ==
    LET b == a.objs[pg].bucket
    IN /\ c.page_list \in [Al!Buckets -> Seq(Nat)]
       /\ c.full_list \in [Al!Buckets -> Seq(Nat)]
       /\ \A d \in Al!Buckets : d # b => /\ c.page_list[d] = a.page_list[d]
                                        /\ c.full_list[d] = a.full_list[d]
       /\ Once(c.page_list[b]) /\ Once(c.full_list[b])
       /\ Names(c.page_list[b]) = IF Cardinality(B) = Al!PerPage[b]
                                  THEN Names(a.page_list[b]) \ {pg}
                                  ELSE Names(a.page_list[b]) \cup {pg}
       /\ Names(c.full_list[b]) = IF Cardinality(B) = Al!PerPage[b]
                                  THEN Names(a.full_list[b]) \cup {pg}
                                  ELSE Names(a.full_list[b]) \ {pg}

LEMMA Rebitted ==
    ASSUME NEW a, PoolSound(a, {}), NEW pg \in DOMAIN a.objs,
           NEW B, B \subseteq 0..(Al!PerPage[a.objs[pg].bucket] - 1),
           NEW c, Rebit(a, c, pg, B), Relist(a, c, pg, B)
    PROVE  PoolSound(c, {})
  <1>. DEFINE b == a.objs[pg].bucket
  <1>1. /\ Typed(a) /\ FreeListed(a) /\ Objected(a) /\ Bucketed(a) /\ Rowed(a)
        /\ Shared(a, {})
    BY DEF PoolSound
  <1>2. b \in Al!Buckets /\ pg \in Usable /\ Home(a, pg) = pg
    BY <1>1 DEF Typed, ObjType, Objected
  <1>3. \A q : (IsLarge(c, q) <=> IsLarge(a, q)) /\ Home(c, q) = Home(a, q)
    BY DEF IsLarge, Home, Rebit
  <1>4. Typed(c)
    BY <1>1 DEF Typed, Rebit, Relist
  <1>5. FreeListed(c)
    BY <1>1, <1>3 DEF FreeListed, Rebit
  <1>6. Usable \subseteq Al!Pages
    BY WholeAre DEF Usable
  <1>7. Objected(c)
    <2>1. SUFFICES ASSUME NEW q \in DOMAIN c.objs
          PROVE  /\ q \in Usable /\ Home(c, q) = q
                 /\ IsLarge(c, q) <=> Al!large_page_bucket(c.objs[q].bucket)
                 /\ c.objs[q].bits \subseteq 0..(Al!PerPage[c.objs[q].bucket] - 1)
                 /\ c.used[q] = Cardinality(c.objs[q].bits)
      BY DEF Objected
    <2>2. CASE q = pg
      BY <1>1, <1>2, <1>3, <2>2 DEF Objected, Rebit
    <2>3. CASE q # pg
      <3>1. c.objs[q] = a.objs[q] /\ q \in DOMAIN a.objs
        BY <2>3 DEF Rebit
      <3>2. c.used[q] = a.used[q]
        BY <1>1, <1>6, <2>3, <3>1 DEF Rebit, Objected
      <3>. QED
        BY <1>1, <1>3, <3>1, <3>2 DEF Objected
    <2>. QED
      BY <2>2, <2>3
  <1>8. Bucketed(c)
    <2>1. SUFFICES ASSUME NEW d \in Al!Buckets
          PROVE  /\ Once(c.page_list[d]) /\ Once(c.full_list[d])
                 /\ Names(c.page_list[d]) = {q \in DOMAIN c.objs : /\ c.objs[q].bucket = d
                                                                  /\ c.used[q] # Al!PerPage[d]}
                 /\ Names(c.full_list[d]) = {q \in DOMAIN c.objs : /\ c.objs[q].bucket = d
                                                                  /\ c.used[q] = Al!PerPage[d]}
      BY DEF Bucketed
    <2>2. /\ Once(a.page_list[d]) /\ Once(a.full_list[d])
          /\ Names(a.page_list[d]) = {q \in DOMAIN a.objs : /\ a.objs[q].bucket = d
                                                           /\ a.used[q] # Al!PerPage[d]}
          /\ Names(a.full_list[d]) = {q \in DOMAIN a.objs : /\ a.objs[q].bucket = d
                                                           /\ a.used[q] = Al!PerPage[d]}
      BY <1>1 DEF Bucketed
    <2>3. \A q \in DOMAIN a.objs : q # pg => c.objs[q] = a.objs[q] /\ c.used[q] = a.used[q]
      BY <1>1, <1>6 DEF Rebit, Objected
    <2>4. DOMAIN c.objs = DOMAIN a.objs /\ c.objs[pg].bucket = b /\ c.used[pg] = Cardinality(B)
      BY DEF Rebit
    <2>5. CASE d # b
      <3>1. c.page_list[d] = a.page_list[d] /\ c.full_list[d] = a.full_list[d]
        BY <2>5 DEF Relist
      <3>. QED
        BY <2>2, <2>3, <2>4, <2>5, <3>1
    <2>6. CASE d = b
      <3>1. /\ Once(c.page_list[b]) /\ Once(c.full_list[b])
            /\ Names(c.page_list[b]) = IF Cardinality(B) = Al!PerPage[b]
                                  THEN Names(a.page_list[b]) \ {pg}
                                  ELSE Names(a.page_list[b]) \cup {pg}
            /\ Names(c.full_list[b]) = IF Cardinality(B) = Al!PerPage[b]
                                  THEN Names(a.full_list[b]) \cup {pg}
                                  ELSE Names(a.full_list[b]) \ {pg}
        BY DEF Relist
      <3>. HIDE DEF b
      <3>2. CASE Cardinality(B) = Al!PerPage[b]
        BY <2>2, <2>3, <2>4, <2>6, <3>1, <3>2
      <3>3. CASE Cardinality(B) # Al!PerPage[b]
        BY <2>2, <2>3, <2>4, <2>6, <3>1, <3>3
      <3>. QED
        BY <3>2, <3>3
    <2>. QED
      BY <2>5, <2>6
  <1>9. \A r \in Names(a.huge) : \A q \in Al!PagesIn(r) : c.used[q] = a.used[q]
    <2>1. SUFFICES ASSUME NEW r \in Names(a.huge), NEW q \in Al!PagesIn(r)
                   PROVE c.used[q] = a.used[q]
      OBVIOUS
    <2>2. q \in Al!Pages /\ q \in InRuns(a)
      BY DEF InRuns, Al!PagesIn
    <2>3. q # pg
      BY <1>1, <2>2 DEF Shared
    <2>. QED
      BY <2>2, <2>3 DEF Rebit
  <1>10. Rowed(c)
    <2>1. ASSUME NEW r \in Names(a.huge) PROVE Row(c, r)
      <3>1. Row(a, r)
        BY <1>1 DEF Rowed
      <3>. QED
        BY <1>3, <1>9, <3>1 DEF Row
    <2>. QED
      BY <1>1, <2>1 DEF Rowed, Rebit
  <1>11. Shared(c, {})
    <2>1. InRuns(c) = InRuns(a) /\ DOMAIN c.objs = DOMAIN a.objs /\ FreePages(c) = FreePages(a)
      BY DEF InRuns, FreePages, Rebit
    <2>. QED
      BY <1>1, <1>3, <2>1 DEF Shared
  <1>. QED
    BY <1>4, <1>5, <1>7, <1>8, <1>10, <1>11 DEF PoolSound

LEMMA TakenMore ==
    ASSUME NEW a, PoolSound(a, {}), NEW pg \in DOMAIN a.objs,
           NEW i \in 0..(Al!PerPage[a.objs[pg].bucket] - 1), i \notin a.objs[pg].bits,
           NEW c, Rebit(a, c, pg, a.objs[pg].bits \cup {i})
    PROVE  LET x == Al!Element(pg, a.objs[pg].bucket, i)
           IN /\ Taken(c) = Taken(a) \cup {<<x, a.objs[pg].bucket>>}
              /\ \A b : <<x, b>> \notin Taken(a)
              /\ x \in Nat /\ x # 0
  <1>. DEFINE b == a.objs[pg].bucket
              x == Al!Element(pg, b, i)
  <1>1. Typed(a) /\ Objected(a)
    BY DEF PoolSound
  <1>2. b \in Al!Buckets /\ pg \in Usable /\ pg \in Nat
    BY <1>1, HomeIs DEF Typed, ObjType, Objected
  <1>3. x \in Nat /\ Al!PageOf(a, x) = pg
    BY <1>1, ElementHome
  <1>4. ASSUME NEW d, <<x, d>> \in Taken(a) PROVE FALSE
    <2>1. d = b /\ \E j \in a.objs[pg].bits : x = Al!Element(pg, b, j)
      BY <1>1, <1>3, <1>4, TakenAt
    <2>2. PICK j \in a.objs[pg].bits : x = Al!Element(pg, b, j)
      BY <2>1
    <2>3. j \in 0..(Al!PerPage[b] - 1)
      BY <1>1 DEF Objected
    <2>4. i = j
      BY <1>2, <2>2, <2>3, ElementOnce
    <2>. QED
      BY <2>4
  <1>5. x # 0
    <2>1. x > pg * Small /\ pg * Small \in Nat
      BY <1>2, ElementIn
    <2>. QED
      BY <1>3, <2>1
  <1>6. ASSUME NEW t \in Taken(c) PROVE t \in Taken(a) \cup {<<x, b>>}
    <2>0. PICK q \in DOMAIN c.objs : \E j \in c.objs[q].bits :
            t = <<Al!Element(q, c.objs[q].bucket, j), c.objs[q].bucket>>
      BY TakenIs
    <2>1. PICK j \in c.objs[q].bits :
            t = <<Al!Element(q, c.objs[q].bucket, j), c.objs[q].bucket>>
      BY <2>0
    <2>2. CASE q = pg
      <3>1. c.objs[q].bucket = b /\ j \in a.objs[pg].bits \cup {i}
        BY <2>1, <2>2 DEF Rebit
      <3>. QED
        BY <2>1, <2>2, <3>1, TakenIs
    <2>3. CASE q # pg
      <3>1. c.objs[q] = a.objs[q] /\ q \in DOMAIN a.objs
        BY <2>3 DEF Rebit
      <3>. QED
        BY <2>1, <3>1, TakenIs
    <2>. QED
      BY <2>2, <2>3
  <1>7. ASSUME NEW t \in Taken(a) \cup {<<x, b>>} PROVE t \in Taken(c)
    <2>1. CASE t = <<x, b>>
      <3>1. pg \in DOMAIN c.objs /\ i \in c.objs[pg].bits /\ c.objs[pg].bucket = b
        BY DEF Rebit
      <3>. QED
        BY <2>1, <3>1, TakenIs
    <2>2. CASE t \in Taken(a)
      <3>0. PICK q \in DOMAIN a.objs : \E j \in a.objs[q].bits :
              t = <<Al!Element(q, a.objs[q].bucket, j), a.objs[q].bucket>>
        BY <2>2, TakenIs
      <3>1. PICK j \in a.objs[q].bits :
              t = <<Al!Element(q, a.objs[q].bucket, j), a.objs[q].bucket>>
        BY <3>0
      <3>2. q \in DOMAIN c.objs /\ j \in c.objs[q].bits /\ c.objs[q].bucket = a.objs[q].bucket
        BY <3>1 DEF Rebit
      <3>. QED
        BY <3>1, <3>2, TakenIs
    <2>. QED
      BY <1>7, <2>1, <2>2
  <1>8. Taken(c) = Taken(a) \cup {<<x, b>>}
    BY <1>6, <1>7
  <1>. QED
    BY <1>3, <1>4, <1>5, <1>8

LEMMA TakenLess ==
    ASSUME NEW a, PoolSound(a, {}), NEW pg \in DOMAIN a.objs, NEW i \in a.objs[pg].bits,
           NEW c, Rebit(a, c, pg, a.objs[pg].bits \ {i})
    PROVE  LET x == Al!Element(pg, a.objs[pg].bucket, i)
           IN Taken(c) = Taken(a) \ {<<x, a.objs[pg].bucket>>}
  <1>. DEFINE b == a.objs[pg].bucket
              x == Al!Element(pg, b, i)
  <1>1. Typed(a) /\ Objected(a)
    BY DEF PoolSound
  <1>2. b \in Al!Buckets /\ pg \in Usable /\ pg \in Nat /\ i \in 0..(Al!PerPage[b] - 1)
    BY <1>1, HomeIs DEF Typed, ObjType, Objected
  <1>3. x \in Nat /\ Al!PageOf(a, x) = pg
    BY <1>1, <1>2, ElementHome
  <1>4. ASSUME NEW t \in Taken(c) PROVE t \in Taken(a) \ {<<x, b>>}
    <2>0. PICK q \in DOMAIN c.objs : \E j \in c.objs[q].bits :
            t = <<Al!Element(q, c.objs[q].bucket, j), c.objs[q].bucket>>
      BY TakenIs
    <2>1. PICK j \in c.objs[q].bits :
            t = <<Al!Element(q, c.objs[q].bucket, j), c.objs[q].bucket>>
      BY <2>0
    <2>2. /\ q \in DOMAIN a.objs /\ j \in a.objs[q].bits /\ c.objs[q].bucket = a.objs[q].bucket
          /\ q = pg => j # i
      BY <2>1 DEF Rebit
    <2>3. t \in Taken(a)
      BY <2>1, <2>2, TakenIs
    <2>4. t # <<x, b>>
      <3>1. SUFFICES ASSUME t = <<x, b>> PROVE FALSE
        OBVIOUS
      <3>2. x = Al!Element(q, a.objs[q].bucket, j)
        BY <2>1, <2>2, <3>1
      <3>3. j \in 0..(Al!PerPage[a.objs[q].bucket] - 1)
        BY <1>1, <2>2 DEF Objected
      <3>4. q = pg
        BY <1>1, <1>3, <2>2, <3>2, <3>3, ElementHome
      <3>5. j = i
        BY <1>2, <3>2, <3>3, <3>4, ElementOnce
      <3>. QED
        BY <2>2, <3>4, <3>5
    <2>. QED
      BY <2>3, <2>4
  <1>5. ASSUME NEW t \in Taken(a), t # <<x, b>> PROVE t \in Taken(c)
    <2>0. PICK q \in DOMAIN a.objs : \E j \in a.objs[q].bits :
            t = <<Al!Element(q, a.objs[q].bucket, j), a.objs[q].bucket>>
      BY TakenIs
    <2>1. PICK j \in a.objs[q].bits :
            t = <<Al!Element(q, a.objs[q].bucket, j), a.objs[q].bucket>>
      BY <2>0
    <2>2. q # pg \/ j # i
      BY <1>5, <2>1
    <2>3. q \in DOMAIN c.objs /\ j \in c.objs[q].bits /\ c.objs[q].bucket = a.objs[q].bucket
      BY <2>1, <2>2 DEF Rebit
    <2>. QED
      BY <2>1, <2>3, TakenIs
  <1>. QED
    BY <1>4, <1>5

------------------------------------------------------------------------------
(* Objects taken and given back.                                            *)

LEMMA LargeCardinality == \A S : Al!Cardinality(S) = Cardinality(S)
  BY DEF Al!Cardinality, Cardinality

LEMMA FreeBit ==
    ASSUME NEW b \in Al!Buckets, NEW B, B \subseteq 0..(Al!PerPage[b] - 1),
           Cardinality(B) # Al!PerPage[b]
    PROVE  Al!find_free_bit(B) \in (0..(Al!PerPage[b] - 1)) \ B
  <1>. DEFINE n == Al!PerPage[b]
              k == Cardinality(B)
              X == (0..k) \ B
  <1>1. n \in Nat \ {0} /\ k \in Nat /\ k <= n /\ IsFiniteSet(B)
    BY BitsAre, PageHolds
  <1>2. Al!find_free_bit(B) = Min(X)
    BY LargeCardinality, LargeMinMax DEF Al!find_free_bit
  <1>. HIDE DEF n, k
  <1>3. X # {}
    <2>1. SUFFICES ASSUME 0..k \subseteq B PROVE FALSE
      OBVIOUS
    <2>2. Cardinality(0..k) = k + 1
      BY <1>1, FS_Interval
    <2>3. Cardinality(0..k) <= Cardinality(B)
      BY <1>1, <2>1, FS_Subset
    <2>. QED
      BY <1>1, <2>2, <2>3 DEF k
  <1>4. X \in SUBSET Nat /\ X \subseteq 0..k
    BY <1>1
  <1>5. Min(X) \in X
    BY <1>3, <1>4, MinIsLeast
  <1>6. Min(X) \in 0..(n - 1)
    <2>1. k < n
      BY <1>1 DEF n, k
    <2>. QED
      BY <1>1, <1>4, <1>5, <2>1
  <1>. QED
    BY <1>2, <1>5, <1>6 DEF n

LEMMA LargeWithDomain ==
    ASSUME NEW f, NEW x, NEW v
    PROVE  DOMAIN Al!With(f, x, v) = DOMAIN f \cup {x}
  BY DEF Al!With

LEMMA LargeWithNew ==
    ASSUME NEW f, NEW x, NEW v
    PROVE  Al!With(f, x, v)[x] = v
  BY DEF Al!With

LEMMA LargeWithOld ==
    ASSUME NEW f, NEW x, NEW v, NEW y \in DOMAIN f, y # x
    PROVE  Al!With(f, x, v)[y] = f[y]
  BY DEF Al!With

(* A page is put to use for a bucket that has none with room.              *)
LEMMA PageOpened ==
    ASSUME NEW a, NEW pg \in Usable, PoolSound(a, {pg}), Busy(a, {}),
           NEW b \in Al!Buckets, IsLarge(a, pg) <=> Al!large_page_bucket(b),
           a.page_list[b] = << >>
    PROVE  LET c == [a EXCEPT !.page_list[b] = <<pg>>,
                              !.used[pg] = 0,
                              !.objs = Al!With(@, pg, [bucket |-> b, bits |-> {}])]
           IN /\ PoolSound(c, {}) /\ Busy(c, {pg}) /\ Taken(c) = Taken(a)
              /\ c.page_list[b] = <<pg>> /\ c.huge = a.huge
  <1>. DEFINE ob == [bucket |-> b, bits |-> {}]
              c == [a EXCEPT !.page_list[b] = <<pg>>,
                             !.used[pg] = 0,
                             !.objs = Al!With(@, pg, ob)]
              W == Al!With(a.objs, pg, ob)
  <1>1. /\ Typed(a) /\ FreeListed(a) /\ Objected(a) /\ Bucketed(a) /\ Rowed(a)
        /\ Shared(a, {pg})
    BY DEF PoolSound
  <1>2. /\ DOMAIN c = DOMAIN a /\ c.large = a.large /\ c.huge = a.huge
        /\ c.small_free = a.small_free /\ c.large_free = a.large_free
        /\ c.page_list = [a.page_list EXCEPT ![b] = <<pg>>] /\ c.full_list = a.full_list
        /\ c.used = [a.used EXCEPT ![pg] = 0] /\ c.objs = W
    BY <1>1 DEF Typed
  <1>. HIDE DEF c
  <1>3. /\ DOMAIN W = DOMAIN a.objs \cup {pg} /\ W[pg] = ob
        /\ \A y \in DOMAIN a.objs : y # pg => W[y] = a.objs[y]
    <2>. DEFINE f == a.objs
    <2>1. W = Al!With(f, pg, ob)
      OBVIOUS
    <2>. HIDE DEF f, ob, W
    <2>2. DOMAIN W = DOMAIN f \cup {pg}
      BY <2>1, LargeWithDomain
    <2>3. W[pg] = ob
      BY <2>1, LargeWithNew
    <2>4. \A y \in DOMAIN f : y # pg => W[y] = f[y]
      BY <2>1, LargeWithOld
    <2>. QED
      BY <2>2, <2>3, <2>4 DEF f
  <1>. HIDE DEF W
  <1>4. ob \in ObjType /\ ob.bucket = b /\ ob.bits = {}
    BY DEF ObjType
  <1>. HIDE DEF ob
  <1>5. pg \notin DOMAIN a.objs /\ pg \notin FreePages(a) /\ pg \notin InRuns(a)
        /\ Home(a, pg) = pg /\ pg \in Nat /\ pg \in Al!Pages
    BY <1>1, HomeIs DEF Shared, Typed
  <1>6. \A q : (IsLarge(c, q) <=> IsLarge(a, q)) /\ Home(c, q) = Home(a, q)
    BY <1>2 DEF IsLarge, Home
  <1>7. /\ c.used \in [Al!Pages -> Nat] /\ c.used[pg] = 0
        /\ \A q \in Al!Pages : q # pg => c.used[q] = a.used[q]
    BY <1>1, <1>2, <1>5 DEF Typed
  <1>8. /\ c.page_list \in [Al!Buckets -> Seq(Nat)] /\ c.page_list[b] = <<pg>>
        /\ \A d \in Al!Buckets : d # b => c.page_list[d] = a.page_list[d]
    <2>1. <<pg>> \in Seq(Nat)
      BY <1>5
    <2>. QED
      BY <1>1, <1>2, <2>1 DEF Typed
  <1>9. Once(<<pg>>) /\ Names(<<pg>>) = {pg} /\ Names(<< >>) = {}
    BY DEF Once, Names
  <1>10. Typed(c)
    <2>1. \A q \in DOMAIN c.objs : c.objs[q] \in ObjType
      BY <1>1, <1>2, <1>3, <1>4 DEF Typed
    <2>. QED
      BY <1>1, <1>2, <1>7, <1>8, <2>1 DEF Typed
  <1>11. FreeListed(c)
    BY <1>1, <1>2, <1>6 DEF FreeListed
  <1>12. Usable \subseteq Al!Pages
    BY WholeAre DEF Usable
  <1>13. \A q \in DOMAIN a.objs : q # pg /\ c.objs[q] = a.objs[q] /\ c.used[q] = a.used[q]
    BY <1>1, <1>2, <1>3, <1>5, <1>7, <1>12 DEF Objected
  <1>14. Objected(c)
    <2>1. SUFFICES ASSUME NEW q \in DOMAIN c.objs
          PROVE  /\ q \in Usable /\ Home(c, q) = q
                 /\ IsLarge(c, q) <=> Al!large_page_bucket(c.objs[q].bucket)
                 /\ c.objs[q].bits \subseteq 0..(Al!PerPage[c.objs[q].bucket] - 1)
                 /\ c.used[q] = Cardinality(c.objs[q].bits)
      BY DEF Objected
    <2>2. CASE q = pg
      <3>1. c.objs[q] = ob /\ Cardinality({}) = 0
        BY <1>2, <1>3, <2>2, FS_EmptySet
      <3>. QED
        BY <1>4, <1>5, <1>6, <1>7, <2>2, <3>1
    <2>3. CASE q # pg
      <3>1. q \in DOMAIN a.objs
        BY <1>2, <1>3, <2>3
      <3>. QED
        BY <1>1, <1>6, <1>13, <3>1 DEF Objected
    <2>. QED
      BY <2>2, <2>3
  <1>15. Bucketed(c)
    <2>1. SUFFICES ASSUME NEW d \in Al!Buckets
          PROVE  /\ Once(c.page_list[d]) /\ Once(c.full_list[d])
                 /\ Names(c.page_list[d]) = {q \in DOMAIN c.objs : /\ c.objs[q].bucket = d
                                                                  /\ c.used[q] # Al!PerPage[d]}
                 /\ Names(c.full_list[d]) = {q \in DOMAIN c.objs : /\ c.objs[q].bucket = d
                                                                  /\ c.used[q] = Al!PerPage[d]}
      BY DEF Bucketed
    <2>2. /\ Once(a.page_list[d]) /\ Once(a.full_list[d])
          /\ Names(a.page_list[d]) = {q \in DOMAIN a.objs : /\ a.objs[q].bucket = d
                                                           /\ a.used[q] # Al!PerPage[d]}
          /\ Names(a.full_list[d]) = {q \in DOMAIN a.objs : /\ a.objs[q].bucket = d
                                                           /\ a.used[q] = Al!PerPage[d]}
      BY <1>1 DEF Bucketed
    <2>3. /\ DOMAIN c.objs = DOMAIN a.objs \cup {pg} /\ c.objs[pg].bucket = b
          /\ c.used[pg] = 0 /\ c.full_list[d] = a.full_list[d]
      BY <1>2, <1>3, <1>4, <1>7
    <2>4. Al!PerPage[d] # 0
      BY PageHolds
    <2>5. CASE d # b
      <3>1. c.page_list[d] = a.page_list[d]
        BY <1>8, <2>5
      <3>. QED
        BY <1>5, <1>13, <2>2, <2>3, <2>5, <3>1
    <2>6. CASE d = b
      <3>1. Names(a.page_list[d]) = {}
        BY <1>9, <2>6
      <3>2. c.page_list[d] = <<pg>>
        BY <1>8, <2>6
      <3>. QED
        BY <1>5, <1>9, <1>13, <2>2, <2>3, <2>4, <2>6, <3>1, <3>2
    <2>. QED
      BY <2>5, <2>6
  <1>16. Rowed(c)
    <2>1. ASSUME NEW r \in Names(a.huge) PROVE Row(c, r)
      <3>1. Row(a, r)
        BY <1>1 DEF Rowed
      <3>2. \A q \in Al!PagesIn(r) : q \in Al!Pages /\ q # pg
        BY <1>5 DEF InRuns, Al!PagesIn
      <3>. QED
        BY <1>6, <1>7, <3>1, <3>2 DEF Row
    <2>. QED
      BY <1>1, <1>2, <2>1 DEF Rowed
  <1>17. Shared(c, {})
    <2>1. InRuns(c) = InRuns(a) /\ DOMAIN c.objs = DOMAIN a.objs \cup {pg}
          /\ FreePages(c) = FreePages(a)
      BY <1>2, <1>3 DEF InRuns, FreePages
    <2>. QED
      BY <1>1, <1>5, <1>6, <2>1 DEF Shared
  <1>18. Busy(c, {pg})
    BY <1>2, <1>3, <1>13 DEF Busy
  <1>19. Taken(c) = Taken(a)
    <2>1. c.objs[pg].bits = {}
      BY <1>2, <1>3, <1>4
    <2>2. ASSUME NEW t PROVE t \in Taken(c) <=> t \in Taken(a)
      BY <1>2, <1>3, <1>13, <2>1, TakenIs
    <2>. QED
      BY <2>2
  <1>. QED
    BY <1>2, <1>8, <1>10, <1>11, <1>14, <1>15, <1>16, <1>17, <1>18, <1>19
    DEF PoolSound, c, ob

LEMMA BitAdded ==
    ASSUME NEW b \in Al!Buckets, NEW B, B \subseteq 0..(Al!PerPage[b] - 1),
           NEW i, i \notin B
    PROVE  Cardinality(B \cup {i}) = Cardinality(B) + 1
  <1>1. IsFiniteSet(B)
    BY BitsAre
  <1>. QED
    BY <1>1, FS_AddElement

LEMMA BitRemoved ==
    ASSUME NEW b \in Al!Buckets, NEW B, B \subseteq 0..(Al!PerPage[b] - 1),
           NEW i \in B
    PROVE  Cardinality(B \ {i}) = Cardinality(B) - 1
  <1>1. IsFiniteSet(B)
    BY BitsAre
  <1>. QED
    BY <1>1, FS_RemoveElement

(* An element of the first page on the list is taken.                      *)
LEMMA ElementTaken ==
    ASSUME NEW a, NEW b \in Al!Buckets, PoolSound(a, {}), a.page_list[b] # << >>,
           Busy(a, {Head(a.page_list[b])})
    PROVE  LET g == Al!TakeElement(a, b)
           IN /\ PoolSound(g.pool, {}) /\ Busy(g.pool, {}) /\ g.pool.huge = a.huge
              /\ Taken(g.pool) = Taken(a) \cup {<<g.off, b>>}
              /\ \A d : <<g.off, d>> \notin Taken(a)
              /\ g.off \in Nat /\ g.off # 0
  <1>. DEFINE pg == Head(a.page_list[b])
              ob == a.objs[pg]
              i == Al!find_free_bit(ob.bits)
              B == ob.bits \cup {i}
              n == Al!PerPage[b]
              c == [a EXCEPT !.objs[pg].bits = @ \cup {i}, !.used[pg] = @ + 1]
              d == IF c.used[pg] # n THEN c
                   ELSE [c EXCEPT !.page_list[b] = Tail(@), !.full_list[b] = <<pg>> \o @]
              g == Al!TakeElement(a, b)
  <1>1. /\ Typed(a) /\ FreeListed(a) /\ Objected(a) /\ Bucketed(a) /\ Rowed(a)
        /\ Shared(a, {})
    BY DEF PoolSound
  <1>2. g.off = Al!Element(pg, b, i) /\ g.pool = d
    BY DEF Al!TakeElement
  <1>3. /\ a.page_list[b] \in Seq(Nat) /\ Once(a.page_list[b])
        /\ a.full_list[b] \in Seq(Nat) /\ Once(a.full_list[b])
        /\ Names(a.page_list[b]) = {q \in DOMAIN a.objs : /\ a.objs[q].bucket = b
                                                         /\ a.used[q] # n}
        /\ Names(a.full_list[b]) = {q \in DOMAIN a.objs : /\ a.objs[q].bucket = b
                                                         /\ a.used[q] = n}
    BY <1>1 DEF Typed, Bucketed
  <1>4. /\ pg \in Names(a.page_list[b]) /\ pg \in Nat
        /\ Tail(a.page_list[b]) \in Seq(Nat) /\ Once(Tail(a.page_list[b]))
        /\ Names(Tail(a.page_list[b])) = Names(a.page_list[b]) \ {pg}
    BY <1>3, PoppedOnce
  <1>5. pg \in DOMAIN a.objs /\ ob.bucket = b /\ a.used[pg] # n /\ pg \notin Names(a.full_list[b])
    BY <1>3, <1>4
  <1>6. /\ pg \in Usable /\ pg \in Al!Pages /\ ob \in ObjType
        /\ ob.bits \subseteq 0..(n - 1) /\ a.used[pg] = Cardinality(ob.bits)
    BY <1>1, <1>5, WholeAre DEF Objected, Usable, Typed
  <1>7. i \in (0..(n - 1)) \ ob.bits
    BY <1>5, <1>6, FreeBit
  <1>8. /\ Cardinality(B) = Cardinality(ob.bits) + 1 /\ Cardinality(B) \in Nat
        /\ B \subseteq 0..(n - 1)
    <2>. DEFINE S == ob.bits
                k == Cardinality(S)
    <2>1. S \subseteq 0..(Al!PerPage[b] - 1) /\ i \in (0..(Al!PerPage[b] - 1)) \ S
      BY <1>6, <1>7
    <2>. HIDE DEF i, S
    <2>2. k \in Nat
      BY <2>1, BitsAre
    <2>3. Cardinality(S \cup {i}) = k + 1
      BY <2>1, BitAdded
    <2>4. S \cup {i} \subseteq 0..(n - 1)
      BY <2>1
    <2>. HIDE DEF k
    <2>5. k + 1 \in Nat
      BY <2>2
    <2>. QED
      BY <2>3, <2>4, <2>5 DEF S, k
  <1>9. <<pg>> \o a.full_list[b] \in Seq(Nat) /\ Once(<<pg>> \o a.full_list[b])
        /\ Names(<<pg>> \o a.full_list[b]) = Names(a.full_list[b]) \cup {pg}
    BY <1>3, <1>4, <1>5, PushedOnce
  <1>. HIDE DEF pg, i, n, g
  <1>10. /\ DOMAIN c = DOMAIN a /\ c.large = a.large /\ c.huge = a.huge
         /\ c.small_free = a.small_free /\ c.large_free = a.large_free
         /\ c.page_list = a.page_list /\ c.full_list = a.full_list
         /\ c.used = [a.used EXCEPT ![pg] = a.used[pg] + 1]
         /\ c.objs = [a.objs EXCEPT ![pg] = [a.objs[pg] EXCEPT !.bits = B]]
    BY <1>1 DEF Typed
  <1>. HIDE DEF c
  <1>11. c.used[pg] = Cardinality(B)
    BY <1>1, <1>6, <1>8, <1>10 DEF Typed
  <1>12. /\ DOMAIN d = DOMAIN a /\ d.large = a.large /\ d.huge = a.huge
         /\ d.small_free = a.small_free /\ d.large_free = a.large_free
         /\ d.used = c.used /\ d.objs = c.objs
         /\ c.used[pg] # n => d.page_list = a.page_list /\ d.full_list = a.full_list
         /\ c.used[pg] = n =>
              /\ d.page_list = [a.page_list EXCEPT ![b] = Tail(@)]
              /\ d.full_list = [a.full_list EXCEPT ![b] = <<pg>> \o @]
    BY <1>1, <1>10 DEF Typed
  <1>. HIDE DEF d
  <1>13. Rebit(a, d, pg, B)
    <2>1. d.objs[pg] = [a.objs[pg] EXCEPT !.bits = B] /\ DOMAIN d.objs = DOMAIN a.objs
          /\ \A q \in DOMAIN a.objs : q # pg => d.objs[q] = a.objs[q]
      BY <1>5, <1>10, <1>12
    <2>2. d.objs[pg] \in ObjType /\ d.objs[pg].bucket = ob.bucket /\ d.objs[pg].bits = B
      <3>1. B \subseteq Nat
        BY <1>6, <1>7, PageHolds DEF n, ObjType
      <3>. HIDE DEF B
      <3>. QED
        BY <1>6, <2>1, <3>1 DEF ObjType
    <2>3. d.used \in [Al!Pages -> Nat] /\ d.used[pg] = Cardinality(B)
          /\ \A q \in Al!Pages : q # pg => d.used[q] = a.used[q]
      BY <1>1, <1>6, <1>8, <1>10, <1>11, <1>12 DEF Typed
    <2>. QED
      BY <1>12, <2>1, <2>2, <2>3 DEF Rebit
  <1>14. Relist(a, d, pg, B)
    <2>1. CASE Cardinality(B) # n
      <3>1. d.page_list = a.page_list /\ d.full_list = a.full_list
        BY <1>11, <1>12, <2>1
      <3>2. Names(a.page_list[b]) \cup {pg} = Names(a.page_list[b])
            /\ Names(a.full_list[b]) \ {pg} = Names(a.full_list[b])
        BY <1>4, <1>5
      <3>. QED
        BY <1>1, <1>3, <1>5, <2>1, <3>1, <3>2 DEF Relist, Typed, n
    <2>2. CASE Cardinality(B) = n
      <3>1. /\ d.page_list = [a.page_list EXCEPT ![b] = Tail(@)]
            /\ d.full_list = [a.full_list EXCEPT ![b] = <<pg>> \o @]
        BY <1>11, <1>12, <2>2
      <3>2. d.page_list[b] = Tail(a.page_list[b]) /\ d.full_list[b] = <<pg>> \o a.full_list[b]
            /\ \A e \in Al!Buckets : e # b => /\ d.page_list[e] = a.page_list[e]
                                             /\ d.full_list[e] = a.full_list[e]
        BY <1>1, <3>1 DEF Typed
      <3>3. d.page_list \in [Al!Buckets -> Seq(Nat)] /\ d.full_list \in [Al!Buckets -> Seq(Nat)]
        BY <1>1, <1>4, <1>9, <3>1 DEF Typed, pg
      <3>. QED
        BY <1>4, <1>5, <1>9, <2>2, <3>2, <3>3 DEF Relist, n, pg
    <2>. QED
      BY <2>1, <2>2
  <1>15. PoolSound(d, {})
    BY <1>5, <1>8, <1>13, <1>14, Rebitted DEF n
  <1>16. /\ Taken(d) = Taken(a) \cup {<<Al!Element(pg, b, i), b>>}
         /\ \A e : <<Al!Element(pg, b, i), e>> \notin Taken(a)
         /\ Al!Element(pg, b, i) \in Nat /\ Al!Element(pg, b, i) # 0
    BY <1>5, <1>7, <1>13, TakenMore DEF n
  <1>17. Busy(d, {})
    BY <1>7, <1>13 DEF Busy, Rebit, pg
  <1>. QED
    BY <1>2, <1>12, <1>15, <1>16, <1>17 DEF g

(* alloc_get of an object, from a page that has room or from a new one.    *)
LEMMA ObjectGot ==
    ASSUME NEW a, NEW b \in Al!Buckets, PoolSound(a, {}), Busy(a, {})
    PROVE  LET g == Al!GetObject(a, b)
           IN /\ PoolSound(g.pool, {}) /\ Busy(g.pool, {}) /\ g.pool.huge = a.huge
              /\ g.off = 0 => Taken(g.pool) = Taken(a)
              /\ g.off # 0 => /\ Taken(g.pool) = Taken(a) \cup {<<g.off, b>>}
                              /\ \A d : <<g.off, d>> \notin Taken(a)
                              /\ g.off \in Nat
  <1>. DEFINE g == Al!GetObject(a, b)
              n == Al!NewPage(a, b)
              c == [n.pool EXCEPT !.page_list[b] = <<n.page>>,
                                  !.used[n.page] = 0,
                                  !.objs = Al!With(@, n.page, [bucket |-> b, bits |-> {}])]
              t == Al!TakeElement(c, b)
  <1>1. CASE a.page_list[b] # << >>
    <2>1. g = Al!TakeElement(a, b)
      BY <1>1 DEF Al!GetObject
    <2>2. Busy(a, {Head(a.page_list[b])})
      BY DEF Busy
    <2>. HIDE DEF g
    <2>. QED
      BY <1>1, <2>1, <2>2, ElementTaken DEF g
  <1>2. CASE a.page_list[b] = << >>
    <2>1. g = IF n.page = 0 THEN [off |-> 0, pool |-> n.pool] ELSE t
      BY <1>2 DEF Al!GetObject
    <2>2. /\ Same(a, n.pool)
          /\ n.page = 0 => PoolSound(n.pool, {})
          /\ n.page # 0 => /\ PoolSound(n.pool, {n.page}) /\ n.page \in Usable
                           /\ IsLarge(n.pool, n.page) <=> Al!large_page_bucket(b)
      BY NewPageGot
    <2>3. Busy(n.pool, {}) /\ Taken(n.pool) = Taken(a) /\ n.pool.huge = a.huge
          /\ n.pool.page_list[b] = << >>
      BY <1>2, <2>2 DEF Same, Busy, Taken
    <2>. HIDE DEF g, n, t
    <2>4. CASE n.page = 0
      BY <2>1, <2>2, <2>3, <2>4 DEF g
    <2>5. CASE n.page # 0
      <3>. DEFINE m == n.pool
                  pg == n.page
      <3>1. /\ PoolSound(m, {pg}) /\ pg \in Usable /\ Busy(m, {}) /\ m.page_list[b] = << >>
            /\ IsLarge(m, pg) <=> Al!large_page_bucket(b)
        BY <2>2, <2>3, <2>5
      <3>2. c = [m EXCEPT !.page_list[b] = <<pg>>,
                          !.used[pg] = 0,
                          !.objs = Al!With(@, pg, [bucket |-> b, bits |-> {}])]
        OBVIOUS
      <3>. HIDE DEF m, pg, c
      <3>3. /\ PoolSound(c, {}) /\ Busy(c, {pg}) /\ Taken(c) = Taken(m)
            /\ c.page_list[b] = <<pg>> /\ c.huge = m.huge
        BY <3>1, <3>2, PageOpened
      <3>4. c.page_list[b] # << >> /\ Head(c.page_list[b]) = pg
        BY <3>3
      <3>5. /\ PoolSound(t.pool, {}) /\ Busy(t.pool, {}) /\ t.pool.huge = c.huge
            /\ Taken(t.pool) = Taken(c) \cup {<<t.off, b>>}
            /\ \A d : <<t.off, d>> \notin Taken(c)
            /\ t.off \in Nat /\ t.off # 0
        BY <3>3, <3>4, ElementTaken DEF t
      <3>6. g = t
        BY <2>1, <2>5
      <3>7. Taken(m) = Taken(a) /\ m.huge = a.huge
        BY <2>3 DEF m
      <3>. QED
        BY <3>3, <3>5, <3>6, <3>7 DEF g
    <2>. QED
      BY <2>4, <2>5
  <1>. QED
    BY <1>1, <1>2

(* A page that serves no object any more is free for every use.            *)
LEMMA PageReleased ==
    ASSUME NEW a, PoolSound(a, {}), NEW pg \in DOMAIN a.objs, a.objs[pg].bits = {},
           Busy(a, {pg})
    PROVE  LET c == Al!Released(a, pg)
           IN /\ PoolSound(c, {}) /\ Busy(c, {}) /\ Taken(c) = Taken(a) /\ c.huge = a.huge
  <1>. DEFINE b == a.objs[pg].bucket
              rest == Al!Without(a.page_list[b], {pg})
              objs == [q \in DOMAIN a.objs \ {pg} |-> a.objs[q]]
              d == [a EXCEPT !.page_list[b] = Al!Without(@, {pg}),
                             !.objs = [q \in DOMAIN @ \ {pg} |-> @[q]]]
              sf == IF IsLarge(a, pg) THEN a.small_free ELSE <<pg>> \o a.small_free
              lf == IF IsLarge(a, pg) THEN <<pg>> \o a.large_free ELSE a.large_free
              c == Al!Released(a, pg)
  <1>1. /\ Typed(a) /\ FreeListed(a) /\ Objected(a) /\ Bucketed(a) /\ Rowed(a)
        /\ Shared(a, {})
    BY DEF PoolSound
  <1>2. c = IF IsLarge(a, pg) THEN [d EXCEPT !.large_free = <<pg>> \o @]
                              ELSE [d EXCEPT !.small_free = <<pg>> \o @]
    BY DEF Al!Released, IsLarge
  <1>3. b \in Al!Buckets /\ pg \in Usable /\ pg \in Nat /\ Home(a, pg) = pg
        /\ a.used[pg] = Cardinality({}) /\ Cardinality({}) = 0
    BY <1>1, HomeIs, FS_EmptySet DEF Typed, ObjType, Objected
  <1>4. /\ a.page_list[b] \in Seq(Nat) /\ Once(a.page_list[b])
        /\ a.full_list[b] \in Seq(Nat) /\ Once(a.full_list[b])
    BY <1>1, <1>3 DEF Typed, Bucketed
  <1>. HIDE DEF b, c
  <1>5. rest \in Seq(Nat) /\ Once(rest) /\ Names(rest) = Names(a.page_list[b]) \ {pg}
    BY <1>4, WithoutIs
  <1>. HIDE DEF rest
  <1>6. /\ DOMAIN d = DOMAIN a /\ d.large = a.large /\ d.huge = a.huge
        /\ d.small_free = a.small_free /\ d.large_free = a.large_free
        /\ d.page_list = [a.page_list EXCEPT ![b] = rest] /\ d.full_list = a.full_list
        /\ d.used = a.used /\ d.objs = objs
    BY <1>1 DEF Typed, rest
  <1>. HIDE DEF d
  <1>7. /\ DOMAIN c = DOMAIN a /\ c.large = a.large /\ c.huge = a.huge
        /\ c.small_free = sf /\ c.large_free = lf
        /\ c.page_list = [a.page_list EXCEPT ![b] = rest] /\ c.full_list = a.full_list
        /\ c.used = a.used /\ c.objs = objs
    <2>1. CASE IsLarge(a, pg)
      BY <1>1, <1>2, <1>6, <2>1 DEF Typed
    <2>2. CASE ~ IsLarge(a, pg)
      BY <1>1, <1>2, <1>6, <2>2 DEF Typed
    <2>. QED
      BY <2>1, <2>2
  <1>8. pg \notin FreePages(a) /\ pg \notin InRuns(a)
    BY <1>1 DEF Shared
  <1>9. <<pg>> \o a.small_free \in Seq(Nat) /\ Once(<<pg>> \o a.small_free)
        /\ Names(<<pg>> \o a.small_free) = Names(a.small_free) \cup {pg}
    BY <1>1, <1>3, <1>8, PushedOnce DEF Typed, FreeListed, FreePages
  <1>10. <<pg>> \o a.large_free \in Seq(Nat) /\ Once(<<pg>> \o a.large_free)
         /\ Names(<<pg>> \o a.large_free) = Names(a.large_free) \cup {pg}
    BY <1>1, <1>3, <1>8, PushedOnce DEF Typed, FreeListed, FreePages
  <1>11. /\ sf \in Seq(Nat) /\ Once(sf) /\ lf \in Seq(Nat) /\ Once(lf)
         /\ Names(sf) = IF IsLarge(a, pg) THEN Names(a.small_free) ELSE Names(a.small_free) \cup {pg}
         /\ Names(lf) = IF IsLarge(a, pg) THEN Names(a.large_free) \cup {pg} ELSE Names(a.large_free)
    BY <1>1, <1>9, <1>10 DEF Typed, FreeListed
  <1>. HIDE DEF sf, lf
  <1>12. FreePages(c) = FreePages(a) \cup {pg}
    BY <1>7, <1>11 DEF FreePages
  <1>13. \A q : (IsLarge(c, q) <=> IsLarge(a, q)) /\ Home(c, q) = Home(a, q)
    BY <1>7 DEF IsLarge, Home
  <1>14. /\ DOMAIN c.objs = DOMAIN a.objs \ {pg}
         /\ \A q \in DOMAIN a.objs : q # pg => c.objs[q] = a.objs[q]
    BY <1>7
  <1>. HIDE DEF objs
  <1>15. c.page_list \in [Al!Buckets -> Seq(Nat)] /\ c.page_list[b] = rest
         /\ \A e \in Al!Buckets : e # b => c.page_list[e] = a.page_list[e]
    BY <1>1, <1>3, <1>5, <1>7 DEF Typed
  <1>16. Typed(c)
    BY <1>1, <1>7, <1>11, <1>14, <1>15 DEF Typed
  <1>17. FreeListed(c)
    <2>1. IsLarge(a, pg) => pg = Al!FirstOf(Al!LargeOf(pg))
      BY <1>3 DEF Home
    <2>2. \A q \in Names(sf) : q \in Usable /\ ~ IsLarge(a, q)
      BY <1>1, <1>3, <1>11 DEF FreeListed
    <2>3. \A q \in Names(lf) : q \in Usable /\ IsLarge(a, q) /\ q = Al!FirstOf(Al!LargeOf(q))
      BY <1>1, <1>3, <1>11, <2>1 DEF FreeListed
    <2>. QED
      BY <1>7, <1>11, <1>13, <2>2, <2>3 DEF FreeListed
  <1>18. Objected(c)
    BY <1>1, <1>7, <1>13, <1>14 DEF Objected
  <1>19. Bucketed(c)
    <2>1. SUFFICES ASSUME NEW e \in Al!Buckets
          PROVE  /\ Once(c.page_list[e]) /\ Once(c.full_list[e])
                 /\ Names(c.page_list[e]) = {q \in DOMAIN c.objs : /\ c.objs[q].bucket = e
                                                                  /\ c.used[q] # Al!PerPage[e]}
                 /\ Names(c.full_list[e]) = {q \in DOMAIN c.objs : /\ c.objs[q].bucket = e
                                                                  /\ c.used[q] = Al!PerPage[e]}
      BY DEF Bucketed
    <2>2. /\ Once(a.page_list[e]) /\ Once(a.full_list[e])
          /\ Names(a.page_list[e]) = {q \in DOMAIN a.objs : /\ a.objs[q].bucket = e
                                                           /\ a.used[q] # Al!PerPage[e]}
          /\ Names(a.full_list[e]) = {q \in DOMAIN a.objs : /\ a.objs[q].bucket = e
                                                           /\ a.used[q] = Al!PerPage[e]}
      BY <1>1 DEF Bucketed
    <2>3. Al!PerPage[e] # 0
      BY PageHolds
    <2>4. CASE e # b
      <3>1. c.page_list[e] = a.page_list[e] /\ c.full_list[e] = a.full_list[e]
        BY <1>7, <1>15, <2>4
      <3>2. a.objs[pg].bucket # e
        BY <2>4 DEF b
      <3>. QED
        BY <1>7, <1>14, <2>2, <3>1, <3>2
    <2>5. CASE e = b
      <3>1. c.page_list[e] = rest /\ c.full_list[e] = a.full_list[e]
        BY <1>7, <1>15, <2>5
      <3>2. a.used[pg] # Al!PerPage[e]
        BY <1>3, <2>3
      <3>. QED
        BY <1>5, <1>7, <1>14, <2>2, <2>5, <3>1, <3>2
    <2>. QED
      BY <2>4, <2>5
  <1>20. Rowed(c)
    <2>1. \A r : Row(a, r) => Row(c, r)
      BY <1>7, <1>13 DEF Row
    <2>. QED
      BY <1>1, <1>7, <2>1 DEF Rowed
  <1>21. Shared(c, {})
    <2>1. InRuns(c) = InRuns(a)
      BY <1>7 DEF InRuns
    <2>. QED
      BY <1>1, <1>8, <1>12, <1>13, <1>14, <2>1 DEF Shared
  <1>22. Busy(c, {})
    BY <1>14 DEF Busy
  <1>23. Taken(c) = Taken(a)
    <2>1. ASSUME NEW t PROVE t \in Taken(c) <=> t \in Taken(a)
      BY <1>14, TakenIs
    <2>. QED
      BY <2>1
  <1>. QED
    BY <1>7, <1>16, <1>17, <1>18, <1>19, <1>20, <1>21, <1>22, <1>23 DEF PoolSound, c

(* alloc_free of an object.                                                *)
LEMMA ObjectFreed ==
    ASSUME NEW a, PoolSound(a, {}), Busy(a, {}), NEW x, NEW b, <<x, b>> \in Taken(a)
    PROVE  LET c == Al!FreeObject(a, x)
           IN /\ PoolSound(c, {}) /\ Busy(c, {}) /\ Taken(c) = Taken(a) \ {<<x, b>>}
              /\ c.huge = a.huge
  <1>. DEFINE pg == Al!PageOf(a, x)
              n == Al!PerPage[b]
              i == (x - Al!Element(pg, b, 0)) \div Al!bucket_to_size(b)
              r == Al!Reopened(a, pg)
              B == a.objs[pg].bits \ {i}
              d == [r EXCEPT !.objs[pg].bits = @ \ {i}, !.used[pg] = @ - 1]
              c == Al!FreeObject(a, x)
  <1>1. /\ Typed(a) /\ FreeListed(a) /\ Objected(a) /\ Bucketed(a) /\ Rowed(a)
        /\ Shared(a, {})
    BY DEF PoolSound
  <1>2. /\ x \in Nat /\ pg \in DOMAIN a.objs /\ b = a.objs[pg].bucket
        /\ \E j \in a.objs[pg].bits : x = Al!Element(pg, b, j)
    BY <1>1, TakenAt
  <1>3. c = IF d.used[pg] = 0 THEN Al!Released(d, pg) ELSE d
    BY <1>2 DEF Al!FreeObject
  <1>4. /\ b \in Al!Buckets /\ pg \in Usable /\ pg \in Nat /\ pg \in Al!Pages
        /\ a.objs[pg] \in ObjType /\ a.objs[pg].bits \subseteq 0..(n - 1)
        /\ a.used[pg] = Cardinality(a.objs[pg].bits)
    BY <1>1, <1>2, HomeIs DEF Typed, ObjType, Objected
  <1>. HIDE DEF pg, c
  <1>5. i \in a.objs[pg].bits /\ x = Al!Element(pg, b, i)
    <2>1. PICK j \in a.objs[pg].bits : x = Al!Element(pg, b, j)
      BY <1>2
    <2>2. i = j
      BY <1>4, <2>1, ElementIndex
    <2>. QED
      BY <2>1, <2>2
  <1>. HIDE DEF i
  <1>6. /\ Cardinality(B) = a.used[pg] - 1 /\ B \subseteq 0..(n - 1) /\ a.used[pg] \in Nat
        /\ Cardinality(B) \in Nat /\ Cardinality(B) # n
    <2>. DEFINE S == a.objs[pg].bits
    <2>1. S \subseteq 0..(Al!PerPage[b] - 1) /\ i \in S
      BY <1>4, <1>5
    <2>. HIDE DEF S
    <2>2. Cardinality(S \ {i}) = Cardinality(S) - 1
      BY <1>4, <2>1, BitRemoved
    <2>3. Cardinality(S) \in Nat /\ Cardinality(S) <= n
      BY <1>4, <2>1, BitsAre
    <2>4. S \ {i} \subseteq 0..(Al!PerPage[b] - 1)
      BY <2>1
    <2>5. Cardinality(S \ {i}) \in Nat
      BY <1>4, <2>4, BitsAre
    <2>6. n \in Nat
      BY <1>4, PageHolds
    <2>7. a.used[pg] = Cardinality(S)
      BY <1>4 DEF S
    <2>. HIDE DEF n
    <2>8. Cardinality(S \ {i}) = a.used[pg] - 1 /\ a.used[pg] \in Nat /\ Cardinality(S \ {i}) # n
      BY <2>2, <2>3, <2>6, <2>7
    <2>. QED
      BY <2>4, <2>5, <2>8 DEF S, n
  <1>7. /\ a.page_list[b] \in Seq(Nat) /\ Once(a.page_list[b])
        /\ a.full_list[b] \in Seq(Nat) /\ Once(a.full_list[b])
        /\ Names(a.page_list[b]) = {q \in DOMAIN a.objs : /\ a.objs[q].bucket = b
                                                         /\ a.used[q] # n}
        /\ Names(a.full_list[b]) = {q \in DOMAIN a.objs : /\ a.objs[q].bucket = b
                                                         /\ a.used[q] = n}
    BY <1>1, <1>4 DEF Typed, Bucketed
  <1>. DEFINE rest == Al!Without(a.full_list[b], {pg})
  <1>8. rest \in Seq(Nat) /\ Once(rest) /\ Names(rest) = Names(a.full_list[b]) \ {pg}
    BY <1>7, WithoutIs
  <1>. HIDE DEF n, rest
  <1>9. r = IF a.used[pg] # n THEN a
            ELSE [a EXCEPT !.full_list[b] = rest, !.page_list[b] = <<pg>> \o @]
    BY <1>2 DEF Al!Reopened, n, rest
  <1>. HIDE DEF r
  <1>10. /\ DOMAIN r = DOMAIN a /\ r.large = a.large /\ r.huge = a.huge
         /\ r.small_free = a.small_free /\ r.large_free = a.large_free
         /\ r.used = a.used /\ r.objs = a.objs
         /\ a.used[pg] # n => r.page_list = a.page_list /\ r.full_list = a.full_list
         /\ a.used[pg] = n =>
              /\ r.page_list = [a.page_list EXCEPT ![b] = <<pg>> \o @]
              /\ r.full_list = [a.full_list EXCEPT ![b] = rest]
    <2>1. CASE a.used[pg] # n
      BY <1>9, <2>1
    <2>2. CASE a.used[pg] = n
      BY <1>1, <1>9, <2>2 DEF Typed
    <2>. QED
      BY <2>1, <2>2
  <1>11. /\ DOMAIN d = DOMAIN a /\ d.large = a.large /\ d.huge = a.huge
         /\ d.small_free = a.small_free /\ d.large_free = a.large_free
         /\ d.page_list = r.page_list /\ d.full_list = r.full_list
         /\ d.used = [a.used EXCEPT ![pg] = a.used[pg] - 1]
         /\ d.objs = [a.objs EXCEPT ![pg] = [a.objs[pg] EXCEPT !.bits = B]]
    BY <1>1, <1>10 DEF Typed
  <1>. HIDE DEF d
  <1>12. Rebit(a, d, pg, B)
    <2>1. d.objs[pg] = [a.objs[pg] EXCEPT !.bits = B] /\ DOMAIN d.objs = DOMAIN a.objs
          /\ \A q \in DOMAIN a.objs : q # pg => d.objs[q] = a.objs[q]
      BY <1>2, <1>11
    <2>2. /\ d.objs[pg] \in ObjType /\ d.objs[pg].bucket = a.objs[pg].bucket
          /\ d.objs[pg].bits = B
      <3>1. B \subseteq Nat
        BY <1>4 DEF ObjType
      <3>. HIDE DEF B
      <3>. QED
        BY <1>4, <2>1, <3>1 DEF ObjType
    <2>3. d.used \in [Al!Pages -> Nat] /\ d.used[pg] = Cardinality(B)
          /\ \A q \in Al!Pages : q # pg => d.used[q] = a.used[q]
      BY <1>1, <1>4, <1>6, <1>11 DEF Typed
    <2>. QED
      BY <1>11, <2>1, <2>2, <2>3 DEF Rebit
  <1>13. Relist(a, d, pg, B)
    <2>1. CASE a.used[pg] # n
      <3>1. d.page_list = a.page_list /\ d.full_list = a.full_list
        BY <1>10, <1>11, <2>1
      <3>2. Names(a.page_list[b]) \cup {pg} = Names(a.page_list[b])
            /\ Names(a.full_list[b]) \ {pg} = Names(a.full_list[b])
        BY <1>2, <1>7, <2>1
      <3>. QED
        BY <1>1, <1>2, <1>6, <1>7, <3>1, <3>2 DEF Relist, Typed, n
    <2>2. CASE a.used[pg] = n
      <3>1. /\ d.page_list = [a.page_list EXCEPT ![b] = <<pg>> \o @]
            /\ d.full_list = [a.full_list EXCEPT ![b] = rest]
        BY <1>10, <1>11, <2>2
      <3>2. pg \notin Names(a.page_list[b])
        BY <1>7, <2>2
      <3>3. <<pg>> \o a.page_list[b] \in Seq(Nat) /\ Once(<<pg>> \o a.page_list[b])
            /\ Names(<<pg>> \o a.page_list[b]) = Names(a.page_list[b]) \cup {pg}
        BY <1>4, <1>7, <3>2, PushedOnce
      <3>4. d.page_list[b] = <<pg>> \o a.page_list[b] /\ d.full_list[b] = rest
            /\ \A e \in Al!Buckets : e # b => /\ d.page_list[e] = a.page_list[e]
                                             /\ d.full_list[e] = a.full_list[e]
        BY <1>1, <1>4, <3>1 DEF Typed
      <3>5. d.page_list \in [Al!Buckets -> Seq(Nat)] /\ d.full_list \in [Al!Buckets -> Seq(Nat)]
        BY <1>1, <1>8, <3>1, <3>3 DEF Typed
      <3>. QED
        BY <1>2, <1>6, <1>8, <3>3, <3>4, <3>5 DEF Relist, n
    <2>. QED
      BY <2>1, <2>2
  <1>14. PoolSound(d, {})
    BY <1>2, <1>6, <1>12, <1>13, Rebitted DEF n
  <1>15. Taken(d) = Taken(a) \ {<<x, b>>}
    BY <1>2, <1>5, <1>12, TakenLess
  <1>16. /\ pg \in DOMAIN d.objs /\ d.objs[pg].bits = B /\ d.used[pg] = Cardinality(B)
         /\ Busy(d, {pg}) /\ d.huge = a.huge
    BY <1>2, <1>11, <1>12 DEF Busy, Rebit
  <1>17. Cardinality(B) = 0 <=> B = {}
    BY <1>4, <1>6, BitsAre DEF n
  <1>. HIDE DEF B
  <1>18. CASE d.used[pg] = 0
    <2>1. c = Al!Released(d, pg)
      BY <1>3, <1>18
    <2>2. d.objs[pg].bits = {}
      BY <1>16, <1>17, <1>18
    <2>3. /\ PoolSound(c, {}) /\ Busy(c, {}) /\ Taken(c) = Taken(d) /\ c.huge = d.huge
      BY <1>14, <1>16, <2>1, <2>2, PageReleased
    <2>. QED
      BY <1>15, <1>16, <2>3 DEF c
  <1>19. CASE d.used[pg] # 0
    <2>1. c = d
      BY <1>3, <1>19
    <2>2. Busy(d, {})
      BY <1>16, <1>17, <1>19 DEF Busy
    <2>. QED
      BY <1>14, <1>15, <1>16, <2>1, <2>2 DEF c
  <1>. QED
    BY <1>18, <1>19

------------------------------------------------------------------------------
(* The bucket of a size.                                                   *)

LEMMA HighestBit ==
    ASSUME NEW x \in Nat \ {0}
    PROVE  LET f == Al!afls(x \div 2)
           IN f \in Nat /\ 2 ^ f \in Nat \ {0} /\ 2 ^ f <= x /\ x < 2 * 2 ^ f
  <1>. DEFINE h == x \div 2
              f == Al!afls(h)
  <1>1. h \in Nat /\ 2 * h <= x /\ x < 2 * h + 2
    OBVIOUS
  <1>. HIDE DEF h
  <1>2. f \in Nat /\ h < 2 ^ f /\ (f > 0 => h >= 2 ^ (f - 1))
    BY <1>1, AflsIs, SameAfls
  <1>. HIDE DEF f
  <1>3. 2 ^ f \in Nat \ {0}
    BY <1>2, PowerPositive
  <1>4. x < 2 * 2 ^ f
    <2>. DEFINE u == 2 ^ f
    <2>1. u \in Nat /\ h < u
      BY <1>2, <1>3
    <2>. HIDE DEF u
    <2>2. x < 2 * u
      BY <1>1, <2>1
    <2>. QED
      BY <2>2 DEF u
  <1>5. 2 ^ f <= x
    <2>1. CASE f = 0
      <3>1. 2 ^ f = 1
        BY <2>1
      <3>. QED
        BY <3>1
    <2>2. CASE f > 0
      <3>1. f - 1 \in Nat /\ (f - 1) + 1 = f
        BY <1>2, <2>2
      <3>2. 2 ^ f = 2 * 2 ^ (f - 1) /\ 2 ^ (f - 1) \in Nat
        BY <3>1, PowerNext
      <3>. DEFINE v == 2 ^ (f - 1)
      <3>3. h >= v /\ v \in Nat /\ 2 ^ f = 2 * v
        BY <1>2, <2>2, <3>2
      <3>. HIDE DEF v
      <3>. QED
        BY <1>1, <3>3
    <2>. QED
      BY <1>2, <2>1, <2>2
  <1>. QED
    BY <1>2, <1>3, <1>4, <1>5 DEF f, h

LEMMA QuarterRound ==
    ASSUME NEW u \in Nat \ {0}, NEW o \in 0..(u - 1)
    PROVE  LET q == (o * 4 + u - 1) \div u
           IN q \in 0..4 /\ q * u >= 4 * o /\ q * u \in Nat /\ q * u < 4 * o + u
  <1>. DEFINE y == o * 4 + u - 1
              q == y \div u
              z == q * u
  <1>1. y \in Nat /\ y < 5 * u
    OBVIOUS
  <1>2. q \in Nat /\ z <= y /\ y < z + u
    <2>. HIDE DEF y
    <2>. QED
      BY <1>1, QuotientRange
  <1>3. z \in Nat
    BY <1>2, Z3
  <1>4. z >= 4 * o /\ z < 4 * o + u
    <2>. HIDE DEF z, q
    <2>. QED
      BY <1>2, <1>3
  <1>5. q < 5
    <2>1. SUFFICES ASSUME q >= 5 PROVE FALSE
      BY <1>2
    <2>. HIDE DEF y
    <2>2. z >= 5 * u
      <3>. HIDE DEF q
      <3>. QED
        BY <1>2, <2>1, Z3
    <2>. QED
      BY <1>1, <1>2, <1>3, <2>2
  <1>. QED
    BY <1>2, <1>3, <1>4, <1>5

LEMMA BucketShape ==
    ASSUME NEW x \in Nat \ {0}
    PROVE  LET b == Al!size_to_bucket(x)
           IN \E f \in Nat, q \in 0..4, o \in Nat :
                /\ 2 ^ f \in Nat \ {0} /\ x = 2 ^ f + o /\ o < 2 ^ f
                /\ q * 2 ^ f >= 4 * o /\ q * 2 ^ f < 4 * o + 2 ^ f
                /\ b = 4 * f + q
  <1>. DEFINE f == Al!afls(x \div 2)
              u == 2 ^ f
              o == x - u
              q == (o * 4 + u - 1) \div u
  <1>1. f \in Nat /\ u \in Nat \ {0} /\ u <= x /\ x < 2 * u
    BY HighestBit
  <1>2. Al!size_to_bucket(x) = f * 4 + q
    BY DEF Al!size_to_bucket, Al!INTER_BUCKET_SPACE
  <1>. HIDE DEF f
  <1>. HIDE DEF u
  <1>3. o \in 0..(u - 1) /\ x = u + o /\ o < u
    BY <1>1
  <1>. HIDE DEF o
  <1>4. q \in 0..4 /\ q * u >= 4 * o /\ q * u < 4 * o + u
    BY <1>1, <1>3, QuarterRound
  <1>. HIDE DEF q
  <1>5. Al!size_to_bucket(x) = 4 * f + q
    BY <1>1, <1>2, <1>4
  <1>. QED
    BY <1>1, <1>3, <1>4, <1>5 DEF u

(* Its elements are as long.                                               *)
LEMMA BucketHolds ==
    ASSUME NEW x \in Nat \ {0}
    PROVE  LET b == Al!size_to_bucket(x)
           IN b \in Nat /\ SizeOf(b) \in Nat /\ SizeOf(b) >= x
  <1>. DEFINE b == Al!size_to_bucket(x)
  <1>1. PICK f \in Nat, q \in 0..4, o \in Nat :
                /\ 2 ^ f \in Nat \ {0} /\ x = 2 ^ f + o /\ o < 2 ^ f
                /\ q * 2 ^ f >= 4 * o /\ q * 2 ^ f < 4 * o + 2 ^ f
                /\ b = 4 * f + q
    BY BucketShape
  <1>. HIDE DEF b
  <1>2. b \in Nat
    BY <1>1
  <1>3. /\ Bits(b) = b \div 4 /\ SizeOf(b) \in Nat
        /\ SizeOf(b) = 2 ^ Bits(b) + ((b % 4) * 2 ^ Bits(b)) \div 4
    BY <1>2, BucketSizes DEF Bits, Al!INTER_BUCKET_SPACE
  <1>4. CASE q < 4
    <2>1. b \div 4 = f /\ b % 4 = q
      BY <1>1, <1>4
    <2>. DEFINE u == 2 ^ f
                y == q * u
    <2>2. SizeOf(b) = u + y \div 4 /\ u \in Nat /\ y >= 4 * o
      BY <1>1, <1>3, <2>1
    <2>3. y \in Nat
      <3>. HIDE DEF u
      <3>. QED
        BY <2>2, Z3
    <2>. HIDE DEF u, y
    <2>4. y \div 4 >= o
      BY <2>2, <2>3
    <2>5. x = u + o
      BY <1>1 DEF u
    <2>. QED
      BY <1>2, <1>3, <2>2, <2>3, <2>4, <2>5 DEF b
  <1>5. CASE q = 4
    <2>1. b \div 4 = f + 1 /\ b % 4 = 0
      BY <1>1, <1>5
    <2>2. 2 ^ (f + 1) = 2 * 2 ^ f
      BY PowerNext
    <2>. DEFINE u == 2 ^ f
    <2>3. SizeOf(b) = 2 * u + (0 * (2 * u)) \div 4 /\ u \in Nat /\ o < u /\ x = u + o
      BY <1>1, <1>3, <2>1, <2>2
    <2>. HIDE DEF u
    <2>4. SizeOf(b) = 2 * u
      BY <2>3
    <2>. QED
      BY <1>2, <1>3, <2>3, <2>4 DEF b
  <1>. QED
    BY <1>1, <1>4, <1>5

LEMMA Products ==
    ASSUME NEW m \in Nat, NEW n \in Nat, NEW s \in Nat
    PROVE  /\ m * s \in Nat /\ (m + n) * s = m * s + n * s
           /\ m * n \in Nat /\ (m * n) * s = m * (n * s)
           /\ m * s < n * s => m < n
           /\ m >= 1 => m * s >= s
  <1>1. m * s \in Nat /\ m * n \in Nat
    BY Z3
  <1>2. (m + n) * s = m * s + n * s
    BY Z3
  <1>3. (m * n) * s = m * (n * s)
    BY Z3
  <1>4. m * s < n * s => m < n
    BY Z3
  <1>5. m >= 1 => m * s >= s
    BY Z3
  <1>. QED
    BY <1>1, <1>2, <1>3, <1>4, <1>5

(* The allocator aligns to a power of two that a small page is as long as. *)
LEMMA WordPower ==
    \E k \in Nat : /\ Word = 2 ^ k /\ Word \in Nat \ {0}
                   /\ \A f \in Nat : k <= f => \E m \in Nat \ {0} : 2 ^ f = m * Word
                   /\ \E m \in Nat \ {0} : Small = m * Word
  <1>1. PICK k \in 0..Word : Word = 2 ^ k
    BY BuffersAssumption DEF Al!AllocAssumption
  <1>2. Word \in Nat \ {0} /\ Word <= Small /\ k \in Nat
    <2>1. Word \in Nat \ {0}
      BY LargeAssumed
    <2>2. Word <= Small
      BY BuffersAssumption DEF Al!AllocAssumption, Small
    <2>. QED
      BY <2>1, <2>2
  <1>3. ASSUME NEW f \in Nat, k <= f
        PROVE  \E m \in Nat \ {0} : 2 ^ f = m * Word
    BY <1>1, <1>2, <1>3, PowersGrow
  <1>4. k <= Al!small_page_bits
    <2>1. SUFFICES ASSUME Al!small_page_bits < k PROVE FALSE
      BY <1>2, PageSizes
    <2>2. 2 * 2 ^ Al!small_page_bits <= 2 ^ k
      BY <1>2, <2>1, PageSizes, PowersGrow
    <2>3. 2 * Small <= Word
      BY <1>1, <2>2, PageSizes
    <2>. QED
      BY <1>2, <2>3, PageSizes
  <1>5. \E m \in Nat \ {0} : Small = m * Word
    BY <1>3, <1>4, PageSizes
  <1>. QED
    BY <1>1, <1>2, <1>3, <1>5

(* Sizes are rounded up to it, so elements are aligned, too.               *)
LEMMA BucketAligned ==
    ASSUME NEW m \in Nat \ {0}
    PROVE  LET b == Al!size_to_bucket(m * Word)
           IN /\ \E j \in Nat : 2 ^ Bits(b) = j * Word
              /\ \E j \in Nat : SizeOf(b) = j * Word
  <1>. DEFINE A == Word
              x == m * A
              b == Al!size_to_bucket(x)
  <1>1. PICK k \in Nat : /\ A = 2 ^ k /\ A \in Nat \ {0}
                         /\ \A f \in Nat : k <= f => \E j \in Nat \ {0} : 2 ^ f = j * A
    BY WordPower
  <1>. HIDE DEF A
  <1>2. x \in Nat \ {0} /\ x >= A
    <2>1. x \in Nat /\ x >= A
      BY <1>1, Products
    <2>. HIDE DEF x
    <2>. QED
      BY <1>1, <2>1
  <1>. HIDE DEF x
  <1>3. PICK f \in Nat, q \in 0..4, o \in Nat :
                /\ 2 ^ f \in Nat \ {0} /\ x = 2 ^ f + o /\ o < 2 ^ f
                /\ q * 2 ^ f >= 4 * o /\ q * 2 ^ f < 4 * o + 2 ^ f
                /\ b = 4 * f + q
    BY <1>2, BucketShape
  <1>. HIDE DEF b
  <1>4. b \in Nat
    BY <1>3
  <1>5. /\ Bits(b) = b \div 4 /\ SizeOf(b) \in Nat
        /\ SizeOf(b) = 2 ^ Bits(b) + ((b % 4) * 2 ^ Bits(b)) \div 4
    BY <1>4, BucketSizes DEF Bits, Al!INTER_BUCKET_SPACE
  <1>6. k <= f
    <2>1. SUFFICES ASSUME f < k PROVE FALSE
      OBVIOUS
    <2>2. 2 * 2 ^ f <= 2 ^ k
      BY <2>1, PowersGrow
    <2>. DEFINE u == 2 ^ f
    <2>3. u \in Nat /\ x = u + o /\ o < u /\ 2 * u <= A
      BY <1>1, <1>3, <2>2
    <2>. HIDE DEF u
    <2>. QED
      BY <1>1, <1>2, <2>3
  <1>. DEFINE u == 2 ^ f
  <1>7. u \in Nat \ {0} /\ x = u + o /\ o < u /\ q * u >= 4 * o /\ q * u < 4 * o + u
    BY <1>3
  <1>8. PICK j \in Nat \ {0} : u = j * A
    BY <1>1, <1>6
  <1>9. CASE q = 4
    <2>1. b \div 4 = f + 1 /\ b % 4 = 0
      BY <1>3, <1>9
    <2>2. 2 ^ (f + 1) = 2 * u
      BY PowerNext
    <2>3. Bits(b) = f + 1 /\ SizeOf(b) = 2 * u + (0 * (2 * u)) \div 4
      BY <1>5, <2>1, <2>2
    <2>. HIDE DEF u
    <2>4. SizeOf(b) = 2 * u
      BY <1>7, <2>3
    <2>5. 2 * u = (2 * j) * A /\ 2 * j \in Nat
      BY <1>1, <1>8, Products
    <2>. QED
      BY <2>2, <2>3, <2>4, <2>5 DEF b, A, x
  <1>10. CASE q < 4
    <2>1. b \div 4 = f /\ b % 4 = q
      BY <1>3, <1>10
    <2>2. Bits(b) = f /\ SizeOf(b) = u + (q * u) \div 4
      BY <1>5, <2>1
    <2>3. 2 ^ Bits(b) = j * A
      BY <1>8, <2>2
    <2>4. \E i \in Nat : (q * u) \div 4 = i * A
      <3>. HIDE DEF u
      <3>1. CASE f = k
        <4>1. u = A
          BY <1>1, <3>1 DEF u
        <4>2. m * A < 2 * A
          BY <1>7, <4>1 DEF x
        <4>3. m = 1
          <5>1. 2 \in Nat /\ m \in Nat
            OBVIOUS
          <5>2. m < 2
            BY <1>1, <4>2, <5>1, Products
          <5>. QED
            BY <5>2
        <4>4. x = A
          BY <1>1, <4>3 DEF x
        <4>5. o = 0
          BY <1>1, <1>7, <4>1, <4>4
        <4>6. q = 0
          BY <1>7, <4>5, Z3
        <4>7. (q * u) \div 4 = 0 * A
          BY <1>1, <1>7, <4>6
        <4>. QED
          BY <4>7
      <3>2. CASE f = k + 1
        <4>1. u = 2 * A
          BY <1>1, <3>2, PowerNext DEF u
        <4>2. m * A < 4 * A /\ m * A >= 2 * A /\ o = m * A - 2 * A
          BY <1>1, <1>7, <4>1 DEF x
        <4>3. m \in {2, 3}
          <5>1. m < 4
            BY <1>1, <4>2, Products
          <5>2. m # 1
            BY <1>1, <4>2
          <5>. QED
            BY <5>1, <5>2
        <4>4. CASE m = 2
          <5>1. o = 0
            BY <1>1, <4>2, <4>4
          <5>2. q = 0
            BY <1>7, <5>1, Z3
          <5>3. (q * u) \div 4 = 0 * A
            BY <1>1, <1>7, <5>2
          <5>. QED
            BY <5>3
        <4>5. CASE m = 3
          <5>1. o = A
            BY <1>1, <4>2, <4>5
          <5>2. q * (2 * A) >= 4 * A /\ q * (2 * A) < 6 * A
            BY <1>1, <1>7, <4>1, <5>1
          <5>3. q = 2
            <6>1. q < 3
              <7>1. 6 * A = 3 * (2 * A) /\ 2 * A \in Nat
                BY <1>1
              <7>2. q * (2 * A) < 3 * (2 * A)
                BY <5>2, <7>1
              <7>3. q \in Nat
                OBVIOUS
              <7>. HIDE DEF A
              <7>. QED
                BY <7>1, <7>2, <7>3, Products
            <6>2. q # 0 /\ q # 1
              BY <1>1, <5>2
            <6>. QED
              BY <6>1, <6>2
          <5>4. (q * u) \div 4 = 1 * A
            BY <1>1, <4>1, <5>3
          <5>. QED
            BY <5>4
        <4>. QED
          BY <4>3, <4>4, <4>5
      <3>3. CASE f >= k + 2
        <4>1. f - 2 \in Nat /\ k <= f - 2 /\ f = (f - 2) + 2
          BY <3>3
        <4>2. PICK i \in Nat \ {0} : 2 ^ (f - 2) = i * A
          BY <1>1, <4>1
        <4>3. 2 ^ f = 4 * 2 ^ (f - 2)
          <5>1. 2 ^ ((f - 2) + 1) = 2 * 2 ^ (f - 2) /\ 2 ^ (f - 2) \in Nat
            BY <4>1, PowerNext
          <5>2. (f - 2) + 1 \in Nat /\ ((f - 2) + 1) + 1 = f
            BY <4>1
          <5>3. 2 ^ (((f - 2) + 1) + 1) = 2 * 2 ^ ((f - 2) + 1)
            BY <5>2, PowerNext
          <5>4. 2 ^ f = 2 * (2 * 2 ^ (f - 2))
            BY <5>1, <5>2, <5>3
          <5>. DEFINE v == 2 ^ (f - 2)
          <5>5. v \in Nat /\ 2 ^ f = 2 * (2 * v)
            BY <5>1, <5>4
          <5>. HIDE DEF v
          <5>6. 2 ^ f = 4 * v
            BY <5>5
          <5>. QED
            BY <5>6 DEF v
        <4>4. u = 4 * (i * A)
          BY <4>2, <4>3 DEF u
        <4>5. q * u = 4 * ((q * i) * A) /\ (q * i) * A \in Nat /\ q * i \in Nat
          <5>1. q \in Nat /\ i \in Nat /\ A \in Nat
            BY <1>1
          <5>2. q * i \in Nat
            BY <5>1, Products
          <5>3. (q * i) * A \in Nat
            BY <5>1, <5>2, Products
          <5>4. (q * i) * A = q * (i * A) /\ i * A \in Nat
            BY <5>1, Products
          <5>. DEFINE w == i * A
          <5>5. q * u = q * (4 * w) /\ w \in Nat
            BY <4>4, <5>4
          <5>. HIDE DEF w
          <5>6. q * (4 * w) = 4 * (q * w)
            BY <5>1, <5>5, Z3
          <5>. QED
            BY <5>2, <5>3, <5>4, <5>5, <5>6 DEF w
        <4>6. (q * u) \div 4 = (q * i) * A
          <5>. DEFINE w == (q * i) * A
                      y == q * u
          <5>1. w \in Nat /\ y = 4 * w
            BY <4>5
          <5>. HIDE DEF w, y
          <5>2. y \div 4 = w
            BY <5>1
          <5>. QED
            BY <5>2 DEF w, y
        <4>. QED
          BY <4>5, <4>6
      <3>. QED
        BY <1>6, <3>1, <3>2, <3>3
    <2>5. PICK i \in Nat : (q * u) \div 4 = i * A
      BY <2>4
    <2>6. SizeOf(b) = (j + i) * A /\ j + i \in Nat
      <3>1. SizeOf(b) = j * A + i * A
        BY <1>8, <2>2, <2>5
      <3>2. j * A + i * A = (j + i) * A
        BY <1>1, Products
      <3>. QED
        BY <3>1, <3>2
    <2>. QED
      BY <2>3, <2>6 DEF b, A, x
  <1>. QED
    BY <1>3, <1>9, <1>10

------------------------------------------------------------------------------
(* Runs of pages.                                                          *)

LEMMA RunPages ==
    ASSUME NEW r, NEW m \in Nat, NEW n \in Nat, r.off = m * Small, r.len = n * Small
    PROVE  /\ Al!PagesIn(r) = {pg \in Al!Pages : m <= pg /\ pg < m + n}
           /\ r.off \in Nat /\ r.len \in Nat /\ r.off + r.len = (m + n) * Small
  <1>1. Small \in Nat \ {0}
    BY PageSizes
  <1>2. m * Small \in Nat /\ n * Small \in Nat /\ (m + n) * Small = m * Small + n * Small
        /\ m + n \in Nat
    BY <1>1, Products
  <1>3. r.off + r.len = (m + n) * Small
    BY <1>2
  <1>4. ASSUME NEW pg \in Al!Pages
        PROVE  /\ r.off <= pg * Small <=> m <= pg
               /\ pg * Small < r.off + r.len <=> pg < m + n
    <2>1. pg \in Nat
      BY PagesAre
    <2>2. \A j \in Nat : /\ j * Small \in Nat /\ pg * Small \in Nat
                         /\ pg < j => pg * Small + Small <= j * Small
                         /\ j < pg => j * Small + Small <= pg * Small
      BY <1>1, <2>1, PiecesApart
    <2>3. \A j \in Nat : /\ pg * Small < j * Small <=> pg < j
                         /\ j * Small <= pg * Small <=> j <= pg
      <3>1. SUFFICES ASSUME NEW j \in Nat
                     PROVE  /\ pg * Small < j * Small <=> pg < j
                            /\ j * Small <= pg * Small <=> j <= pg
        OBVIOUS
      <3>. DEFINE x == pg * Small
                  y == j * Small
      <3>2. x \in Nat /\ y \in Nat /\ (pg < j => x + Small <= y) /\ (j < pg => y + Small <= x)
        BY <2>2
      <3>3. pg = j => x = y
        OBVIOUS
      <3>. HIDE DEF x, y
      <3>4. (x < y <=> pg < j) /\ (y <= x <=> j <= pg)
        BY <1>1, <2>1, <3>2, <3>3
      <3>. QED
        BY <3>4 DEF x, y
    <2>. QED
      BY <1>2, <1>3, <2>3
  <1>5. Al!PagesIn(r) = {pg \in Al!Pages : m <= pg /\ pg < m + n}
    BY <1>4 DEF Al!PagesIn, Small
  <1>. QED
    BY <1>2, <1>3, <1>5

(* The offset of a run is where its first page starts, which no element    *)
(* does.                                                                   *)
LEMMA RunStart ==
    ASSUME NEW a, a.large \subseteq Larges, NEW r, Row(a, r)
    PROVE  /\ Al!PageOf(a, r.off) \in Al!PagesIn(r)
           /\ Al!PageOf(a, r.off) = r.off \div Small
           /\ r.off = Al!PageOf(a, r.off) * Small
           /\ r.off \in Nat /\ r.len \in Nat /\ r.len > 0 /\ r.off > 0
  <1>1. PICK m \in Nat, n \in Nat : r.off = m * Small /\ r.len = n * Small /\ n > 0
    BY DEF Row
  <1>2. Small \in Nat \ {0}
    BY PageSizes
  <1>3. /\ Al!PagesIn(r) = {pg \in Al!Pages : m <= pg /\ pg < m + n}
        /\ r.off \in Nat /\ r.len \in Nat /\ r.off + r.len = (m + n) * Small
    BY <1>1, RunPages
  <1>4. (m * Small) \div Small = m
    BY <1>2, Halves
  <1>5. m \in Al!Pages
    <2>1. (m + n) * Small <= LargePool
      BY <1>3 DEF Row
    <2>2. m * Small + Small <= (m + n) * Small
      BY <1>1, <1>2, PiecesApart
    <2>3. m * Small \in Nat /\ (m + n) * Small \in Nat /\ LargePool \in Nat
      BY <1>1, <1>2, Products, LargeAssumed
    <2>. DEFINE q == (LargePool - 1) \div Small
    <2>4. LargePool - 1 \in Nat
      BY LargeAssumed, PageSizes
    <2>5. q \in Nat /\ LargePool - 1 < q * Small + Small
      BY <1>2, <2>4, QuotientRange
    <2>6. q = LastPage
      BY DEF LastPage
    <2>. HIDE DEF q
    <2>7. m <= q
      <3>1. SUFFICES ASSUME q < m PROVE FALSE
        BY <2>5
      <3>2. q * Small + Small <= m * Small /\ q * Small \in Nat
        BY <1>2, <2>5, <3>1, PiecesApart
      <3>. DEFINE x == q * Small
                  y == m * Small
                  z == (m + n) * Small
      <3>3. /\ x \in Nat /\ y \in Nat /\ z \in Nat /\ x + Small <= y /\ y + Small <= z
            /\ z <= LargePool /\ LargePool - 1 < x + Small
        BY <2>1, <2>2, <2>3, <2>5, <3>2
      <3>. HIDE DEF x, y, z
      <3>. QED
        BY <1>2, <2>3, <3>3
    <2>. QED
      BY <2>6, <2>7, PagesAre
  <1>6. m \in Al!PagesIn(r)
    BY <1>1, <1>3, <1>5
  <1>7. r.off \div Small = m
    BY <1>1, <1>4
  <1>8. m \in Usable
    BY <1>6 DEF Row
  <1>9. Al!PageOf(a, r.off) = Home(a, m)
    BY <1>7, PageOfIs
  <1>10. Home(a, m) = m
    <2>1. CASE ~ IsLarge(a, m)
      BY <2>1 DEF Home
    <2>2. CASE IsLarge(a, m)
      <3>1. Al!SmallPagesOf(Al!LargeOf(m)) \subseteq Al!PagesIn(r)
        BY <1>6, <2>2 DEF Row
      <3>2. Al!LargeOf(m) \in Nat /\ Al!FirstOf(Al!LargeOf(m)) \in Al!SmallPagesOf(Al!LargeOf(m))
            /\ Al!FirstOf(Al!LargeOf(m)) <= m /\ Al!FirstOf(Al!LargeOf(m)) \in Nat
        BY PageNumbers
      <3>3. m <= Al!FirstOf(Al!LargeOf(m))
        BY <1>3, <3>1, <3>2
      <3>. QED
        BY <2>2, <3>2, <3>3 DEF Home
    <2>. QED
      BY <2>1, <2>2
  <1>11. m # 0
    BY <1>8, WholeAre DEF Usable
  <1>12. r.len > 0 /\ r.off > 0
    <2>1. m >= 1 /\ n >= 1
      BY <1>1, <1>11
    <2>2. m * Small >= Small /\ n * Small >= Small
      BY <1>2, <2>1, Products
    <2>. QED
      BY <1>1, <1>2, <1>3, <2>2
  <1>. QED
    BY <1>1, <1>3, <1>6, <1>7, <1>9, <1>10, <1>12

(* What tells elements and runs apart.                                     *)
Keyed(T, R) ==
    /\ \A x, b, d : <<x, b>> \in T /\ <<x, d>> \in T => b = d
    /\ \A t \in T : \E x, b : t = <<x, b>>
    /\ \A r \in R : \A b : <<r.off, b>> \notin T
    /\ \A r, s \in R : r.off = s.off => r = s

LEMMA PoolKeyed ==
    ASSUME NEW a, PoolSound(a, {})
    PROVE  Keyed(Taken(a), Names(a.huge))
  <1>1. /\ Typed(a) /\ Objected(a) /\ Rowed(a) /\ Shared(a, {})
    BY DEF PoolSound
  <1>2. ASSUME NEW x, NEW b, NEW d, <<x, b>> \in Taken(a), <<x, d>> \in Taken(a)
        PROVE  b = d
    <2>1. b = a.objs[Al!PageOf(a, x)].bucket
      BY <1>1, <1>2, TakenAt
    <2>2. d = a.objs[Al!PageOf(a, x)].bucket
      BY <1>1, <1>2, TakenAt
    <2>. QED
      BY <2>1, <2>2
  <1>3. \A t \in Taken(a) : \E x, b : t = <<x, b>>
    BY TakenIs
  <1>4. ASSUME NEW r \in Names(a.huge), NEW b, <<r.off, b>> \in Taken(a)
        PROVE  FALSE
    <2>1. Row(a, r) /\ a.large \subseteq Larges
      BY <1>1 DEF Rowed, Typed
    <2>2. Al!PageOf(a, r.off) \in InRuns(a)
      BY <2>1, RunStart DEF InRuns
    <2>3. Al!PageOf(a, r.off) \in DOMAIN a.objs
      BY <1>1, <1>4, TakenAt
    <2>. QED
      BY <1>1, <2>2, <2>3 DEF Shared
  <1>5. ASSUME NEW r \in Names(a.huge), NEW s \in Names(a.huge), r.off = s.off
        PROVE  r = s
    <2>1. Row(a, r) /\ Row(a, s) /\ a.large \subseteq Larges
      BY <1>1 DEF Rowed, Typed
    <2>2. r.off \div Small \in Al!PagesIn(r) /\ s.off \div Small \in Al!PagesIn(s)
      BY <2>1, RunStart
    <2>. QED
      BY <1>1, <1>5, <2>2 DEF Rowed
  <1>. QED
    BY <1>2, <1>3, <1>4, <1>5 DEF Keyed

(* What callers hold stays in step.                                        *)
LEMMA BookedObject ==
    ASSUME NEW T, NEW R, NEW K, Booked(T, R, K), Keyed(T, R),
           NEW x, NEW size \in LargeAsked, NEW b, b = Al!Bucket(size),
           \A d : <<x, d>> \notin T, Keyed(T \cup {<<x, b>>}, R)
    PROVE  Booked(T \cup {<<x, b>>}, R, Al!With(K, x, size))
  <1>. DEFINE L == Al!With(K, x, size)
              U == T \cup {<<x, b>>}
  <1>1. DOMAIN L = DOMAIN K \cup {x}
    BY LargeWithDomain
  <1>2. L[x] = size
    BY LargeWithNew
  <1>3. \A p \in DOMAIN K : p # x => L[p] = K[p]
    BY LargeWithOld
  <1>. HIDE DEF L
  <1>4. \A r \in R : r.off # x /\ r.ha # x
    BY DEF Keyed, Booked
  <1>5. \A p \in DOMAIN L : L[p] \in LargeAsked
    BY <1>1, <1>2, <1>3 DEF Booked
  <1>6. ASSUME NEW p \in DOMAIN L
        PROVE  \/ \E r \in R : r.off = p /\ L[p] <= r.len
               \/ <<p, Al!Bucket(L[p])>> \in U /\ \A r \in R : r.ha # p
    <2>1. CASE p = x
      BY <1>2, <1>4, <2>1
    <2>2. CASE p # x
      BY <1>1, <1>3, <2>2 DEF Booked
    <2>. QED
      BY <2>1, <2>2
  <1>7. \A r \in R : r.off \in DOMAIN L /\ <<r.ha, Al!StructBucket>> \in U
    BY <1>1 DEF Booked
  <1>8. \A t \in U : t[1] \in DOMAIN L \/ \E r \in R : r.ha = t[1]
    BY <1>1 DEF Booked
  <1>. QED
    BY <1>5, <1>6, <1>7, <1>8 DEF Booked, L

LEMMA UnbookedObject ==
    ASSUME NEW T, NEW R, NEW K, Booked(T, R, K), Keyed(T, R),
           NEW x \in DOMAIN K, \A r \in R : r.off # x
    PROVE  /\ <<x, Al!Bucket(K[x])>> \in T
           /\ Booked(T \ {<<x, Al!Bucket(K[x])>>}, R, [p \in DOMAIN K \ {x} |-> K[p]])
  <1>. DEFINE b == Al!Bucket(K[x])
              L == [p \in DOMAIN K \ {x} |-> K[p]]
              U == T \ {<<x, b>>}
  <1>1. <<x, b>> \in T /\ \A r \in R : r.ha # x
    BY DEF Booked
  <1>2. DOMAIN L = DOMAIN K \ {x} /\ \A p \in DOMAIN L : L[p] = K[p]
    OBVIOUS
  <1>. HIDE DEF L, b
  <1>3. ASSUME NEW p \in DOMAIN L
        PROVE  \/ \E r \in R : r.off = p /\ L[p] <= r.len
               \/ <<p, Al!Bucket(L[p])>> \in U /\ \A r \in R : r.ha # p
    BY <1>2 DEF Booked
  <1>4. \A r \in R : r.off \in DOMAIN L /\ <<r.ha, Al!StructBucket>> \in U
    BY <1>1, <1>2 DEF Booked
  <1>5. ASSUME NEW t \in U PROVE t[1] \in DOMAIN L \/ \E r \in R : r.ha = t[1]
    <2>1. t[1] # x
      <3>1. SUFFICES ASSUME t[1] = x PROVE FALSE
        OBVIOUS
      <3>2. PICK y, d : t = <<y, d>>
        BY DEF Keyed
      <3>3. <<x, d>> \in T /\ t = <<x, d>>
        BY <3>1, <3>2
      <3>4. d = b
        BY <1>1, <3>3 DEF Keyed
      <3>. QED
        BY <3>3, <3>4
    <2>. QED
      BY <1>2, <2>1 DEF Booked
  <1>6. \A p \in DOMAIN L : L[p] \in LargeAsked
    BY <1>2 DEF Booked
  <1>7. \A r, s \in R : r.ha = s.ha => r = s
    BY DEF Booked
  <1>8. Booked(U, R, L)
    BY <1>3, <1>4, <1>5, <1>6, <1>7 DEF Booked
  <1>. QED
    BY <1>1, <1>8 DEF b, L

LEMMA BookedRun ==
    ASSUME NEW T, NEW R, NEW K, Booked(T, R, K),
           NEW r, NEW size \in LargeAsked, size <= r.len,
           \A d : <<r.ha, d>> \notin T,
           Keyed(T \cup {<<r.ha, Al!StructBucket>>}, R \cup {r}), r \notin R
    PROVE  Booked(T \cup {<<r.ha, Al!StructBucket>>}, R \cup {r}, Al!With(K, r.off, size))
  <1>. DEFINE x == r.off
              L == Al!With(K, x, size)
              U == T \cup {<<r.ha, Al!StructBucket>>}
              S == R \cup {r}
  <1>1. DOMAIN L = DOMAIN K \cup {x}
    BY LargeWithDomain
  <1>2. L[x] = size
    BY LargeWithNew
  <1>3. \A p \in DOMAIN K : p # x => L[p] = K[p]
    BY LargeWithOld
  <1>. HIDE DEF L
  <1>4. \A s \in R : s.off # x /\ s.ha # r.ha
    BY DEF Keyed, Booked
  <1>5. r.ha \notin DOMAIN K \/ \E s \in R : s.off = r.ha
    BY DEF Booked
  <1>6. \A p \in DOMAIN L : L[p] \in LargeAsked
    BY <1>1, <1>2, <1>3 DEF Booked
  <1>7. ASSUME NEW p \in DOMAIN L
        PROVE  \/ \E s \in S : s.off = p /\ L[p] <= s.len
               \/ <<p, Al!Bucket(L[p])>> \in U /\ \A s \in S : s.ha # p
    <2>1. CASE p = x
      BY <1>2, <2>1
    <2>2. CASE p # x
      <3>1. p \in DOMAIN K /\ L[p] = K[p]
        BY <1>1, <1>3, <2>2
      <3>2. CASE \E s \in R : s.off = p /\ K[p] <= s.len
        BY <3>1, <3>2
      <3>3. CASE <<p, Al!Bucket(K[p])>> \in T /\ \A s \in R : s.ha # p
        BY <3>1, <3>3
      <3>. QED
        BY <3>1, <3>2, <3>3 DEF Booked
    <2>. QED
      BY <2>1, <2>2
  <1>8. \A s \in S : s.off \in DOMAIN L /\ <<s.ha, Al!StructBucket>> \in U
    BY <1>1 DEF Booked
  <1>9. \A t \in U : t[1] \in DOMAIN L \/ \E s \in S : s.ha = t[1]
    BY <1>1 DEF Booked
  <1>10. \A s, q \in S : s.ha = q.ha => s = q
    BY <1>4 DEF Booked
  <1>. QED
    BY <1>6, <1>7, <1>8, <1>9, <1>10 DEF Booked, L

LEMMA UnbookedRun ==
    ASSUME NEW T, NEW R, NEW K, Booked(T, R, K), Keyed(T, R), NEW r \in R
    PROVE  /\ <<r.ha, Al!StructBucket>> \in T
           /\ Booked(T \ {<<r.ha, Al!StructBucket>>}, R \ {r},
                     [p \in DOMAIN K \ {r.off} |-> K[p]])
  <1>. DEFINE x == r.off
              b == Al!StructBucket
              L == [p \in DOMAIN K \ {x} |-> K[p]]
              U == T \ {<<r.ha, b>>}
              S == R \ {r}
  <1>1. <<r.ha, b>> \in T
    BY DEF Booked
  <1>2. DOMAIN L = DOMAIN K \ {x} /\ \A p \in DOMAIN L : L[p] = K[p]
    OBVIOUS
  <1>3. \A s \in S : s.off # x /\ s.ha # r.ha
    BY DEF Keyed, Booked
  <1>. HIDE DEF L, b
  <1>4. ASSUME NEW p \in DOMAIN L
        PROVE  \/ \E s \in S : s.off = p /\ L[p] <= s.len
               \/ <<p, Al!Bucket(L[p])>> \in U /\ \A s \in S : s.ha # p
    <2>1. p \in DOMAIN K /\ L[p] = K[p] /\ p # x
      BY <1>2
    <2>2. CASE \E s \in R : s.off = p /\ K[p] <= s.len
      BY <2>1, <2>2
    <2>3. CASE <<p, Al!Bucket(K[p])>> \in T /\ \A s \in R : s.ha # p
      BY <2>1, <2>3
    <2>. QED
      BY <2>1, <2>2, <2>3 DEF Booked
  <1>5. \A s \in S : s.off \in DOMAIN L /\ <<s.ha, Al!StructBucket>> \in U
    BY <1>2, <1>3 DEF Booked, b
  <1>6. ASSUME NEW t \in U PROVE t[1] \in DOMAIN L \/ \E s \in S : s.ha = t[1]
    <2>1. PICK y, d : t = <<y, d>>
      BY DEF Keyed
    <2>2. t[1] = y /\ <<y, d>> \in T
      BY <2>1
    <2>3. y # r.ha
      <3>1. SUFFICES ASSUME y = r.ha PROVE FALSE
        OBVIOUS
      <3>2. d = b
        BY <1>1, <2>2, <3>1 DEF Keyed
      <3>. QED
        BY <2>1, <3>1, <3>2
    <2>4. y # x
      BY <2>2 DEF Keyed
    <2>. QED
      BY <1>2, <2>2, <2>3, <2>4 DEF Booked
  <1>7. \A p \in DOMAIN L : L[p] \in LargeAsked
    BY <1>2 DEF Booked
  <1>8. \A s, q \in S : s.ha = q.ha => s = q
    BY DEF Booked
  <1>9. Booked(U, S, L)
    BY <1>4, <1>5, <1>6, <1>7, <1>8 DEF Booked, b
  <1>. QED
    BY <1>1, <1>9 DEF b, L

------------------------------------------------------------------------------
(* Runs given away and taken back.                                          *)

LEMMA LargeUsable ==
    ASSUME NEW a, a.large \subseteq Larges, NEW pg \in Usable, IsLarge(a, pg)
    PROVE  /\ Al!SmallPagesOf(Al!LargeOf(pg)) \subseteq Usable
           /\ \A q \in Al!SmallPagesOf(Al!LargeOf(pg)) :
                 Al!LargeOf(q) = Al!LargeOf(pg) /\ IsLarge(a, q) /\ Home(a, q) = Home(a, pg)
           /\ \A q \in Nat : q \in Al!SmallPagesOf(Al!LargeOf(pg)) <=> Al!LargeOf(q) = Al!LargeOf(pg)
           /\ Home(a, pg) \in Al!SmallPagesOf(Al!LargeOf(pg))
           /\ pg \in Al!SmallPagesOf(Al!LargeOf(pg))
  <1>. DEFINE l == Al!LargeOf(pg)
  <1>1. pg \in WholeSmall /\ pg \in Nat
    BY WholeAre DEF Usable
  <1>2. l \in Nat /\ l # 0 /\ l \in a.large /\ l \in 0..(NumWhole - 1) /\ pg \in Al!SmallPagesOf(l)
    BY <1>1, WholeAre, PageNumbers DEF IsLarge, Larges
  <1>3. Home(a, pg) = Al!FirstOf(l) /\ Al!FirstOf(l) \in Al!SmallPagesOf(l)
    BY <1>2, PageNumbers DEF Home
  <1>. HIDE DEF l
  <1>4. \A q \in Nat : q \in Al!SmallPagesOf(l) <=> Al!LargeOf(q) = l
    BY <1>2, PageNumbers
  <1>5. ASSUME NEW q \in Al!SmallPagesOf(l)
        PROVE  q \in Usable /\ Al!LargeOf(q) = l /\ IsLarge(a, q) /\ Home(a, q) = Home(a, pg)
    <2>1. q \in Nat /\ Al!LargeOf(q) = l /\ q \in WholeSmall
      BY <1>2, PageNumbers, WholeAre
    <2>2. q \notin Al!HeaderPages
      BY <1>2, <2>1, WholeAre, PageNumbers
    <2>. QED
      BY <1>2, <1>3, <2>1, <2>2 DEF Usable, IsLarge, Home
  <1>. QED
    BY <1>2, <1>3, <1>4, <1>5 DEF l

LEMMA AddedToNone ==
    ASSUME NEW r \in Seq(Nat), Once(r)
    PROVE  /\ Al!Added(r, << >>) \in Seq(Nat) /\ Once(Al!Added(r, << >>))
           /\ Names(Al!Added(r, << >>)) = Names(r)
  <1>1. Al!Added(r, << >>) = Al!Reverse(r) \o << >>
    BY DEF Al!Added
  <1>2. Al!Reverse(r) \in Seq(Nat) /\ Once(Al!Reverse(r)) /\ Names(Al!Reverse(r)) = Names(r)
    BY ReversedOnce
  <1>. DEFINE s == Al!Reverse(r)
  <1>. HIDE DEF s
  <1>3. s \in Seq(Nat)
    BY <1>2 DEF s
  <1>4. s \o << >> = s
    BY <1>3
  <1>. QED
    BY <1>1, <1>2, <1>4 DEF s

(* alloc_init.                                                             *)
LEMMA PoolStarted ==
    ASSUME NEW tail \in UserData
    PROVE  LET a == Al!alloc_init(tail)
           IN /\ PoolSound(a, {}) /\ Busy(a, {}) /\ Taken(a) = {}
              /\ Names(a.huge) = {}
  <1>. DEFINE a == Al!alloc_init(tail)
              SF == Al!SmallPagesOf(0) \ Al!HeaderPages
              LF == {Al!FirstOf(l) : l \in Al!WholePages \ {0}}
              sf == Al!Added(Al!Ascending(SF), << >>)
              lf == Al!Added(Al!Ascending(LF), << >>)
              us == [pg \in Al!Pages |-> IF Al!LargeOf(pg) \in Al!WholePages THEN 0 ELSE tail]
              none == [b \in Al!Buckets |-> << >>]
              noobj == [pg \in {} |-> {}]
  <1>1. a = [large |-> Larges, small_free |-> sf, large_free |-> lf, huge |-> << >>,
             page_list |-> none, full_list |-> none, used |-> us, objs |-> noobj]
    BY DEF Al!alloc_init, Larges
  <1>. HIDE DEF a, sf, lf, us, noobj, none
  <1>2. /\ DOMAIN a = {"large", "small_free", "large_free", "huge", "page_list",
                       "full_list", "used", "objs"}
        /\ a.large = Larges /\ a.small_free = sf /\ a.large_free = lf /\ a.huge = << >>
        /\ a.page_list = none /\ a.full_list = none /\ a.used = us
        /\ a.objs = noobj
    BY <1>1
  <1>3. NumWhole \in Nat /\ NumWhole >= 1 /\ Al!WholePages = 0..(NumWhole - 1)
    BY PagesAre
  <1>4. \A pg \in SF : pg \in Usable /\ Al!LargeOf(pg) = 0 /\ pg \in Al!Pages
    BY <1>3, WholeAre, PageNumbers DEF Usable
  <1>5. \A pg \in LF : /\ pg \in Usable /\ Al!LargeOf(pg) # 0 /\ pg \in Al!Pages
                       /\ pg = Al!FirstOf(Al!LargeOf(pg))
    <2>1. SUFFICES ASSUME NEW l \in Al!WholePages \ {0}, NEW pg, pg = Al!FirstOf(l)
                   PROVE  /\ pg \in Usable /\ Al!LargeOf(pg) # 0 /\ pg \in Al!Pages
                          /\ pg = Al!FirstOf(Al!LargeOf(pg))
      OBVIOUS
    <2>2. l \in Nat /\ l # 0 /\ l \in 0..(NumWhole - 1)
      BY <1>3
    <2>3. pg \in Al!SmallPagesOf(l) /\ Al!LargeOf(pg) = l
      BY <2>1, <2>2, PageNumbers
    <2>4. pg \in WholeSmall /\ pg \notin Al!HeaderPages
      BY <2>2, <2>3, WholeAre, PageNumbers
    <2>. QED
      BY <2>1, <2>2, <2>3, <2>4, WholeAre DEF Usable
  <1>6. ASSUME NEW pg \in Usable
        PROVE  /\ Al!LargeOf(pg) = 0 => pg \in SF
               /\ Al!LargeOf(pg) # 0 => Al!LargeOf(pg) \in Larges /\ Al!FirstOf(Al!LargeOf(pg)) \in LF
    <2>1. pg \in WholeSmall /\ pg \notin Al!HeaderPages /\ pg \in Nat /\ pg \in Al!Pages
      BY WholeAre DEF Usable
    <2>2. Al!LargeOf(pg) \in 0..(NumWhole - 1) /\ pg \in Al!SmallPagesOf(Al!LargeOf(pg))
      BY <2>1, WholeAre, PageNumbers
    <2>3. Al!LargeOf(pg) # 0 => Al!LargeOf(pg) \in Larges
      BY <2>1 DEF Larges
    <2>. QED
      BY <1>3, <2>1, <2>2, <2>3
  <1>. HIDE DEF SF, LF
  <1>7. sf \in Seq(Nat) /\ Once(sf) /\ Names(sf) = SF
    <2>1. /\ Al!Ascending(SF) \in Seq(Nat) /\ Once(Al!Ascending(SF))
          /\ Names(Al!Ascending(SF)) = SF
      BY <1>4, AscendingIs
    <2>. QED
      BY <2>1, AddedToNone DEF sf
  <1>8. lf \in Seq(Nat) /\ Once(lf) /\ Names(lf) = LF
    <2>1. /\ Al!Ascending(LF) \in Seq(Nat) /\ Once(Al!Ascending(LF))
          /\ Names(Al!Ascending(LF)) = LF
      BY <1>5, AscendingIs
    <2>. QED
      BY <2>1, AddedToNone DEF lf
  <1>9. us \in [Al!Pages -> Nat]
    <2>1. tail \in Nat
      BY LargeAssumed
    <2>. QED
      BY <2>1 DEF us
  <1>10. DOMAIN a.objs = {}
    BY <1>2 DEF noobj
  <1>11. /\ none \in [Al!Buckets -> Seq(Nat)]
         /\ \A b \in Al!Buckets : none[b] = << >>
    BY DEF none
  <1>12. Once(<< >>) /\ Names(<< >>) = {} /\ << >> \in Seq(RunType)
    BY NothingOnce
  <1>13. Typed(a)
    BY <1>2, <1>7, <1>8, <1>9, <1>10, <1>11, <1>12 DEF Typed
  <1>14. FreeListed(a)
    <2>1. \A pg \in SF : pg \in Usable /\ ~ IsLarge(a, pg)
      BY <1>2, <1>4 DEF IsLarge, Larges
    <2>2. \A pg \in LF : pg \in Usable /\ IsLarge(a, pg) /\ pg = Al!FirstOf(Al!LargeOf(pg))
      BY <1>2, <1>5, <1>6 DEF IsLarge
    <2>. QED
      BY <1>2, <1>7, <1>8, <2>1, <2>2 DEF FreeListed
  <1>15. Objected(a)
    BY <1>10 DEF Objected
  <1>16. Bucketed(a)
    BY <1>2, <1>10, <1>11, <1>12 DEF Bucketed
  <1>17. Rowed(a)
    BY <1>2, <1>12 DEF Rowed
  <1>18. InRuns(a) = {}
    BY <1>2, <1>12 DEF InRuns
  <1>19. FreePages(a) = SF \cup LF
    BY <1>2, <1>7, <1>8 DEF FreePages
  <1>20. Shared(a, {})
    <2>1. ASSUME NEW pg \in Usable, Home(a, pg) = pg
          PROVE  pg \in FreePages(a)
      BY <1>2, <1>6, <1>19, <2>1 DEF Home, IsLarge
    <2>. QED
      BY <1>10, <1>18, <2>1 DEF Shared
  <1>21. Busy(a, {}) /\ Taken(a) = {}
    BY <1>10 DEF Busy, Taken
  <1>. QED
    BY <1>2, <1>12, <1>13, <1>14, <1>15, <1>16, <1>17, <1>20, <1>21 DEF PoolSound, a

(* A run of free pages is given away.                                      *)
LEMMA RunTaken ==
    ASSUME NEW a, PoolSound(a, {}), Busy(a, {}), 0 \notin UserData,
           NEW run, NEW m \in Nat, NEW n \in Nat, n > 0,
           run.off = m * Small, run.len = n * Small, run.off + run.len <= LargePool,
           \/ Al!PagesIn(run) \subseteq Names(a.small_free)
           \/ \A pg \in Al!PagesIn(run) :
                 /\ pg \in Usable /\ IsLarge(a, pg)
                 /\ Al!FirstOf(Al!LargeOf(pg)) \in Names(a.large_free)
                 /\ Al!SmallPagesOf(Al!LargeOf(pg)) \subseteq Al!PagesIn(run),
           NEW ha \in Nat, NEW data \in [Al!PagesIn(run) -> UserData]
    PROVE  LET c == Al!HugeTaken(a, ha, run, data)
               r == [ha |-> ha, off |-> run.off, len |-> run.len]
           IN /\ PoolSound(c, {}) /\ Busy(c, {}) /\ Taken(c) = Taken(a)
              /\ Names(c.huge) = Names(a.huge) \cup {r} /\ r \notin Names(a.huge)
  <1>. DEFINE P == Al!PagesIn(run)
              c == Al!HugeTaken(a, ha, run, data)
              r == [ha |-> ha, off |-> run.off, len |-> run.len]
              sf == Al!Without(a.small_free, P)
              lf == Al!Without(a.large_free, P)
              us == [pg \in Al!Pages |-> IF pg \in P THEN data[pg] ELSE a.used[pg]]
  <1>1. /\ Typed(a) /\ FreeListed(a) /\ Objected(a) /\ Bucketed(a) /\ Rowed(a)
        /\ Shared(a, {})
    BY DEF PoolSound
  <1>2. c = [a EXCEPT !.small_free = Al!Without(@, P), !.large_free = Al!Without(@, P),
                      !.huge = <<r>> \o @,
                      !.used = [pg \in Al!Pages |-> IF pg \in P THEN data[pg] ELSE @[pg]]]
    BY DEF Al!HugeTaken
  <1>3. Al!PagesIn(r) = P /\ P \subseteq Al!Pages
    BY DEF Al!PagesIn
  <1>4. run.off \in Nat /\ run.len \in Nat
    BY RunPages
  <1>5. r \in RunType /\ r.off = run.off /\ r.len = run.len
    BY <1>4 DEF RunType
  <1>. HIDE DEF c, P, r
  <1>6. /\ DOMAIN c = DOMAIN a /\ c.large = a.large
        /\ c.small_free = sf /\ c.large_free = lf /\ c.huge = <<r>> \o a.huge
        /\ c.used = us /\ c.page_list = a.page_list /\ c.full_list = a.full_list
        /\ c.objs = a.objs
    BY <1>1, <1>2 DEF Typed
  <1>7. /\ sf \in Seq(Nat) /\ Once(sf) /\ Names(sf) = Names(a.small_free) \ P
        /\ lf \in Seq(Nat) /\ Once(lf) /\ Names(lf) = Names(a.large_free) \ P
    BY <1>1, WithoutIs DEF Typed, FreeListed
  <1>. HIDE DEF sf, lf
  <1>8. \A q : (IsLarge(c, q) <=> IsLarge(a, q)) /\ Home(c, q) = Home(a, q)
    BY <1>6 DEF IsLarge, Home
  <1>9. \/ P \subseteq Names(a.small_free)
        \/ \A pg \in P : /\ pg \in Usable /\ IsLarge(a, pg)
                         /\ Al!FirstOf(Al!LargeOf(pg)) \in Names(a.large_free)
                         /\ Al!SmallPagesOf(Al!LargeOf(pg)) \subseteq P
    BY DEF P
  <1>10. P \subseteq Usable
    BY <1>1, <1>9 DEF FreeListed
  <1>11. /\ \/ \A pg \in P : ~ IsLarge(a, pg)
            \/ \A pg \in P : IsLarge(a, pg) /\ Al!SmallPagesOf(Al!LargeOf(pg)) \subseteq P
         /\ \A pg \in P : Home(a, pg) \in FreePages(a) /\ Home(a, pg) \in P
    <2>1. CASE P \subseteq Names(a.small_free)
      <3>1. \A pg \in P : ~ IsLarge(a, pg)
        BY <1>1, <2>1 DEF FreeListed
      <3>. QED
        BY <2>1, <3>1 DEF Home, FreePages
    <2>2. CASE \A pg \in P : /\ pg \in Usable /\ IsLarge(a, pg)
                         /\ Al!FirstOf(Al!LargeOf(pg)) \in Names(a.large_free)
                         /\ Al!SmallPagesOf(Al!LargeOf(pg)) \subseteq P
      <3>1. \A pg \in P : Home(a, pg) \in P
        BY <1>1, <2>2, LargeUsable DEF Typed
      <3>2. \A pg \in P : Home(a, pg) = Al!FirstOf(Al!LargeOf(pg))
        BY <2>2 DEF Home
      <3>. QED
        BY <2>2, <3>1, <3>2 DEF FreePages
    <2>. QED
      BY <1>9, <2>1, <2>2
  <1>12. \A q \in Al!Pages : q \notin P => us[q] = a.used[q]
    OBVIOUS
  <1>13. \A q \in P : us[q] # 0
    BY <1>3 DEF P
  <1>14. us \in [Al!Pages -> Nat]
    <2>1. \A q \in P : data[q] \in Nat
      BY LargeAssumed DEF P
    <2>. QED
      BY <1>1, <2>1 DEF Typed
  <1>. HIDE DEF us
  <1>15. ASSUME NEW q \in P PROVE q \notin DOMAIN a.objs /\ q \notin InRuns(a)
    <2>1. q \notin DOMAIN a.objs
      <3>1. SUFFICES ASSUME q \in DOMAIN a.objs PROVE FALSE
        OBVIOUS
      <3>2. Home(a, q) = q
        BY <1>1, <3>1 DEF Objected
      <3>. QED
        BY <1>1, <1>11, <3>1, <3>2 DEF Shared
    <2>2. q \notin InRuns(a)
      <3>1. SUFFICES ASSUME NEW s \in Names(a.huge), q \in Al!PagesIn(s) PROVE FALSE
        BY DEF InRuns
      <3>2. Row(a, s)
        BY <1>1 DEF Rowed
      <3>3. Home(a, q) \in Al!PagesIn(s)
        <4>1. CASE ~ IsLarge(a, q)
          BY <3>1, <4>1 DEF Home
        <4>2. CASE IsLarge(a, q)
          <5>1. Al!SmallPagesOf(Al!LargeOf(q)) \subseteq Al!PagesIn(s)
            BY <3>1, <3>2, <4>2 DEF Row
          <5>2. Home(a, q) \in Al!SmallPagesOf(Al!LargeOf(q))
            BY <1>1, <1>10, <4>2, LargeUsable DEF Typed
          <5>. QED
            BY <5>1, <5>2
        <4>. QED
          BY <4>1, <4>2
      <3>4. Home(a, q) \in InRuns(a)
        BY <3>3 DEF InRuns
      <3>. QED
        BY <1>1, <1>11, <3>4 DEF Shared
    <2>. QED
      BY <2>1, <2>2
  <1>16. Row(c, r) /\ P # {}
    <2>1. \A pg \in P : c.used[pg] # 0
      BY <1>6, <1>13
    <2>2. \E k, j \in Nat : r.off = k * Small /\ r.len = j * Small /\ j > 0
      BY <1>5
    <2>3. Row(c, r)
      BY <1>3, <1>5, <1>8, <1>10, <1>11, <2>1, <2>2 DEF Row
    <2>4. c.large \subseteq Larges
      BY <1>1, <1>6 DEF Typed
    <2>. QED
      BY <1>3, <2>3, <2>4, RunStart
  <1>17. r \notin Names(a.huge)
    <2>1. SUFFICES ASSUME r \in Names(a.huge) PROVE FALSE
      OBVIOUS
    <2>2. P \subseteq InRuns(a)
      BY <1>3, <2>1 DEF InRuns
    <2>. QED
      BY <1>15, <1>16, <2>2
  <1>18. /\ <<r>> \o a.huge \in Seq(RunType) /\ Once(<<r>> \o a.huge)
         /\ Names(<<r>> \o a.huge) = Names(a.huge) \cup {r}
    BY <1>1, <1>5, <1>17, PushedOnce DEF Typed, Rowed
  <1>19. Typed(c)
    BY <1>1, <1>6, <1>7, <1>14, <1>18 DEF Typed
  <1>20. FreeListed(c)
    BY <1>1, <1>6, <1>7, <1>8 DEF FreeListed
  <1>21. \A q \in DOMAIN a.objs \cup InRuns(a) : q \in Al!Pages /\ c.used[q] = a.used[q]
    <2>1. DOMAIN a.objs \subseteq Usable
      BY <1>1 DEF Objected
    <2>2. InRuns(a) \subseteq Usable
      BY <1>1 DEF InRuns, Rowed, Row
    <2>3. Usable \subseteq Al!Pages
      BY WholeAre DEF Usable
    <2>. QED
      BY <1>6, <1>12, <1>15, <2>1, <2>2, <2>3
  <1>22. Objected(c)
    BY <1>1, <1>6, <1>8, <1>21 DEF Objected
  <1>23. Bucketed(c)
    BY <1>1, <1>6, <1>21 DEF Bucketed
  <1>24. Rowed(c)
    <2>1. ASSUME NEW s \in Names(a.huge) PROVE Row(c, s) /\ Al!PagesIn(s) \cap P = {}
      <3>1. Row(a, s)
        BY <1>1 DEF Rowed
      <3>2. \A q \in Al!PagesIn(s) : q \in InRuns(a)
        BY DEF InRuns
      <3>3. \A q \in Al!PagesIn(s) : c.used[q] = a.used[q]
        BY <1>21, <3>2
      <3>4. Row(c, s)
        BY <1>8, <3>1, <3>3 DEF Row
      <3>. QED
        BY <1>15, <3>2, <3>4
    <2>. QED
      BY <1>1, <1>3, <1>6, <1>16, <1>18, <2>1 DEF Rowed
  <1>25. InRuns(c) = InRuns(a) \cup P
    BY <1>3, <1>6, <1>18 DEF InRuns
  <1>26. FreePages(c) = FreePages(a) \ P
    BY <1>6, <1>7 DEF FreePages
  <1>27. Shared(c, {})
    <2>1. (InRuns(a) \cup P) \cap ((FreePages(a) \ P) \cup DOMAIN a.objs) = {}
      BY <1>1, <1>15 DEF Shared
    <2>2. ASSUME NEW q \in Usable, Home(c, q) = q
          PROVE  q \in FreePages(c) \cup DOMAIN c.objs \cup InRuns(c)
      <3>1. Home(a, q) = q
        BY <1>8, <2>2
      <3>2. q \in FreePages(a) \cup DOMAIN a.objs \cup InRuns(a)
        BY <1>1, <3>1 DEF Shared
      <3>. QED
        BY <1>6, <1>25, <1>26, <3>2
    <2>3. DOMAIN c.objs = DOMAIN a.objs
      BY <1>6
    <2>4. (FreePages(a) \ P) \cap DOMAIN a.objs = {}
      BY <1>1 DEF Shared
    <2>. QED
      BY <1>25, <1>26, <2>1, <2>2, <2>3, <2>4 DEF Shared
  <1>28. Busy(c, {}) /\ Taken(c) = Taken(a)
    BY <1>6 DEF Busy, Taken
  <1>. QED
    BY <1>6, <1>17, <1>18, <1>19, <1>20, <1>22, <1>23, <1>24, <1>27, <1>28 DEF PoolSound, c, r

(* The pages of a run go back to the list for their kind.                  *)
Back(a, r) ==
    LET P == Al!PagesIn(r)
        b == [a EXCEPT !.huge = Al!Without(@, {r})]
    IN IF Al!LargeOf(r.off \div Small) \in a.large
       THEN [b EXCEPT !.large_free =
                Al!Added(Al!Ascending({pg \in P : pg = Al!FirstOf(Al!LargeOf(pg))}), @)]
       ELSE [b EXCEPT !.small_free = Al!Added(Al!Ascending(P), @)]

LEMMA RunReturned ==
    ASSUME NEW a, PoolSound(a, {}), Busy(a, {}), NEW r \in Names(a.huge)
    PROVE  /\ PoolSound(Back(a, r), {}) /\ Busy(Back(a, r), {})
           /\ Taken(Back(a, r)) = Taken(a)
           /\ Names(Back(a, r).huge) = Names(a.huge) \ {r}
  <1>. DEFINE P == Al!PagesIn(r)
              c == Back(a, r)
              kind == Al!LargeOf(r.off \div Small) \in a.large
              LF == {pg \in P : pg = Al!FirstOf(Al!LargeOf(pg))}
              sf == IF kind THEN a.small_free ELSE Al!Added(Al!Ascending(P), a.small_free)
              lf == IF kind THEN Al!Added(Al!Ascending(LF), a.large_free) ELSE a.large_free
              hs == Al!Without(a.huge, {r})
              F == {pg \in P : Home(a, pg) = pg}
  <1>1. /\ Typed(a) /\ FreeListed(a) /\ Objected(a) /\ Bucketed(a) /\ Rowed(a)
        /\ Shared(a, {})
    BY DEF PoolSound
  <1>2. c = IF kind THEN [[a EXCEPT !.huge = Al!Without(@, {r})]
                            EXCEPT !.large_free = Al!Added(Al!Ascending(LF), @)]
                    ELSE [[a EXCEPT !.huge = Al!Without(@, {r})]
                            EXCEPT !.small_free = Al!Added(Al!Ascending(P), @)]
    BY DEF Back
  <1>. HIDE DEF c, P, LF
  <1>3. /\ DOMAIN c = DOMAIN a /\ c.large = a.large
        /\ c.small_free = sf /\ c.large_free = lf /\ c.huge = hs
        /\ c.used = a.used /\ c.page_list = a.page_list /\ c.full_list = a.full_list
        /\ c.objs = a.objs
    <2>. HIDE DEF kind
    <2>1. CASE kind
      BY <1>1, <1>2, <2>1 DEF Typed
    <2>2. CASE ~ kind
      BY <1>1, <1>2, <2>2 DEF Typed
    <2>. QED
      BY <2>1, <2>2
  <1>4. Row(a, r) /\ P \subseteq Usable /\ P \subseteq InRuns(a)
    BY <1>1 DEF Rowed, Row, InRuns, P
  <1>5. r.off \div Small \in P /\ (kind <=> IsLarge(a, r.off \div Small))
    <2>1. a.large \subseteq Larges
      BY <1>1 DEF Typed
    <2>. QED
      BY <1>4, <2>1, RunStart DEF P, IsLarge
  <1>. HIDE DEF kind
  <1>6. \/ kind /\ \A pg \in P : IsLarge(a, pg)
        \/ ~ kind /\ \A pg \in P : ~ IsLarge(a, pg)
    BY <1>4, <1>5 DEF Row, P
  <1>7. F = IF kind THEN LF ELSE P
    BY <1>6 DEF Home, LF
  <1>8. /\ hs \in Seq(RunType) /\ Once(hs) /\ Names(hs) = Names(a.huge) \ {r}
    BY <1>1, WithoutIs DEF Typed, Rowed
  <1>9. P \subseteq Al!Pages /\ LF \subseteq Al!Pages
    BY <1>4, WholeAre DEF Usable, LF
  <1>10. P \cap (FreePages(a) \cup DOMAIN a.objs) = {}
    BY <1>1, <1>4 DEF Shared
  <1>. HIDE DEF F, hs
  <1>11. /\ sf \in Seq(Nat) /\ Once(sf)
         /\ Names(sf) = IF kind THEN Names(a.small_free) ELSE Names(a.small_free) \cup F
    <2>1. CASE kind
      BY <1>1, <2>1 DEF Typed, FreeListed
    <2>2. CASE ~ kind
      <3>1. P \cap Names(a.small_free) = {}
        BY <1>10 DEF FreePages
      <3>2. /\ Al!Ascending(P) \in Seq(Nat) /\ Once(Al!Ascending(P))
            /\ Names(Al!Ascending(P)) = P
        BY <1>9, AscendingIs
      <3>3. sf = Al!Added(Al!Ascending(P), a.small_free)
        BY <2>2
      <3>4. a.small_free \in Seq(Nat) /\ Once(a.small_free)
        BY <1>1 DEF Typed, FreeListed
      <3>5. /\ sf \in Seq(Nat) /\ Once(sf) /\ Names(sf) = P \cup Names(a.small_free)
        BY <3>1, <3>2, <3>3, <3>4, AddedIsOnce
      <3>. QED
        BY <1>7, <2>2, <3>5
    <2>. QED
      BY <2>1, <2>2
  <1>12. /\ lf \in Seq(Nat) /\ Once(lf)
         /\ Names(lf) = IF kind THEN Names(a.large_free) \cup F ELSE Names(a.large_free)
    <2>1. CASE ~ kind
      BY <1>1, <2>1 DEF Typed, FreeListed
    <2>2. CASE kind
      <3>1. LF \cap Names(a.large_free) = {}
        BY <1>10 DEF FreePages, LF
      <3>2. /\ Al!Ascending(LF) \in Seq(Nat) /\ Once(Al!Ascending(LF))
            /\ Names(Al!Ascending(LF)) = LF
        BY <1>9, AscendingIs
      <3>3. lf = Al!Added(Al!Ascending(LF), a.large_free)
        BY <2>2
      <3>4. a.large_free \in Seq(Nat) /\ Once(a.large_free)
        BY <1>1 DEF Typed, FreeListed
      <3>5. /\ lf \in Seq(Nat) /\ Once(lf) /\ Names(lf) = LF \cup Names(a.large_free)
        BY <3>1, <3>2, <3>3, <3>4, AddedIsOnce
      <3>. QED
        BY <1>7, <2>2, <3>5
    <2>. QED
      BY <2>1, <2>2
  <1>. HIDE DEF sf, lf
  <1>13. \A q : (IsLarge(c, q) <=> IsLarge(a, q)) /\ Home(c, q) = Home(a, q)
    BY <1>3 DEF IsLarge, Home
  <1>14. Typed(c)
    BY <1>1, <1>3, <1>8, <1>11, <1>12 DEF Typed
  <1>15. \A q \in F : q \in P /\ q \in Usable /\ Home(a, q) = q
    BY <1>4 DEF F
  <1>16. FreeListed(c)
    <2>1. kind => \A q \in F : IsLarge(a, q) /\ q = Al!FirstOf(Al!LargeOf(q))
      BY <1>6, <1>15 DEF Home
    <2>2. ~ kind => \A q \in F : ~ IsLarge(a, q)
      BY <1>6, <1>15
    <2>3. CASE kind
      BY <1>1, <1>3, <1>11, <1>12, <1>13, <1>15, <2>1, <2>3 DEF FreeListed
    <2>4. CASE ~ kind
      BY <1>1, <1>3, <1>11, <1>12, <1>13, <1>15, <2>2, <2>4 DEF FreeListed
    <2>. QED
      BY <2>3, <2>4
  <1>17. Objected(c)
    BY <1>1, <1>3, <1>13 DEF Objected
  <1>18. Bucketed(c)
    BY <1>1, <1>3 DEF Bucketed
  <1>19. Rowed(c)
    <2>1. ASSUME NEW s \in Names(a.huge) PROVE Row(c, s)
      <3>1. Row(a, s)
        BY <1>1 DEF Rowed
      <3>. QED
        BY <1>3, <1>13, <3>1 DEF Row
    <2>. QED
      BY <1>1, <1>3, <1>8, <2>1 DEF Rowed
  <1>20. InRuns(c) = InRuns(a) \ P
    <2>1. \A s \in Names(a.huge) : s # r => Al!PagesIn(s) \cap P = {}
      BY <1>1 DEF Rowed, P
    <2>2. Names(c.huge) = Names(a.huge) \ {r}
      BY <1>3, <1>8
    <2>. QED
      BY <2>1, <2>2 DEF InRuns, P
  <1>21. FreePages(c) = FreePages(a) \cup F
    BY <1>3, <1>11, <1>12 DEF FreePages
  <1>22. Shared(c, {})
    <2>1. ASSUME NEW q \in Usable, Home(c, q) = q
          PROVE  q \in FreePages(c) \cup DOMAIN c.objs \cup InRuns(c)
      <3>1. Home(a, q) = q
        BY <1>13, <2>1
      <3>2. q \in FreePages(a) \cup DOMAIN a.objs \cup InRuns(a)
        BY <1>1, <3>1 DEF Shared
      <3>3. q \in P => q \in F
        BY <3>1 DEF F
      <3>. QED
        BY <1>3, <1>20, <1>21, <3>2, <3>3
    <2>2. /\ (FreePages(a) \cup F) \cap DOMAIN a.objs = {}
          /\ (InRuns(a) \ P) \cap (FreePages(a) \cup F \cup DOMAIN a.objs) = {}
      BY <1>1, <1>10, <1>15 DEF Shared
    <2>3. DOMAIN c.objs = DOMAIN a.objs
      BY <1>3
    <2>. QED
      BY <1>20, <1>21, <2>1, <2>2, <2>3 DEF Shared
  <1>23. Busy(c, {}) /\ Taken(c) = Taken(a)
    BY <1>3 DEF Busy, Taken
  <1>. QED
    BY <1>3, <1>8, <1>14, <1>16, <1>17, <1>18, <1>19, <1>22, <1>23 DEF PoolSound, c

(* huge_free, for the one run that starts there.                           *)
LEMMA HugeFreed ==
    ASSUME NEW a, PoolSound(a, {}), Busy(a, {}), NEW r \in Names(a.huge),
           <<r.ha, Al!StructBucket>> \in Taken(a)
    PROVE  LET c == Al!huge_free(a, r.off)
           IN /\ PoolSound(c, {}) /\ Busy(c, {})
              /\ Taken(c) = Taken(a) \ {<<r.ha, Al!StructBucket>>}
              /\ Names(c.huge) = Names(a.huge) \ {r}
  <1>. DEFINE k == CHOOSE k \in DOMAIN a.huge : a.huge[k].off = r.off
              b == Back(a, r)
              c == Al!huge_free(a, r.off)
  <1>1. \A s \in Names(a.huge) : s.off = r.off => s = r
    BY PoolKeyed DEF Keyed
  <1>2. \E j \in DOMAIN a.huge : a.huge[j].off = r.off
    BY DEF Names
  <1>3. k \in DOMAIN a.huge /\ a.huge[k].off = r.off
    BY <1>2
  <1>4. a.huge[k] = r
    <2>1. a.huge[k] \in Names(a.huge)
      BY <1>3 DEF Names
    <2>. QED
      BY <1>1, <1>3, <2>1
  <1>. DEFINE h == a.huge[k]
              d == LET P == Al!PagesIn(h)
                       e == [a EXCEPT !.huge = Al!Without(@, {h})]
                   IN IF Al!LargeOf(r.off \div Small) \in a.large
                      THEN [e EXCEPT !.large_free =
                             Al!Added(Al!Ascending({pg \in P : pg = Al!FirstOf(Al!LargeOf(pg))}), @)]
                      ELSE [e EXCEPT !.small_free = Al!Added(Al!Ascending(P), @)]
  <1>5. c = Al!FreeObject(d, h.ha)
    BY DEF Al!huge_free, Small
  <1>6. h = r
    BY <1>4
  <1>. HIDE DEF h, c
  <1>7. d = b
    BY <1>6 DEF Back
  <1>. HIDE DEF d, b
  <1>8. c = Al!FreeObject(b, r.ha)
    BY <1>5, <1>6, <1>7
  <1>9. /\ PoolSound(b, {}) /\ Busy(b, {}) /\ Taken(b) = Taken(a)
        /\ Names(b.huge) = Names(a.huge) \ {r}
    BY RunReturned DEF b
  <1>10. <<r.ha, Al!StructBucket>> \in Taken(b)
    BY <1>9
  <1>11. /\ PoolSound(c, {}) /\ Busy(c, {}) /\ c.huge = b.huge
         /\ Taken(c) = Taken(b) \ {<<r.ha, Al!StructBucket>>}
    BY <1>8, <1>9, <1>10, ObjectFreed
  <1>. QED
    BY <1>9, <1>11 DEF c

------------------------------------------------------------------------------
(* The search for a run.                                                    *)

(* A run is found where it ends, which is at a page of the kind searched.  *)
LEMMA SearchIs ==
    ASSUME NEW a, NEW span \in Nat \ {0}, NEW size \in Nat \ {0},
           NEW run \in Al!Search(a, span, size)
    PROVE  LET unit == span * Small
           IN \E e \in Nat, n \in Nat \ {0} :
                /\ n <= e /\ e - 1 <= (LargePool - 1) \div unit
                /\ Al!LargeOf((e - 1) * span) \in a.large <=> span > 1
                /\ run.off = (e - n) * unit /\ run.len = n * unit
                /\ run.len >= size
  <1>. DEFINE unit == span * Small
              kind(i) == Al!LargeOf(i * span) \in a.large
              Step(s, i) ==
                  IF s.num * unit >= size \/ kind(i) # (span > 1) THEN s
                  ELSE IF s.num = 0 /\ (i * unit) % Word # 0 THEN s
                  ELSE IF Al!huge_allocated(a, i * unit) \/ a.used[i * span] # 0
                       THEN [s EXCEPT !.num = 0]
                  ELSE [num |-> s.num + 1, end |-> i + 1]
              first == Al!align_up(LargeHeader, unit) \div unit
              N == (LargePool - 1) \div unit
              V == [num : Nat, end : Nat]
              c == [num |-> 0, end |-> 0]
              Up(k, v) == IF k < first THEN c ELSE Step(v, k)
              G == [k \in 1..N |-> [v \in V |-> Up(k, v)]]
              seen[i \in 0..N] == IF i < first THEN [num |-> 0, end |-> 0]
                                  ELSE Step(seen[i - 1], i)
              body(f) == [i \in 0..N |-> IF i < first THEN [num |-> 0, end |-> 0]
                                         ELSE Step(f[i - 1], i)]
  <1>0. Small \in Nat \ {0} /\ LargePool \in Nat /\ LargePool > 0 /\ LargeHeader \in Nat
        /\ LargeHeader >= 1
    BY PageSizes, LargeAssumed
  <1>1. unit \in Nat \ {0}
    BY <1>0, Products
  <1>2. N \in Nat
    <2>. HIDE DEF unit
    <2>. QED
      BY <1>0, <1>1, QuotientRange
  <1>3. first \in Nat /\ first >= 1
    <2>. HIDE DEF unit
    <2>. DEFINE h == Al!align_up(LargeHeader, unit)
                q == h \div unit
    <2>1. h \in Nat /\ h >= LargeHeader /\ q \in Nat /\ h = q * unit
      BY <1>0, <1>1, LargeAligned
    <2>. HIDE DEF h, q
    <2>2. q # 0
      <3>1. q = 0 => q * unit = 0
        BY <1>1
      <3>. QED
        BY <1>0, <2>1, <3>1
    <2>. QED
      BY <2>1, <2>2 DEF h, q
  <1>4. c \in V
    OBVIOUS
  <1>5. ASSUME NEW k \in Nat, NEW v \in V
        PROVE  /\ Up(k, v) \in V
               /\ \/ Up(k, v) \in {v, c}
                  \/ Up(k, v).num = 0
                  \/ /\ Up(k, v).num = v.num + 1 /\ Up(k, v).end = k + 1
                     /\ kind(k) = (span > 1)
    <2>. HIDE DEF unit, kind, first
    <2>1. CASE k < first
      BY <2>1
    <2>2. CASE ~ (k < first)
      BY <2>2
    <2>. QED
      BY <2>1, <2>2
  <1>. HIDE DEF Step, unit, kind, first, c
  <1>6. G \in [1..N -> [V -> V]]
    <2>1. \A k \in 1..N : \A v \in V : Up(k, v) \in V
      BY <1>2, <1>5
    <2>. HIDE DEF V, Up, N
    <2>. QED
      BY <2>1
  <1>7. PICK f \in Ascents(N, V, c, G) : TRUE
    <2>. HIDE DEF V, G, N
    <2>. QED
      BY <1>2, <1>4, <1>6, AscentExists
  <1>8. /\ f \in [0..N -> V] /\ f[0] = c
        /\ \A k \in 1..N : f[k] = Up(k, f[k - 1])
    <2>1. /\ f \in [0..N -> V] /\ f[0] = c
          /\ \A k \in 1..N : f[k] = G[k][f[k - 1]]
      <3>. HIDE DEF V, G, N
      <3>. QED
        BY <1>7 DEF Ascents
    <2>2. \A k \in 1..N : f[k - 1] \in V
      <3>. HIDE DEF V, N, G
      <3>. QED
        BY <1>2, <2>1
    <2>3. \A k \in 1..N : G[k][f[k - 1]] = Up(k, f[k - 1])
      <3>. HIDE DEF V, N, Up
      <3>. QED
        BY <2>2
    <2>. QED
      BY <2>1, <2>3
  <1>9. f = body(f)
    <2>1. \A k \in 0..N : f[k] = body(f)[k]
      <3>1. f[0] = body(f)[0]
        BY <1>2, <1>3, <1>8 DEF c
      <3>2. ASSUME NEW k \in 1..N
            PROVE  f[k] = body(f)[k]
        <4>1. k # 0 /\ k \in 0..N
          BY <1>2
        <4>2. f[k] = Up(k, f[k - 1])
          BY <1>8
        <4>. HIDE DEF N
        <4>. QED
          BY <4>1, <4>2, Zenon DEF c
      <3>. HIDE DEF body, N
      <3>. QED
        BY <1>2, <3>1, <3>2
    <2>2. DOMAIN f = 0..N /\ DOMAIN body(f) = 0..N
      BY <1>8
    <2>3. f = [k \in 0..N |-> f[k]] /\ body(f) = [k \in 0..N |-> body(f)[k]]
      BY <1>8
    <2>. HIDE DEF body
    <2>. QED
      BY <2>1, <2>3
  <1>10. seen = [i \in 0..N |-> IF i < first THEN [num |-> 0, end |-> 0]
                                ELSE Step(seen[i - 1], i)]
    BY <1>9
  <1>11. Al!Search(a, span, size) =
            IF seen[N].num * unit >= size
            THEN {[off |-> (seen[N].end - seen[N].num) * unit, len |-> seen[N].num * unit]}
            ELSE {}
    BY DEF Al!Search, Small, Step, unit, kind, first
  <1>. HIDE DEF seen
  <1>12. seen[0] = c /\ \A k \in Nat : k + 1 <= N => seen[k + 1] = Up(k + 1, seen[k])
    <2>1. seen[0] = c
      BY <1>2, <1>3, <1>10 DEF c
    <2>2. ASSUME NEW k \in Nat, k + 1 <= N
          PROVE  seen[k + 1] = Up(k + 1, seen[k])
      <3>1. k + 1 \in 0..N /\ (k + 1) - 1 = k
        BY <1>2, <2>2
      <3>. HIDE DEF N
      <3>. QED
        BY <1>10, <3>1 DEF c
    <2>. QED
      BY <2>1, <2>2
  <1>. DEFINE Good(k, v) == /\ v \in V /\ v.num <= v.end
                            /\ v.num >= 1 => v.end <= k + 1 /\ kind(v.end - 1) = (span > 1)
                            /\ v.end <= k + 1
              S == {k \in Nat : k <= N => Good(k, seen[k])}
  <1>13. 0 \in S
    <2>1. c \in V /\ c.num = 0 /\ c.end = 0
      BY DEF c
    <2>. QED
      BY <1>12, <2>1
  <1>. HIDE DEF N
  <1>14. ASSUME NEW k \in Nat, k \in S
         PROVE  k + 1 \in S
    <2>. SUFFICES ASSUME k + 1 <= N
                  PROVE  Good(k + 1, seen[k + 1])
      OBVIOUS
    <2>. DEFINE v == seen[k]
                w == seen[k + 1]
    <2>. SUFFICES Good(k + 1, w)
      OBVIOUS
    <2>1. Good(k, v)
      <3>1. k <= N
        BY <1>2
      <3>. QED
        BY <1>14, <3>1
    <2>2. w = Up(k + 1, v)
      BY <1>12
    <2>3. k + 1 \in Nat /\ (k + 1) + 1 - 1 = k + 1 /\ v \in V
      BY <2>1
    <2>4. /\ w \in V
          /\ \/ w \in {v, c}
             \/ w.num = 0
             \/ w.num = v.num + 1 /\ w.end = (k + 1) + 1 /\ kind(k + 1) = (span > 1)
      <3>. HIDE DEF Up, V, v, w
      <3>. QED
        BY <1>5, <2>2, <2>3
    <2>5. CASE w = v
      <3>. HIDE DEF v, w
      <3>. QED
        BY <2>1, <2>5
    <2>6. CASE w = c
      <3>. HIDE DEF v, w
      <3>. QED
        BY <2>6 DEF c
    <2>7. CASE w.num = 0 /\ w # v /\ w # c
      <3>1. w.end = v.end \/ w.end = (k + 1) + 1 \/ w.end = 0
        BY <2>2, <2>3, <2>4 DEF Step, c
      <3>. HIDE DEF v, w, Up
      <3>. QED
        BY <2>1, <2>4, <2>7, <3>1
    <2>8. CASE w.num = v.num + 1 /\ w.end = (k + 1) + 1 /\ kind(k + 1) = (span > 1)
      <3>. HIDE DEF v, w, Up
      <3>. QED
        BY <2>1, <2>3, <2>4, <2>8
    <2>. QED
      BY <2>4, <2>5, <2>6, <2>7, <2>8
  <1>. HIDE DEF S
  <1>15. N \in S
    BY <1>2, <1>13, <1>14, NatSetInduction
  <1>16. Good(N, seen[N])
    BY <1>2, <1>15 DEF S
  <1>. DEFINE n == seen[N].num
              e == seen[N].end
  <1>17. /\ n * unit >= size
         /\ run = [off |-> (e - n) * unit, len |-> n * unit]
    BY <1>11
  <1>18. n \in Nat /\ e \in Nat /\ n <= e
    BY <1>16
  <1>19. n # 0
    <2>. HIDE DEF n
    <2>1. n = 0 => n * unit = 0
      BY <1>1
    <2>. QED
      BY <1>1, <1>17, <2>1
  <1>20. e - 1 <= N /\ kind(e - 1) = (span > 1)
    <2>1. n >= 1
      <3>. HIDE DEF n
      <3>. QED
        BY <1>18, <1>19
    <2>2. e <= N + 1 /\ kind(e - 1) = (span > 1)
      BY <1>16, <2>1
    <2>. HIDE DEF e
    <2>. QED
      BY <1>2, <1>18, <2>2
  <1>. HIDE DEF n, e
  <1>21. run.off = (e - n) * unit /\ run.len = n * unit /\ run.len >= size
    BY <1>17
  <1>22. Al!LargeOf((e - 1) * span) \in a.large <=> span > 1
    BY <1>20 DEF kind
  <1>. QED
    BY <1>18, <1>19, <1>20, <1>21, <1>22 DEF unit, N

LEMMA ProductsGrow ==
    ASSUME NEW m \in Nat, NEW n \in Nat, m <= n, NEW s \in Nat
    PROVE  m * s \in Nat /\ n * s \in Nat /\ m * s <= n * s
  <1>1. n - m \in Nat /\ n = m + (n - m)
    OBVIOUS
  <1>. DEFINE d == n - m
  <1>2. d \in Nat /\ n = m + d
    BY <1>1
  <1>. HIDE DEF d
  <1>3. m * s \in Nat /\ d * s \in Nat /\ n * s = m * s + d * s
    BY <1>2, Products
  <1>. QED
    BY <1>3

(* What a run that huge_alloc takes is to be made of.                      *)
RunFree(a, run) ==
    \/ Al!PagesIn(run) \subseteq Names(a.small_free)
    \/ \A pg \in Al!PagesIn(run) :
          IsLarge(a, pg) /\ Al!FirstOf(Al!LargeOf(pg)) \in Names(a.large_free)

RunWhole(a, run, size) ==
    /\ \E m \in Nat, n \in Nat \ {0} : run.off = m * Small /\ run.len = n * Small
    /\ run.off + run.len <= LargePool /\ run.len >= size
    /\ \/ Al!PagesIn(run) \subseteq Names(a.small_free)
       \/ \A pg \in Al!PagesIn(run) :
             /\ pg \in Usable /\ IsLarge(a, pg)
             /\ Al!FirstOf(Al!LargeOf(pg)) \in Names(a.large_free)
             /\ Al!SmallPagesOf(Al!LargeOf(pg)) \subseteq Al!PagesIn(run)

LEMMA SmallRunFound ==
    ASSUME NEW a, PoolSound(a, {}), NEW size \in Nat \ {0},
           NEW run \in Al!Search(a, 1, size), RunFree(a, run)
    PROVE  RunWhole(a, run, size)
  <1>1. FreeListed(a) /\ Typed(a)
    BY DEF PoolSound
  <1>2. Small \in Nat \ {0} /\ 1 * Small = Small
    BY PageSizes
  <1>3. PICK e \in Nat, n \in Nat \ {0} :
          /\ n <= e /\ e - 1 <= (LargePool - 1) \div Small
          /\ ~ (Al!LargeOf((e - 1) * 1) \in a.large)
          /\ run.off = (e - n) * Small /\ run.len = n * Small
          /\ run.len >= size
    <2>1. 1 \in Nat \ {0}
      OBVIOUS
    <2>. DEFINE s == 1
    <2>2. s \in Nat \ {0} /\ s * Small = Small /\ ~ (s > 1) /\ run \in Al!Search(a, s, size)
      BY <1>2
    <2>3. \E e \in Nat, n \in Nat \ {0} :
                /\ n <= e /\ e - 1 <= (LargePool - 1) \div (s * Small)
                /\ Al!LargeOf((e - 1) * s) \in a.large <=> s > 1
                /\ run.off = (e - n) * (s * Small) /\ run.len = n * (s * Small)
                /\ run.len >= size
      <3>. HIDE DEF s
      <3>. QED
        BY <2>2, SearchIs
    <2>. QED
      BY <1>2, <2>3
  <1>. DEFINE m == e - n
              q == e - 1
  <1>4. m \in Nat /\ q \in Nat /\ m + n = e /\ q <= LastPage /\ m <= q /\ q < m + n
    BY <1>3 DEF LastPage
  <1>5. ~ IsLarge(a, q)
    BY <1>3, <1>4 DEF IsLarge
  <1>6. run.off = m * Small
    BY <1>3
  <1>. HIDE DEF m, q
  <1>7. /\ Al!PagesIn(run) = {pg \in Al!Pages : m <= pg /\ pg < m + n}
        /\ run.off + run.len = (m + n) * Small
    BY <1>3, <1>4, <1>6, RunPages
  <1>8. q \in Al!PagesIn(run)
    BY <1>4, <1>7, PagesAre
  <1>9. Al!PagesIn(run) \subseteq Names(a.small_free)
    BY <1>5, <1>8 DEF RunFree
  <1>10. q \in WholeSmall
    BY <1>1, <1>8, <1>9 DEF FreeListed, Usable
  <1>. DEFINE w == NumWhole * PerLarge
  <1>11. w \in Nat /\ w * Small <= LargePool /\ e <= w
    <2>1. w \in Nat /\ w * Small <= LargePool
      BY PagesAre
    <2>2. q < w
      BY <1>10, <2>1 DEF WholeSmall
    <2>. HIDE DEF w
    <2>. QED
      BY <1>3, <1>4, <2>1, <2>2 DEF q
  <1>. HIDE DEF w
  <1>12. e * Small \in Nat /\ e * Small <= LargePool
    <2>1. e * Small \in Nat /\ w * Small \in Nat /\ e * Small <= w * Small
      BY <1>2, <1>3, <1>11, ProductsGrow
    <2>2. LargePool \in Nat
      BY LargeAssumed, PageSizes
    <2>. QED
      BY <1>11, <2>1, <2>2
  <1>13. run.off + run.len <= LargePool
    BY <1>4, <1>7, <1>12
  <1>. QED
    BY <1>3, <1>4, <1>6, <1>9, <1>13 DEF RunWhole

LEMMA LargeRunFound ==
    ASSUME NEW a, PoolSound(a, {}), NEW size \in Nat \ {0},
           NEW run \in Al!Search(a, PerLarge, size), RunFree(a, run)
    PROVE  RunWhole(a, run, size)
  <1>1. FreeListed(a) /\ Typed(a) /\ a.large \subseteq Larges
    BY DEF PoolSound, Typed
  <1>2. Small \in Nat \ {0} /\ PerLarge \in Nat /\ PerLarge >= 2 /\ PerLarge \in Nat \ {0}
    BY PageSizes
  <1>. DEFINE unit == PerLarge * Small
  <1>3. PICK e \in Nat, n \in Nat \ {0} :
          /\ n <= e /\ e - 1 <= (LargePool - 1) \div unit
          /\ Al!LargeOf((e - 1) * PerLarge) \in a.large
          /\ run.off = (e - n) * unit /\ run.len = n * unit
          /\ run.len >= size
    <2>1. \E e \in Nat, n \in Nat \ {0} :
                /\ n <= e /\ e - 1 <= (LargePool - 1) \div unit
                /\ Al!LargeOf((e - 1) * PerLarge) \in a.large <=> PerLarge > 1
                /\ run.off = (e - n) * unit /\ run.len = n * unit
                /\ run.len >= size
      BY <1>2, SearchIs
    <2>. HIDE DEF unit
    <2>. QED
      BY <1>2, <2>1
  <1>. DEFINE d == e - n
              q == e - 1
              m == d * PerLarge
              k == n * PerLarge
              p == q * PerLarge
              t == e * PerLarge
  <1>4. d \in Nat /\ q \in Nat /\ d + n = e /\ d <= q /\ q < e /\ e = q + 1
    BY <1>3
  <1>5. m \in Nat /\ k \in Nat \ {0} /\ p \in Nat /\ t \in Nat
        /\ m + k = t /\ m <= p /\ t = p + PerLarge
    <2>. HIDE DEF d, q
    <2>1. m \in Nat /\ k \in Nat /\ (d + n) * PerLarge = m + k
      BY <1>2, <1>4, Products
    <2>2. k >= PerLarge
      BY <1>2, Products
    <2>3. p \in Nat /\ m <= p
      BY <1>2, <1>4, ProductsGrow
    <2>4. t = p + PerLarge
      <3>1. (q + 1) * PerLarge = q * PerLarge + 1 * PerLarge
        BY <1>2, <1>4, Products
      <3>2. 1 * PerLarge = PerLarge
        BY <1>2
      <3>. QED
        BY <1>4, <3>1, <3>2
    <2>5. t = m + k
      BY <1>4, <2>1
    <2>. HIDE DEF m, k, p, t
    <2>. QED
      BY <1>2, <2>1, <2>2, <2>3, <2>4, <2>5
  <1>6. run.off = m * Small /\ run.len = k * Small
    <2>1. (d * PerLarge) * Small = d * unit
      BY <1>2, <1>4, Products
    <2>2. (n * PerLarge) * Small = n * unit
      BY <1>2, <1>4, Products
    <2>. QED
      BY <1>3, <2>1, <2>2
  <1>7. p * Small <= LargePool - 1 /\ p * Small \in Nat
    <2>1. unit \in Nat \ {0} /\ (q * PerLarge) * Small = q * unit
      <3>. HIDE DEF q
      <3>. QED
        BY <1>2, <1>4, Products
    <2>. DEFINE g == (LargePool - 1) \div unit
    <2>2. LargePool - 1 \in Nat
      BY LargeAssumed, PageSizes
    <2>. HIDE DEF unit
    <2>3. g \in Nat /\ g * unit <= LargePool - 1
      BY <2>1, <2>2, QuotientRange
    <2>4. q <= g
      BY <1>3
    <2>. HIDE DEF g, q
    <2>5. q * unit \in Nat /\ g * unit \in Nat /\ q * unit <= g * unit
      BY <1>4, <2>1, <2>3, <2>4, ProductsGrow
    <2>. QED
      BY <2>1, <2>2, <2>3, <2>5
  <1>8. IsLarge(a, p) /\ Al!FirstOf(q) = p /\ Al!LargeOf(p) = q
    <2>1. Al!FirstOf(q) = q * PerLarge /\ Al!LargeOf(Al!FirstOf(q)) = q
      BY <1>4, PageNumbers
    <2>. QED
      BY <1>3, <2>1 DEF IsLarge
  <1>. DEFINE P == Al!PagesIn(run)
  <1>. HIDE DEF m, k, p, t, d, q
  <1>9. /\ P = {pg \in Al!Pages : m <= pg /\ pg < t}
        /\ run.off + run.len = t * Small
    <2>1. /\ Al!PagesIn(run) = {pg \in Al!Pages : m <= pg /\ pg < m + k}
          /\ run.off + run.len = (m + k) * Small
      BY <1>5, <1>6, RunPages
    <2>. QED
      BY <1>5, <2>1
  <1>. HIDE DEF P
  <1>10. p \in P
    <2>1. p <= LastPage
      <3>1. SUFFICES ASSUME LastPage < p PROVE FALSE
        BY <1>5, PagesAre
      <3>2. LargePool - 1 \in Nat /\ LastPage \in Nat
        BY LargeAssumed, PageSizes, PagesAre
      <3>3. LargePool - 1 < LastPage * Small + Small
        BY <1>2, <3>2, QuotientRange DEF LastPage
      <3>4. LastPage * Small + Small <= p * Small
        BY <1>2, <1>5, <3>1, <3>2, PiecesApart
      <3>. DEFINE u == LastPage * Small
                  v == p * Small
      <3>5. u \in Nat /\ v \in Nat
        BY <1>2, <1>7, <3>2, Products
      <3>6. LargePool - 1 < u + Small /\ u + Small <= v /\ v <= LargePool - 1
        BY <1>7, <3>3, <3>4
      <3>. HIDE DEF u, v
      <3>. QED
        BY <1>2, <3>2, <3>5, <3>6
    <2>. QED
      BY <1>2, <1>5, <1>9, <2>1, PagesAre
  <1>11. \A pg \in P : IsLarge(a, pg) /\ Al!FirstOf(Al!LargeOf(pg)) \in Names(a.large_free)
    BY <1>1, <1>8, <1>10 DEF RunFree, FreeListed, P
  <1>12. ASSUME NEW pg \in P
         PROVE  pg \in Usable /\ Al!SmallPagesOf(Al!LargeOf(pg)) \subseteq P
    <2>. DEFINE l == Al!LargeOf(pg)
                h == Al!FirstOf(l)
    <2>1. pg \in Nat /\ m <= pg /\ pg < t
      BY <1>9, PagesAre
    <2>2. l \in Nat /\ pg \in Al!SmallPagesOf(l) /\ Al!LargeOf(h) = l
      BY <2>1, PageNumbers
    <2>3. h \in Usable /\ IsLarge(a, h)
      BY <1>1, <1>11 DEF FreeListed
    <2>. HIDE DEF h
    <2>4. Al!SmallPagesOf(l) \subseteq Usable
      BY <1>1, <2>2, <2>3, LargeUsable
    <2>. HIDE DEF l
    <2>. DEFINE u == l * PerLarge
    <2>5. u \in Nat /\ Al!SmallPagesOf(l) = u..(u + PerLarge - 1)
      BY <2>2, PageNumbers
    <2>6. u <= pg /\ pg < u + PerLarge
      <3>. HIDE DEF u
      <3>. QED
        BY <1>2, <2>1, <2>2, <2>5
    <2>7. (l + 1) * PerLarge = u + PerLarge
      <3>1. (l + 1) * PerLarge = l * PerLarge + 1 * PerLarge
        BY <1>2, <2>2, Products
      <3>2. 1 * PerLarge = PerLarge
        BY <1>2
      <3>. QED
        BY <3>1, <3>2
    <2>8. d < l + 1
      <3>1. d * PerLarge < (l + 1) * PerLarge
        <4>1. m < u + PerLarge
          <5>. HIDE DEF u
          <5>. QED
            BY <1>2, <1>5, <2>1, <2>5, <2>6
        <4>. QED
          BY <2>7, <4>1 DEF m
      <3>2. l + 1 \in Nat
        BY <2>2
      <3>. QED
        BY <1>2, <1>4, <3>1, <3>2, Products
    <2>9. l < e
      <3>1. l * PerLarge < e * PerLarge
        <4>1. u < t
          <5>. HIDE DEF u
          <5>. QED
            BY <1>5, <2>1, <2>5, <2>6
        <4>. QED
          BY <4>1 DEF t
      <3>. QED
        BY <1>2, <2>2, <3>1, Products
    <2>10. m <= u
      <3>1. d <= l
        BY <1>4, <2>2, <2>8
      <3>. QED
        BY <1>2, <1>4, <2>2, <3>1, ProductsGrow DEF m
    <2>11. u + PerLarge <= t
      <3>1. l + 1 <= e /\ l + 1 \in Nat
        BY <2>2, <2>9
      <3>2. (l + 1) * PerLarge <= e * PerLarge
        BY <1>2, <3>1, ProductsGrow
      <3>. QED
        BY <2>7, <3>2 DEF t
    <2>12. Usable \subseteq Al!Pages
      BY WholeAre DEF Usable
    <2>. HIDE DEF u
    <2>13. ASSUME NEW x \in Al!SmallPagesOf(l) PROVE x \in P
      <3>1. x \in Nat /\ u <= x /\ x < u + PerLarge
        BY <1>2, <2>5
      <3>2. m <= x /\ x < t
        BY <1>2, <1>5, <2>5, <2>10, <2>11, <3>1
      <3>. QED
        BY <1>9, <2>4, <2>12, <3>2
    <2>. QED
      BY <2>2, <2>4, <2>13 DEF l
  <1>13. p \in WholeSmall
    BY <1>10, <1>12 DEF Usable
  <1>14. q < NumWhole
    BY <1>8, <1>13, WholeAre, PagesAre
  <1>15. t * Small <= LargePool
    <2>. DEFINE w == NumWhole * PerLarge
    <2>1. w \in Nat /\ w * Small <= LargePool
      BY PagesAre
    <2>2. t <= w
      <3>1. e <= NumWhole /\ NumWhole \in Nat
        BY <1>4, <1>14, PagesAre
      <3>. QED
        BY <1>2, <3>1, ProductsGrow DEF t
    <2>. HIDE DEF w
    <2>3. t * Small \in Nat /\ w * Small \in Nat /\ t * Small <= w * Small
      BY <1>2, <1>5, <2>1, <2>2, ProductsGrow
    <2>4. LargePool \in Nat
      BY LargeAssumed, PageSizes
    <2>. QED
      BY <2>1, <2>3, <2>4
  <1>16. run.off + run.len <= LargePool
    BY <1>9, <1>15
  <1>17. \E x \in Nat, y \in Nat \ {0} : run.off = x * Small /\ run.len = y * Small
    BY <1>5, <1>6
  <1>. QED
    BY <1>3, <1>11, <1>12, <1>16, <1>17 DEF RunWhole, P

(* The pool that a run is found in has the same objects and runs.          *)
LEMMA RunFound ==
    ASSUME NEW a, PoolSound(a, {}), Busy(a, {}), NEW size \in Nat \ {0},
           NEW f \in Al!Found(a, size), RunFree(f.pool, f.run)
    PROVE  /\ PoolSound(f.pool, {}) /\ Busy(f.pool, {}) /\ Taken(f.pool) = Taken(a)
           /\ f.pool.huge = a.huge
           /\ RunWhole(f.pool, f.run, size)
  <1>. DEFINE b == Al!recombine_small_pages(a)
              S == Al!Search(a, 1, size)
              L == Al!Search(b, PerLarge, size)
  <1>1. Al!Found(a, size) = IF S # {} THEN {[run |-> r, pool |-> a] : r \in S}
                                      ELSE {[run |-> r, pool |-> b] : r \in L}
    BY DEF Al!Found, PerLarge
  <1>2. /\ PoolSound(b, {}) /\ b.objs = a.objs /\ b.huge = a.huge
    BY RecombinedSound
  <1>3. Busy(b, {}) /\ Taken(b) = Taken(a)
    BY <1>2 DEF Busy, Taken
  <1>. HIDE DEF b
  <1>4. CASE S # {}
    <2>1. f.pool = a /\ f.run \in S
      <3>. HIDE DEF S, L
      <3>. QED
        BY <1>1, <1>4
    <2>2. RunWhole(a, f.run, size)
      <3>. DEFINE r == f.run
      <3>1. r \in Al!Search(a, 1, size) /\ RunFree(a, r)
        BY <2>1
      <3>. HIDE DEF r
      <3>2. RunWhole(a, r, size)
        BY <3>1, SmallRunFound
      <3>. QED
        BY <3>2 DEF r
    <2>. QED
      BY <2>1, <2>2
  <1>5. CASE S = {}
    <2>1. f.pool = b /\ f.run \in L
      <3>. HIDE DEF S, L
      <3>. QED
        BY <1>1, <1>5
    <2>2. RunWhole(b, f.run, size)
      <3>. DEFINE r == f.run
      <3>1. r \in Al!Search(b, PerLarge, size) /\ RunFree(b, r)
        BY <2>1
      <3>. HIDE DEF r
      <3>2. RunWhole(b, r, size)
        BY <1>2, <3>1, LargeRunFound
      <3>. QED
        BY <3>2 DEF r
    <2>. QED
      BY <1>2, <1>3, <2>1, <2>2
  <1>. QED
    BY <1>4, <1>5

------------------------------------------------------------------------------
(* The steps of alloc.c.                                                    *)

(* Callers leave no 0 where the count of a page was, or none has pages.    *)
HugeLeftBusy ==
    0 \notin UserData \/ \A size \in LargeAsked : Al!Bucket(size) < Al!max_bucket

LEMMA BucketLimit == Al!max_bucket \in Int
  <1>1. Al!small_page_bits \in Nat /\ LargeBits \in Nat /\ ObjectOrder \in Nat
    BY PageSizes, LargeAssumed
  <1>. QED
    BY <1>1 DEF Al!max_bucket, Al!INTER_BUCKET_SPACE

(* No request comes so close to the largest size_t that rounding it up,    *)
(* which nothing checks, wraps.                                            *)
LargeFits == \A n \in LargeAsked : n + Word <= Modulus

LEMMA RoundedIs ==
    ASSUME LargeFits, NEW size \in LargeAsked
    PROVE  Al!Rounded(size) = Al!align_up(size, Word) /\ Al!Rounded(size) \in Nat \ {0}
  <1>. DEFINE x == Al!align_up(size, Word)
  <1>1. size \in Nat \ {0} /\ Word \in Nat \ {0} /\ Modulus \in Nat /\ size + Word <= Modulus
    BY LargeAssumed DEF LargeFits
  <1>2. x \in Nat /\ x >= size /\ x < size + Word
    BY <1>1, LargeAligned
  <1>3. Al!Rounded(size) = IF x % Modulus = 0 THEN 1 ELSE x % Modulus
    BY DEF Al!Rounded
  <1>. HIDE DEF x
  <1>4. x % Modulus = x
    BY <1>1, <1>2, SmallRemainder
  <1>5. x # 0
    BY <1>1, <1>2
  <1>6. Al!Rounded(size) = x /\ x \in Nat \ {0}
    BY <1>2, <1>3, <1>4, <1>5
  <1>. QED
    BY <1>6 DEF x

LEMMA AskedBuckets ==
    ASSUME LargeFits, NEW size \in LargeAsked
    PROVE  /\ Al!Rounded(size) \in Nat \ {0} /\ size <= Al!Rounded(size)
           /\ size \in Nat \ {0}
           /\ \E m \in Nat \ {0} : Al!Rounded(size) = m * Word
           /\ Al!Bucket(size) = Al!size_to_bucket(Al!Rounded(size))
           /\ Al!Bucket(size) \in Nat /\ SizeOf(Al!Bucket(size)) >= Al!Rounded(size)
           /\ Al!Bucket(size) < Al!max_bucket => Al!Bucket(size) \in Al!Buckets
  <1>. DEFINE x == Al!align_up(size, Word)
              q == x \div Word
              b == Al!size_to_bucket(x)
  <1>1. size \in Nat \ {0} /\ Word \in Nat \ {0}
    BY LargeAssumed
  <1>2. x \in Nat \ {0} /\ size <= x /\ q \in Nat /\ x = q * Word
    <2>1. x \in Nat /\ x >= size /\ q \in Nat /\ x = q * Word
      BY <1>1, LargeAligned
    <2>. HIDE DEF x, q
    <2>. QED
      BY <1>1, <2>1
  <1>3. Al!Bucket(size) = b /\ Al!Rounded(size) = x
    BY RoundedIs DEF Al!Bucket
  <1>. HIDE DEF x, q
  <1>4. b \in Nat /\ SizeOf(b) >= x
    BY <1>2, BucketHolds
  <1>5. q # 0
    <2>1. q = 0 => q * Word = 0
      BY <1>1
    <2>. QED
      BY <1>2, <2>1
  <1>6. b < Al!max_bucket => b \in Al!Buckets
    <2>. DEFINE t == Al!max_bucket
    <2>1. t \in Int
      BY BucketLimit
    <2>. HIDE DEF b, t
    <2>2. b < t => b \in 0..(t - 1)
      BY <1>4, <2>1
    <2>. QED
      BY <2>2 DEF Al!Buckets, t
  <1>7. \E m \in Nat \ {0} : x = m * Word
    BY <1>2, <1>5
  <1>. HIDE DEF b
  <1>. QED
    BY <1>1, <1>2, <1>3, <1>4, <1>6, <1>7 DEF x, b

LEMMA StructFits == Al!StructBucket \in Al!Buckets
  BY BuffersAssumption DEF Al!AllocAssumption, Al!StructBucket

(* What a call does to the objects that callers hold.                      *)
LargeGives(p, n) == p \notin DOMAIN largeHeld /\ largeHeld' = Al!With(largeHeld, p, n)

LargeSeen ==
    \/ \E p, n : LargeGives(p, n)
    \/ \E p \in DOMAIN largeHeld : largeHeld' = [q \in DOMAIN largeHeld \ {p} |-> largeHeld[q]]
    \/ largeHeld' = [q \in {} |-> 0]
    \/ largeHeld' = largeHeld

LEMMA NotHeld ==
    ASSUME NEW T, NEW R, NEW K, Booked(T, R, K), NEW x,
           \A d : <<x, d>> \notin T, \A r \in R : r.off # x
    PROVE  x \notin DOMAIN K
  BY DEF Booked

LEMMA LargeGet ==
    ASSUME LargeFits, LargeInv, NEW size \in LargeAsked, Al!Get(size)
    PROVE  LargeInv' /\ LargeSeen
  <1>. DEFINE b == Al!Bucket(size)
              g == Al!GetObject(pool, b)
              T == Taken(pool)
              R == Names(pool.huge)
  <1>1. PoolSound(pool, {}) /\ Busy(pool, {}) /\ Booked(T, R, largeHeld) /\ Keyed(T, R)
    BY PoolKeyed DEF LargeInv
  <1>2. /\ b < Al!max_bucket /\ pool' = g.pool
        /\ largeHeld' = IF g.off = 0 THEN largeHeld ELSE Al!With(largeHeld, g.off, size)
    BY DEF Al!Get
  <1>3. b \in Al!Buckets
    BY <1>2, AskedBuckets
  <1>. HIDE DEF b
  <1>4. /\ PoolSound(g.pool, {}) /\ Busy(g.pool, {}) /\ g.pool.huge = pool.huge
        /\ g.off = 0 => Taken(g.pool) = T
        /\ g.off # 0 => Taken(g.pool) = T \cup {<<g.off, b>>} /\ \A d : <<g.off, d>> \notin T
    BY <1>1, <1>3, ObjectGot
  <1>5. Keyed(Taken(g.pool), R)
    BY <1>4, PoolKeyed
  <1>. HIDE DEF g, T, R
  <1>6. Booked(Taken(g.pool), R, largeHeld') /\ LargeSeen
    <2>1. CASE g.off = 0
      BY <1>1, <1>2, <1>4, <2>1 DEF LargeSeen
    <2>2. CASE g.off # 0
      <3>. DEFINE x == g.off
      <3>. HIDE DEF x
      <3>1. Keyed(T \cup {<<x, b>>}, R) /\ \A d : <<x, d>> \notin T
        BY <1>4, <1>5, <2>2 DEF x
      <3>2. b = Al!Bucket(size)
        BY DEF b
      <3>3. Booked(T \cup {<<x, b>>}, R, Al!With(largeHeld, x, size))
        BY <1>1, <3>1, <3>2, BookedObject
      <3>4. \A r \in R : r.off # x
        BY <3>1 DEF Keyed
      <3>5. x \notin DOMAIN largeHeld
        BY <1>1, <3>1, <3>4, NotHeld
      <3>6. largeHeld' = Al!With(largeHeld, x, size)
        BY <1>2, <2>2 DEF x
      <3>7. LargeSeen
        BY <3>5, <3>6 DEF LargeSeen, LargeGives
      <3>. QED
        BY <1>2, <1>4, <2>2, <3>3, <3>7 DEF x
    <2>. QED
      BY <2>1, <2>2
  <1>7. Names(pool'.huge) = R
    BY <1>2, <1>4 DEF R
  <1>. QED
    BY <1>2, <1>4, <1>6, <1>7 DEF LargeInv

LEMMA LargeGetHuge ==
    ASSUME LargeFits, HugeLeftBusy, LargeInv, Al!HugeRunsFree, NEW size \in LargeAsked,
           Al!GetHuge(size)
    PROVE  LargeInv' /\ LargeSeen
  <1>. DEFINE b == Al!StructBucket
              g == Al!GetObject(pool, b)
              T == Taken(pool)
              R == Names(pool.huge)
              asked == Al!Rounded(size)
  <1>1. PoolSound(pool, {}) /\ Busy(pool, {}) /\ Booked(T, R, largeHeld) /\ Keyed(T, R)
    BY PoolKeyed DEF LargeInv
  <1>2. /\ Al!Bucket(size) >= Al!max_bucket
        /\ \/ /\ g.off = 0
              /\ pool' = g.pool /\ largeHeld' = largeHeld
           \/ /\ g.off # 0
              /\ \E f \in Al!Found(g.pool, asked) :
                 \E data \in [Al!PagesIn(f.run) -> UserData] :
                   /\ pool' = Al!HugeTaken(f.pool, g.off, f.run, data)
                   /\ largeHeld' = Al!With(largeHeld, f.run.off, size)
           \/ /\ g.off # 0
              /\ pool' = Al!FreeObject(Al!recombine_small_pages(g.pool), g.off)
              /\ largeHeld' = largeHeld
    BY DEF Al!GetHuge
  <1>3. g.off # 0 => \A f \in Al!Found(g.pool, asked) : RunFree(f.pool, f.run)
    <2>1. Al!Bucket(size) >= Al!max_bucket
      BY <1>2
    <2>. QED
      BY <2>1, SameRange DEF Al!HugeRunsFree, RunFree, IsLarge
  <1>0. 0 \notin UserData
    <2>1. Al!Bucket(size) \in Nat /\ Al!max_bucket \in Int
      BY AskedBuckets, BucketLimit
    <2>. QED
      BY <1>2, <2>1 DEF HugeLeftBusy
  <1>4. b \in Al!Buckets /\ asked \in Nat \ {0} /\ size <= asked /\ size \in Nat
    BY StructFits, AskedBuckets
  <1>. HIDE DEF b, asked
  <1>5. /\ PoolSound(g.pool, {}) /\ Busy(g.pool, {}) /\ g.pool.huge = pool.huge
        /\ g.off = 0 => Taken(g.pool) = T
        /\ g.off # 0 => /\ Taken(g.pool) = T \cup {<<g.off, b>>}
                        /\ \A d : <<g.off, d>> \notin T
                        /\ g.off \in Nat
    BY <1>1, <1>4, ObjectGot
  <1>. HIDE DEF g, T, R
  <1>6. CASE g.off = 0 /\ pool' = g.pool /\ largeHeld' = largeHeld
    BY <1>1, <1>5, <1>6 DEF LargeInv, LargeSeen, T, R
  <1>7. ASSUME g.off # 0,
               NEW f \in Al!Found(g.pool, asked), NEW data \in [Al!PagesIn(f.run) -> UserData],
               pool' = Al!HugeTaken(f.pool, g.off, f.run, data),
               largeHeld' = Al!With(largeHeld, f.run.off, size)
        PROVE  LargeInv' /\ LargeSeen
    <2>. DEFINE a == f.pool
                run == f.run
                ha == g.off
                c == Al!HugeTaken(a, ha, run, data)
                r == [ha |-> ha, off |-> run.off, len |-> run.len]
    <2>1. /\ PoolSound(a, {}) /\ Busy(a, {}) /\ Taken(a) = Taken(g.pool)
          /\ a.huge = g.pool.huge /\ RunWhole(a, run, asked)
      BY <1>3, <1>4, <1>5, <1>7, RunFound
    <2>2. ha \in Nat /\ data \in [Al!PagesIn(run) -> UserData]
      BY <1>5, <1>7
    <2>3. pool' = c /\ largeHeld' = Al!With(largeHeld, run.off, size)
      BY <1>7
    <2>. HIDE DEF a, run, ha
    <2>4. PICK m \in Nat, n \in Nat \ {0} : run.off = m * Small /\ run.len = n * Small
      BY <2>1 DEF RunWhole
    <2>5. /\ run.off + run.len <= LargePool /\ run.len >= asked
          /\ \/ Al!PagesIn(run) \subseteq Names(a.small_free)
             \/ \A pg \in Al!PagesIn(run) :
                   /\ pg \in Usable /\ IsLarge(a, pg)
                   /\ Al!FirstOf(Al!LargeOf(pg)) \in Names(a.large_free)
                   /\ Al!SmallPagesOf(Al!LargeOf(pg)) \subseteq Al!PagesIn(run)
      BY <2>1 DEF RunWhole
    <2>6. n \in Nat /\ n > 0
      BY <2>4
    <2>7. /\ PoolSound(c, {}) /\ Busy(c, {}) /\ Taken(c) = Taken(a)
          /\ Names(c.huge) = Names(a.huge) \cup {r} /\ r \notin Names(a.huge)
      BY <1>0, <2>1, <2>2, <2>4, <2>5, <2>6, RunTaken
    <2>8. r.ha = ha /\ r.off = run.off /\ r.len = run.len
      OBVIOUS
    <2>. HIDE DEF c, r
    <2>9. Taken(c) = T \cup {<<r.ha, b>>} /\ \A d : <<r.ha, d>> \notin T
      BY <1>5, <1>7, <2>1, <2>7, <2>8 DEF ha
    <2>10. Names(c.huge) = R \cup {r} /\ r \notin R
      BY <1>5, <2>1, <2>7 DEF R
    <2>11. Keyed(Taken(c), Names(c.huge))
      BY <2>7, PoolKeyed
    <2>12. size <= r.len
      <3>1. run.len \in Nat
        BY <2>4, RunPages
      <3>. QED
        BY <1>4, <2>5, <2>8, <3>1
    <2>13. b = Al!StructBucket
      BY DEF b
    <2>14. Keyed(T \cup {<<r.ha, Al!StructBucket>>}, R \cup {r})
      BY <2>9, <2>10, <2>11, <2>13
    <2>15. Booked(T \cup {<<r.ha, Al!StructBucket>>}, R \cup {r}, Al!With(largeHeld, r.off, size))
      BY <1>1, <2>9, <2>10, <2>12, <2>14, BookedRun
    <2>16. Booked(Taken(c), Names(c.huge), largeHeld')
      BY <2>3, <2>8, <2>9, <2>10, <2>13, <2>15
    <2>17. LargeInv'
      BY <2>3, <2>7, <2>16 DEF LargeInv
    <2>18. \A q \in R : q.off # r.off
      BY <2>10, <2>14 DEF Keyed
    <2>19. \A d : <<r.off, d>> \notin T
      BY <2>14 DEF Keyed
    <2>20. r.off \notin DOMAIN largeHeld
      BY <1>1, <2>18, <2>19, NotHeld
    <2>. QED
      BY <2>3, <2>8, <2>17, <2>20 DEF LargeSeen, LargeGives
  <1>8. CASE /\ g.off # 0
             /\ pool' = Al!FreeObject(Al!recombine_small_pages(g.pool), g.off)
             /\ largeHeld' = largeHeld
    <2>. DEFINE a == Al!recombine_small_pages(g.pool)
                x == g.off
    <2>1. PoolSound(a, {}) /\ a.objs = g.pool.objs /\ a.huge = g.pool.huge
      BY <1>5, RecombinedSound
    <2>2. Busy(a, {}) /\ Taken(a) = Taken(g.pool)
      BY <1>5, <2>1 DEF Busy, Taken
    <2>3. pool' = Al!FreeObject(a, x)
      BY <1>8
    <2>4. Taken(g.pool) = T \cup {<<x, b>>} /\ \A d : <<x, d>> \notin T
      BY <1>5, <1>8
    <2>. HIDE DEF a, x
    <2>5. <<x, b>> \in Taken(a)
      BY <2>2, <2>4
    <2>6. /\ PoolSound(pool', {}) /\ Busy(pool', {}) /\ Taken(pool') = Taken(a) \ {<<x, b>>}
          /\ pool'.huge = a.huge
      BY <2>1, <2>2, <2>3, <2>5, ObjectFreed
    <2>7. Taken(pool') = T /\ Names(pool'.huge) = R
      BY <1>5, <2>1, <2>2, <2>4, <2>6 DEF R
    <2>. QED
      BY <1>1, <1>8, <2>6, <2>7 DEF LargeInv, LargeSeen
  <1>. QED
    BY <1>2, <1>6, <1>7, <1>8

LEMMA LargeFree ==
    ASSUME LargeInv, NEW p \in DOMAIN largeHeld, Al!Free(p)
    PROVE  LargeInv' /\ LargeSeen
  <1>. DEFINE T == Taken(pool)
              R == Names(pool.huge)
  <1>1. PoolSound(pool, {}) /\ Busy(pool, {}) /\ Booked(T, R, largeHeld) /\ Keyed(T, R)
    BY PoolKeyed DEF LargeInv
  <1>2. /\ pool' = IF p = Al!PageOf(pool, p) * Small THEN Al!huge_free(pool, p)
                                                     ELSE Al!FreeObject(pool, p)
        /\ largeHeld' = [q \in DOMAIN largeHeld \ {p} |-> largeHeld[q]]
    BY DEF Al!Free, Small
  <1>3. Typed(pool) /\ Objected(pool) /\ Rowed(pool) /\ pool.large \subseteq Larges
    BY <1>1 DEF PoolSound, Typed
  <1>6. LargeSeen
    BY <1>2 DEF LargeSeen
  <1>4. CASE \E r \in R : r.off = p
    <2>1. PICK r \in R : r.off = p
      BY <1>4
    <2>2. Row(pool, r)
      BY <1>3 DEF Rowed
    <2>3. r.off = Al!PageOf(pool, r.off) * Small
      BY <1>3, <2>2, RunStart
    <2>4. pool' = Al!huge_free(pool, r.off)
      BY <1>2, <2>1, <2>3
    <2>. DEFINE t == <<r.ha, Al!StructBucket>>
    <2>5. t \in T /\ Booked(T \ {t}, R \ {r}, largeHeld')
      <3>. HIDE DEF T, R
      <3>. QED
        BY <1>1, <1>2, <2>1, UnbookedRun
    <2>6. /\ PoolSound(pool', {}) /\ Busy(pool', {})
          /\ Taken(pool') = T \ {t} /\ Names(pool'.huge) = R \ {r}
      BY <1>1, <2>4, <2>5, HugeFreed
    <2>. HIDE DEF t, T, R
    <2>. QED
      BY <1>6, <2>5, <2>6 DEF LargeInv
  <1>5. CASE \A r \in R : r.off # p
    <2>. DEFINE t == <<p, Al!Bucket(largeHeld[p])>>
    <2>1. t \in T /\ Booked(T \ {t}, R, largeHeld')
      <3>. HIDE DEF T, R
      <3>. QED
        BY <1>1, <1>2, <1>5, UnbookedObject
    <2>2. p # Al!PageOf(pool, p) * Small
      BY <1>3, <2>1, TakenAt
    <2>3. pool' = Al!FreeObject(pool, p)
      BY <1>2, <2>2
    <2>4. /\ PoolSound(pool', {}) /\ Busy(pool', {})
          /\ Taken(pool') = T \ {t} /\ pool'.huge = pool.huge
      BY <1>1, <2>1, <2>3, ObjectFreed
    <2>. QED
      BY <1>6, <2>1, <2>4 DEF LargeInv
  <1>. QED
    BY <1>4, <1>5

LEMMA LargeStarted ==
    ASSUME NEW v \in UserData
    PROVE  /\ PoolSound(Al!alloc_init(v), {}) /\ Busy(Al!alloc_init(v), {})
           /\ Booked(Taken(Al!alloc_init(v)), Names(Al!alloc_init(v).huge), [p \in {} |-> 0])
  <1>1. Booked({}, {}, [p \in {} |-> 0])
    BY DEF Booked
  <1>. QED
    BY <1>1, PoolStarted

LEMMA LargeStep ==
    ASSUME LargeFits, HugeLeftBusy, LargeInv, Al!HugeRunsFree, Al!Next \/ UNCHANGED largeVars
    PROVE  LargeInv' /\ LargeSeen
  <1>1. CASE UNCHANGED largeVars
    BY <1>1 DEF LargeInv, LargeSeen, largeVars
  <1>2. ASSUME NEW size \in LargeAsked, Al!Get(size)
        PROVE  LargeInv' /\ LargeSeen
    BY <1>2, LargeGet
  <1>3. ASSUME NEW size \in LargeAsked, Al!GetHuge(size)
        PROVE  LargeInv' /\ LargeSeen
    BY <1>3, LargeGetHuge
  <1>4. ASSUME NEW p \in DOMAIN largeHeld, Al!Free(p)
        PROVE  LargeInv' /\ LargeSeen
    BY <1>4, LargeFree
  <1>5. CASE Al!Reset
    <2>1. PICK v \in UserData : pool' = Al!alloc_init(v)
      BY <1>5 DEF Al!Reset
    <2>2. largeHeld' = [p \in {} |-> 0]
      BY <1>5 DEF Al!Reset
    <2>. QED
      BY <2>1, <2>2, LargeStarted DEF LargeInv, LargeSeen
  <1>. QED
    BY <1>1, <1>2, <1>3, <1>4, <1>5 DEF Al!Next

(* alloc.c keeps pages, lists, counts, bitmaps and runs sound, whatever    *)
(* the order of calls, as long as the runs that huge_alloc finds are free  *)
(* (HugeRunsFree, which a run checks and the search cannot promise) and    *)
(* callers leave no 0 where the count of a page was.                       *)
LEMMA LargePoolSound ==
    ASSUME LargeFits, HugeLeftBusy
    PROVE  Spec /\ []HugeRunsFree => []LargeInv
  <1>1. Init => LargeInv
    <2>. SUFFICES ASSUME Init PROVE LargeInv
      OBVIOUS
    <2>1. PICK v \in UserData : pool = Al!alloc_init(v)
      BY DEF Init, Al!Init
    <2>2. largeHeld = [p \in {} |-> 0]
      BY DEF Init, Al!Init
    <2>. QED
      BY <2>1, <2>2, LargeStarted DEF LargeInv
  <1>2. LargeInv /\ HugeRunsFree /\ [Next]_vars => LargeInv'
    <2>. SUFFICES ASSUME LargeInv, HugeRunsFree, [Next]_vars PROVE LargeInv'
      OBVIOUS
    <2>1. Al!Next \/ UNCHANGED largeVars
      BY DEF Next, SLAB, NOFREE, SIMPLE, BUFFER, LARGE_BUFFER, vars
    <2>2. Al!HugeRunsFree
      BY DEF HugeRunsFree
    <2>. QED
      BY <2>1, <2>2, LargeStep
  <1>. QED
    BY <1>1, <1>2, PTL DEF Spec

------------------------------------------------------------------------------
(* The bytes of a page, a run or an object.                                *)
Width(a, pg) == IF IsLarge(a, pg) THEN PerLarge ELSE 1

LEMMA WidthIs ==
    ASSUME NEW a, a.large \subseteq Larges, NEW pg \in Usable, Home(a, pg) = pg
    PROVE  /\ pg \in Nat /\ Width(a, pg) \in Nat \ {0}
           /\ \A q \in pg..(pg + Width(a, pg) - 1) : q \in Usable /\ Home(a, q) = pg
           /\ Width(a, pg) * Small = IF IsLarge(a, pg) THEN Al!LargeSize ELSE Small
  <1>1. pg \in Nat /\ Small \in Nat \ {0} /\ PerLarge \in Nat /\ PerLarge >= 2
        /\ Al!LargeSize = Small * PerLarge
    BY HomeIs, PageSizes
  <1>2. CASE ~ IsLarge(a, pg)
    <2>1. Width(a, pg) = 1 /\ 1 * Small = Small /\ pg..(pg + 1 - 1) = {pg}
      BY <1>1, <1>2 DEF Width
    <2>. QED
      BY <1>1, <1>2, <2>1
  <1>3. CASE IsLarge(a, pg)
    <2>. DEFINE l == Al!LargeOf(pg)
                S == Al!SmallPagesOf(l)
    <2>1. Width(a, pg) = PerLarge /\ pg = Al!FirstOf(l)
      BY <1>3 DEF Width, Home
    <2>2. l \in Nat
      BY <1>1, PageNumbers
    <2>3. S = (l * PerLarge)..(l * PerLarge + PerLarge - 1) /\ Al!FirstOf(l) = l * PerLarge
      BY <2>2, PageNumbers
    <2>4. S = pg..(pg + PerLarge - 1)
      BY <2>1, <2>3
    <2>5. \A q \in S : q \in Usable /\ Home(a, q) = Home(a, pg)
      BY <1>3, LargeUsable
    <2>6. PerLarge * Small = Al!LargeSize
      BY <1>1, Z3
    <2>. QED
      BY <1>1, <1>3, <2>1, <2>4, <2>5, <2>6
  <1>. QED
    BY <1>2, <1>3

(* Intervals of pages without a common one are intervals of bytes so.      *)
LEMMA BytesApart ==
    ASSUME NEW m \in Nat, NEW n \in Nat \ {0}, NEW p \in Nat, NEW w \in Nat \ {0},
           \A x \in Nat : ~ (m <= x /\ x < m + n /\ p <= x /\ x < p + w)
    PROVE  (m + n) * Small <= p * Small \/ (p + w) * Small <= m * Small
  <1>1. m + n <= p \/ p + w <= m
    OBVIOUS
  <1>2. Small \in Nat
    BY PageSizes
  <1>3. m + n \in Nat /\ p + w \in Nat
    OBVIOUS
  <1>4. m + n <= p => (m + n) * Small <= p * Small
    BY <1>2, <1>3, ProductsGrow
  <1>5. p + w <= m => (p + w) * Small <= m * Small
    BY <1>2, <1>3, ProductsGrow
  <1>. QED
    BY <1>1, <1>4, <1>5

LEMMA BytesInside ==
    ASSUME NEW m \in Nat, NEW n \in Nat \ {0}, \A x \in m..(m + n - 1) : x \in Usable
    PROVE  (m + n) * Small <= LargePool
  <1>. DEFINE w == NumWhole * PerLarge
              x == m + n - 1
  <1>1. w \in Nat /\ w * Small <= LargePool /\ WholeSmall = 0..(w - 1)
    BY PagesAre DEF WholeSmall
  <1>2. x \in Nat /\ x \in m..(m + n - 1) /\ m + n = x + 1
    OBVIOUS
  <1>3. x \in WholeSmall
    <2>1. x \in Usable
      BY <1>2
    <2>. QED
      BY <2>1 DEF Usable
  <1>. HIDE DEF w, x
  <1>4. m + n <= w /\ m + n \in Nat
    BY <1>1, <1>2, <1>3
  <1>5. Small \in Nat /\ LargePool \in Nat
    BY PageSizes, LargeAssumed
  <1>6. (m + n) * Small \in Nat /\ w * Small \in Nat /\ (m + n) * Small <= w * Small
    BY <1>1, <1>4, <1>5, ProductsGrow
  <1>. QED
    BY <1>1, <1>5, <1>6

(* A used element lies in a page with objects.                             *)
LEMMA ObjectZone ==
    ASSUME NEW a, Typed(a), Objected(a), NEW x, NEW b, <<x, b>> \in Taken(a)
    PROVE  LET pg == Al!PageOf(a, x)
           IN /\ pg \in DOMAIN a.objs /\ pg \in Usable /\ Home(a, pg) = pg
              /\ b = a.objs[pg].bucket /\ b \in Al!Buckets
              /\ x \in Nat \ {0} /\ SizeOf(b) \in Nat \ {0}
              /\ x >= pg * Small + PageHeader + Al!used_size(Al!PerPage[b])
              /\ x + SizeOf(b) <= pg * Small + Al!PageSizeOf(b)
              /\ pg * Small <= x /\ pg * Small \in Nat
              /\ x + SizeOf(b) <= (pg + Width(a, pg)) * Small
              /\ (pg + Width(a, pg)) * Small <= LargePool
              /\ \E i \in a.objs[pg].bits : x = Al!Element(pg, b, i)
  <1>. DEFINE pg == Al!PageOf(a, x)
              w == Width(a, pg)
  <1>1. /\ x \in Nat /\ pg \in DOMAIN a.objs /\ b = a.objs[pg].bucket
        /\ \E i \in a.objs[pg].bits : x = Al!Element(pg, b, i)
    BY TakenAt
  <1>2. PICK i \in a.objs[pg].bits : x = Al!Element(pg, b, i)
    BY <1>1
  <1>. HIDE DEF pg
  <1>3. pg \in Usable /\ Home(a, pg) = pg /\ a.large \subseteq Larges
    BY <1>1 DEF Objected, Typed
  <1>4. i \in 0..(Al!PerPage[b] - 1)
    BY <1>1 DEF Objected
  <1>5. b \in Al!Buckets /\ Al!PageSizeOf(b) = IF IsLarge(a, pg) THEN Al!LargeSize ELSE Small
    BY <1>1, <1>4, ElementHome
  <1>6. /\ pg \in Nat /\ w \in Nat \ {0}
        /\ \A q \in pg..(pg + w - 1) : q \in Usable /\ Home(a, q) = pg
        /\ w * Small = Al!PageSizeOf(b)
    BY <1>3, <1>5, WidthIs
  <1>7. /\ pg * Small \in Nat /\ x > pg * Small
        /\ x >= pg * Small + PageHeader + Al!used_size(Al!PerPage[b])
        /\ x + SizeOf(b) <= pg * Small + Al!PageSizeOf(b)
    BY <1>2, <1>4, <1>5, <1>6, ElementIn
  <1>8. SizeOf(b) \in Nat \ {0} /\ Small \in Nat
    BY <1>5, PageHolds, PageSizes
  <1>. HIDE DEF w
  <1>9. (pg + w) * Small = pg * Small + w * Small
    BY <1>6, <1>8, Products
  <1>10. (pg + w) * Small <= LargePool
    BY <1>6, BytesInside
  <1>11. x # 0 /\ pg * Small <= x
    <2>. DEFINE u == pg * Small
    <2>. HIDE DEF u
    <2>1. u \in Nat /\ x > u
      BY <1>7 DEF u
    <2>2. x # 0 /\ u <= x
      BY <1>1, <2>1
    <2>. QED
      BY <2>2 DEF u
  <1>. QED
    BY <1>1, <1>3, <1>5, <1>6, <1>7, <1>8, <1>9, <1>10, <1>11 DEF pg, w

(* A run takes up all the bytes of its pages.                              *)
LEMMA RunZone ==
    ASSUME NEW a, Typed(a), NEW r, Row(a, r)
    PROVE  \E m \in Nat, n \in Nat \ {0} :
              /\ r.off = m * Small /\ r.off + r.len = (m + n) * Small
              /\ \A q \in m..(m + n - 1) : q \in Al!PagesIn(r)
              /\ m * Small > 0 /\ n * Small = r.len
  <1>1. PICK m \in Nat, n \in Nat : r.off = m * Small /\ r.len = n * Small /\ n > 0
    BY DEF Row
  <1>2. /\ Al!PagesIn(r) = {pg \in Al!Pages : m <= pg /\ pg < m + n}
        /\ r.off \in Nat /\ r.len \in Nat /\ r.off + r.len = (m + n) * Small
    BY <1>1, RunPages
  <1>3. r.off > 0
    BY RunStart DEF Typed
  <1>4. m + n - 1 <= LastPage
    <2>. DEFINE x == m + n - 1
    <2>1. x \in Nat /\ m + n = x + 1 /\ Small \in Nat \ {0} /\ LastPage \in Nat
          /\ LargePool \in Nat
      BY <1>1, PageSizes, PagesAre, LargeAssumed
    <2>. HIDE DEF x
    <2>. SUFFICES ASSUME LastPage < x PROVE FALSE
      BY <2>1 DEF x
    <2>2. LargePool - 1 \in Nat
      BY LargeAssumed, PageSizes
    <2>3. LargePool - 1 < LastPage * Small + Small
      BY <2>1, <2>2, QuotientRange DEF LastPage
    <2>4. LastPage * Small + Small <= x * Small
      BY <2>1, PiecesApart
    <2>5. (x + 1) * Small = x * Small + 1 * Small
      BY <2>1, Products
    <2>6. (m + n) * Small <= LargePool
      BY <1>2 DEF Row
    <2>. DEFINE u == LastPage * Small
                v == x * Small
    <2>7. u \in Nat /\ v \in Nat /\ 1 * Small = Small
      BY <2>1, Products
    <2>8. LargePool - 1 < u + Small /\ u + Small <= v /\ v + Small <= LargePool
      BY <2>1, <2>3, <2>4, <2>5, <2>6, <2>7
    <2>. HIDE DEF u, v
    <2>. QED
      BY <2>1, <2>7, <2>8
  <1>5. \A q \in m..(m + n - 1) : q \in Al!PagesIn(r)
    BY <1>1, <1>2, <1>4, PagesAre
  <1>6. n \in Nat \ {0}
    BY <1>1
  <1>7. m * Small > 0
    BY <1>1, <1>3
  <1>. QED
    BY <1>1, <1>2, <1>5, <1>6, <1>7

(* Elements of one page are apart.                                         *)
LEMMA ElementsApart ==
    ASSUME NEW pg \in Nat, NEW b \in Al!Buckets,
           NEW i \in 0..(Al!PerPage[b] - 1), NEW j \in 0..(Al!PerPage[b] - 1), i < j
    PROVE  Al!Element(pg, b, i) + SizeOf(b) <= Al!Element(pg, b, j)
  <1>. DEFINE s == SizeOf(b)
              w == pg * Small
              h == Header(b)
              u == i * s
              v == j * s
  <1>1. s \in Nat \ {0} /\ h \in Nat /\ Al!PerPage[b] \in Nat
    BY PageHolds
  <1>2. w \in Nat /\ Al!Element(pg, b, i) = w + h + u /\ Al!Element(pg, b, j) = w + h + v
    BY ElementIn
  <1>3. i \in Nat /\ j \in Nat
    OBVIOUS
  <1>. HIDE DEF s, w, h
  <1>4. u \in Nat /\ v \in Nat /\ u + s <= v
    BY <1>1, <1>3, Products, PiecesApart
  <1>. HIDE DEF u, v
  <1>5. (w + h + u) + s <= w + h + v
    BY <1>1, <1>2, <1>4
  <1>. QED
    BY <1>2, <1>5 DEF s

(* A page with objects is no page of a run.                                *)
LEMMA ObjectRunApart ==
    ASSUME NEW a, PoolSound(a, {}), NEW x, NEW b, <<x, b>> \in Taken(a),
           NEW r \in Names(a.huge)
    PROVE  x + SizeOf(b) <= r.off \/ r.off + r.len <= x
  <1>. DEFINE pg == Al!PageOf(a, x)
              w == Width(a, pg)
  <1>1. /\ Typed(a) /\ Objected(a) /\ Rowed(a) /\ Shared(a, {}) /\ Row(a, r)
        /\ a.large \subseteq Larges
    BY DEF PoolSound, Rowed, Typed
  <1>2. /\ pg \in DOMAIN a.objs /\ pg \in Usable /\ Home(a, pg) = pg
        /\ x \in Nat /\ SizeOf(b) \in Nat /\ pg * Small <= x /\ pg * Small \in Nat
        /\ x + SizeOf(b) <= (pg + w) * Small
    BY <1>1, ObjectZone
  <1>. HIDE DEF pg
  <1>3. /\ pg \in Nat /\ w \in Nat \ {0}
        /\ \A q \in pg..(pg + w - 1) : q \in Usable /\ Home(a, q) = pg
    BY <1>1, <1>2, WidthIs
  <1>. HIDE DEF w
  <1>4. PICK m \in Nat, n \in Nat \ {0} :
              /\ r.off = m * Small /\ r.off + r.len = (m + n) * Small
              /\ \A q \in m..(m + n - 1) : q \in Al!PagesIn(r)
    BY <1>1, RunZone
  <1>5. ASSUME NEW q \in Nat, m <= q, q < m + n, pg <= q, q < pg + w
        PROVE  FALSE
    <2>1. q \in m..(m + n - 1) /\ q \in pg..(pg + w - 1)
      BY <1>3, <1>4, <1>5
    <2>2. q \in Al!PagesIn(r) /\ Home(a, q) = pg /\ q \in Usable
      BY <1>3, <1>4, <2>1
    <2>3. pg \in Al!PagesIn(r)
      <3>1. CASE ~ IsLarge(a, q)
        BY <2>2, <3>1 DEF Home
      <3>2. CASE IsLarge(a, q)
        <4>1. Al!SmallPagesOf(Al!LargeOf(q)) \subseteq Al!PagesIn(r)
          BY <1>1, <2>2, <3>2 DEF Row
        <4>2. Home(a, q) \in Al!SmallPagesOf(Al!LargeOf(q))
          BY <1>1, <2>2, <3>2, LargeUsable
        <4>. QED
          BY <2>2, <4>1, <4>2
      <3>. QED
        BY <3>1, <3>2
    <2>4. pg \in InRuns(a)
      BY <2>3 DEF InRuns
    <2>. QED
      BY <1>1, <1>2, <2>4 DEF Shared
  <1>6. (m + n) * Small <= pg * Small \/ (pg + w) * Small <= m * Small
    BY <1>3, <1>4, <1>5, BytesApart
  <1>. DEFINE e1 == (m + n) * Small
              e2 == (pg + w) * Small
              u1 == m * Small
              u2 == pg * Small
  <1>7. e1 \in Nat /\ e2 \in Nat /\ u1 \in Nat /\ u2 \in Nat
    <2>1. Small \in Nat /\ m + n \in Nat /\ pg + w \in Nat
      BY <1>3, <1>4, PageSizes
    <2>. QED
      BY <1>3, <1>4, <2>1, Products
  <1>8. /\ e1 <= u2 \/ e2 <= u1
        /\ u2 <= x /\ x + SizeOf(b) <= e2 /\ r.off = u1 /\ r.off + r.len = e1
    BY <1>2, <1>4, <1>6
  <1>. HIDE DEF e1, e2, u1, u2
  <1>. QED
    BY <1>2, <1>7, <1>8

LEMMA ObjectsApart ==
    ASSUME NEW a, PoolSound(a, {}), NEW x, NEW b, <<x, b>> \in Taken(a),
           NEW y, NEW d, <<y, d>> \in Taken(a), x # y
    PROVE  x + SizeOf(b) <= y \/ y + SizeOf(d) <= x
  <1>. DEFINE p == Al!PageOf(a, x)
              q == Al!PageOf(a, y)
              v == Width(a, p)
              w == Width(a, q)
  <1>1. Typed(a) /\ Objected(a) /\ a.large \subseteq Larges
    BY DEF PoolSound, Typed
  <1>2. /\ p \in DOMAIN a.objs /\ p \in Usable /\ Home(a, p) = p
        /\ b = a.objs[p].bucket /\ b \in Al!Buckets
        /\ x \in Nat /\ SizeOf(b) \in Nat /\ p * Small <= x /\ p * Small \in Nat
        /\ x + SizeOf(b) <= (p + v) * Small
        /\ \E i \in a.objs[p].bits : x = Al!Element(p, b, i)
    BY <1>1, ObjectZone
  <1>3. /\ q \in DOMAIN a.objs /\ q \in Usable /\ Home(a, q) = q
        /\ d = a.objs[q].bucket
        /\ y \in Nat /\ SizeOf(d) \in Nat /\ q * Small <= y /\ q * Small \in Nat
        /\ y + SizeOf(d) <= (q + w) * Small
        /\ \E i \in a.objs[q].bits : y = Al!Element(q, d, i)
    BY <1>1, ObjectZone
  <1>. HIDE DEF p, q
  <1>4. /\ p \in Nat /\ v \in Nat \ {0}
        /\ \A z \in p..(p + v - 1) : Home(a, z) = p
        /\ q \in Nat /\ w \in Nat \ {0}
        /\ \A z \in q..(q + w - 1) : Home(a, z) = q
    BY <1>1, <1>2, <1>3, WidthIs
  <1>. HIDE DEF v, w
  <1>5. CASE p # q
    <2>1. ASSUME NEW z \in Nat, p <= z, z < p + v, q <= z, z < q + w
          PROVE  FALSE
      <3>1. z \in p..(p + v - 1) /\ z \in q..(q + w - 1)
        BY <1>4, <2>1
      <3>. QED
        BY <1>4, <1>5, <3>1
    <2>2. (p + v) * Small <= q * Small \/ (q + w) * Small <= p * Small
      BY <1>4, <2>1, BytesApart
    <2>. DEFINE e1 == (p + v) * Small
                e2 == (q + w) * Small
                u1 == p * Small
                u2 == q * Small
    <2>3. e1 \in Nat /\ e2 \in Nat /\ u1 \in Nat /\ u2 \in Nat
      <3>1. Small \in Nat /\ p + v \in Nat /\ q + w \in Nat
        BY <1>4, PageSizes
      <3>. QED
        BY <1>4, <3>1, Products
    <2>4. /\ e1 <= u2 \/ e2 <= u1
          /\ u1 <= x /\ x + SizeOf(b) <= e1 /\ u2 <= y /\ y + SizeOf(d) <= e2
      BY <1>2, <1>3, <2>2
    <2>. HIDE DEF e1, e2, u1, u2
    <2>. QED
      BY <1>2, <1>3, <2>3, <2>4
  <1>6. CASE p = q
    <2>1. PICK i \in a.objs[p].bits : x = Al!Element(p, b, i)
      BY <1>2
    <2>2. PICK j \in a.objs[p].bits : y = Al!Element(p, b, j)
      BY <1>2, <1>3, <1>6
    <2>3. d = b /\ i # j
      BY <1>2, <1>3, <1>6, <2>1, <2>2
    <2>4. i \in 0..(Al!PerPage[b] - 1) /\ j \in 0..(Al!PerPage[b] - 1)
      BY <1>1, <1>2 DEF Objected
    <2>5. CASE i < j
      BY <1>2, <1>4, <2>1, <2>2, <2>4, <2>5, ElementsApart
    <2>6. CASE j < i
      BY <1>2, <1>4, <2>1, <2>2, <2>3, <2>4, <2>6, ElementsApart
    <2>7. i \in Int /\ j \in Int
      BY <2>4
    <2>. QED
      BY <2>3, <2>5, <2>6, <2>7
  <1>. QED
    BY <1>5, <1>6

LEMMA RunsApart ==
    ASSUME NEW a, PoolSound(a, {}), NEW r \in Names(a.huge), NEW s \in Names(a.huge), r # s
    PROVE  r.off + r.len <= s.off \/ s.off + s.len <= r.off
  <1>1. /\ Typed(a) /\ Row(a, r) /\ Row(a, s)
        /\ Al!PagesIn(r) \cap Al!PagesIn(s) = {}
    BY DEF PoolSound, Rowed
  <1>2. PICK m \in Nat, n \in Nat \ {0} :
              /\ r.off = m * Small /\ r.off + r.len = (m + n) * Small
              /\ \A q \in m..(m + n - 1) : q \in Al!PagesIn(r)
    BY <1>1, RunZone
  <1>3. PICK p \in Nat, w \in Nat \ {0} :
              /\ s.off = p * Small /\ s.off + s.len = (p + w) * Small
              /\ \A q \in p..(p + w - 1) : q \in Al!PagesIn(s)
    BY <1>1, RunZone
  <1>4. ASSUME NEW z \in Nat, m <= z, z < m + n, p <= z, z < p + w
        PROVE  FALSE
    <2>1. z \in m..(m + n - 1) /\ z \in p..(p + w - 1)
      BY <1>4
    <2>. QED
      BY <1>1, <1>2, <1>3, <2>1
  <1>5. (m + n) * Small <= p * Small \/ (p + w) * Small <= m * Small
    BY <1>4, BytesApart
  <1>. QED
    BY <1>2, <1>3, <1>5

(* What callers hold, one by one and two by two.                           *)
LEMMA LargeHeldAt ==
    ASSUME LargeFits, LargeInv, NEW p \in DOMAIN largeHeld
    PROVE  /\ largeHeld[p] \in LargeAsked /\ largeHeld[p] \in Nat \ {0}
           /\ \/ \E r \in Names(pool.huge) : r.off = p /\ largeHeld[p] <= r.len
              \/ /\ <<p, Al!Bucket(largeHeld[p])>> \in Taken(pool)
                 /\ largeHeld[p] <= SizeOf(Al!Bucket(largeHeld[p]))
           /\ p \in Nat \ {0} /\ p + largeHeld[p] <= LargePool
  <1>. DEFINE n == largeHeld[p]
              b == Al!Bucket(n)
  <1>1. /\ PoolSound(pool, {}) /\ Typed(pool) /\ Objected(pool) /\ Rowed(pool)
        /\ pool.large \subseteq Larges
    BY DEF LargeInv, PoolSound, Typed
  <1>2. /\ n \in LargeAsked
        /\ \/ \E r \in Names(pool.huge) : r.off = p /\ n <= r.len
           \/ <<p, b>> \in Taken(pool)
    BY DEF LargeInv, Booked
  <1>3. n \in Nat \ {0} /\ b \in Nat /\ n <= SizeOf(b) /\ LargePool \in Nat
        /\ SizeOf(b) \in Nat
    <2>1. /\ n \in Nat \ {0} /\ n <= Al!Rounded(n) /\ Al!Rounded(n) \in Nat
          /\ SizeOf(b) >= Al!Rounded(n) /\ b \in Nat
      BY <1>2, AskedBuckets
    <2>2. SizeOf(b) \in Nat /\ LargePool \in Nat
      BY <2>1, BucketSizes, LargeAssumed
    <2>. DEFINE x == Al!Rounded(n)
    <2>. HIDE DEF x, b, n
    <2>3. x \in Nat /\ n <= x /\ x <= SizeOf(b)
      BY <2>1, <2>2 DEF x
    <2>. QED
      BY <2>1, <2>2, <2>3
  <1>. HIDE DEF n, b
  <1>4. CASE \E r \in Names(pool.huge) : r.off = p /\ n <= r.len
    <2>1. PICK r \in Names(pool.huge) : r.off = p /\ n <= r.len
      BY <1>4
    <2>2. Row(pool, r)
      BY <1>1 DEF Rowed
    <2>3. r.off \in Nat /\ r.len \in Nat /\ r.off > 0 /\ r.off + r.len <= LargePool
      BY <1>1, <2>2, RunStart DEF Row
    <2>4. p \in Nat \ {0} /\ p + n <= LargePool
      BY <1>3, <2>1, <2>3
    <2>. QED
      BY <1>2, <1>3, <1>4, <2>4 DEF n
  <1>5. CASE <<p, b>> \in Taken(pool)
    <2>. DEFINE pg == Al!PageOf(pool, p)
                e == (pg + Width(pool, pg)) * Small
    <2>1. /\ p \in Nat \ {0} /\ SizeOf(b) \in Nat
          /\ p + SizeOf(b) <= e /\ e <= LargePool
          /\ pg \in Usable /\ Home(pool, pg) = pg
      BY <1>1, <1>5, ObjectZone
    <2>. HIDE DEF pg
    <2>2. e \in Nat
      <3>1. pg + Width(pool, pg) \in Nat /\ Small \in Nat
        BY <1>1, <2>1, WidthIs, PageSizes
      <3>. QED
        BY <3>1, Products
    <2>. HIDE DEF e
    <2>3. p + n <= LargePool
      BY <1>3, <2>1, <2>2
    <2>. QED
      BY <1>2, <1>3, <1>5, <2>1, <2>3 DEF n, b
  <1>. QED
    BY <1>2, <1>4, <1>5

LEMMA LargePairApart ==
    ASSUME LargeFits, LargeInv, NEW p \in DOMAIN largeHeld, NEW q \in DOMAIN largeHeld, p # q
    PROVE  p + largeHeld[p] <= q \/ q + largeHeld[q] <= p
  <1>. DEFINE n == largeHeld[p]
              k == largeHeld[q]
              b == Al!Bucket(n)
              d == Al!Bucket(k)
              R == Names(pool.huge)
  <1>1. PoolSound(pool, {}) /\ Typed(pool) /\ Rowed(pool)
    BY DEF LargeInv, PoolSound
  <1>2. /\ p \in Nat /\ n \in Nat
        /\ \/ \E r \in R : r.off = p /\ n <= r.len
           \/ <<p, b>> \in Taken(pool) /\ n <= SizeOf(b)
    BY LargeHeldAt
  <1>3. /\ q \in Nat /\ k \in Nat
        /\ \/ \E r \in R : r.off = q /\ k <= r.len
           \/ <<q, d>> \in Taken(pool) /\ k <= SizeOf(d)
    BY LargeHeldAt
  <1>. HIDE DEF n, k, b, d, R
  <1>4. \A r \in R : r.off \in Nat /\ r.len \in Nat
    BY <1>1, RunStart DEF Rowed, Typed, R
  <1>5. /\ <<p, b>> \in Taken(pool) => SizeOf(b) \in Nat
        /\ <<q, d>> \in Taken(pool) => SizeOf(d) \in Nat
    BY <1>1, ObjectZone DEF PoolSound
  <1>6. CASE (\E r \in R : r.off = p /\ n <= r.len) /\ (\E r \in R : r.off = q /\ k <= r.len)
    <2>1. PICK r \in R : r.off = p /\ n <= r.len
      BY <1>6
    <2>2. PICK s \in R : s.off = q /\ k <= s.len
      BY <1>6
    <2>3. r.off + r.len <= s.off \/ s.off + s.len <= r.off
      BY <1>1, <2>1, <2>2, RunsApart DEF R
    <2>4. p + n <= q \/ q + k <= p
      BY <1>2, <1>3, <1>4, <2>1, <2>2, <2>3
    <2>. QED
      BY <2>4 DEF n, k
  <1>7. CASE (\E r \in R : r.off = p /\ n <= r.len) /\ <<q, d>> \in Taken(pool) /\ k <= SizeOf(d)
    <2>1. PICK r \in R : r.off = p /\ n <= r.len
      BY <1>7
    <2>2. q + SizeOf(d) <= r.off \/ r.off + r.len <= q
      BY <1>1, <1>7, ObjectRunApart DEF R
    <2>3. p + n <= q \/ q + k <= p
      BY <1>2, <1>3, <1>4, <1>5, <1>7, <2>1, <2>2
    <2>. QED
      BY <2>3 DEF n, k
  <1>8. CASE <<p, b>> \in Taken(pool) /\ n <= SizeOf(b) /\ (\E r \in R : r.off = q /\ k <= r.len)
    <2>1. PICK r \in R : r.off = q /\ k <= r.len
      BY <1>8
    <2>2. p + SizeOf(b) <= r.off \/ r.off + r.len <= p
      BY <1>1, <1>8, ObjectRunApart DEF R
    <2>3. p + n <= q \/ q + k <= p
      BY <1>2, <1>3, <1>4, <1>5, <1>8, <2>1, <2>2
    <2>. QED
      BY <2>3 DEF n, k
  <1>9. CASE /\ <<p, b>> \in Taken(pool) /\ n <= SizeOf(b)
             /\ <<q, d>> \in Taken(pool) /\ k <= SizeOf(d)
    <2>1. p + SizeOf(b) <= q \/ q + SizeOf(d) <= p
      BY <1>1, <1>9, ObjectsApart
    <2>2. p + n <= q \/ q + k <= p
      BY <1>2, <1>3, <1>5, <1>9, <2>1
    <2>. QED
      BY <2>2 DEF n, k
  <1>. QED
    BY <1>2, <1>3, <1>6, <1>7, <1>8, <1>9

------------------------------------------------------------------------------
(* alloc.c as an allocator.                                                *)
LargeExtent(p) == [off |-> p, len |-> largeHeld[p]]

LargeLive == {LargeExtent(p) : p \in DOMAIN largeHeld}

LargeApart ==
    \A p \in DOMAIN largeHeld :
        /\ LargeExtent(p) \in Al!Abs!Extents
        /\ p + largeHeld[p] <= LargePool
        /\ \A q \in DOMAIN largeHeld :
              q # p => ~ Al!Abs!Overlap(LargeExtent(p), LargeExtent(q))

LEMMA LargeExtents == ASSUME LargeFits PROVE LargeInv => LargeApart
  <1>. SUFFICES ASSUME LargeInv, NEW p \in DOMAIN largeHeld
                PROVE  /\ LargeExtent(p) \in Al!Abs!Extents
                       /\ p + largeHeld[p] <= LargePool
                       /\ \A q \in DOMAIN largeHeld :
                             q # p => ~ Al!Abs!Overlap(LargeExtent(p), LargeExtent(q))
    BY DEF LargeApart
  <1>1. \A q \in DOMAIN largeHeld : /\ q \in Nat /\ largeHeld[q] \in LargeAsked
                                    /\ largeHeld[q] \in Nat \ {0}
                                    /\ q + largeHeld[q] <= LargePool
    BY LargeHeldAt
  <1>2. LargePool \in Nat
    BY LargeAssumed
  <1>3. p \in 0..(LargePool - 1)
    <2>. DEFINE n == largeHeld[p]
    <2>1. p \in Nat /\ n \in Nat \ {0} /\ p + n <= LargePool
      BY <1>1
    <2>. HIDE DEF n
    <2>. QED
      BY <1>2, <2>1
  <1>4. LargeExtent(p) \in Al!Abs!Extents
    BY <1>1, <1>3 DEF LargeExtent, Al!Abs!Extents
  <1>5. ASSUME NEW q \in DOMAIN largeHeld, q # p
        PROVE  ~ Al!Abs!Overlap(LargeExtent(p), LargeExtent(q))
    <2>1. p + largeHeld[p] <= q \/ q + largeHeld[q] <= p
      BY <1>5, LargePairApart
    <2>2. p \in Nat /\ q \in Nat /\ largeHeld[p] \in Nat /\ largeHeld[q] \in Nat
      BY <1>1
    <2>. QED
      BY <2>1, <2>2 DEF Al!Abs!Overlap, LargeExtent
  <1>. QED
    BY <1>1, <1>4, <1>5

LEMMA LargeStepSeen ==
    ASSUME LargeFits, LargeInv, LargeInv', LargeSeen
    PROVE  \/ \E e \in LargeLive : LargeLive' = LargeLive \ {e}
           \/ LargeLive' = {}
           \/ \E e \in Al!Abs!Extents : /\ Al!Abs!Vacant(e, LargeLive)
                                        /\ LargeLive' = LargeLive \cup {e}
           \/ LargeLive' = LargeLive
  <1>. DEFINE Later(p) == [off |-> p, len |-> largeHeld'[p]]
  <1>1. LargeLive' = {Later(p) : p \in DOMAIN largeHeld'}
    BY DEF LargeLive, LargeExtent
  <1>2. ASSUME NEW p, NEW n, LargeGives(p, n)
        PROVE  \E e \in Al!Abs!Extents : /\ Al!Abs!Vacant(e, LargeLive)
                                         /\ LargeLive' = LargeLive \cup {e}
    <2>1. p \notin DOMAIN largeHeld /\ largeHeld' = Al!With(largeHeld, p, n)
      BY <1>2 DEF LargeGives
    <2>2. DOMAIN largeHeld' = DOMAIN largeHeld \cup {p}
      BY <2>1, LargeWithDomain
    <2>3. \A q \in DOMAIN largeHeld : q # p /\ largeHeld'[q] = largeHeld[q]
      <3>1. \A q \in DOMAIN largeHeld : q # p
        BY <2>1
      <3>. QED
        BY <2>1, <3>1, LargeWithOld
    <2>4. \A q \in DOMAIN largeHeld : Later(q) = LargeExtent(q)
      BY <2>3 DEF LargeExtent
    <2>5. LargeLive' = LargeLive \cup {Later(p)}
      BY <1>1, <2>2, <2>4 DEF LargeLive
    <2>6. LargeApart'
      <3>1. LargeInv' => LargeApart'
        BY LargeExtents, PTL
      <3>. QED
        BY <3>1
    <2>7. /\ Later(p) \in Al!Abs!Extents /\ p + largeHeld'[p] <= LargePool
          /\ \A q \in DOMAIN largeHeld : ~ Al!Abs!Overlap(Later(p), Later(q))
      <3>1. p \in DOMAIN largeHeld' /\ \A q \in DOMAIN largeHeld : q \in DOMAIN largeHeld' /\ q # p
        BY <2>2, <2>3
      <3>. QED
        BY <2>6, <3>1 DEF LargeApart, LargeExtent, Al!Abs!Overlap, Al!Abs!Extents
    <2>8. Al!Abs!Vacant(Later(p), LargeLive)
      <3>1. \A e \in LargeLive : ~ Al!Abs!Overlap(Later(p), e)
        BY <2>4, <2>7 DEF LargeLive
      <3>2. Later(p).off + Later(p).len <= LargePool
        BY <2>7
      <3>. QED
        BY <3>1, <3>2 DEF Al!Abs!Vacant
    <2>. QED
      BY <2>5, <2>7, <2>8
  <1>3. ASSUME NEW p \in DOMAIN largeHeld,
               largeHeld' = [q \in DOMAIN largeHeld \ {p} |-> largeHeld[q]]
        PROVE  \E e \in LargeLive : LargeLive' = LargeLive \ {e}
    <2>1. /\ DOMAIN largeHeld' = DOMAIN largeHeld \ {p}
          /\ \A q \in DOMAIN largeHeld \ {p} : Later(q) = LargeExtent(q)
      BY <1>3 DEF LargeExtent
    <2>2. \A q \in DOMAIN largeHeld \ {p} : LargeExtent(q) # LargeExtent(p)
      <3>. SUFFICES ASSUME NEW q \in DOMAIN largeHeld \ {p}
                    PROVE  LargeExtent(q) # LargeExtent(p)
        OBVIOUS
      <3>1. LargeExtent(q).off = q /\ LargeExtent(p).off = p
        BY DEF LargeExtent
      <3>. QED
        BY <3>1
    <2>3. LargeLive' = {LargeExtent(q) : q \in DOMAIN largeHeld \ {p}}
      BY <1>1, <2>1
    <2>4. LargeLive' = LargeLive \ {LargeExtent(p)} /\ LargeExtent(p) \in LargeLive
      BY <2>2, <2>3 DEF LargeLive
    <2>. QED
      BY <2>4
  <1>4. CASE largeHeld' = [q \in {} |-> 0]
    <2>1. DOMAIN largeHeld' = {}
      BY <1>4
    <2>. QED
      BY <1>1, <2>1
  <1>5. CASE largeHeld' = largeHeld
    BY <1>5 DEF LargeLive, LargeExtent
  <1>. QED
    BY <1>2, <1>3, <1>4, <1>5 DEF LargeSeen

(* Then alloc.c implements the allocator interface: pages, buckets and     *)
(* structs of runs are hidden, and no two callers' bytes meet.             *)
LEMMA LargeImplements ==
    ASSUME LargeFits, HugeLeftBusy
    PROVE  Spec /\ []HugeRunsFree => Al!Refinement
  <1>1. Init => Al!Abs!Create
    <2>1. Init => DOMAIN largeHeld = {}
      BY DEF Init, Al!Init
    <2>. QED
      BY <2>1 DEF Al!Abs!Create
  <1>2. LargeInv /\ HugeRunsFree /\ [Next]_vars => [Al!Abs!Next]_LargeLive
    <2>. SUFFICES ASSUME LargeInv, HugeRunsFree, [Next]_vars
                  PROVE  Al!Abs!Next \/ LargeLive' = LargeLive
      OBVIOUS
    <2>1. Al!Next \/ UNCHANGED largeVars
      BY DEF Next, vars, SLAB, NOFREE, SIMPLE, BUFFER, LARGE_BUFFER
    <2>2. Al!HugeRunsFree
      BY DEF HugeRunsFree
    <2>3. LargeInv' /\ LargeSeen
      BY <2>1, <2>2, LargeStep
    <2>4. \/ \E e \in LargeLive : LargeLive' = LargeLive \ {e}
          \/ LargeLive' = {}
          \/ \E e \in Al!Abs!Extents : /\ Al!Abs!Vacant(e, LargeLive)
                                       /\ LargeLive' = LargeLive \cup {e}
          \/ LargeLive' = LargeLive
      BY <2>3, LargeStepSeen
    <2>. QED
      BY <2>4 DEF Al!Abs!Next, Al!Abs!Free, Al!Abs!Reset, Al!Abs!Malloc, LargeLive, LargeExtent
  <1>3. Spec /\ []HugeRunsFree => []LargeInv
    BY LargePoolSound
  <1>. QED
    BY <1>1, <1>2, <1>3, PTL DEF Spec, Al!Refinement, Al!Abs!Spec, LargeLive, LargeExtent

------------------------------------------------------------------------------
(* Types, as Alloc states them.                                            *)
LEMMA SeqInto ==
    ASSUME NEW S, NEW T, NEW xs \in Seq(S), Names(xs) \subseteq T
    PROVE  xs \in Seq(T)
  <1>1. Len(xs) \in Nat /\ xs = [i \in 1..Len(xs) |-> xs[i]]
    OBVIOUS
  <1>2. \A i \in 1..Len(xs) : xs[i] \in T
    BY DEF Names
  <1>. QED
    BY <1>1, <1>2

LEMMA LargeIsTyped == ASSUME LargeFits PROVE LargeInv => Al!TypeOK
  <1>. SUFFICES ASSUME LargeInv
                PROVE  Al!TypeOK
    OBVIOUS
  <1>1. /\ Typed(pool) /\ FreeListed(pool) /\ Objected(pool) /\ Bucketed(pool) /\ Rowed(pool)
        /\ pool.large \subseteq Larges
        /\ Booked(Taken(pool), Names(pool.huge), largeHeld)
    BY DEF LargeInv, PoolSound, Typed
  <1>2. Usable \subseteq Al!Pages
    BY WholeAre DEF Usable
  <1>3. pool.large \subseteq {Al!LargeOf(pg) : pg \in Al!Pages}
    BY <1>1 DEF Larges
  <1>4. pool.small_free \in Seq(Al!Pages) /\ pool.large_free \in Seq(Al!Pages)
    <2>1. Names(pool.small_free) \subseteq Al!Pages /\ Names(pool.large_free) \subseteq Al!Pages
      BY <1>1, <1>2 DEF FreeListed
    <2>2. pool.small_free \in Seq(Nat) /\ pool.large_free \in Seq(Nat)
      BY <1>1 DEF Typed
    <2>. QED
      BY <2>1, <2>2, SeqInto
  <1>5. LargePool \in Nat
    BY LargeAssumed
  <1>6. pool.huge \in Seq([ha : 1..LargePool, off : 1..LargePool, len : 1..LargePool])
    <2>1. ASSUME NEW r \in Names(pool.huge)
          PROVE  r \in [ha : 1..LargePool, off : 1..LargePool, len : 1..LargePool]
      <3>1. r \in RunType
        BY <1>1 DEF Typed, Names
      <3>2. Row(pool, r)
        BY <1>1 DEF Rowed
      <3>3. r.off \in Nat /\ r.len \in Nat /\ r.len > 0 /\ r.off > 0 /\ r.off + r.len <= LargePool
        BY <1>1, <3>2, RunStart DEF Row
      <3>4. <<r.ha, Al!StructBucket>> \in Taken(pool)
        BY <1>1 DEF Booked
      <3>. DEFINE pg == Al!PageOf(pool, r.ha)
                  e == (pg + Width(pool, pg)) * Small
                  x == r.ha
                  n == SizeOf(Al!StructBucket)
      <3>5. /\ x \in Nat \ {0} /\ n \in Nat \ {0} /\ x + n <= e /\ e <= LargePool
            /\ pg \in Usable /\ Home(pool, pg) = pg
        BY <1>1, <3>4, ObjectZone
      <3>. HIDE DEF pg, n
      <3>6. e \in Nat
        <4>1. pg + Width(pool, pg) \in Nat /\ Small \in Nat
          BY <1>1, <3>5, WidthIs, PageSizes
        <4>. QED
          BY <4>1, Products
      <3>. HIDE DEF e
      <3>7. x \in 1..LargePool
        BY <1>5, <3>5, <3>6
      <3>8. r.off \in 1..LargePool /\ r.len \in 1..LargePool
        BY <1>5, <3>3
      <3>. QED
        BY <3>1, <3>7, <3>8 DEF RunType
    <2>2. pool.huge \in Seq(RunType)
      BY <1>1 DEF Typed
    <2>. QED
      BY <2>1, <2>2, SeqInto
  <1>7. /\ pool.page_list \in [Al!Buckets -> Seq(Al!Pages)]
        /\ pool.full_list \in [Al!Buckets -> Seq(Al!Pages)]
    <2>1. ASSUME NEW b \in Al!Buckets
          PROVE  pool.page_list[b] \in Seq(Al!Pages) /\ pool.full_list[b] \in Seq(Al!Pages)
      <3>1. /\ Names(pool.page_list[b]) \subseteq DOMAIN pool.objs
            /\ Names(pool.full_list[b]) \subseteq DOMAIN pool.objs
        BY <1>1 DEF Bucketed
      <3>2. DOMAIN pool.objs \subseteq Al!Pages
        BY <1>1, <1>2 DEF Objected
      <3>3. pool.page_list[b] \in Seq(Nat) /\ pool.full_list[b] \in Seq(Nat)
        BY <1>1 DEF Typed
      <3>. QED
        BY <3>1, <3>2, <3>3, SeqInto
    <2>2. pool.page_list \in [Al!Buckets -> Seq(Nat)] /\ pool.full_list \in [Al!Buckets -> Seq(Nat)]
      BY <1>1 DEF Typed
    <2>. QED
      BY <2>1, <2>2
  <1>8. pool.used \in [Al!Pages -> Nat]
    BY <1>1 DEF Typed
  <1>9. DOMAIN pool.objs \subseteq Al!Pages
    BY <1>1, <1>2 DEF Objected
  <1>10. DOMAIN largeHeld \subseteq 1..(LargePool - 1)
    <2>. SUFFICES ASSUME NEW p \in DOMAIN largeHeld
                  PROVE  p \in 1..(LargePool - 1)
      OBVIOUS
    <2>. DEFINE n == largeHeld[p]
    <2>1. n \in Nat \ {0} /\ p \in Nat \ {0} /\ p + n <= LargePool
      BY LargeHeldAt
    <2>. HIDE DEF n
    <2>. QED
      BY <1>5, <2>1
  <1>. QED
    BY <1>3, <1>4, <1>6, <1>7, <1>8, <1>9, <1>10 DEF Al!TypeOK

(* Type correctness of the large pool: lists of pages, runs in the pool,   *)
(* objects in pages.                                                       *)
LEMMA LargeTyped ==
    ASSUME LargeFits, HugeLeftBusy
    PROVE  Spec /\ []HugeRunsFree => []Al!TypeOK
  <1>1. Spec /\ []HugeRunsFree => []LargeInv
    BY LargePoolSound
  <1>. QED
    BY <1>1, LargeIsTyped, PTL

------------------------------------------------------------------------------
(* Where objects lie.                                                      *)

LEMMA MultipleAligned ==
    ASSUME NEW x \in Nat, NEW A \in Nat \ {0}, NEW m \in Nat, x = m * A
    PROVE  x % A = 0
  <1>1. x \div A = m
    BY Halves
  <1>2. x = (x \div A) * A + (x % A) /\ x % A \in Nat
    <2>1. x = A * (x \div A) + (x % A) /\ x % A \in 0..(A - 1)
      BY Z3
    <2>2. A * (x \div A) = (x \div A) * A
      <3>1. x \div A \in Nat
        BY <1>1
      <3>. QED
        BY <3>1, Z3
    <2>. QED
      BY <2>1, <2>2
  <1>. DEFINE d == x % A
              y == m * A
  <1>3. x = y + d /\ d \in Nat /\ y = x
    BY <1>1, <1>2
  <1>. HIDE DEF d, y
  <1>4. d = 0
    BY <1>3
  <1>. QED
    BY <1>4 DEF d

(* Sizes are rounded up to a word, and so are headers: an object starts at *)
(* one.                                                                    *)
LEMMA ObjectAligned ==
    ASSUME LargeFits, NEW size \in LargeAsked, Al!Bucket(size) \in Al!Buckets, NEW pg \in Nat,
           NEW i \in 0..(Al!PerPage[Al!Bucket(size)] - 1)
    PROVE  Al!Element(pg, Al!Bucket(size), i) % Word = 0
  <1>. DEFINE b == Al!Bucket(size)
              e == Al!Element(pg, b, i)
  <1>1. PICK m \in Nat \ {0} : Al!Rounded(size) = m * Word
    BY AskedBuckets
  <1>2. b = Al!size_to_bucket(m * Word)
    BY <1>1, AskedBuckets
  <1>3. /\ \E j \in Nat : 2 ^ Bits(b) = j * Word
        /\ \E j \in Nat : SizeOf(b) = j * Word
    BY <1>2, BucketAligned
  <1>4. b \in Al!Buckets
    OBVIOUS
  <1>5. i \in 0..(Al!PerPage[b] - 1)
    OBVIOUS
  <1>. HIDE DEF b
  <1>6. /\ e \in Nat /\ e = pg * Small + Header(b) + i * SizeOf(b)
    BY <1>4, <1>5, ElementIn
  <1>7. PICK k \in Nat : Header(b) = k * 2 ^ Bits(b)
    BY <1>4, PageHolds
  <1>8. PICK j \in Nat : 2 ^ Bits(b) = j * Word
    BY <1>3
  <1>9. PICK n \in Nat : SizeOf(b) = n * Word
    BY <1>3
  <1>10. PICK w \in Nat : Small = w * Word
    BY WordPower
  <1>11. Word \in Nat \ {0} /\ i \in Nat
    BY <1>4, <1>5, LargeAssumed, PageHolds
  <1>12. Header(b) = (k * j) * Word /\ k * j \in Nat
    BY <1>7, <1>8, <1>11, Products
  <1>13. i * SizeOf(b) = (i * n) * Word /\ i * n \in Nat
    BY <1>9, <1>11, Products
  <1>14. pg * Small = (pg * w) * Word /\ pg * w \in Nat
    BY <1>10, <1>11, Products
  <1>. DEFINE x == pg * w
              y == k * j
              z == i * n
  <1>15. x \in Nat /\ y \in Nat /\ z \in Nat /\ e = x * Word + y * Word + z * Word
    BY <1>6, <1>12, <1>13, <1>14
  <1>. HIDE DEF x, y, z, e
  <1>16. x + y \in Nat /\ (x + y) + z \in Nat
    BY <1>15
  <1>17. e = ((x + y) + z) * Word
    <2>1. (x + y) * Word = x * Word + y * Word /\ (x + y) * Word \in Nat
      BY <1>11, <1>15, <1>16, Products
    <2>2. ((x + y) + z) * Word = (x + y) * Word + z * Word
      BY <1>11, <1>15, <1>16, Products
    <2>. QED
      BY <1>15, <2>1, <2>2
  <1>18. e \in Nat
    BY <1>6 DEF e
  <1>19. e % Word = 0
    BY <1>11, <1>16, <1>17, <1>18, MultipleAligned
  <1>. QED
    BY <1>19 DEF e, b

LEMMA LargeIsApart == ASSUME LargeFits PROVE LargeInv => Al!DataApart
  <1>. SUFFICES ASSUME LargeInv, NEW p \in DOMAIN largeHeld
                PROVE  LET pg == Al!PageOf(pool, p)
                           bucket == pool.objs[pg].bucket
                       IN /\ p % Word = 0
                          /\ IF pg \in DOMAIN pool.objs
                             THEN /\ p >= pg * Small + PageHeader
                                            + Al!used_size(Al!PerPage[bucket])
                                  /\ p + largeHeld[p] <= pg * Small + Al!PageSizeOf(bucket)
                             ELSE \E h \in Al!Range(pool.huge) : h.off = p /\ largeHeld[p] <= h.len
    BY DEF Al!DataApart, Small
  <1>. DEFINE pg == Al!PageOf(pool, p)
              n == largeHeld[p]
              b == Al!Bucket(n)
  <1>1. /\ Typed(pool) /\ Objected(pool) /\ Rowed(pool) /\ Shared(pool, {})
        /\ pool.large \subseteq Larges
    BY DEF LargeInv, PoolSound, Typed
  <1>2. /\ n \in LargeAsked /\ n \in Nat \ {0} /\ p \in Nat
        /\ \/ \E r \in Names(pool.huge) : r.off = p /\ n <= r.len
           \/ <<p, b>> \in Taken(pool) /\ n <= SizeOf(b)
    BY LargeHeldAt
  <1>3. CASE \E r \in Names(pool.huge) : r.off = p /\ n <= r.len
    <2>1. PICK r \in Names(pool.huge) : r.off = p /\ n <= r.len
      BY <1>3
    <2>2. Row(pool, r)
      BY <1>1 DEF Rowed
    <2>3. pg \in Al!PagesIn(r)
      BY <1>1, <2>1, <2>2, RunStart
    <2>4. pg \notin DOMAIN pool.objs
      BY <1>1, <2>1, <2>3 DEF Shared, InRuns
    <2>5. p % Word = 0
      <3>1. PICK m \in Nat : r.off = m * Small
        BY <2>2 DEF Row
      <3>2. PICK w \in Nat : Small = w * Word
        BY WordPower
      <3>3. Word \in Nat \ {0}
        BY LargeAssumed
      <3>4. p = (m * w) * Word /\ m * w \in Nat
        BY <2>1, <3>1, <3>2, <3>3, Products
      <3>. QED
        BY <1>2, <3>3, <3>4, MultipleAligned
    <2>. QED
      BY <2>1, <2>4, <2>5, SameRange
  <1>4. CASE <<p, b>> \in Taken(pool) /\ n <= SizeOf(b)
    <2>1. /\ pg \in DOMAIN pool.objs /\ pg \in Usable
          /\ b = pool.objs[pg].bucket /\ b \in Al!Buckets /\ SizeOf(b) \in Nat
          /\ p >= pg * Small + PageHeader + Al!used_size(Al!PerPage[b])
          /\ p + SizeOf(b) <= pg * Small + Al!PageSizeOf(b)
          /\ pg * Small \in Nat
          /\ \E i \in pool.objs[pg].bits : p = Al!Element(pg, b, i)
      BY <1>1, <1>4, ObjectZone
    <2>2. Al!PageSizeOf(b) \in Nat /\ pg \in Nat
      <3>1. pg \in Nat
        BY <2>1, WholeAre DEF Usable
      <3>2. 0 \in 0..(Al!PerPage[b] - 1)
        BY <2>1, PageHolds
      <3>. QED
        BY <2>1, <3>1, <3>2, ElementIn
    <2>3. PICK i \in pool.objs[pg].bits : p = Al!Element(pg, b, i)
      BY <2>1
    <2>4. i \in 0..(Al!PerPage[b] - 1)
      BY <1>1, <2>1 DEF Objected
    <2>5. p % Word = 0
      BY <1>2, <2>1, <2>2, <2>3, <2>4, ObjectAligned
    <2>6. p + n <= pg * Small + Al!PageSizeOf(b)
      <3>. DEFINE e == pg * Small + Al!PageSizeOf(b)
                  s == SizeOf(b)
      <3>1. p \in Nat /\ n \in Nat /\ s \in Nat /\ e \in Nat /\ n <= s /\ p + s <= e
        BY <1>2, <1>4, <2>1, <2>2
      <3>. HIDE DEF e, s, n
      <3>2. p + n <= e
        BY <3>1
      <3>. QED
        BY <3>2 DEF e, n
    <2>. QED
      BY <2>1, <2>5, <2>6
  <1>. QED
    BY <1>2, <1>3, <1>4

(* An object of alloc.c is aligned and lies behind the bitmap of its page, *)
(* in the page; a huge one lies in a run that is as long.                  *)
LEMMA LargeDataApart ==
    ASSUME LargeFits, HugeLeftBusy
    PROVE  Spec /\ []HugeRunsFree => []Al!DataApart
  <1>1. Spec /\ []HugeRunsFree => []LargeInv
    BY LargePoolSound
  <1>. QED
    BY <1>1, LargeIsApart, PTL

------------------------------------------------------------------------------
(* Callers who ask alloc.c for no huge object: for them it is right        *)
(* whatever they leave in their pages and wherever the search for runs of  *)
(* pages would have gone.                                                  *)
NothingHuge == \A size \in LargeAsked : Al!Bucket(size) < Al!max_bucket

LEMMA NoRuns ==
    ASSUME LargeFits, NothingHuge
    PROVE  HugeLeftBusy /\ HugeRunsFree
  <1>1. ASSUME NEW size \in LargeAsked
        PROVE  ~ (Al!Bucket(size) >= Al!max_bucket)
    BY AskedBuckets, BucketLimit DEF NothingHuge
  <1>. QED
    BY <1>1 DEF NothingHuge, HugeLeftBusy, HugeRunsFree, Al!HugeRunsFree

(* Its lists and runs hold pages and its objects lie in pages, behind the  *)
(* bitmap of each and aligned, and no two callers' bytes meet: it          *)
(* implements the allocator interface.                                     *)
THEOREM ObjectsAlone ==
    ASSUME LargeFits, NothingHuge
    PROVE  Spec => []Al!TypeOK /\ []Al!DataApart /\ Al!Refinement
  <1>1. HugeLeftBusy /\ HugeRunsFree
    BY NoRuns
  <1>2. Spec => []HugeRunsFree
    BY NoRuns, PTL
  <1>. QED
    BY <1>1, <1>2, LargeTyped, LargeDataApart, LargeImplements, PTL

------------------------------------------------------------------------------
(* alloc_check.                                                            *)

(* An entry of a list: its list, its bucket and its place, and the page.   *)
Slot(at, pg) ==
    \/ \E k \in DOMAIN pool.small_free : at = <<"small_free", 0, k>> /\ pg = pool.small_free[k]
    \/ \E k \in DOMAIN pool.large_free : at = <<"large_free", 0, k>> /\ pg = pool.large_free[k]
    \/ \E b \in Al!Buckets : \E k \in DOMAIN pool.page_list[b] :
          at = <<"page_list", b, k>> /\ pg = pool.page_list[b][k]
    \/ \E b \in Al!Buckets : \E k \in DOMAIN pool.full_list[b] :
          at = <<"full_list", b, k>> /\ pg = pool.full_list[b][k]

LEMMA PlacesAre ==
    ASSUME NEW c
    PROVE  c \in Al!Places <=>
             \/ c \in Al!OnList("small_free", 0, pool.small_free)
             \/ c \in Al!OnList("large_free", 0, pool.large_free)
             \/ \E b \in Al!Buckets : c \in Al!OnList("page_list", b, pool.page_list[b])
             \/ \E b \in Al!Buckets : c \in Al!OnList("full_list", b, pool.full_list[b])
             \/ \E k \in DOMAIN pool.huge :
                   c = [at |-> <<"huge", 0, k>>, pgs |-> Al!PagesIn(pool.huge[k])]
  <1>. DEFINE small == Al!OnList("small_free", 0, pool.small_free)
              large == Al!OnList("large_free", 0, pool.large_free)
              some(b) == Al!OnList("page_list", b, pool.page_list[b])
              full(b) == Al!OnList("full_list", b, pool.full_list[b])
              run(k) == [at |-> <<"huge", 0, k>>, pgs |-> Al!PagesIn(pool.huge[k])]
  <1>1. Al!Places = small \cup large \cup (UNION {some(b) : b \in Al!Buckets})
                      \cup (UNION {full(b) : b \in Al!Buckets})
                      \cup {run(k) : k \in DOMAIN pool.huge}
    BY DEF Al!Places
  <1>2. c \in Al!Places <=>
          \/ c \in small
          \/ c \in large
          \/ \E b \in Al!Buckets : c \in some(b)
          \/ \E b \in Al!Buckets : c \in full(b)
          \/ \E k \in DOMAIN pool.huge : c = run(k)
    <2>. HIDE DEF small, large, some, full, run
    <2>. DEFINE A == UNION {some(b) : b \in Al!Buckets}
                B == UNION {full(b) : b \in Al!Buckets}
                C == {run(k) : k \in DOMAIN pool.huge}
    <2>1. c \in A <=> \E b \in Al!Buckets : c \in some(b)
      OBVIOUS
    <2>2. c \in B <=> \E b \in Al!Buckets : c \in full(b)
      OBVIOUS
    <2>3. c \in C <=> \E k \in DOMAIN pool.huge : c = run(k)
      OBVIOUS
    <2>4. Al!Places = small \cup large \cup A \cup B \cup C
      BY <1>1
    <2>. HIDE DEF A, B, C
    <2>. QED
      BY <2>1, <2>2, <2>3, <2>4
  <1>. QED
    BY <1>2

LEMMA PlaceIs ==
    ASSUME NEW c \in Al!Places
    PROVE  \/ \E at, pg : Slot(at, pg) /\ c = [at |-> at, pgs |-> Al!Covers(pg)]
           \/ \E k \in DOMAIN pool.huge :
                 c = [at |-> <<"huge", 0, k>>, pgs |-> Al!PagesIn(pool.huge[k])]
  <1>1. ASSUME NEW name, NEW b, NEW xs, c \in Al!OnList(name, b, xs)
        PROVE  \E k \in DOMAIN xs : c = [at |-> <<name, b, k>>, pgs |-> Al!Covers(xs[k])]
    BY <1>1 DEF Al!OnList
  <1>2. CASE c \in Al!OnList("small_free", 0, pool.small_free)
    <2>1. PICK k \in DOMAIN pool.small_free :
             c = [at |-> <<"small_free", 0, k>>, pgs |-> Al!Covers(pool.small_free[k])]
      BY <1>1, <1>2
    <2>2. Slot(<<"small_free", 0, k>>, pool.small_free[k])
      BY DEF Slot
    <2>. QED
      BY <2>1, <2>2
  <1>3. CASE c \in Al!OnList("large_free", 0, pool.large_free)
    <2>1. PICK k \in DOMAIN pool.large_free :
             c = [at |-> <<"large_free", 0, k>>, pgs |-> Al!Covers(pool.large_free[k])]
      BY <1>1, <1>3
    <2>2. Slot(<<"large_free", 0, k>>, pool.large_free[k])
      BY DEF Slot
    <2>. QED
      BY <2>1, <2>2
  <1>4. ASSUME NEW b \in Al!Buckets, c \in Al!OnList("page_list", b, pool.page_list[b])
        PROVE  \E at, pg : Slot(at, pg) /\ c = [at |-> at, pgs |-> Al!Covers(pg)]
    <2>1. PICK k \in DOMAIN pool.page_list[b] :
             c = [at |-> <<"page_list", b, k>>, pgs |-> Al!Covers(pool.page_list[b][k])]
      BY <1>1, <1>4
    <2>2. Slot(<<"page_list", b, k>>, pool.page_list[b][k])
      BY DEF Slot
    <2>. QED
      BY <2>1, <2>2
  <1>5. ASSUME NEW b \in Al!Buckets, c \in Al!OnList("full_list", b, pool.full_list[b])
        PROVE  \E at, pg : Slot(at, pg) /\ c = [at |-> at, pgs |-> Al!Covers(pg)]
    <2>1. PICK k \in DOMAIN pool.full_list[b] :
             c = [at |-> <<"full_list", b, k>>, pgs |-> Al!Covers(pool.full_list[b][k])]
      BY <1>1, <1>5
    <2>2. Slot(<<"full_list", b, k>>, pool.full_list[b][k])
      BY DEF Slot
    <2>. QED
      BY <2>1, <2>2
  <1>6. \/ c \in Al!OnList("small_free", 0, pool.small_free)
        \/ c \in Al!OnList("large_free", 0, pool.large_free)
        \/ \E b \in Al!Buckets : c \in Al!OnList("page_list", b, pool.page_list[b])
        \/ \E b \in Al!Buckets : c \in Al!OnList("full_list", b, pool.full_list[b])
        \/ \E k \in DOMAIN pool.huge :
              c = [at |-> <<"huge", 0, k>>, pgs |-> Al!PagesIn(pool.huge[k])]
    BY PlacesAre
  <1>. QED
    BY <1>2, <1>3, <1>4, <1>5, <1>6

LEMMA SlotPlace ==
    ASSUME NEW at, NEW pg, Slot(at, pg)
    PROVE  [at |-> at, pgs |-> Al!Covers(pg)] \in Al!Places
  <1>1. ASSUME NEW name, NEW b, NEW xs, NEW k \in DOMAIN xs
        PROVE  [at |-> <<name, b, k>>, pgs |-> Al!Covers(xs[k])] \in Al!OnList(name, b, xs)
    BY DEF Al!OnList
  <1>2. ASSUME NEW k \in DOMAIN pool.small_free, at = <<"small_free", 0, k>>,
               pg = pool.small_free[k]
        PROVE  [at |-> at, pgs |-> Al!Covers(pg)] \in Al!Places
    <2>1. [at |-> at, pgs |-> Al!Covers(pg)] \in Al!OnList("small_free", 0, pool.small_free)
      BY <1>1, <1>2
    <2>. QED
      BY <2>1, PlacesAre
  <1>3. ASSUME NEW k \in DOMAIN pool.large_free, at = <<"large_free", 0, k>>,
               pg = pool.large_free[k]
        PROVE  [at |-> at, pgs |-> Al!Covers(pg)] \in Al!Places
    <2>1. [at |-> at, pgs |-> Al!Covers(pg)] \in Al!OnList("large_free", 0, pool.large_free)
      BY <1>1, <1>3
    <2>. QED
      BY <2>1, PlacesAre
  <1>4. ASSUME NEW b \in Al!Buckets, NEW k \in DOMAIN pool.page_list[b],
               at = <<"page_list", b, k>>, pg = pool.page_list[b][k]
        PROVE  [at |-> at, pgs |-> Al!Covers(pg)] \in Al!Places
    <2>1. [at |-> at, pgs |-> Al!Covers(pg)] \in Al!OnList("page_list", b, pool.page_list[b])
      BY <1>1, <1>4
    <2>. QED
      BY <2>1, PlacesAre
  <1>5. ASSUME NEW b \in Al!Buckets, NEW k \in DOMAIN pool.full_list[b],
               at = <<"full_list", b, k>>, pg = pool.full_list[b][k]
        PROVE  [at |-> at, pgs |-> Al!Covers(pg)] \in Al!Places
    <2>1. [at |-> at, pgs |-> Al!Covers(pg)] \in Al!OnList("full_list", b, pool.full_list[b])
      BY <1>1, <1>5
    <2>. QED
      BY <2>1, PlacesAre
  <1>. QED
    BY <1>2, <1>3, <1>4, <1>5 DEF Slot

LEMMA RunPlace ==
    ASSUME NEW k \in DOMAIN pool.huge
    PROVE  [at |-> <<"huge", 0, k>>, pgs |-> Al!PagesIn(pool.huge[k])] \in Al!Places
  BY PlacesAre

(* The state of a page tells which list names it, and where.               *)
LEMMA SlotIs ==
    ASSUME LargeInv, NEW at, NEW pg, Slot(at, pg)
    PROVE  /\ pg \in FreePages(pool) \cup DOMAIN pool.objs
           /\ pg \in Usable /\ Home(pool, pg) = pg
           /\ \A bt : Slot(bt, pg) => bt = at
  <1>1. /\ FreeListed(pool) /\ Objected(pool) /\ Bucketed(pool) /\ Shared(pool, {})
        /\ Typed(pool)
    BY DEF LargeInv, PoolSound
  <1>. DEFINE S == pool.small_free
              L == pool.large_free
              P(b) == pool.page_list[b]
              F(b) == pool.full_list[b]
              s(bt, k) == bt = <<"small_free", 0, k>> /\ pg = S[k]
              l(bt, k) == bt = <<"large_free", 0, k>> /\ pg = L[k]
              p(bt, b, k) == bt = <<"page_list", b, k>> /\ pg = P(b)[k]
              f(bt, b, k) == bt = <<"full_list", b, k>> /\ pg = F(b)[k]
  <1>2. ASSUME NEW bt, NEW k \in DOMAIN S, s(bt, k)
        PROVE  pg \in Names(S) /\ pg \notin DOMAIN pool.objs /\ ~ IsLarge(pool, pg) /\ pg \in Usable
    BY <1>1, <1>2 DEF Names, FreeListed, Shared, FreePages
  <1>3. ASSUME NEW bt, NEW k \in DOMAIN L, l(bt, k)
        PROVE  /\ pg \in Names(L) /\ pg \notin DOMAIN pool.objs /\ IsLarge(pool, pg)
               /\ pg \in Usable /\ pg = Al!FirstOf(Al!LargeOf(pg))
    BY <1>1, <1>3 DEF Names, FreeListed, Shared, FreePages
  <1>4. ASSUME NEW bt, NEW b \in Al!Buckets, NEW k \in DOMAIN P(b), p(bt, b, k)
        PROVE  /\ pg \in DOMAIN pool.objs /\ pool.objs[pg].bucket = b
               /\ pool.used[pg] # Al!PerPage[b]
    <2>1. pg \in Names(P(b))
      BY <1>4 DEF Names
    <2>. QED
      BY <1>1, <2>1 DEF Bucketed
  <1>5. ASSUME NEW bt, NEW b \in Al!Buckets, NEW k \in DOMAIN F(b), f(bt, b, k)
        PROVE  /\ pg \in DOMAIN pool.objs /\ pool.objs[pg].bucket = b
               /\ pool.used[pg] = Al!PerPage[b]
    <2>1. pg \in Names(F(b))
      BY <1>5 DEF Names
    <2>. QED
      BY <1>1, <2>1 DEF Bucketed
  <1>6. \A bt : Slot(bt, pg) => \/ \E k \in DOMAIN S : s(bt, k)
                                \/ \E k \in DOMAIN L : l(bt, k)
                                \/ \E b \in Al!Buckets : \E k \in DOMAIN P(b) : p(bt, b, k)
                                \/ \E b \in Al!Buckets : \E k \in DOMAIN F(b) : f(bt, b, k)
    BY DEF Slot
  <1>7. pg \in FreePages(pool) \cup DOMAIN pool.objs /\ pg \in Usable /\ Home(pool, pg) = pg
    <2>. HIDE DEF s, l, p, f
    <2>1. \/ \E k \in DOMAIN S : s(at, k)
          \/ \E k \in DOMAIN L : l(at, k)
          \/ \E b \in Al!Buckets : \E k \in DOMAIN P(b) : p(at, b, k)
          \/ \E b \in Al!Buckets : \E k \in DOMAIN F(b) : f(at, b, k)
      BY <1>6
    <2>2. CASE \E k \in DOMAIN S : s(at, k)
      <3>1. pg \in Names(S) /\ ~ IsLarge(pool, pg) /\ pg \in Usable
        BY <1>2, <2>2
      <3>. QED
        BY <3>1 DEF FreePages, Home
    <2>3. CASE \E k \in DOMAIN L : l(at, k)
      <3>1. pg \in Names(L) /\ pg \in Usable /\ pg = Al!FirstOf(Al!LargeOf(pg))
        BY <1>3, <2>3
      <3>. QED
        BY <3>1 DEF FreePages, Home
    <2>4. CASE \/ \E b \in Al!Buckets : \E k \in DOMAIN P(b) : p(at, b, k)
               \/ \E b \in Al!Buckets : \E k \in DOMAIN F(b) : f(at, b, k)
      <3>1. pg \in DOMAIN pool.objs
        BY <1>4, <1>5, <2>4
      <3>. QED
        BY <1>1, <3>1 DEF Objected
    <2>. QED
      BY <2>1, <2>2, <2>3, <2>4
  <1>8. ASSUME NEW bt, Slot(bt, pg)
        PROVE  bt = at
    <2>. HIDE DEF s, l, p, f
    <2>1. /\ \/ \E k \in DOMAIN S : s(at, k)
             \/ \E k \in DOMAIN L : l(at, k)
             \/ \E b \in Al!Buckets : \E k \in DOMAIN P(b) : p(at, b, k)
             \/ \E b \in Al!Buckets : \E k \in DOMAIN F(b) : f(at, b, k)
          /\ \/ \E k \in DOMAIN S : s(bt, k)
             \/ \E k \in DOMAIN L : l(bt, k)
             \/ \E b \in Al!Buckets : \E k \in DOMAIN P(b) : p(bt, b, k)
             \/ \E b \in Al!Buckets : \E k \in DOMAIN F(b) : f(bt, b, k)
      BY <1>6, <1>8
    <2>2. CASE (\E k \in DOMAIN S : s(at, k)) /\ (\E k \in DOMAIN S : s(bt, k))
      <3>1. PICK k \in DOMAIN S : s(at, k)
        BY <2>2
      <3>2. PICK j \in DOMAIN S : s(bt, j)
        BY <2>2
      <3>3. k = j
        BY <1>1, <3>1, <3>2 DEF FreeListed, Once, s
      <3>. QED
        BY <3>1, <3>2, <3>3 DEF s
    <2>3. CASE (\E k \in DOMAIN L : l(at, k)) /\ (\E k \in DOMAIN L : l(bt, k))
      <3>1. PICK k \in DOMAIN L : l(at, k)
        BY <2>3
      <3>2. PICK j \in DOMAIN L : l(bt, j)
        BY <2>3
      <3>3. k = j
        BY <1>1, <3>1, <3>2 DEF FreeListed, Once, l
      <3>. QED
        BY <3>1, <3>2, <3>3 DEF l
    <2>4. CASE /\ \E b \in Al!Buckets : \E k \in DOMAIN P(b) : p(at, b, k)
               /\ \E b \in Al!Buckets : \E k \in DOMAIN P(b) : p(bt, b, k)
      <3>1. PICK b \in Al!Buckets : \E k \in DOMAIN P(b) : p(at, b, k)
        BY <2>4
      <3>2. PICK k \in DOMAIN P(b) : p(at, b, k)
        BY <3>1
      <3>3. PICK d \in Al!Buckets : \E j \in DOMAIN P(d) : p(bt, d, j)
        BY <2>4
      <3>4. PICK j \in DOMAIN P(d) : p(bt, d, j)
        BY <3>3
      <3>5. b = d
        BY <1>4, <3>2, <3>4
      <3>6. k = j
        BY <1>1, <3>2, <3>4, <3>5 DEF Bucketed, Once, p
      <3>. QED
        BY <3>2, <3>4, <3>5, <3>6 DEF p
    <2>5. CASE /\ \E b \in Al!Buckets : \E k \in DOMAIN F(b) : f(at, b, k)
               /\ \E b \in Al!Buckets : \E k \in DOMAIN F(b) : f(bt, b, k)
      <3>1. PICK b \in Al!Buckets : \E k \in DOMAIN F(b) : f(at, b, k)
        BY <2>5
      <3>2. PICK k \in DOMAIN F(b) : f(at, b, k)
        BY <3>1
      <3>3. PICK d \in Al!Buckets : \E j \in DOMAIN F(d) : f(bt, d, j)
        BY <2>5
      <3>4. PICK j \in DOMAIN F(d) : f(bt, d, j)
        BY <3>3
      <3>5. b = d
        BY <1>5, <3>2, <3>4
      <3>6. k = j
        BY <1>1, <3>2, <3>4, <3>5 DEF Bucketed, Once, f
      <3>. QED
        BY <3>2, <3>4, <3>5, <3>6 DEF f
    <2>6. \A ct : /\ (\E k \in DOMAIN S : s(ct, k)) =>
                        pg \notin DOMAIN pool.objs /\ ~ IsLarge(pool, pg)
                  /\ (\E k \in DOMAIN L : l(ct, k)) =>
                        pg \notin DOMAIN pool.objs /\ IsLarge(pool, pg)
                  /\ (\E b \in Al!Buckets : \E k \in DOMAIN P(b) : p(ct, b, k)) =>
                        /\ pg \in DOMAIN pool.objs
                        /\ pool.used[pg] # Al!PerPage[pool.objs[pg].bucket]
                  /\ (\E b \in Al!Buckets : \E k \in DOMAIN F(b) : f(ct, b, k)) =>
                        /\ pg \in DOMAIN pool.objs
                        /\ pool.used[pg] = Al!PerPage[pool.objs[pg].bucket]
      BY <1>2, <1>3, <1>4, <1>5
    <2>. QED
      BY <2>1, <2>2, <2>3, <2>4, <2>5, <2>6
  <1>. QED
    BY <1>7, <1>8

LEMMA SlotAt ==
    ASSUME LargeInv, NEW pg \in FreePages(pool) \cup DOMAIN pool.objs
    PROVE  \E at : Slot(at, pg)
  <1>1. Objected(pool) /\ Bucketed(pool) /\ Typed(pool)
    BY DEF LargeInv, PoolSound
  <1>2. CASE pg \in Names(pool.small_free)
    <2>1. PICK k \in DOMAIN pool.small_free : pg = pool.small_free[k]
      BY <1>2 DEF Names
    <2>2. Slot(<<"small_free", 0, k>>, pg)
      BY <2>1 DEF Slot
    <2>. QED
      BY <2>2
  <1>3. CASE pg \in Names(pool.large_free)
    <2>1. PICK k \in DOMAIN pool.large_free : pg = pool.large_free[k]
      BY <1>3 DEF Names
    <2>2. Slot(<<"large_free", 0, k>>, pg)
      BY <2>1 DEF Slot
    <2>. QED
      BY <2>2
  <1>4. CASE pg \in DOMAIN pool.objs
    <2>. DEFINE b == pool.objs[pg].bucket
    <2>1. b \in Al!Buckets
      BY <1>1, <1>4 DEF Typed, ObjType
    <2>2. pg \in Names(pool.page_list[b]) \/ pg \in Names(pool.full_list[b])
      BY <1>1, <1>4, <2>1 DEF Bucketed
    <2>. HIDE DEF b
    <2>3. CASE pg \in Names(pool.page_list[b])
      <3>1. PICK k \in DOMAIN pool.page_list[b] : pg = pool.page_list[b][k]
        BY <2>3 DEF Names
      <3>2. Slot(<<"page_list", b, k>>, pg)
        BY <2>1, <3>1 DEF Slot
      <3>. QED
        BY <3>2
    <2>4. CASE pg \in Names(pool.full_list[b])
      <3>1. PICK k \in DOMAIN pool.full_list[b] : pg = pool.full_list[b][k]
        BY <2>4 DEF Names
      <3>2. Slot(<<"full_list", b, k>>, pg)
        BY <2>1, <3>1 DEF Slot
      <3>. QED
        BY <3>2
    <2>. QED
      BY <2>2, <2>3, <2>4
  <1>. QED
    BY <1>2, <1>3, <1>4 DEF FreePages

LEMMA CoversIs ==
    ASSUME pool.large \subseteq Larges, NEW pg \in Usable, Home(pool, pg) = pg
    PROVE  Al!Covers(pg) = {q \in Usable : Home(pool, q) = pg}
  <1>1. CASE IsLarge(pool, pg)
    <2>1. Al!Covers(pg) = Al!SmallPagesOf(Al!LargeOf(pg))
      BY <1>1 DEF Al!Covers, IsLarge
    <2>2. /\ Al!SmallPagesOf(Al!LargeOf(pg)) \subseteq Usable
          /\ \A q \in Al!SmallPagesOf(Al!LargeOf(pg)) : Home(pool, q) = Home(pool, pg)
          /\ \A q \in Nat : q \in Al!SmallPagesOf(Al!LargeOf(pg)) <=> Al!LargeOf(q) = Al!LargeOf(pg)
      BY <1>1, LargeUsable
    <2>3. ASSUME NEW q \in Usable, Home(pool, q) = pg
          PROVE  q \in Al!SmallPagesOf(Al!LargeOf(pg))
      <3>1. q \in Nat /\ Al!LargeOf(Home(pool, q)) = Al!LargeOf(q)
        BY HomeIs
      <3>. QED
        BY <2>2, <2>3, <3>1
    <2>. QED
      BY <2>1, <2>2, <2>3
  <1>2. CASE ~ IsLarge(pool, pg)
    <2>1. Al!Covers(pg) = {pg}
      BY <1>2 DEF Al!Covers, IsLarge
    <2>2. ASSUME NEW q \in Usable, Home(pool, q) = pg
          PROVE  q = pg
      <3>1. /\ IsLarge(pool, Home(pool, q)) <=> IsLarge(pool, q)
            /\ ~ IsLarge(pool, q) => Home(pool, q) = q
        BY HomeIs
      <3>. QED
        BY <1>2, <2>2, <3>1
    <2>. QED
      BY <2>1, <2>2
  <1>. QED
    BY <1>1, <1>2

(* A page is in a run exactly if its home is.                              *)
LEMMA RunHomes ==
    ASSUME LargeInv, NEW r \in Names(pool.huge), NEW q \in Usable
    PROVE  q \in Al!PagesIn(r) <=> Home(pool, q) \in Al!PagesIn(r)
  <1>1. Row(pool, r) /\ pool.large \subseteq Larges
    BY DEF LargeInv, PoolSound, Rowed, Typed
  <1>2. CASE ~ IsLarge(pool, q)
    BY <1>2 DEF Home
  <1>3. CASE IsLarge(pool, q)
    <2>. DEFINE h == Home(pool, q)
                l == Al!LargeOf(q)
    <2>1. /\ h \in Al!SmallPagesOf(l) /\ q \in Al!SmallPagesOf(l)
          /\ Al!LargeOf(h) = l /\ IsLarge(pool, h)
      BY <1>1, <1>3, LargeUsable
    <2>2. \A p \in Al!PagesIn(r) : IsLarge(pool, p) =>
             Al!SmallPagesOf(Al!LargeOf(p)) \subseteq Al!PagesIn(r)
      BY <1>1 DEF Row
    <2>. HIDE DEF h, l
    <2>3. Al!LargeOf(q) = l
      BY DEF l
    <2>4. q \in Al!PagesIn(r) <=> h \in Al!PagesIn(r)
      BY <1>3, <2>1, <2>2, <2>3
    <2>. QED
      BY <2>4 DEF h
  <1>. QED
    BY <1>2, <1>3

LEMMA PlacesApart ==
    ASSUME LargeInv, NEW c \in Al!Places, NEW d \in Al!Places, c.at # d.at
    PROVE  c.pgs \cap d.pgs = {}
  <1>1. /\ pool.large \subseteq Larges /\ Shared(pool, {}) /\ Rowed(pool)
    BY DEF LargeInv, PoolSound, Typed
  <1>2. ASSUME NEW x, NEW at, NEW pg, Slot(at, pg), x = [at |-> at, pgs |-> Al!Covers(pg)]
        PROVE  /\ x.at = at /\ x.pgs = {q \in Usable : Home(pool, q) = pg}
               /\ pg \notin InRuns(pool)
    <2>1. pg \in FreePages(pool) \cup DOMAIN pool.objs /\ pg \in Usable /\ Home(pool, pg) = pg
      BY <1>2, SlotIs
    <2>2. x.at = at /\ x.pgs = Al!Covers(pg)
      BY <1>2
    <2>. QED
      BY <1>1, <2>1, <2>2, CoversIs DEF Shared
  <1>3. ASSUME NEW x, NEW k \in DOMAIN pool.huge,
               x = [at |-> <<"huge", 0, k>>, pgs |-> Al!PagesIn(pool.huge[k])]
        PROVE  /\ x.at = <<"huge", 0, k>> /\ x.pgs = Al!PagesIn(pool.huge[k])
               /\ pool.huge[k] \in Names(pool.huge)
    BY <1>3 DEF Names
  <1>4. ASSUME NEW x, NEW at, NEW pg, Slot(at, pg), x = [at |-> at, pgs |-> Al!Covers(pg)],
               NEW y, NEW k \in DOMAIN pool.huge,
               y = [at |-> <<"huge", 0, k>>, pgs |-> Al!PagesIn(pool.huge[k])]
        PROVE  x.pgs \cap y.pgs = {}
    <2>. SUFFICES ASSUME NEW q \in x.pgs, q \in y.pgs
                  PROVE  FALSE
      OBVIOUS
    <2>1. q \in Usable /\ Home(pool, q) = pg /\ pg \notin InRuns(pool)
      BY <1>2, <1>4
    <2>2. q \in Al!PagesIn(pool.huge[k]) /\ pool.huge[k] \in Names(pool.huge)
      BY <1>3, <1>4
    <2>3. pg \in Al!PagesIn(pool.huge[k])
      BY <2>1, <2>2, RunHomes
    <2>. QED
      BY <2>1, <2>2, <2>3 DEF InRuns
  <1>5. /\ \/ \E at, pg : Slot(at, pg) /\ c = [at |-> at, pgs |-> Al!Covers(pg)]
           \/ \E k \in DOMAIN pool.huge :
                 c = [at |-> <<"huge", 0, k>>, pgs |-> Al!PagesIn(pool.huge[k])]
        /\ \/ \E at, pg : Slot(at, pg) /\ d = [at |-> at, pgs |-> Al!Covers(pg)]
           \/ \E k \in DOMAIN pool.huge :
                 d = [at |-> <<"huge", 0, k>>, pgs |-> Al!PagesIn(pool.huge[k])]
    BY PlaceIs
  <1>6. ASSUME NEW at, NEW pg, Slot(at, pg), c = [at |-> at, pgs |-> Al!Covers(pg)],
               NEW bt, NEW qg, Slot(bt, qg), d = [at |-> bt, pgs |-> Al!Covers(qg)]
        PROVE  c.pgs \cap d.pgs = {}
    <2>1. c.at = at /\ c.pgs = {q \in Usable : Home(pool, q) = pg}
      BY <1>2, <1>6
    <2>2. d.at = bt /\ d.pgs = {q \in Usable : Home(pool, q) = qg}
      BY <1>2, <1>6
    <2>3. at # bt
      BY <2>1, <2>2
    <2>4. pg # qg
      BY <1>6, <2>3, SlotIs
    <2>. QED
      BY <2>1, <2>2, <2>4
  <1>7. ASSUME NEW k \in DOMAIN pool.huge,
               c = [at |-> <<"huge", 0, k>>, pgs |-> Al!PagesIn(pool.huge[k])],
               NEW j \in DOMAIN pool.huge,
               d = [at |-> <<"huge", 0, j>>, pgs |-> Al!PagesIn(pool.huge[j])]
        PROVE  c.pgs \cap d.pgs = {}
    <2>1. /\ c.at = <<"huge", 0, k>> /\ c.pgs = Al!PagesIn(pool.huge[k])
          /\ pool.huge[k] \in Names(pool.huge)
      BY <1>3, <1>7
    <2>2. /\ d.at = <<"huge", 0, j>> /\ d.pgs = Al!PagesIn(pool.huge[j])
          /\ pool.huge[j] \in Names(pool.huge)
      BY <1>3, <1>7
    <2>3. k # j
      BY <2>1, <2>2
    <2>4. pool.huge[k] # pool.huge[j]
      BY <1>1, <2>3 DEF Rowed, Once
    <2>. QED
      BY <1>1, <2>1, <2>2, <2>4 DEF Rowed
  <1>. QED
    BY <1>4, <1>5, <1>6, <1>7

LEMMA PlacesCover ==
    ASSUME LargeInv
    PROVE  UNION {c.pgs : c \in Al!Places} = Usable
  <1>1. /\ pool.large \subseteq Larges /\ Shared(pool, {}) /\ Rowed(pool)
    BY DEF LargeInv, PoolSound, Typed
  <1>2. ASSUME NEW c \in Al!Places
        PROVE  c.pgs \subseteq Usable
    <2>1. ASSUME NEW at, NEW pg, Slot(at, pg), c = [at |-> at, pgs |-> Al!Covers(pg)]
          PROVE  c.pgs \subseteq Usable
      <3>1. pg \in Usable /\ Home(pool, pg) = pg
        BY <2>1, SlotIs
      <3>2. c.pgs = Al!Covers(pg)
        BY <2>1
      <3>. QED
        BY <1>1, <3>1, <3>2, CoversIs
    <2>2. ASSUME NEW k \in DOMAIN pool.huge,
                 c = [at |-> <<"huge", 0, k>>, pgs |-> Al!PagesIn(pool.huge[k])]
          PROVE  c.pgs \subseteq Usable
      <3>1. c.pgs = Al!PagesIn(pool.huge[k]) /\ pool.huge[k] \in Names(pool.huge)
        BY <2>2 DEF Names
      <3>. QED
        BY <1>1, <3>1 DEF Rowed, Row
    <2>. QED
      BY <2>1, <2>2, PlaceIs
  <1>3. ASSUME NEW q \in Usable
        PROVE  \E c \in Al!Places : q \in c.pgs
    <2>. DEFINE h == Home(pool, q)
    <2>1. h \in Usable /\ Home(pool, h) = h
      BY <1>1, HomeIs
    <2>2. h \in FreePages(pool) \cup DOMAIN pool.objs \/ h \in InRuns(pool)
      BY <1>1, <2>1 DEF Shared
    <2>3. CASE h \in FreePages(pool) \cup DOMAIN pool.objs
      <3>1. PICK at : Slot(at, h)
        BY <2>3, SlotAt
      <3>. DEFINE c == [at |-> at, pgs |-> Al!Covers(h)]
      <3>2. c \in Al!Places
        BY <3>1, SlotPlace
      <3>3. q \in c.pgs
        <4>1. Al!Covers(h) = {p \in Usable : Home(pool, p) = h}
          <5>. HIDE DEF h
          <5>. QED
            BY <1>1, <2>1, CoversIs
        <4>. QED
          BY <4>1
      <3>. HIDE DEF c
      <3>. QED
        BY <3>2, <3>3
    <2>4. CASE h \in InRuns(pool)
      <3>1. PICK r \in Names(pool.huge) : h \in Al!PagesIn(r)
        BY <2>4 DEF InRuns
      <3>2. PICK k \in DOMAIN pool.huge : r = pool.huge[k]
        BY DEF Names
      <3>. DEFINE c == [at |-> <<"huge", 0, k>>, pgs |-> Al!PagesIn(pool.huge[k])]
      <3>3. c \in Al!Places
        BY RunPlace
      <3>4. q \in c.pgs
        BY <3>1, <3>2, RunHomes
      <3>. HIDE DEF c
      <3>. QED
        BY <3>3, <3>4
    <2>. QED
      BY <2>2, <2>3, <2>4
  <1>. QED
    BY <1>2, <1>3

LEMMA DivisionRest ==
    ASSUME NEW x \in Nat, NEW m \in Nat \ {0}
    PROVE  x = m * (x \div m) + (x % m)
  BY Z3

(* A pool of whole large pages has no others.                              *)
LEMMA WholePool ==
    ASSUME LargePool % Al!LargeSize = 0
    PROVE  Al!Pages = WholeSmall
  <1>. DEFINE L == Al!LargeSize
              n == NumWhole * PerLarge
              e == n * Small
  <1>1. /\ L \in Nat \ {0} /\ LargePool \in Nat /\ Small \in Nat \ {0} /\ PerLarge \in Nat
        /\ L = Small * PerLarge /\ NumWhole \in Nat /\ n \in Nat /\ n - 1 <= LastPage
        /\ LastPage \in Nat /\ LastPage * Small < LargePool
        /\ LargePool > L
    BY LargeAssumed, PageSizes, PagesAre
  <1>2. LargePool = NumWhole * L
    <2>. HIDE DEF L
    <2>1. LargePool = L * (LargePool \div L) + (LargePool % L)
      BY <1>1, DivisionRest
    <2>2. LargePool % L = 0
      BY DEF L
    <2>3. NumWhole = LargePool \div L
      BY DEF NumWhole, L
    <2>4. L * NumWhole = NumWhole * L
      BY <1>1, Z3
    <2>5. L * NumWhole \in Nat
      BY <1>1, Z3
    <2>. QED
      BY <2>1, <2>2, <2>3, <2>4, <2>5
  <1>3. e = LargePool
    <2>1. e = NumWhole * (PerLarge * Small)
      BY <1>1, Products
    <2>2. PerLarge * Small = Small * PerLarge
      BY <1>1, Z3
    <2>. QED
      BY <1>1, <1>2, <2>1, <2>2
  <1>4. LastPage < n
    <2>1. LastPage * Small < n * Small
      BY <1>1, <1>3
    <2>. QED
      BY <1>1, <2>1, Products
  <1>5. LastPage = n - 1
    <2>. HIDE DEF n
    <2>. QED
      BY <1>1, <1>4
  <1>. QED
    BY <1>5, PagesAre DEF WholeSmall

LEMMA BucketsChecked ==
    ASSUME LargeInv, NEW b \in Al!Buckets
    PROVE  Al!check_bucket(b)
  <1>1. Objected(pool) /\ Bucketed(pool) /\ Busy(pool, {})
    BY DEF LargeInv, PoolSound
  <1>. DEFINE n == Al!PerPage[b]
  <1>. SUFFICES ASSUME NEW pg \in Names(pool.page_list[b]) \cup Names(pool.full_list[b])
                PROVE  /\ Al!LargeOf(pg) \in pool.large <=> Al!large_page_bucket(b)
                       /\ pool.objs[pg].bucket = b
                       /\ pool.used[pg] = Cardinality(pool.objs[pg].bits)
                       /\ pool.objs[pg].bits \subseteq 0..(n - 1)
                       /\ IF pg \in Names(pool.page_list[b])
                          THEN pool.used[pg] \in 1..(n - 1)
                          ELSE pool.used[pg] = n
    BY SameRange, LargeCardinality DEF Al!check_bucket
  <1>2. /\ pg \in DOMAIN pool.objs /\ pool.objs[pg].bucket = b
        /\ pg \in Names(pool.page_list[b]) => pool.used[pg] # n
        /\ pg \notin Names(pool.page_list[b]) => pool.used[pg] = n
    BY <1>1 DEF Bucketed
  <1>. DEFINE B == pool.objs[pg].bits
              u == pool.used[pg]
  <1>3. /\ IsLarge(pool, pg) <=> Al!large_page_bucket(b)
        /\ B \subseteq 0..(n - 1) /\ u = Cardinality(B)
    BY <1>1, <1>2 DEF Objected
  <1>4. B # {}
    BY <1>1, <1>2 DEF Busy
  <1>5. n \in Nat \ {0}
    BY PageHolds
  <1>6. u \in Nat /\ u <= n /\ u # 0
    <2>. HIDE DEF B, u
    <2>1. B \subseteq 0..(Al!PerPage[b] - 1)
      BY <1>3
    <2>. QED
      BY <1>3, <1>4, <2>1, BitsAre
  <1>7. pg \in Names(pool.page_list[b]) => u \in 1..(n - 1)
    <2>. HIDE DEF n, u
    <2>1. u # n => u \in 1..(n - 1)
      BY <1>5, <1>6
    <2>. QED
      BY <1>2, <2>1 DEF u
  <1>. QED
    BY <1>2, <1>3, <1>7 DEF IsLarge

LEMMA ElementsBooked ==
    ASSUME LargeInv
    PROVE  UNION {{Al!Element(pg, pool.objs[pg].bucket, i) : i \in pool.objs[pg].bits}
                     : pg \in DOMAIN pool.objs}
             = (DOMAIN largeHeld \ {h.off : h \in Al!Range(pool.huge)})
                  \cup {h.ha : h \in Al!Range(pool.huge)}
  <1>. DEFINE U == UNION {{Al!Element(pg, pool.objs[pg].bucket, i) : i \in pool.objs[pg].bits}
                             : pg \in DOMAIN pool.objs}
              T == Taken(pool)
              R == Names(pool.huge)
              D == DOMAIN largeHeld
  <1>1. Booked(T, R, largeHeld) /\ Keyed(T, R)
    BY PoolKeyed DEF LargeInv
  <1>2. \A x : x \in U <=> \E b : <<x, b>> \in T
    <2>1. \A x : x \in U <=> \E pg \in DOMAIN pool.objs : \E i \in pool.objs[pg].bits :
                                x = Al!Element(pg, pool.objs[pg].bucket, i)
      OBVIOUS
    <2>2. \A x, b : <<x, b>> \in T <=>
             \E pg \in DOMAIN pool.objs : \E i \in pool.objs[pg].bits :
                x = Al!Element(pg, pool.objs[pg].bucket, i) /\ b = pool.objs[pg].bucket
      BY TakenIs
    <2>. HIDE DEF U, T
    <2>3. ASSUME NEW x, x \in U
          PROVE  \E b : <<x, b>> \in T
      <3>1. PICK pg \in DOMAIN pool.objs : \E i \in pool.objs[pg].bits :
                x = Al!Element(pg, pool.objs[pg].bucket, i)
        BY <2>1, <2>3
      <3>2. <<x, pool.objs[pg].bucket>> \in T
        BY <2>2, <3>1
      <3>. QED
        BY <3>2
    <2>4. ASSUME NEW x, NEW b, <<x, b>> \in T
          PROVE  x \in U
      BY <2>1, <2>2, <2>4, Zenon
    <2>. QED
      BY <2>3, <2>4
  <1>3. Al!Range(pool.huge) = R
    BY SameRange
  <1>. HIDE DEF U, T, R, D
  <1>4. ASSUME NEW x, NEW b, <<x, b>> \in T
        PROVE  x \in (D \ {h.off : h \in R}) \cup {h.ha : h \in R}
    <2>1. x \in D \/ \E r \in R : r.ha = x
      <3>1. <<x, b>>[1] \in D \/ \E r \in R : r.ha = <<x, b>>[1]
        BY <1>1, <1>4 DEF Booked, D
      <3>. QED
        BY <3>1
    <2>2. \A r \in R : r.off # x
      BY <1>1, <1>4 DEF Keyed
    <2>. QED
      BY <2>1, <2>2
  <1>5. ASSUME NEW x \in D, \A r \in R : r.off # x
        PROVE  \E b : <<x, b>> \in T
    BY <1>1, <1>5 DEF Booked, D
  <1>6. ASSUME NEW r \in R
        PROVE  \E b : <<r.ha, b>> \in T
    BY <1>1 DEF Booked
  <1>7. U = (D \ {h.off : h \in R}) \cup {h.ha : h \in R}
    <2>1. ASSUME NEW x \in U
          PROVE  x \in (D \ {h.off : h \in R}) \cup {h.ha : h \in R}
      BY <1>2, <1>4
    <2>2. ASSUME NEW x \in D \ {h.off : h \in R}
          PROVE  x \in U
      <3>1. \A r \in R : r.off # x
        OBVIOUS
      <3>. QED
        BY <1>2, <1>5, <3>1
    <2>3. ASSUME NEW r \in R
          PROVE  r.ha \in U
      BY <1>2, <1>6
    <2>. QED
      BY <2>1, <2>2, <2>3
  <1>. QED
    BY <1>3, <1>7 DEF U, D

LEMMA LargeIsChecked ==
    ASSUME LargeInv, LargePool % Al!LargeSize = 0
    PROVE  AllocCheck
  <1>1. Al!PagesAccounted
    <2>1. \A c, d \in Al!Places : c.at # d.at => c.pgs \cap d.pgs = {}
      BY PlacesApart
    <2>2. UNION {c.pgs : c \in Al!Places} = Al!Pages \ Al!HeaderPages
      <3>1. Al!Pages = WholeSmall
        BY WholePool
      <3>. QED
        BY <3>1, PlacesCover DEF Usable
    <2>3. FreeListed(pool)
      BY DEF LargeInv, PoolSound
    <2>4. \A pg \in Al!Range(pool.small_free) : Al!LargeOf(pg) \notin pool.large
      BY <2>3, SameRange DEF FreeListed, IsLarge
    <2>5. \A pg \in Al!Range(pool.large_free) : /\ Al!LargeOf(pg) \in pool.large
                                                /\ pg = Al!FirstOf(Al!LargeOf(pg))
      BY <2>3, SameRange DEF FreeListed, IsLarge
    <2>. QED
      BY <2>1, <2>2, <2>4, <2>5 DEF Al!PagesAccounted
  <1>2. \A b \in Al!Buckets : Al!check_bucket(b)
    BY BucketsChecked
  <1>. QED
    BY <1>1, <1>2, ElementsBooked DEF AllocCheck, Al!AllocCheck

(* What alloc_check of alloc.c looks for is so as long as nothing huge is  *)
(* asked for, where the pool is cut up into large pages: alloc_init puts a *)
(* rest that is shorter than one on no list, and alloc_check misses it.    *)
THEOREM LargePoolChecked ==
    ASSUME LargeFits, NothingHuge, LargePool % Al!LargeSize = 0
    PROVE  Spec => []AllocCheck
  <1>1. HugeLeftBusy
    BY NoRuns
  <1>2. Spec => []HugeRunsFree
    BY NoRuns, PTL
  <1>3. Spec /\ []HugeRunsFree => []LargeInv
    BY <1>1, LargePoolSound
  <1>4. LargeInv => AllocCheck
    BY LargeIsChecked
  <1>. QED
    BY <1>2, <1>3, <1>4, PTL

------------------------------------------------------------------------------
(* nofree.c behind a buffer.                                               *)
NoFreeFits == \A n \in NoFreeAsked : n + Word + NoFreeSize <= Modulus

NoFreeInv == Nf!TypeOK /\ Nf!BelowNext /\ NoFreeBuff + NoFreeHeader <= next

LEMMA NoFreeAssumed ==
    /\ Modulus \in Nat /\ NoFreeBuff \in Nat \ {0}
    /\ NoFreeSize \in Nat /\ NoFreeHeader \in Nat \ {0} /\ Word \in Nat \ {0}
    /\ NoFreeHeader < NoFreeSize
    /\ NoFreeBuff + NoFreeSize < Modulus
    /\ NoFreeAsked \subseteq 0..(Modulus - 1)
  BY BuffersAssumption DEF Nf!NoFreeConstants

LEMMA WrappedOnce ==
    ASSUME NEW m \in Nat \ {0}, NEW x \in Nat, x >= m, x - m < m
    PROVE  x % m = x - m
  BY Z3

(* A pointer the code accepts has moved up by the rounded size.            *)
LEMMA NoFreeMoves ==
    ASSUME NoFreeFits, NoFreeInv, NEW n \in NoFreeAsked, Nf!FitsIn(Nf!Stepped(n))
    PROVE  /\ Nf!nofree_align_up(n) \in Nat /\ n <= Nf!nofree_align_up(n)
           /\ Nf!nofree_align_up(n) < Modulus
           /\ Nf!Stepped(n) = next + Nf!nofree_align_up(n)
           /\ Nf!Stepped(n) \in NoFreeBuff..(NoFreeBuff + NoFreeSize)
           /\ next \in Nat /\ NoFreeBuff <= next /\ next <= NoFreeBuff + NoFreeSize
  <1>. DEFINE len == Nf!nofree_align_up(n)
              sum == n + Word - 1
              to == next + len
  <1>1. /\ n \in Nat /\ Modulus \in Nat \ {0}
        /\ sum \in Nat /\ sum < Modulus /\ sum + NoFreeSize < Modulus
        /\ next \in Nat /\ NoFreeBuff <= next /\ next <= NoFreeBuff + NoFreeSize
    BY NoFreeAssumed DEF NoFreeFits, NoFreeInv, Nf!TypeOK
  <1>2. sum % Modulus = sum /\ sum % Word \in 0..(Word - 1)
    <2>. HIDE DEF sum
    <2>1. sum % Modulus = sum
      BY <1>1, SmallRemainder
    <2>2. sum \in Int /\ Word \in Nat \ {0}
      BY <1>1, NoFreeAssumed
    <2>. QED
      BY <2>1, <2>2, RemainderRange
  <1>3. len = sum - (sum % Word)
    BY <1>2 DEF Nf!nofree_align_up
  <1>4. len \in Nat /\ n <= len /\ len + NoFreeSize < Modulus
    BY <1>1, <1>2, <1>3, NoFreeAssumed
  <1>. HIDE DEF len
  <1>5. Nf!Stepped(n) = to % Modulus /\ to \in Nat /\ to < Modulus + NoFreeBuff
    BY <1>1, <1>4, NoFreeAssumed DEF Nf!Stepped, len
  <1>6. CASE to < Modulus
    <2>1. Nf!Stepped(n) = to
      BY <1>1, <1>5, <1>6, SmallRemainder
    <2>. QED
      BY <1>1, <1>4, <1>5, <2>1, NoFreeAssumed DEF Nf!FitsIn, len
  <1>7. CASE to >= Modulus
    <2>1. to - Modulus \in Nat /\ to - Modulus < NoFreeBuff
      BY <1>1, <1>5, <1>7, NoFreeAssumed
    <2>2. to % Modulus = to - Modulus
      <3>. HIDE DEF to
      <3>1. to - Modulus < Modulus
        BY <1>1, <1>5, <2>1, NoFreeAssumed
      <3>. QED
        BY <1>1, <1>5, <1>7, <3>1, WrappedOnce
    <2>. QED
      BY <1>1, <1>5, <2>1, <2>2, NoFreeAssumed DEF Nf!FitsIn
  <1>. QED
    BY <1>1, <1>5, <1>6, <1>7, NoFreeAssumed

LEMMA NoFreeGives ==
    ASSUME NoFreeFits, NoFreeInv, NEW n \in NoFreeAsked, Nf!Alloc(n)
    PROVE  /\ NoFreeInv'
           /\ \E e \in Nf!Abs!Extents : Nf!Abs!Malloc(e)
  <1>. DEFINE len == Nf!nofree_align_up(n)
              e == [off |-> next - NoFreeBuff, len |-> len]
  <1>1. /\ len \in Nat /\ len > 0 /\ len < Modulus
        /\ next' = next + len /\ next' \in NoFreeBuff..(NoFreeBuff + NoFreeSize)
        /\ next \in Nat /\ NoFreeBuff + NoFreeHeader <= next
        /\ next <= NoFreeBuff + NoFreeSize
    <2>1. n \in Nat /\ n > 0 /\ Nf!FitsIn(Nf!Stepped(n)) /\ next' = Nf!Stepped(n)
      BY NoFreeAssumed DEF Nf!Alloc
    <2>2. /\ len \in Nat /\ n <= len /\ len < Modulus /\ Nf!Stepped(n) = next + len
          /\ Nf!Stepped(n) \in NoFreeBuff..(NoFreeBuff + NoFreeSize)
          /\ next \in Nat /\ next <= NoFreeBuff + NoFreeSize
      BY <2>1, NoFreeMoves
    <2>. HIDE DEF len
    <2>3. len > 0
      BY <2>1, <2>2
    <2>. QED
      BY <2>1, <2>2, <2>3 DEF NoFreeInv
  <1>2. live' = live \cup {e}
    BY DEF Nf!Alloc
  <1>3. len \in {Nf!nofree_align_up(m) : m \in NoFreeAsked}
    OBVIOUS
  <1>. HIDE DEF len
  <1>4. /\ e \in [off : 0..NoFreeSize, len : 0..(Modulus - 1)]
        /\ NoFreeHeader <= e.off /\ e.off + e.len = next' - NoFreeBuff
        /\ e.off + e.len <= NoFreeSize /\ e.off = next - NoFreeBuff /\ e.len = len
        /\ e.off \in 0..(NoFreeSize - 1)
    BY <1>1, NoFreeAssumed
  <1>5. \A f \in live : /\ f.off \in Nat /\ f.len \in Nat
                        /\ NoFreeHeader <= f.off /\ f.off + f.len <= next - NoFreeBuff
    BY NoFreeAssumed DEF NoFreeInv, Nf!TypeOK, Nf!BelowNext
  <1>6. \A f \in live : ~ Nf!Abs!Overlap(e, f)
    BY <1>1, <1>4, <1>5, NoFreeAssumed DEF Nf!Abs!Overlap
  <1>7. e \in Nf!Abs!Extents
    BY <1>3, <1>4 DEF Nf!Abs!Extents
  <1>8. Nf!Abs!Malloc(e)
    BY <1>2, <1>4, <1>6 DEF Nf!Abs!Malloc, Nf!Abs!Vacant
  <1>9. NoFreeInv'
    <2>1. Nf!TypeOK'
      BY <1>1, <1>2, <1>4 DEF NoFreeInv, Nf!TypeOK
    <2>2. Nf!BelowNext'
      <3>1. \A f \in live : NoFreeHeader <= f.off /\ f.off + f.len <= next' - NoFreeBuff
        BY <1>1, <1>5, NoFreeAssumed
      <3>2. NoFreeHeader <= e.off /\ e.off + e.len <= next' - NoFreeBuff
        BY <1>1, <1>4, NoFreeAssumed
      <3>. QED
        BY <1>2, <3>1, <3>2 DEF Nf!BelowNext
    <2>3. NoFreeBuff + NoFreeHeader <= next'
      BY <1>1, NoFreeAssumed
    <2>. QED
      BY <2>1, <2>2, <2>3 DEF NoFreeInv
  <1>. QED
    BY <1>7, <1>8, <1>9

LEMMA NoFreeStep ==
    ASSUME NoFreeFits, NoFreeInv, Nf!Next \/ UNCHANGED nofreeVars
    PROVE  NoFreeInv' /\ (Nf!Abs!Next \/ live' = live)
  <1>1. ASSUME NEW n \in NoFreeAsked, Nf!Alloc(n)
        PROVE  NoFreeInv' /\ (Nf!Abs!Next \/ live' = live)
    BY <1>1, NoFreeGives DEF Nf!Abs!Next
  <1>2. CASE UNCHANGED nofreeVars
    BY <1>2 DEF nofreeVars, NoFreeInv, Nf!TypeOK, Nf!BelowNext
  <1>3. ASSUME NEW n \in NoFreeAsked, Nf!AllocNull(n)
        PROVE  NoFreeInv' /\ (Nf!Abs!Next \/ live' = live)
    BY <1>3 DEF Nf!AllocNull, Nf!vars, NoFreeInv, Nf!TypeOK, Nf!BelowNext
  <1>4. ASSUME NEW e \in live, Nf!Free(e)
        PROVE  NoFreeInv' /\ (Nf!Abs!Next \/ live' = live)
    BY <1>4 DEF Nf!Free, NoFreeInv, Nf!TypeOK, Nf!BelowNext, Nf!Abs!Next, Nf!Abs!Free
  <1>5. CASE Nf!Reset
    BY <1>5, NoFreeAssumed DEF Nf!Reset, NoFreeInv, Nf!TypeOK, Nf!BelowNext, Nf!Abs!Next, Nf!Abs!Reset
  <1>. QED
    BY <1>1, <1>2, <1>3, <1>4, <1>5 DEF Nf!Next

LEMMA NoFreeAlways == ASSUME NoFreeFits PROVE Spec => []NoFreeInv
  <1>1. Init => NoFreeInv
    BY NoFreeAssumed DEF Init, Nf!Init, NoFreeInv, Nf!TypeOK, Nf!BelowNext
  <1>2. NoFreeInv /\ [Next]_vars => NoFreeInv'
    <2>. SUFFICES ASSUME NoFreeInv, [Next]_vars
                  PROVE  NoFreeInv'
      OBVIOUS
    <2>1. Nf!Next \/ UNCHANGED nofreeVars
      BY DEF Next, vars, SLAB, NOFREE, SIMPLE, BUFFER, LARGE_BUFFER
    <2>. QED
      BY <2>1, NoFreeStep
  <1>. QED
    BY <1>1, <1>2, PTL DEF Spec

(* As long as no request wraps a size_t, everything that nofree.c has      *)
(* handed out lies between its header and the pointer of the next call.    *)
THEOREM NoFreeStaysBelow == ASSUME NoFreeFits PROVE Spec => []BelowNext
  <1>1. NoFreeInv => BelowNext
    BY DEF NoFreeInv, BelowNext
  <1>. QED
    BY <1>1, NoFreeAlways, PTL

(* Then nofree.c behind a buffer implements the allocator interface: what  *)
(* it handed out is never handed out again before a reset.                 *)
THEOREM NoFreeImplements == ASSUME NoFreeFits PROVE Spec => Nf!Refinement
  <1>1. Init => Nf!Abs!Create
    BY DEF Init, Nf!Init, Nf!Abs!Create
  <1>2. NoFreeInv /\ [Next]_vars => [Nf!Abs!Next]_live
    <2>. SUFFICES ASSUME NoFreeInv, [Next]_vars
                  PROVE  Nf!Abs!Next \/ live' = live
      OBVIOUS
    <2>1. Nf!Next \/ UNCHANGED nofreeVars
      BY DEF Next, vars, SLAB, NOFREE, SIMPLE, BUFFER, LARGE_BUFFER
    <2>. QED
      BY <2>1, NoFreeStep
  <1>. QED
    BY <1>1, <1>2, NoFreeAlways, PTL DEF Spec, Nf!Refinement, Nf!Abs!Spec

------------------------------------------------------------------------------
(* The buffer as a whole, whatever allocator it has.                       *)

(* What callers and the size of the buffer must keep to: no request that   *)
(* wraps a size_t; a slab and a pool of memmgr.c whose blocks leave room   *)
(* for the header that neither counts; nothing huge for alloc.c.           *)
BuffersUsed ==
    /\ NoFreeFits /\ SimpleFits /\ TinyFits /\ LargeFits
    /\ SlabFits /\ SimpleRoomy
    /\ NothingHuge

(* Type correctness of every allocator's state, whatever buffer.c's table  *)
(* chose.                                                                  *)
THEOREM BuffersTyped ==
    ASSUME BuffersUsed
    PROVE  Spec => []TypeOK
  <1>1. Spec => [](type \in Types)
    <2>1. Init => type \in Types
      BY DEF Init
    <2>2. type \in Types /\ [Next]_vars => (type \in Types)'
      BY DEF Next, vars, SLAB, NOFREE, SIMPLE, BUFFER, LARGE_BUFFER
    <2>. QED
      BY <2>1, <2>2, PTL DEF Spec
  <1>2. Spec => []Sl!TypeOK
    <2>1. SlabInv => Sl!TypeOK
      BY DEF SlabInv
    <2>. QED
      BY <2>1, SlabAlways, PTL
  <1>3. Spec => []Nf!TypeOK
    <2>1. NoFreeInv => Nf!TypeOK
      BY DEF NoFreeInv
    <2>2. Spec => []NoFreeInv
      BY NoFreeAlways DEF BuffersUsed
    <2>. QED
      BY <2>1, <2>2, PTL
  <1>4. Spec => []Si!TypeOK
    BY SimpleTyped DEF BuffersUsed
  <1>5. Spec => []Ti!TypeOK
    BY TinyTyped DEF BuffersUsed
  <1>6. Spec => []Al!TypeOK
    BY ObjectsAlone, PTL DEF BuffersUsed
  <1>7. (type \in Types) /\ Sl!TypeOK /\ Nf!TypeOK /\ Si!TypeOK /\ Ti!TypeOK /\ Al!TypeOK => TypeOK
    BY DEF TypeOK
  <1>. QED
    BY <1>1, <1>2, <1>3, <1>4, <1>5, <1>6, <1>7, PTL

(* What a caller writes stays clear of what the allocator keeps beside it, *)
(* in tiny.c, memmgr.c and alloc.c.                                        *)
THEOREM BuffersApart ==
    ASSUME BuffersUsed
    PROVE  Spec => []DataApart
  <1>1. Spec => []Ti!DataApart
    BY TinyDataApart DEF BuffersUsed
  <1>2. Spec => []Si!RequestHoused
    BY SimpleRequestHoused DEF BuffersUsed
  <1>3. Spec => []Al!DataApart
    BY ObjectsAlone, PTL DEF BuffersUsed
  <1>4. Ti!DataApart /\ Si!RequestHoused /\ Al!DataApart => DataApart
    BY DEF DataApart
  <1>. QED
    BY <1>1, <1>2, <1>3, <1>4, PTL

(* Whatever allocator buffer.c's table chose, its calls are those of the   *)
(* allocator interface: no extent handed out meets another one.            *)
THEOREM BuffersImplement ==
    ASSUME BuffersUsed
    PROVE  Spec => Refinement
  <1>1. Spec => Sl!Refinement
    BY SlabImplements DEF BuffersUsed
  <1>2. Spec => Nf!Refinement
    BY NoFreeImplements DEF BuffersUsed
  <1>3. Spec => Si!Refinement
    BY SimpleImplements DEF BuffersUsed
  <1>4. Spec => Ti!Refinement
    BY TinyImplements DEF BuffersUsed
  <1>5. Spec => Al!Refinement
    BY ObjectsAlone, PTL DEF BuffersUsed
  <1>. QED
    BY <1>1, <1>2, <1>3, <1>4, <1>5, PTL DEF Refinement
==============================================================================
