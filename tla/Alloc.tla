-------------------------------- MODULE Alloc --------------------------------
(***************************************************************************)
(* alloc.c: the allocator behind SHALLOC_BUFF_ALLOC_TYPE_BUFFER for a      *)
(* buffer of 1 MiB and more.                                               *)
(*                                                                         *)
(* The pool is cut into large pages, some of them cut again into small     *)
(* ones.  A page serves objects of one size (a bucket), with a header that *)
(* counts them and a bitmap; a larger request is given a run of pages and  *)
(* a struct huge_alloc, itself an object, that remembers it.               *)
(*                                                                         *)
(* The numbers of pages and sizes of headers are scaled by constants; four *)
(* buckets per power of two are the code's.  Pages are numbered as small   *)
(* ones, a large page by its first.  A list linked through page headers is *)
(* a sequence of page numbers.  A page header that lies in bytes given to  *)
(* a caller holds what the caller wrote: of it the model keeps             *)
(* elements_used, the field that the allocator still reads.                *)
(***************************************************************************)
EXTENDS Integers, FiniteSetsExt, SequencesExt

CONSTANTS
    Modulus,       \* 2^64: values of a size_t
    PoolSize,      \* size of the buffer
    MaxLarge,      \* MAX_LARGE_PAGES: 256
    LargeBits,     \* BITS_FROM_SMALL_TO_LARGE_PAGE: 5
    ObjectOrder,   \* MAX_PAGE_OBJECT_ORDER: 3
    HeaderSize,    \* struct header with all its buckets
    PageHeader,    \* struct page_header without used[]
    LongBits,      \* BITS_PER_LONG
    Align,         \* sizeof(long)
    HugeStruct,    \* sizeof(struct huge_alloc)
    UserData,      \* what callers leave where elements_used would be
    Asked,         \* sizes passed to malloc; shalloc_malloc lets no 0 through
    MaxHeld        \* bound on what callers hold at a time

INTER_BUCKET_SPACE == 4
SMALL_PAGES_PER_LARGE_PAGE == 2 ^ LargeBits

(* bitops.c: the number of the highest bit set, from 1.                    *)
afls(v) == CHOOSE b \in 0..v : v < 2 ^ b /\ (b > 0 => v >= 2 ^ (b - 1))

align_up(x, n) == ((x + n - 1) \div n) * n

small_page_bits == afls(PoolSize \div (MaxLarge * SMALL_PAGES_PER_LARGE_PAGE) - 1)
SmallSize == 2 ^ small_page_bits
LargeSize == SmallSize * SMALL_PAGES_PER_LARGE_PAGE

(* Every 4 buckets the size doubles, linearly in between.                  *)
bucket_to_size(bucket) ==
    LET base == 2 ^ (bucket \div INTER_BUCKET_SPACE)
    IN base + ((bucket % INTER_BUCKET_SPACE) * base) \div INTER_BUCKET_SPACE

size_to_bucket(size) ==
    LET base == afls(size \div 2)
        overshoot == size - 2 ^ base
    IN base * INTER_BUCKET_SPACE
         + (overshoot * INTER_BUCKET_SPACE + 2 ^ base - 1) \div 2 ^ base

max_bucket == (small_page_bits + LargeBits - ObjectOrder) * INTER_BUCKET_SPACE
Buckets == 0..(max_bucket - 1)

used_size(num) == (align_up(num, LongBits) \div LongBits) * Align

(* Objects of a bucket are aligned to the power of two below their size.   *)
page_header_size(align_bits, num) == align_up(PageHeader + used_size(num), 2 ^ align_bits)

large_page_bucket(bucket) == bucket_to_size(bucket) > SmallSize \div 2 ^ ObjectOrder

PageSizeOf(bucket) == IF large_page_bucket(bucket) THEN LargeSize ELSE SmallSize

(* As many objects as fit behind a header that grows with their number.    *)
elements_per_page(bucket) ==
    LET bits == bucket \div INTER_BUCKET_SPACE
        esize == bucket_to_size(bucket)
        psize == PageSizeOf(bucket)
    IN Max({n \in 0..((psize - align_up(PageHeader + Align, 2 ^ bits)) \div esize) :
              page_header_size(bits, n) + esize * n <= psize})

(* bs[].elements_per_page, which alloc_init computes once.                 *)
PerPage == [bucket \in Buckets |-> elements_per_page(bucket)]

Pages == 0..((PoolSize - 1) \div SmallSize)
WholePages == 0..(PoolSize \div LargeSize - 1)
HeaderPages == 0..(align_up(HeaderSize, SmallSize) \div SmallSize - 1)

LargeOf(pg) == pg \div SMALL_PAGES_PER_LARGE_PAGE
FirstOf(l) == l * SMALL_PAGES_PER_LARGE_PAGE
SmallPagesOf(l) == FirstOf(l)..(FirstOf(l) + SMALL_PAGES_PER_LARGE_PAGE - 1)

(* Assumed by every module that runs this one: the pool is of a useful     *)
(* size, its header in the first large page (the assert of alloc_init),    *)
(* each bucket has room for an object in its page, and a huge_alloc is     *)
(* itself no huge object.                                                  *)
AllocAssumption ==
    /\ {MaxLarge, LargeBits, ObjectOrder, PageHeader, LongBits, Align,
        HugeStruct, MaxHeld} \subseteq Nat \ {0}
    /\ HeaderSize \in 1..(LargeSize - 1)
    /\ PoolSize \in Nat /\ PoolSize > LargeSize
    /\ PoolSize >= MaxLarge * SMALL_PAGES_PER_LARGE_PAGE
    /\ \E k \in 0..Align : Align = 2 ^ k
    /\ Align <= SmallSize
    /\ Modulus \in Nat /\ PoolSize < Modulus
    /\ Asked \subseteq 1..(Modulus - 1)
    /\ UserData \subseteq Nat
    /\ \A bucket \in Buckets :
          page_header_size(bucket \div INTER_BUCKET_SPACE, 1) + bucket_to_size(bucket)
             <= PageSizeOf(bucket)
    /\ size_to_bucket(align_up(HugeStruct, Align)) \in Buckets

VARIABLES
    pool,      \* struct header and the page headers
    held       \* history: offset handed out -> size asked for

vars == <<pool, held>>

With(f, x, v) == [y \in DOMAIN f \cup {x} |-> IF y = x THEN v ELSE f[y]]

(* del_from_list; a page that is not on the list would be undefined.       *)
Without(list, pgs) ==
    LET kept[k \in 0..Len(list)] ==
            IF k = 0 THEN <<>>
            ELSE IF list[k] \in pgs THEN kept[k - 1]
            ELSE Append(kept[k - 1], list[k])
    IN kept[Len(list)]

(* add_to_list for each page of an ascending sequence: the last one leads. *)
Added(pgs, list) == Reverse(pgs) \o list

Ascending(pgs) ==
    Without([k \in 1..((PoolSize - 1) \div SmallSize + 1) |-> k - 1], Pages \ pgs)

(* Every page starts as a large one, but the first, which holds the header.*)
(* A tail shorter than a large page is left as it was.                     *)
alloc_init(tail) ==
    LET whole == WholePages \ {0}
    IN [large |-> {LargeOf(pg) : pg \in Pages} \ {0},
        small_free |-> Added(Ascending(SmallPagesOf(0) \ HeaderPages), <<>>),
        large_free |-> Added(Ascending({FirstOf(l) : l \in whole}), <<>>),
        huge |-> <<>>,
        page_list |-> [b \in Buckets |-> <<>>],
        full_list |-> [b \in Buckets |-> <<>>],
        used |-> [pg \in Pages |-> IF LargeOf(pg) \in WholePages THEN 0 ELSE tail],
        objs |-> [pg \in {} |-> {}]]

------------------------------------------------------------------------------
(* Pages.                                                                  *)

all_empty(a, l) == \A pg \in SmallPagesOf(l) : a.used[pg] = 0

(* A large page of small ones that all look empty becomes large again.     *)
recombine_small_pages(a) ==
    LET empty == {l \in WholePages \ {0} : l \notin a.large /\ all_empty(a, l)}
    IN [a EXCEPT !.large = @ \cup empty,
                 !.small_free = Without(@, UNION {SmallPagesOf(l) : l \in empty}),
                 !.large_free = Added(Ascending({FirstOf(l) : l \in empty}), @)]

(* Page 0, which holds the header, stands for no page.                     *)
NoPage(a) == [pool |-> a, page |-> 0]

get_large_page(a) ==
    LET b == IF a.large_free # <<>> THEN a ELSE recombine_small_pages(a)
    IN IF b.large_free = <<>> THEN NoPage(b)
       ELSE [pool |-> [b EXCEPT !.large_free = Tail(@)], page |-> Head(b.large_free)]

(* All small pages of a large one but the first are free.                  *)
break_up_large_page(a, lpage) ==
    LET rest == SmallPagesOf(LargeOf(lpage)) \ {lpage}
    IN [pool |-> [a EXCEPT !.large = @ \ {LargeOf(lpage)},
                           !.small_free = Added(Ascending(rest), @),
                           !.used = [pg \in Pages |-> IF pg \in rest THEN 0 ELSE @[pg]]],
        page |-> lpage]

get_small_page(a) ==
    IF a.small_free # <<>>
    THEN [pool |-> [a EXCEPT !.small_free = Tail(@)], page |-> Head(a.small_free)]
    ELSE LET l == get_large_page(a)
         IN IF l.page = 0 THEN l ELSE break_up_large_page(l.pool, l.page)

(* The page header that an offset belongs to.                              *)
PageOf(a, off) ==
    LET pg == off \div SmallSize
    IN IF LargeOf(pg) \in a.large THEN FirstOf(LargeOf(pg)) ELSE pg

------------------------------------------------------------------------------
(* Objects: alloc_get and alloc_free of what is smaller than huge.         *)

(* Offset of element i of a page that serves the bucket.                   *)
Element(pg, bucket, i) ==
    pg * SmallSize
      + page_header_size(bucket \div INTER_BUCKET_SPACE, PerPage[bucket])
      + i * bucket_to_size(bucket)

NewPage(a, bucket) ==
    IF large_page_bucket(bucket) THEN get_large_page(a) ELSE get_small_page(a)

(* There is always a bit to be found: a full page leaves page_list.        *)
find_free_bit(bits) == Min((0..Cardinality(bits)) \ bits)

(* The page is first in page_list; offset 0 stands for NULL.               *)
TakeElement(a, bucket) ==
    LET pg == Head(a.page_list[bucket])
        i == find_free_bit(a.objs[pg].bits)
        b == [a EXCEPT !.objs[pg].bits = @ \cup {i}, !.used[pg] = @ + 1]
    IN [off |-> Element(pg, bucket, i),
        pool |-> IF b.used[pg] # PerPage[bucket] THEN b
                 ELSE [b EXCEPT !.page_list[bucket] = Tail(@),
                                !.full_list[bucket] = <<pg>> \o @]]

GetObject(a, bucket) ==
    IF a.page_list[bucket] # <<>> THEN TakeElement(a, bucket)
    ELSE LET n == NewPage(a, bucket)
         IN IF n.page = 0 THEN [off |-> 0, pool |-> n.pool]
            ELSE TakeElement(
                   [n.pool EXCEPT !.page_list[bucket] = <<n.page>>,
                                  !.used[n.page] = 0,
                                  !.objs = With(@, n.page, [bucket |-> bucket, bits |-> {}])],
                   bucket)

(* Mutant: a page that was full stays on the list of full ones.            *)
ReopenedNever(a, pg) == a

(* A page that was full can serve again.                                   *)
Reopened(a, pg) ==
    LET bucket == a.objs[pg].bucket
    IN IF a.used[pg] # PerPage[bucket] THEN a
       ELSE [a EXCEPT !.full_list[bucket] = Without(@, {pg}),
                      !.page_list[bucket] = <<pg>> \o @]

(* A page without objects leaves its bucket.                               *)
Released(a, pg) ==
    LET b == [a EXCEPT !.page_list[a.objs[pg].bucket] = Without(@, {pg}),
                       !.objs = [q \in DOMAIN @ \ {pg} |-> @[q]]]
    IN IF LargeOf(pg) \in a.large
       THEN [b EXCEPT !.large_free = <<pg>> \o @]
       ELSE [b EXCEPT !.small_free = <<pg>> \o @]

FreeObject(a, off) ==
    LET pg == PageOf(a, off)
        bucket == a.objs[pg].bucket
        i == (off - Element(pg, bucket, 0)) \div bucket_to_size(bucket)
        b == [Reopened(a, pg) EXCEPT !.objs[pg].bits = @ \ {i}, !.used[pg] = @ - 1]
    IN IF b.used[pg] = 0 THEN Released(b, pg) ELSE b

------------------------------------------------------------------------------
(* Huge objects.                                                           *)

huge_allocated(a, off) ==
    \E k \in DOMAIN a.huge : /\ a.huge[k].off <= off
                             /\ off < a.huge[k].off + a.huge[k].len

(* Mutant: a used page does not end the run before it.                     *)
SearchUnreset(a, span, size) ==
    LET unit == span * SmallSize
        kind(i) == LargeOf(i * span) \in a.large
        Step(s, i) ==
            IF s.num * unit >= size \/ kind(i) # (span > 1) THEN s
            ELSE IF huge_allocated(a, i * unit) \/ a.used[i * span] # 0 THEN s
            ELSE [num |-> s.num + 1, end |-> i + 1]
        seen[i \in 0..((PoolSize - 1) \div unit)] ==
            IF i < align_up(HeaderSize, unit) \div unit THEN [num |-> 0, end |-> 0]
            ELSE Step(seen[i - 1], i)
        s == seen[(PoolSize - 1) \div unit]
    IN IF s.num * unit >= size
       THEN {[off |-> (s.end - s.num) * unit, len |-> s.num * unit]}
       ELSE {}

(* Both loops of huge_alloc, over small (span 1) or over large pages.      *)
(* Pages of the other kind are passed over and leave num as it is.         *)
Search(a, span, size) ==
    LET unit == span * SmallSize
        kind(i) == LargeOf(i * span) \in a.large
        Step(s, i) ==
            IF s.num * unit >= size \/ kind(i) # (span > 1) THEN s
            ELSE IF s.num = 0 /\ (i * unit) % Align # 0 THEN s
            ELSE IF huge_allocated(a, i * unit) \/ a.used[i * span] # 0
                 THEN [s EXCEPT !.num = 0]
            ELSE [num |-> s.num + 1, end |-> i + 1]
        seen[i \in 0..((PoolSize - 1) \div unit)] ==
            IF i < align_up(HeaderSize, unit) \div unit THEN [num |-> 0, end |-> 0]
            ELSE Step(seen[i - 1], i)
        s == seen[(PoolSize - 1) \div unit]
    IN IF s.num * unit >= size
       THEN {[off |-> (s.end - s.num) * unit, len |-> s.num * unit]}
       ELSE {}

PagesIn(run) == {pg \in Pages : /\ run.off <= pg * SmallSize
                                /\ pg * SmallSize < run.off + run.len}

(* The run found for a request, if any, with the pool it was found in:     *)
(* small pages are recombined before the search over large ones.           *)
Found(a, size) ==
    LET small == Search(a, 1, size)
        b == recombine_small_pages(a)
        large == Search(b, SMALL_PAGES_PER_LARGE_PAGE, size)
    IN IF small # {} THEN {[run |-> r, pool |-> a] : r \in small}
                     ELSE {[run |-> r, pool |-> b] : r \in large}

StructBucket == size_to_bucket(align_up(HugeStruct, Align))

(* The caller writes to its pages what it likes.                           *)
HugeTaken(a, ha, run, data) ==
    [a EXCEPT !.small_free = Without(@, PagesIn(run)),
              !.large_free = Without(@, PagesIn(run)),
              !.huge = <<[ha |-> ha, off |-> run.off, len |-> run.len]>> \o @,
              !.used = [pg \in Pages |-> IF pg \in PagesIn(run) THEN data[pg] ELSE @[pg]]]

(* huge_free: the pages go back with what the caller left in them.         *)
huge_free(a, off) ==
    LET k == CHOOSE k \in DOMAIN a.huge : a.huge[k].off = off
        pgs == PagesIn(a.huge[k])
        b == [a EXCEPT !.huge = Without(@, {a.huge[k]})]
        c == IF LargeOf(off \div SmallSize) \in a.large
             THEN [b EXCEPT !.large_free =
                      Added(Ascending({pg \in pgs : pg = FirstOf(LargeOf(pg))}), @)]
             ELSE [b EXCEPT !.small_free = Added(Ascending(pgs), @)]
    IN FreeObject(c, a.huge[k].ha)

------------------------------------------------------------------------------
Init == /\ pool \in {alloc_init(v) : v \in UserData}
        /\ held = [p \in {} |-> 0]

(* shalloc_buff_reset: alloc_init again.                                   *)
Reset == /\ pool' \in {alloc_init(v) : v \in UserData}
         /\ held' = [p \in {} |-> 0]

(* The size as alloc_get rounds it; one near 2^64 wraps to zero.           *)
Rounded(size) == LET sz == align_up(size, Align) % Modulus
                 IN IF sz = 0 THEN 1 ELSE sz

Bucket(size) == size_to_bucket(Rounded(size))

(* alloc_get of an object.                                                 *)
Get(size) ==
    /\ Cardinality(DOMAIN held) < MaxHeld
    /\ Bucket(size) < max_bucket
    /\ LET g == GetObject(pool, Bucket(size))
       IN /\ pool' = g.pool
          /\ held' = IF g.off = 0 THEN held ELSE With(held, g.off, size)

(* alloc_get that calls huge_alloc, with the ways it can end: no room for  *)
(* the struct, a run, or no run and the struct given back.                 *)
GetHuge(size) ==
    /\ Cardinality(DOMAIN held) < MaxHeld
    /\ Bucket(size) >= max_bucket
    /\ LET g == GetObject(pool, StructBucket)
           asked == Rounded(size)
       IN \/ /\ g.off = 0
             /\ pool' = g.pool
             /\ UNCHANGED held
          \/ /\ g.off # 0
             /\ \E f \in Found(g.pool, asked) : \E data \in [PagesIn(f.run) -> UserData] :
                   /\ pool' = HugeTaken(f.pool, g.off, f.run, data)
                   /\ held' = With(held, f.run.off, size)
          \/ /\ g.off # 0
             /\ Found(g.pool, asked) = {}
             /\ pool' = FreeObject(recombine_small_pages(g.pool), g.off)
             /\ UNCHANGED held

(* alloc_free: only a huge object starts where its page does.              *)
Free(p) ==
    /\ pool' = IF p = PageOf(pool, p) * SmallSize THEN huge_free(pool, p)
                                                  ELSE FreeObject(pool, p)
    /\ held' = [q \in DOMAIN held \ {p} |-> held[q]]

Next == \/ \E size \in Asked : Get(size)
        \/ \E size \in Asked : GetHuge(size)
        \/ \E p \in DOMAIN held : Free(p)
        \/ Reset

Spec == Init /\ [][Next]_vars

------------------------------------------------------------------------------
(* Type correctness: lists of pages, runs in the pool, elements in pages.  *)
TypeOK ==
    /\ pool.large \subseteq {LargeOf(pg) : pg \in Pages}
    /\ pool.small_free \in Seq(Pages) /\ pool.large_free \in Seq(Pages)
    /\ pool.huge \in Seq([ha : 1..PoolSize, off : 1..PoolSize, len : 1..PoolSize])
    /\ pool.page_list \in [Buckets -> Seq(Pages)]
    /\ pool.full_list \in [Buckets -> Seq(Pages)]
    /\ pool.used \in [Pages -> Nat]
    /\ DOMAIN pool.objs \subseteq Pages
    /\ DOMAIN held \subseteq 1..(PoolSize - 1)

(* The pages that a list entry or a run takes up.                          *)
Covers(pg) == IF LargeOf(pg) \in pool.large THEN SmallPagesOf(LargeOf(pg)) ELSE {pg}

OnList(name, b, list) ==
    {[at |-> <<name, b, k>>, pgs |-> Covers(list[k])] : k \in DOMAIN list}

Places ==
    OnList("small_free", 0, pool.small_free) \cup OnList("large_free", 0, pool.large_free)
    \cup (UNION {OnList("page_list", b, pool.page_list[b]) : b \in Buckets})
    \cup (UNION {OnList("full_list", b, pool.full_list[b]) : b \in Buckets})
    \cup {[at |-> <<"huge", 0, k>>, pgs |-> PagesIn(pool.huge[k])] : k \in DOMAIN pool.huge}

(* "Make sure every page accounted for": the header, the free lists, the   *)
(* lists of the buckets and the huge runs share out the pages, each page   *)
(* once, and a page is on a list for pages of its kind.                    *)
PagesAccounted ==
    /\ \A c, d \in Places : c.at # d.at => c.pgs \cap d.pgs = {}
    /\ UNION {c.pgs : c \in Places} = Pages \ HeaderPages
    /\ \A pg \in Range(pool.small_free) : LargeOf(pg) \notin pool.large
    /\ \A pg \in Range(pool.large_free) : /\ LargeOf(pg) \in pool.large
                                          /\ pg = FirstOf(LargeOf(pg))

(* What the walk over a bucket checks: the page has the size the bucket    *)
(* wants, its count is that of its bitmap, and it is on page_list while    *)
(* some but not all of its elements are used, else on full_list.           *)
check_bucket(b) ==
    \A pg \in Range(pool.page_list[b]) \cup Range(pool.full_list[b]) :
        /\ LargeOf(pg) \in pool.large <=> large_page_bucket(b)
        /\ pool.objs[pg].bucket = b
        /\ pool.used[pg] = Cardinality(pool.objs[pg].bits)
        /\ pool.objs[pg].bits \subseteq 0..(PerPage[b] - 1)
        /\ IF pg \in Range(pool.page_list[b])
           THEN pool.used[pg] \in 1..(PerPage[b] - 1)
           ELSE pool.used[pg] = PerPage[b]

(* What alloc_check looks for, which its comment calls pool corruption;    *)
(* and the elements marked used are those that callers hold and the        *)
(* structs of the huge runs that callers hold.                             *)
AllocCheck ==
    /\ PagesAccounted
    /\ \A b \in Buckets : check_bucket(b)
    /\ UNION {{Element(pg, pool.objs[pg].bucket, i) : i \in pool.objs[pg].bits}
                 : pg \in DOMAIN pool.objs}
         = (DOMAIN held \ {h.off : h \in Range(pool.huge)})
              \cup {h.ha : h \in Range(pool.huge)}

(* "Aim for contiguous pages": whatever huge_alloc finds by looking at     *)
(* counts in page headers and at the list of huge runs, it consists of     *)
(* small pages that are free, or else of large pages that are.             *)
HugeRunsFree ==
    \A size \in {s \in Asked : Bucket(s) >= max_bucket} :
        LET g == GetObject(pool, StructBucket)
        IN g.off # 0 =>
             \A f \in Found(g.pool, Rounded(size)) :
                 \/ PagesIn(f.run) \subseteq Range(f.pool.small_free)
                 \/ \A pg \in PagesIn(f.run) :
                       /\ LargeOf(pg) \in f.pool.large
                       /\ FirstOf(LargeOf(pg)) \in Range(f.pool.large_free)

(* An object is aligned, starts behind the bitmap of its page, which has a *)
(* bit for every element, and ends with the page; a huge one is in its run.*)
DataApart ==
    \A p \in DOMAIN held :
        LET pg == PageOf(pool, p)
            bucket == pool.objs[pg].bucket
        IN /\ p % Align = 0
           /\ IF pg \in DOMAIN pool.objs
              THEN /\ p >= pg * SmallSize + PageHeader
                             + used_size(PerPage[bucket])
                   /\ p + held[p] <= pg * SmallSize + PageSizeOf(bucket)
              ELSE \E h \in Range(pool.huge) : h.off = p /\ held[p] <= h.len

(* alloc.c implements the allocator interface of shalloc.h.                *)
Abs == INSTANCE BufferAllocator WITH
           Size <- PoolSize,
           Lens <- Asked,
           live <- {[off |-> p, len |-> held[p]] : p \in DOMAIN held}

Refinement == Abs!Spec
==============================================================================
