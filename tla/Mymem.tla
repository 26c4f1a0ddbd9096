-------------------------------- MODULE Mymem --------------------------------
(***************************************************************************)
(* totw_p5: the memory pool of mymem.c, a doubly linked list of blocks and *)
(* four placement strategies.  The list is a sequence of blocks; a pointer *)
(* to a block is its place in the sequence, and an address is an offset    *)
(* from mem_pool().  The program is sequential: each call is one action.   *)
(***************************************************************************)
EXTENDS Integers, Sequences, FiniteSets, FiniteSetsExt, SequencesExt

CONSTANTS
    Strategies,   \* strategies initmem is called with
    PoolSizes,    \* sizes initmem is called with
    Requests,     \* sizes mymalloc is called with
    MaxBlocks,    \* bound: mymalloc is called while the list is shorter
    MaxPtr        \* bound: and while the rest of the block it takes begins no later

ASSUME MemConstants ==
    /\ Strategies \subseteq {"first", "best", "worst", "next"}
    /\ PoolSizes \subseteq Nat \ {0} /\ Requests \subseteq Nat \ {0}
    /\ MaxBlocks \in Nat /\ MaxPtr \in Nat /\ \A sz \in PoolSizes : sz <= MaxPtr

NULL == -1

VARIABLES
    myStrategy,
    mySize,
    blocks,     \* the list from head on: [ptr, size, alloc]
    next,       \* the static cursor, an index of blocks; 0 is NULL
    last,       \* the last call: [op, arg, ret]
    proc        \* the process: running, aborted (assert), crashed

vars == <<myStrategy, mySize, blocks, next, last, proc>>

Init ==
    /\ myStrategy = "NotSet" /\ mySize = 0
    /\ blocks = <<>> /\ next = 0
    /\ last = [op |-> "none", arg |-> 0, ret |-> NULL]
    /\ proc = "running"

Called(op, arg, ret) == last' = [op |-> op, arg |-> arg, ret |-> ret]

-----------------------------------------------------------------------------
\* release() drops the old list, initialize() makes one free block.
Initmem(strategy, sz) ==
    /\ proc = "running"
    /\ myStrategy' = strategy /\ mySize' = sz
    /\ blocks' = <<[ptr |-> 0, size |-> sz, alloc |-> FALSE]>>
    /\ next' = 1
    /\ Called("init", sz, NULL)
    /\ UNCHANGED proc

-----------------------------------------------------------------------------
(* mymalloc                                                                *)

\* The block a search from the head of the list keeps, 0 when there is none.
Earliest(places) == IF places = {} THEN 0 ELSE Min(places)

\* Mutant of Fitting: a block must be larger than the request.
FittingStrictly(requested) ==
    {i \in DOMAIN blocks : ~blocks[i].alloc /\ blocks[i].size > requested}

Fitting(requested) ==
    {i \in DOMAIN blocks : ~blocks[i].alloc /\ blocks[i].size >= requested}

FirstFit(requested) == Earliest(Fitting(requested))

\* Mutant of BestFit: the last of the smallest blocks.
BestFitLast(requested) ==
    LET S == Fitting(requested)
        T == {i \in S : \A j \in S : blocks[i].size <= blocks[j].size}
    IN  IF T = {} THEN 0 ELSE Max(T)

BestFit(requested) ==
    LET S == Fitting(requested)
    IN  Earliest({i \in S : \A j \in S : blocks[i].size <= blocks[j].size})

WorstFit(requested) ==
    LET S == Fitting(requested)
    IN  Earliest({i \in S : \A j \in S : blocks[i].size >= blocks[j].size})

\* Next fit asks only that the block be free.
NextFit == Earliest({i \in next .. Len(blocks) : ~blocks[i].alloc})

Chosen(requested) ==
    CASE myStrategy = "first" -> FirstFit(requested)
      [] myStrategy = "best"  -> BestFit(requested)
      [] myStrategy = "worst" -> WorstFit(requested)
      [] myStrategy = "next"  -> NextFit

\* The list with block i allocated, the bytes it does not need (int extra, which
\* next fit can make negative) in a new free block after it.
Taken(i, requested) ==
    LET b == blocks[i]
        used == [b EXCEPT !.alloc = TRUE, !.size = requested]
        rest == [ptr |-> b.ptr + requested, size |-> b.size - requested, alloc |-> FALSE]
    IN  IF b.size = requested
        THEN [blocks EXCEPT ![i] = used]
        ELSE SubSeq(blocks, 1, i - 1) \o <<used, rest>> \o SubSeq(blocks, i + 1, Len(blocks))

\* Mutant of CursorAfter: the search does not go round.
CursorAfterOnly(list, i) ==
    LET after == {j \in i + 1 .. Len(list) : ~list[j].alloc}
    IN  IF after # {} THEN Min(after) ELSE i

\* The first free block after block i, going round; the head when none is free.
CursorAfter(list, i) ==
    LET after  == {j \in i + 1 .. Len(list) : ~list[j].alloc}
        before == {j \in 1 .. i - 1 : ~list[j].alloc}
    IN  CASE after # {} -> Min(after)
          [] after = {} /\ before # {} -> Min(before)
          [] OTHER -> 1

AllocateFrom(i, requested) ==
    /\ blocks' = Taken(i, requested)
    /\ next' = IF myStrategy = "next" THEN CursorAfter(blocks', i)
               ELSE IF next > i THEN next + Len(blocks') - Len(blocks) ELSE next
    /\ Called("malloc", requested, blocks[i].ptr)
    /\ UNCHANGED <<myStrategy, mySize, proc>>

Mymalloc(requested) ==
    /\ proc = "running" /\ myStrategy # "NotSet" /\ Len(blocks) < MaxBlocks
    /\ LET i == Chosen(requested)
       IN  \/ i # 0 /\ blocks[i].ptr + requested <= MaxPtr /\ AllocateFrom(i, requested)
           \/ /\ i = 0 /\ myStrategy # "next"
              /\ Called("malloc", requested, NULL)
              /\ UNCHANGED <<myStrategy, mySize, blocks, next, proc>>
           \/ /\ i = 0 /\ myStrategy = "next"       \* next->alloc of NULL
              /\ proc' = "crashed"
              /\ Called("malloc", requested, NULL)
              /\ UNCHANGED <<myStrategy, mySize, blocks, next>>

\* assert((int)myStrategy > 0)
MymallocUnset(requested) ==
    /\ proc = "running" /\ myStrategy = "NotSet"
    /\ proc' = "aborted"
    /\ Called("malloc", requested, NULL)
    /\ UNCHANGED <<myStrategy, mySize, blocks, next>>

-----------------------------------------------------------------------------
(* myfree                                                                  *)

\* Mutant of MergeBlocks: only blocks after block i are merged.
MergeForward(list, i) ==
    LET hi == Max({j \in i .. Len(list) : \A k \in i .. j : ~list[k].alloc})
        size == FoldSeq(LAMBDA b, sum : b.size + sum, 0, SubSeq(list, i, hi))
    IN  /\ blocks' = SubSeq(list, 1, i - 1) \o <<[list[i] EXCEPT !.size = size]>>
                        \o SubSeq(list, hi + 1, Len(list))
        /\ next' = CASE next < i -> next
                     [] next \in i .. hi -> i
                     [] next > hi -> next - (hi - i)

\* merge_blocks: the free blocks around block i become one.
MergeBlocks(list, i) ==
    LET lo == Min({j \in 1 .. i : \A k \in j .. i : ~list[k].alloc})
        hi == Max({j \in i .. Len(list) : \A k \in i .. j : ~list[k].alloc})
        size == FoldSeq(LAMBDA b, sum : b.size + sum, 0, SubSeq(list, lo, hi))
    IN  /\ blocks' = SubSeq(list, 1, lo - 1) \o <<[list[lo] EXCEPT !.size = size]>>
                        \o SubSeq(list, hi + 1, Len(list))
        /\ next' = CASE next < lo -> next
                     [] next \in lo .. hi -> lo
                     [] next > hi -> next - (hi - lo)

Myfree(ptr) ==
    /\ proc = "running"
    /\ LET i == Earliest({j \in DOMAIN blocks : blocks[j].ptr = ptr})
       IN  \/ i # 0 /\ MergeBlocks([blocks EXCEPT ![i].alloc = FALSE], i)
           \/ i = 0 /\ UNCHANGED <<blocks, next>>
    /\ Called("free", ptr, NULL)
    /\ UNCHANGED <<myStrategy, mySize, proc>>

-----------------------------------------------------------------------------
(* Memory status                                                           *)

FreeBlocks == {i \in DOMAIN blocks : ~blocks[i].alloc}
AllocBlocks == DOMAIN blocks \ FreeBlocks

mem_holes == Cardinality(FreeBlocks)
mem_allocated == MapThenSumSet(LAMBDA i : blocks[i].size, AllocBlocks)
mem_free == MapThenSumSet(LAMBDA i : blocks[i].size, FreeBlocks)
\* Mutant of mem_largest_free: the last free block is taken for the largest.
mem_last_free == IF FreeBlocks = {} THEN 0 ELSE blocks[Max(FreeBlocks)].size

mem_largest_free == Max({0} \cup {blocks[i].size : i \in FreeBlocks})
mem_small_free(size) == Cardinality({i \in FreeBlocks : blocks[i].size <= size})
mem_is_alloc(ptr) ==
    LET i == Earliest({j \in DOMAIN blocks : blocks[j].ptr = ptr})
    IN  i # 0 /\ blocks[i].alloc

-----------------------------------------------------------------------------
\* Clients free any address, among them every pointer mymalloc has returned: next fit
\* hands out pointers at the end of the pool and behind it.
Addresses == 0 .. MaxPtr

Next ==
    \/ \E strategy \in Strategies, sz \in PoolSizes : Initmem(strategy, sz)
    \/ \E requested \in Requests : Mymalloc(requested) \/ MymallocUnset(requested)
    \/ \E ptr \in Addresses : Myfree(ptr)

Spec == Init /\ [][Next]_vars

-----------------------------------------------------------------------------
(* Correctness, in terms of the bytes of the pool                          *)

Bytes == 0 .. mySize - 1
Extent(b) == b.ptr .. b.ptr + b.size - 1
UsedBytes == UNION {Extent(blocks[i]) : i \in AllocBlocks}

\* The runs of free bytes, as long as they can be.
Gaps ==
    {g \in Bytes \X Bytes :
        /\ g[1] <= g[2] /\ g[1] .. g[2] \cap UsedBytes = {}
        /\ g[1] - 1 \notin Bytes \ UsedBytes
        /\ g[2] + 1 \notin Bytes \ UsedBytes}
GapSize(g) == g[2] - g[1] + 1
GapsFor(requested) == {g \in Gaps : GapSize(g) >= requested}

\* After any splits and merges each block of the list begins where the one before
\* it ends, together they are the pool, and no two free ones are side by side: no
\* byte is lost or listed twice, and a free block is as large as it can be.
Tiling ==
    blocks # <<>> =>
        /\ blocks[1].ptr = 0
        /\ Last(blocks).ptr + Last(blocks).size = mySize
        /\ \A i \in 1 .. Len(blocks) - 1 :
              /\ blocks[i + 1].ptr = blocks[i].ptr + blocks[i].size
              /\ blocks[i].alloc \/ blocks[i + 1].alloc

\* The while loop of next fit runs off the list only when no block is free: the
\* cursor that earlier calls left behind is on a block of the list, never one that
\* merge_blocks has freed, and never hides the only free block.
CursorReachesFree ==
    myStrategy = "next" =>
        /\ next \in DOMAIN blocks
        /\ FreeBlocks # {} => \E i \in FreeBlocks : i >= next

\* The status functions say of the list what is true of the bytes of the pool.
StatusExact ==
    /\ mem_holes = Cardinality(Gaps)
    /\ mem_allocated = Cardinality(UsedBytes)
    /\ mem_free = Cardinality(Bytes \ UsedBytes)
    /\ mem_largest_free = Max({0} \cup {GapSize(g) : g \in Gaps})
    /\ \A s \in Requests : mem_small_free(s) = Cardinality({g \in Gaps : GapSize(g) <= s})

\* First, best and worst fit place a request at the start of the lowest, of a
\* smallest, of a largest gap among those large enough, the lowest of equals.
Better(g, h) ==
    CASE myStrategy = "first" -> g[1] < h[1]
      [] myStrategy = "best"  -> GapSize(g) < GapSize(h) \/ (GapSize(g) = GapSize(h) /\ g[1] < h[1])
      [] myStrategy = "worst" -> GapSize(g) > GapSize(h) \/ (GapSize(g) = GapSize(h) /\ g[1] < h[1])
Placement ==
    [][(last'.op = "malloc" /\ last'.ret # NULL) =>
          \E g \in GapsFor(last'.arg) :
              /\ g[1] = last'.ret
              /\ \A h \in GapsFor(last'.arg) \ {g} : Better(g, h)]_vars

\* The list implements a pool of disjoint allocations that refuses a request only
\* when no run of free bytes is long enough.
Live == {[ptr |-> blocks[i].ptr, size |-> blocks[i].size] : i \in AllocBlocks}
Pool == INSTANCE Heap
            WITH Pointers <- Addresses, pool <- mySize, live <- Live, answer <- last
PoolSpec == Pool!HeapSpec
=============================================================================
