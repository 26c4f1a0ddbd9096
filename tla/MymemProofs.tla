---------------------------- MODULE MymemProofs -----------------------------
(***************************************************************************)
(* Theorems about Mymem for every pool size and every set of requests,     *)
(* also requests that do not fit.  The last sections are about the         *)
(* strategies that compare the size of a block with the request: what the  *)
(* list says of the bytes of the pool, where a request is placed, and that *)
(* the list implements Heap.  Next fit breaks all three.                   *)
(***************************************************************************)
EXTENDS Mymem, SequenceTheorems, FiniteSetTheorems, WellFoundedInduction, TLAPS

\* Blocks with pointers and sizes in V: which they are does not matter here.
BlocksOf(V) == [ptr : V, size : V, alloc : BOOLEAN]

\* The cursor is on a block of the list, which is the head or has a free block from
\* it on.  The head is where CursorAfter leaves it when nothing is free, so that a
\* block freed later is not behind it.
CursorIn(list, n) ==
    /\ n \in 1 .. Len(list)
    /\ n = 1 \/ \E k \in n .. Len(list) : ~list[k].alloc

\* The inductive invariant.
Inv ==
    myStrategy = "next" =>
        /\ \E V : blocks \in Seq(BlocksOf(V))
        /\ CursorIn(blocks, next)

-----------------------------------------------------------------------------
(* Least and greatest places of a list                                     *)

\* A set of natural numbers that is not empty has a least element.
LEMMA LeastNumber ==
    ASSUME NEW S \in SUBSET Nat, S # {}
    PROVE  \E m \in S : \A n \in S : m <= n
<1>1. PICK x \in S : \A y \in S : ~(<<y, x>> \in OpToRel(<, Nat))
  BY NatLessThanWellFounded, WFMin
<1>2. \A y \in S : ~(y < x)
  BY <1>1 DEF OpToRel
<1> QED BY <1>2

\* So Min chooses an element of it,
LEMMA LeastPlace ==
    ASSUME NEW S \in SUBSET Nat, S # {}
    PROVE  Min(S) \in S
BY LeastNumber DEF Min

\* A bounded one has a greatest,
LEMMA GreatestNumber ==
    ASSUME NEW n \in Nat, NEW S \in SUBSET (0 .. n), S # {}
    PROVE  \E m \in S : \A z \in S : z <= m
<1> DEFINE T == {n - x : x \in S}
<1>1. \A x \in S : n - x \in Nat /\ x \in Int
  OBVIOUS
<1>2. T \in SUBSET Nat /\ T # {}
  BY <1>1
<1>3. PICK y \in T : \A z \in T : y <= z
  <2> HIDE DEF T
  <2> QED BY <1>2, LeastNumber
<1>4. PICK x \in S : y = n - x
  OBVIOUS
<1>5. ASSUME NEW z \in S PROVE x >= z
  <2>1. n - x <= n - z
    BY <1>3, <1>4
  <2> QED BY <1>1, <2>1
<1> QED BY <1>5

\* and Max chooses it.
LEMMA GreatestPlace ==
    ASSUME NEW n \in Nat, NEW S \in SUBSET (0 .. n), S # {}
    PROVE  Max(S) \in S
<1>1. PICK x \in S : \A z \in S : z <= x
  BY GreatestNumber
<1>2. \A z \in S : x >= z
  BY <1>1
<1> QED BY <1>2 DEF Max

\* A search that keeps a block keeps one of those it looks for.
LEMMA EarliestIn ==
    ASSUME NEW S \in SUBSET Nat, Earliest(S) # 0
    PROVE  Earliest(S) \in S
BY LeastPlace DEF Earliest

-----------------------------------------------------------------------------
(* The list around the blocks that are replaced                            *)

\* Where the entries of two lists are in their concatenation.
LEMMA Joined ==
    ASSUME NEW R, NEW s \in Seq(R), NEW t \in Seq(R)
    PROVE  /\ s \o t \in Seq(R) /\ Len(s \o t) = Len(s) + Len(t)
           /\ \A k \in 1 .. Len(s) : (s \o t)[k] = s[k]
           /\ \A k \in 1 .. Len(t) : (s \o t)[Len(s) + k] = t[k]
<1>1. Len(s) \in Nat /\ Len(t) \in Nat
  BY LenProperties
<1>2. /\ s \o t \in Seq(R) /\ Len(s \o t) = Len(s) + Len(t)
      /\ \A k \in 1 .. Len(s) + Len(t) :
            (s \o t)[k] = IF k <= Len(s) THEN s[k] ELSE t[k - Len(s)]
  BY ConcatProperties
<1>3. ASSUME NEW k \in 1 .. Len(t) PROVE (s \o t)[Len(s) + k] = t[k]
  <2>1. /\ Len(s) + k \in 1 .. Len(s) + Len(t) /\ ~(Len(s) + k <= Len(s))
        /\ Len(s) + k - Len(s) = k
    BY <1>1
  <2> QED BY <1>2, <2>1
<1> QED BY <1>1, <1>2, <1>3

\* The same of three lists.
LEMMA JoinedTwice ==
    ASSUME NEW R, NEW a \in Seq(R), NEW m \in Seq(R), NEW c \in Seq(R)
    PROVE  /\ a \o m \o c \in Seq(R) /\ Len(a \o m \o c) = Len(a) + Len(m) + Len(c)
           /\ \A k \in 1 .. Len(a) : (a \o m \o c)[k] = a[k]
           /\ \A k \in 1 .. Len(m) : (a \o m \o c)[Len(a) + k] = m[k]
           /\ \A k \in 1 .. Len(c) : (a \o m \o c)[Len(a) + Len(m) + k] = c[k]
<1>1. Len(a) \in Nat /\ Len(m) \in Nat /\ Len(c) \in Nat
  BY LenProperties
<1>2. PICK b : b = a \o m
  OBVIOUS
<1>3. b \in Seq(R)
  BY <1>2, ConcatProperties
<1>4. Len(b) = Len(a) + Len(m)
  BY <1>2, Joined
<1>5. /\ \A k \in 1 .. Len(a) : b[k] = a[k]
      /\ \A k \in 1 .. Len(m) : b[Len(a) + k] = m[k]
  BY <1>2, Joined
<1>6. b \o c \in Seq(R) /\ Len(b \o c) = Len(b) + Len(c)
  BY <1>3, Joined
<1>7. \A k \in 1 .. Len(b) : (b \o c)[k] = b[k]
  BY <1>3, Joined
<1>8. \A k \in 1 .. Len(c) : (b \o c)[Len(b) + k] = c[k]
  BY <1>3, Joined
<1> QED BY <1>1, <1>2, <1>4, <1>5, <1>6, <1>7, <1>8

\* A list over a set is a list over a larger one.
LEMMA WiderSeq ==
    ASSUME NEW R, NEW S, R \subseteq S, NEW s \in Seq(R)
    PROVE  s \in Seq(S)
<1>1. Len(s) \in Nat /\ s \in [1 .. Len(s) -> R]
  BY LenProperties
<1>2. s \in [1 .. Len(s) -> S]
  BY <1>1
<1> QED BY <1>1, <1>2, SeqDef

\* The middle of a list, from lo to hi, is replaced by another.
Splice(list, lo, mid, hi) ==
    SubSeq(list, 1, lo - 1) \o mid \o SubSeq(list, hi + 1, Len(list))

\* Where the new entries are in it, and the old ones around them.
HasParts(r, list, lo, mid, hi) ==
    /\ Len(r) = lo - 1 + Len(mid) + Len(list) - hi
    /\ \A k \in 1 .. lo - 1 : r[k] = list[k]
    /\ \A k \in 1 .. Len(mid) : r[lo - 1 + k] = mid[k]
    /\ \A k \in hi + 1 .. Len(list) : r[k - hi + lo - 1 + Len(mid)] = list[k]

\* The result of a splice is a list with these entries.
LEMMA Spliced ==
    ASSUME NEW R, NEW list \in Seq(R), NEW mid \in Seq(R),
           NEW lo \in 1 .. Len(list), NEW hi \in lo .. Len(list)
    PROVE  /\ Splice(list, lo, mid, hi) \in Seq(R)
           /\ HasParts(Splice(list, lo, mid, hi), list, lo, mid, hi)
<1>1. Len(list) \in Nat /\ Len(mid) \in Nat
  BY LenProperties
<1>2. PICK a : a = SubSeq(list, 1, lo - 1)
  OBVIOUS
<1>3. a \in Seq(R) /\ Len(a) = lo - 1 /\ \A k \in 1 .. lo - 1 : a[k] = list[k]
  BY <1>1, <1>2, SubSeqProperties
<1>4. PICK c : c = SubSeq(list, hi + 1, Len(list))
  OBVIOUS
<1>5. /\ c \in Seq(R) /\ Len(c) = Len(list) - hi
      /\ \A k \in 1 .. Len(list) - hi : c[k] = list[hi + k]
  BY <1>1, <1>4, SubSeqProperties
<1>6. PICK r : r = a \o mid \o c
  OBVIOUS
<1>7. /\ r \in Seq(R) /\ Len(r) = Len(a) + Len(mid) + Len(c)
      /\ \A k \in 1 .. Len(a) : r[k] = a[k]
      /\ \A k \in 1 .. Len(mid) : r[Len(a) + k] = mid[k]
      /\ \A k \in 1 .. Len(c) : r[Len(a) + Len(mid) + k] = c[k]
  <2>1. a \in Seq(R) /\ c \in Seq(R)
    BY <1>3, <1>5
  <2>2. a \o mid \o c \in Seq(R) /\ Len(a \o mid \o c) = Len(a) + Len(mid) + Len(c)
    BY <2>1, JoinedTwice
  <2>3. \A k \in 1 .. Len(a) : (a \o mid \o c)[k] = a[k]
    BY <2>1, JoinedTwice
  <2>4. \A k \in 1 .. Len(mid) : (a \o mid \o c)[Len(a) + k] = mid[k]
    BY <2>1, JoinedTwice
  <2>5. \A k \in 1 .. Len(c) : (a \o mid \o c)[Len(a) + Len(mid) + k] = c[k]
    BY <2>1, JoinedTwice
  <2> QED BY <1>6, <2>2, <2>3, <2>4, <2>5
<1>8. r \in Seq(R) /\ Len(r) = lo - 1 + Len(mid) + Len(list) - hi
  BY <1>1, <1>3, <1>5, <1>7
<1>9. /\ \A k \in 1 .. lo - 1 : r[k] = list[k]
      /\ \A k \in 1 .. Len(mid) : r[lo - 1 + k] = mid[k]
  BY <1>3, <1>7
<1>10. ASSUME NEW k \in hi + 1 .. Len(list)
      PROVE  r[k - hi + lo - 1 + Len(mid)] = list[k]
  <2>1. k - hi \in 1 .. Len(c) /\ hi + (k - hi) = k
    BY <1>1, <1>5
  <2>2. k - hi + lo - 1 + Len(mid) = Len(a) + Len(mid) + (k - hi)
    BY <1>1, <1>3
  <2> QED BY <1>5, <1>7, <2>1, <2>2
<1> QED BY <1>2, <1>4, <1>6, <1>8, <1>9, <1>10 DEF Splice, HasParts

-----------------------------------------------------------------------------
(* The cursor of next fit                                                  *)

\* What a search of next fit takes leaves the cursor on a free block, or on the
\* head when none is left.
LEMMA AllocateKeeps ==
    ASSUME Inv, myStrategy = "next", NEW requested, NextFit # 0,
           AllocateFrom(NextFit, requested)
    PROVE  Inv'
<1> DEFINE i == NextFit
           n == Len(blocks)
<1>1. PICK V : blocks \in Seq(BlocksOf(V))
  BY DEF Inv
<1>2. n \in Nat /\ DOMAIN blocks = 1 .. n
  BY <1>1, LenProperties
<1>3. next \in 1 .. n
  BY DEF Inv, CursorIn
<1>4. i \in 1 .. n
  <2>1. {j \in next .. n : ~blocks[j].alloc} \in SUBSET Nat
    BY <1>2, <1>3
  <2>2. i \in next .. n
    BY <2>1, EarliestIn DEF NextFit
  <2> QED BY <1>2, <1>3, <2>2
<1> DEFINE b == blocks[i]
           used == [b EXCEPT !.alloc = TRUE, !.size = requested]
           rest == [ptr |-> b.ptr + requested, size |-> b.size - requested, alloc |-> FALSE]
           W == V \cup {requested, b.ptr + requested, b.size - requested}
<1>5. b \in BlocksOf(V) /\ blocks \in Seq(BlocksOf(W)) /\ used \in BlocksOf(W)
      /\ rest \in BlocksOf(W) /\ used.alloc = TRUE /\ rest.alloc = FALSE
  <2>1. b \in BlocksOf(V)
    BY <1>1, <1>2, <1>4
  <2>2. BlocksOf(V) \subseteq BlocksOf(W)
    BY DEF BlocksOf
  <2>3. blocks \in Seq(BlocksOf(W))
    BY <1>1, <2>2, WiderSeq
  <2>4. used \in BlocksOf(W) /\ rest \in BlocksOf(W) /\ used.alloc = TRUE /\ rest.alloc = FALSE
    BY <2>1 DEF BlocksOf
  <2> QED BY <2>1, <2>3, <2>4
<1> HIDE DEF i, b, used, rest, W
<1>6. blocks' = Taken(i, requested) /\ next' = CursorAfter(blocks', i) /\ myStrategy' = "next"
  BY DEF AllocateFrom, i
<1>7. /\ blocks' \in Seq(BlocksOf(W)) /\ Len(blocks') >= n
      /\ blocks'[i].alloc = TRUE
  <2>1. CASE b.size = requested
    <3>1. blocks' = [blocks EXCEPT ![i] = used]
      BY <1>6, <2>1 DEF Taken, b, used
    <3> QED BY <1>2, <1>4, <1>5, <3>1, ExceptSeq
  <2>2. CASE b.size # requested
    <3>1. blocks' = Splice(blocks, i, <<used, rest>>, i)
      BY <1>6, <2>2 DEF Taken, b, used, rest, Splice
    <3>2. <<used, rest>> \in Seq(BlocksOf(W)) /\ Len(<<used, rest>>) = 2 /\ <<used, rest>>[1] = used
      BY <1>5
    <3>3. i \in 1 .. Len(blocks) /\ i \in i .. Len(blocks) /\ blocks \in Seq(BlocksOf(W))
      BY <1>2, <1>4, <1>5
    <3> HIDE DEF n
    <3>4. blocks' \in Seq(BlocksOf(W)) /\ HasParts(blocks', blocks, i, <<used, rest>>, i)
      BY <3>1, <3>2, <3>3, Spliced
    <3>5. Len(blocks') >= n
      BY <1>2, <3>2, <3>3, <3>4 DEF HasParts, n
    <3>6. blocks'[i - 1 + 1] = used /\ i - 1 + 1 = i
      BY <3>2, <3>3, <3>4 DEF HasParts
    <3> QED BY <1>5, <3>4, <3>5, <3>6
  <2> QED BY <2>1, <2>2
<1>8. CursorIn(blocks', next')
  <2> DEFINE m == Len(blocks')
             after  == {j \in i + 1 .. m : ~blocks'[j].alloc}
             before == {j \in 1 .. i - 1 : ~blocks'[j].alloc}
  <2>1. m \in Nat /\ i \in 1 .. m /\ after \in SUBSET Nat /\ before \in SUBSET Nat
    BY <1>2, <1>4, <1>7, LenProperties
  <2>2. CASE after # {}
    <3>1. next' = Min(after)
      BY <1>6, <2>2 DEF CursorAfter
    <3>2. next' \in after
      BY <2>1, <2>2, <3>1, LeastPlace
    <3> QED BY <2>1, <3>2 DEF CursorIn
  <2>3. CASE after = {} /\ before # {}
    <3>1. next' = Min(before)
      BY <1>6, <2>3 DEF CursorAfter
    <3>2. next' \in before
      BY <2>1, <2>3, <3>1, LeastPlace
    <3> QED BY <2>1, <3>2 DEF CursorIn
  <2>4. CASE after = {} /\ before = {}
    <3>1. next' = 1
      BY <1>6, <2>4 DEF CursorAfter
    <3> QED BY <2>1, <3>1 DEF CursorIn
  <2> QED BY <2>2, <2>3, <2>4
<1> QED BY <1>6, <1>7, <1>8 DEF Inv

\* Merging moves the cursor with the block it is on, and onto the merged block when
\* its own is gone.
LEMMA MergeKeeps ==
    ASSUME NEW V, NEW list \in Seq(BlocksOf(V)), NEW i \in 1 .. Len(list), ~list[i].alloc,
           CursorIn(list, next), MergeBlocks(list, i)
    PROVE  (\E W : blocks' \in Seq(BlocksOf(W))) /\ CursorIn(blocks', next')
<1> DEFINE n == Len(list)
           lows == {j \in 1 .. i : \A k \in j .. i : ~list[k].alloc}
           highs == {j \in i .. n : \A k \in i .. j : ~list[k].alloc}
           lo == Min(lows)
           hi == Max(highs)
           size == FoldSeq(LAMBDA b, sum : b.size + sum, 0, SubSeq(list, lo, hi))
           merged == [list[lo] EXCEPT !.size = size]
           W == V \cup {size}
<1>1. n \in Nat /\ DOMAIN list = 1 .. n /\ next \in 1 .. n
  BY LenProperties DEF CursorIn
<1>2. lo \in 1 .. i /\ hi \in i .. n /\ ~list[lo].alloc
  <2>1. i \in lows /\ lows \in SUBSET Nat
    BY <1>1
  <2>2. lo \in lows
    BY <2>1, LeastPlace
  <2>3. i \in highs /\ highs \in SUBSET (0 .. n)
    BY <1>1
  <2>4. hi \in highs
    BY <1>1, <2>3, GreatestPlace
  <2>5. lo \in lo .. i
    BY <2>2
  <2> QED BY <2>2, <2>4, <2>5
<1>3. /\ blocks' = Splice(list, lo, <<merged>>, hi)
      /\ next' = CASE next < lo -> next
                   [] next \in lo .. hi -> lo
                   [] next > hi -> next - (hi - lo)
  BY DEF MergeBlocks, Splice
<1>4. list \in Seq(BlocksOf(W)) /\ merged \in BlocksOf(W) /\ merged.alloc = list[lo].alloc
  <2> HIDE DEF lo, hi, size
  <2>1. list[lo] \in BlocksOf(V)
    BY <1>1, <1>2
  <2>2. BlocksOf(V) \subseteq BlocksOf(W)
    BY DEF BlocksOf
  <2>3. merged \in BlocksOf(W) /\ merged.alloc = list[lo].alloc
    BY <2>1 DEF BlocksOf
  <2>4. list \in Seq(BlocksOf(W))
    BY <2>2, WiderSeq
  <2> QED BY <2>3, <2>4
<1> HIDE DEF lo, hi, merged, W
<1>5. lo \in 1 .. n /\ hi \in lo .. n
  BY <1>1, <1>2
<1>6. <<merged>> \in Seq(BlocksOf(W)) /\ Len(<<merged>>) = 1 /\ <<merged>>[1] = merged
  BY <1>4
<1> DEFINE mid == <<merged>>
<1> HIDE DEF mid
<1>7. /\ mid \in Seq(BlocksOf(W)) /\ lo \in 1 .. Len(list) /\ hi \in lo .. Len(list)
      /\ list \in Seq(BlocksOf(W)) /\ blocks' = Splice(list, lo, mid, hi)
  BY <1>3, <1>4, <1>5, <1>6 DEF mid
<1> HIDE DEF n
<1>8. blocks' \in Seq(BlocksOf(W)) /\ HasParts(blocks', list, lo, mid, hi)
  BY <1>7, Spliced
<1>9. Len(blocks') = n - hi + lo
  BY <1>1, <1>5, <1>6, <1>8 DEF mid, n, HasParts
<1>10. blocks'[lo] = merged
  <2>1. blocks'[lo - 1 + 1] = merged
    BY <1>6, <1>8 DEF mid, HasParts
  <2> QED BY <1>1, <1>5, <2>1
<1>11. ASSUME NEW k \in hi + 1 .. n PROVE blocks'[k - hi + lo] = list[k]
  <2>1. blocks'[k - hi + lo - 1 + Len(mid)] = list[k]
    BY <1>8 DEF HasParts, n
  <2>2. k - hi + lo - 1 + Len(mid) = k - hi + lo
    BY <1>1, <1>5, <1>6 DEF mid
  <2> QED BY <2>1, <2>2
<1>12. CursorIn(blocks', next')
  <2>1. Len(blocks') = n - hi + lo /\ lo \in 1 .. n - hi + lo /\ ~blocks'[lo].alloc
    BY <1>1, <1>2, <1>4, <1>5, <1>9, <1>10
  <2>2. CASE next < lo
    <3>1. next' = next
      BY <1>1, <1>3, <1>5, <2>2
    <3>2. lo \in next .. Len(blocks') /\ next \in 1 .. Len(blocks')
      BY <1>1, <1>5, <2>1, <2>2
    <3> QED BY <2>1, <3>1, <3>2 DEF CursorIn
  <2>3. CASE next \in lo .. hi
    <3>1. next' = lo
      BY <1>1, <1>3, <1>5, <2>3
    <3>2. lo \in lo .. Len(blocks')
      BY <1>1, <1>5, <2>1
    <3> QED BY <2>1, <3>1, <3>2 DEF CursorIn
  <2>4. CASE next > hi
    <3>1. next' = next - (hi - lo)
      BY <1>1, <1>3, <1>5, <2>4
    <3>2. PICK k \in next .. n : ~list[k].alloc
      BY <1>1, <1>5, <2>4 DEF CursorIn, n
    <3>3. ~blocks'[k - hi + lo].alloc
      BY <1>1, <1>5, <1>11, <2>4, <3>2
    <3>4. k - hi + lo \in next' .. Len(blocks') /\ next' \in 1 .. Len(blocks')
      BY <1>1, <1>5, <2>1, <2>4, <3>1, <3>2
    <3> QED BY <3>3, <3>4 DEF CursorIn
  <2> QED BY <1>1, <1>5, <2>2, <2>3, <2>4
<1> QED BY <1>8, <1>12

\* myfree: the block that is freed can only help the cursor, before the merge.
LEMMA FreeKeeps ==
    ASSUME Inv, NEW ptr, Myfree(ptr)
    PROVE  Inv'
<1> SUFFICES ASSUME myStrategy = "next" PROVE Inv'
  BY DEF Inv, Myfree
<1> DEFINE places == {j \in DOMAIN blocks : blocks[j].ptr = ptr}
           i == Earliest(places)
           list == [blocks EXCEPT ![i].alloc = FALSE]
<1>1. PICK V : blocks \in Seq(BlocksOf(V))
  BY DEF Inv
<1>2. Len(blocks) \in Nat /\ DOMAIN blocks = 1 .. Len(blocks)
  BY <1>1, LenProperties
<1>3. CASE i = 0
  BY <1>1, <1>3 DEF Inv, Myfree, CursorIn
<1>4. CASE i # 0
  <2>1. i \in 1 .. Len(blocks)
    <3>1. places \in SUBSET Nat
      BY <1>2
    <3> QED BY <1>2, <1>4, <3>1, EarliestIn
  <2>2. MergeBlocks(list, i) /\ myStrategy' = "next"
    BY <1>4 DEF Myfree
  <2> HIDE DEF i
  <2>3. blocks[i] \in BlocksOf(V)
    BY <1>1, <1>2, <2>1
  <2>4. list \in Seq(BlocksOf(V)) /\ Len(list) = Len(blocks)
    <3>1. [blocks[i] EXCEPT !.alloc = FALSE] \in BlocksOf(V)
      BY <2>3 DEF BlocksOf
    <3> QED BY <1>1, <1>2, <2>1, <3>1, ExceptSeq
  <2>5. /\ ~list[i].alloc
        /\ \A k \in 1 .. Len(blocks) : ~blocks[k].alloc => ~list[k].alloc
    BY <1>1, <1>2, <2>1, <2>3 DEF BlocksOf
  <2> HIDE DEF list
  <2>6. CursorIn(list, next)
    BY <1>2, <2>4, <2>5 DEF Inv, CursorIn
  <2>7. (\E W : blocks' \in Seq(BlocksOf(W))) /\ CursorIn(blocks', next')
    BY <2>1, <2>2, <2>4, <2>5, <2>6, MergeKeeps
  <2> QED BY <2>2, <2>7 DEF Inv
<1> QED BY <1>3, <1>4

\* initmem puts the cursor on the only block; the other calls are those above.
LEMMA InvAlways == Spec => []Inv
<1>1. Init => Inv
  BY DEF Init, Inv
<1>2. Inv /\ [Next]_vars => Inv'
  <2> SUFFICES ASSUME Inv, [Next]_vars PROVE Inv' OBVIOUS
  <2>1. ASSUME NEW strategy, NEW sz, Initmem(strategy, sz) PROVE Inv'
    <3> DEFINE V == {0, sz}
    <3>1. blocks' = <<[ptr |-> 0, size |-> sz, alloc |-> FALSE]>> /\ next' = 1
      BY <2>1 DEF Initmem
    <3>2. blocks' \in Seq(BlocksOf(V)) /\ Len(blocks') = 1
      BY <3>1 DEF BlocksOf
    <3> QED BY <3>1, <3>2 DEF Inv, CursorIn
  <2>2. ASSUME NEW requested \in Requests, Mymalloc(requested) PROVE Inv'
    <3>1. CASE myStrategy # "next"
      BY <2>2, <3>1 DEF Mymalloc, AllocateFrom, Inv
    <3>2. CASE myStrategy = "next"
      <4>1. Chosen(requested) = NextFit
        BY <3>2 DEF Chosen
      <4>2. CASE NextFit # 0 /\ AllocateFrom(NextFit, requested)
        BY <3>2, <4>2, AllocateKeeps
      <4>3. CASE UNCHANGED <<myStrategy, blocks, next>>
        BY <4>3 DEF Inv, CursorIn
      <4> QED BY <2>2, <4>1, <4>2, <4>3 DEF Mymalloc
    <3> QED BY <3>1, <3>2
  <2>3. ASSUME NEW requested, MymallocUnset(requested) PROVE Inv'
    BY <2>3 DEF MymallocUnset, Inv
  <2>4. ASSUME NEW ptr, Myfree(ptr) PROVE Inv'
    BY <2>4, FreeKeeps
  <2>5. CASE UNCHANGED vars
    BY <2>5 DEF vars, Inv, CursorIn
  <2> QED BY <2>1, <2>2, <2>3, <2>4, <2>5 DEF Next
<1> QED BY <1>1, <1>2, PTL DEF Spec

\* Whatever was split and merged before, and whatever sizes were asked for, the while
\* loop of next fit leaves the list only when no block is free.
THEOREM CursorNeverLost == Spec => []CursorReachesFree
<1>1. Inv => CursorReachesFree
  <2> SUFFICES ASSUME Inv, myStrategy = "next" PROVE CursorReachesFree
    BY DEF CursorReachesFree
  <2>1. PICK V : blocks \in Seq(BlocksOf(V))
    BY DEF Inv
  <2>2. Len(blocks) \in Nat /\ DOMAIN blocks = 1 .. Len(blocks)
    BY <2>1, LenProperties
  <2> QED BY <2>2 DEF Inv, CursorIn, CursorReachesFree, FreeBlocks
<1> QED BY <1>1, InvAlways, PTL

-----------------------------------------------------------------------------
(* The blocks tile the pool                                                *)

IntBlocks == BlocksOf(Int)
End(b) == b.ptr + b.size
Linked(a, b) == b.ptr = End(a) /\ (a.alloc \/ b.alloc)

\* The blocks of a list follow one another from address 0 to the end of the pool, and
\* no two free ones are side by side.
Chain(list, total) ==
    /\ list \in Seq(IntBlocks)
    /\ Len(list) > 0 => list[1].ptr = 0 /\ End(list[Len(list)]) = total
    /\ \A k \in 1 .. Len(list) - 1 : Linked(list[k], list[k + 1])

\* The sum of the sizes of up to three blocks that follow one another.
LEMMA FoldShort ==
    ASSUME NEW s \in Seq(IntBlocks), NEW n \in 1 .. 3, Len(s) = n,
           \A k \in 1 .. n - 1 : s[k + 1].ptr = End(s[k])
    PROVE  FoldSeq(LAMBDA b, sum : b.size + sum, 0, s) = End(s[n]) - s[1].ptr
<1>1. DOMAIN s = 1 .. n /\ \A k \in 1 .. n : s[k].ptr \in Int /\ s[k].size \in Int
  <2>1. \A k \in 1 .. n : s[k] \in IntBlocks
    BY LenProperties
  <2> QED BY <2>1, LenProperties DEF IntBlocks, BlocksOf
<1> DEFINE D == 1 .. n
           Part(t, k) == IF k \in t THEN s[k].size ELSE 0
           Pick(t) == CHOOSE x \in t : TRUE
           Step(g) == [t \in SUBSET D |->
                         IF t = {} THEN 0 ELSE s[Pick(t)].size + g[t \ {Pick(t)}]]
           W == [t \in SUBSET D |-> Part(t, 1) + Part(t, 2) + Part(t, 3)]
           iter == CHOOSE g : g = Step(g)
<1>2. FoldSeq(LAMBDA b, sum : b.size + sum, 0, s) = iter[D]
  BY <1>1 DEF FoldSeq, FoldFunction, FoldFunctionOnSet, MapThenFoldSet
<1>3. \A t \in SUBSET D : t # {} => Pick(t) \in t
  OBVIOUS
<1>4. \A t \in SUBSET D, x \in D : x \in t => W[t] = s[x].size + W[t \ {x}]
  <2> SUFFICES ASSUME NEW t \in SUBSET D, NEW x \in D, x \in t
               PROVE  W[t] = s[x].size + W[t \ {x}]
    OBVIOUS
  <2>1. PICK a \in Int, b \in Int, c \in Int :
           a = Part(t, 1) /\ b = Part(t, 2) /\ c = Part(t, 3)
    <3>1. Part(t, 1) \in Int /\ Part(t, 2) \in Int /\ Part(t, 3) \in Int
      BY <1>1
    <3> HIDE DEF Part
    <3> QED BY <3>1
  <2>2. W[t] = a + b + c
    BY <2>1
  <2>3. PICK p, q, r : p = Part(t \ {x}, 1) /\ q = Part(t \ {x}, 2) /\ r = Part(t \ {x}, 3)
    OBVIOUS
  <2>4. W[t \ {x}] = p + q + r
    BY <2>3
  <2>5. PICK v \in Int : v = s[x].size
    BY <1>1
  <2>6. x \in {1, 2, 3}
    OBVIOUS
  <2>7. CASE x = 1
    <3>1. p = 0 /\ q = b /\ r = c /\ a = v
      BY <2>1, <2>3, <2>5, <2>7
    <3> HIDE DEF W, Part
    <3> QED BY <2>2, <2>4, <2>5, <3>1
  <2>8. CASE x = 2
    <3>1. p = a /\ q = 0 /\ r = c /\ b = v
      BY <2>1, <2>3, <2>5, <2>8
    <3> HIDE DEF W, Part
    <3> QED BY <2>2, <2>4, <2>5, <3>1
  <2>9. CASE x = 3
    <3>1. p = a /\ q = b /\ r = 0 /\ c = v
      BY <2>1, <2>3, <2>5, <2>9
    <3> HIDE DEF W, Part
    <3> QED BY <2>2, <2>4, <2>5, <3>1
  <2> QED BY <2>6, <2>7, <2>8, <2>9
<1>5. W = Step(W)
  <2>1. \A t \in SUBSET D : W[t] = IF t = {} THEN 0 ELSE s[Pick(t)].size + W[t \ {Pick(t)}]
    <3> SUFFICES ASSUME NEW t \in SUBSET D
                 PROVE  W[t] = IF t = {} THEN 0 ELSE s[Pick(t)].size + W[t \ {Pick(t)}]
      OBVIOUS
    <3>1. CASE t = {}
      BY <3>1
    <3>2. CASE t # {}
      <4>1. Pick(t) \in t /\ Pick(t) \in D
        BY <1>3, <3>2
      <4> HIDE DEF W, Pick
      <4> QED BY <1>4, <3>2, <4>1
    <3> QED BY <3>1, <3>2
  <2>2. W = [t \in SUBSET D |-> W[t]]
    OBVIOUS
  <2> HIDE DEF W, Pick
  <2> QED BY <2>1, <2>2
<1>6. iter = Step(iter)
  <2> HIDE DEF W, Step
  <2> QED BY <1>5
<1>7. \A t \in SUBSET D : iter[t] = IF t = {} THEN 0 ELSE s[Pick(t)].size + iter[t \ {Pick(t)}]
  <2>1. \A g, t : t \in SUBSET D =>
           Step(g)[t] = IF t = {} THEN 0 ELSE s[Pick(t)].size + g[t \ {Pick(t)}]
    BY DEF Step
  <2> HIDE DEF Step, iter, Pick
  <2> QED BY <1>6, <2>1
<1> HIDE DEF iter, W, Pick
<1>8. iter[{}] = 0 /\ W[{}] = 0
  <2>1. W[{}] = 0
    BY DEF W
  <2> QED BY <1>7, <2>1
<1> DEFINE Good(t) == iter[t] = W[t]
<1>9. \A t \in SUBSET D : t # {} /\ (\A x \in t : Good(t \ {x})) => Good(t)
  <2> SUFFICES ASSUME NEW t \in SUBSET D, t # {}, \A x \in t : Good(t \ {x})
               PROVE  Good(t)
    OBVIOUS
  <2>1. PICK x \in t : x = Pick(t)
    BY <1>3
  <2>2. x \in D
    OBVIOUS
  <2>3. iter[t] = s[x].size + iter[t \ {x}]
    BY <1>7, <2>1
  <2>4. W[t] = s[x].size + W[t \ {x}]
    BY <1>4, <2>2
  <2> QED BY <2>3, <2>4
<1> HIDE DEF Good
<1>10. Good({})
  BY <1>8 DEF Good
<1>11. \A a \in D : Good({a})
  <2> SUFFICES ASSUME NEW a \in D PROVE Good({a})
    OBVIOUS
  <2>1. {a} \ {a} = {} /\ {a} \in SUBSET D /\ {a} # {}
    OBVIOUS
  <2>2. \A x \in {a} : Good({a} \ {x})
    BY <1>10, <2>1
  <2> HIDE DEF D
  <2> QED BY <1>9, <2>1, <2>2
<1>12. \A a, b \in D : a # b => Good({a, b})
  <2> SUFFICES ASSUME NEW a \in D, NEW b \in D, a # b PROVE Good({a, b})
    OBVIOUS
  <2> HIDE DEF D
  <2>1. {a, b} \ {a} = {b} /\ {a, b} \ {b} = {a} /\ {a, b} \in SUBSET D /\ {a, b} # {}
    OBVIOUS
  <2>2. Good({a}) /\ Good({b})
    BY <1>11
  <2>3. \A x \in {a, b} : Good({a, b} \ {x})
    BY <2>1, <2>2
  <2> QED BY <1>9, <2>1, <2>3
<1>13. \A a, b, c \in D : a # b /\ a # c /\ b # c => Good({a, b, c})
  <2> SUFFICES ASSUME NEW a \in D, NEW b \in D, NEW c \in D, a # b, a # c, b # c
               PROVE  Good({a, b, c})
    OBVIOUS
  <2> HIDE DEF D
  <2>1. /\ {a, b, c} \ {a} = {b, c} /\ {a, b, c} \ {b} = {a, c} /\ {a, b, c} \ {c} = {a, b}
        /\ {a, b, c} \in SUBSET D /\ {a, b, c} # {}
    OBVIOUS
  <2>2. Good({b, c}) /\ Good({a, c}) /\ Good({a, b})
    BY <1>12
  <2>3. \A x \in {a, b, c} : Good({a, b, c} \ {x})
    BY <2>1, <2>2
  <2> QED BY <1>9, <2>1, <2>3
<1>14. iter[D] = W[D]
  <2>1. CASE n = 1
    <3>1. D = {1} /\ 1 \in D
      BY <2>1
    <3>2. Good({1})
      BY <1>11, <3>1
    <3> QED BY <3>1, <3>2 DEF Good
  <2>2. CASE n = 2
    <3>1. D = {1, 2} /\ 1 \in D /\ 2 \in D /\ 1 # 2
      BY <2>2
    <3>2. Good({1, 2})
      BY <1>12, <3>1
    <3> QED BY <3>1, <3>2 DEF Good
  <2>3. CASE n = 3
    <3>1. D = {1, 2, 3} /\ 1 \in D /\ 2 \in D /\ 3 \in D /\ 1 # 2 /\ 1 # 3 /\ 2 # 3
      BY <2>3
    <3>2. Good({1, 2, 3})
      BY <1>13, <3>1
    <3> QED BY <3>1, <3>2 DEF Good
  <2> QED BY <2>1, <2>2, <2>3
<1>15. W[D] = End(s[n]) - s[1].ptr
  <2>1. W[D] = Part(D, 1) + Part(D, 2) + Part(D, 3)
    BY DEF W
  <2>2. CASE n = 1
    BY <1>1, <2>1, <2>2 DEF End
  <2>3. CASE n = 2
    <3>1. s[2].ptr = s[1].ptr + s[1].size
      BY <2>3 DEF End
    <3> QED BY <1>1, <2>1, <2>3, <3>1 DEF End
  <2>4. CASE n = 3
    <3>1. s[2].ptr = s[1].ptr + s[1].size /\ s[3].ptr = s[2].ptr + s[2].size
      BY <2>4 DEF End
    <3> QED BY <1>1, <2>1, <2>4, <3>1 DEF End
  <2> QED BY <2>2, <2>3, <2>4
<1> QED BY <1>2, <1>14, <1>15

\* A list stays a chain when blocks lo to hi are replaced by a chain that begins and
\* ends where they do and is linked to their neighbours.
LEMMA SpliceChain ==
    ASSUME NEW total \in Int, NEW list \in Seq(IntBlocks), NEW mid \in Seq(IntBlocks),
           NEW lo \in 1 .. Len(list), NEW hi \in lo .. Len(list), Len(mid) > 0,
           lo = 1 => mid[1].ptr = 0,
           lo > 1 => list[1].ptr = 0 /\ Linked(list[lo - 1], mid[1]),
           hi = Len(list) => End(mid[Len(mid)]) = total,
           hi < Len(list) =>
              End(list[Len(list)]) = total /\ Linked(mid[Len(mid)], list[hi + 1]),
           \A k \in 1 .. lo - 2 : Linked(list[k], list[k + 1]),
           \A k \in 1 .. Len(mid) - 1 : Linked(mid[k], mid[k + 1]),
           \A k \in hi + 1 .. Len(list) - 1 : Linked(list[k], list[k + 1])
    PROVE  Chain(Splice(list, lo, mid, hi), total)
<1>1. PICK n \in Nat : n = Len(list)
  BY LenProperties
<1>2. PICK m \in Nat \ {0} : m = Len(mid)
  BY LenProperties
<1>3. PICK r : r = Splice(list, lo, mid, hi)
  OBVIOUS
<1>4. r \in Seq(IntBlocks) /\ HasParts(r, list, lo, mid, hi)
  BY <1>3, Spliced
<1>5. lo \in 1 .. n /\ hi \in lo .. n
  BY <1>1
<1>6. PICK e \in Nat : e = lo - 1 + m
  <2>1. lo - 1 + m \in Nat
    BY <1>2, <1>5
  <2> QED BY <2>1
<1>7. /\ Len(r) = e + n - hi
      /\ \A k \in 1 .. lo - 1 : r[k] = list[k]
      /\ \A k \in 1 .. m : r[lo - 1 + k] = mid[k]
      /\ \A k \in hi + 1 .. n : r[k - hi + e] = list[k]
  <2>1. Len(r) = lo - 1 + m + n - hi
    BY <1>1, <1>2, <1>4 DEF HasParts
  <2>2. \A k \in hi + 1 .. n : r[k - hi + e] = list[k]
    <3> TAKE k \in hi + 1 .. n
    <3>1. r[k - hi + lo - 1 + m] = list[k]
      BY <1>1, <1>2, <1>4 DEF HasParts
    <3>2. k - hi + lo - 1 + m = k - hi + e
      BY <1>5, <1>6
    <3> QED BY <3>1, <3>2
  <2> QED BY <1>1, <1>2, <1>4, <1>5, <1>6, <2>1, <2>2 DEF HasParts
<1>8. r[lo] = mid[1] /\ r[e] = mid[m]
  <2>1. r[lo - 1 + 1] = mid[1] /\ r[lo - 1 + m] = mid[m]
    BY <1>2, <1>7
  <2> QED BY <1>5, <1>6, <2>1
<1>9. \A k \in 1 .. m : r[lo - 1 + k] = mid[k]
  BY <1>7
<1>10. \A j \in e + 1 .. Len(r) : r[j] = list[j - e + hi] /\ j - e + hi \in hi + 1 .. n
  <2> TAKE j \in e + 1 .. Len(r)
  <2>1. j - e + hi \in hi + 1 .. n /\ (j - e + hi) - hi + e = j
    BY <1>5, <1>6, <1>7
  <2> QED BY <1>7, <2>1
<1>11. \A k \in 1 .. Len(r) - 1 : Linked(r[k], r[k + 1])
  <2> SUFFICES ASSUME NEW k \in 1 .. Len(r) - 1 PROVE Linked(r[k], r[k + 1])
    OBVIOUS
  <2>1. e >= lo /\ e \in Nat /\ Len(r) \in Nat /\ k \in Nat
    BY <1>2, <1>5, <1>6, <1>7
  <2>2. CASE k < lo - 1
    <3>1. k \in 1 .. lo - 2 /\ k \in 1 .. lo - 1 /\ k + 1 \in 1 .. lo - 1
      BY <1>5, <2>2
    <3> QED BY <1>7, <3>1
  <2>3. CASE k = lo - 1
    <3>1. lo > 1 /\ k \in 1 .. lo - 1 /\ k + 1 = lo
      BY <1>5, <2>3
    <3> QED BY <1>7, <1>8, <2>3, <3>1
  <2>4. CASE lo <= k /\ k < e
    <3>1. PICK j \in 1 .. m - 1 : k = lo - 1 + j
      <4>1. k - lo + 1 \in 1 .. m - 1 /\ k = lo - 1 + (k - lo + 1)
        BY <1>2, <1>5, <1>6, <2>1, <2>4
      <4> QED BY <4>1
    <3>2. j \in 1 .. m /\ j + 1 \in 1 .. m /\ k + 1 = lo - 1 + (j + 1)
      BY <1>2, <1>5, <3>1
    <3>3. r[k] = mid[j] /\ r[k + 1] = mid[j + 1]
      BY <1>9, <3>1, <3>2
    <3> QED BY <1>2, <3>1, <3>3
  <2>5. CASE k = e
    <3>1. hi < n /\ k + 1 \in e + 1 .. Len(r) /\ (k + 1) - e + hi = hi + 1
      BY <1>5, <1>6, <1>7, <2>1, <2>5
    <3>2. r[k + 1] = list[(k + 1) - e + hi]
      BY <1>10, <3>1
    <3>3. r[k + 1] = list[hi + 1]
      BY <3>1, <3>2
    <3> QED BY <1>1, <1>2, <1>8, <2>5, <3>1, <3>3
  <2>6. CASE k > e
    <3>1. PICK j \in Nat : j = k - e + hi
      BY <1>5, <1>6, <2>1, <2>6
    <3>2. k \in e + 1 .. Len(r) /\ k + 1 \in e + 1 .. Len(r) /\ (k + 1) - e + hi = j + 1
      BY <1>5, <1>6, <2>1, <2>6, <3>1
    <3>3. r[k] = list[j] /\ r[k + 1] = list[j + 1] /\ j + 1 \in hi + 1 .. n
      <4>1. r[k] = list[j]
        BY <1>10, <3>1, <3>2
      <4>2. PICK k1, j1 : k1 = k + 1 /\ j1 = j + 1
        OBVIOUS
      <4>3. k1 \in e + 1 .. Len(r) /\ k1 - e + hi = j1
        BY <3>2, <4>2
      <4>4. r[k1] = list[j1] /\ j1 \in hi + 1 .. n
        BY <1>10, <4>3
      <4>5. r[k + 1] = list[j + 1] /\ j + 1 \in hi + 1 .. n
        <5>1. j + 1 = j1 /\ k + 1 = k1
          BY <4>2
        <5> QED BY <4>4, <5>1, Zenon
      <4> QED BY <4>1, <4>5
    <3>4. j \in hi + 1 .. n - 1
      <4>1. hi \in Nat /\ j >= hi + 1 /\ j + 1 <= n
        BY <1>5, <1>6, <2>1, <2>6, <3>1, <3>3
      <4> QED BY <4>1
    <3> QED BY <1>1, <3>3, <3>4
  <2> QED BY <1>5, <2>1, <2>2, <2>3, <2>4, <2>5, <2>6
<1>12. r[1].ptr = 0
  <2>1. CASE lo = 1
    BY <1>8, <2>1
  <2>2. CASE lo > 1
    BY <1>5, <1>7, <2>2
  <2> QED BY <1>5, <2>1, <2>2
<1>13. End(r[Len(r)]) = total
  <2>1. CASE hi = n
    <3>1. Len(r) = e
      BY <1>5, <1>6, <1>7, <2>1
    <3> QED BY <1>1, <1>2, <1>8, <2>1, <3>1
  <2>2. CASE hi < n
    <3>1. Len(r) \in e + 1 .. Len(r) /\ Len(r) - e + hi = n
      BY <1>5, <1>6, <1>7, <2>2
    <3>2. r[Len(r)] = list[n]
      BY <1>10, <3>1
    <3> QED BY <1>1, <2>2, <3>2
  <2> QED BY <1>5, <2>1, <2>2
<1> QED BY <1>3, <1>4, <1>11, <1>12, <1>13 DEF Chain

-----------------------------------------------------------------------------
(* The calls keep the blocks a chain                                       *)

\* A free block is taken, whole or with what it does not need in a new block.
LEMMA TakenChain ==
    ASSUME NEW total \in Int, Chain(blocks, total), NEW i \in 1 .. Len(blocks),
           ~blocks[i].alloc, NEW requested \in Int
    PROVE  Chain(Taken(i, requested), total)
<1> DEFINE b == blocks[i]
           used == [b EXCEPT !.alloc = TRUE, !.size = requested]
           rest == [ptr |-> b.ptr + requested, size |-> b.size - requested, alloc |-> FALSE]
<1>1. PICK n \in Nat : n = Len(blocks)
  BY LenProperties DEF Chain
<1>2. blocks \in Seq(IntBlocks) /\ DOMAIN blocks = 1 .. n
  BY <1>1, LenProperties DEF Chain
<1>3. b \in IntBlocks
  BY <1>1, <1>2
<1>4. PICK p \in Int, z \in Int : p = b.ptr /\ z = b.size
  BY <1>3 DEF IntBlocks, BlocksOf
<1>5. /\ used \in IntBlocks /\ used.ptr = p /\ used.size = requested /\ used.alloc = TRUE
  BY <1>3, <1>4 DEF IntBlocks, BlocksOf
<1>6. /\ rest \in IntBlocks /\ rest.ptr = p + requested /\ rest.size = z - requested
  BY <1>4 DEF IntBlocks, BlocksOf
<1>7. End(b) = p + z /\ End(used) = p + requested /\ End(rest) = p + z
  BY <1>4, <1>5, <1>6 DEF End
<1>8. /\ \A k \in 1 .. n - 1 : Linked(blocks[k], blocks[k + 1])
      /\ blocks[1].ptr = 0 /\ End(blocks[n]) = total
  BY <1>1 DEF Chain
<1>9. \A k \in 1 .. n : blocks[k] \in IntBlocks
  BY <1>2
<1>10. i > 1 => Linked(blocks[i - 1], b)
  <2>1. i > 1 => i - 1 \in 1 .. n - 1 /\ (i - 1) + 1 = i
    BY <1>1
  <2> QED BY <1>8, <2>1
<1>11. i < n => Linked(b, blocks[i + 1]) /\ blocks[i + 1].alloc
  <2>1. i < n => i \in 1 .. n - 1
    BY <1>1
  <2> QED BY <1>8, <2>1 DEF Linked
<1> HIDE DEF used, rest
<1>12. CASE z = requested
  <2>1. Taken(i, requested) = [blocks EXCEPT ![i] = used]
    BY <1>4, <1>12 DEF Taken, used
  <2>2. PICK r : r = [blocks EXCEPT ![i] = used]
    OBVIOUS
  <2>3. r \in Seq(IntBlocks) /\ Len(r) = n
    BY <1>1, <1>2, <1>5, <2>2, ExceptSeq
  <2>4. \A k \in 1 .. n : r[k] = IF k = i THEN used ELSE blocks[k]
    BY <1>2, <2>2
  <2>5. \A k \in 1 .. n : r[k].ptr = blocks[k].ptr /\ End(r[k]) = End(blocks[k])
    BY <1>4, <1>5, <1>7, <1>12, <2>4
  <2>6. \A k \in 1 .. n : blocks[k].alloc => r[k].alloc
    BY <1>5, <2>4
  <2>7. \A k \in 1 .. n - 1 : Linked(r[k], r[k + 1])
    <3> TAKE k \in 1 .. n - 1
    <3>1. k \in 1 .. n /\ k + 1 \in 1 .. n
      OBVIOUS
    <3> QED BY <1>8, <2>5, <2>6, <3>1 DEF Linked
  <2>8. n > 0 /\ 1 \in 1 .. n /\ n \in 1 .. n
    BY <1>1
  <2> QED BY <1>8, <2>1, <2>2, <2>3, <2>5, <2>7, <2>8 DEF Chain
<1>13. CASE z # requested
  <2> DEFINE mid == <<used, rest>>
  <2>1. Taken(i, requested) = Splice(blocks, i, mid, i)
    BY <1>4, <1>13 DEF Taken, used, rest, Splice
  <2>2. /\ mid \in Seq(IntBlocks) /\ Len(mid) = 2 /\ mid[1] = used /\ mid[2] = rest
    BY <1>5, <1>6
  <2> HIDE DEF mid, b
  <2>3. \A k \in 1 .. Len(mid) - 1 : Linked(mid[k], mid[k + 1])
    <3>1. Linked(used, rest)
      BY <1>5, <1>6, <1>7 DEF Linked
    <3>2. \A k \in 1 .. Len(mid) - 1 : k = 1
      BY <2>2
    <3> QED BY <2>2, <3>1, <3>2
  <2>4. i = 1 => mid[1].ptr = 0
    BY <1>4, <1>5, <1>8, <2>2 DEF b
  <2>5. i > 1 => blocks[1].ptr = 0 /\ Linked(blocks[i - 1], mid[1])
    BY <1>4, <1>5, <1>8, <1>10, <2>2 DEF Linked
  <2>6. i = n => End(mid[Len(mid)]) = total
    BY <1>7, <1>8, <2>2 DEF b
  <2>7. i < n => End(blocks[n]) = total /\ Linked(mid[Len(mid)], blocks[i + 1])
    BY <1>7, <1>8, <1>11, <2>2 DEF Linked
  <2>8. /\ \A k \in 1 .. i - 2 : Linked(blocks[k], blocks[k + 1])
        /\ \A k \in i + 1 .. n - 1 : Linked(blocks[k], blocks[k + 1])
    BY <1>1, <1>8
  <2>9. i \in i .. Len(blocks) /\ Len(mid) > 0
    BY <1>1, <2>2
  <2>10. Chain(Splice(blocks, i, mid, i), total)
    BY <1>1, <1>2, <2>2, <2>3, <2>4, <2>5, <2>6, <2>7, <2>8, <2>9, SpliceChain
  <2> QED BY <2>1, <2>10
<1> QED BY <1>12, <1>13

\* What merge_blocks makes of list: from lo to hi the blocks are free, those before and
\* after are not; of the blocks that become one only block i was not free before.
Merges(list, i, lo, hi, merged) ==
    /\ lo \in 1 .. i /\ lo >= i - 1 /\ hi \in i .. Len(list) /\ hi <= i + 1
    /\ \A k \in lo .. hi : ~list[k].alloc
    /\ lo > 1 => list[lo - 1].alloc
    /\ hi < Len(list) => list[hi + 1].alloc
    /\ merged \in IntBlocks /\ ~merged.alloc
    /\ merged.ptr = list[lo].ptr /\ End(merged) = End(list[hi])

\* The list once block i is not allocated: nothing else has changed, and only block i can
\* have a free neighbour.
Freed(list, i) ==
    LET n == Len(blocks)
    IN  /\ list \in Seq(IntBlocks) /\ Len(list) = n /\ DOMAIN list = 1 .. n
        /\ ~list[i].alloc
        /\ \A k \in 1 .. n : /\ list[k].ptr = blocks[k].ptr
                             /\ list[k].size = blocks[k].size
                             /\ k # i => list[k].alloc = blocks[k].alloc
        /\ \A k \in 1 .. n - 1 : list[k + 1].ptr = End(list[k])
        /\ \A k \in 1 .. n - 1 : k # i /\ k + 1 # i => list[k].alloc \/ list[k + 1].alloc

LEMMA FreedList ==
    ASSUME NEW total \in Int, Chain(blocks, total), NEW i \in 1 .. Len(blocks),
           NEW list, list = [blocks EXCEPT ![i].alloc = FALSE]
    PROVE  Freed(list, i)
<1>1. PICK n \in Nat : n = Len(blocks)
  BY LenProperties DEF Chain
<1>2. blocks \in Seq(IntBlocks) /\ DOMAIN blocks = 1 .. n /\ i \in 1 .. n
  BY <1>1, LenProperties DEF Chain
<1>3. \A k \in 1 .. n : blocks[k] \in IntBlocks
  BY <1>2
<1>4. PICK freed : freed = [blocks[i] EXCEPT !.alloc = FALSE]
  OBVIOUS
<1>5. /\ freed \in IntBlocks /\ freed.alloc = FALSE
      /\ freed.ptr = blocks[i].ptr /\ freed.size = blocks[i].size
  BY <1>2, <1>3, <1>4 DEF IntBlocks, BlocksOf
<1>6. list = [blocks EXCEPT ![i] = freed]
  BY <1>2, <1>4
<1>7. list \in Seq(IntBlocks) /\ Len(list) = n /\ DOMAIN list = 1 .. n
  <2>1. PICK r : r = [blocks EXCEPT ![i] = freed]
    OBVIOUS
  <2>2. r \in Seq(IntBlocks) /\ Len(r) = n
    BY <1>1, <1>2, <1>5, <2>1, ExceptSeq
  <2>3. DOMAIN r = 1 .. n
    BY <2>2, LenProperties
  <2> QED BY <1>6, <2>1, <2>2, <2>3
<1>8. \A k \in 1 .. n : list[k] = IF k = i THEN freed ELSE blocks[k]
  BY <1>2, <1>6
<1>9. \A k \in 1 .. n : list[k].ptr = blocks[k].ptr /\ list[k].size = blocks[k].size
  BY <1>5, <1>8
<1>10. /\ \A k \in 1 .. n - 1 : Linked(blocks[k], blocks[k + 1])
       /\ blocks[1].ptr = 0 /\ End(blocks[n]) = total
  BY <1>1, <1>2 DEF Chain
<1>11. \A k \in 1 .. n - 1 : list[k + 1].ptr = End(list[k])
  <2> TAKE k \in 1 .. n - 1
  <2>1. k \in 1 .. n /\ k + 1 \in 1 .. n
    OBVIOUS
  <2> QED BY <1>9, <1>10, <2>1 DEF Linked, End
<1>12. \A k \in 1 .. n - 1 : k # i /\ k + 1 # i => list[k].alloc \/ list[k + 1].alloc
  <2> TAKE k \in 1 .. n - 1
  <2>1. k \in 1 .. n /\ k + 1 \in 1 .. n
    OBVIOUS
  <2> QED BY <1>8, <1>10, <2>1 DEF Linked
<1> QED BY <1>1, <1>2, <1>5, <1>7, <1>8, <1>9, <1>11, <1>12 DEF Freed

IsMerged(list, i) ==
    \E lo, hi, merged :
        Merges(list, i, lo, hi, merged) /\ blocks' = Splice(list, lo, <<merged>>, hi)

\* merge_blocks makes one block of block i and the free ones around it, of which there
\* are two at most.
LEMMA MergeShape ==
    ASSUME NEW total \in Int, Chain(blocks, total), NEW i \in 1 .. Len(blocks),
           NEW list, list = [blocks EXCEPT ![i].alloc = FALSE], MergeBlocks(list, i)
    PROVE  IsMerged(list, i)
<1>1. PICK n \in Nat : n = Len(blocks)
  BY LenProperties DEF Chain
<1>2. Freed(list, i)
  BY FreedList
<1>3. list \in Seq(IntBlocks) /\ Len(list) = n /\ DOMAIN list = 1 .. n
  BY <1>1, <1>2 DEF Freed
<1>4. i \in 1 .. n /\ ~list[i].alloc
  BY <1>1, <1>2 DEF Freed
<1>5. \A k \in 1 .. n - 1 : list[k + 1].ptr = End(list[k])
  BY <1>1, <1>2 DEF Freed
<1>6. \A k \in 1 .. n - 1 : k # i /\ k + 1 # i => list[k].alloc \/ list[k + 1].alloc
  BY <1>1, <1>2 DEF Freed
<1> DEFINE lows == {j \in 1 .. i : \A k \in j .. i : ~list[k].alloc}
           highs == {j \in i .. n : \A k \in i .. j : ~list[k].alloc}
           lo == Min(lows)
           hi == Max(highs)
           size == FoldSeq(LAMBDA b, sum : b.size + sum, 0, SubSeq(list, lo, hi))
           merged == [list[lo] EXCEPT !.size = size]
<1>7. blocks' = Splice(list, lo, <<merged>>, hi)
  BY <1>3 DEF MergeBlocks, Splice
<1>8. /\ lo \in 1 .. i /\ lo >= i - 1
      /\ \A k \in lo .. i : ~list[k].alloc
      /\ lo > 1 => list[lo - 1].alloc
  <2>1. i \in lows /\ lows \in SUBSET Nat
    BY <1>4
  <2>2. lo \in lows /\ \A j \in lows : lo <= j
    <3> HIDE DEF lows
    <3>1. \E m \in lows : \A j \in lows : m <= j
      BY <2>1, LeastNumber
    <3> QED BY <3>1 DEF Min
  <2> HIDE DEF lo
  <2>3. lo \in 1 .. i /\ \A k \in lo .. i : ~list[k].alloc
    BY <2>2
  <2>4. lo >= i - 1
    <3> SUFFICES ASSUME lo <= i - 2 PROVE FALSE
      BY <1>4, <2>3
    <3>1. i - 2 \in lo .. i /\ i - 1 \in lo .. i
      BY <1>4, <2>3
    <3>2. i - 2 \in 1 .. n - 1 /\ i - 2 # i /\ (i - 2) + 1 # i /\ (i - 2) + 1 = i - 1
      BY <1>4, <2>3
    <3> QED BY <1>6, <2>3, <3>1, <3>2
  <2>5. ASSUME lo > 1, ~list[lo - 1].alloc PROVE FALSE
    <3>1. lo - 1 \in 1 .. i /\ lo - 1 \in Nat /\ lo \in Nat
      BY <1>4, <2>3, <2>5
    <3>2. \A k \in lo - 1 .. i : k = lo - 1 \/ k \in lo .. i
      BY <3>1
    <3>3. lo - 1 \in lows
      BY <2>3, <2>5, <3>1, <3>2
    <3>4. lo <= lo - 1
      BY <2>2, <3>3
    <3> QED BY <3>1, <3>4
  <2> QED BY <2>3, <2>4, <2>5
<1>9. /\ hi \in i .. n /\ hi <= i + 1
      /\ \A k \in i .. hi : ~list[k].alloc
      /\ hi < n => list[hi + 1].alloc
  <2>1. i \in highs /\ highs \in SUBSET (0 .. n)
    BY <1>4
  <2>2. hi \in highs /\ \A j \in highs : j <= hi
    <3> HIDE DEF highs
    <3>1. highs # {}
      BY <2>1
    <3>2. \E m \in highs : \A j \in highs : j <= m
      BY <1>3, <2>1, <3>1, GreatestNumber
    <3> QED BY <3>2, <2>1 DEF Max
  <2> HIDE DEF hi
  <2>3. hi \in i .. n /\ \A k \in i .. hi : ~list[k].alloc
    BY <2>2
  <2>4. hi <= i + 1
    <3> SUFFICES ASSUME hi >= i + 2 PROVE FALSE
      BY <1>4, <2>3
    <3>1. i + 1 \in i .. hi /\ i + 2 \in i .. hi
      BY <1>4, <2>3
    <3>2. i + 1 \in 1 .. n - 1 /\ i + 1 # i /\ (i + 1) + 1 # i /\ (i + 1) + 1 = i + 2
      BY <1>4, <2>3
    <3> QED BY <1>6, <2>3, <3>1, <3>2
  <2>5. ASSUME hi < n, ~list[hi + 1].alloc PROVE FALSE
    <3>1. hi + 1 \in i .. n /\ hi \in Nat
      BY <1>4, <2>3, <2>5
    <3>2. \A k \in i .. hi + 1 : k = hi + 1 \/ k \in i .. hi
      BY <3>1
    <3>3. hi + 1 \in highs
      BY <2>3, <2>5, <3>1, <3>2
    <3>4. hi + 1 <= hi
      BY <2>2, <3>3
    <3> QED BY <3>1, <3>4
  <2> QED BY <2>3, <2>4, <2>5
<1> HIDE DEF lo, hi
<1>10. lo \in 1 .. n /\ hi \in lo .. n /\ hi - lo + 1 \in 1 .. 3
  <2>1. PICK l \in 1 .. i : l = lo /\ l >= i - 1
    BY <1>8
  <2>2. PICK h \in i .. n : h = hi /\ h <= i + 1
    BY <1>9
  <2>3. l \in 1 .. n /\ h \in l .. n /\ h - l + 1 \in 1 .. 3
    BY <1>4, <2>1, <2>2
  <2> QED BY <2>1, <2>2, <2>3
<1>11. size = End(list[hi]) - list[lo].ptr
  <2>1. PICK s : s = SubSeq(list, lo, hi)
    OBVIOUS
  <2>2. PICK m \in 1 .. 3 : m = hi - lo + 1
    BY <1>10
  <2>3. /\ s \in Seq(IntBlocks) /\ Len(s) = m /\ \A k \in 1 .. m : s[k] = list[lo + k - 1]
    BY <1>3, <1>10, <2>1, <2>2, SubSeqProperties
  <2>4. \A k \in 1 .. m - 1 : s[k + 1].ptr = End(s[k])
    <3> TAKE k \in 1 .. m - 1
    <3>1. PICK j \in 1 .. n - 1 : j = lo + k - 1 /\ j + 1 = lo + (k + 1) - 1
      <4>1. PICK l \in 1 .. n, h \in 1 .. n : l = lo /\ h = hi
        BY <1>10
      <4>2. m = h - l + 1
        BY <2>2, <4>1
      <4>3. l + k - 1 \in 1 .. n - 1 /\ (l + k - 1) + 1 = l + (k + 1) - 1
        <5>1. k \in Nat /\ k >= 1 /\ k <= h - l
          BY <4>2
        <5> QED BY <5>1
      <4> QED BY <4>1, <4>3
    <3>2. k \in 1 .. m /\ k + 1 \in 1 .. m
      BY <2>2
    <3>3. s[k] = list[j] /\ s[k + 1] = list[j + 1]
      BY <2>3, <3>1, <3>2
    <3> QED BY <1>5, <3>3
  <2>5. FoldSeq(LAMBDA b, sum : b.size + sum, 0, s) = End(s[m]) - s[1].ptr
    BY <2>3, <2>4, FoldShort
  <2>6. s[m] = list[hi] /\ s[1] = list[lo]
    <3>1. 1 \in 1 .. m /\ m \in 1 .. m /\ lo + m - 1 = hi /\ lo + 1 - 1 = lo
      BY <1>10, <2>2
    <3> QED BY <2>3, <3>1
  <2> QED BY <2>1, <2>5, <2>6
<1>12. /\ list[lo] \in IntBlocks /\ list[hi] \in IntBlocks
  BY <1>3, <1>10
<1>13. PICK p \in Int, q \in Int : p = list[lo].ptr /\ q = End(list[hi])
  BY <1>12 DEF IntBlocks, BlocksOf, End
<1>14. size = q - p
  BY <1>11, <1>13
<1> HIDE DEF size
<1>15. /\ merged \in IntBlocks /\ ~merged.alloc /\ merged.ptr = p /\ End(merged) = q
  <2>1. PICK z \in Int : z = size /\ p + z = q
    BY <1>13, <1>14
  <2>2. /\ [list[lo] EXCEPT !.size = z] \in IntBlocks
        /\ [list[lo] EXCEPT !.size = z].ptr = p /\ [list[lo] EXCEPT !.size = z].size = z
        /\ [list[lo] EXCEPT !.size = z].alloc = list[lo].alloc
    BY <1>12, <1>13 DEF IntBlocks, BlocksOf
  <2>3. ~list[lo].alloc
    <3>1. lo \in lo .. i
      BY <1>8
    <3> QED BY <1>8, <3>1
  <2> QED BY <2>1, <2>2, <2>3 DEF End
<1> HIDE DEF merged
<1>16. \A k \in lo .. hi : ~list[k].alloc
  <2>1. \A k \in lo .. hi : k \in lo .. i \/ k \in i .. hi
    BY <1>4, <1>8, <1>9
  <2> QED BY <1>8, <1>9, <2>1
<1>17. Merges(list, i, lo, hi, merged)
  BY <1>3, <1>8, <1>9, <1>13, <1>15, <1>16 DEF Merges
<1> QED BY <1>7, <1>17 DEF IsMerged

\* A freed block takes in the free blocks around it.
LEMMA MergeChain ==
    ASSUME NEW total \in Int, Chain(blocks, total), NEW i \in 1 .. Len(blocks),
           NEW list, list = [blocks EXCEPT ![i].alloc = FALSE], MergeBlocks(list, i)
    PROVE  Chain(blocks', total)
<1>1. PICK n \in Nat : n = Len(blocks)
  BY LenProperties DEF Chain
<1>2. Freed(list, i)
  BY FreedList
<1>3. /\ list \in Seq(IntBlocks) /\ Len(list) = n /\ DOMAIN list = 1 .. n
      /\ \A k \in 1 .. n : list[k].ptr = blocks[k].ptr /\ list[k].size = blocks[k].size
  BY <1>1, <1>2 DEF Freed
<1>4. \A k \in 1 .. n - 1 : list[k + 1].ptr = End(list[k])
  BY <1>1, <1>2 DEF Freed
<1>5. \A k \in 1 .. n - 1 : k # i /\ k + 1 # i => list[k].alloc \/ list[k + 1].alloc
  BY <1>1, <1>2 DEF Freed
<1>6. list[1].ptr = 0 /\ End(list[n]) = total
  <2>1. n > 0 /\ 1 \in 1 .. n /\ n \in 1 .. n
    BY <1>1
  <2> QED BY <1>1, <1>3, <2>1 DEF Chain, End
<1>7. IsMerged(list, i)
  BY MergeShape
<1>8. PICK lo, hi, merged :
         /\ Merges(list, i, lo, hi, merged)
         /\ blocks' = Splice(list, lo, <<merged>>, hi)
  BY <1>7 DEF IsMerged
<1>9. lo \in 1 .. n /\ hi \in lo .. n /\ lo >= i - 1 /\ hi <= i + 1 /\ i \in 1 .. n
  <2>1. PICK l \in 1 .. i : l = lo /\ l >= i - 1
    BY <1>8 DEF Merges
  <2>2. PICK h \in i .. n : h = hi /\ h <= i + 1
    BY <1>3, <1>8 DEF Merges
  <2> QED BY <1>1, <2>1, <2>2
<1>10. /\ lo > 1 => list[lo - 1].alloc
       /\ hi < n => list[hi + 1].alloc
  BY <1>3, <1>8 DEF Merges
<1>11. PICK p \in Int, q \in Int : p = list[lo].ptr /\ q = End(list[hi])
  <2>1. list[lo] \in IntBlocks /\ list[hi] \in IntBlocks
    BY <1>3, <1>9
  <2> QED BY <2>1 DEF IntBlocks, BlocksOf, End
<1>12. merged \in IntBlocks /\ merged.ptr = p /\ End(merged) = q
  BY <1>8, <1>11 DEF Merges
<1>13. PICK mid : mid = <<merged>>
  OBVIOUS
<1>14. mid \in Seq(IntBlocks) /\ Len(mid) = 1 /\ mid[1] = merged
  BY <1>12, <1>13
<1>15. lo = 1 => mid[1].ptr = 0
  BY <1>6, <1>11, <1>12, <1>14
<1>16. lo > 1 => list[1].ptr = 0 /\ Linked(list[lo - 1], mid[1])
  <2>1. lo > 1 => lo - 1 \in 1 .. n - 1 /\ (lo - 1) + 1 = lo
    BY <1>9
  <2>2. lo > 1 => list[lo].ptr = End(list[lo - 1])
    BY <1>4, <2>1
  <2>3. mid[1].ptr = list[lo].ptr
    BY <1>11, <1>12, <1>14
  <2>4. lo > 1 => mid[1].ptr = End(list[lo - 1])
    BY <2>2, <2>3
  <2>5. lo > 1 => list[lo - 1].alloc
    BY <1>10
  <2>6. lo > 1 => Linked(list[lo - 1], mid[1])
    BY <2>4, <2>5, Zenon DEF Linked
  <2> QED BY <1>6, <2>6
<1>17. hi = n => End(mid[Len(mid)]) = total
  BY <1>6, <1>11, <1>12, <1>14
<1>18. hi < n => End(list[n]) = total /\ Linked(mid[Len(mid)], list[hi + 1])
  <2>1. hi < n => hi \in 1 .. n - 1
    BY <1>9
  <2>2. hi < n => list[hi + 1].ptr = End(list[hi])
    BY <1>4, <2>1
  <2>3. End(mid[Len(mid)]) = End(list[hi])
    BY <1>11, <1>12, <1>14
  <2>4. hi < n => list[hi + 1].ptr = End(mid[Len(mid)])
    BY <2>2, <2>3
  <2>5. hi < n => list[hi + 1].alloc
    BY <1>10
  <2>6. hi < n => Linked(mid[Len(mid)], list[hi + 1])
    BY <2>4, <2>5, Zenon DEF Linked
  <2> QED BY <1>6, <2>6
<1>19. /\ \A k \in 1 .. lo - 2 : Linked(list[k], list[k + 1])
       /\ \A k \in hi + 1 .. n - 1 : Linked(list[k], list[k + 1])
  <2>1. \A k \in 1 .. lo - 2 : k \in 1 .. n - 1 /\ k # i /\ k + 1 # i
    <3>1. lo <= i
      BY <1>8 DEF Merges
    <3> QED BY <1>9, <3>1
  <2>2. \A k \in hi + 1 .. n - 1 : k \in 1 .. n - 1 /\ k # i /\ k + 1 # i
    <3>1. i <= hi
      BY <1>8, <1>3 DEF Merges
    <3> QED BY <1>9, <3>1
  <2>3. \A k \in 1 .. n - 1 : k # i /\ k + 1 # i => Linked(list[k], list[k + 1])
    BY <1>4, <1>5 DEF Linked
  <2> QED BY <2>1, <2>2, <2>3
<1>20. \A k \in 1 .. Len(mid) - 1 : Linked(mid[k], mid[k + 1])
  BY <1>14
<1>21. lo \in 1 .. Len(list) /\ hi \in lo .. Len(list) /\ Len(mid) > 0
  BY <1>3, <1>9, <1>14
<1>22. Chain(Splice(list, lo, mid, hi), total)
  BY <1>3, <1>14, <1>15, <1>16, <1>17, <1>18, <1>19, <1>20, <1>21, SpliceChain
<1> QED BY <1>8, <1>13, <1>22

\* The inductive invariant: the blocks are a chain as long as the pool, once there is
\* a list; next fit takes a block from the cursor on.
TileInv ==
    /\ Inv
    /\ mySize \in Int
    /\ myStrategy \in Strategies \cup {"NotSet"}
    /\ Chain(blocks, mySize)

\* Whatever the strategy, the block it chooses is a free block of the list.
LEMMA ChosenIsFree ==
    ASSUME TileInv, myStrategy # "NotSet", NEW requested, Chosen(requested) # 0
    PROVE  Chosen(requested) \in 1 .. Len(blocks) /\ ~blocks[Chosen(requested)].alloc
<1>1. PICK n \in Nat : n = Len(blocks)
  BY LenProperties DEF TileInv, Chain
<1>2. DOMAIN blocks = 1 .. n
  BY <1>1, LenProperties DEF TileInv, Chain
<1>3. myStrategy \in {"first", "best", "worst", "next"}
  BY MemConstants DEF TileInv
<1>4. \A S \in SUBSET Fitting(requested) : Earliest(S) # 0 => Earliest(S) \in S
  <2>1. Fitting(requested) \subseteq Nat
    BY <1>2 DEF Fitting
  <2> QED BY <2>1, EarliestIn
<1>5. \A i \in Fitting(requested) : i \in 1 .. n /\ ~blocks[i].alloc
  BY <1>2 DEF Fitting
<1>6. CASE myStrategy \in {"first", "best", "worst"}
  <2>1. PICK S \in SUBSET Fitting(requested) : Chosen(requested) = Earliest(S)
    <3>1. CASE myStrategy = "first"
      BY <3>1 DEF Chosen, FirstFit
    <3>2. CASE myStrategy = "best"
      <4> DEFINE S == {i \in Fitting(requested) :
                          \A j \in Fitting(requested) : blocks[i].size <= blocks[j].size}
      <4>1. Chosen(requested) = Earliest(S)
        BY <3>2 DEF Chosen, BestFit
      <4> QED BY <4>1
    <3>3. CASE myStrategy = "worst"
      <4> DEFINE S == {i \in Fitting(requested) :
                          \A j \in Fitting(requested) : blocks[i].size >= blocks[j].size}
      <4>1. Chosen(requested) = Earliest(S)
        BY <3>3 DEF Chosen, WorstFit
      <4> QED BY <4>1
    <3> QED BY <1>6, <3>1, <3>2, <3>3
  <2>2. Chosen(requested) \in S
    BY <1>4, <2>1
  <2>3. Chosen(requested) \in Fitting(requested)
    BY <2>1, <2>2
  <2> QED BY <1>1, <1>5, <2>3
<1>7. CASE myStrategy = "next"
  <2> DEFINE S == {i \in next .. n : ~blocks[i].alloc}
  <2>1. Chosen(requested) = Earliest(S)
    BY <1>1, <1>7 DEF Chosen, NextFit
  <2>2. next \in 1 .. n
    BY <1>1, <1>7 DEF TileInv, Inv, CursorIn
  <2>3. S \in SUBSET Nat
    BY <2>2
  <2>4. Chosen(requested) \in S
    <3> HIDE DEF S
    <3>1. Earliest(S) # 0
      BY <2>1
    <3> QED BY <2>1, <2>3, <3>1, EarliestIn
  <2> QED BY <1>1, <2>2, <2>4
<1> QED BY <1>3, <1>6, <1>7

LEMMA TileInvAlways == Spec => []TileInv
<1>1. Init => TileInv
  BY DEF Init, TileInv, Inv, Chain
<1>2. TileInv /\ Inv' /\ [Next]_vars => TileInv'
  <2> SUFFICES ASSUME TileInv, Inv', [Next]_vars PROVE TileInv' OBVIOUS
  <2>1. ASSUME NEW strategy \in Strategies, NEW sz \in PoolSizes, Initmem(strategy, sz)
        PROVE  TileInv'
    <3>1. PICK b : b = [ptr |-> 0, size |-> sz, alloc |-> FALSE]
      OBVIOUS
    <3>2. sz \in Int
      BY MemConstants
    <3>3. b \in IntBlocks /\ b.ptr = 0 /\ End(b) = sz
      BY <3>1, <3>2 DEF IntBlocks, BlocksOf, End
    <3>4. blocks' = <<b>> /\ mySize' = sz /\ myStrategy' = strategy
      BY <2>1, <3>1 DEF Initmem
    <3>5. Chain(blocks', mySize')
      BY <3>3, <3>4 DEF Chain
    <3> QED BY <3>2, <3>4, <3>5 DEF TileInv
  <2>2. ASSUME NEW requested \in Requests, Mymalloc(requested) PROVE TileInv'
    <3>1. CASE Chosen(requested) # 0 /\ AllocateFrom(Chosen(requested), requested)
      <4>1. PICK i : i = Chosen(requested)
        OBVIOUS
      <4>2. i \in 1 .. Len(blocks) /\ ~blocks[i].alloc
        BY <2>2, <3>1, <4>1, ChosenIsFree DEF Mymalloc
      <4>3. requested \in Int
        BY MemConstants
      <4>4. Chain(Taken(i, requested), mySize)
        BY <4>2, <4>3, TakenChain DEF TileInv
      <4>5. /\ blocks' = Taken(i, requested)
            /\ mySize' = mySize /\ myStrategy' = myStrategy
        BY <3>1, <4>1 DEF AllocateFrom
      <4> QED BY <4>4, <4>5 DEF TileInv
    <3>2. CASE UNCHANGED <<myStrategy, mySize, blocks>>
      BY <3>2 DEF TileInv
    <3> QED BY <2>2, <3>1, <3>2 DEF Mymalloc
  <2>3. ASSUME NEW requested, MymallocUnset(requested) PROVE TileInv'
    BY <2>3 DEF MymallocUnset, TileInv
  <2>4. ASSUME NEW ptr, Myfree(ptr) PROVE TileInv'
    <3>1. PICK i : i = Earliest({j \in DOMAIN blocks : blocks[j].ptr = ptr})
      OBVIOUS
    <3>2. mySize' = mySize /\ myStrategy' = myStrategy
      BY <2>4 DEF Myfree
    <3>3. CASE i = 0
      <4>1. blocks' = blocks
        BY <2>4, <3>1, <3>3 DEF Myfree
      <4> QED BY <3>2, <4>1 DEF TileInv
    <3>4. CASE i # 0
      <4>1. DOMAIN blocks = 1 .. Len(blocks) /\ Len(blocks) \in Nat
        BY LenProperties DEF TileInv, Chain
      <4>2. i \in 1 .. Len(blocks)
        <5>1. {j \in DOMAIN blocks : blocks[j].ptr = ptr} \in SUBSET Nat
          BY <4>1
        <5> QED BY <3>1, <3>4, <4>1, <5>1, EarliestIn
      <4>3. PICK list : list = [blocks EXCEPT ![i].alloc = FALSE]
        OBVIOUS
      <4>4. MergeBlocks(list, i)
        BY <2>4, <3>1, <3>4, <4>3 DEF Myfree
      <4>5. Chain(blocks', mySize)
        BY <4>2, <4>3, <4>4, MergeChain DEF TileInv
      <4> QED BY <3>2, <4>5 DEF TileInv
    <3> QED BY <3>3, <3>4
  <2>5. CASE UNCHANGED vars
    BY <2>5 DEF vars, TileInv
  <2> QED BY <2>1, <2>2, <2>3, <2>4, <2>5 DEF Next
<1> QED BY <1>1, <1>2, InvAlways, PTL DEF Spec

\* Whatever the strategy, after any initmem, mymalloc and myfree, the blocks of the
\* list lie end to end from the start of the pool to its end, and merge_blocks leaves
\* no two free ones side by side.
THEOREM BlocksTile == Spec => []Tiling
<1>1. TileInv => Tiling
  <2> SUFFICES ASSUME TileInv, blocks # <<>> PROVE Tiling!2
    BY DEF Tiling
  <2>1. PICK n \in Nat : n = Len(blocks)
    BY LenProperties DEF TileInv, Chain
  <2>2. blocks \in Seq(IntBlocks)
    BY DEF TileInv, Chain
  <2>3. n > 0
    BY <2>1, <2>2, EmptySeq
  <2>4. Last(blocks) = blocks[n]
    BY <2>1 DEF Last
  <2> QED BY <2>1, <2>3, <2>4 DEF TileInv, Chain, Linked, End
<1> QED BY <1>1, TileInvAlways, PTL

-----------------------------------------------------------------------------
(* The blocks and the bytes of the pool                                    *)

Positive(list) == \A k \in 1 .. Len(list) : list[k].size > 0

\* The blocks of a chain, none of them empty, are in the order of their addresses.
LEMMA Ascending ==
    ASSUME NEW total \in Int, NEW list, Chain(list, total), Positive(list),
           NEW i \in 1 .. Len(list), NEW j \in 1 .. Len(list), i < j
    PROVE  End(list[i]) <= list[j].ptr
<1>1. PICK n \in Nat : n = Len(list)
  BY LenProperties DEF Chain
<1>2. \A k \in 1 .. n : /\ list[k].ptr \in Int /\ End(list[k]) \in Int
                        /\ list[k].ptr < End(list[k])
  <2> TAKE k \in 1 .. n
  <2>1. list[k] \in IntBlocks
    BY <1>1 DEF Chain
  <2>2. list[k].ptr \in Int /\ list[k].size \in Int /\ list[k].size > 0
    BY <1>1, <2>1 DEF Positive, IntBlocks, BlocksOf
  <2> QED BY <2>2 DEF End
<1>3. \A k \in 1 .. n - 1 : list[k + 1].ptr = End(list[k])
  BY <1>1 DEF Chain, Linked
<1> DEFINE S == {k \in i + 1 .. n : ~(End(list[i]) <= list[k].ptr)}
<1>4. SUFFICES ASSUME j \in S PROVE FALSE
  BY <1>1
<1>5. S \in SUBSET Nat /\ S # {}
  BY <1>1, <1>4
<1>6. PICK m \in S : \A k \in S : m <= k
  <2> HIDE DEF S
  <2> QED BY <1>5, LeastNumber
<1>7. PICK p \in 1 .. n - 1 : m = p + 1
  BY <1>1, <1>6
<1>8. list[m].ptr = End(list[p])
  BY <1>3, <1>7
<1>9. CASE p = i
  <2>1. End(list[i]) \in Int
    BY <1>1, <1>2
  <2> QED BY <1>6, <1>8, <1>9, <2>1
<1>10. CASE p # i
  <2>1. p \in i + 1 .. n /\ ~(m <= p)
    BY <1>1, <1>6, <1>7, <1>10
  <2>2. p \notin S
    BY <1>6, <2>1
  <2>3. End(list[i]) <= list[p].ptr
    BY <2>1, <2>2
  <2>4. End(list[i]) \in Int /\ list[p].ptr \in Int /\ End(list[p]) \in Int /\ list[p].ptr < End(list[p])
    BY <1>1, <1>2, <1>7
  <2>5. End(list[i]) <= list[m].ptr
    BY <1>8, <2>3, <2>4
  <2> QED BY <1>6, <2>5
<1> QED BY <1>9, <1>10

\* So each lies inside the pool.
LEMMA InPool ==
    ASSUME NEW total \in Int, NEW list, Chain(list, total), Positive(list),
           NEW i \in 1 .. Len(list)
    PROVE  /\ list[i].ptr \in Nat /\ list[i].size \in Nat \ {0}
           /\ End(list[i]) \in Nat /\ list[i].ptr < End(list[i]) /\ End(list[i]) <= total
<1>1. PICK n \in Nat : n = Len(list)
  BY LenProperties DEF Chain
<1>2. \A k \in 1 .. n : /\ list[k].ptr \in Int /\ list[k].size \in Int /\ list[k].size > 0
                        /\ End(list[k]) = list[k].ptr + list[k].size
  <2> TAKE k \in 1 .. n
  <2>1. list[k] \in IntBlocks
    BY <1>1 DEF Chain
  <2> QED BY <1>1, <2>1 DEF Positive, IntBlocks, BlocksOf, End
<1>3. n > 0 /\ 1 \in 1 .. n /\ n \in 1 .. n /\ i \in 1 .. n
  BY <1>1
<1>4. list[1].ptr = 0 /\ End(list[n]) = total
  BY <1>1, <1>3 DEF Chain
<1>5. list[i].ptr >= 0
  <2>1. CASE i = 1
    BY <1>4, <2>1
  <2>2. CASE i # 1
    <3>1. 1 < i
      BY <1>3, <2>2
    <3>2. End(list[1]) <= list[i].ptr
      BY <1>1, <1>3, <3>1, Ascending
    <3> QED BY <1>2, <1>3, <1>4, <3>2
  <2> QED BY <2>1, <2>2
<1>6. End(list[i]) <= total
  <2>1. CASE i = n
    BY <1>4, <2>1
  <2>2. CASE i # n
    <3>1. i < n
      BY <1>3, <2>2
    <3>2. End(list[i]) <= list[n].ptr
      BY <1>1, <1>3, <3>1, Ascending
    <3> QED BY <1>2, <1>3, <1>4, <3>2
  <2> QED BY <2>1, <2>2
<1> QED BY <1>2, <1>3, <1>5, <1>6

\* And every byte of the pool is in one.
LEMMA EveryByte ==
    ASSUME NEW total \in Int, NEW list, Chain(list, total), Positive(list), Len(list) > 0,
           NEW x \in 0 .. total - 1
    PROVE  \E i \in 1 .. Len(list) : list[i].ptr <= x /\ x < End(list[i])
<1>1. PICK n \in Nat : n = Len(list)
  BY LenProperties DEF Chain
<1>2. \A k \in 1 .. n : list[k].ptr \in Int /\ End(list[k]) \in Int
  BY <1>1, InPool
<1>3. list[1].ptr = 0 /\ End(list[n]) = total
  BY <1>1 DEF Chain
<1>4. \A k \in 1 .. n - 1 : list[k + 1].ptr = End(list[k])
  BY <1>1 DEF Chain, Linked
<1> DEFINE S == {k \in 1 .. n : x < End(list[k])}
<1>5. S \in SUBSET Nat /\ n \in S
  BY <1>1, <1>3
<1>6. PICK m \in S : \A k \in S : m <= k
  <2> HIDE DEF S
  <2> QED BY <1>5, LeastNumber
<1>7. CASE m = 1
  BY <1>1, <1>3, <1>6, <1>7
<1>8. CASE m # 1
  <2>1. PICK p \in 1 .. n - 1 : m = p + 1
    BY <1>1, <1>6, <1>8
  <2>2. p \notin S
    BY <1>6, <2>1
  <2>3. End(list[p]) \in Int /\ ~(x < End(list[p]))
    BY <1>2, <2>1, <2>2
  <2>4. list[m].ptr <= x
    BY <1>4, <2>1, <2>3
  <2> QED BY <1>1, <1>6, <2>4
<1> QED BY <1>7, <1>8

\* The blocks of a list, and those that a splice leaves.
Entries(list) == {list[k] : k \in 1 .. Len(list)}
Around(list, lo, hi) == {list[k] : k \in (1 .. Len(list)) \ (lo .. hi)}

LEMMA SpliceEntries ==
    ASSUME NEW list \in Seq(IntBlocks), NEW mid \in Seq(IntBlocks),
           NEW lo \in 1 .. Len(list), NEW hi \in lo .. Len(list)
    PROVE  Entries(Splice(list, lo, mid, hi)) = Around(list, lo, hi) \cup Entries(mid)
<1>1. PICK n \in Nat, m \in Nat : n = Len(list) /\ m = Len(mid)
  BY LenProperties
<1>2. PICK r : r = Splice(list, lo, mid, hi)
  OBVIOUS
<1>3. HasParts(r, list, lo, mid, hi)
  BY <1>2, Spliced
<1>4. lo \in 1 .. n /\ hi \in lo .. n
  BY <1>1
<1>5. /\ Len(r) = lo - 1 + m + n - hi
      /\ \A k \in 1 .. lo - 1 : r[k] = list[k]
      /\ \A k \in 1 .. m : r[lo - 1 + k] = mid[k]
      /\ \A k \in hi + 1 .. n : r[k - hi + lo - 1 + m] = list[k]
  BY <1>1, <1>3 DEF HasParts
<1>6. ASSUME NEW k \in 1 .. Len(r) PROVE r[k] \in Around(list, lo, hi) \cup Entries(mid)
  <2>1. CASE k <= lo - 1
    <3>1. k \in 1 .. lo - 1 /\ k \in (1 .. n) \ (lo .. hi)
      BY <1>4, <1>5, <2>1
    <3> QED BY <1>1, <1>5, <3>1 DEF Around
  <2>2. CASE lo - 1 < k /\ k <= lo - 1 + m
    <3>1. PICK j \in 1 .. m : k = lo - 1 + j
      <4>1. k - lo + 1 \in 1 .. m /\ k = lo - 1 + (k - lo + 1)
        BY <1>4, <1>5, <2>2
      <4> QED BY <4>1
    <3>2. r[k] = mid[j]
      BY <1>5, <3>1
    <3> QED BY <1>1, <3>2 DEF Entries
  <2>3. CASE lo - 1 + m < k
    <3>1. PICK j \in hi + 1 .. n : k = j - hi + lo - 1 + m
      <4>1. PICK j \in Int : j = k - m - lo + 1 + hi
        BY <1>4, <1>5
      <4>2. j \in hi + 1 .. n /\ k = j - hi + lo - 1 + m
        BY <1>4, <1>5, <2>3, <4>1
      <4> QED BY <4>2
    <3>2. r[k] = list[j] /\ j \in (1 .. n) \ (lo .. hi)
      BY <1>4, <1>5, <3>1
    <3> QED BY <1>1, <3>2 DEF Around
  <2> QED BY <1>4, <1>5, <2>1, <2>2, <2>3
<1>7. ASSUME NEW k \in (1 .. n) \ (lo .. hi) PROVE list[k] \in Entries(r)
  <2>1. CASE k <= lo - 1
    <3>1. k \in 1 .. lo - 1 /\ k \in 1 .. Len(r)
      BY <1>4, <1>5, <2>1
    <3>2. r[k] = list[k]
      BY <1>5, <3>1
    <3> QED BY <3>1, <3>2 DEF Entries
  <2>2. CASE k > hi
    <3>1. PICK j \in Int : j = k - hi + lo - 1 + m
      BY <1>4
    <3>2. k \in hi + 1 .. n /\ j \in 1 .. Len(r)
      BY <1>4, <1>5, <2>2, <3>1
    <3>3. r[j] = list[k]
      BY <1>5, <3>1, <3>2
    <3> QED BY <3>2, <3>3 DEF Entries
  <2> QED BY <1>4, <2>1, <2>2
<1>8. ASSUME NEW k \in 1 .. m PROVE mid[k] \in Entries(r)
  <2>1. PICK j \in Int : j = lo - 1 + k
    BY <1>4
  <2>2. j \in 1 .. Len(r) /\ r[j] = mid[k]
    BY <1>4, <1>5, <2>1
  <2> QED BY <2>2 DEF Entries
<1>9. Entries(r) \subseteq Around(list, lo, hi) \cup Entries(mid)
  BY <1>6 DEF Entries
<1>10. Around(list, lo, hi) \subseteq Entries(r)
  BY <1>1, <1>7 DEF Around
<1>11. Entries(mid) \subseteq Entries(r)
  <2>1. \A e \in Entries(mid) : \E k \in 1 .. m : e = mid[k]
    BY <1>1 DEF Entries
  <2> QED BY <1>8, <2>1
<1> QED BY <1>2, <1>9, <1>10, <1>11

\* The blocks after one is taken: its own, allocated, and the rest when there is one.
Used(b, requested) == [b EXCEPT !.alloc = TRUE, !.size = requested]
Rest(b, requested) ==
    [ptr |-> b.ptr + requested, size |-> b.size - requested, alloc |-> FALSE]

LEMMA TakenEntries ==
    ASSUME blocks \in Seq(IntBlocks), NEW i \in 1 .. Len(blocks), NEW requested \in Int
    PROVE  Entries(Taken(i, requested)) =
              Around(blocks, i, i) \cup
                 IF blocks[i].size = requested THEN {Used(blocks[i], requested)}
                 ELSE {Used(blocks[i], requested), Rest(blocks[i], requested)}
<1>1. PICK n \in Nat : n = Len(blocks)
  BY LenProperties
<1>2. DOMAIN blocks = 1 .. n /\ i \in 1 .. n
  BY <1>1, LenProperties
<1>3. blocks[i] \in IntBlocks
  BY <1>2
<1>4. PICK used, rest : used = Used(blocks[i], requested) /\ rest = Rest(blocks[i], requested)
  OBVIOUS
<1>5. used \in IntBlocks /\ rest \in IntBlocks
  <2>1. PICK p \in Int, z \in Int : p = blocks[i].ptr /\ z = blocks[i].size
    BY <1>3 DEF IntBlocks, BlocksOf
  <2>2. rest = [ptr |-> p + requested, size |-> z - requested, alloc |-> FALSE]
    BY <1>4, <2>1 DEF Rest
  <2>3. rest \in IntBlocks
    BY <2>2 DEF IntBlocks, BlocksOf
  <2>4. used \in IntBlocks
    BY <1>3, <1>4 DEF Used, IntBlocks, BlocksOf
  <2> QED BY <2>3, <2>4
<1>6. CASE blocks[i].size = requested
  <2>1. PICK r : r = [blocks EXCEPT ![i] = used]
    OBVIOUS
  <2>2. Taken(i, requested) = r
    BY <1>4, <1>6, <2>1 DEF Taken, Used
  <2>3. Len(r) = n
    BY <1>1, <1>2, <1>5, <2>1, ExceptSeq
  <2>4. \A k \in 1 .. n : r[k] = IF k = i THEN used ELSE blocks[k]
    BY <1>2, <2>1
  <2>5. Entries(r) = {r[k] : k \in 1 .. n}
    BY <2>3 DEF Entries
  <2>6. Around(blocks, i, i) = {blocks[k] : k \in (1 .. n) \ {i}}
    <3>1. i .. i = {i}
      BY <1>2
    <3> QED BY <1>1, <3>1 DEF Around
  <2>7. {r[k] : k \in 1 .. n} = {blocks[k] : k \in (1 .. n) \ {i}} \cup {used}
    BY <1>2, <2>4
  <2> QED BY <1>4, <1>6, <2>2, <2>5, <2>6, <2>7
<1>7. CASE blocks[i].size # requested
  <2>1. PICK mid : mid = <<used, rest>>
    OBVIOUS
  <2>2. Taken(i, requested) = Splice(blocks, i, mid, i)
    BY <1>4, <1>7, <2>1 DEF Taken, Used, Rest, Splice
  <2>3. mid \in Seq(IntBlocks) /\ Entries(mid) = {used, rest}
    <3>1. mid \in Seq(IntBlocks) /\ Len(mid) = 2 /\ mid[1] = used /\ mid[2] = rest
      BY <1>5, <2>1
    <3>2. 1 .. 2 = {1, 2}
      OBVIOUS
    <3> QED BY <3>1, <3>2 DEF Entries
  <2>4. Entries(Splice(blocks, i, mid, i)) = Around(blocks, i, i) \cup Entries(mid)
    <3>1. i \in i .. Len(blocks)
      BY <1>1
    <3> QED BY <2>3, <3>1, SpliceEntries
  <2> QED BY <1>4, <1>7, <2>2, <2>3, <2>4
<1> QED BY <1>6, <1>7

\* The blocks after one is freed and merged: those that were neither, and the new one.
LEMMA MergedEntries ==
    ASSUME NEW list \in Seq(IntBlocks), NEW i \in 1 .. Len(list), NEW lo, NEW hi, NEW merged,
           Merges(list, i, lo, hi, merged), blocks' = Splice(list, lo, <<merged>>, hi)
    PROVE  Entries(blocks') = Around(list, lo, hi) \cup {merged}
<1>1. PICK n \in Nat : n = Len(list)
  BY LenProperties
<1>2. lo \in 1 .. Len(list) /\ hi \in lo .. Len(list)
  <2>1. PICK l \in 1 .. i, h \in i .. n : l = lo /\ h = hi
    BY <1>1 DEF Merges
  <2>2. l \in 1 .. n /\ h \in l .. n
    BY <1>1, <2>1
  <2> QED BY <1>1, <2>1, <2>2
<1>3. PICK mid : mid = <<merged>>
  OBVIOUS
<1>4. mid \in Seq(IntBlocks) /\ Entries(mid) = {merged}
  <2>1. merged \in IntBlocks
    BY DEF Merges
  <2>2. mid \in Seq(IntBlocks) /\ Len(mid) = 1 /\ mid[1] = merged
    BY <1>3, <2>1
  <2>3. 1 .. 1 = {1}
    OBVIOUS
  <2>4. Entries(mid) = {mid[k] : k \in {1}}
    BY <2>2, <2>3 DEF Entries
  <2>5. {mid[k] : k \in {1}} = {mid[1]}
    OBVIOUS
  <2> QED BY <2>2, <2>4, <2>5
<1>5. Entries(Splice(list, lo, mid, hi)) = Around(list, lo, hi) \cup Entries(mid)
  BY <1>2, <1>4, SpliceEntries
<1>6. blocks' = Splice(list, lo, mid, hi)
  BY <1>3
<1> QED BY <1>4, <1>5, <1>6

-----------------------------------------------------------------------------
(* What first, best and worst fit keep                                     *)

\* The strategies that compare the size of a block with the request.
SizesFit == "next" \notin Strategies

\* The inductive invariant: a chain of blocks none of which is empty; before the first
\* initmem there is neither a list nor a pool.
PoolInv ==
    /\ TileInv
    /\ Positive(blocks)
    /\ myStrategy = "NotSet" => blocks = <<>>
    /\ blocks = <<>> => mySize = 0

\* In terms of entries: no block is empty.
LEMMA PositiveEntries ==
    ASSUME NEW list
    PROVE  Positive(list) <=> \A e \in Entries(list) : e.size > 0
BY DEF Positive, Entries

\* The smallest and the largest of some blocks.
BestOf(S) == {i \in S : \A j \in S : blocks[i].size <= blocks[j].size}
WorstOf(S) == {i \in S : \A j \in S : blocks[i].size >= blocks[j].size}

\* These strategies choose a block that is free and large enough.
LEMMA ChosenFits ==
    ASSUME SizesFit, TileInv, myStrategy # "NotSet", NEW requested, Chosen(requested) # 0
    PROVE  Chosen(requested) \in Fitting(requested)
<1>1. DOMAIN blocks = 1 .. Len(blocks) /\ Len(blocks) \in Nat
  BY LenProperties DEF TileInv, Chain
<1>2. \A S \in SUBSET Fitting(requested) : Earliest(S) # 0 => Earliest(S) \in S
  <2>1. Fitting(requested) \subseteq Nat
    BY <1>1 DEF Fitting
  <2> QED BY <2>1, EarliestIn
<1>3. myStrategy \in {"first", "best", "worst"}
  BY MemConstants DEF TileInv, SizesFit
<1>4. PICK S \in SUBSET Fitting(requested) : Chosen(requested) = Earliest(S)
  <2>1. CASE myStrategy = "first"
    BY <2>1 DEF Chosen, FirstFit
  <2>2. CASE myStrategy = "best"
    <3>1. Chosen(requested) = Earliest(BestOf(Fitting(requested)))
      BY <2>2 DEF Chosen, BestFit, BestOf
    <3> QED BY <3>1 DEF BestOf
  <2>3. CASE myStrategy = "worst"
    <3>1. Chosen(requested) = Earliest(WorstOf(Fitting(requested)))
      BY <2>3 DEF Chosen, WorstFit, WorstOf
    <3> QED BY <3>1 DEF WorstOf
  <2> QED BY <1>3, <2>1, <2>2, <2>3
<1>5. Chosen(requested) \in S
  BY <1>2, <1>4
<1> QED BY <1>4, <1>5

\* What is left of a block that is taken is not empty.
LEMMA TakenPositive ==
    ASSUME NEW total \in Int, Chain(blocks, total), Positive(blocks),
           NEW i \in 1 .. Len(blocks), NEW requested \in Nat \ {0},
           blocks[i].size >= requested
    PROVE  Positive(Taken(i, requested))
<1>1. \A e \in Entries(blocks) : e.size > 0
  BY PositiveEntries
<1>2. Around(blocks, i, i) \subseteq Entries(blocks)
  BY DEF Around, Entries
<1>3. PICK b \in IntBlocks : b = blocks[i]
  BY DEF Chain
<1>4. PICK p \in Int, z \in Int : p = b.ptr /\ z = b.size
  BY DEF IntBlocks, BlocksOf
<1>5. Used(b, requested).size = requested
  BY DEF Used, IntBlocks, BlocksOf
<1>6. Rest(b, requested).size = z - requested
  BY <1>4 DEF Rest
<1>7. Entries(Taken(i, requested)) =
         Around(blocks, i, i) \cup
            IF z = requested THEN {Used(b, requested)}
            ELSE {Used(b, requested), Rest(b, requested)}
  <2>1. blocks \in Seq(IntBlocks)
    BY DEF Chain
  <2> QED BY <1>3, <1>4, <2>1, TakenEntries
<1>8. ASSUME NEW e \in Entries(Taken(i, requested)) PROVE e.size > 0
  <2>1. CASE e \in Around(blocks, i, i)
    BY <1>1, <1>2, <2>1
  <2>2. CASE e = Used(b, requested)
    BY <1>5, <2>2
  <2>3. CASE e = Rest(b, requested) /\ z # requested
    BY <1>3, <1>4, <1>6, <2>3
  <2> QED BY <1>7, <2>1, <2>2, <2>3
<1> QED BY <1>8, PositiveEntries

\* Nor is a merged block.
LEMMA MergedPositive ==
    ASSUME NEW total \in Int, Chain(blocks, total), Positive(blocks),
           NEW i \in 1 .. Len(blocks), NEW list, Freed(list, i), IsMerged(list, i)
    PROVE  Positive(blocks')
<1>1. PICK n \in Nat : n = Len(blocks)
  BY LenProperties DEF Chain
<1>2. /\ list \in Seq(IntBlocks) /\ Len(list) = n
      /\ \A k \in 1 .. n : list[k].ptr = blocks[k].ptr /\ list[k].size = blocks[k].size
  BY <1>1 DEF Freed
<1>3. PICK lo, hi, merged :
         Merges(list, i, lo, hi, merged) /\ blocks' = Splice(list, lo, <<merged>>, hi)
  BY DEF IsMerged
<1>4. Entries(blocks') = Around(list, lo, hi) \cup {merged}
  <2>1. i \in 1 .. Len(list)
    BY <1>1, <1>2
  <2> QED BY <1>2, <1>3, <2>1, MergedEntries
<1>5. \A e \in Around(list, lo, hi) : e.size > 0
  BY <1>1, <1>2 DEF Around, Positive
<1>6. lo \in 1 .. n /\ hi \in lo .. n
  <2>1. PICK l \in 1 .. i, h \in i .. n : l = lo /\ h = hi
    BY <1>2, <1>3 DEF Merges
  <2>2. l \in 1 .. n /\ h \in l .. n
    BY <1>1, <2>1
  <2> QED BY <2>1, <2>2
<1>7. /\ blocks[lo].ptr \in Nat /\ End(blocks[lo]) \in Nat /\ blocks[lo].ptr < End(blocks[lo])
      /\ blocks[hi].ptr \in Nat /\ End(blocks[hi]) \in Nat /\ blocks[hi].ptr < End(blocks[hi])
  <2>1. \A k \in 1 .. n : /\ blocks[k].ptr \in Nat /\ End(blocks[k]) \in Nat
                          /\ blocks[k].ptr < End(blocks[k])
    BY <1>1, InPool
  <2>2. hi \in 1 .. n
    BY <1>6
  <2> QED BY <1>6, <2>1, <2>2
<1>8. blocks[lo].ptr < End(blocks[hi])
  <2>1. CASE lo = hi
    BY <1>7, <2>1
  <2>2. CASE lo # hi
    <3>1. lo < hi
      BY <1>6, <2>2
    <3>2. End(blocks[lo]) <= blocks[hi].ptr
      BY <1>1, <1>6, <3>1, Ascending
    <3> QED BY <1>7, <3>2
  <2> QED BY <2>1, <2>2
<1>9. merged \in IntBlocks /\ merged.ptr = blocks[lo].ptr /\ End(merged) = End(blocks[hi])
  BY <1>2, <1>3, <1>6 DEF Merges, End
<1>10. merged.size > 0
  <2>1. merged.ptr \in Int /\ merged.size \in Int /\ merged.ptr + merged.size = End(blocks[hi])
    BY <1>9 DEF IntBlocks, BlocksOf, End
  <2> QED BY <1>7, <1>8, <1>9, <2>1
<1> QED BY <1>4, <1>5, <1>10, PositiveEntries

LEMMA PoolInvAlways == ASSUME SizesFit PROVE Spec => []PoolInv
<1>1. Init => PoolInv
  <2> SUFFICES ASSUME Init PROVE PoolInv OBVIOUS
  <2>1. TileInv
    BY DEF Init, TileInv, Inv, Chain
  <2> QED BY <2>1 DEF Init, PoolInv, Positive
<1>2. PoolInv /\ TileInv' /\ [Next]_vars => PoolInv'
  <2> SUFFICES ASSUME PoolInv, TileInv', [Next]_vars PROVE PoolInv' OBVIOUS
  <2>1. TileInv /\ Chain(blocks, mySize) /\ mySize \in Int /\ Positive(blocks)
    BY DEF PoolInv, TileInv
  <2>2. ASSUME NEW strategy \in Strategies, NEW sz \in PoolSizes, Initmem(strategy, sz)
        PROVE  PoolInv'
    <3>1. PICK b : b = [ptr |-> 0, size |-> sz, alloc |-> FALSE]
      OBVIOUS
    <3>2. sz \in Nat \ {0} /\ strategy # "NotSet"
      BY MemConstants
    <3>3. blocks' = <<b>> /\ b.size > 0
      BY <2>2, <3>1, <3>2 DEF Initmem
    <3>4. Positive(blocks')
      BY <3>3 DEF Positive
    <3>5. blocks' # <<>> /\ myStrategy' # "NotSet"
      BY <2>2, <3>2, <3>3 DEF Initmem
    <3> QED BY <3>4, <3>5 DEF PoolInv
  <2>3. ASSUME NEW requested \in Requests, Mymalloc(requested) PROVE PoolInv'
    <3>1. CASE Chosen(requested) # 0 /\ AllocateFrom(Chosen(requested), requested)
      <4>1. PICK i : i = Chosen(requested)
        OBVIOUS
      <4>2. i \in Fitting(requested)
        BY <2>1, <2>3, <3>1, <4>1, ChosenFits DEF Mymalloc
      <4>3. i \in 1 .. Len(blocks) /\ blocks[i].size >= requested
        BY <2>1, <4>2, LenProperties DEF Fitting, Chain
      <4>4. requested \in Nat \ {0}
        BY MemConstants
      <4>5. Positive(Taken(i, requested))
        BY <2>1, <4>3, <4>4, TakenPositive
      <4>6. /\ blocks' = Taken(i, requested) /\ mySize' = mySize /\ myStrategy' = myStrategy
        BY <3>1, <4>1 DEF AllocateFrom
      <4>7. blocks' # <<>>
        <5>1. Used(blocks[i], requested) \in Entries(blocks')
          <6>1. blocks \in Seq(IntBlocks) /\ requested \in Int
            BY <2>1, <4>4 DEF Chain
          <6> QED BY <4>3, <4>6, <6>1, TakenEntries
        <5>2. Len(<<>>) = 0
          OBVIOUS
        <5> QED BY <5>1, <5>2 DEF Entries
      <4>8. myStrategy' # "NotSet"
        BY <2>3, <4>6 DEF Mymalloc
      <4> QED BY <4>5, <4>6, <4>7, <4>8 DEF PoolInv
    <3>2. CASE UNCHANGED <<myStrategy, mySize, blocks>>
      BY <3>2 DEF PoolInv
    <3> QED BY <2>3, <3>1, <3>2 DEF Mymalloc
  <2>4. ASSUME NEW requested, MymallocUnset(requested) PROVE PoolInv'
    BY <2>4 DEF MymallocUnset, PoolInv
  <2>5. ASSUME NEW ptr, Myfree(ptr) PROVE PoolInv'
    <3>1. PICK i : i = Earliest({j \in DOMAIN blocks : blocks[j].ptr = ptr})
      OBVIOUS
    <3>2. mySize' = mySize /\ myStrategy' = myStrategy
      BY <2>5 DEF Myfree
    <3>3. CASE i = 0
      <4>1. blocks' = blocks
        BY <2>5, <3>1, <3>3 DEF Myfree
      <4> QED BY <3>2, <4>1 DEF PoolInv
    <3>4. CASE i # 0
      <4>1. DOMAIN blocks = 1 .. Len(blocks) /\ Len(blocks) \in Nat
        BY <2>1, LenProperties DEF Chain
      <4>2. i \in 1 .. Len(blocks)
        <5>1. {j \in DOMAIN blocks : blocks[j].ptr = ptr} \in SUBSET Nat
          BY <4>1
        <5> QED BY <3>1, <3>4, <4>1, <5>1, EarliestIn
      <4>3. PICK list : list = [blocks EXCEPT ![i].alloc = FALSE]
        OBVIOUS
      <4>4. MergeBlocks(list, i)
        BY <2>5, <3>1, <3>4, <4>3 DEF Myfree
      <4>5. Freed(list, i) /\ IsMerged(list, i)
        BY <2>1, <4>2, <4>3, <4>4, FreedList, MergeShape
      <4>6. Positive(blocks')
        BY <2>1, <4>2, <4>5, MergedPositive
      <4>7. blocks # <<>> /\ blocks' # <<>>
        <5>1. blocks # <<>>
          BY <4>2
        <5>2. PICK lo, hi, merged :
                 Merges(list, i, lo, hi, merged) /\ blocks' = Splice(list, lo, <<merged>>, hi)
          BY <4>5 DEF IsMerged
        <5>3. list \in Seq(IntBlocks) /\ i \in 1 .. Len(list)
          BY <4>2, <4>5 DEF Freed
        <5>4. merged \in Entries(blocks')
          BY <5>2, <5>3, MergedEntries
        <5>5. Len(<<>>) = 0
          OBVIOUS
        <5> QED BY <5>1, <5>4, <5>5 DEF Entries
      <4> QED BY <3>2, <4>6, <4>7 DEF PoolInv
    <3> QED BY <3>3, <3>4
  <2>6. CASE UNCHANGED vars
    BY <2>6 DEF vars, PoolInv
  <2> QED BY <2>2, <2>3, <2>4, <2>5, <2>6 DEF Next
<1> QED BY <1>1, <1>2, TileInvAlways, PTL DEF Spec

-----------------------------------------------------------------------------
(* The gaps are the free blocks                                            *)

\* What the invariant says of the blocks, in the terms of the correctness properties.
Laid ==
    LET n == Len(blocks)
    IN  /\ n \in Nat /\ mySize \in Nat /\ DOMAIN blocks = 1 .. n
        /\ \A k \in 1 .. n : /\ blocks[k].ptr \in Nat /\ blocks[k].size \in Nat \ {0}
                             /\ blocks[k].alloc \in BOOLEAN
                             /\ blocks[k].ptr + blocks[k].size <= mySize
        /\ \A i, j \in 1 .. n : i < j => blocks[i].ptr + blocks[i].size <= blocks[j].ptr
        /\ \A k \in 1 .. n - 1 : /\ blocks[k + 1].ptr = blocks[k].ptr + blocks[k].size
                                 /\ blocks[k].alloc \/ blocks[k + 1].alloc
        /\ n > 0 => blocks[1].ptr = 0 /\ blocks[n].ptr + blocks[n].size = mySize
        /\ \A x \in Bytes : \E k \in 1 .. n : x \in Extent(blocks[k])

LEMMA InvLaid == ASSUME PoolInv PROVE Laid
<1>1. PICK n \in Nat : n = Len(blocks)
  BY LenProperties DEF PoolInv, TileInv, Chain
<1>2. Chain(blocks, mySize) /\ mySize \in Int /\ Positive(blocks)
  BY DEF PoolInv, TileInv
<1>3. DOMAIN blocks = 1 .. n /\ \A k \in 1 .. n : blocks[k] \in IntBlocks
  BY <1>1, <1>2, LenProperties DEF Chain
<1>4. \A k \in 1 .. n : /\ blocks[k].ptr \in Nat /\ blocks[k].size \in Nat \ {0}
                        /\ blocks[k].ptr + blocks[k].size <= mySize
  <2>1. \A k \in 1 .. n : /\ blocks[k].ptr \in Nat /\ blocks[k].size \in Nat \ {0}
                          /\ End(blocks[k]) <= mySize
    BY <1>1, <1>2, InPool
  <2> QED BY <2>1 DEF End
<1>5. \A k \in 1 .. n : blocks[k].alloc \in BOOLEAN
  BY <1>3 DEF IntBlocks, BlocksOf
<1>6. \A i, j \in 1 .. n : i < j => blocks[i].ptr + blocks[i].size <= blocks[j].ptr
  <2>1. \A i, j \in 1 .. n : i < j => End(blocks[i]) <= blocks[j].ptr
    BY <1>1, <1>2, Ascending
  <2> QED BY <2>1 DEF End
<1>7. \A k \in 1 .. n - 1 : /\ blocks[k + 1].ptr = blocks[k].ptr + blocks[k].size
                            /\ blocks[k].alloc \/ blocks[k + 1].alloc
  BY <1>1, <1>2 DEF Chain, Linked, End
<1>8. n > 0 => blocks[1].ptr = 0 /\ blocks[n].ptr + blocks[n].size = mySize
  BY <1>1, <1>2 DEF Chain, End
<1>9. n = 0 => mySize = 0
  <2>1. n = 0 => blocks = <<>>
    BY <1>1, <1>2, EmptySeq DEF Chain
  <2> QED BY <2>1 DEF PoolInv
<1>10. mySize \in Nat
  <2>1. CASE n > 0
    <3>1. n \in 1 .. n
      BY <2>1
    <3> QED BY <1>2, <1>4, <1>8, <2>1, <3>1
  <2> QED BY <1>9, <2>1
<1>11. ASSUME NEW x \in Bytes PROVE \E k \in 1 .. n : x \in Extent(blocks[k])
  <2>1. x \in 0 .. mySize - 1 /\ n > 0
    BY <1>9, <1>11 DEF Bytes
  <2>2. PICK k \in 1 .. n : blocks[k].ptr <= x /\ x < End(blocks[k])
    BY <1>1, <1>2, <2>1, EveryByte
  <2>3. blocks[k].ptr \in Nat /\ blocks[k].size \in Nat
    BY <1>4
  <2>4. x \in Extent(blocks[k])
    BY <2>1, <2>2, <2>3 DEF Extent, End
  <2> QED BY <2>4
<1> QED BY <1>1, <1>3, <1>4, <1>5, <1>6, <1>7, <1>8, <1>10, <1>11 DEF Laid

\* A byte is in one block only; it is a byte of the pool, and in use as its block is.
LEMMA ByteOfBlock ==
    ASSUME Laid, NEW i \in 1 .. Len(blocks), NEW x \in Extent(blocks[i])
    PROVE  /\ x \in Bytes
           /\ x \in UsedBytes <=> blocks[i].alloc
           /\ \A j \in 1 .. Len(blocks) : x \in Extent(blocks[j]) => j = i
<1>1. PICK n \in Nat : n = Len(blocks) /\ DOMAIN blocks = 1 .. n
  BY DEF Laid
<1>2. \A k \in 1 .. n : /\ blocks[k].ptr \in Nat /\ blocks[k].size \in Nat
                        /\ blocks[k].ptr + blocks[k].size <= mySize
  BY <1>1 DEF Laid
<1>3. x \in Int /\ mySize \in Nat
  BY <1>1, <1>2 DEF Extent, Laid
<1>4. x \in Bytes
  BY <1>1, <1>2, <1>3 DEF Extent, Bytes
<1>5. ASSUME NEW j \in 1 .. n, x \in Extent(blocks[j]) PROVE j = i
  <2>1. ASSUME NEW a \in 1 .. n, NEW b \in 1 .. n, a < b,
               x \in Extent(blocks[a]), x \in Extent(blocks[b])
        PROVE  FALSE
    <3>1. blocks[a].ptr + blocks[a].size <= blocks[b].ptr
      BY <1>1, <2>1 DEF Laid
    <3>2. PICK p \in Nat, z \in Nat, q \in Nat :
             p = blocks[a].ptr /\ z = blocks[a].size /\ q = blocks[b].ptr
      BY <1>2, <2>1
    <3>3. x <= p + z - 1 /\ q <= x
      BY <1>2, <1>3, <2>1, <3>2 DEF Extent
    <3>4. p + z <= q
      BY <3>1, <3>2
    <3>5. PICK y \in Int : y = x
      BY <1>3
    <3> QED BY <3>3, <3>4, <3>5
  <2>2. ~(i < j) /\ ~(j < i)
    BY <1>1, <1>5, <2>1
  <2> QED BY <1>1, <2>2
<1>6. x \in UsedBytes <=> \E j \in AllocBlocks : x \in Extent(blocks[j])
  BY DEF UsedBytes
<1>7. AllocBlocks = {j \in 1 .. n : blocks[j].alloc}
  BY <1>1 DEF AllocBlocks, FreeBlocks
<1> QED BY <1>1, <1>4, <1>5, <1>6, <1>7

\* The gap that a block is when it is free.
GapOf(i) == <<blocks[i].ptr, blocks[i].ptr + blocks[i].size - 1>>

\* A free block is a gap: the bytes beside it are in use or outside the pool.
LEMMA FreeIsGap ==
    ASSUME Laid, NEW i \in FreeBlocks
    PROVE  GapOf(i) \in Gaps
<1>1. PICK n \in Nat : n = Len(blocks) /\ DOMAIN blocks = 1 .. n
  BY DEF Laid
<1>2. i \in 1 .. n /\ ~blocks[i].alloc
  BY <1>1 DEF FreeBlocks
<1>3. PICK p \in Nat, z \in Nat \ {0} : p = blocks[i].ptr /\ z = blocks[i].size
  BY <1>1, <1>2 DEF Laid
<1>4. PICK q \in Nat : q = p + z - 1 /\ p <= q
  BY <1>3
<1>5. GapOf(i) = <<p, q>> /\ Extent(blocks[i]) = p .. q
  BY <1>3, <1>4 DEF GapOf, Extent
<1>6. \A x \in p .. q : x \in Bytes /\ x \notin UsedBytes
  BY <1>1, <1>2, <1>5, ByteOfBlock
<1>7. p \in Bytes /\ q \in Bytes /\ p .. q \cap UsedBytes = {}
  BY <1>4, <1>6
<1>8. p - 1 \notin Bytes \ UsedBytes
  <2>1. CASE i = 1
    <3>1. p = 0
      BY <1>1, <1>2, <1>3, <2>1 DEF Laid
    <3> QED BY <3>1 DEF Bytes
  <2>2. CASE i # 1
    <3>1. PICK k \in 1 .. n - 1 : k + 1 = i
      <4>1. i - 1 \in 1 .. n - 1 /\ (i - 1) + 1 = i
        BY <1>2, <2>2
      <4> QED BY <4>1
    <3>2. blocks[k].alloc /\ p = blocks[k].ptr + blocks[k].size
      BY <1>1, <1>2, <1>3, <3>1 DEF Laid
    <3>3. k \in 1 .. n /\ blocks[k].ptr \in Nat /\ blocks[k].size \in Nat \ {0}
      BY <1>1, <3>1 DEF Laid
    <3>4. p - 1 \in Extent(blocks[k])
      BY <1>3, <3>2, <3>3 DEF Extent
    <3>5. p - 1 \in UsedBytes
      BY <1>1, <3>2, <3>3, <3>4, ByteOfBlock
    <3> QED BY <3>5
  <2> QED BY <2>1, <2>2
<1>9. q + 1 \notin Bytes \ UsedBytes
  <2>1. CASE i = n
    <3>1. q + 1 = mySize /\ mySize \in Nat
      BY <1>1, <1>2, <1>3, <1>4, <2>1 DEF Laid
    <3> QED BY <3>1 DEF Bytes
  <2>2. CASE i # n
    <3>1. i \in 1 .. n - 1 /\ i + 1 \in 1 .. n
      BY <1>2, <2>2
    <3>2. PICK k \in 1 .. n : k = i + 1
      BY <3>1
    <3>3. blocks[k].alloc /\ blocks[k].ptr = q + 1
      <4>1. blocks[i + 1].alloc /\ blocks[i + 1].ptr = p + z
        BY <1>1, <1>2, <1>3, <3>1 DEF Laid
      <4> QED BY <1>3, <1>4, <3>2, <4>1
    <3>4. blocks[k].ptr \in Nat /\ blocks[k].size \in Nat \ {0}
      BY <1>1 DEF Laid
    <3>5. q + 1 \in Extent(blocks[k])
      BY <3>3, <3>4 DEF Extent
    <3>6. q + 1 \in UsedBytes
      BY <1>1, <3>3, <3>5, ByteOfBlock
    <3> QED BY <3>6
  <2> QED BY <2>1, <2>2
<1>10. PICK g : g = <<p, q>>
  OBVIOUS
<1>11. g \in Bytes \X Bytes /\ g[1] = p /\ g[2] = q
  BY <1>7, <1>10
<1>12. g \in Gaps
  BY <1>4, <1>7, <1>8, <1>9, <1>11 DEF Gaps
<1> QED BY <1>5, <1>10, <1>12

\* And every gap is one: a gap begins and ends with a block, which is free, and cannot
\* go on into the next, which is not.
LEMMA GapIsFree ==
    ASSUME Laid, NEW g \in Gaps
    PROVE  \E i \in FreeBlocks : g = GapOf(i)
<1>1. PICK n \in Nat : n = Len(blocks) /\ DOMAIN blocks = 1 .. n
  BY DEF Laid
<1>2. PICK c \in Bytes, d \in Bytes : g = <<c, d>> /\ g[1] = c /\ g[2] = d
  BY DEF Gaps
<1>3. /\ c <= d /\ c .. d \cap UsedBytes = {}
      /\ c - 1 \notin Bytes \ UsedBytes /\ d + 1 \notin Bytes \ UsedBytes
  BY <1>2 DEF Gaps
<1>4. c \in Nat /\ d \in Nat /\ mySize \in Nat /\ d < mySize
  BY DEF Laid, Bytes
<1>5. PICK i \in 1 .. n : c \in Extent(blocks[i])
  BY <1>1 DEF Laid
<1>6. PICK p \in Nat, z \in Nat \ {0} : p = blocks[i].ptr /\ z = blocks[i].size
  BY <1>1 DEF Laid
<1>7. PICK q \in Nat : q = p + z - 1 /\ p <= q /\ Extent(blocks[i]) = p .. q
  <2>1. p + z - 1 \in Nat /\ p <= p + z - 1
    BY <1>6
  <2> QED BY <1>6, <2>1 DEF Extent
<1>8. ~blocks[i].alloc
  <2>1. c \notin UsedBytes
    BY <1>3, <1>4
  <2> QED BY <1>1, <1>5, <2>1, ByteOfBlock
<1>9. \A x \in p .. q : x \in Bytes /\ x \notin UsedBytes
  BY <1>1, <1>7, <1>8, ByteOfBlock
<1>10. p <= c /\ c <= q
  BY <1>4, <1>5, <1>7
<1>11. c = p
  <2> SUFFICES ASSUME p < c PROVE FALSE
    BY <1>4, <1>10
  <2>1. c - 1 \in p .. q
    BY <1>4, <1>10
  <2> QED BY <1>3, <1>9, <2>1
<1>12. d >= q
  <2> SUFFICES ASSUME d < q PROVE FALSE
    BY <1>4
  <2>1. d + 1 \in p .. q
    BY <1>3, <1>4, <1>10
  <2> QED BY <1>3, <1>9, <2>1
<1>13. d <= q
  <2> SUFFICES ASSUME q < d PROVE FALSE
    BY <1>4
  <2>1. i # n
    <3>1. i = n => p + z = mySize
      BY <1>1, <1>6 DEF Laid
    <3> QED BY <1>4, <1>6, <1>7, <3>1
  <2>2. i \in 1 .. n - 1 /\ i + 1 \in 1 .. n
    BY <2>1
  <2>3. blocks[i + 1].alloc /\ blocks[i + 1].ptr = p + z
    BY <1>1, <1>6, <1>8, <2>2 DEF Laid
  <2>4. PICK k \in 1 .. n : k = i + 1
    BY <2>2
  <2>5. blocks[k].alloc /\ blocks[k].ptr = q + 1 /\ blocks[k].size \in Nat \ {0}
    <3>1. p + z = q + 1
      BY <1>6, <1>7
    <3>2. blocks[k].size \in Nat \ {0}
      BY <1>1 DEF Laid
    <3> QED BY <2>3, <2>4, <3>1, <3>2
  <2>6. q + 1 \in Extent(blocks[k])
    BY <2>5 DEF Extent
  <2>7. q + 1 \in UsedBytes
    BY <1>1, <2>5, <2>6, ByteOfBlock
  <2>8. q + 1 \in c .. d
    BY <1>4, <1>10
  <2> QED BY <1>3, <2>7, <2>8
<1>14. d = q
  BY <1>4, <1>12, <1>13
<1>15. g = GapOf(i) /\ i \in FreeBlocks
  BY <1>1, <1>2, <1>6, <1>7, <1>8, <1>11, <1>14 DEF GapOf, FreeBlocks
<1> QED BY <1>15

\* A free block is as long as its gap, and two of them are two gaps.
LEMMA GapsOfBlocks ==
    ASSUME Laid
    PROVE  /\ Gaps = {GapOf(i) : i \in FreeBlocks}
           /\ \A i \in FreeBlocks : GapSize(GapOf(i)) = blocks[i].size
           /\ \A i, j \in FreeBlocks : GapOf(i) = GapOf(j) => i = j
<1>1. PICK n \in Nat : n = Len(blocks) /\ DOMAIN blocks = 1 .. n
  BY DEF Laid
<1>2. FreeBlocks \subseteq 1 .. n
  BY <1>1 DEF FreeBlocks
<1>3. Gaps = {GapOf(i) : i \in FreeBlocks}
  <2>1. Gaps \subseteq {GapOf(i) : i \in FreeBlocks}
    BY GapIsFree
  <2>2. {GapOf(i) : i \in FreeBlocks} \subseteq Gaps
    BY FreeIsGap
  <2> QED BY <2>1, <2>2
<1>4. ASSUME NEW i \in FreeBlocks PROVE GapSize(GapOf(i)) = blocks[i].size
  <2>1. PICK p \in Nat, z \in Nat : p = blocks[i].ptr /\ z = blocks[i].size
    BY <1>1, <1>2 DEF Laid
  <2>2. GapOf(i) = <<p, p + z - 1>>
    BY <2>1 DEF GapOf
  <2>3. GapSize(GapOf(i)) = (p + z - 1) - p + 1
    BY <2>2 DEF GapSize
  <2> QED BY <2>1, <2>3
<1>5. ASSUME NEW i \in FreeBlocks, NEW j \in FreeBlocks, GapOf(i) = GapOf(j) PROVE i = j
  <2>1. blocks[i].ptr = blocks[j].ptr
    BY <1>5 DEF GapOf
  <2>2. \A k \in 1 .. n : blocks[k].ptr \in Nat /\ blocks[k].size \in Nat \ {0}
    BY <1>1 DEF Laid
  <2>3. blocks[i].ptr \in Extent(blocks[i]) /\ blocks[i].ptr \in Extent(blocks[j])
    BY <1>2, <2>1, <2>2 DEF Extent
  <2> QED BY <1>1, <1>2, <2>3, ByteOfBlock
<1> QED BY <1>3, <1>4, <1>5

-----------------------------------------------------------------------------
(* The status functions                                                    *)

\* The bytes of some of the blocks.
Cover(t) == UNION {Extent(blocks[i]) : i \in t}

\* One block more covers as many bytes more as its size.
LEMMA OneMoreBlock ==
    ASSUME Laid, NEW t \in SUBSET (1 .. Len(blocks)), NEW x \in t
    PROVE  /\ IsFiniteSet(Cover(t)) /\ Cardinality(Cover(t)) \in Nat
           /\ Cardinality(Cover(t)) = blocks[x].size + Cardinality(Cover(t \ {x}))
<1>1. PICK n \in Nat : n = Len(blocks)
  BY DEF Laid
<1>2. \A i \in 1 .. n : \A y \in Extent(blocks[i]) :
         y \in Bytes /\ \A j \in 1 .. n : y \in Extent(blocks[j]) => j = i
  BY <1>1, ByteOfBlock
<1>3. IsFiniteSet(Bytes)
  <2>1. mySize \in Nat
    BY DEF Laid
  <2>2. IsFiniteSet(0 .. mySize - 1)
    BY <2>1, FS_Interval
  <2> QED BY <2>2 DEF Bytes
<1>4. \A u \in SUBSET (1 .. n) : IsFiniteSet(Cover(u)) /\ Cardinality(Cover(u)) \in Nat
  <2> TAKE u \in SUBSET (1 .. n)
  <2>1. Cover(u) \subseteq Bytes
    BY <1>2 DEF Cover
  <2> QED BY <1>3, <2>1, FS_Subset, FS_CardinalityType
<1>5. PICK p \in Nat, z \in Nat \ {0} : p = blocks[x].ptr /\ z = blocks[x].size
  BY DEF Laid
<1>6. PICK e : e = Extent(blocks[x])
  OBVIOUS
<1>7. IsFiniteSet(e) /\ Cardinality(e) = z
  <2>1. PICK q \in Nat : q = p + z - 1 /\ p <= q
    <3>1. p + z - 1 \in Nat /\ p <= p + z - 1
      BY <1>5
    <3> QED BY <3>1
  <2>2. e = p .. q
    BY <1>5, <1>6, <2>1 DEF Extent
  <2>3. IsFiniteSet(p .. q) /\ Cardinality(p .. q) = q - p + 1
    BY <2>1, FS_Interval
  <2>4. q - p + 1 = z
    BY <1>5, <2>1
  <2> QED BY <2>2, <2>3, <2>4
<1>8. PICK c : c = Cover(t \ {x})
  OBVIOUS
<1>9. IsFiniteSet(c) /\ Cardinality(c) \in Nat
  <2>1. t \ {x} \in SUBSET (1 .. n)
    BY <1>1
  <2> QED BY <1>4, <1>8, <2>1
<1>10. Cover(t) = e \cup c
  BY <1>6, <1>8 DEF Cover
<1>11. e \cap c = {}
  <2> SUFFICES ASSUME NEW y \in e, y \in c PROVE FALSE
    OBVIOUS
  <2>1. PICK j \in t \ {x} : y \in Extent(blocks[j])
    BY <1>8 DEF Cover
  <2> QED BY <1>1, <1>2, <1>6, <2>1
<1>12. Cardinality(e \cup c) = Cardinality(e) + Cardinality(c)
  <2>1. Cardinality(e \cup c) = Cardinality(e) + Cardinality(c) - Cardinality(e \cap c)
    BY <1>7, <1>9, FS_Union
  <2>2. Cardinality(e \cap c) = 0
    BY <1>11, FS_EmptySet
  <2> QED BY <1>7, <1>9, <2>1, <2>2
<1>13. t \in SUBSET (1 .. n)
  BY <1>1
<1> QED BY <1>4, <1>5, <1>7, <1>8, <1>10, <1>12, <1>13

\* So the sum of the sizes of some blocks is the number of their bytes.
LEMMA SumOfSizes ==
    ASSUME Laid, NEW T \in SUBSET (1 .. Len(blocks))
    PROVE  MapThenSumSet(LAMBDA i : blocks[i].size, T) = Cardinality(Cover(T))
<1> DEFINE Pick(t) == CHOOSE x \in t : TRUE
           Step(g) == [t \in SUBSET T |->
                         IF t = {} THEN 0 ELSE blocks[Pick(t)].size + g[t \ {Pick(t)}]]
           W == [t \in SUBSET T |-> Cardinality(Cover(t))]
           iter == CHOOSE g : g = Step(g)
<1>1. MapThenSumSet(LAMBDA i : blocks[i].size, T) = iter[T]
  BY DEF MapThenSumSet, MapThenFoldSet
<1>2. \A t \in SUBSET T : t # {} => Pick(t) \in t
  OBVIOUS
<1>3. W[{}] = 0
  <2>1. Cover({}) = {}
    BY DEF Cover
  <2> QED BY <2>1, FS_EmptySet
<1>4. \A t \in SUBSET T : \A x \in t : W[t] = blocks[x].size + W[t \ {x}]
  <2> SUFFICES ASSUME NEW t \in SUBSET T, NEW x \in t PROVE W[t] = blocks[x].size + W[t \ {x}]
    OBVIOUS
  <2>1. W[t] = Cardinality(Cover(t)) /\ W[t \ {x}] = Cardinality(Cover(t \ {x}))
    OBVIOUS
  <2>2. t \in SUBSET (1 .. Len(blocks))
    OBVIOUS
  <2> HIDE DEF W
  <2>3. Cardinality(Cover(t)) = blocks[x].size + Cardinality(Cover(t \ {x}))
    BY <2>2, OneMoreBlock
  <2> QED BY <2>1, <2>3
<1>5. W = Step(W)
  <2>1. \A t \in SUBSET T :
           W[t] = IF t = {} THEN 0 ELSE blocks[Pick(t)].size + W[t \ {Pick(t)}]
    <3> SUFFICES ASSUME NEW t \in SUBSET T
                 PROVE  W[t] = IF t = {} THEN 0 ELSE blocks[Pick(t)].size + W[t \ {Pick(t)}]
      OBVIOUS
    <3>1. CASE t = {}
      BY <1>3, <3>1
    <3>2. CASE t # {}
      <4>1. Pick(t) \in t
        BY <1>2, <3>2
      <4> HIDE DEF W, Pick
      <4> QED BY <1>4, <3>2, <4>1
    <3> QED BY <3>1, <3>2
  <2>2. W = [t \in SUBSET T |-> W[t]]
    OBVIOUS
  <2> HIDE DEF W, Pick
  <2> QED BY <2>1, <2>2
<1>6. iter = Step(iter)
  <2> HIDE DEF W, Step
  <2> QED BY <1>5
<1>7. \A t \in SUBSET T :
         iter[t] = IF t = {} THEN 0 ELSE blocks[Pick(t)].size + iter[t \ {Pick(t)}]
  <2>1. \A g, t : t \in SUBSET T =>
           Step(g)[t] = IF t = {} THEN 0 ELSE blocks[Pick(t)].size + g[t \ {Pick(t)}]
    BY DEF Step
  <2> HIDE DEF Step, iter, Pick
  <2> QED BY <1>6, <2>1
<1>8. IsFiniteSet(T)
  <2>1. Len(blocks) \in Nat
    BY DEF Laid
  <2>2. IsFiniteSet(1 .. Len(blocks))
    BY <2>1, FS_Interval
  <2> QED BY <2>2, FS_Subset
<1>9. \A t \in SUBSET T : IsFiniteSet(t) /\ Cardinality(t) \in Nat
  BY <1>8, FS_Subset, FS_CardinalityType
<1> HIDE DEF iter, W, Pick
<1> DEFINE Bad == {t \in SUBSET T : iter[t] # W[t]}
           Counts == {Cardinality(t) : t \in Bad}
<1>10. SUFFICES ASSUME Bad # {} PROVE FALSE
  <2>1. iter[T] = W[T]
    BY <1>10
  <2> QED BY <1>1, <2>1 DEF W
<1>11. Counts \in SUBSET Nat /\ Counts # {}
  BY <1>9, <1>10
<1>12. PICK m \in Counts : \A k \in Counts : m <= k
  <2> HIDE DEF Counts
  <2> QED BY <1>11, LeastNumber
<1>13. PICK t \in Bad : m = Cardinality(t)
  BY <1>12
<1>14. t # {}
  <2>1. iter[{}] = 0
    BY <1>7
  <2> QED BY <1>3, <1>13, <2>1
<1>15. PICK x \in t : x = Pick(t)
  BY <1>2, <1>13, <1>14
<1>16. t \ {x} \notin Bad
  <2>1. Cardinality(t \ {x}) = Cardinality(t) - 1
    BY <1>9, <1>13, <1>15, FS_RemoveElement
  <2>2. m \in Nat /\ ~(m <= m - 1)
    BY <1>11, <1>12
  <2>3. Cardinality(t \ {x}) \notin Counts
    BY <1>12, <1>13, <2>1, <2>2
  <2> QED BY <2>3
<1>17. iter[t \ {x}] = W[t \ {x}]
  BY <1>13, <1>16
<1>18. iter[t] = blocks[x].size + iter[t \ {x}] /\ W[t] = blocks[x].size + W[t \ {x}]
  BY <1>4, <1>7, <1>13, <1>14, <1>15
<1> QED BY <1>13, <1>17, <1>18

\* Some of the free blocks are as many gaps.
LEMMA AsManyGaps ==
    ASSUME Laid, NEW T \in SUBSET FreeBlocks
    PROVE  Cardinality({GapOf(i) : i \in T}) = Cardinality(T)
<1> DEFINE U == {GapOf(i) : i \in T}
           f == [i \in T |-> GapOf(i)]
<1>1. IsFiniteSet(T)
  <2>1. Len(blocks) \in Nat /\ FreeBlocks \subseteq 1 .. Len(blocks)
    BY DEF Laid, FreeBlocks
  <2>2. IsFiniteSet(1 .. Len(blocks))
    BY <2>1, FS_Interval
  <2> QED BY <2>1, <2>2, FS_Subset
<1>2. f \in [T -> U] /\ \A i \in T : f[i] = GapOf(i)
  OBVIOUS
<1>3. \A i, j \in T : f[i] = f[j] => i = j
  <2>1. \A i, j \in FreeBlocks : GapOf(i) = GapOf(j) => i = j
    BY GapsOfBlocks
  <2> QED BY <2>1
<1>4. \A u \in U : \E i \in T : f[i] = u
  OBVIOUS
<1> HIDE DEF f, U
<1>5. f \in Surjection(T, U) /\ f \in Injection(T, U)
  BY <1>2, <1>3, <1>4 DEF Surjection, Injection, IsInjective
<1>6. Cardinality(U) = Cardinality(T)
  BY <1>1, <1>5, FS_Surjection
<1> QED BY <1>6 DEF U

\* The bytes of the free blocks are those that are not in use.
LEMMA FreeBytes ==
    ASSUME Laid
    PROVE  Cover(FreeBlocks) = Bytes \ UsedBytes /\ Cover(AllocBlocks) = UsedBytes
<1>1. PICK n \in Nat : n = Len(blocks) /\ DOMAIN blocks = 1 .. n
  BY DEF Laid
<1>2. FreeBlocks = {i \in 1 .. n : ~blocks[i].alloc}
  BY <1>1 DEF FreeBlocks
<1>3. ASSUME NEW x \in Cover(FreeBlocks) PROVE x \in Bytes \ UsedBytes
  <2>1. PICK i \in FreeBlocks : x \in Extent(blocks[i])
    BY DEF Cover
  <2> QED BY <1>1, <1>2, <2>1, ByteOfBlock
<1>4. ASSUME NEW x \in Bytes \ UsedBytes PROVE x \in Cover(FreeBlocks)
  <2>1. PICK i \in 1 .. n : x \in Extent(blocks[i])
    BY <1>1 DEF Laid
  <2>2. ~blocks[i].alloc
    BY <1>1, <2>1, ByteOfBlock
  <2> QED BY <1>2, <2>1, <2>2 DEF Cover
<1> QED BY <1>3, <1>4 DEF Cover, UsedBytes

\* Whatever was allocated and freed before, the five status functions, which look at the
\* list, say of the pool what is true of its bytes: the number of gaps, of bytes in use
\* and of bytes not in use, the longest gap, and how many gaps are short.
THEOREM StatusIsTrue == ASSUME SizesFit PROVE Spec => []StatusExact
<1>1. PoolInv => StatusExact
  <2> SUFFICES ASSUME PoolInv PROVE StatusExact OBVIOUS
  <2>1. Laid
    BY InvLaid
  <2>2. /\ Gaps = {GapOf(i) : i \in FreeBlocks}
        /\ \A i \in FreeBlocks : GapSize(GapOf(i)) = blocks[i].size
    BY <2>1, GapsOfBlocks
  <2>3. FreeBlocks \subseteq 1 .. Len(blocks) /\ AllocBlocks \subseteq 1 .. Len(blocks)
    BY <2>1 DEF Laid, FreeBlocks, AllocBlocks
  <2>4. mem_holes = Cardinality(Gaps)
    BY <2>1, <2>2, AsManyGaps DEF mem_holes
  <2>5. mem_allocated = Cardinality(UsedBytes)
    <3>1. mem_allocated = Cardinality(Cover(AllocBlocks))
      BY <2>1, <2>3, SumOfSizes DEF mem_allocated
    <3> QED BY <2>1, <3>1, FreeBytes
  <2>6. mem_free = Cardinality(Bytes \ UsedBytes)
    <3>1. mem_free = Cardinality(Cover(FreeBlocks))
      BY <2>1, <2>3, SumOfSizes DEF mem_free
    <3> QED BY <2>1, <3>1, FreeBytes
  <2>7. mem_largest_free = Max({0} \cup {GapSize(g) : g \in Gaps})
    <3>1. {GapSize(g) : g \in Gaps} = {blocks[i].size : i \in FreeBlocks}
      BY <2>2
    <3> QED BY <3>1 DEF mem_largest_free
  <2>8. ASSUME NEW s \in Requests
        PROVE  mem_small_free(s) = Cardinality({g \in Gaps : GapSize(g) <= s})
    <3>1. PICK T \in SUBSET FreeBlocks : T = {i \in FreeBlocks : blocks[i].size <= s}
      OBVIOUS
    <3>2. {g \in Gaps : GapSize(g) <= s} = {GapOf(i) : i \in T}
      BY <2>2, <3>1
    <3>3. Cardinality({GapOf(i) : i \in T}) = Cardinality(T)
      BY <2>1, AsManyGaps
    <3> QED BY <3>1, <3>2, <3>3 DEF mem_small_free
  <2> QED BY <2>4, <2>5, <2>6, <2>7, <2>8 DEF StatusExact
<1> QED BY <1>1, PoolInvAlways, PTL

-----------------------------------------------------------------------------
(* Where a request is placed                                               *)

\* A search that keeps a block keeps the first of those it looks for.
LEMMA EarliestIsFirst ==
    ASSUME NEW S \in SUBSET Nat, NEW y \in S
    PROVE  Earliest(S) \in S /\ Earliest(S) <= y
<1>1. PICK m \in S : \A x \in S : m <= x
  BY LeastNumber
<1> QED BY <1>1 DEF Earliest, Min

\* There is a smallest and a largest among blocks that fit, if any fits.
LEMMA ExtremesExist ==
    ASSUME Laid, NEW S \in SUBSET (1 .. Len(blocks)), S # {}
    PROVE  BestOf(S) # {} /\ WorstOf(S) # {}
<1>1. \A i \in S : blocks[i].size \in 0 .. mySize
  <2> TAKE i \in S
  <2>1. PICK p \in Nat, z \in Nat : p = blocks[i].ptr /\ z = blocks[i].size /\ p + z <= mySize
    BY DEF Laid
  <2>2. mySize \in Nat
    BY DEF Laid
  <2> QED BY <2>1, <2>2
<1> DEFINE Z == {blocks[i].size : i \in S}
<1>2. Z \in SUBSET (0 .. mySize) /\ Z # {} /\ mySize \in Nat
  BY <1>1 DEF Laid
<1>3. Z \in SUBSET Nat
  BY <1>2
<1> HIDE DEF Z
<1>4. PICK a \in Z : \A z \in Z : a <= z
  BY <1>2, <1>3, LeastNumber
<1>5. PICK c \in Z : \A z \in Z : z <= c
  BY <1>2, GreatestNumber
<1>6. PICK i \in S : a = blocks[i].size
  BY DEF Z
<1>7. PICK k \in S : c = blocks[k].size
  BY DEF Z
<1>8. i \in BestOf(S)
  BY <1>4, <1>6 DEF BestOf, Z
<1>9. \A j \in S : blocks[k].size >= blocks[j].size
  <2> TAKE j \in S
  <2>1. blocks[j].size \in Z
    BY DEF Z
  <2>2. blocks[j].size <= blocks[k].size
    BY <1>5, <1>7, <2>1
  <2> QED BY <1>1, <2>2
<1> QED BY <1>8, <1>9 DEF WorstOf

\* A request is refused only when no free block is large enough.
LEMMA RefusedMeansNone ==
    ASSUME SizesFit, PoolInv, myStrategy # "NotSet", NEW requested, Chosen(requested) = 0
    PROVE  Fitting(requested) = {}
<1> SUFFICES ASSUME Fitting(requested) # {} PROVE FALSE
  OBVIOUS
<1>1. Laid
  BY InvLaid
<1>2. PICK S : S = Fitting(requested)
  OBVIOUS
<1>3. S \in SUBSET (1 .. Len(blocks)) /\ S # {}
  BY <1>1, <1>2 DEF Fitting, Laid
<1>4. \A T \in SUBSET S : T # {} => Earliest(T) # 0
  <2> SUFFICES ASSUME NEW T \in SUBSET S, T # {} PROVE Earliest(T) # 0
    OBVIOUS
  <2>1. T \in SUBSET Nat
    BY <1>3
  <2>2. Earliest(T) \in T
    BY <2>1, EarliestIsFirst
  <2> QED BY <1>3, <2>2
<1>5. BestOf(S) # {} /\ WorstOf(S) # {}
  BY <1>1, <1>3, ExtremesExist
<1>6. BestOf(S) \in SUBSET S /\ WorstOf(S) \in SUBSET S
  BY DEF BestOf, WorstOf
<1>7. myStrategy \in {"first", "best", "worst"}
  BY MemConstants DEF PoolInv, TileInv, SizesFit
<1>8. CASE myStrategy = "first"
  BY <1>2, <1>3, <1>4, <1>8 DEF Chosen, FirstFit
<1>9. CASE myStrategy = "best"
  <2>1. Chosen(requested) = Earliest(BestOf(S))
    BY <1>2, <1>9 DEF Chosen, BestFit, BestOf
  <2> QED BY <1>4, <1>5, <1>6, <2>1
<1>10. CASE myStrategy = "worst"
  <2>1. Chosen(requested) = Earliest(WorstOf(S))
    BY <1>2, <1>10 DEF Chosen, WorstFit, WorstOf
  <2> QED BY <1>4, <1>5, <1>6, <2>1
<1> QED BY <1>7, <1>8, <1>9, <1>10

\* How the block that is chosen compares with another that is large enough.
LEMMA ChosenCompares ==
    ASSUME SizesFit, PoolInv, myStrategy # "NotSet", NEW requested, Chosen(requested) # 0,
           NEW j \in Fitting(requested), j # Chosen(requested)
    PROVE  LET i == Chosen(requested)
               z == blocks[i].size
               y == blocks[j].size
           IN  \/ myStrategy = "first" /\ i < j
               \/ myStrategy = "best" /\ (z < y \/ (z = y /\ i < j))
               \/ myStrategy = "worst" /\ (z > y \/ (z = y /\ i < j))
<1>1. Laid /\ TileInv
  BY InvLaid DEF PoolInv
<1>2. PICK S : S = Fitting(requested)
  OBVIOUS
<1>3. S \in SUBSET (1 .. Len(blocks)) /\ S \in SUBSET Nat
  BY <1>1, <1>2 DEF Fitting, Laid
<1>4. PICK i \in S : i = Chosen(requested)
  BY <1>1, <1>2, ChosenFits
<1>5. \A k \in S : blocks[k].size \in Nat
  BY <1>1, <1>3 DEF Laid
<1>6. BestOf(S) \in SUBSET S /\ WorstOf(S) \in SUBSET S
  BY DEF BestOf, WorstOf
<1>7. myStrategy \in {"first", "best", "worst"}
  BY MemConstants DEF PoolInv, TileInv, SizesFit
<1>8. j \in S /\ j # i /\ i \in Nat /\ j \in Nat
  BY <1>2, <1>3, <1>4
<1>9. PICK z \in Nat, y \in Nat : z = blocks[i].size /\ y = blocks[j].size
  BY <1>5, <1>8
<1>10. \A T \in SUBSET S : j \in T /\ i = Earliest(T) => i < j
  <2> SUFFICES ASSUME NEW T \in SUBSET S, j \in T, i = Earliest(T) PROVE i < j
    OBVIOUS
  <2>1. T \in SUBSET Nat
    BY <1>3
  <2>2. Earliest(T) <= j
    BY <2>1, EarliestIsFirst
  <2> QED BY <1>8, <2>2
<1>11. CASE myStrategy = "first"
  <2>1. i = Earliest(S)
    BY <1>2, <1>4, <1>11 DEF Chosen, FirstFit
  <2>2. i < j
    BY <1>8, <1>10, <2>1
  <2> QED BY <1>4, <1>11, <2>2
<1>12. CASE myStrategy = "best"
  <2>1. i = Earliest(BestOf(S))
    BY <1>2, <1>4, <1>12 DEF Chosen, BestFit, BestOf
  <2>2. BestOf(S) # {}
    BY <1>1, <1>3, <1>4, ExtremesExist
  <2>3. i \in BestOf(S)
    BY <1>3, <1>6, <2>1, <2>2, EarliestIsFirst
  <2>4. z <= y
    BY <1>8, <1>9, <2>3 DEF BestOf
  <2>5. z = y => j \in BestOf(S)
    BY <1>8, <1>9, <2>3 DEF BestOf
  <2>6. z = y => i < j
    BY <1>6, <1>10, <2>1, <2>5
  <2> QED BY <1>4, <1>9, <1>12, <2>4, <2>6
<1>13. CASE myStrategy = "worst"
  <2>1. i = Earliest(WorstOf(S))
    BY <1>2, <1>4, <1>13 DEF Chosen, WorstFit, WorstOf
  <2>2. WorstOf(S) # {}
    BY <1>1, <1>3, <1>4, ExtremesExist
  <2>3. i \in WorstOf(S)
    BY <1>3, <1>6, <2>1, <2>2, EarliestIsFirst
  <2>4. z >= y
    BY <1>8, <1>9, <2>3 DEF WorstOf
  <2>5. z = y => j \in WorstOf(S)
    BY <1>8, <1>9, <2>3 DEF WorstOf
  <2>6. z = y => i < j
    BY <1>6, <1>10, <2>1, <2>5
  <2> QED BY <1>4, <1>9, <1>13, <2>4, <2>6
<1> QED BY <1>7, <1>11, <1>12, <1>13

\* First, best and worst fit put a request at the start of a gap that is long enough,
\* and of those it is the lowest, the lowest of the smallest, the lowest of the largest.
THEOREM PlacedAsTold == ASSUME SizesFit PROVE Spec => Placement
<1> DEFINE Placed ==
        (last'.op = "malloc" /\ last'.ret # NULL) =>
           \E g \in GapsFor(last'.arg) :
              /\ g[1] = last'.ret
              /\ \A h \in GapsFor(last'.arg) \ {g} : Better(g, h)
<1>1. PoolInv /\ [Next]_vars => [Placed]_vars
  <2> SUFFICES ASSUME PoolInv, Next PROVE Placed
    BY DEF vars
  <2>1. ASSUME NEW requested \in Requests, Mymalloc(requested) PROVE Placed
    <3>1. CASE Chosen(requested) # 0 /\ AllocateFrom(Chosen(requested), requested)
      <4>1. PICK i : i = Chosen(requested)
        OBVIOUS
      <4>2. Laid /\ TileInv /\ myStrategy # "NotSet"
        BY <2>1, InvLaid DEF PoolInv, Mymalloc
      <4>3. i \in Fitting(requested)
        BY <3>1, <4>1, <4>2, ChosenFits
      <4>4. /\ Fitting(requested) \subseteq FreeBlocks
            /\ \A k \in Fitting(requested) : k \in 1 .. Len(blocks) /\ blocks[k].size >= requested
        BY <4>2 DEF Fitting, FreeBlocks, Laid
      <4>5. /\ Gaps = {GapOf(k) : k \in FreeBlocks}
            /\ \A k \in FreeBlocks : GapSize(GapOf(k)) = blocks[k].size
        BY <4>2, GapsOfBlocks
      <4>6. \A k \in FreeBlocks : GapOf(k)[1] = blocks[k].ptr
        BY DEF GapOf
      <4>7. last'.arg = requested /\ last'.ret = blocks[i].ptr
        BY <3>1, <4>1 DEF AllocateFrom, Called
      <4>8. GapOf(i) \in GapsFor(requested)
        BY <4>3, <4>4, <4>5 DEF GapsFor
      <4>9. ASSUME NEW h \in GapsFor(requested) \ {GapOf(i)} PROVE Better(GapOf(i), h)
        <5>1. PICK j \in FreeBlocks : h = GapOf(j)
          BY <4>5 DEF GapsFor
        <5>2. j \in Fitting(requested) /\ j # i
          <6>1. GapSize(h) >= requested /\ h # GapOf(i)
            BY DEF GapsFor
          <6>2. blocks[j].size >= requested
            BY <4>5, <5>1, <6>1
          <6> QED BY <5>1, <6>1, <6>2 DEF Fitting, FreeBlocks
        <5>3. i \in FreeBlocks /\ i \in 1 .. Len(blocks) /\ j \in 1 .. Len(blocks)
          BY <4>3, <4>4, <5>2
        <5>4. PICK z \in Nat, y \in Nat : z = blocks[i].size /\ y = blocks[j].size
          BY <4>2, <5>3 DEF Laid
        <5>5. GapSize(GapOf(i)) = z /\ GapSize(h) = y
          BY <4>5, <5>1, <5>3, <5>4
        <5>6. i < j => GapOf(i)[1] < h[1]
          <6>1. PICK p \in Nat, q \in Nat : p = blocks[i].ptr /\ q = blocks[j].ptr
            BY <4>2, <5>3 DEF Laid
          <6>2. i < j => p + blocks[i].size <= q /\ blocks[i].size \in Nat \ {0}
            BY <4>2, <5>3, <6>1 DEF Laid
          <6>3. i < j => p < q
            BY <6>1, <6>2
          <6> QED BY <4>6, <5>1, <5>3, <6>1, <6>3
        <5>7. \/ myStrategy = "first" /\ i < j
              \/ myStrategy = "best" /\ (z < y \/ (z = y /\ i < j))
              \/ myStrategy = "worst" /\ (z > y \/ (z = y /\ i < j))
          BY <3>1, <4>1, <4>2, <5>2, <5>4, ChosenCompares
        <5>8. CASE myStrategy = "first"
          BY <5>6, <5>7, <5>8 DEF Better
        <5>9. CASE myStrategy = "best"
          BY <5>5, <5>6, <5>7, <5>9 DEF Better
        <5>10. CASE myStrategy = "worst"
          BY <5>5, <5>6, <5>7, <5>10 DEF Better
        <5> QED BY <5>7, <5>8, <5>9, <5>10
      <4>10. GapOf(i)[1] = blocks[i].ptr
        BY DEF GapOf
      <4> QED BY <4>7, <4>8, <4>9, <4>10
    <3>2. CASE last'.ret = NULL
      BY <3>2
    <3>3. \/ Chosen(requested) # 0 /\ AllocateFrom(Chosen(requested), requested)
          \/ Called("malloc", requested, NULL)
      BY <2>1 DEF Mymalloc
    <3> QED BY <3>1, <3>2, <3>3 DEF Called
  <2>2. ASSUME NEW requested, MymallocUnset(requested) PROVE Placed
    BY <2>2 DEF MymallocUnset, Called
  <2>3. ASSUME NEW strategy, NEW sz, Initmem(strategy, sz) PROVE Placed
    BY <2>3 DEF Initmem, Called
  <2>4. ASSUME NEW ptr, Myfree(ptr) PROVE Placed
    BY <2>4 DEF Myfree, Called
  <2> QED BY <2>1, <2>2, <2>3, <2>4 DEF Next
<1> QED BY <1>1, PoolInvAlways, PTL DEF Spec, Placement

-----------------------------------------------------------------------------
(* The list implements the pool                                            *)

\* The allocations that a list of blocks holds.
LiveOf(E) == {[ptr |-> e.ptr, size |-> e.size] : e \in {b \in E : b.alloc}}

LEMMA LiveEntries ==
    ASSUME Laid
    PROVE  Live = LiveOf(Entries(blocks))
<1>1. PICK n \in Nat : n = Len(blocks) /\ DOMAIN blocks = 1 .. n
  BY DEF Laid
<1>2. AllocBlocks = {i \in 1 .. n : blocks[i].alloc}
  BY <1>1 DEF AllocBlocks, FreeBlocks
<1>3. ASSUME NEW a \in Live PROVE a \in LiveOf(Entries(blocks))
  <2>1. PICK i \in AllocBlocks : a = [ptr |-> blocks[i].ptr, size |-> blocks[i].size]
    BY DEF Live
  <2>2. blocks[i] \in Entries(blocks) /\ blocks[i].alloc
    BY <1>1, <1>2 DEF Entries
  <2> QED BY <2>1, <2>2 DEF LiveOf
<1>4. ASSUME NEW a \in LiveOf(Entries(blocks)) PROVE a \in Live
  <2>1. PICK e \in Entries(blocks) : e.alloc /\ a = [ptr |-> e.ptr, size |-> e.size]
    BY DEF LiveOf
  <2>2. PICK i \in 1 .. n : e = blocks[i]
    BY <1>1 DEF Entries
  <2>3. i \in AllocBlocks
    BY <1>2, <2>1, <2>2
  <2> QED BY <2>1, <2>2, <2>3 DEF Live
<1> QED BY <1>3, <1>4

\* A block that is taken becomes one allocation more.
LEMMA TakenLive ==
    ASSUME Laid, blocks \in Seq(IntBlocks), NEW i \in FreeBlocks, NEW requested \in Int
    PROVE  LiveOf(Entries(Taken(i, requested))) =
              Live \cup {[ptr |-> blocks[i].ptr, size |-> requested]}
<1>1. PICK n \in Nat : n = Len(blocks) /\ DOMAIN blocks = 1 .. n
  BY DEF Laid
<1>2. i \in 1 .. n /\ ~blocks[i].alloc
  BY <1>1 DEF FreeBlocks
<1>3. PICK E : E = Entries(Taken(i, requested))
  OBVIOUS
<1>4. PICK used, rest : used = Used(blocks[i], requested) /\ rest = Rest(blocks[i], requested)
  OBVIOUS
<1>5. E = Around(blocks, i, i) \cup {used} \/ E = Around(blocks, i, i) \cup {used, rest}
  BY <1>1, <1>2, <1>3, <1>4, TakenEntries
<1>6. used.alloc /\ used.ptr = blocks[i].ptr /\ used.size = requested /\ ~rest.alloc
  <2>1. blocks[i] \in IntBlocks
    BY <1>1, <1>2
  <2>2. used.alloc = TRUE /\ used.ptr = blocks[i].ptr /\ used.size = requested
    BY <1>4, <2>1 DEF Used, IntBlocks, BlocksOf
  <2>3. rest.alloc = FALSE
    BY <1>4 DEF Rest
  <2> QED BY <2>2, <2>3
<1>7. \A e : e \in Around(blocks, i, i) /\ e.alloc <=> e \in Entries(blocks) /\ e.alloc
  <2>1. i .. i = {i}
    BY <1>2
  <2> QED BY <1>1, <1>2, <2>1 DEF Around, Entries
<1>8. {e \in E : e.alloc} = {e \in Entries(blocks) : e.alloc} \cup {used}
  BY <1>5, <1>6, <1>7
<1>9. LiveOf(E) = LiveOf(Entries(blocks)) \cup {[ptr |-> used.ptr, size |-> used.size]}
  BY <1>8 DEF LiveOf
<1> QED BY <1>3, <1>6, <1>9, LiveEntries

\* A block that is freed and merged is one allocation less.
LEMMA MergedLive ==
    ASSUME Laid, NEW i \in 1 .. Len(blocks), NEW list, Freed(list, i), IsMerged(list, i)
    PROVE  LiveOf(Entries(blocks')) = {a \in Live : a.ptr # blocks[i].ptr}
<1>1. PICK n \in Nat : n = Len(blocks) /\ DOMAIN blocks = 1 .. n
  BY DEF Laid
<1>2. /\ list \in Seq(IntBlocks) /\ Len(list) = n /\ ~list[i].alloc
      /\ \A k \in 1 .. n : /\ list[k].ptr = blocks[k].ptr /\ list[k].size = blocks[k].size
                           /\ k # i => list[k].alloc = blocks[k].alloc
  BY <1>1 DEF Freed
<1>3. PICK lo, hi, merged :
         Merges(list, i, lo, hi, merged) /\ blocks' = Splice(list, lo, <<merged>>, hi)
  BY DEF IsMerged
<1>4. i \in 1 .. n /\ i \in 1 .. Len(list)
  BY <1>1, <1>2
<1>5. Entries(blocks') = Around(list, lo, hi) \cup {merged}
  BY <1>2, <1>3, <1>4, MergedEntries
<1>6. /\ ~merged.alloc
      /\ \A k \in lo .. hi : ~list[k].alloc
  BY <1>3 DEF Merges
<1>7. \A k \in 1 .. n : k # i => blocks[k].ptr # blocks[i].ptr
  <2> SUFFICES ASSUME NEW k \in 1 .. n, blocks[k].ptr = blocks[i].ptr PROVE k = i
    OBVIOUS
  <2>1. \A j \in 1 .. n : blocks[j].ptr \in Nat /\ blocks[j].size \in Nat \ {0}
    BY <1>1 DEF Laid
  <2>2. blocks[i].ptr \in Extent(blocks[i]) /\ blocks[i].ptr \in Extent(blocks[k])
    BY <1>4, <2>1 DEF Extent
  <2> QED BY <1>1, <1>4, <2>2, ByteOfBlock
<1>8. LiveOf(Entries(blocks')) =
         {[ptr |-> list[k].ptr, size |-> list[k].size] : k \in {k \in 1 .. n : list[k].alloc}}
  <2>1. \A e : e \in Entries(blocks') /\ e.alloc <=> \E k \in 1 .. n : e = list[k] /\ list[k].alloc
    BY <1>2, <1>5, <1>6 DEF Around
  <2> QED BY <2>1 DEF LiveOf
<1>9. {k \in 1 .. n : list[k].alloc} = {k \in 1 .. n : blocks[k].alloc /\ k # i}
  BY <1>2
<1>10. LiveOf(Entries(blocks')) =
          {[ptr |-> blocks[k].ptr, size |-> blocks[k].size] :
              k \in {k \in 1 .. n : blocks[k].alloc /\ k # i}}
  BY <1>2, <1>8, <1>9
<1>11. AllocBlocks = {k \in 1 .. n : blocks[k].alloc}
  BY <1>1 DEF AllocBlocks, FreeBlocks
<1>12. \A a : a \in LiveOf(Entries(blocks')) <=> a \in Live /\ a.ptr # blocks[i].ptr
  <2>1. ASSUME NEW a \in LiveOf(Entries(blocks')) PROVE a \in Live /\ a.ptr # blocks[i].ptr
    <3>1. PICK k \in 1 .. n : /\ blocks[k].alloc /\ k # i
                              /\ a = [ptr |-> blocks[k].ptr, size |-> blocks[k].size]
      BY <1>10
    <3> QED BY <1>7, <1>11, <3>1 DEF Live
  <2>2. ASSUME NEW a \in Live, a.ptr # blocks[i].ptr PROVE a \in LiveOf(Entries(blocks'))
    <3>1. PICK k \in AllocBlocks : a = [ptr |-> blocks[k].ptr, size |-> blocks[k].size]
      BY DEF Live
    <3>2. k # i
      BY <2>2, <3>1
    <3> QED BY <1>10, <1>11, <3>1, <3>2
  <2> QED BY <2>1, <2>2
<1> QED BY <1>12

\* A free block that is long enough is a place that fits.
LEMMA BlockFits ==
    ASSUME Laid, NEW i \in FreeBlocks, NEW requested \in Nat, blocks[i].size >= requested
    PROVE  blocks[i].ptr \in 0 .. mySize - 1 /\ Pool!Fits(blocks[i].ptr, requested)
<1>1. PICK n \in Nat : n = Len(blocks) /\ DOMAIN blocks = 1 .. n
  BY DEF Laid
<1>2. i \in 1 .. n /\ ~blocks[i].alloc
  BY <1>1 DEF FreeBlocks
<1>3. PICK p \in Nat, z \in Nat \ {0} :
         p = blocks[i].ptr /\ z = blocks[i].size /\ p + z <= mySize /\ mySize \in Nat
  BY <1>1, <1>2 DEF Laid
<1>4. p \in 0 .. mySize - 1 /\ p + requested <= p + z /\ p + requested <= mySize
  BY <1>3
<1>5. ASSUME NEW a \in Live PROVE p + requested <= a.ptr \/ a.ptr + a.size <= p
  <2>1. PICK k \in AllocBlocks : a = [ptr |-> blocks[k].ptr, size |-> blocks[k].size]
    BY DEF Live
  <2>2. k \in 1 .. n /\ k # i
    BY <1>1, <1>2, <2>1 DEF AllocBlocks, FreeBlocks
  <2>3. PICK q \in Nat, y \in Nat : q = blocks[k].ptr /\ y = blocks[k].size
    BY <1>1, <2>2 DEF Laid
  <2>4. a.ptr = q /\ a.size = y
    BY <2>1, <2>3
  <2>5. i < k => p + z <= q
    BY <1>1, <1>2, <1>3, <2>2, <2>3 DEF Laid
  <2>6. k < i => q + y <= p
    BY <1>1, <1>2, <1>3, <2>2, <2>3 DEF Laid
  <2>7. i < k \/ k < i
    BY <1>2, <2>2
  <2>8. p + z <= q => p + requested <= q
    BY <1>3, <1>4
  <2> QED BY <2>4, <2>5, <2>6, <2>7, <2>8
<1> QED BY <1>3, <1>4, <1>5 DEF Pool!Fits

\* And when no free block is long enough, nothing fits anywhere.
LEMMA NothingFits ==
    ASSUME Laid, NEW requested \in Nat \ {0}, Fitting(requested) = {},
           NEW ptr \in 0 .. mySize - 1, Pool!Fits(ptr, requested)
    PROVE  FALSE
<1>1. PICK n \in Nat : n = Len(blocks) /\ DOMAIN blocks = 1 .. n
  BY DEF Laid
<1>2. PICK s \in Nat : s = mySize
  BY DEF Laid
<1>3. ptr \in Nat /\ ptr \in Bytes /\ ptr + requested <= s
  BY <1>2 DEF Bytes, Pool!Fits
<1>4. PICK i \in 1 .. n : ptr \in Extent(blocks[i])
  BY <1>1, <1>3 DEF Laid
<1>5. PICK p \in Nat, z \in Nat \ {0} : p = blocks[i].ptr /\ z = blocks[i].size
  BY <1>1 DEF Laid
<1>6. p <= ptr /\ ptr < p + z
  BY <1>3, <1>4, <1>5 DEF Extent
<1>7. ASSUME NEW k \in 1 .. n, blocks[k].alloc
      PROVE  ptr + requested <= blocks[k].ptr \/ blocks[k].ptr + blocks[k].size <= ptr
  <2>1. PICK a : a = [ptr |-> blocks[k].ptr, size |-> blocks[k].size]
    OBVIOUS
  <2>2. a \in Live
    BY <1>1, <1>7, <2>1 DEF Live, AllocBlocks, FreeBlocks
  <2>3. ptr + requested <= a.ptr \/ a.ptr + a.size <= ptr
    BY <2>2 DEF Pool!Fits
  <2> QED BY <2>1, <2>3
<1>8. ~blocks[i].alloc
  <2>1. ~(ptr + requested <= p) /\ ~(p + z <= ptr)
    BY <1>3, <1>5, <1>6
  <2> QED BY <1>5, <1>7, <2>1
<1>9. z < requested
  <2>1. ~(blocks[i].size >= requested)
    BY <1>1, <1>8 DEF Fitting
  <2> QED BY <1>5, <2>1
<1>10. p + z < ptr + requested
  BY <1>3, <1>5, <1>6, <1>9
<1>11. i # n
  <2>1. i = n => p + z = s
    BY <1>1, <1>2, <1>5 DEF Laid
  <2> QED BY <1>3, <1>5, <1>10, <2>1
<1>12. PICK k \in 1 .. n : k = i + 1 /\ i \in 1 .. n - 1
  <2>1. i + 1 \in 1 .. n /\ i \in 1 .. n - 1
    BY <1>11
  <2> QED BY <2>1
<1>13. blocks[k].alloc /\ blocks[k].ptr = p + z
  BY <1>1, <1>5, <1>8, <1>12 DEF Laid
<1>14. PICK y \in Nat : y = blocks[k].size
  BY <1>1 DEF Laid
<1>15. ptr + requested <= p + z \/ (p + z) + y <= ptr
  BY <1>7, <1>13, <1>14
<1> QED BY <1>3, <1>5, <1>6, <1>10, <1>14, <1>15

\* The list of blocks implements the pool of Heap: what mymalloc returns is a place where
\* the request fits, it returns NULL only when there is none, and myfree gives back the
\* allocation at its argument and no other.
THEOREM ImplementsHeap == ASSUME SizesFit PROVE Spec => PoolSpec
<1>1. Init => Pool!HeapInit
  <2> SUFFICES ASSUME Init PROVE Pool!HeapInit OBVIOUS
  <2>1. blocks = <<>> /\ mySize = 0 /\ last = [op |-> "none", arg |-> 0, ret |-> NULL]
    BY DEF Init
  <2>2. DOMAIN blocks = {}
    BY <2>1
  <2>3. Live = {}
    BY <2>2 DEF Live, AllocBlocks
  <2> QED BY <2>1, <2>3 DEF Pool!HeapInit
<1>2. PoolInv => Laid /\ Live = LiveOf(Entries(blocks))
  BY InvLaid, LiveEntries
<1>3. PoolInv' => Laid' /\ Live' = LiveOf(Entries(blocks'))
  <2>1. (PoolInv => Laid /\ Live = LiveOf(Entries(blocks)))'
    BY <1>2, PTL
  <2> QED BY <2>1 DEF LiveOf, Entries
<1>4. PoolInv /\ PoolInv' /\ [Next]_vars => [Pool!HeapNext]_(Pool!heapVars)
  <2> SUFFICES ASSUME PoolInv, PoolInv', [Next]_vars
               PROVE  Pool!HeapNext \/ UNCHANGED Pool!heapVars
    OBVIOUS
  <2>1. Laid /\ Live = LiveOf(Entries(blocks)) /\ Laid' /\ Live' = LiveOf(Entries(blocks'))
    BY <1>2, <1>3
  <2>2. Chain(blocks, mySize) /\ mySize \in Nat /\ blocks \in Seq(IntBlocks)
    BY <2>1 DEF PoolInv, TileInv, Chain, Laid
  <2>3. ASSUME NEW strategy \in Strategies, NEW sz \in PoolSizes, Initmem(strategy, sz)
        PROVE  Pool!HeapNext
    <3>1. PICK b : b = [ptr |-> 0, size |-> sz, alloc |-> FALSE]
      OBVIOUS
    <3>2. blocks' = <<b>> /\ ~b.alloc
      BY <2>3, <3>1 DEF Initmem
    <3>3. \A e \in Entries(blocks') : ~e.alloc
      BY <3>2 DEF Entries
    <3>4. Live' = {}
      BY <2>1, <3>3 DEF LiveOf
    <3>5. mySize' = sz /\ sz \in Nat /\ Pool!Answer("init", mySize', NULL)
      BY <2>3, MemConstants DEF Initmem, Called, Pool!Answer
    <3>6. Pool!Reset
      BY <3>4, <3>5 DEF Pool!Reset
    <3> QED BY <3>6 DEF Pool!HeapNext
  <2>4. ASSUME NEW requested \in Requests, Mymalloc(requested) PROVE Pool!HeapNext
    <3>1. myStrategy # "NotSet" /\ requested \in Nat \ {0} /\ TileInv
      BY <2>4, MemConstants DEF Mymalloc, PoolInv
    <3>2. CASE Chosen(requested) # 0 /\ AllocateFrom(Chosen(requested), requested)
      <4>1. PICK i : i = Chosen(requested)
        OBVIOUS
      <4>2. i \in Fitting(requested)
        BY <3>1, <3>2, <4>1, ChosenFits
      <4>3. i \in FreeBlocks /\ blocks[i].size >= requested
        BY <4>2 DEF Fitting, FreeBlocks
      <4>4. blocks[i].ptr \in 0 .. mySize - 1 /\ Pool!Fits(blocks[i].ptr, requested)
        BY <2>1, <3>1, <4>3, BlockFits
      <4>5. blocks' = Taken(i, requested) /\ mySize' = mySize
        BY <3>2, <4>1 DEF AllocateFrom
      <4>6. Live' = Live \cup {[ptr |-> blocks[i].ptr, size |-> requested]}
        <5>1. LiveOf(Entries(Taken(i, requested))) =
                 Live \cup {[ptr |-> blocks[i].ptr, size |-> requested]}
          BY <2>1, <2>2, <3>1, <4>3, TakenLive
        <5> QED BY <2>1, <4>5, <5>1
      <4>7. Pool!Answer("malloc", requested, blocks[i].ptr)
        BY <3>2, <4>1 DEF AllocateFrom, Called, Pool!Answer
      <4>8. Pool!Grant(requested)
        BY <4>4, <4>5, <4>6, <4>7 DEF Pool!Grant
      <4> QED BY <4>8 DEF Pool!HeapNext
    <3>3. CASE /\ Chosen(requested) = 0 /\ Called("malloc", requested, NULL)
               /\ UNCHANGED <<mySize, blocks>>
      <4>1. Fitting(requested) = {}
        BY <3>1, <3>3, RefusedMeansNone
      <4>2. \A ptr \in 0 .. mySize - 1 : ~Pool!Fits(ptr, requested)
        BY <2>1, <3>1, <4>1, NothingFits
      <4>3. Live' = Live /\ mySize' = mySize
        BY <2>1, <3>3
      <4>4. Pool!Refuse(requested)
        BY <3>3, <4>2, <4>3 DEF Called, Pool!Refuse, Pool!Answer
      <4> QED BY <4>4 DEF Pool!HeapNext
    <3> QED BY <2>4, <3>2, <3>3 DEF Mymalloc
  <2>5. ASSUME NEW requested \in Requests, MymallocUnset(requested) PROVE Pool!HeapNext
    <3>1. mySize = 0
      BY <2>5 DEF MymallocUnset, PoolInv
    <3>2. Live' = Live /\ mySize' = mySize
      BY <2>1, <2>5 DEF MymallocUnset
    <3>3. \A ptr \in 0 .. mySize - 1 : ~Pool!Fits(ptr, requested)
      BY <3>1
    <3>4. Pool!Refuse(requested)
      BY <2>5, <3>2, <3>3 DEF MymallocUnset, Called, Pool!Refuse, Pool!Answer
    <3> QED BY <3>4 DEF Pool!HeapNext
  <2>6. ASSUME NEW ptr \in Addresses, Myfree(ptr) PROVE Pool!HeapNext
    <3>1. PICK i : i = Earliest({j \in DOMAIN blocks : blocks[j].ptr = ptr})
      OBVIOUS
    <3>2. PICK n \in Nat : n = Len(blocks) /\ DOMAIN blocks = 1 .. n
      BY <2>1 DEF Laid
    <3>3. PICK S : S = {j \in DOMAIN blocks : blocks[j].ptr = ptr}
      OBVIOUS
    <3>4. S \in SUBSET Nat /\ S \subseteq 1 .. n
      BY <3>2, <3>3
    <3>5. mySize' = mySize /\ Pool!Answer("free", ptr, NULL)
      BY <2>6 DEF Myfree, Called, Pool!Answer
    <3>6. Live' = {a \in Live : a.ptr # ptr}
      <4>1. CASE i = 0
        <5>1. S = {}
          <6> SUFFICES ASSUME NEW y \in S PROVE FALSE
            OBVIOUS
          <6>1. Earliest(S) \in S
            BY <3>4, EarliestIsFirst
          <6> QED BY <3>1, <3>3, <3>4, <4>1, <6>1
        <5>2. \A a \in Live : a.ptr # ptr
          <6> TAKE a \in Live
          <6>1. PICK k \in AllocBlocks : a = [ptr |-> blocks[k].ptr, size |-> blocks[k].size]
            BY DEF Live
          <6>2. k \in DOMAIN blocks /\ a.ptr = blocks[k].ptr
            BY <6>1 DEF AllocBlocks
          <6> QED BY <3>3, <5>1, <6>2
        <5>3. blocks' = blocks
          BY <2>6, <3>1, <4>1 DEF Myfree
        <5> QED BY <2>1, <5>2, <5>3
      <4>2. CASE i # 0
        <5>1. i \in S
          <6>1. i = Earliest(S)
            BY <3>1, <3>3
          <6> QED BY <3>4, <4>2, <6>1, EarliestIn
        <5>2. i \in 1 .. Len(blocks) /\ blocks[i].ptr = ptr
          <6>1. i \in 1 .. n
            BY <3>4, <5>1
          <6>2. blocks[i].ptr = ptr
            BY <3>3, <5>1
          <6> QED BY <3>2, <6>1, <6>2
        <5>3. PICK list : list = [blocks EXCEPT ![i].alloc = FALSE]
          OBVIOUS
        <5>4. MergeBlocks(list, i)
          BY <2>6, <3>1, <4>2, <5>3 DEF Myfree
        <5>5. Freed(list, i) /\ IsMerged(list, i)
          <6>1. mySize \in Int /\ Chain(blocks, mySize)
            BY <2>2
          <6> QED BY <5>2, <5>3, <5>4, <6>1, FreedList, MergeShape
        <5>6. LiveOf(Entries(blocks')) = {a \in Live : a.ptr # blocks[i].ptr}
          BY <2>1, <5>2, <5>5, MergedLive
        <5> QED BY <2>1, <5>2, <5>6
      <4> QED BY <4>1, <4>2
    <3>7. Pool!GiveBack(ptr)
      BY <3>5, <3>6 DEF Pool!GiveBack
    <3> QED BY <3>7 DEF Pool!HeapNext
  <2>7. CASE UNCHANGED vars
    <3>1. blocks' = blocks /\ mySize' = mySize /\ last' = last
      BY <2>7 DEF vars
    <3>2. Live' = Live
      BY <2>1, <3>1
    <3> QED BY <3>1, <3>2 DEF Pool!heapVars
  <2> QED BY <2>3, <2>4, <2>5, <2>6, <2>7 DEF Next
<1> QED BY <1>1, <1>4, PoolInvAlways, PTL DEF Spec, PoolSpec, Pool!HeapSpec
=============================================================================
