----------------------- MODULE ProducerConsumerProofs -----------------------
(***************************************************************************)
(* Theorems about ProducerConsumer for every number of threads, size of    *)
(* the buffer and set of items, whether or not pthread_create may fail.    *)
(***************************************************************************)
EXTENDS ProducerConsumer, SequenceTheorems, WellFoundedInduction, TLAPS

Arrays == [1 .. BufferSize -> Items \cup {NoItem}]

\* The items are at the front.
Packed(d) ==
    \A i, j \in 1 .. BufferSize : i < j /\ d[i] = NoItem => d[j] = NoItem

\* The first n entries are items and the others are not.
Splits(d, n) ==
    /\ n \in 0 .. BufferSize
    /\ \A i \in 1 .. n : d[i] # NoItem
    /\ \A i \in n + 1 .. BufferSize : d[i] = NoItem

-----------------------------------------------------------------------------
(* The array                                                               *)

\* A set of natural numbers that is not empty has a least element.
LEMMA Least == ASSUME NEW S \in SUBSET Nat, S # {} PROVE \E m \in S : \A n \in S : m <= n
<1>1. PICK x \in S : \A y \in S : ~(<<y, x>> \in OpToRel(<, Nat))
  BY NatLessThanWellFounded, WFMin
<1>2. \A y \in S : ~(y < x)
  BY <1>1 DEF OpToRel
<1> QED BY <1>2

\* The array is a sequence of BufferSize entries.
LEMMA ArrayIsSeq ==
    ASSUME NEW d \in Arrays
    PROVE  d \in Seq(Items \cup {NoItem}) /\ Len(d) = BufferSize
BY ConstantsAssumption DEF Arrays

\* A stack's add_to shifts every entry up by one; the last one is dropped.
LEMMA Pushed ==
    ASSUME NEW d \in Arrays, NEW v \in Items
    PROVE  LET r == <<v>> \o SubSeq(d, 1, BufferSize - 1)
           IN  /\ r \in Arrays /\ r[1] = v
               /\ \A k \in 2 .. BufferSize : r[k] = d[k - 1]
<1> DEFINE a == SubSeq(d, 1, BufferSize - 1)
           S == Items \cup {NoItem}
<1>1. a \in Seq(S) /\ Len(a) = BufferSize - 1 /\ \A k \in 1 .. BufferSize - 1 : a[k] = d[k]
  BY ConstantsAssumption DEF Arrays
<1>2. <<v>> \in Seq(S) /\ Len(<<v>>) = 1 /\ <<v>>[1] = v
  OBVIOUS
<1> HIDE DEF a, S
<1>3. /\ <<v>> \o a \in Seq(S) /\ Len(<<v>> \o a) = BufferSize
      /\ \A k \in 1 .. BufferSize : (<<v>> \o a)[k] = IF k <= 1 THEN <<v>>[k] ELSE a[k - 1]
  BY <1>1, <1>2, ConcatProperties, ConstantsAssumption
<1>4. <<v>> \o a \in [1 .. BufferSize -> S]
  BY <1>3, LenProperties
<1> QED BY <1>3, <1>4 DEF a, S, Arrays

\* pop shifts every entry down by one and leaves -1 in the last.
LEMMA Popped ==
    ASSUME NEW d \in Arrays
    PROVE  LET r == Tail(d) \o <<NoItem>>
           IN  /\ r \in Arrays /\ r[BufferSize] = NoItem
               /\ \A k \in 1 .. BufferSize - 1 : r[k] = d[k + 1]
<1> DEFINE a == Tail(d)
           S == Items \cup {NoItem}
<1>1. a \in Seq(S) /\ Len(a) = BufferSize - 1 /\ \A k \in 1 .. BufferSize - 1 : a[k] = d[k + 1]
  <2>1. d \in Seq(S) /\ Len(d) = BufferSize /\ d # <<>>
    BY ArrayIsSeq, ConstantsAssumption
  <2> QED BY <2>1, HeadTailProperties
<1>2. <<NoItem>> \in Seq(S) /\ Len(<<NoItem>>) = 1 /\ <<NoItem>>[1] = NoItem
  OBVIOUS
<1> HIDE DEF a, S
<1>3. /\ a \o <<NoItem>> \in Seq(S) /\ Len(a \o <<NoItem>>) = BufferSize
      /\ \A k \in 1 .. BufferSize :
            (a \o <<NoItem>>)[k] =
                IF k <= BufferSize - 1 THEN a[k] ELSE <<NoItem>>[k - (BufferSize - 1)]
  BY <1>1, <1>2, ConcatProperties, ConstantsAssumption
<1>4. a \o <<NoItem>> \in [1 .. BufferSize -> S]
  BY <1>3, LenProperties
<1> QED BY <1>3, <1>4 DEF a, S, Arrays

\* Such an array holds its first n entries.
LEMMA PackedSplits ==
    ASSUME NEW d \in Arrays, Packed(d)
    PROVE  \E n \in 0 .. BufferSize : Splits(d, n)
<1> DEFINE E == {i \in 1 .. BufferSize : d[i] = NoItem}
<1>1. CASE E = {}
  BY <1>1, ConstantsAssumption DEF Splits
<1>2. CASE E # {}
  <2> E \in SUBSET Nat
    BY ConstantsAssumption
  <2> HIDE DEF E
  <2>1. PICK m \in E : \A k \in E : m <= k
    BY <1>2, Least
  <2>2. Splits(d, m - 1)
    BY <2>1, ConstantsAssumption DEF Packed, Splits, E
  <2> QED BY <2>2, ConstantsAssumption DEF E
<1> QED BY <1>1, <1>2

LEMMA ContentIs ==
    ASSUME NEW d \in Arrays, NEW n, Splits(d, n)
    PROVE  ContentOf(d) = SubSeq(d, 1, n)
<1> DEFINE P(k) == /\ \A i \in 1 .. k : d[i] # NoItem
                   /\ k < BufferSize => d[k + 1] = NoItem
<1>1. n \in 0 .. BufferSize /\ P(n)
  BY ConstantsAssumption DEF Splits
<1>2. ASSUME NEW k \in 0 .. BufferSize, P(k) PROVE k = n
  <2>1. ~(k < n)
    BY <1>2, ConstantsAssumption DEF Splits
  <2>2. ~(n < k)
    BY <1>2 DEF Splits
  <2> QED BY <2>1, <2>2, <1>1, ConstantsAssumption
<1> HIDE DEF P
<1>3. (CHOOSE k \in 0 .. BufferSize : P(k)) = n
  BY <1>1, <1>2
<1> QED BY <1>3 DEF ContentOf, P

\* The scan of a queue's add_to ends at the first entry that is free.
LEMMA FirstFreeIs ==
    ASSUME Free # {}
    PROVE  FirstFree \in Free /\ \A i \in Free : FirstFree <= i
<1>1. Free \in SUBSET Nat
  BY ConstantsAssumption DEF Free
<1>2. \E i \in Free : \A j \in Free : i <= j
  BY <1>1, Least
<1> QED BY <1>2 DEF FirstFree

-----------------------------------------------------------------------------
(* The invariant                                                           *)

\* main has cancelled and joined the threads before cur.
Cleared ==
    /\ mpc \in {"cancel", "join"} => \A t \in 1 .. cur - 1 : pc[t] \in {"none", "dead"}
    /\ mpc = "join" => cur \in Threads
    /\ mpc = "end" => \A t \in Threads : pc[t] \in {"none", "dead"}

\* A consumer takes from a buffer that holds an item, with nothing in its hands.
Hands ==
    \A c \in Consumers :
        /\ pc[c] \in {"none", "sleep", "wait", "test", "update", "dead"} => got[c] = NoItem
        /\ pc[c] = "update" => buff.data[1] # NoItem

\* The inductive invariant.
Inv ==
    /\ TypeOK /\ sem \in {0, 1} /\ MutualExclusion
    /\ Contiguous /\ Cleared /\ Hands

LEMMA InitInv == Init => Inv
<1> SUFFICES ASSUME Init PROVE Inv OBVIOUS
<1>1. TypeOK /\ sem \in {0, 1} /\ Cleared
  BY ConstantsAssumption DEF Init, TypeOK, Cleared, Pc, NumThreads
<1>2. MutualExclusion
  BY DEF Init, MutualExclusion, InSection
<1>3. Contiguous
  BY ConstantsAssumption DEF Init, Contiguous, Producers, Threads, NumThreads
<1>4. Hands
  BY DEF Init, Hands, Consumers
<1> QED BY <1>1, <1>2, <1>3, <1>4 DEF Inv

LEMMA NextInv == Inv /\ [Next]_vars => Inv'
<1> SUFFICES ASSUME Inv, [Next]_vars PROVE Inv' OBVIOUS
<1> USE DEF Inv
<1>1. CASE Create
  <2>1. TypeOK'
    BY <1>1, ConstantsAssumption DEF Create, GoTo, TypeOK, Pc, NumThreads
  <2>2. sem' \in {0, 1} /\ MutualExclusion'
    BY <1>1 DEF Create, GoTo, TypeOK, MutualExclusion, InSection
  <2>3. Contiguous'
    BY <1>1, ConstantsAssumption DEF Create, GoTo, TypeOK, Contiguous, Free,
       Producers, Threads, NumThreads
  <2>4. Cleared'
    BY <1>1 DEF Create, MainAt, Cleared
  <2>5. Hands'
    BY <1>1 DEF Create, GoTo, TypeOK, Hands, Consumers
  <2> QED BY <2>1, <2>2, <2>3, <2>4, <2>5
<1>2. CASE Sleep
  <2>1. TypeOK'
    BY <1>2, ConstantsAssumption DEF Sleep, threadVars, TypeOK, NumThreads
  <2>2. sem' \in {0, 1} /\ MutualExclusion'
    BY <1>2 DEF Sleep, threadVars, MutualExclusion, InSection
  <2>3. Contiguous'
    BY <1>2 DEF Sleep, threadVars, Contiguous, Free
  <2>4. Cleared'
    BY <1>2 DEF Sleep, Cleared
  <2>5. Hands'
    BY <1>2 DEF Sleep, threadVars, Hands
  <2> QED BY <2>1, <2>2, <2>3, <2>4, <2>5
<1>3. CASE Cancel
  <2>1. TypeOK'
    <3>1. cur' \in 1 .. NumThreads + 1 /\ cancelled' \in SUBSET Threads
      <4>1. cur \in Threads /\ cur + 1 \in 1 .. NumThreads + 1
        BY <1>3, ConstantsAssumption DEF Cancel, TypeOK, Threads, NumThreads
      <4>2. cur' \in {cur, cur + 1} /\ cancelled' \in {cancelled, cancelled \cup {cur}}
        BY <1>3 DEF Cancel
      <4> QED BY <4>1, <4>2 DEF TypeOK
    <3>2. mpc' \in {"create", "cancel", "join", "end"} /\ proc' \in {"running", "crashed"}
      BY <1>3 DEF Cancel, MainAt
    <3> QED BY <1>3, <3>1 DEF Cancel, threadVars, TypeOK
  <2>2. sem' \in {0, 1} /\ MutualExclusion'
    BY <1>3 DEF Cancel, threadVars, MutualExclusion, InSection
  <2>3. Contiguous'
    BY <1>3 DEF Cancel, threadVars, Contiguous, Free
  <2>4. Cleared'
    BY <1>3 DEF Cancel, MainAt, threadVars, TypeOK, Cleared, Threads
  <2>5. Hands'
    BY <1>3 DEF Cancel, threadVars, Hands
  <2> QED BY <2>1, <2>2, <2>3, <2>4, <2>5
<1>4. CASE Join
  <2>1. TypeOK'
    BY <1>4, ConstantsAssumption DEF Join, MainAt, threadVars, TypeOK, Cleared,
       Threads, NumThreads
  <2>2. sem' \in {0, 1} /\ MutualExclusion'
    BY <1>4 DEF Join, threadVars, MutualExclusion, InSection
  <2>3. Contiguous'
    BY <1>4 DEF Join, threadVars, Contiguous, Free
  <2>4. Cleared'
    BY <1>4 DEF Join, MainAt, threadVars, TypeOK, Cleared
  <2>5. Hands'
    BY <1>4 DEF Join, threadVars, Hands
  <2> QED BY <2>1, <2>2, <2>3, <2>4, <2>5
<1>5. CASE Exit
  <2>1. TypeOK'
    BY <1>5 DEF Exit, threadVars, TypeOK
  <2>2. sem' \in {0, 1} /\ MutualExclusion'
    BY <1>5 DEF Exit, threadVars, MutualExclusion, InSection
  <2>3. Contiguous'
    BY <1>5 DEF Exit, threadVars, Contiguous, Free
  <2>4. Cleared'
    BY <1>5, ConstantsAssumption DEF Exit, MainAt, threadVars, TypeOK, Cleared,
       Threads, NumThreads
  <2>5. Hands'
    BY <1>5 DEF Exit, threadVars, Hands
  <2> QED BY <2>1, <2>2, <2>3, <2>4, <2>5
<1>6. ASSUME NEW t \in Threads, Wake(t) PROVE Inv'
  <2>1. TypeOK'
    BY <1>6 DEF Wake, GoTo, mainVars, TypeOK, Pc
  <2>2. sem' \in {0, 1} /\ MutualExclusion'
    BY <1>6 DEF Wake, GoTo, MutualExclusion, InSection
  <2>3. Contiguous'
    BY <1>6 DEF Wake, GoTo, Contiguous, Free
  <2>4. Cleared'
    BY <1>6 DEF Wake, GoTo, mainVars, Cleared
  <2>5. Hands'
    BY <1>6 DEF Wake, GoTo, Hands
  <2> QED BY <2>1, <2>2, <2>3, <2>4, <2>5
<1>7. ASSUME NEW t \in Threads, SemWait(t) PROVE Inv'
  <2>1. TypeOK'
    BY <1>7 DEF SemWait, GoTo, mainVars, TypeOK, Pc
  <2>2. sem' \in {0, 1} /\ MutualExclusion'
    BY <1>7 DEF SemWait, GoTo, TypeOK, MutualExclusion, InSection
  <2>3. Contiguous'
    BY <1>7 DEF SemWait, GoTo, Contiguous, Free
  <2>4. Cleared'
    BY <1>7 DEF SemWait, GoTo, mainVars, Cleared
  <2>5. Hands'
    BY <1>7 DEF SemWait, GoTo, Hands
  <2> QED BY <2>1, <2>2, <2>3, <2>4, <2>5
<1>8. ASSUME NEW t \in Threads, Test(t) PROVE Inv'
  <2>1. TypeOK'
    BY <1>8 DEF Test, GoTo, mainVars, TypeOK, Pc
  <2>2. sem' \in {0, 1} /\ MutualExclusion'
    BY <1>8 DEF Test, GoTo, MutualExclusion, InSection
  <2>3. Contiguous'
    BY <1>8, ConstantsAssumption DEF Test, GoTo, Contiguous, Free, IsFull
  <2>4. Cleared'
    BY <1>8 DEF Test, GoTo, mainVars, Cleared
  <2>5. Hands'
    BY <1>8 DEF Test, GoTo, Hands, IsEmpty, Consumers
  <2> QED BY <2>1, <2>2, <2>3, <2>4, <2>5
<1>9. ASSUME NEW t \in Threads, Produce(t) PROVE Inv'
  <2>1. PICK v \in Items : buff' = [buff EXCEPT !.data = WithItem(v)]
    BY <1>9 DEF Produce
  <2>2. Free # {} /\ Packed(buff.data) /\ buff.data \in Arrays
    BY <1>9 DEF Produce, GoTo, Contiguous, Packed, TypeOK, Arrays
  <2>3. WithItem(v) \in Arrays /\ Packed(WithItem(v))
    <3>1. CASE buff.stack
      BY <2>2, <3>1, Pushed, ConstantsAssumption DEF WithItem, Packed
    <3>2. CASE ~buff.stack
      BY <2>2, <3>2, FirstFreeIs DEF WithItem, Packed, Free, Arrays
    <3> QED BY <3>1, <3>2
  <2>4. buff' = [data |-> WithItem(v), stack |-> buff.stack]
    BY <2>1 DEF TypeOK
  <2>5. buff'.data \in Arrays /\ Packed(buff'.data) /\ buff' \in [data : Arrays, stack : BOOLEAN]
    BY <2>3, <2>4 DEF TypeOK
  <2>6. TypeOK'
    BY <1>9, <2>5 DEF Produce, GoTo, mainVars, TypeOK, Arrays, Pc
  <2>7. \A u \in Threads \ {t} : ~InSection(u) /\ ~InSection(u)'
    BY <1>9 DEF Produce, GoTo, MutualExclusion, InSection
  <2>8. sem' \in {0, 1} /\ MutualExclusion'
    BY <1>9 DEF Produce, GoTo, MutualExclusion, InSection
  <2>9. Contiguous'
    BY <1>9, <2>5, <2>7, ConstantsAssumption DEF Produce, GoTo, TypeOK, Contiguous,
       Packed, InSection, Producers, Threads, NumThreads
  <2>10. Cleared'
    BY <1>9 DEF Produce, GoTo, mainVars, Cleared
  <2>11. Hands'
    BY <1>9, <2>7 DEF Produce, GoTo, Hands, Consumers, InSection
  <2> QED BY <2>6, <2>8, <2>9, <2>10, <2>11
<1>10. ASSUME NEW t \in Threads, Consume(t) PROVE Inv'
  <2> DEFINE r == WithoutFirst
  <2>2. buff.data[1] # NoItem /\ Packed(buff.data) /\ buff.data \in Arrays
    BY <1>10 DEF Consume, GoTo, Contiguous, Hands, Packed, TypeOK, Arrays
  <2>1. /\ r \in Arrays /\ r[BufferSize] = NoItem
        /\ \A k \in 1 .. BufferSize - 1 : r[k] = buff.data[k + 1]
    BY <2>2, Popped DEF WithoutFirst
  <2>3. WithoutFirst \in Arrays /\ Packed(WithoutFirst)
    <3> HIDE DEF r
    <3>1. r \in Arrays /\ Packed(r)
      BY <2>1, <2>2, ConstantsAssumption DEF Packed
    <3> QED BY <3>1 DEF r
  <2>4. buff' = [data |-> WithoutFirst, stack |-> buff.stack]
    BY <1>10 DEF Consume, TypeOK
  <2>5. buff'.data \in Arrays /\ Packed(buff'.data) /\ buff' \in [data : Arrays, stack : BOOLEAN]
    BY <2>3, <2>4 DEF TypeOK
  <2>6. TypeOK'
    BY <1>10, <2>5, ConstantsAssumption DEF Consume, GoTo, mainVars, TypeOK, Arrays, Pc
  <2>7. \A u \in Threads \ {t} : ~InSection(u) /\ ~InSection(u)'
    BY <1>10 DEF Consume, GoTo, MutualExclusion, InSection
  <2>8. sem' \in {0, 1} /\ MutualExclusion'
    BY <1>10 DEF Consume, GoTo, MutualExclusion, InSection
  <2>9. Contiguous'
    BY <1>10, <2>5, <2>7, ConstantsAssumption DEF Consume, GoTo, TypeOK, Contiguous,
       Packed, InSection, Producers, Threads, NumThreads
  <2>10. Cleared'
    BY <1>10 DEF Consume, GoTo, mainVars, Cleared
  <2>11. Hands'
    BY <1>10, <2>7 DEF Consume, GoTo, TypeOK, Hands, Consumers, InSection
  <2> QED BY <2>6, <2>8, <2>9, <2>10, <2>11
<1>11. ASSUME NEW t \in Threads, Report(t) PROVE Inv'
  <2>1. TypeOK'
    BY <1>11 DEF Report, GoTo, mainVars, TypeOK, Pc
  <2>2. sem' \in {0, 1} /\ MutualExclusion'
    BY <1>11 DEF Report, GoTo, MutualExclusion, InSection
  <2>3. Contiguous'
    BY <1>11 DEF Report, GoTo, Contiguous, Free
  <2>4. Cleared'
    BY <1>11 DEF Report, GoTo, mainVars, Cleared
  <2>5. Hands'
    BY <1>11 DEF Report, GoTo, Hands
  <2> QED BY <2>1, <2>2, <2>3, <2>4, <2>5
<1>12. ASSUME NEW t \in Threads, SemPost(t) PROVE Inv'
  <2>1. TypeOK'
    BY <1>12 DEF SemPost, GoTo, mainVars, TypeOK, Pc
  <2>2. sem' \in {0, 1} /\ MutualExclusion'
    BY <1>12 DEF SemPost, GoTo, TypeOK, MutualExclusion, InSection
  <2>3. Contiguous'
    BY <1>12 DEF SemPost, GoTo, Contiguous, Free
  <2>4. Cleared'
    BY <1>12 DEF SemPost, GoTo, mainVars, Cleared
  <2>5. Hands'
    BY <1>12 DEF SemPost, GoTo, Hands
  <2> QED BY <2>1, <2>2, <2>3, <2>4, <2>5
<1>13. ASSUME NEW t \in Threads, Die(t) PROVE Inv'
  <2>1. TypeOK'
    BY <1>13 DEF Die, GoTo, mainVars, TypeOK, Pc
  <2>2. sem' \in {0, 1} /\ MutualExclusion'
    BY <1>13 DEF Die, GoTo, MutualExclusion, InSection
  <2>3. Contiguous'
    BY <1>13 DEF Die, GoTo, Contiguous, Free
  <2>4. Cleared'
    BY <1>13 DEF Die, GoTo, mainVars, Cleared
  <2>5. Hands'
    BY <1>13 DEF Die, GoTo, Hands
  <2> QED BY <2>1, <2>2, <2>3, <2>4, <2>5
<1>14. CASE UNCHANGED vars
  BY <1>14 DEF vars, threadVars, mainVars, TypeOK, MutualExclusion, InSection,
     Contiguous, Free, Cleared, Hands
<1> QED BY <1>1, <1>2, <1>3, <1>4, <1>5, <1>6, <1>7, <1>8, <1>9, <1>10, <1>11, <1>12,
    <1>13, <1>14 DEF Next, MainStep, ThreadStep, Rest

LEMMA InvHolds == Spec => []Inv
BY InitInv, NextInv, PTL DEF Spec

-----------------------------------------------------------------------------
(* What follows                                                            *)

\* The types of the variables; the semaphore never goes above one.
THEOREM TypeCorrect == Spec => []TypeOK
<1>1. Inv => TypeOK
  BY DEF Inv
<1> QED BY <1>1, InvHolds, PTL

\* At most one thread is between sem_wait and sem_post, whichever threads are
\* cancelled where, and the semaphore is only lost with a thread that died.
THEOREM SectionExclusive == Spec => []MutualExclusion
<1>1. Inv => MutualExclusion
  BY DEF Inv
<1> QED BY <1>1, InvHolds, PTL

\* The items are at the front of the array, and a producer in add_to finds a free
\* entry: its scan never leaves the array.
THEOREM ItemsContiguous == Spec => []Contiguous
<1>1. Inv => Contiguous
  BY DEF Inv
<1> QED BY <1>1, InvHolds, PTL

\* main frees the array when no thread can use it any more.
THEOREM BufferFreedLast == Spec => []FreedLast
<1>1. Inv => FreedLast
  BY DEF Inv, Cleared, FreedLast
<1> QED BY <1>1, InvHolds, PTL

-----------------------------------------------------------------------------
(* The array implements a bounded buffer                                   *)

\* What ContentOf returns, as a sequence.
LEMMA ContentSeq ==
    ASSUME NEW d \in Arrays, NEW n, Splits(d, n)
    PROVE  /\ ContentOf(d) \in Seq(Items \cup {NoItem}) /\ Len(ContentOf(d)) = n
           /\ \A k \in 1 .. n : ContentOf(d)[k] = d[k]
<1>1. n \in 0 .. BufferSize /\ \A k \in 1 .. n : d[k] \in Items \cup {NoItem}
  BY ConstantsAssumption DEF Splits, Arrays
<1>2. /\ SubSeq(d, 1, n) \in Seq(Items \cup {NoItem}) /\ Len(SubSeq(d, 1, n)) = n
      /\ \A k \in 1 .. n : SubSeq(d, 1, n)[k] = d[k]
  BY <1>1, ConstantsAssumption, SubSeqProperties
<1> QED BY <1>2, ContentIs

\* add_to on a stack that is not full puts the item before the others.
LEMMA ContentPushed ==
    ASSUME NEW d \in Arrays, NEW n, Splits(d, n), n < BufferSize, NEW v \in Items
    PROVE  ContentOf(<<v>> \o SubSeq(d, 1, BufferSize - 1)) = <<v>> \o ContentOf(d)
<1> DEFINE r == <<v>> \o SubSeq(d, 1, BufferSize - 1)
<1>1. r \in Arrays /\ r[1] = v /\ \A k \in 2 .. BufferSize : r[k] = d[k - 1]
  BY Pushed
<1> HIDE DEF r
<1>2. n \in Nat /\ v # NoItem
  BY ConstantsAssumption DEF Splits
<1>3. Splits(r, n + 1)
  BY <1>1, ConstantsAssumption DEF Splits
<1>4. /\ ContentOf(r) \in Seq(Items \cup {NoItem}) /\ Len(ContentOf(r)) = n + 1
      /\ \A k \in 1 .. n + 1 : ContentOf(r)[k] = r[k]
  BY <1>1, <1>3, ContentSeq
<1>5. /\ ContentOf(d) \in Seq(Items \cup {NoItem}) /\ Len(ContentOf(d)) = n
      /\ \A k \in 1 .. n : ContentOf(d)[k] = d[k]
  BY ContentSeq
<1> DEFINE c == <<v>> \o ContentOf(d)
<1>6. /\ c \in Seq(Items \cup {NoItem}) /\ Len(c) = n + 1
      /\ \A k \in 1 .. n + 1 : c[k] = IF k <= 1 THEN v ELSE ContentOf(d)[k - 1]
  <2>1. <<v>> \in Seq(Items \cup {NoItem}) /\ Len(<<v>>) = 1 /\ <<v>>[1] = v
    OBVIOUS
  <2>2. /\ c \in Seq(Items \cup {NoItem}) /\ Len(c) = 1 + n
        /\ \A k \in 1 .. 1 + n : c[k] = IF k <= 1 THEN <<v>>[k] ELSE ContentOf(d)[k - 1]
    BY <2>1, <1>5, ConcatProperties
  <2> QED BY <2>1, <2>2, <1>2
<1> HIDE DEF c
<1>7. \A k \in 1 .. n + 1 : ContentOf(r)[k] = c[k]
  BY <1>1, <1>2, <1>4, <1>5, <1>6, ConstantsAssumption
<1>8. ContentOf(r) = c
  BY <1>4, <1>6, <1>7, SeqEqual
<1> QED BY <1>8 DEF r, c

\* add_to on a queue that is not full puts the item behind the others.
LEMMA ContentAppended ==
    ASSUME NEW d \in Arrays, NEW n, Splits(d, n), n < BufferSize, NEW v \in Items
    PROVE  ContentOf([d EXCEPT ![n + 1] = v]) = Append(ContentOf(d), v)
<1> DEFINE r == [d EXCEPT ![n + 1] = v]
<1>1. n \in Nat /\ v # NoItem /\ n + 1 \in 1 .. BufferSize
  BY ConstantsAssumption DEF Splits
<1>2. r \in Arrays /\ \A k \in 1 .. BufferSize : r[k] = IF k = n + 1 THEN v ELSE d[k]
  BY <1>1 DEF Arrays
<1> HIDE DEF r
<1>3. Splits(r, n + 1)
  BY <1>2, ConstantsAssumption DEF Splits
<1>4. /\ ContentOf(r) \in Seq(Items \cup {NoItem}) /\ Len(ContentOf(r)) = n + 1
      /\ \A k \in 1 .. n + 1 : ContentOf(r)[k] = r[k]
  BY <1>2, <1>3, ContentSeq
<1>5. /\ ContentOf(d) \in Seq(Items \cup {NoItem}) /\ Len(ContentOf(d)) = n
      /\ \A k \in 1 .. n : ContentOf(d)[k] = d[k]
  BY ContentSeq
<1> DEFINE c == Append(ContentOf(d), v)
<1>6. /\ c \in Seq(Items \cup {NoItem}) /\ Len(c) = n + 1
      /\ \A k \in 1 .. n + 1 : c[k] = IF k = n + 1 THEN v ELSE ContentOf(d)[k]
  BY <1>1, <1>5
<1> HIDE DEF c
<1>7. \A k \in 1 .. n + 1 : ContentOf(r)[k] = c[k]
  BY <1>1, <1>2, <1>4, <1>5, <1>6, ConstantsAssumption
<1>8. ContentOf(r) = c
  BY <1>4, <1>6, <1>7, SeqEqual
<1> QED BY <1>8 DEF r, c

\* pop takes the first item and leaves the others in their order.
LEMMA ContentPopped ==
    ASSUME NEW d \in Arrays, NEW n, Splits(d, n), d[1] # NoItem
    PROVE  /\ ContentOf(d) # <<>> /\ Head(ContentOf(d)) = d[1]
           /\ ContentOf(Tail(d) \o <<NoItem>>) = Tail(ContentOf(d))
<1> DEFINE r == Tail(d) \o <<NoItem>>
<1>1. /\ r \in Arrays /\ r[BufferSize] = NoItem
      /\ \A k \in 1 .. BufferSize - 1 : r[k] = d[k + 1]
  BY Popped
<1> HIDE DEF r
<1>2. n \in 1 .. BufferSize
  BY ConstantsAssumption DEF Splits
<1>3. Splits(r, n - 1)
  <2>1. \A k \in 1 .. n - 1 : r[k] # NoItem
    BY <1>1, ConstantsAssumption DEF Splits
  <2>2. \A k \in n .. BufferSize : r[k] = NoItem
    BY <1>1, ConstantsAssumption DEF Splits
  <2> QED BY <2>1, <2>2, ConstantsAssumption DEF Splits
<1>4. /\ ContentOf(r) \in Seq(Items \cup {NoItem}) /\ Len(ContentOf(r)) = n - 1
      /\ \A k \in 1 .. n - 1 : ContentOf(r)[k] = r[k]
  BY <1>1, <1>3, ContentSeq
<1>5. /\ ContentOf(d) \in Seq(Items \cup {NoItem}) /\ Len(ContentOf(d)) = n
      /\ \A k \in 1 .. n : ContentOf(d)[k] = d[k]
  BY ContentSeq
<1>6. ContentOf(d) # <<>> /\ Head(ContentOf(d)) = d[1]
  BY <1>2, <1>5
<1> DEFINE c == Tail(ContentOf(d))
<1>7. /\ c \in Seq(Items \cup {NoItem}) /\ Len(c) = n - 1
      /\ \A k \in 1 .. n - 1 : c[k] = ContentOf(d)[k + 1]
  BY <1>2, <1>5, <1>6, HeadTailProperties
<1> HIDE DEF c
<1>8. \A k \in 1 .. n - 1 : ContentOf(r)[k] = c[k]
  BY <1>1, <1>2, <1>4, <1>5, <1>7, ConstantsAssumption
<1>9. ContentOf(r) = c
  BY <1>4, <1>7, <1>8, SeqEqual
<1> QED BY <1>6, <1>9 DEF r, c

\* README:8-9 and 18-21, the shared array is a bounded queue or stack: each item that is put
\* is taken once, in the order of the third argument, whatever the interleaving and
\* wherever threads are cancelled.
THEOREM ImplementsBuffer == Spec => BufferSpec
<1>1. Init => Abstract!Init
  <2> SUFFICES ASSUME Init PROVE Abstract!Init OBVIOUS
  <2>1. buff.data \in Arrays /\ Splits(buff.data, 0) /\ buff.stack \in BOOLEAN
    BY ConstantsAssumption DEF Init, Arrays, Splits
  <2>2. ContentOf(buff.data) = <<>>
    BY <2>1, ContentIs, SubSeqEmpty
  <2> QED BY <2>2 DEF Init, Abstract!Init
<1>2. Inv /\ [Next]_vars => [Abstract!Next]_(Abstract!vars)
  <2> SUFFICES ASSUME Inv, [Next]_vars PROVE [Abstract!Next]_(Abstract!vars) OBVIOUS
  <2>1. buff.data \in Arrays /\ Packed(buff.data) /\ buff \in [data : Arrays, stack : BOOLEAN]
    BY DEF Inv, TypeOK, Arrays, Contiguous, Packed
  <2>2. PICK n \in 0 .. BufferSize : Splits(buff.data, n)
    BY <2>1, PackedSplits
  <2>3. ASSUME NEW t \in Threads, Produce(t) PROVE Abstract!Next
    <3>1. PICK v \in Items : buff' = [buff EXCEPT !.data = WithItem(v)]
      BY <2>3 DEF Produce
    <3>2. buff'.data = WithItem(v) /\ UNCHANGED <<buff.stack, got>>
      BY <2>1, <2>3, <3>1 DEF Produce
    <3>3. Free # {}
      BY <2>3 DEF Produce, GoTo, Inv, Contiguous
    <3>4. n < BufferSize
      BY <2>2, <3>3, ConstantsAssumption DEF Free, Splits
    <3>5. Len(ContentOf(buff.data)) < BufferSize
      BY <2>1, <2>2, <3>4, ContentSeq
    <3>6. CASE buff.stack
      <4>1. ContentOf(buff'.data) = <<v>> \o ContentOf(buff.data)
        BY <2>1, <2>2, <3>2, <3>4, <3>6, ContentPushed DEF WithItem
      <4> QED BY <3>2, <3>5, <3>6, <4>1 DEF Abstract!Next, Abstract!Put
    <3>7. CASE ~buff.stack
      <4>1. FirstFree = n + 1
        BY <2>2, <3>3, FirstFreeIs, ConstantsAssumption DEF Free, Splits
      <4>2. ContentOf(buff'.data) = Append(ContentOf(buff.data), v)
        BY <2>1, <2>2, <3>2, <3>4, <3>7, <4>1, ContentAppended DEF WithItem
      <4> QED BY <3>2, <3>5, <3>7, <4>2 DEF Abstract!Next, Abstract!Put
    <3> QED BY <3>6, <3>7
  <2>4. ASSUME NEW t \in Threads, Consume(t) PROVE Abstract!Next
    <3>1. t \in Consumers /\ buff.data[1] # NoItem /\ got[t] = NoItem
      BY <2>4 DEF Consume, GoTo, Inv, Hands
    <3>2. buff'.data = WithoutFirst /\ UNCHANGED buff.stack
      BY <2>4 DEF Consume
    <3>3. got' = [got EXCEPT ![t] = Head(ContentOf(buff.data))]
      BY <2>1, <2>2, <2>4, <3>1, ContentPopped DEF Consume
    <3>4. /\ ContentOf(buff.data) # <<>>
          /\ ContentOf(buff'.data) = Tail(ContentOf(buff.data))
      BY <2>1, <2>2, <3>1, <3>2, ContentPopped DEF WithoutFirst
    <3> QED BY <3>1, <3>2, <3>3, <3>4 DEF Abstract!Next, Abstract!Take
  <2>5. ASSUME NEW t \in Threads, SemPost(t) \/ Die(t)
        PROVE  Abstract!Next \/ UNCHANGED Abstract!vars
    <3>1. UNCHANGED buff /\ got' = [c \in Consumers |-> IF c = t THEN NoItem ELSE got[c]]
      BY <2>5 DEF SemPost, Die
    <3>2. CASE t \in Consumers
      <4>1. got' = [got EXCEPT ![t] = NoItem]
        BY <3>1 DEF Inv, TypeOK
      <4> QED BY <3>1, <3>2, <4>1 DEF Abstract!Next, Abstract!Use
    <3>3. CASE t \notin Consumers
      <4>1. got' = got
        BY <3>1, <3>3 DEF Inv, TypeOK
      <4> QED BY <3>1, <4>1 DEF Abstract!vars
    <3> QED BY <3>2, <3>3
  <2>6. ASSUME NEW t \in Threads, Wake(t) \/ SemWait(t) \/ Test(t) \/ Report(t)
        PROVE  UNCHANGED Abstract!vars
    BY <2>6 DEF Wake, SemWait, Test, Report, Abstract!vars
  <2>7. CASE MainStep
    BY <2>7 DEF MainStep, Create, Sleep, Cancel, Join, Exit, threadVars, Abstract!vars
  <2>8. CASE UNCHANGED vars
    BY <2>8 DEF vars, threadVars, Abstract!vars
  <2> QED BY <2>3, <2>4, <2>5, <2>6, <2>7, <2>8 DEF Next, ThreadStep, Rest
<1> QED BY <1>1, <1>2, InvHolds, PTL DEF Spec, BufferSpec, Abstract!Spec
=============================================================================
