--------------------------- MODULE SchedulerProofs ---------------------------
(***************************************************************************)
(* Theorems about Scheduler for every number of threads, queue size,       *)
(* number of iterations and policy.                                        *)
(***************************************************************************)
EXTENDS Scheduler, FiniteSetTheorems, SequenceTheorems, TLAPS

(* Lemmas about the two lists                                              *)

\* remove_item on a list that holds each worker at most once: the element goes,
\* the others stay in their order.
LEMMA RemoveFirstProperties ==
    ASSUME NEW S, NEW s \in Seq(S), IsInjective(s), NEW e
    PROVE  /\ RemoveFirst(s, e) \in Seq(S)
           /\ IsInjective(RemoveFirst(s, e))
           /\ Len(RemoveFirst(s, e)) = IF Contains(s, e) THEN Len(s) - 1 ELSE Len(s)
           /\ \A x : Contains(RemoveFirst(s, e), x) <=> (Contains(s, x) /\ x # e)
           /\ \A i \in 1 .. Len(s) :
                 s[i] = e => \A j \in 1 .. Len(s) - 1 :
                                RemoveFirst(s, e)[j] = IF j < i THEN s[j] ELSE s[j + 1]
<1> DEFINE t == RemoveFirst(s, e)
<1>1. CASE ~Contains(s, e)
  <2>1. t = s
    BY <1>1 DEF RemoveFirst, Contains
  <2> QED BY <1>1, <2>1 DEF Contains
<1>2. CASE Contains(s, e)
  <2>1. PICK i \in 1 .. Len(s) : s[i] = e
    BY <1>2 DEF Contains
  <2>2. {j \in 1 .. Len(s) : s[j] = e} = {i}
    BY <2>1 DEF IsInjective
  <2>3. SelectInSeq(s, LAMBDA v : v = e) = i
    BY <2>2 DEF SelectInSeq, Min
  <2>4. t = SubSeq(s, 1, i - 1) \o SubSeq(s, i + 1, Len(s))
    BY <1>2, <2>3 DEF RemoveFirst, RemoveAt, Contains
  <2>5. /\ t \in Seq(S) /\ Len(t) = Len(s) - 1
        /\ \A j \in 1 .. Len(s) - 1 : t[j] = IF j < i THEN s[j] ELSE s[j + 1]
    <3> DEFINE a == SubSeq(s, 1, i - 1)
               b == SubSeq(s, i + 1, Len(s))
    <3>1. /\ a \in Seq(S) /\ Len(a) = i - 1
          /\ \A j \in 1 .. i - 1 : a[j] = s[j]
      BY <2>1
    <3>2. /\ b \in Seq(S) /\ Len(b) = Len(s) - i
          /\ \A j \in 1 .. Len(s) - i : b[j] = s[j + i]
      BY <2>1
    <3> HIDE DEF a, b
    <3>3. /\ a \o b \in Seq(S) /\ Len(a \o b) = Len(s) - 1
          /\ \A j \in 1 .. Len(s) - 1 :
                (a \o b)[j] = IF j < i THEN a[j] ELSE b[j - (i - 1)]
      <4>1. Len(s) \in Nat /\ i \in 1 .. Len(s)
        BY <2>1
      <4>2. /\ a \o b \in Seq(S) /\ Len(a \o b) = Len(a) + Len(b)
            /\ \A j \in 1 .. Len(a) + Len(b) :
                  (a \o b)[j] = IF j <= Len(a) THEN a[j] ELSE b[j - Len(a)]
        BY <3>1, <3>2, ConcatProperties
      <4>3. Len(a) + Len(b) = Len(s) - 1
        BY <4>1, <3>1, <3>2
      <4> QED BY <4>1, <4>2, <4>3, <3>1
    <3>4. \A j \in 1 .. Len(s) - 1 :
             (a \o b)[j] = IF j < i THEN s[j] ELSE s[j + 1]
      BY <2>1, <3>1, <3>2, <3>3
    <3> QED BY <2>4, <3>3, <3>4 DEF a, b
  <2>6. IsInjective(t)
    BY <2>1, <2>5 DEF IsInjective
  <2>7. ASSUME NEW x PROVE Contains(t, x) <=> (Contains(s, x) /\ x # e)
    <3>1. ASSUME Contains(t, x) PROVE Contains(s, x) /\ x # e
      BY <2>1, <2>5, <3>1 DEF Contains, IsInjective
    <3>2. ASSUME Contains(s, x), x # e PROVE Contains(t, x)
      <4>1. PICK k \in 1 .. Len(s) : s[k] = x
        BY <3>2 DEF Contains
      <4>2. CASE k < i
        BY <2>1, <2>5, <4>1, <4>2 DEF Contains
      <4>3. CASE k > i
        <5>1. k - 1 \in 1 .. Len(t) /\ t[k - 1] = x
          BY <2>1, <2>5, <4>1, <4>3
        <5> QED BY <5>1 DEF Contains
      <4> QED BY <2>1, <3>2, <4>1, <4>2, <4>3
    <3> QED BY <3>1, <3>2
  <2>8. \A k \in 1 .. Len(s) : s[k] = e => k = i
    BY <2>1 DEF IsInjective
  <2> QED BY <1>2, <2>5, <2>6, <2>7, <2>8
<1> QED BY <1>1, <1>2

\* insert_item_tail of a worker that is not in the list.
LEMMA InsertTailProperties ==
    ASSUME NEW S, NEW s \in Seq(S), IsInjective(s), NEW e \in S, ~Contains(s, e)
    PROVE  /\ Append(s, e) \in Seq(S)
           /\ IsInjective(Append(s, e))
           /\ Len(Append(s, e)) = Len(s) + 1
           /\ \A x : Contains(Append(s, e), x) <=> (Contains(s, x) \/ x = e)
<1> DEFINE t == Append(s, e)
<1>1. /\ t \in Seq(S) /\ Len(t) = Len(s) + 1
      /\ \A j \in 1 .. Len(s) : t[j] = s[j]
      /\ t[Len(s) + 1] = e
  OBVIOUS
<1>2. \A j \in 1 .. Len(s) : s[j] # e
  BY DEF Contains
<1>3. IsInjective(t)
  BY <1>1, <1>2 DEF IsInjective
<1>4. ASSUME NEW x PROVE Contains(t, x) <=> (Contains(s, x) \/ x = e)
  <2>1. Len(s) \in Nat /\ \A j \in 1 .. Len(t) : j \in 1 .. Len(s) \/ j = Len(s) + 1
    BY <1>1
  <2> QED BY <1>1, <2>1 DEF Contains
<1> QED BY <1>1, <1>3, <1>4

\* A list is at least as long as any set of workers it contains.
LEMMA ContainedCardinality ==
    ASSUME NEW s \in Seq(Workers), NEW T \in SUBSET Workers,
           \A x \in T : Contains(s, x)
    PROVE  IsFiniteSet(T) /\ Cardinality(T) <= Len(s)
<1>1. IsFiniteSet(T)
  <2>1. IsFiniteSet(Workers)
    BY ConstantsAssumption, FS_Interval DEF Workers
  <2> QED BY <2>1, FS_Subset
<1>2. CASE T = {}
  BY <1>2, FS_EmptySet
<1>3. CASE T # {}
  <2> DEFINE I == {i \in 1 .. Len(s) : s[i] \in T}
             f == [i \in I |-> s[i]]
  <2>1. f \in Surjection(I, T)
    BY DEF Surjection, Contains
  <2>2. IsFiniteSet(I) /\ Cardinality(I) <= Len(s)
    <3>1. IsFiniteSet(1 .. Len(s)) /\ Cardinality(1 .. Len(s)) = Len(s)
      <4>1. Len(s) \in Nat
        OBVIOUS
      <4> QED BY <4>1, FS_Interval
    <3> QED BY <3>1, FS_Subset
  <2>3. Cardinality(T) <= Cardinality(I)
    BY <2>1, <2>2, FS_Surjection
  <2>4. Cardinality(T) \in Nat /\ Cardinality(I) \in Nat
    BY <1>1, <2>2, FS_CardinalityType
  <2> QED BY <1>1, <2>2, <2>3, <2>4
<1> QED BY <1>2, <1>3

\* elt->next of an element of the queue is an element of the queue or NULL.
LEMMA SuccessorType ==
    ASSUME queue \in Seq(Workers), NEW w, Contains(queue, w)
    PROVE  Successor(w) \in Workers \cup {NoWorker}
<1> DEFINE i == CHOOSE j \in DOMAIN queue : queue[j] = w
<1>1. i \in 1 .. Len(queue)
  BY DEF Contains
<1>2. CASE i = Len(queue)
  BY <1>2 DEF Successor
<1>3. CASE i # Len(queue)
  <2>1. Len(queue) \in Nat /\ i + 1 \in 1 .. Len(queue)
    BY <1>1, <1>3
  <2>2. queue[i + 1] \in Workers
    BY <2>1
  <2> QED BY <1>3, <2>2 DEF Successor
<1> QED BY <1>2, <1>3

-----------------------------------------------------------------------------
(* The inductive invariant                                                 *)

\* Workers are created in the order of argses.
CreatedInOrder == \A w \in Workers : wpc[w] = "none" <=> w > created

\* A worker about to insert itself in the queue is not in it.
EnterersAreOut ==
    \A w \in Workers : wpc[w] \in {"none", "enter", "requeue_in"} => ~Contains(queue, w)

\* The worker the scheduler is about to wake is still not listed in running.
WakesTheIdle == spc = "insert" => ~Contains(running, cand)

\* The three forms a grant takes exclude each other.
OneGrant ==
    /\ \A w \in Workers : HasCpu(w) => cpuSem[w] = 0
    /\ spc = "post" => cpuSem[cand] = 0 /\ ~HasCpu(cand)

\* Where a thread is in worker_proc says how far its loop has come.
TurnsFollowLoop ==
    \A w \in Workers :
        /\ wpc[w] \in {"none", "enter"} => turns[w] = 0
        /\ wpc[w] = "wait" => turns[w] <= Iterations
        /\ wpc[w] = "work" => turns[w] < Iterations
        /\ wpc[w] \in {"leave", "load", "store", "release"} => turns[w] = Iterations

\* The scheduler thread does nothing before main has started it.
StartedByMain == mpc = "start" => spc = "none"

IInv ==
    /\ TypeOK /\ CreatedInOrder /\ TurnsFollowLoop /\ StartedByMain
    /\ WaitersStayQueued /\ EnterersAreOut
    /\ GrantAccounting /\ WakesTheIdle /\ OneGrant
    /\ SlotAccounting

\* Every step keeps the types: what the lists gain and lose are workers.
LEMMA TypeStep ==
    ASSUME IInv, [Next]_vars
    PROVE  TypeOK'
<1> USE ConstantsAssumption, NoWorkerAssumption
<1>1. TypeOK /\ IsInjective(queue) /\ IsInjective(running)
  BY DEF IInv, WaitersStayQueued, GrantAccounting
<1>2. CASE StartScheduler
  BY <1>1, <1>2 DEF TypeOK, StartScheduler, MainAt, ExitError, SchedPc, MainPc, WorkerPc,
     sharedVars, schedVars, workerVars, mainVars
<1>3. CASE SetCount
  BY <1>1, <1>3 DEF TypeOK, SetCount, MainAt, SchedPc, MainPc, WorkerPc,
     sharedVars, schedVars, workerVars, mainVars
<1>4. CASE CreateWorker
  <2>1. created' \in 0 .. NumThreads /\ mpc' \in MainPc
    BY <1>1, <1>4 DEF TypeOK, CreateWorker, MainAt, ExitError, ConstantsAssumption, MainPc
  <2>2. wpc' \in [Workers -> WorkerPc] /\ proc' \in {"running", "exited", "crashed"}
    BY <1>1, <1>4 DEF TypeOK, CreateWorker, MainAt, ExitError, WorkerPc
  <2> QED BY <1>1, <1>4, <2>1, <2>2 DEF TypeOK, CreateWorker, sharedVars, schedVars
<1>5. CASE AllCreated
  BY <1>1, <1>5 DEF TypeOK, AllCreated, MainAt, SchedPc, MainPc, WorkerPc,
     sharedVars, schedVars, workerVars, mainVars
<1>6. CASE CleanUp
  BY <1>1, <1>6 DEF TypeOK, CleanUp, MainAt, SchedPc, MainPc, WorkerPc,
     sharedVars, schedVars, workerVars, mainVars
<1>7. CASE WaitForQueue
  BY <1>1, <1>7 DEF TypeOK, WaitForQueue, SchedAt, SchedPc, MainPc, WorkerPc,
     sharedVars, schedVars, workerVars, mainVars
<1>8. CASE CheckRemaining
  BY <1>1, <1>8 DEF TypeOK, CheckRemaining, SchedAt, SchedPc, MainPc, WorkerPc,
     sharedVars, schedVars, workerVars, mainVars
<1>9. CASE PeekHead
  BY <1>1, <1>9 DEF TypeOK, PeekHead, SchedAt, NextWorkerFrom, SchedPc, MainPc, WorkerPc,
     sharedVars, schedVars, workerVars, mainVars
<1>10. CASE TestRunning
  BY <1>1, <1>10 DEF TypeOK, TestRunning, SchedAt, SchedPc, MainPc, WorkerPc,
     sharedVars, schedVars, workerVars, mainVars
<1>11. CASE Advance
  <2>1. Contains(queue, cand) => Successor(cand) \in Workers \cup {NoWorker}
    BY <1>1, SuccessorType DEF TypeOK
  <2> HIDE DEF Successor
  <2> QED BY <1>1, <1>11, <2>1 DEF TypeOK, Advance, SchedAt, NextWorkerFrom, SchedPc,
             sharedVars, workerVars
<1>12. CASE WakeInsert
  BY <1>1, <1>12 DEF TypeOK, WakeInsert, SchedAt, SchedPc, MainPc, WorkerPc,
     sharedVars, schedVars, workerVars, mainVars
<1>13. CASE WakePost
  BY <1>1, <1>13 DEF TypeOK, WakePost, SchedAt, SchedPc, MainPc, WorkerPc,
     sharedVars, schedVars, workerVars, mainVars
<1>14. CASE WaitForWorker
  BY <1>1, <1>14 DEF TypeOK, WaitForWorker, SchedAt, SchedPc, MainPc, WorkerPc,
     sharedVars, schedVars, workerVars, mainVars
<1>15. ASSUME NEW w \in Workers, EnterQueue(w) PROVE TypeOK'
  BY <1>1, <1>15 DEF TypeOK, EnterQueue, GoTo, WorkerPc,
     sharedVars, schedVars, workerVars, mainVars
<1>16. ASSUME NEW w \in Workers, WaitForCpu(w) PROVE TypeOK'
  BY <1>1, <1>16 DEF TypeOK, WaitForCpu, GoTo, WorkerPc,
     sharedVars, schedVars, workerVars, mainVars
<1>17. ASSUME NEW w \in Workers, LeaveQueue(w) PROVE TypeOK'
  BY <1>1, <1>17, RemoveFirstProperties DEF TypeOK, LeaveQueue, GoTo, WorkerPc,
     sharedVars, schedVars, workerVars, mainVars
<1>18. ASSUME NEW w \in Workers, LoadCount(w) PROVE TypeOK'
  BY <1>1, <1>18 DEF TypeOK, LoadCount, GoTo, WorkerPc,
     sharedVars, schedVars, workerVars, mainVars
<1>19. ASSUME NEW w \in Workers, StoreCount(w) PROVE TypeOK'
  BY <1>1, <1>19 DEF TypeOK, StoreCount, GoTo, WorkerPc,
     sharedVars, schedVars, workerVars, mainVars
<1>20. ASSUME NEW w \in Workers, ReleaseRunning(w) PROVE TypeOK'
  BY <1>1, <1>20, RemoveFirstProperties DEF TypeOK, ReleaseRunning, GoTo, WorkerPc,
     sharedVars, schedVars, workerVars, mainVars
<1>21. ASSUME NEW w \in Workers, RequeueOut(w) PROVE TypeOK'
  BY <1>1, <1>21, RemoveFirstProperties DEF TypeOK, RequeueOut, GoTo, WorkerPc,
     sharedVars, schedVars, workerVars, mainVars
<1>22. ASSUME NEW w \in Workers, RequeueIn(w) PROVE TypeOK'
  BY <1>1, <1>22 DEF TypeOK, RequeueIn, GoTo, WorkerPc,
     sharedVars, schedVars, workerVars, mainVars
<1>23. ASSUME NEW w \in Workers, ReleasePost(w) PROVE TypeOK'
  BY <1>1, <1>23 DEF TypeOK, ReleasePost, GoTo, WorkerPc,
     sharedVars, schedVars, workerVars, mainVars
<1>24. ASSUME NEW w \in Workers, UseFreed(w) PROVE TypeOK'
  BY <1>1, <1>24 DEF TypeOK, UseFreed, MainAt, WorkerPc,
     sharedVars, schedVars, workerVars, mainVars
<1>25. CASE UNCHANGED vars
  BY <1>1, <1>25 DEF TypeOK, vars, sharedVars, schedVars, workerVars, mainVars
<1> QED
  BY <1>2, <1>3, <1>4, <1>5, <1>6, <1>7, <1>8, <1>9, <1>10, <1>11, <1>12, <1>13, <1>14, <1>15, <1>16, <1>17, <1>18, <1>19, <1>20, <1>21, <1>22, <1>23, <1>24, <1>25
     DEF Next, MainStep, SchedStep, WorkerStep, Rest

\* Every step of worker w changes its own pc and turns only, as its loop does.
LEMMA LoopStep ==
    ASSUME IInv, [Next]_vars
    PROVE  CreatedInOrder' /\ TurnsFollowLoop'
<1> USE ConstantsAssumption
<1>1. TypeOK /\ CreatedInOrder /\ TurnsFollowLoop
  BY DEF IInv
<1>2. CASE UNCHANGED <<wpc, turns, created>>
  BY <1>1, <1>2 DEF CreatedInOrder, TurnsFollowLoop
<1>3. CASE SchedStep
  BY <1>2, <1>3 DEF SchedStep, WaitForQueue, CheckRemaining, PeekHead, TestRunning, Advance,
     WakeInsert, WakePost, WaitForWorker, workerVars, mainVars
<1>4. CASE StartScheduler \/ SetCount \/ AllCreated \/ CleanUp
  BY <1>2, <1>4 DEF StartScheduler, SetCount, AllCreated, CleanUp, ExitError, workerVars
<1>5. CASE CreateWorker
  <2>1. CASE UNCHANGED <<wpc, created>>
    BY <1>2, <1>5, <2>1 DEF CreateWorker
  <2>2. CASE /\ created' = created + 1 /\ created < NumThreads
             /\ wpc' = [wpc EXCEPT ![created + 1] = "enter"]
    <3>1. created + 1 \in Workers /\ created \in Nat /\ wpc[created + 1] = "none"
      BY <1>1, <2>2 DEF TypeOK, Workers, ConstantsAssumption, CreatedInOrder
    <3>2. CreatedInOrder'
      <4>1. \A v \in Workers : v \in Int /\ (v = created + 1 \/ wpc'[v] = wpc[v])
        BY <1>1, <2>2 DEF TypeOK, Workers
      <4>2. wpc'[created + 1] = "enter"
        BY <1>1, <2>2, <3>1 DEF TypeOK
      <4> QED BY <1>1, <2>2, <3>1, <4>1, <4>2 DEF CreatedInOrder
    <3>3. TurnsFollowLoop'
      BY <1>1, <1>5, <2>2, <3>1 DEF TypeOK, TurnsFollowLoop, CreateWorker
    <3> QED BY <3>2, <3>3
  <2> QED BY <1>5, <2>1, <2>2 DEF CreateWorker, ExitError
<1>6. ASSUME NEW w \in Workers, WorkerStep(w) \/ UseFreed(w)
      PROVE  CreatedInOrder' /\ TurnsFollowLoop'
  <2>1. UNCHANGED created /\ \A v \in Workers : wpc'[v] = "none" <=> wpc[v] = "none"
    BY <1>1, <1>6 DEF TypeOK, WorkerStep, UseFreed, EnterQueue, WaitForCpu, LeaveQueue,
       LoadCount, StoreCount, ReleaseRunning, RequeueOut, RequeueIn, ReleasePost, GoTo,
       workerVars, mainVars
  <2>2. CreatedInOrder'
    BY <1>1, <2>1 DEF CreatedInOrder
  <2>3. CASE ReleaseRunning(w)
    BY <1>1, <2>2, <2>3 DEF TypeOK, TurnsFollowLoop, ReleaseRunning, GoTo
  <2>4. CASE EnterQueue(w) \/ WaitForCpu(w) \/ LeaveQueue(w) \/ LoadCount(w) \/ StoreCount(w)
    BY <1>1, <2>2, <2>4, ConstantsAssumption DEF TypeOK, TurnsFollowLoop, EnterQueue, WaitForCpu,
       LeaveQueue, LoadCount, StoreCount, GoTo, ConstantsAssumption
  <2>5. CASE RequeueOut(w) \/ RequeueIn(w) \/ ReleasePost(w)
    BY <1>1, <2>2, <2>5, ConstantsAssumption DEF TypeOK, TurnsFollowLoop, RequeueOut, RequeueIn,
       ReleasePost, GoTo, ConstantsAssumption
  <2>6. CASE UseFreed(w)
    BY <1>2, <2>1, <2>6 DEF UseFreed, workerVars
  <2> QED BY <1>6, <2>2, <2>3, <2>4, <2>5, <2>6 DEF WorkerStep
<1> QED
  BY <1>2, <1>3, <1>4, <1>5, <1>6
     DEF Next, MainStep, Rest, vars, workerVars, mainVars

\* No step of the scheduler precedes its start.
LEMMA StartStep ==
    ASSUME IInv, [Next]_vars
    PROVE  StartedByMain'
<1>1. TypeOK /\ StartedByMain
  BY DEF IInv
<1>2. CASE MainStep
  BY <1>1, <1>2 DEF StartedByMain, MainStep, StartScheduler, SetCount, CreateWorker, AllCreated,
     CleanUp, MainAt, ExitError, schedVars
<1>3. CASE SchedStep
  BY <1>1, <1>3 DEF StartedByMain, SchedStep, WaitForQueue, CheckRemaining, PeekHead, TestRunning,
     Advance, WakeInsert, WakePost, WaitForWorker, SchedAt, mainVars
<1>4. ASSUME NEW w \in Workers, WorkerStep(w) \/ UseFreed(w) PROVE StartedByMain'
  BY <1>1, <1>4 DEF StartedByMain, WorkerStep, UseFreed, EnterQueue, WaitForCpu, LeaveQueue,
     LoadCount, StoreCount, ReleaseRunning, RequeueOut, RequeueIn, ReleasePost, mainVars, schedVars
<1> QED
  BY <1>1, <1>2, <1>3, <1>4 DEF StartedByMain, Next, Rest, vars, schedVars, mainVars

\* Every step keeps each live worker in the queue once, or on its way back.
LEMMA QueueStep ==
    ASSUME IInv, [Next]_vars
    PROVE  WaitersStayQueued' /\ EnterersAreOut'
<1> DEFINE P == WaitersStayQueued /\ EnterersAreOut
<1> USE ConstantsAssumption
<1>1. TypeOK /\ CreatedInOrder /\ TurnsFollowLoop /\ P /\ IsInjective(queue)
  BY DEF IInv, WaitersStayQueued
<1>2. CASE UNCHANGED <<queue, wpc, turns>>
  BY <1>1, <1>2 DEF WaitersStayQueued, EnterersAreOut
<1>3. CASE SchedStep
  BY <1>2, <1>3 DEF SchedStep, WaitForQueue, CheckRemaining, PeekHead, TestRunning, Advance,
     WakeInsert, WakePost, WaitForWorker, sharedVars, workerVars
<1>4. CASE StartScheduler \/ SetCount \/ AllCreated \/ CleanUp
  BY <1>2, <1>4 DEF StartScheduler, SetCount, AllCreated, CleanUp, ExitError, sharedVars, workerVars
<1>5. CASE CreateWorker
  <2>1. CASE UNCHANGED wpc
    BY <1>2, <1>5, <2>1 DEF CreateWorker, sharedVars
  <2>2. CASE created < NumThreads /\ wpc' = [wpc EXCEPT ![created + 1] = "enter"]
    <3>1. created + 1 \in Workers /\ created \in Nat /\ wpc[created + 1] = "none"
      BY <1>1, <2>2 DEF TypeOK, Workers, ConstantsAssumption, CreatedInOrder
    <3> QED BY <1>1, <1>5, <2>2, <3>1
            DEF TypeOK, WaitersStayQueued, EnterersAreOut, CreateWorker, sharedVars
  <2> QED BY <1>5, <2>1, <2>2 DEF CreateWorker, ExitError
<1>6. ASSUME NEW w \in Workers, EnterQueue(w) \/ RequeueIn(w) PROVE P'
  <2>1. ~Contains(queue, w) /\ queue' = Append(queue, w)
    BY <1>1, <1>6 DEF EnterersAreOut, EnterQueue, RequeueIn, GoTo
  <2>2. /\ IsInjective(queue')
        /\ \A x : Contains(queue', x) <=> (Contains(queue, x) \/ x = w)
    BY <1>1, <2>1, InsertTailProperties DEF TypeOK
  <2> QED BY <1>1, <1>6, <2>2
          DEF TypeOK, WaitersStayQueued, EnterersAreOut, EnterQueue, RequeueIn, GoTo
<1>7. ASSUME NEW w \in Workers, LeaveQueue(w) \/ RequeueOut(w) PROVE P'
  <2>1. queue' = RemoveFirst(queue, w)
    BY <1>7 DEF LeaveQueue, RequeueOut
  <2>2. /\ IsInjective(queue')
        /\ \A x : Contains(queue', x) <=> (Contains(queue, x) /\ x # w)
    BY <1>1, <2>1, RemoveFirstProperties DEF TypeOK
  <2> QED BY <1>1, <1>7, <2>2
          DEF TypeOK, WaitersStayQueued, EnterersAreOut, LeaveQueue, RequeueOut, GoTo
<1>8. ASSUME NEW w \in Workers, WaitForCpu(w) \/ LoadCount(w) \/ StoreCount(w) PROVE P'
  BY <1>1, <1>8 DEF TypeOK, WaitersStayQueued, EnterersAreOut, WaitForCpu, LoadCount,
     StoreCount, GoTo, sharedVars
<1>9. ASSUME NEW w \in Workers, ReleaseRunning(w) PROVE P'
  BY <1>1, <1>9 DEF TypeOK, TurnsFollowLoop, WaitersStayQueued, EnterersAreOut, ReleaseRunning,
     GoTo
<1>10. ASSUME NEW w \in Workers, ReleasePost(w) PROVE P'
  BY <1>1, <1>10 DEF TypeOK, WaitersStayQueued, EnterersAreOut, ReleasePost, GoTo
<1>11. ASSUME NEW w \in Workers, UseFreed(w) PROVE P'
  BY <1>2, <1>11 DEF UseFreed, sharedVars, workerVars
<1> QED
  BY <1>2, <1>3, <1>4, <1>5, <1>6, <1>7, <1>8, <1>9, <1>10, <1>11
     DEF Next, MainStep, WorkerStep, Rest, vars, sharedVars, workerVars

\* Every step keeps running and the wake-ups in step: wake_up_worker inserts the
\* worker it posts, release_cpu takes out the worker that had the CPU.
LEMMA GrantStep ==
    ASSUME IInv, [Next]_vars
    PROVE  GrantAccounting' /\ WakesTheIdle' /\ OneGrant'
<1> DEFINE P == GrantAccounting /\ WakesTheIdle /\ OneGrant
<1>1. TypeOK /\ CreatedInOrder /\ StartedByMain /\ P /\ IsInjective(running) /\ cand \in Nat
  BY DEF IInv, GrantAccounting, TypeOK, Workers, NoWorker
<1>2. CASE UNCHANGED <<running, cpuSem, wpc, spc, cand>>
  BY <1>1, <1>2 DEF GrantAccounting, WakesTheIdle, OneGrant, HasCpu
<1>3. CASE WaitForQueue \/ CheckRemaining \/ PeekHead \/ Advance \/ WaitForWorker \/ StartScheduler
  <2>1. /\ UNCHANGED <<running, cpuSem, wpc>>
        /\ spc # "post" /\ spc' # "insert" /\ spc' # "post"
    BY <1>1, <1>3 DEF StartedByMain, WaitForQueue, CheckRemaining, PeekHead, Advance, WaitForWorker,
       StartScheduler, MainAt, SchedAt, NextWorkerFrom, sharedVars, schedVars, workerVars
  <2> QED BY <1>1, <2>1 DEF GrantAccounting, WakesTheIdle, OneGrant, HasCpu
<1>4. CASE TestRunning
  <2>1. UNCHANGED <<running, cpuSem, wpc, cand>> /\ spc = "test"
    BY <1>4 DEF TestRunning, SchedAt, sharedVars, workerVars
  <2>2. spc' = IF Contains(running, cand) THEN "advance" ELSE "insert"
    BY <1>4 DEF TestRunning
  <2> QED BY <1>1, <2>1, <2>2 DEF GrantAccounting, WakesTheIdle, OneGrant, HasCpu
<1>5. CASE WakeInsert
  <2>1. /\ running' = Append(running, cand) /\ UNCHANGED <<cpuSem, wpc, cand>>
        /\ spc = "insert" /\ spc' = "post"
    BY <1>5 DEF WakeInsert, SchedAt, workerVars
  <2>2. cand \in Workers /\ ~Contains(running, cand)
    BY <1>1, <2>1 DEF TypeOK, WakesTheIdle
  <2>3. /\ IsInjective(running')
        /\ \A x : Contains(running', x) <=> (Contains(running, x) \/ x = cand)
    BY <1>1, <2>1, <2>2, InsertTailProperties DEF TypeOK
  <2>4. cpuSem[cand] = 0 /\ ~HasCpu(cand)
    BY <1>1, <2>1, <2>2 DEF TypeOK, GrantAccounting
  <2> QED BY <1>1, <2>1, <2>2, <2>3, <2>4 DEF GrantAccounting, WakesTheIdle, OneGrant, HasCpu
<1>6. CASE WakePost
  <2>1. /\ UNCHANGED <<running, wpc, cand>> /\ cpuSem' = [cpuSem EXCEPT ![cand] = @ + 1]
        /\ spc = "post" /\ spc' = "wait_worker"
    BY <1>6 DEF WakePost, SchedAt, workerVars
  <2>2. cand \in Workers /\ cpuSem[cand] = 0 /\ ~HasCpu(cand)
    BY <1>1, <2>1 DEF TypeOK, OneGrant
  <2>3. cpuSem'[cand] = 1 /\ \A w \in Workers : w # cand => cpuSem'[w] = cpuSem[w]
    BY <1>1, <2>1, <2>2 DEF TypeOK
  <2> QED BY <1>1, <2>1, <2>2, <2>3 DEF GrantAccounting, WakesTheIdle, OneGrant, HasCpu
<1>7. CASE CreateWorker
  <2>1. CASE UNCHANGED wpc
    BY <1>2, <1>7, <2>1 DEF CreateWorker, sharedVars, schedVars
  <2>2. CASE created < NumThreads /\ wpc' = [wpc EXCEPT ![created + 1] = "enter"]
    <3>1. created + 1 \in Workers /\ wpc[created + 1] = "none"
      BY <1>1, <2>2, ConstantsAssumption DEF TypeOK, Workers, ConstantsAssumption, CreatedInOrder
    <3>2. \A w \in Workers : HasCpu(w)' <=> HasCpu(w)
      BY <1>1, <2>2, <3>1 DEF TypeOK, HasCpu
    <3>3. UNCHANGED <<running, cpuSem, spc, cand>>
      BY <1>7 DEF CreateWorker, sharedVars, schedVars
    <3>4. spc = "post" => cand \in Workers
      BY <1>1 DEF TypeOK
    <3> QED BY <1>1, <3>2, <3>3, <3>4 DEF GrantAccounting, WakesTheIdle, OneGrant
  <2> QED BY <1>7, <2>1, <2>2 DEF CreateWorker, ExitError
<1>8. ASSUME NEW w \in Workers, WaitForCpu(w) PROVE P'
  <2>1. /\ UNCHANGED <<running, spc, cand>> /\ wpc[w] = "wait" /\ wpc'[w] \in {"work", "leave"}
        /\ cpuSem[w] = 1 /\ cpuSem'[w] = 0
        /\ \A v \in Workers : v # w => cpuSem'[v] = cpuSem[v] /\ wpc'[v] = wpc[v]
    BY <1>1, <1>8 DEF TypeOK, GrantAccounting, WaitForCpu, GoTo, schedVars
  <2>2. Contains(running, w) /\ (spc = "post" => cand # w /\ cand \in Workers)
    BY <1>1, <2>1 DEF GrantAccounting, OneGrant, TypeOK
  <2> QED BY <1>1, <2>1, <2>2 DEF GrantAccounting, WakesTheIdle, OneGrant, HasCpu
<1>9. ASSUME NEW w \in Workers, ReleaseRunning(w) PROVE P'
  <2>1. /\ UNCHANGED <<cpuSem, spc, cand>> /\ running' = RemoveFirst(running, w)
        /\ wpc[w] \in {"work", "release"} /\ wpc'[w] \in {"requeue_out", "post"}
        /\ \A v \in Workers : v # w => wpc'[v] = wpc[v]
    BY <1>1, <1>9 DEF TypeOK, ReleaseRunning, GoTo, schedVars
  <2>2. /\ IsInjective(running')
        /\ \A x : Contains(running', x) <=> (Contains(running, x) /\ x # w)
    BY <1>1, <2>1, RemoveFirstProperties DEF TypeOK
  <2>3. cpuSem[w] = 0 /\ (spc = "post" => cand # w /\ cand \in Workers)
    BY <1>1, <2>1 DEF OneGrant, HasCpu, TypeOK
  <2> QED BY <1>1, <2>1, <2>2, <2>3 DEF GrantAccounting, WakesTheIdle, OneGrant, HasCpu
<1>10. ASSUME NEW w \in Workers,
              \/ EnterQueue(w) \/ LeaveQueue(w) \/ LoadCount(w) \/ StoreCount(w)
              \/ RequeueOut(w) \/ RequeueIn(w) \/ ReleasePost(w) \/ UseFreed(w)
       PROVE  P'
  <2>1. UNCHANGED <<running, cpuSem, spc, cand>>
    BY <1>10 DEF EnterQueue, LeaveQueue, LoadCount, StoreCount, RequeueOut, RequeueIn,
       ReleasePost, UseFreed, sharedVars, schedVars
  <2>2. \A v \in Workers : HasCpu(v)' <=> HasCpu(v)
    BY <1>1, <1>10 DEF TypeOK, HasCpu, EnterQueue, LeaveQueue, LoadCount, StoreCount,
       RequeueOut, RequeueIn, ReleasePost, UseFreed, GoTo, workerVars
  <2>3. spc = "post" => cand \in Workers
    BY <1>1 DEF TypeOK
  <2> QED BY <1>1, <2>1, <2>2, <2>3 DEF GrantAccounting, WakesTheIdle, OneGrant
<1>11. CASE SetCount \/ AllCreated \/ CleanUp
  BY <1>2, <1>11 DEF SetCount, AllCreated, CleanUp, sharedVars, schedVars, workerVars
<1> QED
  BY <1>2, <1>3, <1>4, <1>5, <1>6, <1>7, <1>8, <1>9, <1>10, <1>11
     DEF Next, MainStep, SchedStep, WorkerStep, Rest, vars, sharedVars, schedVars, workerVars

\* The workers between remove_item(running) and sem_post(sq->sem).
Givers == {w \in Workers : GivingBack(w)}

\* Every step keeps the tokens in step with the running list.
LEMMA SlotStep ==
    ASSUME IInv, [Next]_vars
    PROVE  SlotAccounting'
<1>1. /\ TypeOK /\ CreatedInOrder /\ StartedByMain /\ SlotAccounting
      /\ GrantAccounting /\ WakesTheIdle /\ IsInjective(running)
  BY DEF IInv, GrantAccounting
<1>2. /\ IsFiniteSet(Givers) /\ Cardinality(Givers) \in Nat /\ Tokens \in Nat
      /\ Len(running) \in Nat /\ sqSem \in Nat
  <2>1. IsFiniteSet(Workers)
    BY ConstantsAssumption, FS_Interval DEF ConstantsAssumption, Workers
  <2>2. IsFiniteSet(Givers) /\ Cardinality(Givers) \in Nat
    BY <2>1, FS_Subset, FS_CardinalityType DEF Givers
  <2> QED BY <1>1, <2>2, ConstantsAssumption DEF ConstantsAssumption, Tokens, TypeOK
<1>3. Len(running) + Cardinality(Givers) + sqSem = Tokens + IF SchedHoldsGrant THEN 1 ELSE 0
  BY <1>1 DEF SlotAccounting, Givers
<1>4. ASSUME Len(running') + Cardinality(Givers') + sqSem'
                 = Tokens + IF SchedHoldsGrant' THEN 1 ELSE 0
      PROVE  SlotAccounting'
  BY <1>4 DEF SlotAccounting, Givers, Tokens, GivingBack
<1>5. CASE /\ UNCHANGED <<running, sqSem>> /\ Givers' = Givers
           /\ SchedHoldsGrant' = SchedHoldsGrant
  BY <1>3, <1>4, <1>5
<1>6. CASE \/ WaitForQueue \/ CheckRemaining \/ PeekHead \/ TestRunning \/ Advance
           \/ StartScheduler \/ WakePost
  <2>1. UNCHANGED <<running, sqSem, wpc>> /\ SchedHoldsGrant' = SchedHoldsGrant
    BY <1>1, <1>6 DEF StartedByMain, WaitForQueue, CheckRemaining, PeekHead, TestRunning,
       Advance, StartScheduler, WakePost, MainAt, SchedAt, NextWorkerFrom, SchedHoldsGrant, sharedVars, schedVars,
       workerVars
  <2> QED BY <1>5, <2>1 DEF Givers, GivingBack
<1>7. CASE WakeInsert
  <2>1. /\ running' = Append(running, cand) /\ UNCHANGED <<sqSem, wpc>>
        /\ ~SchedHoldsGrant /\ SchedHoldsGrant'
    BY <1>7 DEF WakeInsert, SchedAt, SchedHoldsGrant, workerVars
  <2>2. Len(running') = Len(running) + 1
    BY <1>1, <2>1 DEF TypeOK
  <2>3. Givers' = Givers
    BY <2>1 DEF Givers, GivingBack
  <2>4. Len(running) + Cardinality(Givers) + sqSem = Tokens /\ sqSem' = sqSem
    BY <1>2, <1>3, <2>1
  <2>5. Len(running') + Cardinality(Givers') + sqSem' = Tokens + 1
    BY <1>2, <2>2, <2>3, <2>4
  <2> QED BY <1>4, <2>1, <2>5
<1>8. CASE WaitForWorker
  <2>1. /\ sqSem > 0 /\ sqSem' = sqSem - 1 /\ UNCHANGED <<running, wpc>>
        /\ SchedHoldsGrant /\ ~SchedHoldsGrant'
    BY <1>8 DEF WaitForWorker, SchedAt, SchedHoldsGrant, workerVars
  <2>2. Givers' = Givers
    BY <2>1 DEF Givers, GivingBack
  <2> QED BY <1>2, <1>3, <1>4, <2>1, <2>2
<1>9. CASE SetCount \/ AllCreated \/ CleanUp
  BY <1>5, <1>9 DEF SetCount, AllCreated, CleanUp, sharedVars, schedVars, workerVars,
     Givers, GivingBack, SchedHoldsGrant
<1>10. CASE CreateWorker
  <2>1. UNCHANGED <<running, sqSem, spc>>
    BY <1>10 DEF CreateWorker, sharedVars, schedVars
  <2>2. Givers' = Givers
    <3>1. CASE UNCHANGED wpc
      BY <3>1 DEF Givers, GivingBack
    <3>2. CASE created < NumThreads /\ wpc' = [wpc EXCEPT ![created + 1] = "enter"]
      <4>1. created + 1 \in Workers /\ wpc[created + 1] = "none"
        BY <1>1, <3>2, ConstantsAssumption DEF TypeOK, Workers, ConstantsAssumption, CreatedInOrder
      <4>2. \A v \in Workers : GivingBack(v)' <=> GivingBack(v)
        BY <1>1, <3>2, <4>1 DEF TypeOK, GivingBack
      <4> QED BY <4>2 DEF Givers
    <3> QED BY <1>10, <3>1, <3>2 DEF CreateWorker, ExitError
  <2> QED BY <1>5, <2>1, <2>2 DEF SchedHoldsGrant
<1>11. ASSUME NEW w \in Workers, ReleaseRunning(w) PROVE SlotAccounting'
  <2>1. /\ running' = RemoveFirst(running, w) /\ UNCHANGED <<sqSem, spc>>
        /\ wpc[w] \in {"work", "release"} /\ wpc'[w] \in {"requeue_out", "post"}
        /\ \A v \in Workers : v # w => wpc'[v] = wpc[v]
    BY <1>1, <1>11 DEF TypeOK, ReleaseRunning, GoTo, schedVars
  <2>2. Len(running') = Len(running) - 1
    <3>1. Contains(running, w)
      BY <1>1, <2>1 DEF GrantAccounting, HasCpu
    <3> QED BY <1>1, <2>1, <3>1, RemoveFirstProperties DEF TypeOK
  <2>3. Givers' = Givers \cup {w} /\ w \notin Givers
    BY <2>1 DEF Givers, GivingBack
  <2>4. Cardinality(Givers') = Cardinality(Givers) + 1
    BY <1>2, <2>3, FS_AddElement
  <2> QED BY <1>1, <1>2, <1>3, <1>4, <2>1, <2>2, <2>4 DEF TypeOK, SchedHoldsGrant
<1>12. ASSUME NEW w \in Workers, ReleasePost(w) PROVE SlotAccounting'
  <2>1. /\ sqSem' = sqSem + 1 /\ UNCHANGED <<running, spc>>
        /\ wpc[w] = "post" /\ wpc'[w] \in {"wait", "done"}
        /\ \A v \in Workers : v # w => wpc'[v] = wpc[v]
    BY <1>1, <1>12 DEF TypeOK, ReleasePost, GoTo, schedVars
  <2>2. Givers' = Givers \ {w} /\ w \in Givers
    BY <2>1 DEF Givers, GivingBack
  <2>3. Cardinality(Givers') = Cardinality(Givers) - 1
    BY <1>2, <2>2, FS_RemoveElement
  <2> QED BY <1>1, <1>2, <1>3, <1>4, <2>1, <2>3 DEF TypeOK, SchedHoldsGrant
<1>13. ASSUME NEW w \in Workers,
              \/ EnterQueue(w) \/ WaitForCpu(w) \/ LeaveQueue(w) \/ LoadCount(w)
              \/ StoreCount(w) \/ RequeueOut(w) \/ RequeueIn(w) \/ UseFreed(w)
       PROVE  SlotAccounting'
  <2>1. UNCHANGED <<running, sqSem, spc>>
    BY <1>13 DEF EnterQueue, WaitForCpu, LeaveQueue, LoadCount, StoreCount, RequeueOut,
       RequeueIn, UseFreed, sharedVars, schedVars
  <2>2. \A v \in Workers : GivingBack(v)' <=> GivingBack(v)
    BY <1>1, <1>13 DEF TypeOK, GivingBack, EnterQueue, WaitForCpu, LeaveQueue, LoadCount,
       StoreCount, RequeueOut, RequeueIn, UseFreed, GoTo, workerVars
  <2> QED BY <1>5, <2>1, <2>2 DEF Givers, SchedHoldsGrant
<1>14. CASE UNCHANGED vars
  BY <1>5, <1>14 DEF vars, sharedVars, schedVars, workerVars, Givers, GivingBack, SchedHoldsGrant
<1> QED
  BY <1>6, <1>7, <1>8, <1>9, <1>10, <1>11, <1>12, <1>13, <1>14
     DEF Next, MainStep, SchedStep, WorkerStep, Rest

(* Nothing is in the queue, nothing runs and all tokens are there when the
   program starts. *)
LEMMA IInvInit == Init => IInv
<1> SUFFICES ASSUME Init PROVE IInv
  OBVIOUS
<1> USE ConstantsAssumption DEF ConstantsAssumption
<1>1. TypeOK
  <2>1. NumThreads \in Nat /\ Tokens \in Nat /\ 0 \in 0 .. NumThreads
    BY DEF Tokens
  <2>2. queue \in Seq(Workers) /\ running \in Seq(Workers)
    BY EmptySeq DEF Init
  <2>3. doneThing \in BOOLEAN
    BY Zenon DEF Init
  <2>4. /\ numWorkers \in Int
        /\ spc \in SchedPc /\ spc \notin {"test", "advance", "insert", "post"}
        /\ cand \in Workers \cup {NoWorker}
        /\ mpc \in MainPc /\ proc \in {"running", "exited", "crashed"}
    BY DEF Init, SchedPc, MainPc
  <2>5. /\ cpuSem \in [Workers -> Nat] /\ turns \in [Workers -> Nat]
        /\ reg \in [Workers -> Int] /\ wpc \in [Workers -> WorkerPc]
    BY DEF Init, WorkerPc
  <2>6. sqSem \in Nat /\ created \in 0 .. NumThreads
    BY <2>1 DEF Init
  <2> QED BY <2>2, <2>3, <2>4, <2>5, <2>6 DEF TypeOK
<1>2. \A w : ~Contains(queue, w) /\ ~Contains(running, w)
  BY DEF Init, Contains
<1>3. IsInjective(queue) /\ IsInjective(running)
  BY DEF Init, IsInjective
<1>4. CreatedInOrder /\ TurnsFollowLoop /\ StartedByMain
  BY DEF Init, CreatedInOrder, TurnsFollowLoop, StartedByMain, Workers
<1>5. WaitersStayQueued /\ EnterersAreOut
  BY <1>2, <1>3 DEF Init, WaitersStayQueued, EnterersAreOut
<1>6. GrantAccounting /\ WakesTheIdle /\ OneGrant
  BY <1>2, <1>3 DEF Init, GrantAccounting, WakesTheIdle, OneGrant, HasCpu
<1>7. SlotAccounting
  <2>1. {w \in Workers : GivingBack(w)} = {} /\ ~SchedHoldsGrant
    BY DEF Init, GivingBack, SchedHoldsGrant
  <2>2. Cardinality({w \in Workers : GivingBack(w)}) = 0
    BY <2>1, FS_EmptySet
  <2>3. Tokens \in Nat /\ Len(running) = 0 /\ sqSem = Tokens
    BY DEF Init, Tokens
  <2> QED BY <2>1, <2>2, <2>3 DEF SlotAccounting
<1> QED BY <1>1, <1>4, <1>5, <1>6, <1>7 DEF IInv

(* Every action of the three kinds of thread keeps the bookkeeping of the two
   lists and the semaphores. *)
LEMMA IInvStep == IInv /\ [Next]_vars => IInv'
BY TypeStep, LoopStep, StartStep, QueueStep, GrantStep, SlotStep DEF IInv

(* So it holds in every reachable state. *)
LEMMA IInvAlways == Spec => []IInv
BY IInvInit, IInvStep, PTL DEF Spec

-----------------------------------------------------------------------------
(* The theorems                                                            *)

\* Type correctness: what the lists, semaphores and cursor hold is always a
\* worker, a count, or NULL where the code tests for NULL.
THEOREM TypeCorrect == Spec => []TypeOK
<1>1. IInv => TypeOK
  BY DEF IInv
<1> QED BY <1>1, IInvAlways, PTL

\* The tokens of sq->sem and the running list account for every slot.
THEOREM SlotsAccounted == Spec => []SlotAccounting
<1>1. IInv => SlotAccounting
  BY DEF IInv
<1> QED BY <1>1, IInvAlways, PTL

\* No worker is woken twice, and running lists exactly the granted workers.
THEOREM GrantsAccounted == Spec => []GrantAccounting
<1>1. IInv => GrantAccounting
  BY DEF IInv
<1> QED BY <1>1, IInvAlways, PTL

\* next_worker's search cannot miss a worker that waits for the CPU.
THEOREM WaitersQueued == Spec => []WaitersStayQueued
<1>1. IInv => WaitersStayQueued
  BY DEF IInv
<1> QED BY <1>1, IInvAlways, PTL

\* In every state the running list has at most one worker more than queue_size
\* gives tokens, and one fewer while the scheduler is about to add one.
LEMMA RunningBounded ==
    ASSUME IInv
    PROVE  /\ Len(running) <= MaxRunning
           /\ ~SchedHoldsGrant => Len(running) < MaxRunning
<1>1. Len(running) \in Nat /\ sqSem \in Nat /\ Tokens \in Nat
  BY ConstantsAssumption DEF IInv, TypeOK, ConstantsAssumption, Tokens
<1>2. Cardinality({w \in Workers : GivingBack(w)}) \in Nat
  <2>1. IsFiniteSet(Workers)
    BY ConstantsAssumption, FS_Interval DEF ConstantsAssumption, Workers
  <2> QED BY <2>1, FS_Subset, FS_CardinalityType
<1>3. SlotAccounting
  BY DEF IInv
<1> QED BY <1>1, <1>2, <1>3 DEF SlotAccounting, MaxRunning

\* No interleaving puts more than queue_size workers on the CPU.
THEOREM CpuBounded == Spec => []AtMostQueueSizeOnCpu
<1>1. ASSUME IInv, NEW S \in SUBSET Workers, \A w \in S : HasCpu(w)
      PROVE  Cardinality(S) <= MaxRunning
  <2>1. \A w \in S : Contains(running, w)
    BY <1>1 DEF IInv, GrantAccounting
  <2>2. running \in Seq(Workers)
    BY <1>1 DEF IInv, TypeOK
  <2>3. IsFiniteSet(S) /\ Cardinality(S) <= Len(running)
    BY <2>1, <2>2, ContainedCardinality
  <2>4. Len(running) <= MaxRunning
    BY <1>1, RunningBounded
  <2>5. Cardinality(S) \in Nat /\ Len(running) \in Nat /\ MaxRunning \in Nat
    BY <2>2, <2>3, FS_CardinalityType, ConstantsAssumption
       DEF MaxRunning, Tokens, ConstantsAssumption
  <2> QED BY <2>3, <2>4, <2>5
<1>2. IInv => AtMostQueueSizeOnCpu
  BY <1>1 DEF AtMostQueueSizeOnCpu
<1> QED BY <1>2, IInvAlways, PTL

\* sched_impl.c implements MaxRunning CPU slots: a wake-up is a grant to a
\* worker that had none while a slot was free, release_cpu gives it back, and
\* nothing else touches the slots.
THEOREM ImplementsSlots == Spec => SlotsSpec
<1>1. Init => Slots!Init
  BY DEF Init, Slots!Init, ToSet
<1>2. ASSUME IInv, [Next]_vars
      PROVE  [Slots!Next]_(ToSet(running))
  <2>1. running \in Seq(Workers) /\ IsInjective(running)
        /\ \A s, x : x \in ToSet(s) <=> \E i \in DOMAIN s : s[i] = x
    BY <1>2 DEF IInv, TypeOK, GrantAccounting, ToSet
  <2>2. CASE UNCHANGED running
    BY <2>2 DEF ToSet
  <2>3. CASE WakeInsert
    <3>1. /\ running' = Append(running, cand) /\ spc = "insert"
          /\ cand \in Workers /\ ~Contains(running, cand)
      BY <1>2, <2>3 DEF WakeInsert, SchedAt, IInv, TypeOK, WakesTheIdle
    <3>2. \A x : Contains(running', x) <=> (Contains(running, x) \/ x = cand)
      BY <2>1, <3>1, InsertTailProperties
    <3>3. ToSet(running') = ToSet(running) \cup {cand} /\ cand \notin ToSet(running)
      <4>1. running' \in Seq(Workers)
        BY <2>1, <3>1
      <4>2. /\ \A x : x \in ToSet(running) <=> Contains(running, x)
            /\ \A x : x \in ToSet(running') <=> Contains(running', x)
        BY <2>1, <4>1 DEF ToSet, Contains
      <4> QED BY <3>1, <3>2, <4>2
    <3>4. Cardinality(ToSet(running)) < MaxRunning
      <4>1. ToSet(running) \in SUBSET Workers /\ \A x \in ToSet(running) : Contains(running, x)
        BY <2>1 DEF ToSet, Contains
      <4>2. IsFiniteSet(ToSet(running)) /\ Cardinality(ToSet(running)) <= Len(running)
        BY <2>1, <4>1, ContainedCardinality
      <4>3. Len(running) < MaxRunning
        BY <1>2, <3>1, RunningBounded DEF SchedHoldsGrant
      <4>4. Cardinality(ToSet(running)) \in Nat /\ Len(running) \in Nat /\ MaxRunning \in Nat
        BY <2>1, <4>2, FS_CardinalityType, ConstantsAssumption
           DEF MaxRunning, Tokens, ConstantsAssumption
      <4> QED BY <4>2, <4>3, <4>4
    <3>5. Slots!Grant(cand)
      <4>1. Slots!Cardinality(ToSet(running)) = Cardinality(ToSet(running))
        BY DEF Slots!Cardinality, Cardinality
      <4> QED BY <3>3, <3>4, <4>1 DEF Slots!Grant
    <3> QED BY <3>1, <3>5 DEF Slots!Next
  <2>4. ASSUME NEW w \in Workers, ReleaseRunning(w) PROVE Slots!Release(w)
    <3>1. /\ running' = RemoveFirst(running, w) /\ Contains(running, w)
      BY <1>2, <2>4 DEF ReleaseRunning, GoTo, IInv, GrantAccounting, HasCpu
    <3>2. /\ running' \in Seq(Workers)
          /\ \A x : Contains(running', x) <=> (Contains(running, x) /\ x # w)
      BY <2>1, <3>1, RemoveFirstProperties
    <3>3. /\ \A x : x \in ToSet(running) <=> Contains(running, x)
          /\ \A x : x \in ToSet(running') <=> Contains(running', x)
      BY <2>1, <3>2 DEF ToSet, Contains
    <3>4. ToSet(running') = ToSet(running) \ {w} /\ w \in ToSet(running)
      BY <3>1, <3>2, <3>3
    <3> QED BY <3>4 DEF Slots!Release
  <2>5. CASE \/ MainStep \/ WaitForQueue \/ CheckRemaining \/ PeekHead \/ TestRunning
             \/ Advance \/ WakePost \/ WaitForWorker \/ UNCHANGED vars
    BY <2>2, <2>5 DEF MainStep, StartScheduler, SetCount, CreateWorker, AllCreated, CleanUp,
       WaitForQueue, CheckRemaining, PeekHead, TestRunning, Advance, WakePost, WaitForWorker,
       vars, sharedVars
  <2>6. ASSUME NEW w \in Workers,
               \/ EnterQueue(w) \/ WaitForCpu(w) \/ LeaveQueue(w) \/ LoadCount(w)
               \/ StoreCount(w) \/ RequeueOut(w) \/ RequeueIn(w) \/ ReleasePost(w)
               \/ UseFreed(w)
        PROVE  UNCHANGED running
    BY <2>6 DEF EnterQueue, WaitForCpu, LeaveQueue, LoadCount, StoreCount, RequeueOut,
       RequeueIn, ReleasePost, UseFreed, sharedVars
  <2> QED
    BY <1>2, <2>2, <2>3, <2>4, <2>5, <2>6
       DEF Next, SchedStep, WorkerStep, Rest, Slots!Next
<1> QED BY <1>1, <1>2, IInvAlways, PTL DEF Spec, SlotsSpec, Slots!Spec

-----------------------------------------------------------------------------
(* The counter that nothing protects                                       *)

\* The workers that have subtracted themselves from num_workers_remaining.
Counters == {w \in Workers : Counted(w)}

\* Until main has stored thread_count, no worker exists and the scheduler
\* waits for the queue (the comment at scheduler.c:119-120).
CountedAfterStore ==
    mpc \in {"start", "count"} =>
        /\ created = 0 /\ queue = <<>> /\ ~doneThing
        /\ spc \in {"none", "wait_queue"}

\* A decrement may be lost but never counts a worker twice: the counter, and the
\* copy a worker has loaded, are at least the number of workers not counted.
CountBound ==
    mpc \notin {"start", "count"} =>
        /\ numWorkers >= NumThreads - Cardinality(Counters)
        /\ \A w \in Workers :
              wpc[w] = "store" => reg[w] >= NumThreads - Cardinality(Counters)

CInv == IInv /\ CountedAfterStore /\ CountBound /\ NeverDoneEarly

\* Every step keeps the scheduler waiting until thread_count is stored.
LEMMA StoreStep ==
    ASSUME CInv, [Next]_vars
    PROVE  CountedAfterStore'
<1>1. TypeOK /\ CreatedInOrder /\ CountedAfterStore
  BY DEF CInv, IInv
<1>2. CASE MainStep
  BY <1>1, <1>2 DEF CountedAfterStore, MainStep, StartScheduler, SetCount, CreateWorker,
     AllCreated, CleanUp, MainAt, ExitError, sharedVars, schedVars
<1>3. CASE SchedStep
  BY <1>1, <1>3 DEF CountedAfterStore, SchedStep, WaitForQueue, CheckRemaining, PeekHead,
     TestRunning, Advance, WakeInsert, WakePost, WaitForWorker, SchedAt, mainVars
<1>4. ASSUME NEW w \in Workers, WorkerStep(w) \/ UseFreed(w) PROVE CountedAfterStore'
  <2>1. wpc[w] # "none" /\ UNCHANGED mpc
    BY <1>4 DEF WorkerStep, UseFreed, EnterQueue, WaitForCpu, LeaveQueue, LoadCount, StoreCount,
       ReleaseRunning, RequeueOut, RequeueIn, ReleasePost, GoTo, Releasing, mainVars
  <2>2. mpc \notin {"start", "count"}
    BY <1>1, <2>1 DEF CountedAfterStore, CreatedInOrder, Workers
  <2> QED BY <2>1, <2>2 DEF CountedAfterStore
<1> QED
  BY <1>1, <1>2, <1>3, <1>4
     DEF CountedAfterStore, Next, Rest, vars, sharedVars, schedVars, mainVars

\* A worker counts itself once: every step keeps the workers counted, and adds
\* the one that stores.
LEMMA CountersStep ==
    ASSUME CInv, [Next]_vars
    PROVE  /\ IsFiniteSet(Counters) /\ Cardinality(Counters) \in Nat
           /\ (\A w \in Workers : ~StoreCount(w)) => Counters' = Counters
           /\ \A w \in Workers : StoreCount(w) =>
                 Cardinality(Counters') = Cardinality(Counters) + 1
<1>1. TypeOK /\ CreatedInOrder /\ TurnsFollowLoop /\ Iterations \in Nat
  BY ConstantsAssumption DEF CInv, IInv, ConstantsAssumption
<1>2. IsFiniteSet(Counters) /\ Cardinality(Counters) \in Nat
  <2>1. IsFiniteSet(Workers)
    BY ConstantsAssumption, FS_Interval DEF ConstantsAssumption, Workers
  <2> QED BY <2>1, FS_Subset, FS_CardinalityType DEF Counters
<1>3. ASSUME UNCHANGED <<wpc, turns>> PROVE Counters' = Counters
  BY <1>3 DEF Counters, Counted
<1>4. ASSUME SchedStep \/ StartScheduler \/ SetCount \/ AllCreated \/ CleanUp
      PROVE  Counters' = Counters
  BY <1>3, <1>4 DEF SchedStep, WaitForQueue, CheckRemaining, PeekHead, TestRunning, Advance,
     WakeInsert, WakePost, WaitForWorker, StartScheduler, SetCount, AllCreated, CleanUp, workerVars
<1>5. ASSUME CreateWorker PROVE Counters' = Counters
  <2>1. CASE UNCHANGED wpc
    BY <1>3, <1>5, <2>1 DEF CreateWorker
  <2>2. CASE created < NumThreads /\ wpc' = [wpc EXCEPT ![created + 1] = "enter"]
    <3>1. created + 1 \in Workers /\ wpc[created + 1] = "none"
      BY <1>1, <2>2, ConstantsAssumption DEF TypeOK, Workers, ConstantsAssumption, CreatedInOrder
    <3>2. \A w \in Workers : Counted(w)' <=> Counted(w)
      BY <1>1, <1>5, <2>2, <3>1 DEF TypeOK, Counted, CreateWorker
    <3> QED BY <3>2 DEF Counters
  <2> QED BY <1>5, <2>1, <2>2 DEF CreateWorker, ExitError
<1>6. ASSUME NEW w \in Workers,
             \/ EnterQueue(w) \/ WaitForCpu(w) \/ LeaveQueue(w) \/ LoadCount(w)
             \/ RequeueOut(w) \/ RequeueIn(w) \/ ReleasePost(w) \/ UseFreed(w)
      PROVE  Counters' = Counters
  <2>1. \A v \in Workers : Counted(v)' <=> Counted(v)
    BY <1>1, <1>6 DEF TypeOK, Counted, EnterQueue, WaitForCpu, LeaveQueue, LoadCount,
       RequeueOut, RequeueIn, ReleasePost, UseFreed, GoTo, workerVars
  <2> QED BY <2>1 DEF Counters
<1>7. ASSUME NEW w \in Workers, ReleaseRunning(w) PROVE Counters' = Counters
  <2>1. \A v \in Workers : v # w => (Counted(v)' <=> Counted(v))
    BY <1>1, <1>7 DEF TypeOK, Counted, ReleaseRunning, GoTo
  <2>2. wpc[w] \in {"work", "release"} /\ turns'[w] = turns[w] + 1 /\ wpc'[w] # "release"
    BY <1>1, <1>7 DEF TypeOK, ReleaseRunning, GoTo
  <2>3. Counted(w)' <=> Counted(w)
    BY <1>1, <2>2 DEF TypeOK, TurnsFollowLoop, Counted
  <2> QED BY <2>1, <2>3 DEF Counters
<1>8. ASSUME NEW w \in Workers, StoreCount(w)
      PROVE  Cardinality(Counters') = Cardinality(Counters) + 1
  <2>1. \A v \in Workers : v # w => (Counted(v)' <=> Counted(v))
    BY <1>1, <1>8 DEF TypeOK, Counted, StoreCount, GoTo
  <2>2. ~Counted(w) /\ Counted(w)'
    BY <1>1, <1>8 DEF TypeOK, TurnsFollowLoop, Counted, StoreCount, GoTo
  <2>3. Counters' = Counters \cup {w} /\ w \notin Counters
    BY <2>1, <2>2 DEF Counters
  <2> QED BY <1>2, <2>3, FS_AddElement
<1>9. (\A w \in Workers : ~StoreCount(w)) => Counters' = Counters
  BY <1>3, <1>4, <1>5, <1>6, <1>7 DEF Next, MainStep, WorkerStep, Rest, vars, workerVars
<1> QED BY <1>2, <1>8, <1>9

\* Every step keeps the counter at or above the number of workers not counted,
\* also the step that overwrites the decrement of another worker.
LEMMA CountStep ==
    ASSUME CInv, [Next]_vars
    PROVE  CountBound'
<1>1. TypeOK /\ CreatedInOrder /\ CountBound /\ CountedAfterStore /\ NumThreads \in Nat
  BY ConstantsAssumption DEF CInv, IInv, ConstantsAssumption
<1>2. Cardinality(Counters) \in Nat
  BY CountersStep
<1>3. ASSUME Counters' = Counters, UNCHANGED numWorkers,
             mpc' \in {"start", "count"} <=> mpc \in {"start", "count"},
             \A w \in Workers : wpc'[w] = "store" => wpc[w] = "store" /\ reg'[w] = reg[w]
      PROVE  CountBound'
  BY <1>1, <1>3 DEF CountBound
<1>4. ASSUME NEW w \in Workers, StoreCount(w) PROVE CountBound'
  <2>1. mpc \notin {"start", "count"}
    BY <1>1, <1>4 DEF CountedAfterStore, CreatedInOrder, StoreCount, GoTo, Workers
  <2>2. Cardinality(Counters') = Cardinality(Counters) + 1
    BY <1>4, CountersStep
  <2>3. numWorkers' >= NumThreads - Cardinality(Counters')
    BY <1>1, <1>2, <1>4, <2>1, <2>2 DEF CountBound, StoreCount, GoTo, TypeOK
  <2>4. \A v \in Workers : wpc'[v] = "store" => wpc[v] = "store" /\ reg'[v] = reg[v]
    BY <1>1, <1>4 DEF TypeOK, StoreCount, GoTo
  <2>5. \A v \in Workers : wpc'[v] = "store" => reg'[v] >= NumThreads - Cardinality(Counters')
    <3>1. \A v \in Workers : reg[v] \in Int
      BY <1>1 DEF TypeOK
    <3> QED BY <1>1, <1>2, <2>1, <2>2, <2>4, <3>1 DEF CountBound
  <2> QED BY <2>3, <2>5 DEF CountBound
<1>5. ASSUME NEW w \in Workers, LoadCount(w) PROVE CountBound'
  <2>1. mpc \notin {"start", "count"}
    BY <1>1, <1>5 DEF CountedAfterStore, CreatedInOrder, LoadCount, GoTo, Workers
  <2>2. Counters' = Counters
    <3>1. \A v \in Workers : ~StoreCount(v)
      BY <1>1, <1>5 DEF TypeOK, LoadCount, StoreCount, GoTo
    <3> QED BY <3>1, CountersStep
  <2> QED BY <1>1, <1>5, <2>1, <2>2 DEF CountBound, LoadCount, GoTo, TypeOK, sharedVars
<1>6. CASE SetCount
  <2>1. Counters' = Counters /\ numWorkers' = NumThreads
    BY <1>6 DEF SetCount, workerVars, Counters, Counted
  <2>2. \A w \in Workers : wpc'[w] # "store"
    BY <1>1, <1>6 DEF SetCount, MainAt, workerVars, CountedAfterStore, CreatedInOrder, Workers
  <2> QED BY <1>1, <1>2, <2>1, <2>2 DEF CountBound
<1>7. CASE StartScheduler \/ AllCreated \/ CleanUp
  <2>1. /\ UNCHANGED <<wpc, turns, reg, numWorkers>>
        /\ mpc' \in {"start", "count"} <=> mpc \in {"start", "count"}
    BY <1>7 DEF StartScheduler, AllCreated, CleanUp, ExitError, MainAt, sharedVars, workerVars
  <2> QED BY <1>3, <2>1 DEF Counters, Counted
<1>8. CASE CreateWorker
  <2>1. UNCHANGED <<reg, numWorkers>> /\ mpc = "create" /\ mpc' = "create"
    BY <1>8 DEF CreateWorker, ExitError, MainAt, sharedVars
  <2>2. \A w \in Workers : wpc'[w] = "store" => wpc[w] = "store"
    BY <1>1, <1>8 DEF TypeOK, CreateWorker
  <2>3. Counters' = Counters
    <3>1. \A v \in Workers : ~StoreCount(v)
      BY <1>1, <1>8 DEF TypeOK, CreateWorker, StoreCount, GoTo
    <3> QED BY <3>1, CountersStep
  <2> QED BY <1>3, <2>1, <2>2, <2>3
<1>9. CASE SchedStep
  <2>1. UNCHANGED <<wpc, turns, reg, numWorkers, mpc>>
    BY <1>9 DEF SchedStep, WaitForQueue, CheckRemaining, PeekHead, TestRunning, Advance,
       WakeInsert, WakePost, WaitForWorker, sharedVars, workerVars, mainVars
  <2> QED BY <1>3, <2>1 DEF Counters, Counted
<1>10. ASSUME NEW w \in Workers,
              \/ EnterQueue(w) \/ WaitForCpu(w) \/ LeaveQueue(w) \/ ReleaseRunning(w)
              \/ RequeueOut(w) \/ RequeueIn(w) \/ ReleasePost(w) \/ UseFreed(w)
       PROVE  CountBound'
  <2>1. /\ UNCHANGED <<numWorkers, mpc>>
        /\ \A v \in Workers : wpc'[v] = "store" => wpc[v] = "store" /\ reg'[v] = reg[v]
    BY <1>1, <1>10 DEF TypeOK, EnterQueue, WaitForCpu, LeaveQueue, ReleaseRunning, RequeueOut,
       RequeueIn, ReleasePost, UseFreed, GoTo, sharedVars, workerVars, mainVars
  <2>2. \A v \in Workers : ~StoreCount(v)
    BY <1>1, <1>10 DEF TypeOK, EnterQueue, WaitForCpu, LeaveQueue, ReleaseRunning, RequeueOut,
       RequeueIn, ReleasePost, UseFreed, StoreCount, GoTo, workerVars
  <2>3. Counters' = Counters
    BY <2>2, CountersStep
  <2> QED BY <1>3, <2>1, <2>3
<1>11. CASE UNCHANGED vars
  BY <1>3, <1>11 DEF vars, sharedVars, workerVars, mainVars, Counters, Counted
<1> QED
  BY <1>4, <1>5, <1>6, <1>7, <1>8, <1>9, <1>10, <1>11 DEF Next, MainStep, WorkerStep, Rest

\* sched_proc returns only when the counter it reads is 0, and then CountBound
\* leaves no worker uncounted.
LEMMA DoneStep ==
    ASSUME CInv, [Next]_vars
    PROVE  NeverDoneEarly'
<1>1. TypeOK /\ TurnsFollowLoop /\ StartedByMain /\ CountBound /\ CountedAfterStore /\ NeverDoneEarly
  BY DEF CInv, IInv
<1>2. CASE spc = "done"
  <2>1. \A w \in Workers : Counted(w)
    BY <1>1, <1>2 DEF NeverDoneEarly
  <2>2. Counters = Workers /\ Counters' \subseteq Workers
    BY <2>1 DEF Counters
  <2>3. \A w \in Workers : ~StoreCount(w)
    <3>1. \A w \in Workers : wpc[w] # "store"
      <4>1. Iterations \in Nat
        BY ConstantsAssumption DEF ConstantsAssumption
      <4>2. ASSUME NEW w \in Workers, wpc[w] = "store" PROVE FALSE
        <5>1. turns[w] = Iterations
          BY <1>1, <4>2 DEF TurnsFollowLoop
        <5> QED BY <2>1, <4>1, <4>2, <5>1 DEF Counted
      <4> QED BY <4>2
    <3> QED BY <3>1 DEF StoreCount, GoTo
  <2>4. Counters' = Counters
    BY <2>3, CountersStep
  <2>5. \A w \in Workers : Counted(w)'
    BY <2>2, <2>4 DEF Counters
  <2> QED BY <2>5 DEF NeverDoneEarly
<1>3. CASE spc # "done" /\ spc' = "done"
  <2>1. CheckRemaining /\ numWorkers <= 0
    <3>1. CheckRemaining
      BY <1>1, <1>3 DEF StartedByMain, Next, MainStep, StartScheduler, SetCount, CreateWorker,
         AllCreated, CleanUp, SchedStep, WaitForQueue, PeekHead, TestRunning, Advance, WakeInsert,
         WakePost, WaitForWorker, WorkerStep, UseFreed, EnterQueue, WaitForCpu, LeaveQueue,
         LoadCount, StoreCount, ReleaseRunning, RequeueOut, RequeueIn, ReleasePost, Rest,
         NextWorkerFrom, vars, schedVars
    <3> QED BY <1>1, <1>3, <3>1 DEF CheckRemaining, TypeOK
  <2>2. mpc \notin {"start", "count"}
    BY <1>1, <2>1 DEF CountedAfterStore, CheckRemaining, SchedAt
  <2>3. 0 >= NumThreads - Cardinality(Counters) /\ NumThreads \in Nat
    BY <1>1, <2>1, <2>2, CountersStep, ConstantsAssumption DEF CountBound, TypeOK, ConstantsAssumption
  <2>4. IsFiniteSet(Workers) /\ Cardinality(Workers) = NumThreads
    BY <2>3, FS_Interval DEF Workers
  <2>5. Cardinality(Counters) <= NumThreads /\ Cardinality(Counters) \in Nat
    BY <2>4, FS_Subset, CountersStep DEF Counters
  <2>6. Cardinality(Counters) = Cardinality(Workers)
    BY <2>3, <2>4, <2>5
  <2>7. Counters = Workers
    BY <2>4, <2>6, FS_Subset DEF Counters
  <2>8. UNCHANGED <<wpc, turns>>
    BY <2>1 DEF CheckRemaining, workerVars
  <2> QED BY <2>7, <2>8 DEF NeverDoneEarly, Counters, Counted
<1>4. CASE spc' # "done"
  BY <1>4 DEF NeverDoneEarly
<1> QED BY <1>2, <1>3, <1>4

LEMMA CInvAlways == Spec => []CInv
<1>1. Init => CInv
  <2>1. Init => CountedAfterStore /\ CountBound /\ NeverDoneEarly
    BY DEF Init, CountedAfterStore, CountBound, NeverDoneEarly
  <2> QED BY <2>1, IInvInit DEF CInv
<1>2. CInv /\ [Next]_vars => CInv'
  <2>1. CInv /\ [Next]_vars => IInv'
    BY IInvStep DEF CInv
  <2> QED BY <2>1, StoreStep, CountStep, DoneStep DEF CInv
<1> QED BY <1>1, <1>2, PTL DEF Spec

\* Although two workers may both load num_workers_remaining before either stores
\* it, the scheduler never returns, and main never frees the arguments, before
\* every worker has counted itself: the race can only make it wait too long.
THEOREM DoneIsNeverEarly == Spec => []NeverDoneEarly
<1>1. CInv => NeverDoneEarly
  BY DEF CInv
<1> QED BY <1>1, CInvAlways, PTL

-----------------------------------------------------------------------------
(* One slot: what is then safe although the code takes no lock for it      *)

\* The worker on the CPU, from the wake-up it has taken to the token it posts.
Busy(w) == HasCpu(w) \/ GivingBack(w)

\* The counter is exact, and so is the copy of the worker that subtracts.
ExactCount ==
    mpc \notin {"start", "count"} =>
        /\ numWorkers = NumThreads - Cardinality(Counters)
        /\ \A w \in Workers : wpc[w] = "store" => reg[w] = numWorkers

\* The cursor of next_worker is on an element of the queue.
CursorListed == spc \in {"test", "advance"} => Contains(queue, cand)

JoinedBeforeEnd == mpc = "end" => spc = "done"

OneInv == CInv /\ JoinedBeforeEnd /\ (MaxRunning = 1 => ExactCount /\ CursorListed)

\* When all the slots are one, one worker at most has it or is giving it back.
LEMMA OneSlotUsed ==
    ASSUME IInv, Tokens + (IF SchedHoldsGrant THEN 1 ELSE 0) <= 1
    PROVE  /\ \A x, y \in Workers :
                 /\ ~(Contains(running, x) /\ GivingBack(y))
                 /\ Contains(running, x) /\ Contains(running, y) => x = y
                 /\ GivingBack(x) /\ GivingBack(y) => x = y
           /\ Tokens + (IF SchedHoldsGrant THEN 1 ELSE 0) = 0 =>
                 \A x \in Workers : ~Contains(running, x) /\ ~GivingBack(x)
<1>1. /\ running \in Seq(Workers) /\ Len(running) \in Nat /\ sqSem \in Nat /\ Tokens \in Nat
      /\ Len(running) + Cardinality(Givers) + sqSem = Tokens + IF SchedHoldsGrant THEN 1 ELSE 0
  BY ConstantsAssumption DEF IInv, TypeOK, ConstantsAssumption, Tokens, SlotAccounting, Givers
<1>2. IsFiniteSet(Workers)
  BY ConstantsAssumption, FS_Interval DEF ConstantsAssumption, Workers
<1>3. IsFiniteSet(Givers) /\ Cardinality(Givers) \in Nat
  BY <1>2, FS_Subset, FS_CardinalityType DEF Givers
<1>4. PICK r \in Nat, g \in Nat, u \in Nat :
         /\ r = Len(running) /\ g = Cardinality(Givers)
         /\ u = Tokens + (IF SchedHoldsGrant THEN 1 ELSE 0) /\ r + g <= u /\ u <= 1
  BY <1>1, <1>3
<1>5. ASSUME NEW x \in Workers, Contains(running, x) PROVE r >= 1
  <2>1. PICK j \in 1 .. Len(running) : running[j] = x
    BY <1>5 DEF Contains
  <2> QED BY <1>1, <1>4, <2>1
<1>6. ASSUME NEW x \in Workers, GivingBack(x) PROVE g >= 1
  <2>1. {x} \subseteq Givers
    BY <1>6 DEF Givers
  <2>2. Cardinality({x}) = 1 /\ Cardinality({x}) <= Cardinality(Givers)
    BY <1>3, <2>1, FS_Singleton, FS_Subset
  <2> QED BY <1>4, <2>2
<1>7. ASSUME NEW x \in Workers, NEW y \in Workers, Contains(running, x), Contains(running, y)
      PROVE  x = y
  <2>1. PICK j \in 1 .. Len(running), k \in 1 .. Len(running) : running[j] = x /\ running[k] = y
    BY <1>7 DEF Contains
  <2> QED BY <1>1, <1>4, <2>1
<1>8. ASSUME NEW x \in Workers, NEW y \in Workers, GivingBack(x), GivingBack(y)
      PROVE  x = y
  <2> SUFFICES ASSUME x # y PROVE FALSE
    OBVIOUS
  <2>1. PICK A : A = {x}
    OBVIOUS
  <2>2. PICK B : B = A \cup {y}
    OBVIOUS
  <2>3. IsFiniteSet(A) /\ Cardinality(A) = 1 /\ y \notin A
    BY <2>1, FS_Singleton
  <2>4. Cardinality(B) = 2
    BY <2>2, <2>3, FS_AddElement
  <2>5. B \subseteq Givers
    BY <1>8, <2>1, <2>2 DEF Givers
  <2>6. Cardinality(B) <= Cardinality(Givers)
    BY <1>3, <2>5, FS_Subset
  <2> QED BY <1>4, <2>4, <2>6
<1> QED BY <1>4, <1>5, <1>6, <1>7, <1>8

\* There is a slot more than tokens.
LEMMA MaxRunningType == MaxRunning \in Nat /\ MaxRunning >= 1 /\ Tokens = MaxRunning - 1
BY ConstantsAssumption DEF ConstantsAssumption, MaxRunning, Tokens

\* With one slot at most one worker is busy, and none while the scheduler thread
\* looks for the next one.
LEMMA OneBusy ==
    ASSUME IInv, MaxRunning = 1
    PROVE  /\ \A v, w \in Workers : Busy(v) /\ Busy(w) => v = w
           /\ ~SchedHoldsGrant => \A w \in Workers : ~Busy(w)
<1>1. /\ Tokens + (IF SchedHoldsGrant THEN 1 ELSE 0) <= 1
      /\ ~SchedHoldsGrant => Tokens + (IF SchedHoldsGrant THEN 1 ELSE 0) = 0
  BY MaxRunningType
<1>2. \A w \in Workers : Busy(w) => Contains(running, w) \/ GivingBack(w)
  BY DEF IInv, GrantAccounting, Busy
<1> QED BY <1>1, <1>2, OneSlotUsed

\* Every step keeps the counter exact: no other worker loads or stores it between
\* the load and the store of the one that is busy.
LEMMA ExactStep ==
    ASSUME OneInv, MaxRunning = 1, [Next]_vars
    PROVE  ExactCount'
<1>1. /\ TypeOK /\ CreatedInOrder /\ TurnsFollowLoop /\ CountedAfterStore /\ ExactCount
      /\ NumThreads \in Nat /\ Iterations \in Nat
  BY ConstantsAssumption DEF OneInv, CInv, IInv
<1>2. Cardinality(Counters) \in Nat
  BY CountersStep DEF OneInv
<1>3. \A v, w \in Workers : wpc[v] = "store" /\ wpc[w] = "store" => v = w
  BY OneBusy DEF OneInv, CInv, Busy, HasCpu
<1>4. ASSUME NEW w \in Workers, StoreCount(w) PROVE ExactCount'
  <2>1. mpc \notin {"start", "count"}
    BY <1>1, <1>4 DEF CountedAfterStore, CreatedInOrder, StoreCount, GoTo, Workers
  <2>2. Cardinality(Counters') = Cardinality(Counters) + 1
    BY <1>4, CountersStep DEF OneInv
  <2>3. numWorkers' = numWorkers - 1
    BY <1>1, <1>4, <2>1 DEF ExactCount, StoreCount, GoTo, TypeOK
  <2>4. \A v \in Workers : wpc'[v] # "store"
    BY <1>1, <1>3, <1>4 DEF TypeOK, StoreCount, GoTo
  <2> QED BY <1>1, <1>2, <2>1, <2>2, <2>3, <2>4 DEF ExactCount, TypeOK
<1>5. ASSUME \A w \in Workers : ~StoreCount(w), mpc \notin {"start", "count"}
      PROVE  ExactCount'
  <2>1. Counters' = Counters
    BY <1>5, CountersStep DEF OneInv
  <2>2. UNCHANGED numWorkers
    BY <1>1, <1>5 DEF Next, MainStep, StartScheduler, SetCount, CreateWorker,
        AllCreated,
       CleanUp, MainAt, SchedStep, WaitForQueue, CheckRemaining, PeekHead, TestRunning,
       Advance, WakeInsert, WakePost, WaitForWorker, WorkerStep, UseFreed, EnterQueue,
       WaitForCpu, LeaveQueue, LoadCount, ReleaseRunning, RequeueOut, RequeueIn,
       ReleasePost, Rest, vars, sharedVars
  <2>3. \A w \in Workers : wpc'[w] = "store" => reg'[w] = numWorkers
    <3>1. ASSUME NEW v \in Workers, LoadCount(v), NEW w \in Workers, wpc'[w] = "store"
          PROVE  reg'[w] = numWorkers
      BY <1>1, <1>5, <3>1 DEF ExactCount, TypeOK, LoadCount, GoTo
    <3>2. ASSUME \A v \in Workers : ~LoadCount(v), NEW w \in Workers, wpc'[w] = "store"
          PROVE  wpc[w] = "store" /\ reg'[w] = reg[w]
      BY <1>1, <1>5, <3>2 DEF TypeOK, Next, MainStep, StartScheduler, SetCount,
          CreateWorker,
         AllCreated, CleanUp, SchedStep, WaitForQueue, CheckRemaining, PeekHead,
         TestRunning, Advance, WakeInsert, WakePost, WaitForWorker, WorkerStep, UseFreed,
         EnterQueue, WaitForCpu, LeaveQueue, ReleaseRunning, RequeueOut, RequeueIn,
         ReleasePost, GoTo, Rest, vars, workerVars
    <3> QED BY <1>1, <1>5, <3>1, <3>2 DEF ExactCount
  <2> QED BY <1>1, <1>5, <2>1, <2>2, <2>3 DEF ExactCount
<1>6. ASSUME \A w \in Workers : ~StoreCount(w), mpc \in {"start", "count"}
      PROVE  ExactCount'
  <2>1. Counters' = Counters
    BY <1>6, CountersStep DEF OneInv
  <2>2. \A w \in Workers : wpc[w] = "none" /\ turns[w] = 0
    BY <1>1, <1>6 DEF CountedAfterStore, CreatedInOrder, TurnsFollowLoop, Workers
  <2>3. Counters = {}
    BY <1>1, <2>2 DEF Counters, Counted
  <2>4. CASE SetCount
    <3>1. \A w \in Workers : wpc'[w] # "store"
      BY <2>2, <2>4 DEF SetCount, workerVars
    <3>2. numWorkers' = NumThreads
      BY <2>4 DEF SetCount
    <3> QED BY <1>1, <2>1, <2>3, <3>1, <3>2, FS_EmptySet DEF ExactCount
  <2>5. CASE ~SetCount
    <3>1. \A w \in Workers : ~WorkerStep(w) /\ ~UseFreed(w)
      BY <2>2 DEF WorkerStep, UseFreed, EnterQueue, WaitForCpu, LeaveQueue, LoadCount,
         StoreCount, ReleaseRunning, RequeueOut, RequeueIn, ReleasePost, GoTo, Releasing
    <3>2. mpc' \in {"start", "count"}
      BY <1>6, <2>5, <3>1 DEF Next, MainStep, StartScheduler, CreateWorker, AllCreated,
         CleanUp, MainAt, ExitError, SchedStep, WaitForQueue, CheckRemaining, PeekHead,
         TestRunning, Advance, WakeInsert, WakePost, WaitForWorker, Rest, vars, mainVars
    <3> QED BY <3>2 DEF ExactCount
  <2> QED BY <2>4, <2>5
<1> QED BY <1>4, <1>5, <1>6

\* elt->next of an element of the queue is NULL or an element of the queue.
LEMMA SuccessorListed ==
    ASSUME queue \in Seq(Workers), NEW w, Contains(queue, w), Successor(w) # NoWorker
    PROVE  Contains(queue, Successor(w))
<1> DEFINE i == CHOOSE j \in DOMAIN queue : queue[j] = w
<1>1. i \in 1 .. Len(queue) /\ Len(queue) \in Nat
  BY DEF Contains
<1> HIDE DEF i
<1>2. Successor(w) = IF i = Len(queue) THEN NoWorker ELSE queue[i + 1]
  BY DEF Successor, i
<1>3. i # Len(queue)
  BY <1>2
<1>4. i + 1 \in 1 .. Len(queue)
  BY <1>1, <1>3
<1> QED BY <1>2, <1>3, <1>4 DEF Contains

\* No step takes the element under the cursor out of the queue: only a busy worker
\* does, and there is none while the scheduler thread searches.
LEMMA CursorStep ==
    ASSUME OneInv, MaxRunning = 1, [Next]_vars
    PROVE  CursorListed'
<1>1. TypeOK /\ queue \in Seq(Workers) /\ CursorListed
  BY DEF OneInv, CInv, IInv, TypeOK
<1>2. ASSUME UNCHANGED <<queue, cand>>, spc' \in {"test", "advance"} => spc \in {"test", "advance"}
      PROVE  CursorListed'
  BY <1>1, <1>2 DEF CursorListed
<1>3. CASE PeekHead
  BY <1>1, <1>3 DEF PeekHead, NextWorkerFrom, sharedVars, CursorListed, Contains
<1>4. CASE Advance
  <2>1. spc' = "test" => cand' = Successor(cand) /\ cand' # NoWorker
    BY <1>1, <1>4 DEF CursorListed, Advance, SchedAt, NextWorkerFrom
  <2>2. Contains(queue, cand) /\ UNCHANGED queue
    BY <1>1, <1>4 DEF CursorListed, Advance, SchedAt, sharedVars
  <2>3. spc' # "advance"
    BY <1>1, <1>4, <2>2 DEF Advance, NextWorkerFrom
  <2> QED BY <1>1, <2>1, <2>2, <2>3, SuccessorListed DEF CursorListed
<1>5. CASE \/ MainStep \/ WaitForQueue \/ CheckRemaining \/ TestRunning \/ WakeInsert
           \/ WakePost \/ WaitForWorker \/ UNCHANGED vars
  <2>1. UNCHANGED <<queue, cand>> /\ (spc' \in {"test", "advance"} => spc \in {"test", "advance"})
    BY <1>5 DEF MainStep, StartScheduler, SetCount, CreateWorker, AllCreated, CleanUp,
       SchedAt, WaitForQueue, CheckRemaining, TestRunning, WakeInsert, WakePost,
       WaitForWorker, vars, sharedVars, schedVars
  <2> QED BY <1>2, <2>1
<1>6. ASSUME NEW w \in Workers, WorkerStep(w) \/ UseFreed(w) PROVE CursorListed'
  <2> SUFFICES ASSUME spc' \in {"test", "advance"} PROVE Contains(queue', cand')
    BY DEF CursorListed
  <2>1. UNCHANGED <<spc, cand>>
    BY <1>6 DEF WorkerStep, UseFreed, EnterQueue, WaitForCpu, LeaveQueue, LoadCount,
       StoreCount, ReleaseRunning, RequeueOut, RequeueIn, ReleasePost, schedVars
  <2>2. Contains(queue, cand) /\ ~SchedHoldsGrant
    BY <1>1, <2>1 DEF CursorListed, SchedHoldsGrant
  <2>3. ~Busy(w)
    BY <2>2, OneBusy DEF OneInv, CInv
  <2>4. CASE EnterQueue(w)
    BY <1>1, <2>1, <2>2, <2>4 DEF EnterQueue, Contains
  <2>5. CASE ~EnterQueue(w)
    <3>1. UNCHANGED queue
      BY <1>6, <2>3, <2>5 DEF Busy, HasCpu, GivingBack, WorkerStep, UseFreed,
          WaitForCpu,
         LeaveQueue, LoadCount, StoreCount, ReleaseRunning, RequeueOut, RequeueIn,
         ReleasePost, GoTo, sharedVars
    <3> QED BY <2>1, <2>2, <3>1
  <2> QED BY <2>4, <2>5
<1> QED BY <1>3, <1>4, <1>5, <1>6 DEF Next, SchedStep, Rest

LEMMA OneInvAlways == Spec => []OneInv
<1>1. Init => JoinedBeforeEnd /\ ExactCount /\ CursorListed
  BY DEF Init, JoinedBeforeEnd, ExactCount, CursorListed
<1>2. ASSUME OneInv, [Next]_vars PROVE JoinedBeforeEnd'
  <2>1. JoinedBeforeEnd /\ StartedByMain
    BY <1>2 DEF OneInv, CInv, IInv
  <2>2. CASE MainStep
    BY <2>1, <2>2 DEF JoinedBeforeEnd, MainStep, StartScheduler, SetCount, CreateWorker,
       AllCreated, CleanUp, MainAt, ExitError, schedVars
  <2>3. CASE SchedStep
    BY <2>1, <2>3 DEF JoinedBeforeEnd, SchedStep, WaitForQueue, CheckRemaining,
        PeekHead,
       TestRunning, Advance, WakeInsert, WakePost, WaitForWorker, SchedAt, mainVars
  <2>4. ASSUME NEW w \in Workers, WorkerStep(w) \/ UseFreed(w) PROVE JoinedBeforeEnd'
    BY <2>1, <2>4 DEF JoinedBeforeEnd, WorkerStep, UseFreed, EnterQueue, WaitForCpu,
       LeaveQueue, LoadCount, StoreCount, ReleaseRunning, RequeueOut, RequeueIn,
       ReleasePost, schedVars, mainVars
  <2>5. CASE UNCHANGED vars
    BY <2>1, <2>5 DEF JoinedBeforeEnd, vars, schedVars, mainVars
  <2> QED BY <1>2, <2>2, <2>3, <2>4, <2>5 DEF Next, Rest
<1>3. MaxRunning' = MaxRunning
  BY DEF MaxRunning, Tokens
<1>4. CInv /\ CInv' /\ OneInv /\ [Next]_vars => OneInv'
  BY <1>2, <1>3, ExactStep, CursorStep DEF OneInv
<1>5. CInv /\ Init => OneInv
  BY <1>1 DEF OneInv
<1> QED BY <1>4, <1>5, CInvAlways, PTL DEF Spec

\* With one slot no decrement of num_workers_remaining is lost, although it is
\* loaded and stored with no lock.
THEOREM CountIsExact == Spec => []CountExact
<1>1. OneInv => CountExact
  BY DEF OneInv, ExactCount, CountExact, Counters
<1> QED BY <1>1, OneInvAlways, PTL

\* With one slot the scheduler thread returns after the last worker.
LEMMA DoneWorkers ==
    ASSUME OneInv, MaxRunning = 1, spc = "done", NEW w \in Workers
    PROVE  wpc[w] = "done"
<1>1. Counted(w) /\ wpc[w] \in WorkerPc
  BY DEF OneInv, CInv, NeverDoneEarly, IInv, TypeOK
<1>2. ~Busy(w)
  BY OneBusy DEF OneInv, CInv, SchedHoldsGrant
<1>3. turns[w] > Iterations
  BY <1>1, <1>2 DEF Busy, HasCpu, Counted
<1>4. turns[w] \in Nat /\ Iterations \in Nat
  BY ConstantsAssumption DEF ConstantsAssumption, OneInv, CInv, IInv, TypeOK
<1>5. wpc[w] \notin {"none", "enter", "wait"}
  BY <1>3, <1>4 DEF OneInv, CInv, IInv, TurnsFollowLoop
<1> QED BY <1>1, <1>2, <1>5 DEF Busy, HasCpu, GivingBack, WorkerPc

\* With one slot next_worker follows no freed element, although it takes no lock for
\* elt->next, and clean_up frees nothing a worker still uses, although nobody joins
\* the workers.
THEOREM NothingFreed == Spec => []NothingFreedInUse
<1>1. ASSUME OneInv, MaxRunning = 1, mpc = "end", NEW w \in Workers PROVE wpc[w] = "done"
  BY <1>1, DoneWorkers DEF OneInv, JoinedBeforeEnd
<1>2. OneInv => NothingFreedInUse
  BY <1>1 DEF OneInv, CursorListed, NothingFreedInUse
<1> QED BY <1>2, OneInvAlways, PTL

-----------------------------------------------------------------------------
(* FIFO with one slot is a line                                            *)

\* The worker that has the slot, or that the scheduler is about to give it to, is
\* the head of the queue until it leaves, or until round robin moves it to the tail.
AtHead(w) ==
    \/ Contains(running, w) /\ wpc[w] \in {"none", "enter", "wait", "work", "leave"}
    \/ wpc[w] = "requeue_out" /\ turns[w] <= Iterations
HeadServed ==
    /\ \A w \in Workers : AtHead(w) => queue # <<>> /\ Head(queue) = w
    /\ spc \in {"test", "insert"} => queue # <<>> /\ Head(queue) = cand
    /\ spc # "advance"
    /\ Policy = "fifo" => \A w \in Workers : wpc[w] \notin {"requeue_out", "requeue_in"}

\* With one slot running lists one worker at most, none while the search is on,
\* and nobody that is giving the slot back.
LEMMA OneListed ==
    ASSUME IInv, MaxRunning = 1
    PROVE  /\ \A x, y \in Workers : Contains(running, x) /\ Contains(running, y) => x = y
           /\ \A x, y \in Workers : ~(Contains(running, x) /\ GivingBack(y))
           /\ \A x, y \in Workers : GivingBack(x) /\ GivingBack(y) => x = y
           /\ spc \in {"test", "advance", "insert"} =>
                 \A x \in Workers : ~Contains(running, x) /\ ~Busy(x)
<1>1. /\ Tokens + (IF SchedHoldsGrant THEN 1 ELSE 0) <= 1
      /\ ~SchedHoldsGrant => Tokens + (IF SchedHoldsGrant THEN 1 ELSE 0) = 0
  BY MaxRunningType
<1>2. spc \in {"test", "advance", "insert"} => ~SchedHoldsGrant
  BY DEF SchedHoldsGrant
<1>3. \A w \in Workers : HasCpu(w) => Contains(running, w)
  BY DEF IInv, GrantAccounting
<1> QED BY <1>1, <1>2, <1>3, OneSlotUsed DEF Busy

\* The head of a list goes: its tail is left.
LEMMA RemoveHead ==
    ASSUME NEW s \in Seq(Workers), IsInjective(s), s # <<>>
    PROVE  RemoveFirst(s, Head(s)) = Tail(s)
<1>1. PICK t, h : t = RemoveFirst(s, Head(s)) /\ h = Head(s) /\ t = RemoveFirst(s, h)
  OBVIOUS
<1>2. 1 \in 1 .. Len(s) /\ s[1] = h
  BY <1>1
<1>3. Contains(s, h)
  BY <1>2 DEF Contains
<1>4. /\ t \in Seq(Workers) /\ Len(t) = Len(s) - 1
      /\ \A j \in 1 .. Len(s) - 1 : t[j] = s[j + 1]
  <2>1. /\ t \in Seq(Workers) /\ Len(t) = Len(s) - 1
        /\ \A j \in 1 .. Len(s) - 1 : t[j] = IF j < 1 THEN s[j] ELSE s[j + 1]
    BY <1>1, <1>2, <1>3, RemoveFirstProperties
  <2> QED BY <2>1
<1>5. /\ Tail(s) \in Seq(Workers) /\ Len(Tail(s)) = Len(s) - 1
      /\ \A j \in 1 .. Len(s) - 1 : Tail(s)[j] = s[j + 1]
  OBVIOUS
<1>6. t = Tail(s)
  BY <1>4, <1>5, SeqEqual
<1> QED BY <1>1, <1>6

\* Every step keeps it: only the head is woken, and only the woken worker leaves.
LEMMA HeadServedStep ==
    ASSUME MaxRunning = 1, IInv, HeadServed, [Next]_vars
    PROVE  HeadServed'
<1>1. /\ wpc \in [Workers -> WorkerPc] /\ queue \in Seq(Workers) /\ running \in Seq(Workers)
      /\ turns \in [Workers -> Nat] /\ Iterations \in Nat
      /\ IsInjective(queue) /\ IsInjective(running)
  BY ConstantsAssumption
     DEF ConstantsAssumption, IInv, TypeOK, WaitersStayQueued, GrantAccounting
<1>2. /\ \A x, y \in Workers : Contains(running, x) /\ Contains(running, y) => x = y
      /\ \A x, y \in Workers : ~(Contains(running, x) /\ GivingBack(y))
      /\ \A x, y \in Workers : GivingBack(x) /\ GivingBack(y) => x = y
      /\ spc \in {"test", "advance", "insert"} =>
            \A x \in Workers : ~Contains(running, x) /\ ~Busy(x)
  BY OneListed
<1>3. CASE UNCHANGED <<queue, running, wpc, turns, spc, cand>>
  BY <1>3 DEF HeadServed, AtHead
<1>4. CASE \/ StartScheduler \/ WaitForQueue \/ CheckRemaining \/ WakePost \/ WaitForWorker
  <2>1. /\ UNCHANGED <<queue, running, wpc, turns>>
        /\ UNCHANGED <<spc, cand>> \/ spc' \notin {"test", "advance", "insert"}
    BY <1>4 DEF StartScheduler, WaitForQueue, CheckRemaining, WakePost, WaitForWorker,
       sharedVars, schedVars, workerVars
  <2> QED BY <2>1 DEF HeadServed, AtHead
<1>5. CASE PeekHead
  <2>1. /\ UNCHANGED <<queue, running, wpc, turns>> /\ spc' # "advance"
        /\ spc' \in {"test", "insert"} => queue # <<>> /\ Head(queue) = cand'
    BY <1>5 DEF PeekHead, NextWorkerFrom, sharedVars, workerVars
  <2> QED BY <2>1 DEF HeadServed, AtHead
<1>6. CASE TestRunning
  <2>1. UNCHANGED <<queue, running, wpc, turns, cand>> /\ spc = "test" /\ cand \in Workers
    BY <1>6 DEF TestRunning, SchedAt, sharedVars, workerVars, IInv, TypeOK
  <2>2. spc' = "insert"
    BY <1>2, <1>6, <2>1 DEF TestRunning
  <2> QED BY <2>1, <2>2 DEF HeadServed, AtHead
<1>7. CASE Advance
  BY <1>7 DEF Advance, SchedAt, HeadServed
<1>8. CASE WakeInsert
  <2>1. /\ UNCHANGED <<queue, wpc, turns>> /\ spc = "insert" /\ spc' = "post" /\ cand \in Workers
        /\ running' = Append(running, cand) /\ ~Contains(running, cand)
    BY <1>8 DEF WakeInsert, SchedAt, workerVars, IInv, TypeOK, WakesTheIdle
  <2>2. \A x : Contains(running', x) => Contains(running, x) \/ x = cand
    BY <1>1, <2>1, InsertTailProperties
  <2> QED BY <2>1, <2>2 DEF HeadServed, AtHead
<1>9. CASE SetCount \/ AllCreated \/ CleanUp
  BY <1>3, <1>9 DEF SetCount, AllCreated, CleanUp, schedVars, sharedVars, workerVars
<1>10. CASE CreateWorker
  <2>1. UNCHANGED <<queue, running, turns, spc, cand>>
    BY <1>10 DEF CreateWorker, sharedVars, schedVars
  <2>2. CASE UNCHANGED wpc
    BY <1>3, <2>1, <2>2
  <2>3. CASE created < NumThreads /\ wpc' = [wpc EXCEPT ![created + 1] = "enter"]
    <3>1. created + 1 \in Workers /\ wpc[created + 1] = "none"
      BY <2>3, ConstantsAssumption
         DEF IInv, TypeOK, Workers, ConstantsAssumption, CreatedInOrder
    <3> QED BY <1>1, <2>1, <2>3, <3>1 DEF HeadServed, AtHead
  <2> QED BY <1>10, <2>2, <2>3 DEF CreateWorker, ExitError
<1>11. ASSUME NEW x \in Workers, EnterQueue(x) PROVE HeadServed'
  <2>1. /\ queue' = Append(queue, x) /\ UNCHANGED <<running, turns, spc, cand>>
        /\ wpc[x] = "enter" /\ wpc'[x] = "wait" /\ \A z \in Workers : z # x => wpc'[z] = wpc[z]
    BY <1>1, <1>11 DEF EnterQueue, GoTo, schedVars
  <2>2. queue # <<>> => queue' # <<>> /\ Head(queue') = Head(queue)
    BY <1>1, <2>1
  <2> QED BY <2>1, <2>2 DEF HeadServed, AtHead
<1>12. ASSUME NEW x \in Workers, LeaveQueue(x) PROVE HeadServed'
  <2>1. /\ UNCHANGED <<running, turns, spc, cand>> /\ wpc[x] = "leave" /\ wpc'[x] = "load"
        /\ \A z \in Workers : z # x => wpc'[z] = wpc[z]
    BY <1>1, <1>12 DEF LeaveQueue, GoTo, schedVars
  <2>2. Contains(running, x) /\ spc \notin {"test", "insert"}
    BY <1>2, <2>1 DEF IInv, GrantAccounting, HasCpu, Busy
  <2>3. \A z \in Workers : z # x => ~Contains(running', z) /\ wpc'[z] # "requeue_out"
    BY <1>2, <2>1, <2>2 DEF GivingBack
  <2> QED BY <2>1, <2>2, <2>3 DEF HeadServed, AtHead
<1>13. ASSUME NEW x \in Workers, WaitForCpu(x) \/ LoadCount(x) \/ StoreCount(x) PROVE HeadServed'
  <2>1. /\ UNCHANGED <<queue, running, turns, spc, cand>>
        /\ wpc[x] = "wait" \/ wpc'[x] \in {"store", "release"}
        /\ wpc'[x] \notin {"requeue_out", "requeue_in"}
        /\ \A z \in Workers : z # x => wpc'[z] = wpc[z]
    BY <1>1, <1>13 DEF WaitForCpu, LoadCount, StoreCount, GoTo, sharedVars, schedVars
  <2> QED BY <2>1 DEF HeadServed, AtHead
<1>14. ASSUME NEW x \in Workers, ReleaseRunning(x) PROVE HeadServed'
  <2>1. /\ UNCHANGED <<queue, spc, cand>> /\ wpc[x] \in {"work", "release"}
        /\ wpc'[x] = IF Policy = "rr" THEN "requeue_out" ELSE "post"
        /\ turns'[x] = turns[x] + 1
        /\ \A z \in Workers : z # x => wpc'[z] = wpc[z] /\ turns'[z] = turns[z]
    BY <1>1, <1>14 DEF ReleaseRunning, GoTo, schedVars
  <2>2. \A z : Contains(running', z) => Contains(running, z)
    BY <1>1, <1>14, RemoveFirstProperties DEF ReleaseRunning
  <2>3. Contains(running, x)
    BY <2>1 DEF IInv, GrantAccounting, HasCpu
  <2>4. wpc[x] = "release" => ~(turns'[x] <= Iterations)
    BY <1>1, <2>1 DEF IInv, TurnsFollowLoop
  <2>5. AtHead(x)' => AtHead(x)
    BY <2>1, <2>3, <2>4 DEF AtHead
  <2>6. \A z \in Workers : z # x /\ AtHead(z)' => AtHead(z)
    BY <2>1, <2>2 DEF AtHead
  <2>7. Policy = "fifo" => wpc'[x] = "post"
    BY <2>1
  <2> QED BY <2>1, <2>5, <2>6, <2>7 DEF HeadServed
<1>15. ASSUME NEW x \in Workers, ReleasePost(x) PROVE HeadServed'
  <2>1. /\ UNCHANGED <<queue, running, turns, spc, cand>> /\ wpc[x] = "post"
        /\ wpc'[x] \in {"done", "wait"} /\ \A z \in Workers : z # x => wpc'[z] = wpc[z]
    BY <1>1, <1>15 DEF ReleasePost, GoTo, schedVars
  <2>2. ~Contains(running, x)
    BY <1>2, <2>1 DEF GivingBack
  <2> QED BY <2>1, <2>2 DEF HeadServed, AtHead
<1>16. ASSUME NEW x \in Workers, RequeueOut(x) \/ RequeueIn(x) PROVE HeadServed'
  <2>1. /\ UNCHANGED <<running, turns, spc, cand>> /\ wpc[x] \in {"requeue_out", "requeue_in"}
        /\ wpc'[x] \in {"requeue_in", "post"} /\ \A z \in Workers : z # x => wpc'[z] = wpc[z]
    BY <1>1, <1>16 DEF RequeueOut, RequeueIn, GoTo, schedVars
  <2>2. GivingBack(x) /\ Policy # "fifo" /\ spc \notin {"test", "insert"}
    BY <1>2, <2>1 DEF GivingBack, Busy, HeadServed
  <2>3. \A z \in Workers : ~AtHead(z)'
    BY <1>2, <2>1, <2>2 DEF AtHead, GivingBack
  <2> QED BY <2>1, <2>2, <2>3 DEF HeadServed
<1>17. ASSUME NEW x \in Workers, UseFreed(x) PROVE HeadServed'
  BY <1>3, <1>17 DEF UseFreed, sharedVars, schedVars, workerVars
<1>18. CASE UNCHANGED vars
  BY <1>3, <1>18 DEF vars, sharedVars, schedVars, workerVars
<1> QED BY <1>4, <1>5, <1>6, <1>7, <1>8, <1>9, <1>10, <1>11, <1>12, <1>13, <1>14, <1>15, <1>16,
           <1>17, <1>18 DEF Next, MainStep, SchedStep, WorkerStep, Rest

\* The line and the slices of FifoServer.
Slices == [w \in Workers |-> Served(w)]

\* A step that changes nobody's pc or turns but for a worker served as before.
LEMMA SlicesKept ==
    ASSUME \A w \in Workers : Served(w)' = Served(w)
    PROVE  Slices' = Slices
BY DEF Slices

\* Every step arrives, serves the head a slice, lets it leave, or stutters.
LEMMA LineStep ==
    ASSUME Policy = "fifo", MaxRunning = 1, IInv, HeadServed, [Next]_vars
    PROVE  [Line!Next]_<<queue, Slices>>
<1>1. /\ wpc \in [Workers -> WorkerPc] /\ turns \in [Workers -> Nat]
      /\ queue \in Seq(Workers) /\ IsInjective(queue) /\ TurnsFollowLoop
  BY DEF IInv, TypeOK, WaitersStayQueued
<1>2. CASE UNCHANGED <<queue, wpc, turns>>
  <2>1. \A w \in Workers : Served(w)' = Served(w)
    BY <1>2 DEF Served
  <2> QED BY <1>2, <2>1, SlicesKept
<1>3. CASE SchedStep
  BY <1>2, <1>3 DEF SchedStep, WaitForQueue, CheckRemaining, PeekHead, TestRunning, Advance,
     WakeInsert, WakePost, WaitForWorker, sharedVars, workerVars
<1>4. CASE StartScheduler \/ SetCount \/ AllCreated \/ CleanUp \/ UNCHANGED vars
  BY <1>2, <1>4 DEF StartScheduler, SetCount, AllCreated, CleanUp, ExitError, vars, sharedVars,
     workerVars
<1>5. CASE CreateWorker
  <2>1. UNCHANGED <<queue, turns>>
    BY <1>5 DEF CreateWorker, sharedVars
  <2>2. CASE UNCHANGED wpc
    BY <1>2, <2>1, <2>2
  <2>3. CASE created < NumThreads /\ wpc' = [wpc EXCEPT ![created + 1] = "enter"]
    <3>1. created + 1 \in Workers /\ wpc[created + 1] = "none"
      BY <2>3, ConstantsAssumption
         DEF IInv, TypeOK, Workers, ConstantsAssumption, CreatedInOrder
    <3>2. \A w \in Workers : Served(w)' = Served(w)
      BY <1>1, <2>1, <2>3, <3>1 DEF Served
    <3> QED BY <2>1, <3>2, SlicesKept
  <2> QED BY <1>5, <2>2, <2>3 DEF CreateWorker, ExitError
<1>6. ASSUME NEW x \in Workers, EnterQueue(x) PROVE Line!Arrive(x) /\ Slices' = Slices
  <2>1. /\ queue' = Append(queue, x) /\ UNCHANGED turns
        /\ wpc[x] = "enter" /\ wpc'[x] = "wait" /\ \A z \in Workers : z # x => wpc'[z] = wpc[z]
    BY <1>1, <1>6 DEF EnterQueue, GoTo
  <2>2. turns[x] = 0 /\ ~Contains(queue, x)
    BY <1>1, <2>1 DEF TurnsFollowLoop, IInv, EnterersAreOut
  <2>3. \A w \in Workers : Served(w)' = Served(w)
    BY <1>1, <2>1, <2>2 DEF Served
  <2>4. Served(x) = 0
    BY <2>1 DEF Served
  <2>5. x \notin Line!Range(queue)
    BY <2>2 DEF Line!Range, Contains
  <2> QED BY <2>1, <2>3, <2>4, <2>5, SlicesKept DEF Line!Arrive, Slices
<1>7. ASSUME NEW x \in Workers, LeaveQueue(x) PROVE Line!Leave(x)
  <2>1. /\ queue' = RemoveFirst(queue, x) /\ UNCHANGED turns
        /\ wpc[x] = "leave" /\ wpc'[x] = "load" /\ \A z \in Workers : z # x => wpc'[z] = wpc[z]
    BY <1>1, <1>7 DEF LeaveQueue, GoTo
  <2>2. queue # <<>> /\ Head(queue) = x
    BY <2>1 DEF IInv, GrantAccounting, HasCpu, HeadServed, AtHead
  <2>3. queue' = Tail(queue)
    BY <1>1, <2>1, <2>2, RemoveHead
  <2>4. Served(x) = Iterations /\ Served(x)' = Iterations + 1
    BY <1>1, <2>1 DEF Served, TurnsFollowLoop
  <2>5. \A w \in Workers : w # x => Served(w)' = Served(w)
    BY <2>1 DEF Served
  <2>6. Slices' = [Slices EXCEPT ![x] = Iterations + 1]
    BY <2>4, <2>5 DEF Slices
  <2> QED BY <2>2, <2>3, <2>4, <2>6 DEF Line!Leave, Slices
<1>8. ASSUME NEW x \in Workers, ReleaseRunning(x)
      PROVE  Line!Slice(x) \/ UNCHANGED <<queue, Slices>>
  <2>1. /\ UNCHANGED queue /\ wpc[x] \in {"work", "release"} /\ wpc'[x] = "post"
        /\ turns'[x] = turns[x] + 1
        /\ \A z \in Workers : z # x => wpc'[z] = wpc[z] /\ turns'[z] = turns[z]
    BY <1>1, <1>8 DEF ReleaseRunning, GoTo
  <2>2. \A w \in Workers : w # x => Served(w)' = Served(w)
    BY <2>1 DEF Served
  <2>3. CASE wpc[x] = "work"
    <3>1. queue # <<>> /\ Head(queue) = x
      BY <2>3 DEF IInv, GrantAccounting, HasCpu, HeadServed, AtHead
    <3>2. Served(x) = turns[x] /\ Served(x)' = turns[x] + 1 /\ turns[x] < Iterations
      BY <1>1, <2>1, <2>3 DEF Served, TurnsFollowLoop
    <3>3. Slices' = [Slices EXCEPT ![x] = @ + 1]
      BY <2>2, <3>2 DEF Slices
    <3> QED BY <2>1, <3>1, <3>2, <3>3 DEF Line!Slice, Slices
  <2>4. CASE wpc[x] = "release"
    <3>1. Served(x)' = Served(x)
      BY <1>1, <2>1, <2>4 DEF Served, TurnsFollowLoop
    <3> QED BY <2>1, <2>2, <3>1, SlicesKept
  <2> QED BY <2>1, <2>3, <2>4
<1>9. ASSUME NEW x \in Workers, WaitForCpu(x) \/ LoadCount(x) \/ StoreCount(x) \/ ReleasePost(x)
      PROVE  UNCHANGED <<queue, Slices>>
  <2>1. UNCHANGED <<queue, turns>>
    BY <1>9 DEF WaitForCpu, LoadCount, StoreCount, ReleasePost, sharedVars
  <2>2. \A w \in Workers : Served(w)' = Served(w)
    BY <1>1, <1>9, <2>1 DEF Served, WaitForCpu, LoadCount, StoreCount, ReleasePost, GoTo
  <2> QED BY <2>1, <2>2, SlicesKept
<1>10. ASSUME NEW x \in Workers, RequeueOut(x) \/ RequeueIn(x) PROVE FALSE
  BY <1>10 DEF RequeueOut, RequeueIn, GoTo, HeadServed
<1>11. ASSUME NEW x \in Workers, UseFreed(x) PROVE UNCHANGED <<queue, wpc, turns>>
  BY <1>11 DEF UseFreed, sharedVars, workerVars
<1>12. (\E x \in Workers : WorkerStep(x) \/ UseFreed(x)) => [Line!Next]_<<queue, Slices>>
  BY <1>2, <1>6, <1>7, <1>8, <1>9, <1>10, <1>11 DEF WorkerStep, Line!Next
<1> QED BY <1>3, <1>4, <1>5, <1>12 DEF Next, MainStep, Rest

\* FIFO with one slot serves its workers strictly in the order in which they entered
\* the queue, each for all of its iterations, whatever the threads' speeds.
THEOREM FifoIsALine ==
    ASSUME Policy = "fifo", MaxRunning = 1
    PROVE  Spec => LineSafety
<1>1. Init => HeadServed
  BY DEF Init, HeadServed, AtHead, Contains
<1>2. Init => Line!Init
  BY DEF Init, Line!Init, Served
<1>3. IInv /\ HeadServed /\ [Next]_vars => HeadServed'
  BY HeadServedStep
<1>4. IInv /\ HeadServed /\ [Next]_vars => [Line!Next]_<<queue, Slices>>
  BY LineStep
<1>5. Slices = [w \in Workers |-> Served(w)]
  BY DEF Slices
<1> QED BY <1>1, <1>2, <1>3, <1>4, IInvAlways, PTL DEF Spec, LineSafety, Line!Spec, Line!vars, Slices
=============================================================================
