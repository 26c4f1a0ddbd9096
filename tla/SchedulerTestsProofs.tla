------------------------- MODULE SchedulerTestsProofs ------------------------
(***************************************************************************)
(* Theorems about SchedulerTests for every number of threads and every     *)
(* number of iterations, whatever the order in which the lines are         *)
(* printed: what decides check_rudimentary of a run that ends, and, with   *)
(* one slot, the tests of the two policies.                                *)
(***************************************************************************)
EXTENDS SchedulerTests, SchedulerProofs

-----------------------------------------------------------------------------
(* The lines and the threads                                               *)

Lines == [by : Printers, says : {"nothing", "queued", "loop", "exiting", "done", "waiting"},
          loop : Nat]

\* The line a thread owes says where it is in its procedure.
OwedFollowsLoop ==
    /\ owed \in [Printers -> Lines]
    /\ \A w \in Workers :
          \/ owed[w] = Silent
          \/ wpc[w] = "wait" /\ turns[w] = 0 /\ owed[w] = Said(w, "queued", 0)
          \/ wpc[w] = "work" /\ owed[w] = Said(w, "loop", turns[w])
          \/ wpc[w] = "leave" /\ owed[w] = Said(w, "exiting", 0)
    /\ \/ owed[Sched] = Silent
       \/ spc = "done" /\ owed[Sched] = Said(Sched, "done", 0)
    /\ owed[Main] \in {Silent, Said(Main, "waiting", 0)}

\* The workers that have printed that they are in the queue, and those that have
\* printed that they are exiting.
Admitted(w) == wpc[w] \notin {"none", "enter"} /\ owed[w].says # "queued"
Exited(w) ==
    \/ wpc[w] = "leave" /\ owed[w] = Silent
    \/ wpc[w] \in {"load", "store", "release"} \/ turns[w] > Iterations

\* How many loops a worker has printed.
Looping(w) == wpc[w] = "work" /\ owed[w] = Silent
Looped(w) ==
    IF turns[w] > Iterations THEN Iterations ELSE turns[w] + (IF Looping(w) THEN 1 ELSE 0)

\* compute_queue_size and check_executed find each thread where it is.
Entrants == {w \in Workers : Admitted(w)}
Leavers == {w \in Workers : Exited(w)}
LoopCounts == [w \in Workers |-> Looped(w)]
SizeFollows ==
    /\ size = [now |-> Cardinality(Entrants) - Cardinality(Leavers), max |-> size.max, min |-> 0,
               admitted |-> Cardinality(Entrants)]
    /\ size.max \in Nat /\ size.max <= Cardinality(Entrants)
ExecutedFollows == executed = [ok |-> TRUE, count |-> LoopCounts, seen |-> Entrants]

\* A thread has returned from its procedure after its last release_cpu.
DoneHasLeft == \A w \in Workers : wpc[w] = "done" => turns[w] > Iterations

LinesInv ==
    /\ OwedFollowsLoop /\ DoneHasLeft /\ out \in Seq(Lines)
    /\ SizeFollows /\ ExecutedFollows

\* No worker prints after the scheduler thread has, and main waits for its line.
DoneIsLast ==
    /\ spc = "done" /\ owed[Sched] = Silent => out # <<>> /\ Last(out).says \in {"done", "waiting"}
    /\ mpc = "end" => spc = "done" /\ owed[Sched] = Silent

-----------------------------------------------------------------------------
(* The FIFO check                                                          *)

\* A worker that has begun its loops is the head of the queue until it leaves.
Begun(w) ==
    /\ wpc[w] = "work" \/ turns[w] \in 1 .. Iterations
    /\ wpc[w] \notin {"load", "store", "release"}
BegunIsHead == \A w \in Workers : Begun(w) => queue # <<>> /\ Head(queue) = w

FifoFollows ==
    /\ fifo \in [ok : {TRUE}, prev : Workers \cup {NoWorker}, counter : Nat]
    /\ \A w \in Workers : ~Exited(w) /\ Looped(w) > 0 => fifo.prev = w /\ fifo.counter = Looped(w)
    /\ (\A w \in Workers : Exited(w) \/ Looped(w) = 0) => fifo.prev = NoWorker /\ fifo.counter = 0

-----------------------------------------------------------------------------
(* The round-robin check                                                   *)

\* The workers that are in the rounds; one that has made its loop of the round has
\* its new place although the queue does not show it yet.
Active(w) == Admitted(w) /\ ~Exited(w)
Moved(w) == Looping(w) \/ wpc[w] \in {"requeue_out", "requeue_in"}
Precedes(s, u, v) == \E i, j \in 1 .. Len(s) : i < j /\ s[i] = u /\ s[j] = v
Ahead(u, v) == ~Moved(u) /\ (Moved(v) \/ Precedes(queue, u, v))

SomeLoop == \E i \in 1 .. Len(out) : out[i].says = "loop"

\* The workers in front are at most one loop behind, and the loops of the worker in
\* front say which round it is.
Rounds ==
    /\ \A u, v \in Workers :
          Active(u) /\ Active(v) /\ Ahead(u, v) =>
              Looped(u) <= Looped(v) /\ Looped(v) <= Looped(u) + 1
    /\ \A w \in Workers : Active(w) => Looped(w) <= rr.step /\ rr.step <= Looped(w) + 1

\* rrq lists the workers that have looped in the order of the queue.
RoundQueue ==
    /\ rr.rrq \in Seq(Workers) /\ IsInjective(rr.rrq)
    /\ \A w \in Workers : Contains(rr.rrq, w) <=> Active(w) /\ Looped(w) > 0
    /\ \A u, v \in Workers : Precedes(rr.rrq, u, v) => Ahead(u, v)

RoundOf == [w \in Workers |-> IF Active(w) THEN Looped(w) + 1 ELSE 0]
RrFollows ==
    /\ rr = [ok |-> TRUE, step |-> rr.step, round |-> RoundOf, rrq |-> rr.rrq]
    /\ rr.step \in Nat \ {0} /\ Rounds /\ RoundQueue
    /\ ~SomeLoop => rr.step = 1 /\ \A w \in Workers : Looped(w) = 0

-----------------------------------------------------------------------------
(* What the steps do to the lines                                          *)

\* The threads take the steps of Scheduler.
LEMMA StepOfScheduler == [TNext]_testVars => [Next]_vars
BY DEF TNext, Next, MainActs, SchedActs, WorkerActs, PrintLine, testVars

LEMMA TestIsSpec == TSpec => Spec
<1>1. TInit => Init
  BY DEF TInit
<1> QED BY <1>1, StepOfScheduler, PTL DEF TSpec, Spec

\* The facts of Scheduler's invariant that the lines depend on.
PcFacts ==
    /\ Iterations \in Nat /\ NumThreads \in Nat
    /\ Sched \notin Workers /\ Main \notin Workers /\ Main # Sched
    /\ wpc \in [Workers -> WorkerPc] /\ turns \in [Workers -> Nat]
    /\ TurnsFollowLoop

LEMMA IInvPcFacts == IInv => PcFacts
<1>1. Sched \notin Workers /\ Main \notin Workers /\ Main # Sched
  BY ConstantsAssumption DEF ConstantsAssumption, Workers, Sched, Main
<1> QED BY <1>1, ConstantsAssumption DEF ConstantsAssumption, IInv, TypeOK, PcFacts

\* What a worker's step changes in the worker.
WorkerMoves(x) ==
    /\ owed[x] = Silent
    /\ \A z \in Workers : z # x => wpc'[z] = wpc[z] /\ turns'[z] = turns[z] /\ owed'[z] = owed[z]
    /\ owed'[Sched] = owed[Sched] /\ owed'[Main] = owed[Main]
    /\ \/ /\ wpc[x] = "enter" /\ wpc'[x] = "wait" /\ turns'[x] = turns[x]
          /\ owed'[x] = Said(x, "queued", 0)
       \/ /\ wpc[x] = "wait" /\ wpc'[x] = "work" /\ turns'[x] = turns[x] /\ turns[x] < Iterations
          /\ owed'[x] = Said(x, "loop", turns[x])
       \/ /\ wpc[x] = "wait" /\ wpc'[x] = "leave" /\ turns'[x] = turns[x] /\ turns[x] = Iterations
          /\ owed'[x] = Said(x, "exiting", 0)
       \/ /\ owed'[x] = Silent /\ turns'[x] = turns[x]
          /\ \/ wpc[x] \in {"leave", "load", "store"} /\ wpc'[x] \in {"load", "store", "release"}
             \/ wpc[x] \in {"requeue_out", "requeue_in"} /\ wpc'[x] \in {"requeue_in", "post"}
             \/ wpc[x] = "post" /\ wpc'[x] = "done" /\ turns[x] > Iterations
             \/ wpc[x] = "post" /\ wpc'[x] = "wait" /\ turns[x] <= Iterations
             \/ wpc'[x] = wpc[x] /\ wpc[x] \in Releasing
       \/ /\ owed'[x] = Silent /\ turns'[x] = turns[x] + 1
          /\ wpc[x] \in {"work", "release"} /\ wpc'[x] \in {"requeue_out", "post"}

LEMMA WorkerActsMoves ==
    ASSUME PcFacts, OwedFollowsLoop, NEW x \in Workers, WorkerActs(x)
    PROVE  WorkerMoves(x) /\ UNCHANGED fileVars /\ owed' = [owed EXCEPT ![x] = WorkerSays(x)]
<1>1. /\ owed[x] = Silent /\ owed' = [owed EXCEPT ![x] = WorkerSays(x)] /\ UNCHANGED fileVars
      /\ WorkerStep(x) \/ UseFreed(x)
  BY DEF WorkerActs
<1>2. /\ owed \in [Printers -> Lines] /\ x # Sched /\ x # Main /\ x \in Printers
      /\ Workers \subseteq Printers /\ Sched \in Printers /\ Main \in Printers
  BY DEF OwedFollowsLoop, PcFacts, Printers
<1>3. /\ owed'[x] = WorkerSays(x) /\ owed'[Sched] = owed[Sched] /\ owed'[Main] = owed[Main]
      /\ \A z \in Workers : z # x => owed'[z] = owed[z]
  BY <1>1, <1>2 DEF PcFacts
<1>4. CASE EnterQueue(x)
  <2>1. /\ wpc[x] = "enter" /\ wpc'[x] = "wait" /\ turns' = turns
        /\ \A z \in Workers : z # x => wpc'[z] = wpc[z]
    BY <1>4 DEF EnterQueue, GoTo, PcFacts
  <2>2. WorkerSays(x) = Said(x, "queued", 0)
    BY <2>1 DEF WorkerSays
  <2> QED BY <1>1, <1>3, <2>1, <2>2 DEF WorkerMoves
<1>5. CASE WaitForCpu(x)
  <2>1. /\ wpc[x] = "wait" /\ turns' = turns
        /\ wpc'[x] = IF turns[x] < Iterations THEN "work" ELSE "leave"
        /\ \A z \in Workers : z # x => wpc'[z] = wpc[z]
    BY <1>5 DEF WaitForCpu, GoTo, PcFacts
  <2>2. turns[x] \in Nat /\ Iterations \in Nat /\ turns[x] <= Iterations
    BY <2>1 DEF PcFacts, TurnsFollowLoop
  <2>3. CASE turns[x] < Iterations
    <3>1. WorkerSays(x) = Said(x, "loop", turns[x])
      BY <2>1, <2>3 DEF WorkerSays
    <3> QED BY <1>1, <1>3, <2>1, <2>3, <3>1 DEF WorkerMoves
  <2>4. CASE turns[x] = Iterations
    <3>1. wpc'[x] = "leave"
      BY <2>1, <2>2, <2>4
    <3>2. WorkerSays(x) = Said(x, "exiting", 0)
      BY <2>1, <3>1 DEF WorkerSays
    <3> QED BY <1>1, <1>3, <2>1, <2>4, <3>1, <3>2 DEF WorkerMoves
  <2> QED BY <2>2, <2>3, <2>4
<1>6. CASE /\ wpc[x] \notin {"enter", "wait"}
           /\ LeaveQueue(x) \/ LoadCount(x) \/ StoreCount(x) \/ RequeueOut(x) \/ RequeueIn(x)
              \/ ReleasePost(x) \/ ReleaseRunning(x) \/ UseFreed(x)
  <2>1. WorkerSays(x) = Silent
    BY <1>6 DEF WorkerSays
  <2>2. CASE ReleaseRunning(x)
    <3>1. /\ wpc[x] \in {"work", "release"} /\ wpc'[x] \in {"requeue_out", "post"}
          /\ turns' = [turns EXCEPT ![x] = @ + 1]
          /\ \A z \in Workers : z # x => wpc'[z] = wpc[z]
      BY <2>2 DEF ReleaseRunning, GoTo, PcFacts
    <3>2. turns'[x] = turns[x] + 1 /\ \A z \in Workers : z # x => turns'[z] = turns[z]
      BY <3>1 DEF PcFacts
    <3> QED BY <1>1, <1>3, <2>1, <3>1, <3>2 DEF WorkerMoves
  <2>3. CASE UseFreed(x)
    <3>1. wpc' = wpc /\ turns' = turns /\ wpc[x] \in Releasing
      BY <2>3 DEF UseFreed, workerVars
    <3> QED BY <1>1, <1>3, <2>1, <3>1 DEF WorkerMoves
  <2>4. CASE ReleasePost(x)
    <3>1. /\ wpc[x] = "post" /\ turns' = turns
          /\ wpc'[x] = IF turns[x] > Iterations THEN "done" ELSE "wait"
          /\ \A z \in Workers : z # x => wpc'[z] = wpc[z]
      BY <2>4 DEF ReleasePost, GoTo, PcFacts
    <3>2. turns[x] \in Nat /\ Iterations \in Nat
      BY DEF PcFacts
    <3>3. \/ wpc'[x] = "done" /\ turns[x] > Iterations
          \/ wpc'[x] = "wait" /\ turns[x] <= Iterations
      BY <3>1, <3>2
    <3> QED BY <1>1, <1>3, <2>1, <3>1, <3>3 DEF WorkerMoves
  <2>5. CASE LeaveQueue(x) \/ LoadCount(x) \/ StoreCount(x) \/ RequeueOut(x) \/ RequeueIn(x)
    <3>1. /\ turns' = turns /\ \A z \in Workers : z # x => wpc'[z] = wpc[z]
          /\ \/ wpc[x] \in {"leave", "load", "store"} /\ wpc'[x] \in {"load", "store", "release"}
             \/ wpc[x] \in {"requeue_out", "requeue_in"} /\ wpc'[x] \in {"requeue_in", "post"}
      BY <2>5 DEF LeaveQueue, LoadCount, StoreCount, RequeueOut, RequeueIn, GoTo, PcFacts
    <3> QED BY <1>1, <1>3, <2>1, <3>1 DEF WorkerMoves
  <2> QED BY <1>6, <2>2, <2>3, <2>4, <2>5
<1>7. ~EnterQueue(x) /\ ~WaitForCpu(x) => wpc[x] \notin {"enter", "wait"}
  BY <1>1 DEF WorkerStep, LeaveQueue, LoadCount, StoreCount, ReleaseRunning, RequeueOut,
     RequeueIn, ReleasePost, UseFreed, GoTo, Releasing
<1> QED BY <1>1, <1>4, <1>5, <1>6, <1>7 DEF WorkerStep

\* What main's and the scheduler thread's steps change: a worker created.
LEMMA OthersAct ==
    ASSUME IInv, OwedFollowsLoop, MainActs \/ SchedActs
    PROVE  /\ turns' = turns /\ fileVars' = fileVars
           /\ \A w \in Workers :
                 /\ owed'[w] = owed[w]
                 /\ wpc'[w] = wpc[w] \/ (wpc[w] = "none" /\ wpc'[w] = "enter")
           /\ \/ owed' = [owed EXCEPT ![Main] = MainSays]
              \/ owed' = [owed EXCEPT ![Sched] = SchedSays]
<1>1. PcFacts /\ Sched \in Printers /\ Main \in Printers /\ owed \in [Printers -> Lines] /\ Workers \subseteq Printers
  BY IInvPcFacts DEF OwedFollowsLoop, Printers
<1>2. CASE SchedActs
  <2>1. /\ SchedStep /\ fileVars' = fileVars /\ owed[Sched] = Silent
        /\ owed' = [owed EXCEPT ![Sched] = SchedSays]
    BY <1>2 DEF SchedActs
  <2>2. wpc' = wpc /\ turns' = turns
    BY <2>1 DEF SchedStep, WaitForQueue, CheckRemaining, PeekHead, TestRunning, Advance,
       WakeInsert, WakePost, WaitForWorker, workerVars
  <2> QED BY <1>1, <1>2, <2>1, <2>2 DEF PcFacts
<1>3. CASE MainActs
  <2>1. /\ MainStep /\ fileVars' = fileVars /\ owed' = [owed EXCEPT ![Main] = MainSays]
        /\ \A w \in Workers : owed'[w] = owed[w]
    <3>1. MainStep /\ fileVars' = fileVars /\ owed' = [owed EXCEPT ![Main] = MainSays]
      BY <1>3 DEF MainActs
    <3> QED BY <1>1, <3>1 DEF PcFacts
  <2>2. CASE CreateWorker
    <3>1. turns' = turns /\ created < NumThreads /\ MainAt("create")
      BY <2>2 DEF CreateWorker
    <3>2. CASE wpc' = wpc
      BY <1>3, <2>1, <3>1, <3>2
    <3>3. CASE wpc' = [wpc EXCEPT ![created + 1] = "enter"]
      <4>1. created + 1 \in Workers /\ wpc[created + 1] = "none"
        BY <3>1, ConstantsAssumption
           DEF IInv, TypeOK, Workers, ConstantsAssumption, CreatedInOrder
      <4> QED BY <1>1, <1>3, <2>1, <3>1, <3>3, <4>1 DEF PcFacts
    <3> QED BY <2>2, <3>2, <3>3 DEF CreateWorker, ExitError
  <2>3. CASE StartScheduler \/ SetCount \/ AllCreated \/ CleanUp
    <3>1. wpc' = wpc /\ turns' = turns
      BY <2>3 DEF StartScheduler, SetCount, AllCreated, CleanUp, workerVars
    <3> QED BY <1>3, <2>1, <3>1
  <2> QED BY <2>1, <2>2, <2>3 DEF MainStep
<1> QED BY <1>2, <1>3

\* What a worker has printed.
SameProgress(w) ==
    (Admitted(w)' <=> Admitted(w)) /\ (Exited(w)' <=> Exited(w)) /\ Looped(w)' = Looped(w)

LEMMA Says ==
    /\ \A l \in Nat, a \in Printers : /\ Said(a, "queued", 0) # Silent
                                      /\ Said(a, "loop", l) # Silent
                                      /\ Said(a, "exiting", 0) # Silent
                                      /\ Said(a, "done", 0) # Silent
                                      /\ Said(a, "waiting", 0) # Silent
    /\ \A l, a : /\ Said(a, "queued", 0).says = "queued"
                 /\ Said(a, "loop", l).says = "loop"
                 /\ Said(a, "exiting", 0).says = "exiting"
    /\ Silent.says = "nothing"
BY DEF Said, Silent

\* A step that prints nothing changes nothing of it.
LEMMA UnprintedStep ==
    ASSUME IInv, OwedFollowsLoop, MainActs \/ SchedActs \/ \E x \in Workers : WorkerActs(x),
           NEW w \in Workers
    PROVE  SameProgress(w)
<1>1. PcFacts /\ turns[w] \in Nat /\ Iterations \in Nat
  BY IInvPcFacts DEF PcFacts
<1>2. CASE wpc'[w] = wpc[w] /\ turns'[w] = turns[w] /\ owed'[w] = owed[w]
  BY <1>2 DEF SameProgress, Admitted, Exited, Looped, Looping
<1>3. CASE wpc[w] = "none" /\ wpc'[w] = "enter" /\ turns'[w] = turns[w] /\ owed'[w] = owed[w]
  BY <1>3 DEF SameProgress, Admitted, Exited, Looped, Looping
<1>4. ASSUME WorkerMoves(w) PROVE SameProgress(w)
  <2>1. owed[w] = Silent /\ owed[w].says # "queued"
    BY <1>4, Says DEF WorkerMoves
  <2>2. CASE /\ wpc[w] = "enter" /\ wpc'[w] = "wait" /\ turns'[w] = turns[w]
             /\ owed'[w] = Said(w, "queued", 0)
    BY <2>2, Says DEF SameProgress, Admitted, Exited, Looped, Looping
  <2>3. CASE /\ wpc[w] = "wait" /\ wpc'[w] = "work" /\ turns'[w] = turns[w] /\ turns[w] < Iterations
             /\ owed'[w] = Said(w, "loop", turns[w])
    <3>1. owed'[w].says = "loop" /\ owed'[w] # Silent
      BY <2>3, Says
    <3> QED BY <2>1, <2>3, <3>1 DEF SameProgress, Admitted, Exited, Looped, Looping
  <2>4. CASE /\ wpc[w] = "wait" /\ wpc'[w] = "leave" /\ turns'[w] = turns[w] /\ turns[w] = Iterations
             /\ owed'[w] = Said(w, "exiting", 0)
    <3>1. owed'[w].says = "exiting" /\ owed'[w] # Silent
      BY <2>4, Says
    <3> QED BY <2>1, <2>4, <3>1 DEF SameProgress, Admitted, Exited, Looped, Looping
  <2>5. CASE /\ owed'[w] = Silent /\ turns'[w] = turns[w] /\ wpc[w] # "enter"
             /\ \/ wpc[w] \in {"leave", "load", "store"} /\ wpc'[w] \in {"load", "store", "release"}
                \/ wpc[w] \in {"requeue_out", "requeue_in"} /\ wpc'[w] \in {"requeue_in", "post"}
                \/ wpc[w] = "post" /\ wpc'[w] = "done" /\ turns[w] > Iterations
                \/ wpc[w] = "post" /\ wpc'[w] = "wait" /\ turns[w] <= Iterations
                \/ wpc'[w] = wpc[w] /\ wpc[w] \in Releasing
    BY <2>1, <2>5 DEF SameProgress, Admitted, Exited, Looped, Looping, Releasing
  <2>6. CASE /\ owed'[w] = Silent /\ turns'[w] = turns[w] + 1
             /\ wpc[w] \in {"work", "release"} /\ wpc'[w] \in {"requeue_out", "post"}
    <3>1. CASE wpc[w] = "work"
      <4>1. turns[w] < Iterations /\ ~(turns'[w] > Iterations) /\ ~(turns[w] > Iterations)
        BY <1>1, <2>6, <3>1 DEF PcFacts, TurnsFollowLoop
      <4>2. (Admitted(w)' <=> Admitted(w)) /\ (Exited(w)' <=> Exited(w))
        BY <2>1, <2>6, <3>1, <4>1, Says DEF Admitted, Exited
      <4>3. Looped(w)' = Looped(w)
        BY <1>1, <2>1, <2>6, <3>1, <4>1 DEF Looped, Looping
      <4> QED BY <4>2, <4>3 DEF SameProgress
    <3>2. CASE wpc[w] = "release"
      <4>1. turns[w] = Iterations /\ turns'[w] > Iterations /\ ~(turns[w] > Iterations)
        BY <1>1, <2>6, <3>2 DEF PcFacts, TurnsFollowLoop
      <4>2. (Admitted(w)' <=> Admitted(w)) /\ (Exited(w)' <=> Exited(w))
        BY <2>1, <2>6, <3>2, <4>1, Says DEF Admitted, Exited
      <4>3. Looped(w)' = Looped(w)
        BY <1>1, <2>1, <2>6, <3>2, <4>1 DEF Looped, Looping
      <4> QED BY <4>2, <4>3 DEF SameProgress
    <3> QED BY <2>6, <3>1, <3>2
  <2> QED BY <1>4, <2>2, <2>3, <2>4, <2>5, <2>6 DEF WorkerMoves, Releasing
<1>5. CASE MainActs \/ SchedActs
  BY <1>2, <1>3, <1>5, OthersAct
<1>6. ASSUME NEW x \in Workers, WorkerActs(x) PROVE SameProgress(w)
  <2>1. WorkerMoves(x)
    BY <1>1, <1>6, WorkerActsMoves
  <2> QED BY <1>2, <1>4, <2>1 DEF WorkerMoves
<1> QED BY <1>5, <1>6

LEMMA LineTypes ==
    ASSUME NEW a \in Printers
    PROVE  /\ Silent \in Lines /\ Said(a, "queued", 0) \in Lines /\ Said(a, "exiting", 0) \in Lines
           /\ Said(a, "done", 0) \in Lines /\ Said(a, "waiting", 0) \in Lines
           /\ \A l \in Nat : Said(a, "loop", l) \in Lines
BY DEF Silent, Said, Lines, Printers

LEMMA OwedStep ==
    ASSUME IInv, OwedFollowsLoop, [TNext]_testVars
    PROVE  OwedFollowsLoop'
<1>1. /\ PcFacts /\ Sched \in Printers /\ Main \in Printers /\ owed \in [Printers -> Lines]
      /\ Workers \subseteq Printers /\ Sched \notin Workers /\ Main \notin Workers /\ Main # Sched
      /\ (mpc = "start" => spc = "none")
  BY IInvPcFacts DEF OwedFollowsLoop, Printers, PcFacts, IInv, StartedByMain
<1>2. CASE UNCHANGED testVars
  <2>1. wpc' = wpc /\ turns' = turns /\ owed' = owed /\ spc' = spc
    BY <1>2 DEF testVars, vars, workerVars, schedVars
  <2> QED BY <2>1 DEF OwedFollowsLoop
<1>3. CASE MainActs \/ SchedActs
  <2>1. /\ turns' = turns
        /\ \A w \in Workers : owed'[w] = owed[w]
                              /\ (wpc'[w] = wpc[w] \/ (wpc[w] = "none" /\ wpc'[w] = "enter"))
        /\ \/ owed' = [owed EXCEPT ![Main] = MainSays]
           \/ owed' = [owed EXCEPT ![Sched] = SchedSays]
    BY <1>3, OthersAct
  <2>2. SchedSays \in Lines /\ MainSays \in {Silent, Said(Main, "waiting", 0)} /\ MainSays \in Lines
    BY <1>1, LineTypes DEF SchedSays, MainSays
  <2>3. owed' \in [Printers -> Lines] /\ owed'[Main] \in {Silent, Said(Main, "waiting", 0)}
    <3>1. owed[Main] \in {Silent, Said(Main, "waiting", 0)}
      BY DEF OwedFollowsLoop
    <3> QED BY <1>1, <2>1, <2>2, <3>1
  <2>4. \/ owed'[Sched] = Silent
        \/ spc' = "done" /\ owed'[Sched] = Said(Sched, "done", 0)
    <3>1. CASE MainActs
      <4>1. spc' = spc \/ (spc = "none" /\ spc' = "wait_queue")
        BY <1>1, <3>1 DEF MainActs, MainStep, StartScheduler, SetCount, CreateWorker, AllCreated,
           CleanUp, schedVars, MainAt
      <4>2. owed'[Sched] = owed[Sched]
        <5>1. owed' = [owed EXCEPT ![Main] = MainSays]
          BY <3>1 DEF MainActs
        <5> QED BY <1>1, <5>1
      <4> QED BY <4>1, <4>2 DEF OwedFollowsLoop
    <3>2. CASE SchedActs
      <4>1. owed'[Sched] = SchedSays
        BY <1>1, <3>2 DEF SchedActs
      <4> QED BY <4>1 DEF SchedSays
    <3> QED BY <1>3, <3>1, <3>2
  <2> QED BY <2>1, <2>3, <2>4 DEF OwedFollowsLoop
<1>4. ASSUME NEW x \in Workers, WorkerActs(x) PROVE OwedFollowsLoop'
  <2>1. WorkerMoves(x) /\ owed' = [owed EXCEPT ![x] = WorkerSays(x)]
    BY <1>1, <1>4, WorkerActsMoves
  <2>2. spc' = spc
    BY <1>4 DEF WorkerActs, WorkerStep, UseFreed, EnterQueue, WaitForCpu,
       LeaveQueue, LoadCount, StoreCount, ReleaseRunning, RequeueOut, RequeueIn,
       ReleasePost, schedVars
  <2>3. /\ x \in Printers /\ turns[x] \in Nat
        /\ wpc[x] = "enter" => turns[x] = 0
    BY <1>1 DEF PcFacts, TurnsFollowLoop
  <2>4. WorkerSays(x) \in Lines
    BY <2>3, LineTypes DEF WorkerSays
  <2>5. owed' \in [Printers -> Lines]
    BY <1>1, <2>1, <2>4
  <2>6. \/ owed'[x] = Silent
        \/ wpc'[x] = "wait" /\ turns'[x] = 0 /\ owed'[x] = Said(x, "queued", 0)
        \/ wpc'[x] = "work" /\ owed'[x] = Said(x, "loop", turns'[x])
        \/ wpc'[x] = "leave" /\ owed'[x] = Said(x, "exiting", 0)
    BY <2>1, <2>3 DEF WorkerMoves
  <2> QED BY <2>1, <2>2, <2>5, <2>6 DEF OwedFollowsLoop, WorkerMoves
<1>5. ASSUME NEW a \in Printers, PrintLine(a) PROVE OwedFollowsLoop'
  <2>1. /\ owed' = [owed EXCEPT ![a] = Silent]
        /\ wpc' = wpc /\ turns' = turns /\ spc' = spc
    BY <1>5 DEF PrintLine, vars, workerVars, schedVars
  <2>2. /\ owed' \in [Printers -> Lines] /\ owed'[a] = Silent
        /\ \A z \in Printers : z # a => owed'[z] = owed[z]
    BY <1>1, <2>1, LineTypes
  <2> QED BY <1>1, <2>1, <2>2 DEF OwedFollowsLoop
<1> QED BY <1>2, <1>3, <1>4, <1>5 DEF TNext

-----------------------------------------------------------------------------
(* What a printed line changes                                             *)

OthersSame(x) == \A w \in Workers : w # x => SameProgress(w)

PrintsQueued(x) ==
    /\ owed[x] = Said(x, "queued", 0) /\ OthersSame(x)
    /\ ~Admitted(x) /\ Admitted(x)' /\ ~Exited(x) /\ ~Exited(x)'
    /\ Looped(x) = 0 /\ Looped(x)' = 0
PrintsLoop(x) ==
    /\ wpc[x] = "work" /\ owed[x] = Said(x, "loop", turns[x]) /\ OthersSame(x)
    /\ Admitted(x) /\ Admitted(x)' /\ ~Exited(x) /\ ~Exited(x)'
    /\ Looped(x) = turns[x] /\ Looped(x)' = turns[x] + 1
PrintsExiting(x) ==
    /\ wpc[x] = "leave" /\ owed[x] = Said(x, "exiting", 0) /\ OthersSame(x)
    /\ Admitted(x) /\ Admitted(x)' /\ ~Exited(x) /\ Exited(x)'
    /\ Looped(x) = Iterations /\ Looped(x)' = Iterations

LEMMA WorkerPrints ==
    ASSUME PcFacts, OwedFollowsLoop, NEW x \in Workers, PrintLine(x)
    PROVE  PrintsQueued(x) \/ PrintsLoop(x) \/ PrintsExiting(x)
<1>1. /\ owed' = [owed EXCEPT ![x] = Silent] /\ owed[x] # Silent
      /\ wpc' = wpc /\ turns' = turns
  BY DEF PrintLine, vars, workerVars
<1>2. /\ owed'[x] = Silent /\ \A z \in Workers : z # x => owed'[z] = owed[z]
      /\ turns[x] \in Nat /\ Iterations \in Nat
  BY <1>1 DEF OwedFollowsLoop, Printers, PcFacts
<1>3. OthersSame(x)
  BY <1>1, <1>2 DEF OthersSame, SameProgress, Admitted, Exited, Looped, Looping
<1>4. owed'[x].says # "queued"
  BY <1>2, Says
<1>5. CASE wpc[x] = "wait" /\ turns[x] = 0 /\ owed[x] = Said(x, "queued", 0)
  <2>1. owed[x].says = "queued" /\ ~(turns[x] > Iterations)
    BY <1>2, <1>5, Says
  <2>2. ~Admitted(x) /\ Admitted(x)' /\ ~Exited(x) /\ ~Exited(x)'
    BY <1>1, <1>4, <1>5, <2>1 DEF Admitted, Exited
  <2>3. Looped(x) = 0 /\ Looped(x)' = 0
    BY <1>1, <1>2, <1>5, <2>1 DEF Looped, Looping
  <2> QED BY <1>3, <1>5, <2>2, <2>3 DEF PrintsQueued
<1>6. CASE wpc[x] = "work" /\ owed[x] = Said(x, "loop", turns[x])
  <2>1. owed[x].says = "loop" /\ ~(turns[x] > Iterations)
    BY <1>2, <1>6, Says DEF PcFacts, TurnsFollowLoop
  <2>2. Admitted(x) /\ Admitted(x)' /\ ~Exited(x) /\ ~Exited(x)'
    BY <1>1, <1>4, <1>6, <2>1 DEF Admitted, Exited
  <2>3. Looped(x) = turns[x] /\ Looped(x)' = turns[x] + 1
    BY <1>1, <1>2, <1>6, <2>1 DEF Looped, Looping
  <2> QED BY <1>3, <1>6, <2>2, <2>3 DEF PrintsLoop
<1>7. CASE wpc[x] = "leave" /\ owed[x] = Said(x, "exiting", 0)
  <2>1. owed[x].says = "exiting" /\ turns[x] = Iterations
    BY <1>7, Says DEF PcFacts, TurnsFollowLoop
  <2>2. Admitted(x) /\ Admitted(x)' /\ ~Exited(x) /\ Exited(x)'
    BY <1>1, <1>2, <1>4, <1>7, <2>1 DEF Admitted, Exited
  <2>3. Looped(x) = Iterations /\ Looped(x)' = Iterations
    BY <1>1, <1>2, <1>7, <2>1 DEF Looped, Looping
  <2> QED BY <1>3, <1>7, <2>2, <2>3 DEF PrintsExiting
<1> QED BY <1>1, <1>5, <1>6, <1>7 DEF OwedFollowsLoop

\* The lines of the scheduler thread and of main are read by no check but check_for_done.
LEMMA OtherPrints ==
    ASSUME PcFacts, OwedFollowsLoop, NEW a \in {Sched, Main}, PrintLine(a)
    PROVE  /\ owed[a].says \in {"done", "waiting"} /\ (a = Sched => spc = "done")
           /\ \A w \in Workers : SameProgress(w)
           /\ size' = size /\ executed' = executed /\ fifo' = fifo /\ rr' = rr
<1>1. /\ owed' = [owed EXCEPT ![a] = Silent] /\ owed[a] # Silent
      /\ wpc' = wpc /\ turns' = turns
      /\ size' = SizeAfter(size, owed[a]) /\ executed' = ExecutedAfter(executed, owed[a])
      /\ fifo' = FifoAfter(fifo, owed[a]) /\ rr' = RrAfter(rr, owed[a])
  BY DEF PrintLine, vars, workerVars
<1>2. \A z \in Workers : owed'[z] = owed[z]
  BY <1>1 DEF OwedFollowsLoop, Printers, PcFacts
<1>3. /\ owed[a] = Said(Sched, "done", 0) \/ owed[a] = Said(Main, "waiting", 0)
      /\ a = Sched => spc = "done"
  BY <1>1 DEF OwedFollowsLoop
<1>4. owed[a].says \in {"done", "waiting"}
  BY <1>3 DEF Said
<1>5. \A w \in Workers : SameProgress(w)
  BY <1>1, <1>2 DEF SameProgress, Admitted, Exited, Looped, Looping
<1>6. size' = size /\ executed' = executed /\ fifo' = fifo /\ rr' = rr
  BY <1>1, <1>4 DEF SizeAfter, ExecutedAfter, FifoAfter, RrAfter
<1> QED BY <1>3, <1>4, <1>5, <1>6

-----------------------------------------------------------------------------
(* check_rudimentary                                                       *)

\* Who has printed that it exits has printed that it is in the queue.
LEMMA LeaversEntered ==
    ASSUME PcFacts, OwedFollowsLoop
    PROVE  /\ Leavers \subseteq Entrants /\ IsFiniteSet(Entrants) /\ IsFiniteSet(Leavers)
           /\ Cardinality(Entrants) \in Nat /\ Cardinality(Leavers) \in Nat
           /\ Cardinality(Leavers) <= Cardinality(Entrants)
<1>1. ASSUME NEW w \in Workers, Exited(w) PROVE Admitted(w)
  <2>1. turns[w] \in Nat /\ Iterations \in Nat
    BY DEF PcFacts
  <2>2. wpc[w] \notin {"none", "enter", "wait"} \/ (wpc[w] = "leave" /\ owed[w] = Silent)
    BY <1>1, <2>1 DEF Exited, PcFacts, TurnsFollowLoop
  <2>3. owed[w].says # "queued"
    BY <2>2, Says DEF OwedFollowsLoop
  <2> QED BY <2>2, <2>3 DEF Admitted
<1>2. Leavers \subseteq Entrants
  BY <1>1 DEF Leavers, Entrants
<1>3. IsFiniteSet(Workers)
  BY FS_Interval DEF PcFacts, Workers
<1>4. IsFiniteSet(Entrants) /\ IsFiniteSet(Leavers)
  BY <1>3, FS_Subset DEF Entrants, Leavers
<1> QED BY <1>2, <1>4, FS_Subset, FS_CardinalityType

LEMMA LeaversWithin == PcFacts /\ OwedFollowsLoop => Leavers \subseteq Entrants
BY LeaversEntered

\* A step after which every worker has printed what it had before.
LEMMA SameCounts ==
    ASSUME \A w \in Workers : SameProgress(w)
    PROVE  Entrants' = Entrants /\ Leavers' = Leavers /\ LoopCounts' = LoopCounts
BY DEF SameProgress, Entrants, Leavers, LoopCounts

\* compute_queue_size on the two lines it counts.
LEMMA QueuedSize ==
    ASSUME NEW now \in Int, NEW max \in Nat, NEW n \in Nat, NEW line, line.says = "queued"
    PROVE  SizeAfter([now |-> now, max |-> max, min |-> 0, admitted |-> n], line)
             = [now |-> now + 1, max |-> IF now + 1 > max THEN now + 1 ELSE max, min |-> 0,
                admitted |-> n + 1]
<1>1. CASE now + 1 > max
  BY <1>1 DEF SizeAfter
<1>2. CASE ~(now + 1 > max)
  BY <1>2 DEF SizeAfter
<1> QED BY <1>1, <1>2

LEMMA ExitingSize ==
    ASSUME NEW now \in Int, NEW max \in Nat, NEW n \in Nat, NEW line, line.says = "exiting",
           ~(now - 1 < 0)
    PROVE  SizeAfter([now |-> now, max |-> max, min |-> 0, admitted |-> n], line)
             = [now |-> now - 1, max |-> max, min |-> 0, admitted |-> n]
BY DEF SizeAfter

LEMMA QueuedLine ==
    ASSUME PcFacts, OwedFollowsLoop, SizeFollows, ExecutedFollows,
           NEW x \in Workers, PrintLine(x), PrintsQueued(x)
    PROVE  SizeFollows' /\ ExecutedFollows'
<1>1. /\ size' = SizeAfter(size, owed[x]) /\ executed' = ExecutedAfter(executed, owed[x])
      /\ owed[x] = Said(x, "queued", 0)
  BY DEF PrintLine, PrintsQueued
<1>2. owed[x].says = "queued" /\ owed[x].by = x
  BY <1>1 DEF Said
<1>3. Entrants' = Entrants \cup {x} /\ x \notin Entrants /\ Leavers' = Leavers
  BY DEF PrintsQueued, OthersSame, SameProgress, Entrants, Leavers
<1>4. Cardinality(Entrants') = Cardinality(Entrants) + 1
  BY <1>3, LeaversEntered, FS_AddElement
<1>5. PICK n, m \in Nat : n = Cardinality(Entrants) /\ m = Cardinality(Leavers)
  BY LeaversEntered
<1>6. PICK h \in Nat : h = size.max /\ h <= n /\ size = [now |-> n - m, max |-> h, min |-> 0, admitted |-> n]
  BY <1>5 DEF SizeFollows
<1>7. PICK g : g = IF n - m + 1 > h THEN n - m + 1 ELSE h
  OBVIOUS
<1>8. size' = [now |-> n - m + 1, max |-> g, min |-> 0, admitted |-> n + 1]
  BY <1>1, <1>2, <1>5, <1>6, <1>7, QueuedSize
<1>9. SizeFollows'
  <2>1. n - m + 1 = (n + 1) - m /\ g \in Nat /\ g <= n + 1
    BY <1>5, <1>6, <1>7
  <2>2. size'.max = g
    BY <1>8
  <2> QED BY <1>3, <1>4, <1>5, <1>8, <2>1, <2>2 DEF SizeFollows
<1>10. /\ LoopCounts \in [Workers -> {Looped(w) : w \in Workers}]
       /\ LoopCounts' = [LoopCounts EXCEPT ![x] = 0]
  BY DEF PrintsQueued, OthersSame, SameProgress, LoopCounts
<1>11. executed = [ok |-> TRUE, count |-> LoopCounts, seen |-> Entrants]
  BY DEF ExecutedFollows
<1>12. executed' = [ok |-> TRUE, count |-> [LoopCounts EXCEPT ![x] = 0], seen |-> Entrants \cup {x}]
  BY <1>1, <1>2, <1>11 DEF ExecutedAfter
<1>13. ExecutedFollows'
  BY <1>3, <1>10, <1>12 DEF ExecutedFollows
<1> QED BY <1>9, <1>13

LEMMA LoopLine ==
    ASSUME PcFacts, OwedFollowsLoop, SizeFollows, ExecutedFollows,
           NEW x \in Workers, PrintLine(x), PrintsLoop(x)
    PROVE  SizeFollows' /\ ExecutedFollows'
<1>1. /\ size' = SizeAfter(size, owed[x]) /\ executed' = ExecutedAfter(executed, owed[x])
      /\ owed[x] = Said(x, "loop", turns[x])
  BY DEF PrintLine, PrintsLoop
<1>2. owed[x].says = "loop" /\ owed[x].by = x /\ owed[x].loop = turns[x]
  BY <1>1 DEF Said
<1>3. Entrants' = Entrants /\ x \in Entrants /\ Leavers' = Leavers
  BY DEF PrintsLoop, OthersSame, SameProgress, Entrants, Leavers
<1>4. size' = size
  BY <1>1, <1>2 DEF SizeAfter
<1>5. SizeFollows'
  BY <1>3, <1>4 DEF SizeFollows
<1>6. /\ LoopCounts[x] = turns[x] /\ Entrants \cup {x} = Entrants
      /\ LoopCounts' = [LoopCounts EXCEPT ![x] = @ + 1]
  BY <1>3 DEF PrintsLoop, OthersSame, SameProgress, LoopCounts
<1>7. executed = [ok |-> TRUE, count |-> LoopCounts, seen |-> Entrants]
  BY DEF ExecutedFollows
<1>8. executed' = [ok |-> TRUE, count |-> [LoopCounts EXCEPT ![x] = @ + 1], seen |-> Entrants]
  BY <1>1, <1>2, <1>6, <1>7 DEF ExecutedAfter
<1>9. ExecutedFollows'
  BY <1>3, <1>6, <1>8 DEF ExecutedFollows
<1> QED BY <1>5, <1>9

LEMMA ExitingLine ==
    ASSUME PcFacts, OwedFollowsLoop, SizeFollows, ExecutedFollows, (Leavers \subseteq Entrants)',
           NEW x \in Workers, PrintLine(x), PrintsExiting(x)
    PROVE  SizeFollows' /\ ExecutedFollows'
<1>1. /\ size' = SizeAfter(size, owed[x]) /\ executed' = ExecutedAfter(executed, owed[x])
      /\ owed[x] = Said(x, "exiting", 0)
  BY DEF PrintLine, PrintsExiting
<1>2. owed[x].says = "exiting" /\ owed[x].by = x
  BY <1>1 DEF Said
<1>3. Entrants' = Entrants /\ x \in Entrants /\ Leavers' = Leavers \cup {x} /\ x \notin Leavers
  BY DEF PrintsExiting, OthersSame, SameProgress, Entrants, Leavers
<1>4. Cardinality(Leavers') = Cardinality(Leavers) + 1
  BY <1>3, LeaversEntered, FS_AddElement
<1>5. PICK n, m \in Nat : n = Cardinality(Entrants) /\ m = Cardinality(Leavers)
  BY LeaversEntered
<1>6. m + 1 <= n
  <2>1. Leavers' \subseteq Entrants
    BY <1>3
  <2>2. Cardinality(Leavers') <= Cardinality(Entrants)
    BY <2>1, LeaversEntered, FS_Subset
  <2> QED BY <1>4, <1>5, <2>2
<1>7. PICK h \in Nat : h = size.max /\ h <= n /\ size = [now |-> n - m, max |-> h, min |-> 0, admitted |-> n]
  BY <1>5 DEF SizeFollows
<1>8. ~(n - m - 1 < 0) /\ n - m - 1 = n - (m + 1)
  BY <1>5, <1>6
<1>9. size' = [now |-> n - m - 1, max |-> h, min |-> 0, admitted |-> n]
  BY <1>1, <1>2, <1>5, <1>7, <1>8, ExitingSize
<1>10. SizeFollows'
  <2>1. size'.max = h
    BY <1>9
  <2> QED BY <1>3, <1>4, <1>5, <1>7, <1>8, <1>9, <2>1 DEF SizeFollows
<1>11. /\ LoopCounts[x] = Iterations /\ Entrants \cup {x} = Entrants /\ LoopCounts' = LoopCounts
  BY <1>3 DEF PrintsExiting, OthersSame, SameProgress, LoopCounts
<1>12. executed = [ok |-> TRUE, count |-> LoopCounts, seen |-> Entrants]
  BY DEF ExecutedFollows
<1>13. executed' = executed
  BY <1>1, <1>2, <1>11, <1>12 DEF ExecutedAfter
<1>14. ExecutedFollows'
  BY <1>3, <1>11, <1>13 DEF ExecutedFollows
<1> QED BY <1>10, <1>14

\* The lines printed are lines that were owed.
LEMMA OutStep ==
    ASSUME OwedFollowsLoop, out \in Seq(Lines), [TNext]_testVars
    PROVE  out' \in Seq(Lines) /\ (out' = out \/ \E a \in Printers : PrintLine(a))
<1>1. CASE ~\E a \in Printers : PrintLine(a)
  BY <1>1 DEF TNext, MainActs, SchedActs, WorkerActs, testVars, fileVars
<1>2. ASSUME NEW a \in Printers, PrintLine(a) PROVE out' \in Seq(Lines)
  BY <1>2 DEF PrintLine, OwedFollowsLoop
<1> QED BY <1>1, <1>2

LEMMA DoneStays ==
    ASSUME IInv, OwedFollowsLoop, DoneHasLeft, [TNext]_testVars
    PROVE  DoneHasLeft'
<1>1. PcFacts
  BY IInvPcFacts
<1>2. CASE MainActs \/ SchedActs
  BY <1>2, OthersAct DEF DoneHasLeft
<1>3. ASSUME NEW x \in Workers, WorkerActs(x) PROVE DoneHasLeft'
  BY <1>1, <1>3, WorkerActsMoves DEF WorkerMoves, DoneHasLeft, Releasing
<1>4. CASE wpc' = wpc /\ turns' = turns
  BY <1>4 DEF DoneHasLeft
<1> QED BY <1>2, <1>3, <1>4 DEF TNext, PrintLine, testVars, vars, workerVars

LEMMA LinesStep ==
    ASSUME IInv, LinesInv, [TNext]_testVars
    PROVE  LinesInv'
<1>1. PcFacts /\ OwedFollowsLoop /\ SizeFollows /\ ExecutedFollows
  BY IInvPcFacts DEF LinesInv
<1>2. OwedFollowsLoop' /\ (out \in Seq(Lines))' /\ DoneHasLeft'
  BY OwedStep, OutStep, DoneStays DEF LinesInv
<1>3. (Leavers \subseteq Entrants)'
  <2>1. IInv'
    BY IInvStep, StepOfScheduler
  <2> QED BY <1>2, <2>1, IInvPcFacts, LeaversWithin, PTL
<1>4. ASSUME size' = size, executed' = executed, \A w \in Workers : SameProgress(w)
      PROVE  SizeFollows' /\ ExecutedFollows'
  BY <1>1, <1>4, SameCounts DEF SizeFollows, ExecutedFollows
<1>5. CASE UNCHANGED testVars
  <2>1. wpc' = wpc /\ turns' = turns /\ owed' = owed /\ size' = size /\ executed' = executed
    BY <1>5 DEF testVars, fileVars, vars, workerVars
  <2>2. \A w \in Workers : SameProgress(w)
    BY <2>1 DEF SameProgress, Admitted, Exited, Looped, Looping
  <2> QED BY <1>2, <1>4, <2>1, <2>2 DEF LinesInv
<1>6. CASE MainActs \/ SchedActs \/ \E x \in Workers : WorkerActs(x)
  <2>1. size' = size /\ executed' = executed
    BY <1>6 DEF MainActs, SchedActs, WorkerActs, fileVars
  <2>2. \A w \in Workers : SameProgress(w)
    BY <1>1, <1>6, UnprintedStep
  <2> QED BY <1>2, <1>4, <2>1, <2>2 DEF LinesInv
<1>7. ASSUME NEW a \in {Sched, Main}, PrintLine(a) PROVE LinesInv'
  <2>1. \A w \in Workers : SameProgress(w)
    BY <1>1, <1>7, OtherPrints
  <2>2. size' = size /\ executed' = executed
    BY <1>1, <1>7, OtherPrints
  <2> QED BY <1>2, <1>4, <2>1, <2>2 DEF LinesInv
<1>8. ASSUME NEW x \in Workers, PrintLine(x) PROVE LinesInv'
  BY <1>1, <1>2, <1>3, <1>8, WorkerPrints, QueuedLine, LoopLine, ExitingLine DEF LinesInv
<1>9. ASSUME NEW a \in Printers, PrintLine(a) PROVE LinesInv'
  BY <1>7, <1>8, <1>9 DEF Printers
<1> QED BY <1>5, <1>6, <1>9 DEF TNext

-----------------------------------------------------------------------------
(* The last line                                                           *)

\* The scheduler thread returns after each worker has printed its exit.
LEMMA SilentAtDone ==
    ASSUME CInv, OwedFollowsLoop, spc = "done", NEW w \in Workers
    PROVE  owed[w] = Silent
<1>1. Counted(w) /\ TurnsFollowLoop /\ turns[w] \in Nat /\ Iterations \in Nat
  BY IInvPcFacts DEF CInv, NeverDoneEarly, PcFacts
<1>2. wpc[w] \notin {"wait", "work", "leave"}
  BY <1>1 DEF Counted, TurnsFollowLoop
<1> QED BY <1>2 DEF OwedFollowsLoop

LEMMA DoneIsLastStep ==
    ASSUME CInv, LinesInv, DoneIsLast, [TNext]_testVars
    PROVE  DoneIsLast'
<1>1. /\ PcFacts /\ OwedFollowsLoop /\ Sched \in Printers /\ owed \in [Printers -> Lines]
      /\ Main \in Printers /\ Main # Sched
      /\ Workers \subseteq Printers /\ Sched \notin Workers /\ IInv /\ out \in Seq(Lines)
      /\ Said(Sched, "done", 0) # Silent /\ (mpc = "start" => spc = "none")
  BY IInvPcFacts, Says DEF OwedFollowsLoop, LinesInv, CInv, Printers, PcFacts, IInv,
     StartedByMain
<1>2. CASE UNCHANGED testVars
  BY <1>2 DEF testVars, fileVars, vars, mainVars, schedVars, DoneIsLast
<1>3. CASE MainActs
  <2>1. owed'[Sched] = owed[Sched] /\ out' = out
    BY <1>1, <1>3 DEF MainActs, fileVars
  <2>2. spc' = spc \/ (spc # "done" /\ spc' # "done" /\ mpc' # "end")
    BY <1>1, <1>3 DEF MainActs, MainStep, StartScheduler, SetCount, CreateWorker, AllCreated,
       CleanUp, schedVars, MainAt
  <2>3. mpc' = "end" => spc' = "done" /\ owed'[Sched] = Silent
    <3>1. CASE CleanUp
      <4>1. mpc = "join" /\ spc = "done" /\ spc' = spc
        BY <3>1 DEF CleanUp, MainAt, schedVars
      <4> QED BY <1>3, <2>1, <4>1 DEF MainActs
    <3>2. CASE ~CleanUp
      <4>1. mpc' # "end" \/ mpc' = mpc
        BY <1>3, <3>2 DEF MainActs, MainStep, StartScheduler, SetCount, CreateWorker, AllCreated,
           ExitError
      <4>2. mpc = "end" => spc = "done" /\ owed[Sched] = Silent
        BY DEF DoneIsLast
      <4> QED BY <2>1, <2>2, <4>1, <4>2
    <3> QED BY <3>1, <3>2
  <2> QED BY <2>1, <2>2, <2>3 DEF DoneIsLast
<1>4. CASE SchedActs
  <2>1. spc # "done" /\ mpc' = mpc
    BY <1>4 DEF SchedActs, SchedStep, WaitForQueue, CheckRemaining, PeekHead, TestRunning,
       Advance, WakeInsert, WakePost, WaitForWorker, SchedAt, mainVars
  <2>2. owed'[Sched] = SchedSays
    BY <1>1, <1>4 DEF SchedActs
  <2>3. spc' = "done" => owed'[Sched] # Silent
    BY <1>1, <2>2 DEF SchedSays
  <2> QED BY <2>1, <2>3 DEF DoneIsLast
<1>5. ASSUME NEW x \in Workers, WorkerActs(x) PROVE DoneIsLast'
  <2>1. spc' = spc /\ mpc' = mpc /\ out' = out
    BY <1>5 DEF WorkerActs, WorkerStep, UseFreed, EnterQueue, WaitForCpu,
       LeaveQueue, LoadCount, StoreCount, ReleaseRunning, RequeueOut, RequeueIn,
       ReleasePost, schedVars, mainVars, fileVars
  <2>2. owed'[Sched] = owed[Sched]
    BY <1>1, <1>5, WorkerActsMoves DEF WorkerMoves
  <2> QED BY <2>1, <2>2 DEF DoneIsLast
<1>6. ASSUME NEW x \in Workers, PrintLine(x) PROVE DoneIsLast'
  <2>1. /\ owed[x] # Silent /\ owed' = [owed EXCEPT ![x] = Silent]
        /\ spc' = spc /\ mpc' = mpc
    BY <1>6 DEF PrintLine, vars, mainVars, schedVars
  <2>2. owed'[Sched] = owed[Sched]
    BY <1>1, <2>1
  <2>3. spc # "done"
    BY <1>1, <2>1, SilentAtDone
  <2> QED BY <2>1, <2>2, <2>3 DEF DoneIsLast
<1>7. ASSUME NEW a \in {Sched, Main}, PrintLine(a) PROVE DoneIsLast'
  <2>1. /\ owed' = [owed EXCEPT ![a] = Silent] /\ out' = Append(out, owed[a])
        /\ spc' = spc /\ mpc' = mpc
    BY <1>7 DEF PrintLine, vars, mainVars, schedVars
  <2>2. owed[a].says \in {"done", "waiting"} /\ (a = Sched => spc = "done")
    BY <1>1, <1>7, OtherPrints
  <2>3. owed'[Sched] = IF a = Sched THEN Silent ELSE owed[Sched]
    BY <1>1, <2>1
  <2>4. out' # <<>> /\ Last(out') = owed[a]
    <3>1. /\ Append(out, owed[a]) \in Seq(Lines)
          /\ Len(Append(out, owed[a])) = Len(out) + 1
          /\ Append(out, owed[a])[Len(out) + 1] = owed[a]
      BY <1>1
    <3> QED BY <1>1, <2>1, <3>1 DEF Last
  <2> QED BY <2>1, <2>2, <2>3, <2>4 DEF DoneIsLast
<1>8. ASSUME NEW a \in Printers, PrintLine(a) PROVE DoneIsLast'
  BY <1>6, <1>7, <1>8 DEF Printers
<1> QED BY <1>2, <1>3, <1>4, <1>5, <1>8 DEF TNext

\* What the loops have read when the process has ended, before and after their last turn.
LEMMA WhenComplete ==
    ASSUME CInv, LinesInv, DoneIsLast, Complete
    PROVE  /\ Again.says \in {"done", "waiting"}
           /\ SizeAfter(size, Again) = size /\ ExecutedAfter(executed, Again) = executed
           /\ size.now = 0 /\ size.min = 0 /\ size.admitted = NumThreads
           /\ size.max \in Nat /\ size.max <= NumThreads
           /\ AllExecuted(executed) /\ Cardinality(Entrants) = NumThreads
<1>1. spc = "done" /\ owed[Sched] = Silent
  BY DEF Complete, Ended, DoneIsLast
<1>2. Again.says \in {"done", "waiting"}
  BY <1>1 DEF DoneIsLast, Again
<1>3. PcFacts /\ OwedFollowsLoop
  BY IInvPcFacts DEF CInv, LinesInv
<1>4. ASSUME NEW w \in Workers PROVE Admitted(w) /\ Exited(w)
  <2>1. wpc[w] = "done" /\ owed[w] = Silent
    BY <1>1, <1>3, SilentAtDone DEF Complete, Ended
  <2>2. Counted(w)
    BY <1>1 DEF CInv, NeverDoneEarly
  <2> QED BY <2>1, <2>2, Says DEF Admitted, Exited, Counted
<1>5. Entrants = Workers /\ Leavers = Workers
  BY <1>4 DEF Entrants, Leavers
<1>6. Cardinality(Workers) = NumThreads /\ NumThreads - NumThreads = 0
  BY <1>3, FS_Interval DEF PcFacts, Workers
<1>7. /\ size = [now |-> 0, max |-> size.max, min |-> 0, admitted |-> NumThreads]
      /\ size.max \in Nat /\ size.max <= NumThreads
  BY <1>5, <1>6 DEF LinesInv, SizeFollows
<1>8. AllExecuted(executed)
  BY <1>5 DEF LinesInv, ExecutedFollows, AllExecuted
<1>9. SizeAfter(size, Again) = size /\ ExecutedAfter(executed, Again) = executed
  BY <1>2 DEF SizeAfter, ExecutedAfter
<1> QED BY <1>2, <1>5, <1>6, <1>7, <1>8, <1>9

LEMMA VerdictHolds ==
    ASSUME CInv, LinesInv, DoneIsLast
    PROVE  RudimentaryVerdict
<1>1. SUFFICES ASSUME Complete
               PROVE  /\ check_rudimentary <=> (check_for_done /\ QueueWithin)
                      /\ NumThreads <= QueueSize => QueueWithin
  BY DEF RudimentaryVerdict
<1>2. /\ SizeAfter(size, Again) = size /\ ExecutedAfter(executed, Again) = executed
      /\ size.now = 0 /\ size.min = 0 /\ size.admitted = NumThreads
      /\ size.max \in Nat /\ size.max <= NumThreads /\ AllExecuted(executed)
  BY <1>1, WhenComplete
<1>3. check_rudimentary <=> (check_for_done /\ QueueWithin)
  BY <1>2 DEF check_rudimentary
<1>4. NumThreads <= QueueSize => size.max <= QueueSize
  BY <1>2, ConstantsAssumption DEF ConstantsAssumption
<1> QED BY <1>2, <1>3, <1>4 DEF QueueWithin

-----------------------------------------------------------------------------
(* The FIFO tests                                                          *)

LEMMA BegunStep ==
    ASSUME Policy = "fifo", MaxRunning = 1, IInv, HeadServed, BegunIsHead, [Next]_vars
    PROVE  BegunIsHead'
<1>1. /\ wpc \in [Workers -> WorkerPc] /\ turns \in [Workers -> Nat] /\ queue \in Seq(Workers)
      /\ Iterations \in Nat /\ TurnsFollowLoop
  BY ConstantsAssumption DEF ConstantsAssumption, IInv, TypeOK
<1>2. CASE UNCHANGED <<queue, wpc, turns>>
  BY <1>2 DEF BegunIsHead, Begun
<1>3. CASE MainStep \/ SchedStep \/ UNCHANGED vars
  <2>1. UNCHANGED <<queue, turns>>
    BY <1>3 DEF MainStep, StartScheduler, SetCount, CreateWorker, AllCreated, CleanUp, SchedStep,
       WaitForQueue, CheckRemaining, PeekHead, TestRunning, Advance, WakeInsert, WakePost,
       WaitForWorker, sharedVars, workerVars, vars
  <2>2. CASE UNCHANGED wpc
    BY <1>2, <2>1, <2>2
  <2>3. CASE CreateWorker /\ ~UNCHANGED wpc
    <3>1. created < NumThreads /\ wpc' = [wpc EXCEPT ![created + 1] = "enter"]
      BY <2>3 DEF CreateWorker, MainAt
    <3>2. created + 1 \in Workers /\ wpc[created + 1] = "none"
      BY <3>1, ConstantsAssumption
         DEF IInv, TypeOK, Workers, ConstantsAssumption, CreatedInOrder
    <3> QED BY <1>1, <2>1, <3>1, <3>2 DEF BegunIsHead, Begun
  <2>4. UNCHANGED wpc \/ CreateWorker
    BY <1>3 DEF MainStep, StartScheduler, SetCount, AllCreated, CleanUp, SchedStep,
       WaitForQueue, CheckRemaining, PeekHead, TestRunning, Advance, WakeInsert, WakePost,
       WaitForWorker, workerVars, vars
  <2> QED BY <2>2, <2>3, <2>4
<1>4. ASSUME NEW x \in Workers, EnterQueue(x) PROVE BegunIsHead'
  <2>1. /\ queue' = Append(queue, x) /\ turns' = turns
        /\ wpc[x] = "enter" /\ wpc'[x] = "wait" /\ \A z \in Workers : z # x => wpc'[z] = wpc[z]
    BY <1>1, <1>4 DEF EnterQueue, GoTo
  <2>2. (queue # <<>> => queue' # <<>> /\ Head(queue') = Head(queue)) /\ turns[x] = 0
    BY <1>1, <2>1 DEF TurnsFollowLoop
  <2> QED BY <1>1, <2>1, <2>2 DEF BegunIsHead, Begun
<1>5. ASSUME NEW x \in Workers, WaitForCpu(x) PROVE BegunIsHead'
  <2>1. /\ queue' = queue /\ turns' = turns /\ wpc[x] = "wait" /\ cpuSem[x] > 0
        /\ wpc'[x] = IF turns[x] < Iterations THEN "work" ELSE "leave"
        /\ \A z \in Workers : z # x => wpc'[z] = wpc[z]
    BY <1>1, <1>5 DEF WaitForCpu, GoTo
  <2>2. cpuSem[x] \in Nat /\ cpuSem[x] <= 1
    BY DEF IInv, TypeOK, GrantAccounting
  <2>3. Contains(running, x)
    BY <2>1, <2>2 DEF IInv, GrantAccounting
  <2>4. queue # <<>> /\ Head(queue) = x
    BY <2>1, <2>3 DEF HeadServed, AtHead
  <2> QED BY <2>1, <2>4 DEF BegunIsHead, Begun
<1>6. ASSUME NEW x \in Workers, LeaveQueue(x) PROVE BegunIsHead'
  <2>1. /\ turns' = turns /\ wpc[x] = "leave" /\ wpc'[x] = "load"
        /\ \A z \in Workers : z # x => wpc'[z] = wpc[z]
    BY <1>1, <1>6 DEF LeaveQueue, GoTo
  <2>2. Head(queue) = x
    BY <2>1 DEF IInv, GrantAccounting, HasCpu, HeadServed, AtHead
  <2>3. \A z \in Workers : ~Begun(z)'
    BY <2>1, <2>2 DEF BegunIsHead, Begun
  <2> QED BY <2>3 DEF BegunIsHead
<1>7. ASSUME NEW x \in Workers, LoadCount(x) \/ StoreCount(x) PROVE BegunIsHead'
  <2>1. /\ UNCHANGED <<queue, turns>> /\ wpc'[x] \in {"store", "release"}
        /\ \A z \in Workers : z # x => wpc'[z] = wpc[z]
    BY <1>1, <1>7 DEF LoadCount, StoreCount, GoTo, sharedVars
  <2> QED BY <2>1 DEF BegunIsHead, Begun
<1>8. ASSUME NEW x \in Workers, ReleaseRunning(x) PROVE BegunIsHead'
  <2>1. /\ queue' = queue /\ wpc[x] \in {"work", "release"} /\ turns'[x] = turns[x] + 1
        /\ wpc'[x] # "work"
        /\ \A z \in Workers : z # x => wpc'[z] = wpc[z] /\ turns'[z] = turns[z]
    BY <1>1, <1>8 DEF ReleaseRunning, GoTo
  <2>2. wpc[x] = "release" => turns'[x] \notin 1 .. Iterations
    BY <1>1, <2>1 DEF TurnsFollowLoop
  <2>3. Begun(x)' => Begun(x)
    BY <2>1, <2>2 DEF Begun
  <2>4. \A z \in Workers : z # x /\ Begun(z)' => Begun(z)
    BY <2>1 DEF Begun
  <2> QED BY <2>1, <2>3, <2>4 DEF BegunIsHead
<1>9. ASSUME NEW x \in Workers, ReleasePost(x) PROVE BegunIsHead'
  <2>1. /\ UNCHANGED <<queue, turns>> /\ wpc[x] = "post" /\ wpc'[x] \in {"done", "wait"}
        /\ \A z \in Workers : z # x => wpc'[z] = wpc[z]
    BY <1>1, <1>9 DEF ReleasePost, GoTo
  <2> QED BY <2>1 DEF BegunIsHead, Begun
<1>10. ASSUME NEW x \in Workers, RequeueOut(x) \/ RequeueIn(x) PROVE FALSE
  BY <1>10 DEF RequeueOut, RequeueIn, GoTo, HeadServed
<1>11. ASSUME NEW x \in Workers, UseFreed(x) PROVE BegunIsHead'
  BY <1>2, <1>11 DEF UseFreed, sharedVars, workerVars
<1> QED BY <1>3, <1>4, <1>5, <1>6, <1>7, <1>8, <1>9, <1>10, <1>11 DEF Next, WorkerStep, Rest

LEMMA LoopedType ==
    ASSUME PcFacts, NEW w \in Workers
    PROVE  Looped(w) \in Nat
BY DEF PcFacts, Looped

\* Who has printed a loop and not its exit is the head of the queue.
LEMMA LooperIsHead ==
    ASSUME PcFacts, BegunIsHead, NEW w \in Workers, ~Exited(w), Looped(w) # 0
    PROVE  Head(queue) = w
<1>1. turns[w] \in Nat /\ Iterations \in Nat
  BY DEF PcFacts
<1>2. wpc[w] = "work" \/ turns[w] \in 1 .. Iterations
  BY <1>1 DEF Exited, Looped, Looping
<1> QED BY <1>2 DEF Exited, BegunIsHead, Begun

LEMMA FifoStep ==
    ASSUME IInv, HeadServed, BegunIsHead, LinesInv, FifoFollows, [TNext]_testVars
    PROVE  FifoFollows'
<1>1. PcFacts /\ OwedFollowsLoop /\ Iterations \in Nat
  BY IInvPcFacts DEF LinesInv, PcFacts
<1>2. ASSUME fifo' = fifo, \A w \in Workers : SameProgress(w) PROVE FifoFollows'
  BY <1>2 DEF FifoFollows, SameProgress
<1>3. CASE UNCHANGED testVars
  <2>1. wpc' = wpc /\ turns' = turns /\ owed' = owed /\ fifo' = fifo
    BY <1>3 DEF testVars, fileVars, vars, workerVars
  <2>2. \A w \in Workers : SameProgress(w)
    BY <2>1 DEF SameProgress, Admitted, Exited, Looped, Looping
  <2> QED BY <1>2, <2>1, <2>2
<1>4. CASE MainActs \/ SchedActs \/ \E x \in Workers : WorkerActs(x)
  <2>1. fifo' = fifo
    BY <1>4 DEF MainActs, SchedActs, WorkerActs, fileVars
  <2>2. \A w \in Workers : SameProgress(w)
    BY <1>1, <1>4, UnprintedStep
  <2> QED BY <1>2, <2>1, <2>2
<1>5. ASSUME NEW a \in {Sched, Main}, PrintLine(a) PROVE FifoFollows'
  BY <1>1, <1>2, <1>5, OtherPrints
<1>6. ASSUME NEW x \in Workers, PrintLine(x) PROVE FifoFollows'
  <2>1. /\ fifo' = FifoAfter(fifo, owed[x])
        /\ fifo \in [ok : {TRUE}, prev : Workers \cup {NoWorker}, counter : Nat]
    BY <1>6 DEF PrintLine, FifoFollows
  <2>2. CASE PrintsQueued(x)
    <3>1. owed[x].says = "queued"
      BY <2>2 DEF PrintsQueued, Said
    <3>2. fifo' = fifo
      BY <2>1, <3>1 DEF FifoAfter
    <3>3. \A w \in Workers : (Exited(w)' <=> Exited(w)) /\ Looped(w)' = Looped(w)
      BY <2>2 DEF PrintsQueued, OthersSame, SameProgress
    <3> QED BY <3>2, <3>3 DEF FifoFollows
  <2>3. ASSUME Head(queue) = x, NEW w \in Workers, w # x
        PROVE  (Exited(w) \/ Looped(w) = 0) /\ (OthersSame(x) => Exited(w)' \/ Looped(w)' = 0)
    <3>1. Exited(w) \/ Looped(w) = 0
      BY <1>1, <2>3, LooperIsHead
    <3> QED BY <2>3, <3>1 DEF OthersSame, SameProgress
  <2>4. CASE PrintsLoop(x)
    <3>1. /\ owed[x].says = "loop" /\ owed[x].by = x /\ wpc[x] = "work"
          /\ turns[x] \in Nat /\ Looped(x) = turns[x]
      BY <1>1, <2>4 DEF PrintsLoop, Said, PcFacts
    <3>2. Head(queue) = x
      BY <3>1 DEF BegunIsHead, Begun
    <3>3. fifo.prev \in {NoWorker, x} /\ fifo.counter = turns[x]
      <4>1. CASE turns[x] = 0
        <5>1. \A w \in Workers : Exited(w) \/ Looped(w) = 0
          BY <2>3, <3>1, <3>2, <4>1
        <5> QED BY <4>1, <5>1 DEF FifoFollows
      <4>2. CASE turns[x] # 0
        BY <2>4, <3>1, <4>2 DEF FifoFollows, PrintsLoop
      <4> QED BY <4>1, <4>2
    <3>4. fifo' = [ok |-> TRUE, prev |-> x, counter |-> turns[x] + 1]
      BY <2>1, <3>1, <3>3 DEF FifoAfter
    <3>5. ~Exited(x)' /\ Looped(x)' = turns[x] + 1 /\ turns[x] + 1 # 0 /\ turns[x] + 1 > 0
      BY <2>4, <3>1 DEF PrintsLoop
    <3>6. \A w \in Workers : w # x => Exited(w)' \/ Looped(w)' = 0
      BY <2>3, <2>4, <3>2 DEF PrintsLoop
    <3> QED BY <3>1, <3>4, <3>5, <3>6 DEF FifoFollows
  <2>5. CASE PrintsExiting(x)
    <3>1. /\ owed[x].says = "exiting" /\ owed[x].by = x /\ wpc[x] = "leave"
          /\ ~Exited(x) /\ Looped(x) = Iterations
      BY <2>5 DEF PrintsExiting, Said
    <3>2. Head(queue) = x
      BY <3>1 DEF IInv, GrantAccounting, HasCpu, HeadServed, AtHead
    <3>3. fifo.counter = Iterations
      <4>1. CASE Iterations = 0
        <5>1. \A w \in Workers : Exited(w) \/ Looped(w) = 0
          BY <2>3, <3>1, <3>2, <4>1
        <5> QED BY <4>1, <5>1 DEF FifoFollows
      <4>2. CASE Iterations > 0
        BY <3>1, <4>2 DEF FifoFollows
      <4> QED BY <1>1, <4>1, <4>2
    <3>4. fifo' = [ok |-> TRUE, prev |-> NoWorker, counter |-> 0]
      BY <2>1, <3>1, <3>3 DEF FifoAfter
    <3>5. \A w \in Workers : Exited(w)' \/ Looped(w)' = 0
      BY <2>3, <2>5, <3>2 DEF PrintsExiting
    <3> QED BY <3>4, <3>5 DEF FifoFollows
  <2> QED BY <1>1, <1>6, <2>2, <2>4, <2>5, WorkerPrints
<1>7. ASSUME NEW a \in Printers, PrintLine(a) PROVE FifoFollows'
  BY <1>5, <1>6, <1>7 DEF Printers
<1> QED BY <1>3, <1>4, <1>7 DEF TNext

LEMMA InitCounts ==
    ASSUME TInit
    PROVE  /\ \A w \in Workers : ~Admitted(w) /\ ~Exited(w) /\ Looped(w) = 0
           /\ Entrants = {} /\ Leavers = {} /\ LoopCounts = [w \in Workers |-> 0]
<1>1. Iterations \in Nat /\ \A w \in Workers : wpc[w] = "none" /\ turns[w] = 0
  BY ConstantsAssumption DEF ConstantsAssumption, TInit, Init
<1>2. \A w \in Workers : ~Admitted(w) /\ ~Exited(w) /\ Looped(w) = 0
  BY <1>1 DEF Admitted, Exited, Looped, Looping
<1> QED BY <1>2 DEF Entrants, Leavers, LoopCounts

LEMMA LinesAlways == TSpec => []LinesInv
<1>1. ASSUME TInit PROVE LinesInv
  <2>1. OwedFollowsLoop
    BY <1>1, LineTypes DEF TInit, OwedFollowsLoop, Printers
  <2>2. out \in Seq(Lines) /\ DoneHasLeft
    BY <1>1 DEF TInit, Init, DoneHasLeft
  <2>3. SizeFollows
    <3>1. Cardinality({}) = 0
      BY FS_EmptySet
    <3>2. Cardinality(Entrants) = 0 /\ Cardinality(Leavers) = 0
      BY <1>1, <3>1, InitCounts
    <3> QED BY <1>1, <3>2 DEF TInit, NoneEntered, SizeFollows
  <2>4. ExecutedFollows
    BY <1>1, InitCounts DEF TInit, NoneExecuted, ExecutedFollows
  <2> QED BY <2>1, <2>2, <2>3, <2>4 DEF LinesInv
<1>2. IInv /\ LinesInv /\ [TNext]_testVars => LinesInv'
  BY LinesStep
<1> QED BY <1>1, <1>2, TestIsSpec, IInvAlways, PTL DEF TSpec

\* What the end of a run rests on: the lines, and that the scheduler's is the last.
EndInv == CInv /\ LinesInv /\ DoneIsLast

LEMMA EndAlways == TSpec => []EndInv
<1>1. TInit => DoneIsLast
  BY DEF TInit, Init, DoneIsLast
<1>2. CInv /\ LinesInv /\ DoneIsLast /\ [TNext]_testVars => DoneIsLast'
  BY DoneIsLastStep
<1> QED BY <1>1, <1>2, TestIsSpec, CInvAlways, LinesAlways, PTL DEF TSpec, EndInv

\* A run that ends by itself passes check_rudimentary, under both policies and with any
\* number of slots, exactly when the scheduler's line is the last and no more than
\* queue_size workers were in the queue at once; the second is certain when there are no
\* more than that.
THEOREM RudimentaryDecided == TSpec => []RudimentaryVerdict
<1>1. EndInv => RudimentaryVerdict
  BY VerdictHolds DEF EndInv
<1> QED BY <1>1, EndAlways, PTL

LEMMA AgainIsNoWorker ==
    ASSUME EndInv, Complete
    PROVE  Again.says \in {"done", "waiting"}
BY WhenComplete DEF EndInv

\* With one slot the busy worker is the head of the queue.
OneSlotInv == IInv /\ LinesInv /\ HeadServed

LEMMA OneSlotAlways ==
    ASSUME MaxRunning = 1
    PROVE  TSpec => []OneSlotInv
<1>1. TInit => HeadServed
  BY DEF TInit, Init, HeadServed, AtHead, Contains
<1>2. IInv /\ HeadServed /\ [TNext]_testVars => HeadServed'
  BY HeadServedStep, StepOfScheduler
<1> QED BY <1>1, <1>2, TestIsSpec, IInvAlways, LinesAlways, PTL DEF TSpec, OneSlotInv

\* With one slot the FIFO tests add nothing to that verdict, whatever the order in which
\* the workers arrive and print: nobody loops between a worker's first loop and its exit.
THEOREM FifoDecided == TSpec => []FifoVerdict
<1>1. CASE Policy = "fifo" /\ MaxRunning = 1
  <2>1. TInit => BegunIsHead /\ FifoFollows
    <3>1. TInit => BegunIsHead
      BY DEF TInit, Init, BegunIsHead, Begun
    <3>2. TInit => FifoFollows
      BY InitCounts DEF TInit, NobodyLoops, FifoFollows
    <3> QED BY <3>1, <3>2
  <2>2. IInv /\ HeadServed /\ BegunIsHead /\ [TNext]_testVars => BegunIsHead'
    BY <1>1, BegunStep, StepOfScheduler
  <2>3. IInv /\ HeadServed /\ BegunIsHead /\ LinesInv /\ FifoFollows /\ [TNext]_testVars
          => FifoFollows'
    BY FifoStep
  <2>4. ASSUME EndInv, FifoFollows, RudimentaryVerdict PROVE FifoVerdict
    <3>1. fifo.ok
      BY <2>4 DEF FifoFollows
    <3>2. Complete => FifoAfter(fifo, Again) = fifo
      BY <2>4, AgainIsNoWorker DEF FifoAfter
    <3> QED BY <2>4, <3>1, <3>2 DEF FifoVerdict, check_fifo
  <2>5. OneSlotInv => IInv /\ HeadServed /\ LinesInv
    BY DEF OneSlotInv
  <2>6. TSpec => []OneSlotInv
    BY <1>1, OneSlotAlways
  <2> QED BY <2>1, <2>2, <2>3, <2>4, <2>5, <2>6, EndAlways, RudimentaryDecided, PTL DEF TSpec
<1>2. CASE ~(Policy = "fifo" /\ MaxRunning = 1)
  <2>1. RudimentaryVerdict => FifoVerdict
    BY <1>2 DEF FifoVerdict
  <2> QED BY <2>1, RudimentaryDecided, PTL
<1> QED BY <1>1, <1>2

-----------------------------------------------------------------------------
(* The order of the queue                                                  *)

\* insert_item_tail of a worker that is not in the list puts it behind all the others.
LEMMA PrecedesAppend ==
    ASSUME NEW s \in Seq(Workers), NEW e \in Workers, ~Contains(s, e)
    PROVE  /\ \A u, v \in Workers : u # e /\ v # e =>
                 (Precedes(Append(s, e), u, v) <=> Precedes(s, u, v))
           /\ \A u \in Workers : Contains(s, u) => Precedes(Append(s, e), u, e)
           /\ \A v \in Workers : ~Precedes(Append(s, e), e, v)
<1> DEFINE t == Append(s, e)
<1>1. PICK n \in Nat : n = Len(s)
  OBVIOUS
<1>2. /\ Len(t) = n + 1 /\ t[n + 1] = e
      /\ \A j \in 1 .. n : t[j] = s[j] /\ s[j] # e
  BY <1>1 DEF Contains
<1> HIDE DEF t
<1>3. ASSUME NEW u \in Workers, NEW v \in Workers, u # e, v # e
      PROVE  Precedes(t, u, v) <=> Precedes(s, u, v)
  <2>1. ASSUME Precedes(t, u, v) PROVE Precedes(s, u, v)
    <3>1. PICK i, j \in 1 .. n + 1 : i < j /\ t[i] = u /\ t[j] = v
      BY <1>2, <2>1 DEF Precedes
    <3>2. i # n + 1 /\ j # n + 1
      BY <1>2, <1>3, <3>1
    <3>3. i \in 1 .. n /\ j \in 1 .. n
      BY <3>1, <3>2
    <3> QED BY <1>1, <1>2, <3>1, <3>3 DEF Precedes
  <2>2. ASSUME Precedes(s, u, v) PROVE Precedes(t, u, v)
    <3>1. PICK i, j \in 1 .. n : i < j /\ s[i] = u /\ s[j] = v
      BY <1>1, <2>2 DEF Precedes
    <3>2. i \in 1 .. n + 1 /\ j \in 1 .. n + 1
      BY <3>1
    <3> QED BY <1>2, <3>1, <3>2 DEF Precedes
  <2> QED BY <2>1, <2>2
<1>4. ASSUME NEW u \in Workers, Contains(s, u) PROVE Precedes(t, u, e)
  <2>1. PICK i \in 1 .. n : s[i] = u
    BY <1>1, <1>4 DEF Contains
  <2>2. i \in 1 .. n + 1 /\ n + 1 \in 1 .. n + 1 /\ i < n + 1
    BY <2>1
  <2> QED BY <1>2, <2>1, <2>2 DEF Precedes
<1>5. ASSUME NEW v \in Workers, Precedes(t, e, v) PROVE FALSE
  <2>1. PICK i, j \in 1 .. n + 1 : i < j /\ t[i] = e
    BY <1>2, <1>5 DEF Precedes
  <2>2. i \in 1 .. n
    BY <2>1
  <2> QED BY <1>2, <2>1, <2>2
<1> QED BY <1>3, <1>4, <1>5 DEF t

\* remove_item leaves the others in their order.
LEMMA PrecedesRemove ==
    ASSUME NEW s \in Seq(Workers), IsInjective(s), NEW e \in Workers,
           NEW u \in Workers, NEW v \in Workers, u # e, v # e
    PROVE  Precedes(RemoveFirst(s, e), u, v) <=> Precedes(s, u, v)
<1>1. CASE ~Contains(s, e)
  BY <1>1 DEF RemoveFirst, Contains
<1>2. CASE Contains(s, e)
  <2>1. PICK n \in Nat : n = Len(s)
    OBVIOUS
  <2>2. PICK k \in 1 .. n : s[k] = e
    BY <1>2, <2>1 DEF Contains
  <2>3. PICK t : t = RemoveFirst(s, e)
    OBVIOUS
  <2>4. /\ Len(t) = n - 1
        /\ \A j \in 1 .. n - 1 : t[j] = IF j < k THEN s[j] ELSE s[j + 1]
    BY <1>2, <2>1, <2>2, <2>3, RemoveFirstProperties
  <2>5. ASSUME Precedes(t, u, v) PROVE Precedes(s, u, v)
    <3>1. PICK i, j \in 1 .. n - 1 : i < j /\ t[i] = u /\ t[j] = v
      BY <2>4, <2>5 DEF Precedes
    <3>2. PICK a, b \in 1 .. n : /\ a = (IF i < k THEN i ELSE i + 1)
                                 /\ b = (IF j < k THEN j ELSE j + 1)
      BY <2>1, <2>2, <3>1
    <3>3. a < b
      BY <2>2, <3>1, <3>2
    <3>4. s[a] = u /\ s[b] = v
      BY <2>4, <3>1, <3>2
    <3> QED BY <2>1, <3>2, <3>3, <3>4 DEF Precedes
  <2>6. ASSUME Precedes(s, u, v) PROVE Precedes(t, u, v)
    <3>1. PICK i, j \in 1 .. n : i < j /\ s[i] = u /\ s[j] = v
      BY <2>1, <2>6 DEF Precedes
    <3>2. i # k /\ j # k
      BY <2>2, <3>1
    <3>3. PICK a, b \in 1 .. n - 1 : /\ a = (IF i < k THEN i ELSE i - 1)
                                     /\ b = (IF j < k THEN j ELSE j - 1)
      BY <2>1, <2>2, <3>1, <3>2
    <3>4. a < b
      BY <2>2, <3>1, <3>2, <3>3
    <3>5. t[a] = u /\ t[b] = v
      <4>1. /\ (a < k <=> i < k) /\ (b < k <=> j < k)
            /\ (i >= k => a + 1 = i) /\ (j >= k => b + 1 = j)
        BY <2>1, <2>2, <3>1, <3>2, <3>3
      <4> QED BY <2>2, <2>4, <3>1, <3>3, <4>1
    <3> QED BY <2>4, <3>3, <3>4, <3>5 DEF Precedes
  <2> QED BY <2>3, <2>5, <2>6
<1> QED BY <1>1, <1>2

\* The head is in front of all the others, and nobody in front of it.
LEMMA PrecedesHead ==
    ASSUME NEW s \in Seq(Workers), IsInjective(s), s # <<>>, NEW u \in Workers
    PROVE  /\ Contains(s, u) /\ u # Head(s) => Precedes(s, Head(s), u)
           /\ ~Precedes(s, u, Head(s))
<1>1. PICK n \in Nat : n = Len(s) /\ n >= 1
  OBVIOUS
<1>2. PICK h : h = Head(s) /\ h = s[1]
  OBVIOUS
<1>3. ASSUME Contains(s, u), u # h PROVE Precedes(s, h, u)
  <2>1. PICK i \in 1 .. n : s[i] = u
    BY <1>1, <1>3 DEF Contains
  <2>2. 1 \in 1 .. n /\ 1 < i
    BY <1>1, <1>2, <1>3, <2>1
  <2> QED BY <1>1, <1>2, <2>1, <2>2 DEF Precedes
<1>4. ASSUME Precedes(s, u, h) PROVE FALSE
  <2>1. PICK i, j \in 1 .. n : i < j /\ s[j] = h
    BY <1>1, <1>4 DEF Precedes
  <2>2. 1 \in 1 .. n /\ j # 1
    BY <1>1, <2>1
  <2> QED BY <1>1, <1>2, <2>1, <2>2 DEF IsInjective
<1> QED BY <1>2, <1>3, <1>4

-----------------------------------------------------------------------------
(* The round-robin tests                                                   *)

\* Only the busy worker can have moved, and the others in the rounds are in the queue.
LEMMA OneMoved ==
    ASSUME MaxRunning = 1, OneSlotInv
    PROVE  /\ \A u, v \in Workers : Moved(u) /\ Busy(v) => u = v
           /\ \A u \in Workers : Active(u) /\ wpc[u] # "requeue_in" => Contains(queue, u)
           /\ \A u \in Workers : Moved(u) => Busy(u)
<1>1. PcFacts /\ OwedFollowsLoop /\ DoneHasLeft /\ IInv
  BY IInvPcFacts DEF OneSlotInv, LinesInv
<1>2. \A u \in Workers : Moved(u) => Busy(u)
  BY DEF Moved, Looping, Busy, HasCpu, GivingBack
<1>3. \A u, v \in Workers : Moved(u) /\ Busy(v) => u = v
  BY <1>1, <1>2, OneBusy
<1>4. ASSUME NEW u \in Workers, Active(u), wpc[u] # "requeue_in" PROVE Contains(queue, u)
  <2>1. /\ wpc[u] \in WorkerPc /\ wpc[u] \notin {"none", "enter", "load", "store", "release"}
        /\ ~(turns[u] > Iterations) /\ turns[u] \in Nat /\ Iterations \in Nat
    BY <1>1, <1>4 DEF Active, Admitted, Exited, PcFacts
  <2>2. turns[u] <= Iterations /\ wpc[u] # "done"
    BY <1>1, <2>1 DEF DoneHasLeft
  <2>3. wpc[u] \in {"wait", "work", "leave", "requeue_out", "post"}
    BY <1>4, <2>1, <2>2 DEF WorkerPc
  <2> QED BY <1>1, <2>2, <2>3 DEF IInv, WaitersStayQueued
<1> QED BY <1>2, <1>3, <1>4

SameMoved(w) == Moved(w)' <=> Moved(w)

\* A step of one worker leaves the order of the others alone.
LEMMA OrderOfOthers ==
    ASSUME NEW u \in Workers, NEW v \in Workers, SameMoved(u), SameMoved(v),
           Precedes(queue', u, v) <=> Precedes(queue, u, v)
    PROVE  Ahead(u, v)' <=> Ahead(u, v)
BY DEF Ahead, SameMoved, Precedes

LEMMA OrderKept ==
    ASSUME Policy = "rr", MaxRunning = 1, OneSlotInv,
           MainActs \/ SchedActs \/ \E x \in Workers : WorkerActs(x),
           NEW u \in Workers, NEW v \in Workers, u # v, Active(u), Active(v)
    PROVE  Ahead(u, v)' <=> Ahead(u, v)
<1>1. /\ PcFacts /\ OwedFollowsLoop /\ IInv /\ queue \in Seq(Workers) /\ IsInjective(queue)
      /\ EnterersAreOut
  BY IInvPcFacts DEF OneSlotInv, LinesInv, IInv, TypeOK, WaitersStayQueued
<1>2. \A a, b \in Workers : Moved(a) /\ Busy(b) => a = b
  BY OneMoved
<1>3. CASE MainActs \/ SchedActs
  <2>1. \A w \in Workers : SameMoved(w)
    BY <1>3, <1>1, OthersAct DEF SameMoved, Moved, Looping
  <2>2. queue' = queue
    BY <1>3 DEF MainActs, SchedActs, MainStep, StartScheduler, SetCount, CreateWorker, AllCreated,
       CleanUp, SchedStep, WaitForQueue, CheckRemaining, PeekHead, TestRunning, Advance,
       WakeInsert, WakePost, WaitForWorker, sharedVars
  <2> QED BY <2>1, <2>2, OrderOfOthers
<1>4. ASSUME NEW x \in Workers, WorkerActs(x) PROVE Ahead(u, v)' <=> Ahead(u, v)
  <2>1. WorkerMoves(x) /\ owed[x] = Silent
    BY <1>1, <1>4, WorkerActsMoves DEF WorkerMoves
  <2>2. \A w \in Workers : w # x => SameMoved(w)
    BY <2>1 DEF WorkerMoves, SameMoved, Moved, Looping
  <2>3. \/ queue' = queue
        \/ queue' = Append(queue, x) /\ wpc[x] \in {"enter", "requeue_in"} /\ ~Contains(queue, x)
        \/ queue' = RemoveFirst(queue, x) /\ wpc[x] \in {"leave", "requeue_out"}
    <3>1. \/ queue' = queue
          \/ queue' = Append(queue, x) /\ wpc[x] \in {"enter", "requeue_in"}
          \/ queue' = RemoveFirst(queue, x) /\ wpc[x] \in {"leave", "requeue_out"}
      BY <1>4 DEF WorkerActs, WorkerStep, UseFreed, EnterQueue, WaitForCpu, LeaveQueue, LoadCount,
         StoreCount, ReleaseRunning, RequeueOut, RequeueIn, ReleasePost, GoTo, sharedVars
    <3> QED BY <1>1, <3>1 DEF EnterersAreOut
  <2>4. CASE u # x /\ v # x
    <3>1. Precedes(queue', u, v) <=> Precedes(queue, u, v)
      <4>1. CASE queue' = queue
        BY <4>1
      <4>2. CASE queue' = Append(queue, x) /\ ~Contains(queue, x)
        <5>1. Precedes(Append(queue, x), u, v) <=> Precedes(queue, u, v)
          BY <1>1, <2>4, <4>2, PrecedesAppend
        <5> QED BY <4>2, <5>1
      <4>3. CASE queue' = RemoveFirst(queue, x)
        <5>1. Precedes(RemoveFirst(queue, x), u, v) <=> Precedes(queue, u, v)
          BY <1>1, <2>4, PrecedesRemove
        <5> QED BY <4>3, <5>1
      <4> QED BY <2>3, <4>1, <4>2, <4>3
    <3> QED BY <2>2, <2>4, <3>1, OrderOfOthers
  <2>5. CASE Active(x) /\ wpc[x] # "requeue_in"
    <3>1. wpc[x] \notin {"none", "enter", "load", "store", "release"}
          /\ (wpc[x] = "leave" => owed[x] # Silent)
      BY <2>5 DEF Active, Admitted, Exited
    <3>2. wpc[x] # "leave" /\ ~(turns[x] > Iterations)
      BY <2>1, <2>5, <3>1 DEF Active, Exited
    <3>3. CASE wpc[x] = "requeue_out"
      <4>1. wpc'[x] \in {"requeue_in", "requeue_out"}
        BY <1>1, <1>4, <3>3 DEF WorkerActs, WorkerStep, UseFreed, EnterQueue, WaitForCpu,
           LeaveQueue, LoadCount, StoreCount, ReleaseRunning, RequeueOut, RequeueIn,
           ReleasePost, GoTo, workerVars, PcFacts
      <4>2. Moved(x) /\ Moved(x)'
        BY <3>3, <4>1 DEF Moved
      <4>3. \A w \in Workers : w # x => ~Moved(w) /\ ~Moved(w)'
        BY <1>2, <2>2, <3>3 DEF Busy, GivingBack, SameMoved
      <4> QED BY <2>4, <4>2, <4>3 DEF Ahead
    <3>4. CASE wpc[x] # "requeue_out"
      <4>1. queue' = queue
        BY <2>3, <2>5, <3>1, <3>2, <3>4
      <4>2. SameMoved(x)
        <5>1. CASE wpc[x] = "work"
          <6>1. wpc'[x] = "requeue_out"
            BY <1>1, <1>4, <5>1 DEF WorkerActs, WorkerStep, UseFreed, EnterQueue, WaitForCpu,
               LeaveQueue, LoadCount, StoreCount, ReleaseRunning, RequeueOut, RequeueIn,
               ReleasePost, GoTo, PcFacts, Releasing
          <6> QED BY <2>1, <5>1, <6>1 DEF SameMoved, Moved, Looping
        <5>2. CASE wpc[x] # "work"
          <6>1. ~Moved(x)
            BY <2>5, <3>4, <5>2 DEF Moved, Looping
          <6>2. ~Moved(x)'
            BY <2>1, <2>5, <3>1, <3>2, <3>4, <5>2, Says
               DEF WorkerMoves, Moved, Looping, Releasing, PcFacts
          <6> QED BY <6>1, <6>2 DEF SameMoved
        <5> QED BY <5>1, <5>2
      <4> QED BY <2>2, <4>1, <4>2, OrderOfOthers
    <3> QED BY <3>3, <3>4
  <2>6. CASE Active(x) /\ wpc[x] = "requeue_in"
    <3>1. queue' = Append(queue, x) \/ (queue' = queue /\ wpc' = wpc)
      BY <1>4, <2>6 DEF WorkerActs, WorkerStep, UseFreed, EnterQueue, WaitForCpu, LeaveQueue,
         LoadCount, StoreCount, ReleaseRunning, RequeueOut, RequeueIn, ReleasePost, GoTo,
         sharedVars, workerVars
    <3>2. CASE queue' = queue /\ wpc' = wpc
      <4>1. SameMoved(x)
        BY <2>6, <3>2 DEF SameMoved, Moved
      <4> QED BY <2>2, <3>2, <4>1, OrderOfOthers
    <3>3. CASE queue' = Append(queue, x) /\ ~(queue' = queue /\ wpc' = wpc)
      <4>1. wpc'[x] = "post" /\ ~Contains(queue, x)
        BY <1>1, <1>4, <2>6, <3>3 DEF WorkerActs, WorkerStep, UseFreed, EnterQueue, WaitForCpu,
           LeaveQueue, LoadCount, StoreCount, ReleaseRunning, RequeueOut, RequeueIn, ReleasePost,
           GoTo, PcFacts, EnterersAreOut, sharedVars, workerVars
      <4>2. Moved(x) /\ ~Moved(x)'
        BY <2>6, <4>1 DEF Moved, Looping
      <4>3. \A w \in Workers : w # x => ~Moved(w) /\ ~Moved(w)'
        BY <1>2, <2>2, <2>6 DEF Busy, GivingBack, SameMoved
      <4>4. /\ \A w \in Workers : Contains(queue, w) => Precedes(queue', w, x)
            /\ \A w \in Workers : ~Precedes(queue', x, w)
        BY <1>1, <3>3, <4>1, PrecedesAppend
      <4>5. CASE v = x
        <5>1. wpc[u] # "requeue_in"
          BY <4>3, <4>5 DEF Moved
        <5>2. Precedes(queue', u, x)
          BY <4>4, <5>1, OneMoved
        <5> QED BY <4>2, <4>3, <4>5, <5>2 DEF Ahead, Precedes
      <4>6. CASE u = x
        BY <4>2, <4>3, <4>4, <4>6 DEF Ahead, Precedes
      <4> QED BY <2>4, <4>5, <4>6
    <3> QED BY <3>1, <3>2, <3>3
  <2> QED BY <2>4, <2>5, <2>6
<1> QED BY <1>3, <1>4

\* The worker that prints is in front of all the others in the rounds.
LEMMA PrinterFirst ==
    ASSUME MaxRunning = 1, OneSlotInv, NEW x \in Workers, wpc[x] \in {"work", "leave"},
           owed[x] # Silent
    PROVE  /\ \A w \in Workers : ~Moved(w)
           /\ \A w \in Workers : w # x /\ Active(w) => Ahead(x, w)
           /\ \A w \in Workers : ~Ahead(w, x)
<1>1. /\ IInv /\ HeadServed /\ queue \in Seq(Workers) /\ IsInjective(queue)
  BY DEF OneSlotInv, IInv, TypeOK, WaitersStayQueued
<1>2. queue # <<>> /\ Head(queue) = x
  BY <1>1 DEF IInv, GrantAccounting, HasCpu, HeadServed, AtHead
<1>3. Busy(x) /\ ~Moved(x)
  BY DEF Busy, HasCpu, Moved, Looping
<1>4. \A w \in Workers : ~Moved(w)
  BY <1>3, OneMoved
<1>5. ASSUME NEW w \in Workers, w # x, Active(w) PROVE Ahead(x, w)
  <2>1. Contains(queue, w)
    BY <1>4, <1>5, OneMoved DEF Moved
  <2>2. Precedes(queue, Head(queue), w)
    BY <1>1, <1>2, <1>5, <2>1, PrecedesHead
  <2> QED BY <1>2, <1>3, <2>2 DEF Ahead
<1>6. ASSUME NEW w \in Workers PROVE ~Ahead(w, x)
  <2>1. ~Precedes(queue, w, Head(queue))
    BY <1>1, <1>2, PrecedesHead
  <2> QED BY <1>2, <1>3, <2>1 DEF Ahead
<1> QED BY <1>4, <1>5, <1>6

LEMMA PrecedesWithin ==
    ASSUME NEW s \in Seq(Workers), IsInjective(s), NEW u \in Workers, NEW v \in Workers,
           Precedes(s, u, v)
    PROVE  u # v /\ Contains(s, u) /\ Contains(s, v)
<1>1. PICK i, j \in 1 .. Len(s) : i < j /\ s[i] = u /\ s[j] = v
  BY DEF Precedes
<1>2. i # j
  BY <1>1
<1> QED BY <1>1, <1>2 DEF Contains, IsInjective

\* If it has looped before, it is the head of rrq.
LEMMA FirstInRounds ==
    ASSUME RoundQueue, NEW x \in Workers, Active(x), Looped(x) > 0,
           \A w \in Workers : ~Ahead(w, x)
    PROVE  rr.rrq # <<>> /\ Head(rr.rrq) = x
<1>1. PICK s \in Seq(Workers) : s = rr.rrq
  BY DEF RoundQueue
<1>2. IsInjective(s) /\ Contains(s, x) /\ \A w \in Workers : ~Precedes(s, w, x)
  BY <1>1 DEF RoundQueue
<1>3. s # <<>>
  BY <1>2 DEF Contains
<1>4. Head(s) \in Workers
  BY <1>3
<1>5. x = Head(s)
  BY <1>2, <1>3, <1>4, PrecedesHead
<1> QED BY <1>1, <1>3, <1>5

\* A step that leaves the rounds as they are.
LEMMA RoundsKept ==
    ASSUME PcFacts, RrFollows, rr' = rr, \A w \in Workers : SameProgress(w), SomeLoop' <=> SomeLoop,
           \A u, v \in Workers : u # v /\ Active(u) /\ Active(v) => (Ahead(u, v)' <=> Ahead(u, v))
    PROVE  RrFollows'
<1>1. \A w \in Workers : (Active(w)' <=> Active(w)) /\ Looped(w)' = Looped(w)
  BY DEF SameProgress, Active
<1>2. RoundOf' = RoundOf
  BY <1>1 DEF RoundOf
<1>3. ASSUME NEW u \in Workers, NEW v \in Workers, Active(u), Active(v), Ahead(u, v)'
      PROVE  Looped(u) <= Looped(v) /\ Looped(v) <= Looped(u) + 1
  <2>1. CASE u # v
    BY <1>3, <2>1 DEF RrFollows, Rounds
  <2>2. CASE u = v
    BY <2>2, LoopedType
  <2> QED BY <2>1, <2>2
<1>4. Rounds'
  BY <1>1, <1>3 DEF RrFollows, Rounds
<1>5. RoundQueue'
  <2>1. rr.rrq \in Seq(Workers) /\ IsInjective(rr.rrq) /\ rr'.rrq = rr.rrq
    BY DEF RrFollows, RoundQueue
  <2>2. ASSUME NEW u \in Workers, NEW v \in Workers, Precedes(rr.rrq, u, v) PROVE Ahead(u, v)'
    <3>1. u # v /\ Contains(rr.rrq, u) /\ Contains(rr.rrq, v)
      BY <2>1, <2>2, PrecedesWithin
    <3>2. Active(u) /\ Active(v) /\ Ahead(u, v)
      BY <2>2, <3>1 DEF RrFollows, RoundQueue
    <3> QED BY <3>1, <3>2
  <2>3. \A w \in Workers : Contains(rr.rrq, w) <=> Active(w) /\ Looped(w) > 0
    BY DEF RrFollows, RoundQueue
  <2> QED BY <1>1, <2>1, <2>2, <2>3 DEF RoundQueue, Precedes
<1> QED BY <1>1, <1>2, <1>4, <1>5 DEF RrFollows

\* The lines printed before.
LEMMA LineAfter ==
    ASSUME out \in Seq(Lines), OwedFollowsLoop, NEW a \in Printers, PrintLine(a)
    PROVE  /\ SomeLoop' <=> SomeLoop \/ owed[a].says = "loop"
           /\ NoneLate' => NoneLate
           /\ NoneLate' /\ owed[a].says = "queued" => ~SomeLoop
<1>1. PICK n \in Nat, l \in Lines : n = Len(out) /\ l = owed[a]
  BY DEF OwedFollowsLoop
<1>2. /\ Len(out') = n + 1 /\ out'[n + 1] = l /\ \A i \in 1 .. n : out'[i] = out[i]
      /\ DOMAIN out = 1 .. n /\ DOMAIN out' = 1 .. n + 1
  BY <1>1 DEF PrintLine
<1>3. \A i \in 1 .. n : i \in 1 .. n + 1
  OBVIOUS
<1>4. \A i \in 1 .. n + 1 : i \in 1 .. n \/ i = n + 1
  OBVIOUS
<1>5. n + 1 \in 1 .. n + 1
  OBVIOUS
<1>6. SomeLoop' <=> SomeLoop \/ l.says = "loop"
  BY <1>1, <1>2, <1>3, <1>4, <1>5 DEF SomeLoop
<1>7. ASSUME NoneLate' PROVE NoneLate
  BY <1>2, <1>3, <1>7 DEF NoneLate
<1>8. ASSUME NoneLate', l.says = "queued", SomeLoop PROVE FALSE
  <2>1. PICK j \in 1 .. n : out[j].says = "loop"
    BY <1>1, <1>8 DEF SomeLoop
  <2>2. n + 1 < j
    BY <1>2, <1>3, <1>5, <1>8, <2>1 DEF NoneLate
  <2> QED BY <2>1, <2>2
<1> QED BY <1>1, <1>6, <1>7, <1>8

\* The printed line of a worker leaves the queue and the other workers alone.
LEMMA OthersOrder ==
    ASSUME NEW x \in Workers, PrintLine(x), PcFacts, OwedFollowsLoop
    PROVE  /\ queue' = queue
           /\ \A w \in Workers : w # x => SameMoved(w)
           /\ wpc[x] # "work" => SameMoved(x)
           /\ wpc[x] = "work" => Moved(x)'
<1>1. /\ owed' = [owed EXCEPT ![x] = Silent] /\ wpc' = wpc /\ queue' = queue
  BY DEF PrintLine, vars, workerVars, sharedVars
<1>2. owed'[x] = Silent /\ \A w \in Workers : w # x => owed'[w] = owed[w]
  BY <1>1 DEF OwedFollowsLoop, Printers
<1> QED BY <1>1, <1>2 DEF SameMoved, Moved, Looping

\* A worker that joins before the first loop is in the first round.
LEMMA QueuedRound ==
    ASSUME PcFacts, OwedFollowsLoop, RrFollows, ~SomeLoop, ~SomeLoop',
           NEW x \in Workers, PrintLine(x), PrintsQueued(x)
    PROVE  RrFollows'
<1>1. /\ rr' = RrAfter(rr, owed[x]) /\ owed[x].says = "queued" /\ owed[x].by = x
  BY DEF PrintLine, PrintsQueued, Said
<1>2. PICK q : q = rr.rrq
  OBVIOUS
<1>3. /\ rr = [ok |-> TRUE, step |-> 1, round |-> RoundOf, rrq |-> q]
      /\ \A w \in Workers : Looped(w) = 0
      /\ q \in Seq(Workers) /\ IsInjective(q) /\ \A w \in Workers : ~Contains(q, w)
  BY <1>2 DEF RrFollows, RoundQueue
<1>4. rr' = [ok |-> TRUE, step |-> 1, round |-> [RoundOf EXCEPT ![x] = 1], rrq |-> q]
  BY <1>1, <1>3 DEF RrAfter
<1>5. /\ \A w \in Workers : Looped(w)' = 0 /\ (w # x => (Active(w)' <=> Active(w)))
      /\ Active(x)'
  BY <1>3 DEF PrintsQueued, OthersSame, SameProgress, Active
<1>6. RoundOf' = [RoundOf EXCEPT ![x] = 1]
  BY <1>3, <1>5 DEF RoundOf
<1>7. rr'.step = 1 /\ rr'.rrq = q
  BY <1>4
<1>8. Rounds'
  BY <1>5, <1>7 DEF Rounds
<1>9. RoundQueue'
  BY <1>3, <1>5, <1>7, PrecedesWithin DEF RoundQueue
<1> QED BY <1>4, <1>5, <1>6, <1>7, <1>8, <1>9 DEF RrFollows

\* The lists before and after the head has its new place.
LEMMA ToTheBack ==
    ASSUME RoundQueue, NEW x \in Workers
    PROVE  /\ RemoveFirst(rr.rrq, x) \in Seq(Workers) /\ IsInjective(RemoveFirst(rr.rrq, x))
           /\ \A w \in Workers :
                 Contains(RemoveFirst(rr.rrq, x), w) <=> Contains(rr.rrq, w) /\ w # x
           /\ \A u, v \in Workers : Precedes(RemoveFirst(rr.rrq, x), u, v) => u # x /\ v # x
           /\ \A u, v \in Workers : Precedes(RemoveFirst(rr.rrq, x), u, v) => Ahead(u, v)
           /\ ~Contains(rr.rrq, x) => RemoveFirst(rr.rrq, x) = rr.rrq
<1>1. PICK q \in Seq(Workers) : q = rr.rrq /\ IsInjective(q)
  BY DEF RoundQueue
<1>2. PICK t : t = RemoveFirst(q, x)
  OBVIOUS
<1>3. /\ t \in Seq(Workers) /\ IsInjective(t)
      /\ \A w \in Workers : Contains(t, w) <=> Contains(q, w) /\ w # x
  BY <1>1, <1>2, RemoveFirstProperties
<1>4. \A u, v \in Workers : Precedes(t, u, v) => u # x /\ v # x
  BY <1>3, PrecedesWithin
<1>5. ASSUME NEW u \in Workers, NEW v \in Workers, Precedes(t, u, v) PROVE Ahead(u, v)
  <2>1. u # x /\ v # x
    BY <1>4, <1>5
  <2>2. Precedes(q, u, v)
    BY <1>1, <1>2, <1>5, <2>1, PrecedesRemove
  <2> QED BY <1>1, <2>2 DEF RoundQueue
<1>6. ~Contains(q, x) => t = q
  BY <1>2 DEF RemoveFirst, Contains
<1> QED BY <1>1, <1>2, <1>3, <1>4, <1>5, <1>6

\* The check's state after a loop line: the printer is the first, and its line opens a
\* round only when nobody is left in the one before.
LEMMA LoopRound ==
    ASSUME MaxRunning = 1, OneSlotInv, RrFollows, SomeLoop',
           NEW x \in Workers, PrintLine(x), PrintsLoop(x)
    PROVE  RrFollows'
<1>1. /\ PcFacts /\ OwedFollowsLoop /\ wpc[x] = "work" /\ owed[x] # Silent
  BY IInvPcFacts DEF OneSlotInv, LinesInv, PrintsLoop, PrintLine
<1>2. PICK c \in Nat, s \in Nat \ {0}, q \in Seq(Workers) :
          c = turns[x] /\ s = rr.step /\ q = rr.rrq
  BY <1>1 DEF PcFacts, RrFollows, RoundQueue
<1>3. /\ rr' = RrAfter(rr, owed[x])
      /\ owed[x].says = "loop" /\ owed[x].by = x /\ owed[x].loop = c
  BY <1>2 DEF PrintLine, PrintsLoop, Said
<1>4. Active(x) /\ Active(x)' /\ Looped(x) = c /\ Looped(x)' = c + 1
  BY <1>2 DEF PrintsLoop, Active
<1>5. /\ \A w \in Workers : w # x => (Active(w)' <=> Active(w)) /\ Looped(w)' = Looped(w)
      /\ \A w \in Workers : Looped(w) \in Nat
  BY <1>1, LoopedType DEF PrintsLoop, OthersSame, SameProgress, Active
<1>6. /\ \A w \in Workers : ~Moved(w) /\ ~Ahead(w, x)
      /\ \A w \in Workers : w # x /\ Active(w) => Ahead(x, w)
  BY <1>1, PrinterFirst
<1>7. /\ \A w \in Workers : w # x /\ Active(w) => c <= Looped(w) /\ Looped(w) <= c + 1
      /\ s = c \/ s = c + 1
  <2>1. c <= s /\ s <= c + 1
    BY <1>2, <1>4 DEF RrFollows, Rounds
  <2> QED BY <1>2, <1>4, <1>6, <2>1 DEF RrFollows, Rounds
<1>8. queue' = queue /\ Moved(x)' /\ \A w \in Workers : w # x => ~Moved(w)'
  BY <1>1, <1>6, OthersOrder DEF SameMoved
<1>9. PICK t : t = RemoveFirst(q, x)
  OBVIOUS
<1>10. /\ t \in Seq(Workers) /\ IsInjective(t) /\ ~Contains(t, x)
       /\ \A w \in Workers : Contains(t, w) <=> Contains(q, w) /\ w # x
       /\ \A u, v \in Workers : Precedes(t, u, v) => u # x /\ v # x /\ Ahead(u, v)
       /\ ~Contains(q, x) => t = q
  BY <1>2, <1>9, ToTheBack DEF RrFollows
<1>11. c = 0 \/ (q # <<>> /\ Head(q) = x)
  BY <1>2, <1>4, <1>6, FirstInRounds DEF RrFollows
<1>12. c = 0 => t = q
  BY <1>2, <1>4, <1>10 DEF RrFollows, RoundQueue
<1>13. rr = [ok |-> TRUE, step |-> s, round |-> RoundOf, rrq |-> q] /\ RoundOf[x] = c + 1
  BY <1>2, <1>4 DEF RrFollows, RoundOf
<1>14. s = c => \A v \in Workers : RoundOf[v] # s
  <2>1. ASSUME s = c, NEW v \in Workers PROVE RoundOf[v] # s
    <3>1. CASE v = x
      BY <1>2, <1>13, <2>1, <3>1
    <3>2. CASE v # x /\ Active(v)
      <4>1. RoundOf[v] = Looped(v) + 1 /\ c <= Looped(v) /\ Looped(v) \in Nat
        BY <1>5, <1>7, <3>2 DEF RoundOf
      <4> QED BY <1>2, <2>1, <4>1
    <3>3. CASE ~Active(v)
      BY <1>2, <3>3 DEF RoundOf
    <3> QED BY <3>1, <3>2, <3>3
  <2> QED BY <2>1
<1>15. rr' = [ok |-> TRUE, step |-> c + 1, round |-> [RoundOf EXCEPT ![x] = c + 2],
              rrq |-> Append(t, x)]
  <2>1. PICK r : r = RoundOf /\ r[x] = c + 1
    BY <1>13
  <2>2. PICK p : p = RrAfter([ok |-> TRUE, step |-> s, round |-> r, rrq |-> q], owed[x])
    OBVIOUS
  <2>3. rr' = p
    BY <1>3, <1>13, <2>1, <2>2
  <2>4. c + 2 = (c + 1) + 1
    BY <1>2
  <2>5. CASE s = c
    <3>1. (r[x] > s) = TRUE
      BY <1>2, <2>1, <2>5
    <3>2. \A v \in Workers : r[v] # s
      BY <1>14, <2>1, <2>5
    <3>3. p = [ok |-> TRUE, step |-> c + 1, round |-> [r EXCEPT ![x] = (c + 1) + 1],
               rrq |-> Append(t, x)]
      BY <1>3, <1>9, <1>11, <1>12, <2>2, <2>5, <3>1, <3>2 DEF RrAfter
    <3> QED BY <2>1, <2>3, <2>4, <3>3
  <2>6. CASE s = c + 1
    <3>1. (r[x] > s) = FALSE
      BY <1>2, <2>1, <2>6
    <3>2. p = [ok |-> TRUE, step |-> c + 1, round |-> [r EXCEPT ![x] = (c + 1) + 1],
               rrq |-> Append(t, x)]
      BY <1>3, <1>9, <1>11, <1>12, <2>2, <2>6, <3>1 DEF RrAfter
    <3> QED BY <2>1, <2>3, <2>4, <3>2
  <2> QED BY <1>7, <2>5, <2>6
<1>16. RoundOf' = [RoundOf EXCEPT ![x] = c + 2]
  <2>1. \A w \in Workers : RoundOf'[w] = IF w = x THEN c + 2 ELSE RoundOf[w]
    BY <1>2, <1>4, <1>5 DEF RoundOf
  <2> QED BY <2>1 DEF RoundOf
<1>17. rr'.step = c + 1 /\ rr'.rrq = Append(t, x) /\ c + 1 \in Nat \ {0}
  BY <1>2, <1>15
<1>18. Rounds'
  <2>1. ASSUME NEW u \in Workers, NEW v \in Workers, Active(u)', Active(v)', Ahead(u, v)'
        PROVE  Looped(u)' <= Looped(v)' /\ Looped(v)' <= Looped(u)' + 1
    <3>1. u # x
      BY <1>8, <2>1 DEF Ahead
    <3>2. CASE v = x
      BY <1>2, <1>4, <1>5, <1>7, <2>1, <3>1, <3>2
    <3>3. CASE v # x
      <4>1. Ahead(u, v)
        BY <1>6, <1>8, <2>1, <3>3 DEF Ahead, Precedes
      <4> QED BY <1>5, <2>1, <3>1, <3>3, <4>1 DEF RrFollows, Rounds
    <3> QED BY <3>2, <3>3
  <2>2. ASSUME NEW w \in Workers, Active(w)'
        PROVE  Looped(w)' <= c + 1 /\ c + 1 <= Looped(w)' + 1
    BY <1>2, <1>4, <1>5, <1>7, <2>2
  <2> QED BY <1>17, <2>1, <2>2 DEF Rounds
<1>19. RoundQueue'
  <2>1. /\ Append(t, x) \in Seq(Workers) /\ IsInjective(Append(t, x))
        /\ \A w \in Workers : Contains(Append(t, x), w) <=> Contains(t, w) \/ w = x
    BY <1>10, InsertTailProperties
  <2>2. \A w \in Workers : Contains(Append(t, x), w) <=> Active(w)' /\ Looped(w)' > 0
    <3>1. \A w \in Workers : Contains(q, w) <=> Active(w) /\ Looped(w) > 0
      BY <1>2 DEF RrFollows, RoundQueue
    <3>2. c + 1 > 0
      BY <1>2
    <3> QED BY <1>4, <1>5, <1>10, <2>1, <3>1, <3>2
  <2>3. ASSUME NEW u \in Workers, NEW v \in Workers, Precedes(Append(t, x), u, v)
        PROVE  Ahead(u, v)'
    <3>1. u # x
      BY <1>10, <2>3, PrecedesAppend
    <3>2. CASE v = x
      BY <1>8, <3>1, <3>2 DEF Ahead
    <3>3. CASE v # x
      <4>1. Ahead(u, v)
        BY <1>10, <2>3, <3>1, <3>3, PrecedesAppend
      <4> QED BY <1>6, <1>8, <3>1, <3>3, <4>1 DEF Ahead, Precedes
    <3> QED BY <3>2, <3>3
  <2> QED BY <1>17, <2>1, <2>2, <2>3 DEF RoundQueue
<1> QED BY <1>15, <1>16, <1>17, <1>18, <1>19 DEF RrFollows

\* A worker that exits is the first of the round, and leaves the others in their order.
LEMMA ExitRound ==
    ASSUME MaxRunning = 1, Iterations > 0, OneSlotInv, RrFollows, SomeLoop' <=> SomeLoop,
           NEW x \in Workers, PrintLine(x), PrintsExiting(x)
    PROVE  RrFollows'
<1>1. /\ PcFacts /\ OwedFollowsLoop /\ wpc[x] = "leave" /\ owed[x] # Silent
  BY IInvPcFacts DEF OneSlotInv, LinesInv, PrintsExiting, PrintLine
<1>2. PICK s \in Nat \ {0}, q \in Seq(Workers) : s = rr.step /\ q = rr.rrq
  BY DEF RrFollows, RoundQueue
<1>3. /\ rr' = RrAfter(rr, owed[x]) /\ owed[x].says = "exiting" /\ owed[x].by = x
  BY DEF PrintLine, PrintsExiting, Said
<1>4. Active(x) /\ ~Active(x)' /\ Looped(x) > 0 /\ Looped(x)' = Looped(x)
  BY DEF PrintsExiting, Active
<1>5. \A w \in Workers : w # x => (Active(w)' <=> Active(w)) /\ Looped(w)' = Looped(w)
  BY DEF PrintsExiting, OthersSame, SameProgress, Active
<1>6. \A w \in Workers : ~Ahead(w, x)
  BY <1>1, PrinterFirst
<1>7. /\ queue' = queue /\ \A w \in Workers : SameMoved(w)
  BY <1>1, OthersOrder
<1>8. \A u, v \in Workers : Ahead(u, v)' <=> Ahead(u, v)
  BY <1>7 DEF Ahead, Precedes, SameMoved
<1>9. PICK t : t = RemoveFirst(q, x)
  OBVIOUS
<1>10. /\ t \in Seq(Workers) /\ IsInjective(t)
       /\ \A w \in Workers : Contains(t, w) <=> Contains(q, w) /\ w # x
       /\ \A u, v \in Workers : Precedes(t, u, v) => Ahead(u, v)
  BY <1>2, <1>9, ToTheBack DEF RrFollows
<1>11. q # <<>> /\ Head(q) = x
  BY <1>2, <1>4, <1>6, FirstInRounds DEF RrFollows
<1>12. rr = [ok |-> TRUE, step |-> s, round |-> RoundOf, rrq |-> q]
  BY <1>2 DEF RrFollows
<1>13. rr' = [ok |-> TRUE, step |-> s, round |-> [RoundOf EXCEPT ![x] = 0], rrq |-> t]
  BY <1>3, <1>9, <1>11, <1>12 DEF RrAfter
<1>14. RoundOf' = [RoundOf EXCEPT ![x] = 0]
  BY <1>4, <1>5 DEF RoundOf
<1>15. rr'.step = s /\ rr'.rrq = t
  BY <1>13
<1>16. Rounds'
  BY <1>2, <1>4, <1>5, <1>8, <1>15 DEF RrFollows, Rounds
<1>17. RoundQueue'
  <2>1. \A w \in Workers : Contains(q, w) <=> Active(w) /\ Looped(w) > 0
    BY <1>2 DEF RrFollows, RoundQueue
  <2>2. \A w \in Workers : Contains(t, w) <=> Active(w)' /\ Looped(w)' > 0
    BY <1>4, <1>5, <1>10, <2>1
  <2> QED BY <1>8, <1>10, <1>15, <2>2 DEF RoundQueue
<1>18. SomeLoop'
  BY <1>4 DEF RrFollows
<1> QED BY <1>2, <1>13, <1>14, <1>15, <1>16, <1>17, <1>18 DEF RrFollows

LEMMA RrStep ==
    ASSUME Policy = "rr", MaxRunning = 1, Iterations > 0, OneSlotInv, NoneLate => RrFollows,
           NoneLate', [TNext]_testVars
    PROVE  RrFollows'
<1>1. PcFacts /\ OwedFollowsLoop /\ out \in Seq(Lines)
  BY IInvPcFacts DEF OneSlotInv, LinesInv
<1>2. CASE UNCHANGED testVars
  <2>1. /\ wpc' = wpc /\ turns' = turns /\ owed' = owed /\ rr' = rr /\ out' = out /\ queue' = queue
    BY <1>2 DEF testVars, fileVars, vars, workerVars, sharedVars
  <2>2. \A w \in Workers : SameProgress(w)
    BY <2>1 DEF SameProgress, Admitted, Exited, Looped, Looping
  <2>3. \A u, v \in Workers : Ahead(u, v)' <=> Ahead(u, v)
    BY <2>1 DEF Ahead, Moved, Looping, Precedes
  <2>4. (SomeLoop' <=> SomeLoop) /\ NoneLate
    BY <2>1 DEF SomeLoop, NoneLate
  <2> QED BY <1>1, <2>1, <2>2, <2>3, <2>4, RoundsKept
<1>3. CASE MainActs \/ SchedActs \/ \E x \in Workers : WorkerActs(x)
  <2>1. rr' = rr /\ out' = out
    BY <1>3 DEF MainActs, SchedActs, WorkerActs, fileVars
  <2>2. \A w \in Workers : SameProgress(w)
    BY <1>1, <1>3, UnprintedStep DEF OneSlotInv
  <2>3. \A u, v \in Workers : u # v /\ Active(u) /\ Active(v) => (Ahead(u, v)' <=> Ahead(u, v))
    BY <1>3, OrderKept
  <2>4. (SomeLoop' <=> SomeLoop) /\ NoneLate
    BY <2>1 DEF SomeLoop, NoneLate
  <2> QED BY <1>1, <2>1, <2>2, <2>3, <2>4, RoundsKept
<1>4. ASSUME NEW a \in {Sched, Main}, PrintLine(a) PROVE RrFollows'
  <2>1. /\ rr' = rr /\ (\A w \in Workers : SameProgress(w))
    BY <1>1, <1>4, OtherPrints
  <2>2. owed[a].says \notin {"loop", "queued"} /\ a \in Printers
    BY <1>1, <1>4, OtherPrints DEF Printers
  <2>3. (SomeLoop' <=> SomeLoop) /\ NoneLate
    BY <1>1, <1>4, <2>2, LineAfter
  <2>4. /\ wpc' = wpc /\ queue' = queue /\ \A w \in Workers : owed'[w] = owed[w]
    BY <1>1, <1>4 DEF PrintLine, vars, workerVars, sharedVars, OwedFollowsLoop, Printers, PcFacts
  <2>5. \A u, v \in Workers : Ahead(u, v)' <=> Ahead(u, v)
    BY <2>4 DEF Ahead, Moved, Looping, Precedes
  <2> QED BY <1>1, <2>1, <2>3, <2>5, RoundsKept
<1>5. ASSUME NEW x \in Workers, PrintLine(x) PROVE RrFollows'
  <2>1. x \in Printers
    BY DEF Printers
  <2>2. /\ RrFollows /\ (SomeLoop' <=> SomeLoop \/ owed[x].says = "loop")
        /\ owed[x].says = "queued" => ~SomeLoop
    BY <1>1, <1>5, <2>1, LineAfter
  <2>3. CASE PrintsQueued(x)
    <3>1. owed[x].says = "queued"
      BY <2>3 DEF PrintsQueued, Said
    <3> QED BY <1>1, <1>5, <2>2, <2>3, <3>1, QueuedRound
  <2>4. CASE PrintsLoop(x)
    <3>1. owed[x].says = "loop"
      BY <2>4 DEF PrintsLoop, Said
    <3> QED BY <1>5, <2>2, <2>4, <3>1, LoopRound
  <2>5. CASE PrintsExiting(x)
    <3>1. owed[x].says = "exiting"
      BY <2>5 DEF PrintsExiting, Said
    <3> QED BY <1>5, <2>2, <2>5, <3>1, ExitRound
  <2> QED BY <1>1, <1>5, <2>3, <2>4, <2>5, WorkerPrints
<1>6. ASSUME NEW a \in Printers, PrintLine(a) PROVE RrFollows'
  BY <1>4, <1>5, <1>6 DEF Printers
<1> QED BY <1>2, <1>3, <1>6 DEF TNext

\* Until a worker loops none has left, so that with no late worker all of them have been
\* in the queue at once.
CrowdSeen == size.max >= Cardinality(Entrants)

LEMMA CrowdStep ==
    ASSUME Policy = "rr", Iterations > 0, OneSlotInv, NoneLate => RrFollows /\ CrowdSeen,
           NoneLate', [TNext]_testVars
    PROVE  CrowdSeen'
<1>1. PcFacts /\ OwedFollowsLoop /\ SizeFollows /\ out \in Seq(Lines)
  BY IInvPcFacts DEF OneSlotInv, LinesInv
<1>2. ASSUME size' = size, out' = out, Entrants' = Entrants PROVE CrowdSeen'
  BY <1>2 DEF CrowdSeen, NoneLate
<1>3. CASE UNCHANGED testVars
  <2>1. wpc' = wpc /\ owed' = owed /\ size' = size /\ out' = out
    BY <1>3 DEF testVars, fileVars, vars, workerVars
  <2> QED BY <1>2, <2>1 DEF Entrants, Admitted
<1>4. CASE MainActs \/ SchedActs \/ \E x \in Workers : WorkerActs(x)
  <2>1. size' = size /\ out' = out
    BY <1>4 DEF MainActs, SchedActs, WorkerActs, fileVars
  <2>2. \A w \in Workers : SameProgress(w)
    BY <1>1, <1>4, UnprintedStep DEF OneSlotInv
  <2> QED BY <1>2, <2>1, <2>2, SameCounts
<1>5. ASSUME NEW a \in Printers, PrintLine(a), owed[a].says # "queued",
             Entrants' = Entrants, size'.max = size.max
      PROVE  CrowdSeen'
  <2>1. NoneLate
    BY <1>1, <1>5, LineAfter
  <2> QED BY <1>5, <2>1 DEF CrowdSeen
<1>6. ASSUME NEW a \in {Sched, Main}, PrintLine(a) PROVE CrowdSeen'
  <2>1. /\ owed[a].says # "queued" /\ a \in Printers /\ size' = size
        /\ \A w \in Workers : SameProgress(w)
    BY <1>1, <1>6, OtherPrints DEF Printers
  <2> QED BY <1>5, <1>6, <2>1, SameCounts
<1>7. ASSUME NEW x \in Workers, PrintLine(x) PROVE CrowdSeen'
  <2>1. x \in Printers /\ size' = SizeAfter(size, owed[x])
    BY <1>7 DEF Printers, PrintLine
  <2>2. CASE PrintsLoop(x) \/ PrintsExiting(x)
    <3>1. owed[x].says \in {"loop", "exiting"}
      BY <2>2 DEF PrintsLoop, PrintsExiting, Said
    <3>2. size'.max = size.max
      BY <1>1, <2>1, <3>1 DEF SizeAfter, SizeFollows
    <3>3. Entrants' = Entrants
      BY <2>2 DEF PrintsLoop, PrintsExiting, OthersSame, SameProgress, Entrants
    <3> QED BY <1>5, <1>7, <2>1, <3>1, <3>2, <3>3
  <2>3. CASE PrintsQueued(x)
    <3>1. owed[x].says = "queued"
      BY <2>3 DEF PrintsQueued, Said
    <3>2. RrFollows /\ ~SomeLoop
      BY <1>1, <1>7, <2>1, <3>1, LineAfter
    <3>3. Leavers = {}
      <4>1. ASSUME NEW w \in Workers, Exited(w) PROVE FALSE
        <5>1. Looped(w) = 0
          BY <3>2 DEF RrFollows
        <5>2. /\ turns[w] \in Nat /\ Iterations \in Nat
              /\ turns[w] > Iterations \/ turns[w] = Iterations
          BY <1>1, <4>1 DEF Exited, PcFacts, TurnsFollowLoop
        <5> QED BY <5>1, <5>2 DEF Looped
      <4> QED BY <4>1 DEF Leavers
    <3>4. Cardinality(Leavers) = 0
      BY <3>3, FS_EmptySet
    <3>5. Entrants' = Entrants \cup {x} /\ x \notin Entrants
      BY <2>3 DEF PrintsQueued, OthersSame, SameProgress, Entrants
    <3>6. Cardinality(Entrants') = Cardinality(Entrants) + 1
      BY <1>1, <3>5, LeaversEntered, FS_AddElement
    <3>7. PICK n, h \in Nat :
             /\ n = Cardinality(Entrants)
             /\ size = [now |-> n, max |-> h, min |-> 0, admitted |-> n]
      BY <1>1, <3>4, LeaversEntered DEF SizeFollows
    <3>8. size'.max = IF n + 1 > h THEN n + 1 ELSE h
      BY <2>1, <3>1, <3>7 DEF SizeAfter
    <3> QED BY <3>6, <3>7, <3>8 DEF CrowdSeen
  <2> QED BY <1>1, <1>7, <2>2, <2>3, WorkerPrints
<1>8. ASSUME NEW a \in Printers, PrintLine(a) PROVE CrowdSeen'
  BY <1>6, <1>7, <1>8 DEF Printers
<1> QED BY <1>3, <1>4, <1>8 DEF TNext

\* With one slot, no late worker and loops to make, the workers loop in rounds, in one
\* order that does not change but by exits; all of them have been in the queue at once,
\* so that the round-robin tests pass a run only if queue_size is as large as that.
THEOREM RrDecided == TSpec => []RrVerdict
<1>1. CASE Policy = "rr" /\ MaxRunning = 1 /\ Iterations > 0
  <2>1. ASSUME TInit PROVE RrFollows /\ CrowdSeen
    <3>1. /\ rr = [ok |-> TRUE, step |-> 1, round |-> [w \in Workers |-> 0], rrq |-> <<>>]
          /\ \A w \in Workers : ~Active(w) /\ Looped(w) = 0
      BY <2>1, InitCounts DEF TInit, FirstRound, Active
    <3>2. RoundOf = [w \in Workers |-> 0]
      BY <3>1 DEF RoundOf
    <3>3. Rounds
      BY <3>1 DEF Rounds
    <3>4. RoundQueue
      <4>1. rr.rrq = <<>>
        BY <3>1
      <4>2. \A w \in Workers : ~Contains(<<>>, w)
        BY DEF Contains
      <4> QED BY <3>1, <4>1, <4>2 DEF RoundQueue, Precedes, IsInjective
    <3>5. CrowdSeen
      <4>1. size.max = 0
        BY <2>1 DEF TInit, NoneEntered
      <4>2. Cardinality(Entrants) = 0
        BY <2>1, InitCounts, FS_EmptySet
      <4> QED BY <4>1, <4>2 DEF CrowdSeen
    <3> QED BY <3>1, <3>2, <3>3, <3>4, <3>5 DEF RrFollows
  <2>2. OneSlotInv /\ (NoneLate => RrFollows /\ CrowdSeen) /\ [TNext]_testVars
          => (NoneLate => RrFollows /\ CrowdSeen)'
    BY <1>1, RrStep, CrowdStep
  <2>3. ASSUME EndInv, NoneLate => RrFollows /\ CrowdSeen, RudimentaryVerdict PROVE RrVerdict
    <3>1. NoneLate => rr.ok
      BY <2>3 DEF RrFollows
    <3>2. ASSUME Complete, NoneLate
          PROVE  check_rr <=> (check_for_done /\ NumThreads <= QueueSize)
      <4>1. RrAfter(rr, Again) = rr
        BY <2>3, <3>2, AgainIsNoWorker DEF RrAfter
      <4>2. /\ size.max \in Nat /\ size.max <= NumThreads /\ SizeAfter(size, Again) = size
            /\ Cardinality(Entrants) = NumThreads
        BY <2>3, <3>2, WhenComplete DEF EndInv
      <4>3. size.max = NumThreads
        BY <2>3, <3>2, <4>2, ConstantsAssumption DEF ConstantsAssumption, CrowdSeen
      <4>4. QueueWithin <=> NumThreads <= QueueSize
        BY <4>2, <4>3 DEF QueueWithin
      <4> QED BY <2>3, <3>1, <3>2, <4>1, <4>4 DEF RudimentaryVerdict, check_rr
    <3> QED BY <2>3, <3>1, <3>2 DEF RrVerdict
  <2>4. TSpec => []OneSlotInv
    BY <1>1, OneSlotAlways
  <2> QED BY <2>1, <2>2, <2>3, <2>4, EndAlways, RudimentaryDecided, PTL DEF TSpec
<1>2. CASE ~(Policy = "rr" /\ MaxRunning = 1 /\ Iterations > 0)
  <2>1. RudimentaryVerdict => RrVerdict
    BY <1>2 DEF RrVerdict
  <2> QED BY <2>1, RudimentaryDecided, PTL
<1> QED BY <1>1, <1>2
=============================================================================
