----------------------------- MODULE Scheduler ------------------------------
(***************************************************************************)
(* totw_p4: one scheduler thread, NumThreads worker threads and the main   *)
(* thread that starts them (scheduler.c), with the FIFO or the round-robin *)
(* operations (sched_impl.c) over doubly linked lists (list.c).            *)
(*                                                                         *)
(* Every operation on one of the two lists runs from sem_wait(lst->sem) to *)
(* sem_post(lst->sem) and is one action.  Everything between two such      *)
(* operations, two semaphore calls or two accesses to the unprotected      *)
(* counter is a step of its own: a pc value names the point the thread is  *)
(* at.  A thread is named by its index in argses, 1 .. NumThreads.         *)
(***************************************************************************)
EXTENDS Integers, Sequences, FiniteSets, SequencesExt

CONSTANTS
    NumThreads,     \* thread_count: atoi(argv[3])
    QueueSize,      \* queue_size: atoi(argv[2]), 0 for text that is no number
    Iterations,     \* iterations: atoi(argv[4])
    Policy,         \* the implementation argv[1] selects
    CreateMayFail   \* whether pthread_create may return an error

ASSUME ConstantsAssumption ==
    /\ NumThreads \in Nat /\ QueueSize \in Int /\ Iterations \in Nat
    /\ Policy \in {"fifo", "rr"}
    /\ CreateMayFail \in BOOLEAN

Workers == 1 .. NumThreads
NoWorker == 0                       \* NULL
ASSUME NoWorkerAssumption == NoWorker \notin Workers

\* sem_init(sem, 0, queue_size - 1) fails for a negative value and leaves the
\* zero that calloc wrote.  A scheduler with n tokens runs n + 1 workers.
Tokens == IF QueueSize >= 1 THEN QueueSize - 1 ELSE 0
MaxRunning == Tokens + 1

VARIABLES
    queue,       \* sq->queue: the workers in the scheduler queue, head first
    running,     \* sq->running: the workers the scheduler has woken
    sqSem,       \* sq->sem: how many more workers may be woken
    cpuSem,      \* info->sem of each worker
    numWorkers,  \* num_workers_remaining
    doneThing,   \* the static done_thing of wait_for_queue
    spc,         \* the scheduler thread
    cand,        \* its cursor in next_worker: the worker whose element elt is
    wpc,         \* each worker thread
    turns,       \* how many times each worker has called release_cpu
    reg,         \* the register in which num_workers_remaining-- subtracts
    mpc,         \* the main thread
    created,     \* i of create_workers
    proc         \* the process: running, exited (exit_error), crashed

sharedVars == <<queue, running, sqSem, cpuSem, numWorkers>>
schedVars == <<doneThing, spc, cand>>
workerVars == <<wpc, turns, reg>>
mainVars == <<mpc, created, proc>>
vars == <<sharedVars, schedVars, workerVars, mainVars>>

SchedPc == {"none", "wait_queue", "check", "peek", "test", "advance", "insert",
            "post", "wait_worker", "done"}
WorkerPc == {"none", "enter", "wait", "work", "leave", "load", "store", "release",
             "requeue_out", "requeue_in", "post", "done"}
MainPc == {"start", "count", "create", "join", "end"}

Init ==
    /\ queue = <<>> /\ running = <<>> /\ sqSem = Tokens
    /\ cpuSem = [w \in Workers |-> 0]
    /\ numWorkers = 0 /\ doneThing = FALSE
    /\ spc = "none" /\ cand = NoWorker
    /\ wpc = [w \in Workers |-> "none"]
    /\ turns = [w \in Workers |-> 0] /\ reg = [w \in Workers |-> 0]
    /\ mpc = "start" /\ created = 0 /\ proc = "running"

-----------------------------------------------------------------------------
(* The main thread                                                         *)

MainAt(pc) == proc = "running" /\ mpc = pc

ExitError == proc' = "exited" /\ UNCHANGED <<mpc, created>>

StartScheduler ==
    /\ MainAt("start")
    /\ \/ /\ mpc' = "count" /\ spc' = "wait_queue"
          /\ UNCHANGED <<created, proc, doneThing, cand>>
       \/ /\ CreateMayFail /\ ExitError
          /\ UNCHANGED schedVars
    /\ UNCHANGED <<sharedVars, workerVars>>

\* Mutant of SetCount: one worker is not counted.
SetCountShort ==
    /\ MainAt("count")
    /\ numWorkers' = NumThreads - 1
    /\ mpc' = "create"
    /\ UNCHANGED <<queue, running, sqSem, cpuSem, schedVars, workerVars, created, proc>>

SetCount ==
    /\ MainAt("count")
    /\ numWorkers' = NumThreads
    /\ mpc' = "create"
    /\ UNCHANGED <<queue, running, sqSem, cpuSem, schedVars, workerVars, created, proc>>

\* Mutant of CreateWorker: the loop runs once more.
CreateOneMore ==
    /\ MainAt("create") /\ created <= NumThreads
    /\ created' = created + 1
    /\ wpc' = [wpc EXCEPT ![created + 1] = "enter"]
    /\ UNCHANGED <<sharedVars, schedVars, turns, reg, mpc, proc>>

CreateWorker ==
    /\ MainAt("create") /\ created < NumThreads
    /\ \/ /\ created' = created + 1
          /\ wpc' = [wpc EXCEPT ![created + 1] = "enter"]
          /\ UNCHANGED <<mpc, proc>>
       \/ CreateMayFail /\ ExitError /\ UNCHANGED wpc
    /\ UNCHANGED <<sharedVars, schedVars, turns, reg>>

AllCreated ==
    /\ MainAt("create") /\ created >= NumThreads
    /\ mpc' = "join"
    /\ UNCHANGED <<sharedVars, schedVars, workerVars, created, proc>>

\* Mutant of CleanUp: main does not join the scheduler thread.
CleanUpUnjoined ==
    /\ MainAt("join")
    /\ mpc' = "end"
    /\ UNCHANGED <<sharedVars, schedVars, workerVars, created, proc>>

\* pthread_join returns, and clean_up frees every thread_info, argses, the two
\* lists and their semaphores.
CleanUp ==
    /\ MainAt("join") /\ spc = "done"
    /\ mpc' = "end"
    /\ UNCHANGED <<sharedVars, schedVars, workerVars, created, proc>>

MainStep == StartScheduler \/ SetCount \/ CreateWorker \/ AllCreated \/ CleanUp

-----------------------------------------------------------------------------
(* The scheduler thread                                                    *)

SchedAt(pc) == proc = "running" /\ spc = pc

\* The busy wait on wrapper_size, on the first call only.
WaitForQueue ==
    /\ SchedAt("wait_queue")
    /\ doneThing \/ queue # <<>>
    /\ doneThing' = TRUE
    /\ spc' = "check"
    /\ UNCHANGED <<sharedVars, cand, workerVars, mainVars>>

\* Mutants of CheckRemaining: the loop of sched_proc is left one worker late,
\* one worker early.
CheckRemainingLate ==
    /\ SchedAt("check")
    /\ spc' = IF numWorkers >= 0 THEN "peek" ELSE "done"
    /\ UNCHANGED <<sharedVars, doneThing, cand, workerVars, mainVars>>

CheckRemainingEarly ==
    /\ SchedAt("check")
    /\ spc' = IF numWorkers > 1 THEN "peek" ELSE "done"
    /\ UNCHANGED <<sharedVars, doneThing, cand, workerVars, mainVars>>

CheckRemaining ==
    /\ SchedAt("check")
    /\ spc' = IF numWorkers > 0 THEN "peek" ELSE "done"
    /\ UNCHANGED <<sharedVars, doneThing, cand, workerVars, mainVars>>

\* next_worker begins at the head; NULL sends sched_proc to wait_for_queue.
NextWorkerFrom(w) ==
    /\ cand' = w
    /\ spc' = IF w = NoWorker THEN "wait_queue" ELSE "test"

\* Mutant of PeekHead: the search begins at the tail.
PeekTail ==
    /\ SchedAt("peek")
    /\ NextWorkerFrom(IF queue = <<>> THEN NoWorker ELSE Last(queue))
    /\ UNCHANGED <<sharedVars, doneThing, workerVars, mainVars>>

PeekHead ==
    /\ SchedAt("peek")
    /\ NextWorkerFrom(IF queue = <<>> THEN NoWorker ELSE Head(queue))
    /\ UNCHANGED <<sharedVars, doneThing, workerVars, mainVars>>

\* Mutant of TestRunning: running is not looked at.
TestNothing ==
    /\ SchedAt("test")
    /\ spc' = "insert"
    /\ UNCHANGED <<sharedVars, doneThing, cand, workerVars, mainVars>>

TestRunning ==
    /\ SchedAt("test")
    /\ spc' = IF Contains(running, cand) THEN "advance" ELSE "insert"
    /\ UNCHANGED <<sharedVars, doneThing, cand, workerVars, mainVars>>

Successor(w) ==
    LET i == CHOOSE j \in DOMAIN queue : queue[j] = w
    IN  IF i = Len(queue) THEN NoWorker ELSE queue[i + 1]

\* elt = elt->next is read with no lock.  If remove_item has freed the element
\* since, the read finds the NULL list_remove_elem left, or the allocator's
\* own word, and the next dereference of that crashes.
Advance ==
    /\ SchedAt("advance")
    /\ \/ /\ Contains(queue, cand)
          /\ NextWorkerFrom(Successor(cand)) /\ UNCHANGED proc
       \/ /\ ~Contains(queue, cand)
          /\ NextWorkerFrom(NoWorker) /\ UNCHANGED proc
       \/ /\ ~Contains(queue, cand)
          /\ proc' = "crashed" /\ UNCHANGED <<spc, cand>>
    /\ UNCHANGED <<sharedVars, doneThing, workerVars, mpc, created>>

WakeInsert ==
    /\ SchedAt("insert")
    /\ running' = Append(running, cand)
    /\ spc' = "post"
    /\ UNCHANGED <<queue, sqSem, cpuSem, numWorkers, doneThing, cand, workerVars, mainVars>>

WakePost ==
    /\ SchedAt("post")
    /\ cpuSem' = [cpuSem EXCEPT ![cand] = @ + 1]
    /\ spc' = "wait_worker"
    /\ UNCHANGED <<queue, running, sqSem, numWorkers, doneThing, cand, workerVars, mainVars>>

\* Mutant of WaitForWorker: the token is looked at and not taken.
WaitWithoutTaking ==
    /\ SchedAt("wait_worker") /\ sqSem > 0
    /\ spc' = "check"
    /\ UNCHANGED <<sharedVars, doneThing, cand, workerVars, mainVars>>

WaitForWorker ==
    /\ SchedAt("wait_worker") /\ sqSem > 0
    /\ sqSem' = sqSem - 1
    /\ spc' = "check"
    /\ UNCHANGED <<queue, running, cpuSem, numWorkers, doneThing, cand, workerVars, mainVars>>

SchedStep ==
    \/ WaitForQueue \/ CheckRemaining \/ PeekHead \/ TestRunning \/ Advance
    \/ WakeInsert \/ WakePost \/ WaitForWorker

-----------------------------------------------------------------------------
(* A worker thread                                                         *)

GoTo(w, from, to) ==
    /\ proc = "running" /\ wpc[w] = from
    /\ wpc' = [wpc EXCEPT ![w] = to]

EnterQueue(w) ==
    /\ GoTo(w, "enter", "wait")
    /\ queue' = Append(queue, w)
    /\ UNCHANGED <<running, sqSem, cpuSem, numWorkers, schedVars, turns, reg, mainVars>>

WaitForCpu(w) ==
    /\ cpuSem[w] > 0
    /\ GoTo(w, "wait", IF turns[w] < Iterations THEN "work" ELSE "leave")
    /\ cpuSem' = [cpuSem EXCEPT ![w] = @ - 1]
    /\ UNCHANGED <<queue, running, sqSem, numWorkers, schedVars, turns, reg, mainVars>>

LeaveQueue(w) ==
    /\ GoTo(w, "leave", "load")
    /\ queue' = RemoveFirst(queue, w)
    /\ UNCHANGED <<running, sqSem, cpuSem, numWorkers, schedVars, turns, reg, mainVars>>

\* num_workers_remaining--, compiled without optimisation: load, then store.
LoadCount(w) ==
    /\ GoTo(w, "load", "store")
    /\ reg' = [reg EXCEPT ![w] = numWorkers]
    /\ UNCHANGED <<sharedVars, schedVars, turns, mainVars>>

StoreCount(w) ==
    /\ GoTo(w, "store", "release")
    /\ numWorkers' = reg[w] - 1
    /\ UNCHANGED <<queue, running, sqSem, cpuSem, schedVars, turns, reg, mainVars>>

\* release_cpu, called by the loop (at work) and before pthread_exit (at
\* release): out of running, then round robin moves the worker to the tail of
\* the queue, then the token.
ReleaseRunning(w) ==
    /\ \E from \in {"work", "release"} :
          GoTo(w, from, IF Policy = "rr" THEN "requeue_out" ELSE "post")
    /\ running' = RemoveFirst(running, w)
    /\ turns' = [turns EXCEPT ![w] = @ + 1]
    /\ UNCHANGED <<queue, sqSem, cpuSem, numWorkers, schedVars, reg, mainVars>>

RequeueOut(w) ==
    /\ GoTo(w, "requeue_out", "requeue_in")
    /\ queue' = RemoveFirst(queue, w)
    /\ UNCHANGED <<running, sqSem, cpuSem, numWorkers, schedVars, turns, reg, mainVars>>

\* Mutants of RequeueIn: the worker goes back to the head, or nowhere.
RequeueAtHead(w) ==
    /\ GoTo(w, "requeue_in", "post")
    /\ queue' = <<w>> \o queue
    /\ UNCHANGED <<running, sqSem, cpuSem, numWorkers, schedVars, turns, reg, mainVars>>

RequeueNowhere(w) ==
    /\ GoTo(w, "requeue_in", "post")
    /\ UNCHANGED <<sharedVars, schedVars, turns, reg, mainVars>>

RequeueIn(w) ==
    /\ GoTo(w, "requeue_in", "post")
    /\ queue' = Append(queue, w)
    /\ UNCHANGED <<running, sqSem, cpuSem, numWorkers, schedVars, turns, reg, mainVars>>

\* Mutant of ReleasePost: a worker that ends posts no token.
ReleaseLost(w) ==
    /\ GoTo(w, "post", IF turns[w] > Iterations THEN "done" ELSE "wait")
    /\ sqSem' = IF turns[w] > Iterations THEN sqSem ELSE sqSem + 1
    /\ UNCHANGED <<queue, running, cpuSem, numWorkers, schedVars, turns, reg, mainVars>>

ReleasePost(w) ==
    /\ GoTo(w, "post", IF turns[w] > Iterations THEN "done" ELSE "wait")
    /\ sqSem' = sqSem + 1
    /\ UNCHANGED <<queue, running, cpuSem, numWorkers, schedVars, turns, reg, mainVars>>

Releasing == {"release", "requeue_out", "requeue_in", "post"}

\* After clean_up, info->sq and the lists are freed memory: it may still hold
\* what it held (the actions above), or the access may crash.
UseFreed(w) ==
    /\ MainAt("end") /\ wpc[w] \in Releasing
    /\ proc' = "crashed"
    /\ UNCHANGED <<sharedVars, schedVars, workerVars, mpc, created>>

WorkerStep(w) ==
    \/ EnterQueue(w) \/ WaitForCpu(w) \/ LeaveQueue(w) \/ LoadCount(w) \/ StoreCount(w)
    \/ ReleaseRunning(w) \/ RequeueOut(w) \/ RequeueIn(w) \/ ReleasePost(w)

-----------------------------------------------------------------------------
\* The process is over: exit_error, a crash, or its last thread has returned.
Ended ==
    \/ proc # "running"
    \/ mpc = "end" /\ spc = "done" /\ \A w \in Workers : wpc[w] = "done"

Rest == Ended /\ UNCHANGED vars

Next ==
    \/ MainStep
    \/ SchedStep
    \/ \E w \in Workers : WorkerStep(w) \/ UseFreed(w)
    \/ Rest

\* The operating system runs every thread, and each semaphore but the two list
\* locks has a single waiter.  A worker that touches freed memory may hang.
Fairness ==
    /\ WF_vars(MainStep)
    /\ WF_vars(SchedStep)
    /\ \A w \in Workers : WF_vars(mpc # "end" /\ WorkerStep(w))

Spec == Init /\ [][Next]_vars
FairSpec == Spec /\ Fairness

-----------------------------------------------------------------------------
(* Correctness                                                             *)

\* The worker has passed wait_for_cpu and is still listed in running.
HasCpu(w) == wpc[w] \in {"work", "leave", "load", "store", "release"}

\* Out of running, its token not yet posted.
GivingBack(w) == wpc[w] \in {"requeue_out", "requeue_in", "post"}

\* It has subtracted itself from num_workers_remaining.
Counted(w) == wpc[w] = "release" \/ turns[w] > Iterations

SchedHoldsGrant == spc \in {"post", "wait_worker"}

\* The types of the variables.
TypeOK ==
    /\ queue \in Seq(Workers) /\ running \in Seq(Workers)
    /\ sqSem \in Nat /\ cpuSem \in [Workers -> Nat]
    /\ numWorkers \in Int /\ doneThing \in BOOLEAN
    /\ spc \in SchedPc /\ cand \in Workers \cup {NoWorker}
    /\ spc \in {"test", "advance", "insert", "post"} => cand # NoWorker
    /\ wpc \in [Workers -> WorkerPc]
    /\ turns \in [Workers -> Nat] /\ reg \in [Workers -> Int]
    /\ mpc \in MainPc /\ created \in 0 .. NumThreads
    /\ proc \in {"running", "exited", "crashed"}

\* wake_up_worker and release_cpu keep the running list and the tokens of
\* sq->sem in step: every slot is a token, a listed worker, or a worker about to
\* post.  A token lost or posted twice stalls or overcommits the scheduler.
SlotAccounting ==
    Len(running) + Cardinality({w \in Workers : GivingBack(w)}) + sqSem
        = Tokens + (IF SchedHoldsGrant THEN 1 ELSE 0)

\* A worker is listed in running, once, exactly while it has been granted the
\* CPU: its wake-up is on its way, waits in info->sem, or was taken.  So
\* next_worker's test of running never wakes a worker twice.
GrantAccounting ==
    /\ IsInjective(running)
    /\ \A w \in Workers :
          /\ cpuSem[w] <= 1
          /\ Contains(running, w) <=>
                (cpuSem[w] = 1 \/ HasCpu(w) \/ (spc = "post" /\ cand = w))

\* However the threads interleave, no more workers are on the CPU than
\* queue_size; for queue_size 1, or one that is no positive number, one.
AtMostQueueSizeOnCpu ==
    \A S \in SUBSET Workers :
        (\A w \in S : HasCpu(w)) => Cardinality(S) <= MaxRunning

\* sched_proc returns, and main frees everything, only after every worker has
\* counted itself out, although the counter is read and written with no lock.
NeverDoneEarly == spc = "done" => \A w \in Workers : Counted(w)

\* A worker that still needs the CPU is in the scheduler queue, once, but for the
\* moment in which round robin moves it to the tail: the search of next_worker
\* cannot miss it.
WaitersStayQueued ==
    /\ IsInjective(queue)
    /\ \A w \in Workers :
          (\/ wpc[w] \in {"wait", "work", "leave"}
           \/ wpc[w] \in {"requeue_out", "post"} /\ turns[w] <= Iterations)
            => Contains(queue, w)

\* With one slot the counter is exact: no decrement is lost.
CountExact ==
    (MaxRunning = 1 /\ mpc \notin {"start", "count"}) =>
        numWorkers = NumThreads - Cardinality({w \in Workers : Counted(w)})

\* With one slot the cursor of next_worker never rests on a freed element, and
\* clean_up frees nothing that a worker still uses.
NothingFreedInUse ==
    MaxRunning = 1 =>
        /\ spc \in {"test", "advance"} => Contains(queue, cand)
        /\ mpc = "end" => \A w \in Workers : wpc[w] = "done"

\* The program ends by itself: sched_proc sees the counter at 0 and every thread returns.
Terminates == <>(Ended /\ proc = "running")

\* README:74-75, -rr 3 2 1 terminates successfully, as far as it concerns the scheduler
\* thread and short of a crash: it sees the counter at 0 and returns.
SchedulerReturns == <>(proc # "running" \/ spc = "done")

\* Under either policy, and with any number of slots, some worker runs all its
\* iterations and exits, unless the read of a freed element ends the process first.
SomeWorkerFinishes == <>(proc # "running" \/ \E w \in Workers : wpc[w] = "done")

\* sched_impl.c as a resource of MaxRunning CPU slots.
Slots == INSTANCE CpuSlots WITH Slots <- MaxRunning, holders <- ToSet(running)
SlotsSpec == Slots!Spec

\* FIFO with one slot as a first-come first-served line.  A worker is served
\* when it gives back the CPU, and has left when it is out of the queue.
Served(w) ==
    CASE wpc[w] = "none" \/ wpc[w] = "enter" -> 0
      [] wpc[w] \in {"load", "store", "release"} -> Iterations + 1
      [] OTHER -> turns[w]
Line == INSTANCE FifoServer
            WITH line <- queue, slices <- [w \in Workers |-> Served(w)]
LineSpec == Line!FairSpec

\* Its safety: what order the workers are served in, without the promise that they
\* are.
LineSafety == Line!Spec
=============================================================================
