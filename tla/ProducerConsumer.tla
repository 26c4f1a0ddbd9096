-------------------------- MODULE ProducerConsumer --------------------------
(***************************************************************************)
(* totw_p3: producers and consumers that share an array of BufferSize ints *)
(* (buffer.c), one semaphore around every access to it, and a main thread  *)
(* that cancels and joins them after a while (p3.c).                       *)
(*                                                                         *)
(* A thread is named by the order of its creation: producers first.  The   *)
(* test and the update of the array are separate steps, so that only the   *)
(* semaphore keeps them together.  pthread_cancel is deferred: a thread    *)
(* dies at a cancellation point, which usleep, sem_wait and printf are and *)
(* add_to and pop are not.                                                 *)
(***************************************************************************)
EXTENDS Integers, Sequences, FiniteSets, SequencesExt

CONSTANTS
    NumProducers,   \* num_producers: atoi(argv[1])
    NumConsumers,   \* num_consumers: atoi(argv[2])
    BufferSize,     \* BUFFER_SIZE of buffer.h
    Items,          \* what rand_r returns
    NoItem,         \* -1
    CreateMayFail   \* whether pthread_create may return an error, unnoticed

ASSUME ConstantsAssumption ==
    /\ NumProducers \in Nat /\ NumConsumers \in Nat
    /\ CreateMayFail \in BOOLEAN
    /\ BufferSize \in Nat \ {0}
    /\ NoItem \notin Items

NumThreads == NumProducers + NumConsumers
Threads == 1 .. NumThreads
Producers == 1 .. NumProducers
Consumers == Threads \ Producers

VARIABLES
    buff,       \* the array, index 1 of buff.data is data[0], and stack: FILO if
                \* the third argument is not 0
    sem,        \* the semaphore
    pc,         \* each thread
    got,        \* from_buffer of each consumer
    cancelled,  \* the threads pthread_cancel has been called for
    mpc,        \* the main thread
    cur,        \* the thread its current loop is at
    proc        \* the process: running, crashed

threadVars == <<buff, sem, pc, got>>
mainVars == <<mpc, cur, cancelled>>
vars == <<threadVars, mainVars, proc>>

Pc == {"none", "sleep", "wait", "test", "update", "print", "post", "dead"}

Init ==
    /\ \E stack \in BOOLEAN :
          buff = [data |-> [i \in 1 .. BufferSize |-> NoItem], stack |-> stack]
    /\ sem = 1
    /\ pc = [t \in Threads |-> "none"]
    /\ got = [c \in Consumers |-> NoItem]
    /\ cancelled = {} /\ mpc = "create" /\ cur = 1 /\ proc = "running"

-----------------------------------------------------------------------------
(* The array (buffer.c)                                                    *)

IsEmpty == buff.data[1] = NoItem
IsFull == buff.data[BufferSize] # NoItem

Free == {i \in 1 .. BufferSize : buff.data[i] = NoItem}

FirstFree == CHOOSE i \in Free : \A j \in Free : i <= j

\* Mutant of WithItem: stack is not looked at.
WithItemQueued(v) == [buff.data EXCEPT ![FirstFree] = v]

\* add_to: a stack shifts everything up, a queue scans for the first -1.
WithItem(v) ==
    IF buff.stack THEN <<v>> \o SubSeq(buff.data, 1, BufferSize - 1)
                  ELSE [buff.data EXCEPT ![FirstFree] = v]

\* Mutant of WithoutFirst: nothing is shifted.
WithoutFirstUnshifted == [buff.data EXCEPT ![1] = NoItem]

\* pop: everything shifts down.
WithoutFirst == Tail(buff.data) \o <<NoItem>>

-----------------------------------------------------------------------------
(* The threads                                                             *)

\* No thread outlives the return of main.
GoTo(t, from, to) ==
    /\ proc = "running" /\ mpc # "end" /\ pc[t] = from
    /\ pc' = [pc EXCEPT ![t] = to]

\* usleep ends; a pending cancellation is acted on there.
Wake(t) ==
    /\ t \notin cancelled
    /\ GoTo(t, "sleep", "wait")
    /\ UNCHANGED <<buff, sem, got, mainVars, proc>>

SemWait(t) ==
    /\ sem > 0
    /\ GoTo(t, "wait", "test")
    /\ sem' = sem - 1
    /\ UNCHANGED <<buff, got, mainVars, proc>>

Test(t) ==
    /\ LET refused == IF t \in Producers THEN IsFull ELSE IsEmpty
       IN  GoTo(t, "test", IF refused THEN "print" ELSE "update")
    /\ UNCHANGED <<buff, sem, got, mainVars, proc>>

\* With no free entry the scan of a queue would leave the array: Contiguous says
\* that no producer gets there.
Produce(t) ==
    /\ t \in Producers
    /\ GoTo(t, "update", "print")
    /\ buff.stack \/ Free # {}
    /\ \E v \in Items : buff' = [buff EXCEPT !.data = WithItem(v)]
    /\ UNCHANGED <<sem, got, mainVars, proc>>

Consume(t) ==
    /\ t \in Consumers
    /\ GoTo(t, "update", "print")
    /\ got' = [got EXCEPT ![t] = buff.data[1]]
    /\ buff' = [buff EXCEPT !.data = WithoutFirst]
    /\ UNCHANGED <<sem, mainVars, proc>>

Report(t) ==
    /\ GoTo(t, "print", "post")
    /\ UNCHANGED <<buff, sem, got, mainVars, proc>>

SemPost(t) ==
    /\ GoTo(t, "post", "sleep")
    /\ sem' = sem + 1
    /\ got' = [c \in Consumers |-> IF c = t THEN NoItem ELSE got[c]]
    /\ UNCHANGED <<buff, mainVars, proc>>

\* Mutants of Die: a cleanup handler that always posts the semaphore, and a
\* sem_wait that is no cancellation point.
DieAndPost(t) ==
    /\ t \in cancelled
    /\ \E from \in {"sleep", "wait", "print"} : GoTo(t, from, "dead")
    /\ sem' = sem + 1
    /\ got' = [c \in Consumers |-> IF c = t THEN NoItem ELSE got[c]]
    /\ UNCHANGED <<buff, mainVars, proc>>

DieAwake(t) ==
    /\ t \in cancelled
    /\ \E from \in {"sleep", "print"} : GoTo(t, from, "dead")
    /\ got' = [c \in Consumers |-> IF c = t THEN NoItem ELSE got[c]]
    /\ UNCHANGED <<buff, sem, mainVars, proc>>

\* The thread ends at a cancellation point; at print it holds the semaphore.
Die(t) ==
    /\ t \in cancelled
    /\ \E from \in {"sleep", "wait", "print"} : GoTo(t, from, "dead")
    /\ got' = [c \in Consumers |-> IF c = t THEN NoItem ELSE got[c]]
    /\ UNCHANGED <<buff, sem, mainVars, proc>>

ThreadStep(t) ==
    \/ Wake(t) \/ SemWait(t) \/ Test(t) \/ Produce(t) \/ Consume(t)
    \/ Report(t) \/ SemPost(t) \/ Die(t)

-----------------------------------------------------------------------------
(* The main thread                                                         *)

MainAt(m) == proc = "running" /\ mpc = m

\* The two creation loops; the result of pthread_create is not looked at.
Create ==
    /\ MainAt("create") /\ cur <= NumThreads
    /\ \/ GoTo(cur, "none", "sleep")
       \/ CreateMayFail /\ UNCHANGED pc
    /\ cur' = cur + 1
    /\ UNCHANGED <<buff, sem, got, mpc, cancelled, proc>>

\* sleep(300), however long that is to the threads.
Sleep ==
    /\ MainAt("create") /\ cur > NumThreads
    /\ mpc' = "cancel" /\ cur' = 1
    /\ UNCHANGED <<threadVars, cancelled, proc>>

\* A thread that was never created has an uninitialized pthread_t: cancelling
\* and joining it fails, or crashes.
Cancel ==
    /\ MainAt("cancel") /\ cur <= NumThreads
    /\ \/ /\ pc[cur] # "none"
          /\ mpc' = "join" /\ cancelled' = cancelled \cup {cur}
          /\ UNCHANGED <<cur, proc>>
       \/ /\ pc[cur] = "none"
          /\ cur' = cur + 1 /\ UNCHANGED <<mpc, cancelled, proc>>
       \/ /\ pc[cur] = "none"
          /\ proc' = "crashed" /\ UNCHANGED <<mpc, cur, cancelled>>
    /\ UNCHANGED threadVars

\* Mutant of Join: main does not wait for the thread.
JoinNothing ==
    /\ MainAt("join")
    /\ mpc' = "cancel" /\ cur' = cur + 1
    /\ UNCHANGED <<threadVars, cancelled, proc>>

Join ==
    /\ MainAt("join") /\ pc[cur] = "dead"
    /\ mpc' = "cancel" /\ cur' = cur + 1
    /\ UNCHANGED <<threadVars, cancelled, proc>>

\* The semaphore and the array are freed and main returns.
Exit ==
    /\ MainAt("cancel") /\ cur > NumThreads
    /\ mpc' = "end"
    /\ UNCHANGED <<threadVars, cur, cancelled, proc>>

MainStep == Create \/ Sleep \/ Cancel \/ Join \/ Exit

-----------------------------------------------------------------------------
Ended == mpc = "end" \/ proc = "crashed"
Rest == Ended /\ UNCHANGED vars

Next ==
    \/ MainStep
    \/ \E t \in Threads : ThreadStep(t)
    \/ Rest

\* Every thread is scheduled.  Nothing is assumed of who gets the semaphore.
Fairness ==
    /\ WF_vars(MainStep)
    /\ \A t \in Threads : WF_vars(ThreadStep(t))

Spec == Init /\ [][Next]_vars
FairSpec == Spec /\ Fairness

-----------------------------------------------------------------------------
(* Correctness                                                             *)

InSection(t) == pc[t] \in {"test", "update", "print", "post"}

\* The types of the variables.
TypeOK ==
    /\ buff \in [data : [1 .. BufferSize -> Items \cup {NoItem}], stack : BOOLEAN]
    /\ sem \in Nat
    /\ pc \in [Threads -> Pc]
    /\ got \in [Consumers -> Items \cup {NoItem}]
    /\ cancelled \in SUBSET Threads
    /\ mpc \in {"create", "cancel", "join", "end"}
    /\ cur \in 1 .. NumThreads + 1
    /\ proc \in {"running", "crashed"}

\* README:9-10, each thread accesses the buffer only when no other does, also once
\* threads are being cancelled inside the section; and the semaphore is not lost
\* while no thread has died: some thread is in the section or it can be taken.
MutualExclusion ==
    /\ \A t, u \in Threads : InSection(t) /\ InSection(u) => t = u
    /\ sem = 1 => \A t \in Threads : ~InSection(t)
    /\ \/ sem = 1
       \/ \E t \in Threads : InSection(t) \/ pc[t] = "dead"

\* The items are at the front of the array, with no -1 between them, which is
\* all that is_empty, is_full and the scan of add_to look at; so no cancellation
\* leaves the array half shifted, and a producer in add_to finds a free entry.
Contiguous ==
    /\ \A i, j \in 1 .. BufferSize : i < j /\ buff.data[i] = NoItem => buff.data[j] = NoItem
    /\ \A t \in Producers : pc[t] = "update" => Free # {}

\* main frees the array and the semaphore only when no thread can use them.
FreedLast == mpc = "end" => \A t \in Threads : pc[t] \in {"none", "dead"}

\* README:33-35, after the sleep the threads are cleared and the program exits:
\* a thread cancelled with the semaphore in its hands blocks nobody's exit.  Only
\* a thread that was never created, when main comes to it, can prevent that.
Shutdown == <>(mpc = "end" \/ (mpc = "cancel" /\ cur <= NumThreads /\ pc[cur] = "none"))

\* The array, and the consumers' from_buffer, as a bounded FIFO or FILO buffer.
ContentOf(data) ==
    LET n == CHOOSE k \in 0 .. BufferSize :
                 /\ \A i \in 1 .. k : data[i] # NoItem
                 /\ k < BufferSize => data[k + 1] = NoItem
    IN  SubSeq(data, 1, n)
Abstract == INSTANCE BoundedBuffer
                WITH content <- ContentOf(buff.data), stack <- buff.stack, hand <- got,
                     Capacity <- BufferSize
BufferSpec == Abstract!Spec
=============================================================================
