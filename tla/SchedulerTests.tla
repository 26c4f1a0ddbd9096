--------------------------- MODULE SchedulerTests ----------------------------
(***************************************************************************)
(* Scheduler with the lines its threads print, and the checks that         *)
(* lab4_tests.c makes of them.  A printf is a step of its own, after the   *)
(* operation before it and before the next one of its thread.              *)
(*                                                                         *)
(* The checks read the file of a process that has ended, in one loop each. *)
(* Here the locals of each loop follow the lines as they are printed: what *)
(* they hold in a state is what the loop has after the lines of out.       *)
(*                                                                         *)
(* Of the lines of the main thread only the last, "Main: waiting for       *)
(* scheduler", is here: check_for_done looks at no line but the last, and  *)
(* no other check looks at main's but for the header.  The file smp4.out,  *)
(* which gets all the lines when the process exits, is left out.           *)
(***************************************************************************)
EXTENDS Scheduler

VARIABLES
    owed,      \* the line each thread is about to print
    out,       \* the lines printed
    size,      \* compute_queue_size: threads between entering and exiting, now, at
               \* the most and at the least, and all that have entered
    executed,  \* check_executed: the next loop of each worker, and who has a bucket
    fifo,      \* check_executed_fifo: who loops, and how many loops it has made
    rr         \* check_executed_rr: step is the round, round[w] the one w is to loop
               \* in next, rrq the workers in the order of their last loops

fileVars == <<out, size, executed, fifo, rr>>
testVars == <<vars, owed, fileVars>>

Sched == 0
Main == -1
Printers == Workers \cup {Sched, Main}
Silent == [by |-> Sched, says |-> "nothing", loop |-> 0]
Said(a, says, loop) == [by |-> a, says |-> says, loop |-> loop]

\* Where the loops of compute_queue_size and the three checks begin.
NoneEntered == [now |-> 0, max |-> 0, min |-> 0, admitted |-> 0]
NoneExecuted == [ok |-> TRUE, count |-> [w \in Workers |-> 0], seen |-> {}]
NobodyLoops == [ok |-> TRUE, prev |-> NoWorker, counter |-> 0]
FirstRound == [ok |-> TRUE, step |-> 1, round |-> [w \in Workers |-> 0], rrq |-> <<>>]

TInit ==
    /\ Init /\ owed = [a \in Printers |-> Silent] /\ out = <<>>
    /\ size = NoneEntered /\ executed = NoneExecuted /\ fifo = NobodyLoops /\ rr = FirstRound

-----------------------------------------------------------------------------
(* lab4_tests.c: one turn of each loop over the lines                      *)

SizeAfter(s, line) ==
    CASE line.says = "queued"  -> [s EXCEPT !.now = @ + 1, !.admitted = @ + 1,
                                            !.max = IF s.now + 1 > @ THEN s.now + 1 ELSE @]
      [] line.says = "exiting" -> [s EXCEPT !.now = @ - 1,
                                            !.min = IF s.now - 1 < @ THEN s.now - 1 ELSE @]
      [] OTHER -> s

\* Each worker prints its loops in order and all of them.
ExecutedAfter(s, line) ==
    CASE line.says = "queued"  -> [s EXCEPT !.count[line.by] = 0, !.seen = @ \cup {line.by}]
      [] line.says = "loop"    -> [s EXCEPT !.ok = @ /\ s.count[line.by] = line.loop,
                                            !.count[line.by] = @ + 1, !.seen = @ \cup {line.by}]
      [] line.says = "exiting" -> [s EXCEPT !.ok = @ /\ s.count[line.by] = Iterations,
                                            !.seen = @ \cup {line.by}]
      [] OTHER -> s

\* From a worker's first loop to its exit nobody else loops.
FifoAfter(s, line) ==
    CASE line.says = "loop"    -> [ok |-> s.ok /\ s.prev \in {NoWorker, line.by},
                                   prev |-> line.by, counter |-> s.counter + 1]
      [] line.says = "exiting" -> [ok |-> s.ok /\ s.counter = Iterations,
                                   prev |-> NoWorker, counter |-> 0]
      [] OTHER -> s

\* A round begins when nobody is left in the one before, and has its order.
RrAfter(s, line) ==
    LET w == line.by
        late == s.round[w] > s.step
        step == IF late THEN s.step + 1 ELSE s.step
        first == s.rrq # <<>> /\ Head(s.rrq) = w
    IN  CASE line.says = "queued" -> [s EXCEPT !.round[w] = s.step]
          [] line.says = "loop" ->
               [ok |-> /\ s.ok
                       /\ late => \A v \in Workers : s.round[v] # s.step
                       /\ line.loop = 0 \/ first,
                step |-> step,
                round |-> [s.round EXCEPT ![w] = step + 1],
                rrq |-> Append(IF line.loop = 0 THEN s.rrq ELSE RemoveFirst(s.rrq, w), w)]
          [] line.says = "exiting" ->
               [s EXCEPT !.ok = @ /\ first, !.round[w] = 0, !.rrq = RemoveFirst(@, w)]
          [] OTHER -> s

-----------------------------------------------------------------------------
(* The threads                                                             *)

\* The printf that follows the step a worker or the scheduler thread has made.
WorkerSays(w) ==
    CASE wpc[w] = "enter" -> Said(w, "queued", 0)
      [] wpc[w] = "wait" /\ wpc'[w] = "work" -> Said(w, "loop", turns[w])
      [] wpc[w] = "wait" /\ wpc'[w] = "leave" -> Said(w, "exiting", 0)
      [] OTHER -> Silent
SchedSays == IF spc' = "done" THEN Said(Sched, "done", 0) ELSE Silent
MainSays == IF mpc' = "join" THEN Said(Main, "waiting", 0) ELSE Silent

\* pthread_join waits for the scheduler's last line too.
MainActs ==
    /\ owed[Main] = Silent
    /\ mpc = "join" => owed[Sched] = Silent
    /\ MainStep
    /\ owed' = [owed EXCEPT ![Main] = MainSays]
    /\ UNCHANGED fileVars

SchedActs ==
    /\ owed[Sched] = Silent /\ SchedStep
    /\ owed' = [owed EXCEPT ![Sched] = SchedSays]
    /\ UNCHANGED fileVars

WorkerActs(w) ==
    /\ owed[w] = Silent /\ (WorkerStep(w) \/ UseFreed(w))
    /\ owed' = [owed EXCEPT ![w] = WorkerSays(w)]
    /\ UNCHANGED fileVars

PrintLine(a) ==
    /\ proc = "running" /\ owed[a] # Silent
    /\ out' = Append(out, owed[a])
    /\ size' = SizeAfter(size, owed[a]) /\ executed' = ExecutedAfter(executed, owed[a])
    /\ fifo' = FifoAfter(fifo, owed[a]) /\ rr' = RrAfter(rr, owed[a])
    /\ owed' = [owed EXCEPT ![a] = Silent]
    /\ UNCHANGED vars

TNext ==
    \/ MainActs
    \/ SchedActs
    \/ \E w \in Workers : WorkerActs(w)
    \/ \E a \in Printers : PrintLine(a)
    \/ Ended /\ UNCHANGED testVars

\* As Scheduler's Fairness, for threads that also print.
TSpec ==
    /\ TInit /\ [][TNext]_testVars
    /\ WF_testVars(MainActs) /\ WF_testVars(SchedActs)
    /\ \A w \in Workers : WF_testVars(mpc # "end" /\ WorkerActs(w))
    /\ \A a \in Printers : WF_testVars(PrintLine(a))

-----------------------------------------------------------------------------
(* Correctness                                                             *)

\* The test reads the lines of a process that has ended by itself.
Complete == Ended /\ proc = "running"

check_for_done == Last(out).says = "done"

\* feof tells only that fgets has failed: every other loop has a turn more, on the
\* last line again.
Again == Last(out)

\* threads_max <= queue_size, and what check_rudimentary demands beside it of the
\* other numbers of compute_queue_size and of check_executed.
QueueWithin == SizeAfter(size, Again).max <= QueueSize
AllExecuted(s) == s.ok /\ s.seen = Workers
check_rudimentary ==
    /\ check_for_done
    /\ LET s == SizeAfter(size, Again)
       IN  s.min = 0 /\ s.now = 0 /\ s.admitted = NumThreads
    /\ QueueWithin
    /\ AllExecuted(ExecutedAfter(executed, Again))

check_fifo == check_rudimentary /\ FifoAfter(fifo, Again).ok
check_rr == check_rudimentary /\ RrAfter(rr, Again).ok

\* What decides check_rudimentary of a run that ends by itself, under both policies and
\* with any number of slots: whether main's last line came before the scheduler's, and
\* whether more than queue_size workers were in the queue at once, which enter_sched_queue
\* does not prevent and which needs more than queue_size workers.  The rest it finds in
\* spite of lost decrements: every worker prints that it is in the queue, its loops in
\* order and all of them, and its exit.
RudimentaryVerdict ==
    Complete =>
        /\ check_rudimentary <=> (check_for_done /\ QueueWithin)
        /\ NumThreads <= QueueSize => QueueWithin

\* With one slot the FIFO tests add nothing to that, in whatever order the workers
\* arrive and print: nobody loops between a worker's first loop and its exit.
FifoVerdict ==
    /\ RudimentaryVerdict
    /\ (Policy = "fifo" /\ MaxRunning = 1) =>
           fifo.ok /\ (Complete => (check_fifo <=> check_rudimentary))

\* Every worker is in the queue before the first of them loops.
NoneLate ==
    \A i, j \in DOMAIN out : out[i].says = "queued" /\ out[j].says = "loop" => i < j

\* With one slot, no late worker and loops to make, the rounds are strict and in a fixed
\* order.  The round-robin tests still fail if there are more workers than queue_size:
\* all of them were in the queue at once.
RrVerdict ==
    /\ RudimentaryVerdict
    /\ (Policy = "rr" /\ MaxRunning = 1 /\ NoneLate /\ Iterations > 0) =>
           /\ rr.ok
           /\ Complete => (check_rr <=> (check_for_done /\ NumThreads <= QueueSize))

\* Then round robin with one slot also ends: the workers that have exited and were
\* put back in the queue are never the next.  With a late one it may hang.
RrEndsOrLate == <>(Complete \/ ~NoneLate)
=============================================================================
