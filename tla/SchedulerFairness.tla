------------------------- MODULE SchedulerFairness -------------------------
(***************************************************************************)
(* Scheduler with a history variable: how often next_worker has preferred  *)
(* another worker to one that was in the queue and not running.            *)
(***************************************************************************)
EXTENDS Scheduler

VARIABLE bypass    \* bypass[v][w]: grants to w since v was last made to wait

\* In the queue, and neither granted the CPU nor using it.
Passed(v) == wpc[v] = "wait" /\ Contains(queue, v) /\ ~Contains(running, v)

Granted(w) == spc = "insert" /\ spc' = "post" /\ cand = w

BInit == Init /\ bypass = [v \in Workers |-> [w \in Workers |-> 0]]

BNext ==
    /\ Next
    /\ bypass' = [v \in Workers |-> [w \in Workers |->
                    IF ~(Passed(v) /\ Passed(v)') THEN 0
                    ELSE IF Granted(w) THEN bypass[v][w] + 1
                    ELSE bypass[v][w]]]

\* Fairness is of Next's parts as in FairSpec: bypass stops none of them.
BSpec == BInit /\ [][BNext]_<<vars, bypass>> /\ Fairness

\* With one or two slots, MaxRunning grants.  With three, the cursor of
\* next_worker may rest on an element that round robin moves from ahead of a
\* waiting worker to behind it, and go on from there: the others are served once
\* more for each place ahead of the worker that waits.
MostGrants == IF MaxRunning <= 2 THEN MaxRunning ELSE NumThreads + 2

\* Round robin starves nobody: while a worker waits its turn, each other worker
\* is granted the CPU at most MostGrants times, whatever its own number of
\* iterations: once when there is one slot.
BoundedBypass == \A v, w \in Workers : bypass[v][w] <= MostGrants
=============================================================================
