----------------------------- MODULE JobBatches ------------------------------
(***************************************************************************)
(* What the shell of totw_p2 promises of the commands typed into it        *)
(* (README:34-38): the commands of a line run concurrently, each is        *)
(* started once and in the order of the line, and none of the next line    *)
(* before all of this line have ended.  A job is <<line, place>>.          *)
(***************************************************************************)
EXTENDS Integers, Sequences, SequencesExt

CONSTANT Jobs

VARIABLES
    started,    \* the jobs in the order they were started
    live        \* those that have not ended

vars == <<started, live>>

Before(a, b) == a[1] < b[1] \/ (a[1] = b[1] /\ a[2] < b[2])

Init == started = <<>> /\ live = {}

Start(j) ==
    /\ started = <<>> \/ Before(Last(started), j)
    /\ \A k \in live : k[1] = j[1]
    /\ started' = Append(started, j)
    /\ live' = live \cup {j}

Finish(j) ==
    /\ j \in live
    /\ live' = live \ {j}
    /\ UNCHANGED started

Next == \E j \in Jobs : Start(j) \/ Finish(j)

BatchSpec == Init /\ [][Next]_vars
=============================================================================
