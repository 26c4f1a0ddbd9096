----------------------------- MODULE FifoServer -----------------------------
(***************************************************************************)
(* What the FIFO scheduler of totw_p4 promises its workers (README:30,     *)
(* "each thread that comes in executes completely in the order it arrived  *)
(* in"): a line of workers in which only the first one is served, for      *)
(* Iterations slices, and only then leaves.  Every worker that arrives is  *)
(* served, and every worker arrives.                                       *)
(***************************************************************************)
EXTENDS Naturals, Sequences, Functions

CONSTANTS Workers, Iterations

VARIABLES
    line,     \* the workers that have arrived and not left, oldest first
    slices    \* how many slices each worker has had; Iterations + 1: it left

vars == <<line, slices>>

Init == line = <<>> /\ slices = [w \in Workers |-> 0]

Arrive(w) ==
    /\ w \notin Range(line) /\ slices[w] = 0
    /\ line' = Append(line, w)
    /\ UNCHANGED slices

Slice(w) ==
    /\ line # <<>> /\ w = Head(line)
    /\ slices[w] < Iterations
    /\ slices' = [slices EXCEPT ![w] = @ + 1]
    /\ UNCHANGED line

\* A worker that leaves has had all of its slices.
Leave(w) ==
    /\ line # <<>> /\ w = Head(line)
    /\ slices[w] = Iterations
    /\ line' = Tail(line)
    /\ slices' = [slices EXCEPT ![w] = Iterations + 1]

Next == \E w \in Workers : Arrive(w) \/ Slice(w) \/ Leave(w)

Fairness == \A w \in Workers : WF_vars(Arrive(w)) /\ WF_vars(Slice(w) \/ Leave(w))

Spec == Init /\ [][Next]_vars
FairSpec == Spec /\ Fairness
=============================================================================
