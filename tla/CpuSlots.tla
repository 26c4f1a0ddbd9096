------------------------------ MODULE CpuSlots ------------------------------
(***************************************************************************)
(* What any scheduling policy of totw_p4 promises of the CPU: it is a      *)
(* resource with Slots identical slots.  A worker is granted a slot only   *)
(* while it has none and one is free, and gives back only what it holds.   *)
(***************************************************************************)
EXTENDS Naturals, FiniteSets

CONSTANTS Workers, Slots

VARIABLE holders    \* the workers that have been granted a slot

Init == holders = {}

Grant(w) ==
    /\ w \notin holders
    /\ Cardinality(holders) < Slots
    /\ holders' = holders \cup {w}

Release(w) ==
    /\ w \in holders
    /\ holders' = holders \ {w}

Next == \E w \in Workers : Grant(w) \/ Release(w)

Spec == Init /\ [][Next]_holders
=============================================================================
