-------------------------------- MODULE Heap ---------------------------------
(***************************************************************************)
(* What a memory pool promises its clients: allocations lie inside the     *)
(* pool and do not overlap, and a request is refused only when no run of   *)
(* free bytes is long enough for it.                                       *)
(***************************************************************************)
EXTENDS Integers

CONSTANTS Requests, Pointers, NULL

VARIABLES
    pool,       \* the number of bytes in the pool
    live,       \* the allocations: [ptr, size]
    answer      \* the last call and what it returned: [op, arg, ret]

heapVars == <<pool, live, answer>>

HeapInit == pool = 0 /\ live = {} /\ answer = [op |-> "none", arg |-> 0, ret |-> NULL]

Answer(op, arg, ret) == answer' = [op |-> op, arg |-> arg, ret |-> ret]

Fits(ptr, size) ==
    /\ ptr + size <= pool
    /\ \A a \in live : ptr + size <= a.ptr \/ a.ptr + a.size <= ptr

Reset ==
    /\ pool' \in Nat /\ live' = {}
    /\ Answer("init", pool', NULL)

Grant(size) ==
    \E ptr \in 0 .. pool - 1 :
        /\ Fits(ptr, size)
        /\ live' = live \cup {[ptr |-> ptr, size |-> size]}
        /\ Answer("malloc", size, ptr)
        /\ UNCHANGED pool

Refuse(size) ==
    /\ \A ptr \in 0 .. pool - 1 : ~Fits(ptr, size)
    /\ Answer("malloc", size, NULL)
    /\ UNCHANGED <<pool, live>>

GiveBack(ptr) ==
    /\ live' = {a \in live : a.ptr # ptr}
    /\ Answer("free", ptr, NULL)
    /\ UNCHANGED pool

HeapNext ==
    \/ Reset
    \/ \E size \in Requests : Grant(size) \/ Refuse(size)
    \/ \E ptr \in Pointers : GiveBack(ptr)

HeapSpec == HeapInit /\ [][HeapNext]_heapVars
=============================================================================
