--------------------------- MODULE BoundedBuffer ---------------------------
(***************************************************************************)
(* What the shared buffer of totw_p3 promises: at most Capacity items, put *)
(* one at a time; a consumer is handed the oldest item (FIFO) or the       *)
(* newest (FILO), and no item is lost or handed out twice.                 *)
(***************************************************************************)
EXTENDS Naturals, Sequences

CONSTANTS Items, NoItem, Capacity, Consumers

VARIABLES
    content,    \* the items in the buffer, the next one to take first
    stack,      \* whether the newest item is taken first
    hand        \* the item each consumer has been handed and not yet used

vars == <<content, stack, hand>>

Init == content = <<>> /\ stack \in BOOLEAN /\ hand = [c \in Consumers |-> NoItem]

Put(v) ==
    /\ Len(content) < Capacity
    /\ content' = IF stack THEN <<v>> \o content ELSE Append(content, v)
    /\ UNCHANGED <<stack, hand>>

Take(c) ==
    /\ content # <<>> /\ hand[c] = NoItem
    /\ hand' = [hand EXCEPT ![c] = Head(content)]
    /\ content' = Tail(content)
    /\ UNCHANGED stack

Use(c) ==
    /\ hand' = [hand EXCEPT ![c] = NoItem]
    /\ UNCHANGED <<content, stack>>

Next == (\E v \in Items : Put(v)) \/ (\E c \in Consumers : Take(c) \/ Use(c))

Spec == Init /\ [][Next]_vars
=============================================================================
