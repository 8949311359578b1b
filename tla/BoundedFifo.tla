---------------------------- MODULE BoundedFifo -----------------------------
(***************************************************************************)
(* What the connection queue promises: a first-in first-out buffer of at   *)
(* most Capacity items that refuses new items once closed and hands out    *)
(* the ones it has.                                                        *)
(***************************************************************************)
EXTENDS Naturals, Sequences

CONSTANTS Items, Capacity

VARIABLES queue, closed

vars == <<queue, closed>>

Init == queue = <<>> /\ closed = FALSE

Put(x) ==
    /\ ~closed /\ Len(queue) < Capacity
    /\ queue' = Append(queue, x)
    /\ UNCHANGED closed

Get ==
    /\ queue # <<>>
    /\ queue' = Tail(queue)
    /\ UNCHANGED closed

Close == closed' = TRUE /\ UNCHANGED queue

Next == (\E x \in Items : Put(x)) \/ Get \/ Close

Spec == Init /\ [][Next]_vars
=============================================================================
