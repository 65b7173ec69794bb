----------------------------- MODULE TaskQueue -----------------------------
(***************************************************************************)
(* What the event bus promises of its task queue: a FIFO of bounded        *)
(* capacity that can be closed.  A closed queue accepts nothing more, and  *)
(* gives out everything it has accepted.                                   *)
(***************************************************************************)
EXTENDS Naturals, Sequences

CONSTANTS Task, Capacity

VARIABLES queue, closed

Init == queue = <<>> /\ closed = FALSE

Put(x) ==
    /\ ~closed
    /\ Len(queue) < Capacity
    /\ queue' = Append(queue, x)
    /\ UNCHANGED closed

Get ==
    /\ queue # <<>>
    /\ queue' = Tail(queue)
    /\ UNCHANGED closed

Close == closed' = TRUE /\ UNCHANGED queue

Next == (\E x \in Task : Put(x)) \/ Get \/ Close

Spec == Init /\ [][Next]_<<queue, closed>>

=============================================================================
