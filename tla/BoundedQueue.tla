------------------------------ MODULE BoundedQueue ------------------------------
(***************************************************************************)
(* What users of comm_buffer.c rely on: a queue of bytes with a capacity.  *)
(***************************************************************************)
EXTENDS Integers, Sequences

CONSTANTS Byte,  \* what is queued
          Sizes  \* capacities it may be created with

VARIABLES queue, capacity

Init == queue = <<>> /\ capacity \in Sizes

Enqueue(d) ==
    /\ Len(queue) < capacity
    /\ queue' = Append(queue, d)
    /\ UNCHANGED capacity

Dequeue ==
    /\ queue # <<>>
    /\ queue' = Tail(queue)
    /\ UNCHANGED capacity

\* Emptied, and with a capacity that may be new; 0 for a destroyed queue.
Empty ==
    /\ queue' = <<>>
    /\ capacity' \in Sizes \cup {0, capacity}

Next == (\E d \in Byte : Enqueue(d)) \/ Dequeue \/ Empty
Spec == Init /\ [][Next]_<<queue, capacity>>
=============================================================================
