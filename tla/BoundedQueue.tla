---------------------------- MODULE BoundedQueue ----------------------------
(***************************************************************************)
(* What a FIFO of libraries/nRF5x_FIFO.h promises its two users: bytes     *)
(* come out in the order they went in, none is made up, and at most        *)
(* Capacity of them wait.                                                  *)
(***************************************************************************)
EXTENDS Integers, Sequences

CONSTANTS Value, Capacity

VARIABLES item,    \* the byte the writer hands over now or next
          queue,   \* the bytes that wait, oldest first
          last     \* the byte most recently handed to the reader

vars == <<item, queue, last>>

Init == item \in Value /\ queue = <<>> /\ last \in Value

\* The writer takes up its next byte.
Offer == /\ item' \in Value
         /\ UNCHANGED <<queue, last>>

Enqueue == /\ Len(queue) < Capacity
           /\ queue' = Append(queue, item)
           /\ item' \in Value
           /\ last' = last

Dequeue == /\ queue # <<>>
           /\ last' = Head(queue)
           /\ queue' = Tail(queue)
           /\ item' = item

\* nRF5x_FIFO_peek: any waiting byte may be looked at, none leaves.
Look == /\ \E k \in 1 .. Len(queue) : last' = queue[k]
        /\ UNCHANGED <<item, queue>>

\* nRF5x_FIFO_flush: the oldest bytes go; those that arrive while it runs stay.
Discard == /\ \E k \in 0 .. Len(queue) : queue' = SubSeq(queue, k + 1, Len(queue))
           /\ UNCHANGED <<item, last>>

Next == Offer \/ Enqueue \/ Dequeue \/ Look \/ Discard

Spec == Init /\ [][Next]_vars
=============================================================================
