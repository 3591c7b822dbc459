-------------------------------- MODULE Fifo --------------------------------
(***************************************************************************)
(* One FIFO of libraries/nRF5x_FIFO.c used by two contexts that preempt    *)
(* each other, a producer (nRF5x_FIFO_put, _write) and a consumer          *)
(* (nRF5x_FIFO_get, _peek, _read, _flush): an interrupt handler and the    *)
(* main loop, in either role.  The code takes no lock.  Every access to a  *)
(* variable that the other context writes is a step of its own; accesses   *)
(* to one's own counter are merged with it.                                *)
(***************************************************************************)
EXTENDS FifoOps

CONSTANT Byte

VARIABLES fifo,   \* the nRF5x_FIFO_t and its memory
          prod,   \* the producer: where it is, bytes left to store, the byte
          cons,   \* the consumer: where it is, bytes left to fetch (or the
                  \* index peek was given), the byte, write_pos seen by flush
          last    \* the byte handed to the consumer's caller last

vars == <<fifo, prod, cons, last>>

TypeOK ==
  /\ fifo \in [buf : [Slots -> Byte], rd : Positions, wr : Positions]
  /\ prod \in [pc : {"idle", "store", "publish"}, left : 0 .. Size, byte : Byte]
  /\ cons \in [pc : {"idle", "fetch", "advance", "peek", "flush"},
               left : 0 .. Size, byte : Byte, mark : Positions]
  /\ last \in Byte

\* nRF5x_FIFO_init; the memory holds whatever it held before.
Init ==
  /\ fifo \in [buf : [Slots -> Byte], rd : {0}, wr : {0}]
  /\ prod \in [pc : {"idle"}, left : {0}, byte : Byte]
  /\ cons \in [pc : {"idle"}, left : {0}, byte : Byte, mark : {0}]
  /\ last \in Byte

-----------------------------------------------------------------------------
(* The producer. *)

\* nRF5x_FIFO_put: the length test; on a full FIFO it returns NRF_ERROR_NO_MEM.
PutBegin ==
  /\ prod.pc = "idle"
  /\ ~IsFull(fifo)
  /\ \E b \in Byte : prod' = [pc |-> "store", left |-> 1, byte |-> b]
  /\ UNCHANGED <<fifo, cons, last>>

\* nRF5x_FIFO_write: MIN of the requested number and the room there is when it
\* starts, never zero.
WriteBegin ==
  /\ prod.pc = "idle"
  /\ Length(fifo) < Size
  /\ \E n \in 1 .. Size - Length(fifo), b \in Byte :
        prod' = [pc |-> "store", left |-> n, byte |-> b]
  /\ UNCHANGED <<fifo, cons, last>>

\* Mutant: write_pos is advanced before the byte is stored.
ProdStoreLate ==
  /\ prod.pc = "store"
  /\ fifo' = Publish(fifo)
  /\ prod' = [prod EXCEPT !.pc = "publish"]
  /\ UNCHANGED <<cons, last>>

ProdStore ==
  /\ prod.pc = "store"
  /\ fifo' = Store(fifo, prod.byte)
  /\ prod' = [prod EXCEPT !.pc = "publish"]
  /\ UNCHANGED <<cons, last>>

\* write_pos++, then the next byte of the caller's array if one is left.
ProdPublish ==
  /\ prod.pc = "publish"
  /\ fifo' = Publish(fifo)
  /\ \E b \in Byte :
        prod' = [pc |-> IF prod.left = 1 THEN "idle" ELSE "store",
                 left |-> prod.left - 1, byte |-> b]
  /\ UNCHANGED <<cons, last>>

-----------------------------------------------------------------------------
(* The consumer. *)

\* nRF5x_FIFO_get: the length test; an empty FIFO gives NRF_ERROR_NOT_FOUND.
GetBegin ==
  /\ cons.pc = "idle"
  /\ Length(fifo) # 0
  /\ cons' = [cons EXCEPT !.pc = "fetch", !.left = 1]
  /\ UNCHANGED <<fifo, prod, last>>

\* nRF5x_FIFO_read: MIN of the requested number and what is there as it starts.
ReadBegin ==
  /\ cons.pc = "idle"
  /\ Length(fifo) # 0
  /\ \E n \in 1 .. Length(fifo) :
        cons' = [cons EXCEPT !.pc = "fetch", !.left = n]
  /\ UNCHANGED <<fifo, prod, last>>

ConsFetch ==
  /\ cons.pc = "fetch"
  /\ cons' = [cons EXCEPT !.pc = "advance", !.byte = PeekAt(fifo, 0)]
  /\ UNCHANGED <<fifo, prod, last>>

ConsAdvance ==
  /\ cons.pc = "advance"
  /\ fifo' = Advance(fifo)
  /\ last' = cons.byte
  /\ cons' = [cons EXCEPT !.pc = IF cons.left = 1 THEN "idle" ELSE "fetch",
                          !.left = @ - 1]
  /\ UNCHANGED prod

\* Mutant: the index is compared with ">=".
PeekBeginOffByOne ==
  /\ cons.pc = "idle"
  /\ \E index \in Slots : /\ Length(fifo) >= index
                          /\ cons' = [cons EXCEPT !.pc = "peek", !.left = index]
  /\ UNCHANGED <<fifo, prod, last>>

\* nRF5x_FIFO_peek: an index beyond what is there gives NRF_ERROR_NOT_FOUND.
PeekBegin ==
  /\ cons.pc = "idle"
  /\ \E index \in Slots : /\ Length(fifo) > index
                          /\ cons' = [cons EXCEPT !.pc = "peek", !.left = index]
  /\ UNCHANGED <<fifo, prod, last>>

PeekEnd ==
  /\ cons.pc = "peek"
  /\ last' = PeekAt(fifo, cons.left)
  /\ cons' = [cons EXCEPT !.pc = "idle", !.left = 0]
  /\ UNCHANGED <<fifo, prod>>

\* nRF5x_FIFO_flush reads write_pos ...
FlushBegin ==
  /\ cons.pc = "idle"
  /\ cons' = [cons EXCEPT !.pc = "flush", !.mark = fifo.wr]
  /\ UNCHANGED <<fifo, prod, last>>

\* ... and assigns it to read_pos.
FlushEnd ==
  /\ cons.pc = "flush"
  /\ fifo' = FlushTo(fifo, cons.mark)
  /\ cons' = [cons EXCEPT !.pc = "idle"]
  /\ UNCHANGED <<prod, last>>

Producer == PutBegin \/ WriteBegin \/ ProdStore \/ ProdPublish
Consumer == \/ GetBegin \/ ReadBegin \/ ConsFetch \/ ConsAdvance
            \/ PeekBegin \/ PeekEnd \/ FlushBegin \/ FlushEnd

Next == Producer \/ Consumer

Spec == Init /\ [][Next]_vars

-----------------------------------------------------------------------------
(* Properties. *)

\* A slot the producer has been promised is never one the consumer has yet to
\* read: what waits and what is being stored fit the memory together, however
\* the two contexts preempt each other and wherever the counters wrap.
RoomForStores ==
  /\ Length(fifo) <= Size
  /\ prod.pc # "idle" => prod.left >= 1 /\ Length(fifo) + prod.left <= Size
  /\ prod.pc = "publish" => fifo.buf[Slot(fifo.wr)] = prod.byte

\* What the consumer decided from an earlier look at the length still stands
\* when it acts: the bytes it counted are there, the byte it fetched is still
\* the oldest one, and the write_pos that flush read lies between the counters.
ClaimStillTrue ==
  /\ cons.pc \in {"fetch", "advance"} => cons.left \in 1 .. Length(fifo)
  /\ cons.pc = "advance" => cons.byte = PeekAt(fifo, 0)
  /\ cons.pc = "peek" => cons.left < Length(fifo)
  /\ cons.pc = "flush" => Distance(fifo.rd, cons.mark) <= Length(fifo)

\* The FIFO is a bounded queue to its two users: its unread slots, oldest
\* first, are the queue of BoundedQueue.
Unread == [k \in 1 .. Length(fifo) |-> PeekAt(fifo, k - 1)]

Queue == INSTANCE BoundedQueue
           WITH Value <- Byte, Capacity <- Size,
                item <- prod.byte, queue <- Unread, last <- last

\* Every behaviour of the two contexts is one of the abstract queue.
ImplementsQueue == Queue!Spec
=============================================================================
