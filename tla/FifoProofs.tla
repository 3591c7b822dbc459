----------------------------- MODULE FifoProofs -----------------------------
(***************************************************************************)
(* Proofs about the two queues of the firmware: the byte FIFO, for every    *)
(* size, every width of its counters and every set of bytes, and the USB    *)
(* event queue, for any events, any size of the buffer and any depth of     *)
(* nested contexts.                                                         *)
(***************************************************************************)
EXTENDS Fifo, AtFifo, FifoLemmas, SequenceTheorems

-----------------------------------------------------------------------------
(* The byte FIFO. *)

\* RoomForStores and ClaimStillTrue need each other: what the consumer counts
\* on survives a store because the producer's slot is outside the unread ones.
IInv == TypeOK /\ RoomForStores /\ ClaimStillTrue

\* The three facts of IInv hold when nRF5x_FIFO_init returns.
LEMMA InitIInv == Init => IInv
<1> SUFFICES ASSUME Init PROVE IInv OBVIOUS
<1>1. 0 \in Positions /\ 0 \in 0 .. Size BY Sizes DEF Positions
<1>2. TypeOK BY <1>1 DEF Init, TypeOK
<1>3. fifo.rd = 0 /\ fifo.wr = 0 /\ prod.pc = "idle" /\ cons.pc = "idle"
  BY DEF Init
<1>4. Length(fifo) = 0 BY <1>1, <1>3, DistanceToSelf DEF Length
<1> QED BY <1>2, <1>3, <1>4, Sizes DEF IInv, RoomForStores, ClaimStillTrue

\* What TypeOK says of the two counters and of the length.
LEMMA Counters ==
  ASSUME TypeOK
  PROVE  /\ fifo.rd \in Positions /\ fifo.wr \in Positions
         /\ fifo.rd \in Int /\ fifo.wr \in Int
         /\ fifo = [buf |-> fifo.buf, rd |-> fifo.rd, wr |-> fifo.wr]
         /\ Length(fifo) \in Nat
         /\ Length(fifo) = Distance(fifo.rd, fifo.wr)
         /\ Slot(fifo.wr) = Slot(fifo.rd + Length(fifo))
<1>1. fifo.rd \in Positions /\ fifo.wr \in Positions
      /\ fifo = [buf |-> fifo.buf, rd |-> fifo.rd, wr |-> fifo.wr] BY DEF TypeOK
<1>2. Length(fifo) = Distance(fifo.rd, fifo.wr) BY DEF Length
<1>3. Distance(fifo.rd, fifo.wr) \in Positions BY <1>1, DistanceCases
<1>4. Slot(fifo.wr) = Slot(fifo.rd + Length(fifo)) BY <1>1, <1>2, SlotOfEnd
<1> QED BY <1>1, <1>2, <1>3, <1>4, Sizes DEF Positions

\* The slot the producer stores into is none of the unread ones.
LEMMA StoreOutsideUnread ==
  ASSUME TypeOK, Length(fifo) < Size, NEW k \in 0 .. Length(fifo) - 1
  PROVE  Slot(fifo.rd + k) # Slot(fifo.wr)
<1>1. k \in Int /\ k < Length(fifo) /\ Length(fifo) < k + Size /\ Length(fifo) \in Int
  BY Counters, Sizes
<1>2. Slot(fifo.rd + k) # Slot(fifo.rd + Length(fifo)) BY <1>1, Counters, SlotsDiffer
<1> QED BY <1>2, Counters

LEMMA ProdStoreIInv == ASSUME IInv, ProdStore PROVE IInv'
<1> USE DEF IInv
<1>1. /\ fifo' = [fifo EXCEPT !.buf = [@ EXCEPT ![Slot(fifo.wr)] = prod.byte]]
      /\ prod' = [prod EXCEPT !.pc = "publish"]
      /\ cons' = cons /\ last' = last /\ prod.pc = "store"
  BY DEF ProdStore, Store
<1>2. Slot(fifo.wr) \in Slots /\ Slot(fifo.rd) \in Slots BY Counters, SlotInSlots
<1>3. TypeOK' BY <1>1, <1>2 DEF TypeOK
<1>4. fifo'.rd = fifo.rd /\ fifo'.wr = fifo.wr /\ Length(fifo)' = Length(fifo)
  BY <1>1 DEF TypeOK, Length
<1>5. RoomForStores' BY <1>1, <1>2, <1>4 DEF RoomForStores, TypeOK
<1>6. Length(fifo) > 0 => PeekAt(fifo, 0)' = PeekAt(fifo, 0)
  <2> SUFFICES ASSUME Length(fifo) > 0 PROVE PeekAt(fifo, 0)' = PeekAt(fifo, 0) OBVIOUS
  <2>1. Length(fifo) < Size /\ 0 \in 0 .. Length(fifo) - 1
    BY <1>1, Counters, Sizes DEF RoomForStores, TypeOK
  <2>2. Slot(fifo.rd + 0) # Slot(fifo.wr) BY <2>1, StoreOutsideUnread
  <2>3. Slot(fifo.rd + 0) \in Slots BY Counters, SlotInSlots
  <2> QED BY <1>1, <1>4, <2>2, <2>3 DEF PeekAt, TypeOK
<1>7. ClaimStillTrue' BY <1>1, <1>4, <1>6, Counters DEF ClaimStillTrue
<1> QED BY <1>3, <1>5, <1>7

LEMMA ProdPublishIInv == ASSUME IInv, ProdPublish PROVE IInv'
<1> USE DEF IInv
<1>1. PICK b \in Byte :
        /\ prod.pc = "publish" /\ fifo' = [fifo EXCEPT !.wr = Next1(fifo.wr)]
        /\ prod' = [pc |-> IF prod.left = 1 THEN "idle" ELSE "store",
                    left |-> prod.left - 1, byte |-> b]
        /\ cons' = cons /\ last' = last
  BY DEF ProdPublish, Publish
<1>2. Next1(fifo.wr) \in Positions BY Counters, NextCases
<1>3. prod.left \in 1 .. Size /\ Length(fifo) + prod.left <= Size
  BY <1>1 DEF RoomForStores, TypeOK
<1>4. TypeOK'
  <2>1. prod.left - 1 \in 0 .. Size BY <1>3, Sizes
  <2> QED BY <1>1, <1>2, <2>1 DEF TypeOK
<1>5. Length(fifo)' = Length(fifo) + 1
  <2>1. Distance(fifo.rd, fifo.wr) < Size BY <1>3, Counters, Sizes
  <2>2. fifo'.rd = fifo.rd /\ fifo'.wr = Next1(fifo.wr) BY <1>1 DEF TypeOK
  <2> QED BY <2>1, <2>2, Counters, LengthAfterPublish DEF Length
<1>6. fifo'.rd = fifo.rd /\ PeekAt(fifo, 0)' = PeekAt(fifo, 0)
  BY <1>1 DEF PeekAt, TypeOK
<1>7. RoomForStores'
  <2>1. prod'.left = prod.left - 1 /\ (prod'.pc = "idle" <=> prod.left = 1)
        /\ prod'.pc # "publish"
    BY <1>1
  <2>2. Length(fifo)' <= Size BY <1>3, <1>5, Counters, Sizes
  <2>3. prod'.pc # "idle" => prod'.left >= 1 /\ Length(fifo)' + prod'.left <= Size
    BY <2>1, <1>3, <1>5, Counters, Sizes
  <2> QED BY <2>1, <2>2, <2>3 DEF RoomForStores
<1>8. ClaimStillTrue'
  <2>1. Length(fifo) \in Nat BY Counters
  <2>2. cons.pc \in {"fetch", "advance"} => cons.left \in 1 .. Length(fifo)'
    BY <2>1, <1>5 DEF ClaimStillTrue
  <2>3. cons.pc = "peek" => cons.left < Length(fifo)'
    BY <2>1, <1>5 DEF ClaimStillTrue, TypeOK
  <2>4. cons.pc = "flush" => Distance(fifo.rd, cons.mark) <= Length(fifo)'
    <3> SUFFICES ASSUME cons.pc = "flush"
                 PROVE  Distance(fifo.rd, cons.mark) <= Length(fifo)' OBVIOUS
    <3>1. cons.mark \in Positions BY DEF TypeOK
    <3>2. Distance(fifo.rd, cons.mark) \in Int
      BY <3>1, Counters, DistanceCases, Sizes DEF Positions
    <3> QED BY <2>1, <3>2, <1>5 DEF ClaimStillTrue
  <2> QED BY <1>1, <1>6, <2>2, <2>3, <2>4 DEF ClaimStillTrue
<1> QED BY <1>4, <1>7, <1>8

LEMMA ConsAdvanceIInv == ASSUME IInv, ConsAdvance PROVE IInv'
<1> USE DEF IInv
<1>1. /\ cons.pc = "advance" /\ fifo' = [fifo EXCEPT !.rd = Next1(fifo.rd)]
      /\ last' = cons.byte /\ prod' = prod
      /\ cons' = [cons EXCEPT !.pc = IF cons.left = 1 THEN "idle" ELSE "fetch",
                              !.left = cons.left - 1]
  BY DEF ConsAdvance, Advance
<1>2. Next1(fifo.rd) \in Positions BY Counters, NextCases
<1>3. cons.left \in 1 .. Length(fifo) BY <1>1 DEF ClaimStillTrue
<1>4. TypeOK'
  <2>1. cons' = [pc |-> IF cons.left = 1 THEN "idle" ELSE "fetch",
                 left |-> cons.left - 1, byte |-> cons.byte, mark |-> cons.mark]
    BY <1>1 DEF TypeOK
  <2>2. cons.left - 1 \in 0 .. Size BY <1>3, Counters, Sizes DEF TypeOK
  <2> QED BY <1>1, <1>2, <2>1, <2>2 DEF TypeOK
<1>5. Length(fifo)' = Length(fifo) - 1
  <2>1. Distance(fifo.rd, fifo.wr) > 0 BY <1>3, Counters
  <2>2. fifo'.rd = Next1(fifo.rd) /\ fifo'.wr = fifo.wr BY <1>1 DEF TypeOK
  <2> QED BY <2>1, <2>2, Counters, LengthAfterAdvance DEF Length
<1>6. fifo'.wr = fifo.wr /\ fifo'.buf = fifo.buf BY <1>1 DEF TypeOK
<1>7. RoomForStores' BY <1>1, <1>5, <1>6, Counters, Sizes DEF RoomForStores, TypeOK
<1>8. ClaimStillTrue' BY <1>1, <1>3, <1>5, Counters DEF ClaimStillTrue, TypeOK
<1> QED BY <1>4, <1>7, <1>8

LEMMA FlushEndIInv == ASSUME IInv, FlushEnd PROVE IInv'
<1> USE DEF IInv
<1>1. /\ cons.pc = "flush" /\ fifo' = [fifo EXCEPT !.rd = cons.mark]
      /\ cons' = [cons EXCEPT !.pc = "idle"] /\ prod' = prod /\ last' = last
  BY DEF FlushEnd, FlushTo
<1>2. TypeOK' BY <1>1 DEF TypeOK
<1>3. cons.mark \in Positions /\ Distance(fifo.rd, cons.mark) <= Distance(fifo.rd, fifo.wr)
  BY <1>1, Counters DEF TypeOK, ClaimStillTrue
<1>4. fifo'.rd = cons.mark /\ fifo'.wr = fifo.wr /\ fifo'.buf = fifo.buf
  BY <1>1 DEF TypeOK
<1>5. Length(fifo)' = Length(fifo) - Distance(fifo.rd, cons.mark)
  BY <1>3, <1>4, Counters, LengthAfterFlush DEF Length
<1>6. Distance(fifo.rd, cons.mark) \in Nat
  BY <1>3, Counters, DistanceCases, Sizes DEF Positions
<1>7. RoomForStores' BY <1>1, <1>4, <1>5, <1>6, Counters, Sizes DEF RoomForStores, TypeOK
<1>8. ClaimStillTrue' BY <1>1 DEF ClaimStillTrue, TypeOK
<1> QED BY <1>2, <1>7, <1>8

\* IInv is inductive: one case per action of the producer and the consumer.
LEMMA NextIInv == IInv /\ [Next]_vars => IInv'
<1> SUFFICES ASSUME IInv, [Next]_vars PROVE IInv' OBVIOUS
<1> USE DEF IInv
<1>1. CASE PutBegin
  <2>1. fifo' = fifo /\ cons' = cons /\ last' = last /\ ~IsFull(fifo)
        /\ \E b \in Byte : prod' = [pc |-> "store", left |-> 1, byte |-> b]
    BY <1>1 DEF PutBegin
  <2>2. Length(fifo) + 1 <= Size BY <2>1, Counters, Sizes DEF IsFull
  <2>3. TypeOK' BY <2>1, Sizes DEF TypeOK
  <2>4. RoomForStores' BY <2>1, <2>2, Counters, Sizes DEF RoomForStores
  <2>5. ClaimStillTrue' BY <2>1 DEF ClaimStillTrue
  <2> QED BY <2>3, <2>4, <2>5
<1>2. CASE WriteBegin
  <2>1. /\ fifo' = fifo /\ cons' = cons /\ last' = last
        /\ \E n \in 1 .. Size - Length(fifo), b \in Byte :
             prod' = [pc |-> "store", left |-> n, byte |-> b]
    BY <1>2 DEF WriteBegin
  <2>2. TypeOK' BY <2>1, Counters, Sizes DEF TypeOK
  <2>3. RoomForStores' BY <2>1, Counters, Sizes DEF RoomForStores
  <2>4. ClaimStillTrue' BY <2>1 DEF ClaimStillTrue
  <2> QED BY <2>2, <2>3, <2>4
<1>3. CASE ProdStore BY <1>3, ProdStoreIInv
<1>4. CASE ProdPublish BY <1>4, ProdPublishIInv
<1>5. CASE GetBegin
  <2>1. /\ fifo' = fifo /\ prod' = prod /\ last' = last /\ Length(fifo) # 0
        /\ cons' = [cons EXCEPT !.pc = "fetch", !.left = 1]
    BY <1>5 DEF GetBegin
  <2>2. TypeOK'
    <3>1. cons' = [pc |-> "fetch", left |-> 1, byte |-> cons.byte, mark |-> cons.mark]
      BY <2>1 DEF TypeOK
    <3> QED BY <2>1, <3>1, Sizes DEF TypeOK
  <2>3. RoomForStores' BY <2>1 DEF RoomForStores
  <2>4. ClaimStillTrue' BY <2>1, Counters DEF ClaimStillTrue, TypeOK
  <2> QED BY <2>2, <2>3, <2>4
<1>6. CASE ReadBegin
  <2>1. /\ fifo' = fifo /\ prod' = prod /\ last' = last
        /\ \E n \in 1 .. Length(fifo) : cons' = [cons EXCEPT !.pc = "fetch", !.left = n]
    BY <1>6 DEF ReadBegin
  <2>2. TypeOK'
    <3>1. PICK n \in 1 .. Length(fifo) :
            cons' = [pc |-> "fetch", left |-> n, byte |-> cons.byte, mark |-> cons.mark]
      BY <2>1 DEF TypeOK
    <3>2. n \in 0 .. Size BY Counters, Sizes DEF RoomForStores
    <3> QED BY <2>1, <3>1, <3>2 DEF TypeOK
  <2>3. RoomForStores' BY <2>1 DEF RoomForStores
  <2>4. ClaimStillTrue' BY <2>1, Counters DEF ClaimStillTrue, TypeOK
  <2> QED BY <2>2, <2>3, <2>4
<1>7. CASE ConsFetch
  <2>1. /\ fifo' = fifo /\ prod' = prod /\ last' = last /\ cons.pc = "fetch"
        /\ cons' = [cons EXCEPT !.pc = "advance", !.byte = PeekAt(fifo, 0)]
    BY <1>7 DEF ConsFetch
  <2>2. PeekAt(fifo, 0) \in Byte
    BY Counters, SlotInSlots DEF PeekAt, TypeOK
  <2>3. TypeOK' BY <2>1, <2>2 DEF TypeOK
  <2>4. RoomForStores' BY <2>1 DEF RoomForStores
  <2>5. ClaimStillTrue' BY <2>1, <2>2 DEF ClaimStillTrue, TypeOK
  <2> QED BY <2>3, <2>4, <2>5
<1>8. CASE ConsAdvance BY <1>8, ConsAdvanceIInv
<1>9. CASE PeekBegin
  <2>1. /\ fifo' = fifo /\ prod' = prod /\ last' = last
        /\ \E index \in Slots : /\ Length(fifo) > index
                                /\ cons' = [cons EXCEPT !.pc = "peek", !.left = index]
    BY <1>9 DEF PeekBegin
  <2>2. TypeOK'
    <3>1. PICK index \in Slots :
            cons' = [pc |-> "peek", left |-> index, byte |-> cons.byte, mark |-> cons.mark]
      BY <2>1 DEF TypeOK
    <3>2. index \in 0 .. Size BY Sizes DEF Slots
    <3> QED BY <2>1, <3>1, <3>2 DEF TypeOK
  <2>3. RoomForStores' BY <2>1 DEF RoomForStores
  <2>4. ClaimStillTrue' BY <2>1 DEF ClaimStillTrue, TypeOK
  <2> QED BY <2>2, <2>3, <2>4
<1>10. CASE PeekEnd
  <2>1. /\ fifo' = fifo /\ prod' = prod /\ last' = PeekAt(fifo, cons.left)
        /\ cons' = [cons EXCEPT !.pc = "idle", !.left = 0]
    BY <1>10 DEF PeekEnd
  <2>2. PeekAt(fifo, cons.left) \in Byte
    <3>1. fifo.rd + cons.left \in Int BY Counters, Sizes DEF TypeOK
    <3> QED BY <3>1, SlotInSlots DEF PeekAt, TypeOK
  <2>3. TypeOK'
    <3>1. cons' = [pc |-> "idle", left |-> 0, byte |-> cons.byte, mark |-> cons.mark]
      BY <2>1 DEF TypeOK
    <3> QED BY <2>1, <2>2, <3>1, Sizes DEF TypeOK
  <2>4. RoomForStores' BY <2>1 DEF RoomForStores
  <2>5. ClaimStillTrue' BY <2>1 DEF ClaimStillTrue, TypeOK
  <2> QED BY <2>3, <2>4, <2>5
<1>11. CASE FlushBegin
  <2>1. /\ fifo' = fifo /\ prod' = prod /\ last' = last
        /\ cons' = [cons EXCEPT !.pc = "flush", !.mark = fifo.wr]
    BY <1>11 DEF FlushBegin
  <2>2. TypeOK' BY <2>1 DEF TypeOK
  <2>3. RoomForStores' BY <2>1 DEF RoomForStores
  <2>4. ClaimStillTrue' BY <2>1, Counters DEF ClaimStillTrue, TypeOK
  <2> QED BY <2>2, <2>3, <2>4
<1>12. CASE FlushEnd BY <1>12, FlushEndIInv
<1>13. CASE UNCHANGED vars
  <2>1. fifo' = fifo /\ prod' = prod /\ cons' = cons /\ last' = last
    BY <1>13 DEF vars
  <2> QED BY <2>1 DEF TypeOK, RoomForStores, ClaimStillTrue
<1> QED
  BY <1>1, <1>2, <1>3, <1>4, <1>5, <1>6, <1>7, <1>8, <1>9, <1>10, <1>11, <1>12, <1>13
  DEF Next, Producer, Consumer

LEMMA AlwaysIInv == Spec => []IInv
<1>1. Init => IInv BY InitIInv
<1>2. IInv /\ [Next]_vars => IInv' BY NextIInv
<1> QED BY <1>1, <1>2, PTL DEF Spec

\* Type correctness of the FIFO and of its two users.
THEOREM FifoTypeCorrect == Spec => []TypeOK
<1>1. IInv => TypeOK BY DEF IInv
<1> QED BY <1>1, AlwaysIInv, PTL

\* The producer never overwrites an unread byte, for every size and counter
\* width (nRF5x_FIFO.c:65-74, :148-181).
THEOREM ProducerHasRoom == Spec => []RoomForStores
<1>1. IInv => RoomForStores BY DEF IInv
<1> QED BY <1>1, AlwaysIInv, PTL

\* What the consumer decided from an earlier look at the length still stands
\* when it acts (nRF5x_FIFO.c:78-144).
THEOREM ConsumerClaimStands == Spec => []ClaimStillTrue
<1>1. IInv => ClaimStillTrue BY DEF IInv
<1> QED BY <1>1, AlwaysIInv, PTL

-----------------------------------------------------------------------------
(* Refinement of BoundedQueue. *)

\* Unread is a sequence as long as the FIFO claims to be.
LEMMA UnreadIsSeq ==
  ASSUME TypeOK
  PROVE  /\ Unread \in Seq(Byte) /\ Len(Unread) = Length(fifo)
         /\ \A k \in 1 .. Length(fifo) : Unread[k] = PeekAt(fifo, k - 1)
<1>1. Length(fifo) \in Nat BY Counters
<1>2. ASSUME NEW k \in 1 .. Length(fifo) PROVE PeekAt(fifo, k - 1) \in Byte
  <2>1. fifo.rd + (k - 1) \in Int BY <1>1, Counters
  <2> QED BY <2>1, SlotInSlots DEF PeekAt, TypeOK
<1>3. Unread \in [1 .. Length(fifo) -> Byte] BY <1>2 DEF Unread
<1>4. Unread \in Seq(Byte) BY <1>1, <1>3, SeqDef
<1>5. Len(Unread) = Length(fifo) BY <1>1, <1>3, <1>4, LenProperties
<1> QED BY <1>4, <1>5 DEF Unread

LEMMA UnreadIsSeqNext ==
  TypeOK' => (Unread \in Seq(Byte) /\ Len(Unread) = Length(fifo))'
<1>1. TypeOK => (Unread \in Seq(Byte) /\ Len(Unread) = Length(fifo)) BY UnreadIsSeq
<1> QED BY <1>1, PTL

\* A store changes no unread byte.
LEMMA StoreStutters ==
  ASSUME IInv, ProdStore
  PROVE  Unread' = Unread
<1>1. /\ fifo' = [fifo EXCEPT !.buf = [@ EXCEPT ![Slot(fifo.wr)] = prod.byte]]
      /\ prod.pc = "store"
  BY DEF ProdStore, Store
<1>2. fifo'.rd = fifo.rd /\ Length(fifo)' = Length(fifo)
  BY <1>1 DEF TypeOK, Length, IInv
<1>3. Length(fifo) < Size
  BY <1>1, Counters, Sizes DEF RoomForStores, IInv, TypeOK
<1>4. ASSUME NEW k \in 1 .. Length(fifo)
      PROVE  PeekAt(fifo, k - 1)' = PeekAt(fifo, k - 1)
  <2>1. k - 1 \in 0 .. Length(fifo) - 1 BY Counters DEF IInv
  <2>2. Slot(fifo.rd + (k - 1)) # Slot(fifo.wr) BY <1>3, <2>1, StoreOutsideUnread DEF IInv
  <2>3. fifo.rd + (k - 1) \in Int BY Counters DEF IInv
  <2>4. Slot(fifo.rd + (k - 1)) \in Slots BY <2>3, SlotInSlots
  <2> QED BY <1>1, <1>2, <2>2, <2>4 DEF PeekAt, TypeOK, IInv
<1> QED BY <1>2, <1>4 DEF Unread

\* write_pos++ is the moment a byte enters the queue.
LEMMA PublishEnqueues ==
  ASSUME IInv, ProdPublish
  PROVE  Queue!Enqueue
<1>1. PICK b \in Byte :
        /\ prod.pc = "publish" /\ fifo' = [fifo EXCEPT !.wr = Next1(fifo.wr)]
        /\ prod'.byte = b /\ last' = last
  BY DEF ProdPublish, Publish
<1>2. TypeOK /\ TypeOK' BY ProdPublishIInv DEF IInv
<1>3. Length(fifo) < Size /\ fifo.buf[Slot(fifo.wr)] = prod.byte
  BY <1>1, <1>2, Counters, Sizes DEF IInv, RoomForStores, TypeOK
<1>4. fifo'.rd = fifo.rd /\ fifo'.buf = fifo.buf /\ fifo'.wr = Next1(fifo.wr)
  BY <1>1, <1>2 DEF TypeOK
<1>5. Length(fifo)' = Length(fifo) + 1
  <2>1. Distance(fifo.rd, fifo.wr) < Size BY <1>2, <1>3, Counters
  <2> QED BY <2>1, <1>2, <1>4, Counters, LengthAfterPublish DEF Length
<1>6. Unread \in Seq(Byte) /\ Len(Unread) = Length(fifo)
      /\ Unread' \in Seq(Byte) /\ Len(Unread)' = Length(fifo)'
  <2>1. Unread \in Seq(Byte) /\ Len(Unread) = Length(fifo) BY <1>2, UnreadIsSeq
  <2>2. Unread' \in Seq(Byte) /\ Len(Unread)' = Length(fifo)'
    BY <1>2, UnreadIsSeqNext
  <2> QED BY <2>1, <2>2
<1>7. prod.byte \in Byte /\ Length(fifo) \in Nat BY <1>2, Counters DEF TypeOK
<1> DEFINE q == Append(Unread, prod.byte)
<1>8. q \in Seq(Byte) /\ Len(q) = Length(fifo) + 1
      /\ \A k \in 1 .. Length(fifo) : q[k] = Unread[k]
      /\ q[Length(fifo) + 1] = prod.byte
  BY <1>6, <1>7
<1>9. ASSUME NEW k \in 1 .. Length(fifo) + 1 PROVE Unread'[k] = q[k]
  <2>1. Unread'[k] = fifo.buf[Slot(fifo.rd + (k - 1))]
    BY <1>4, <1>5 DEF Unread, PeekAt
  <2>2. CASE k \in 1 .. Length(fifo)
    <3>1. Unread[k] = fifo.buf[Slot(fifo.rd + (k - 1))]
      BY <2>2 DEF Unread, PeekAt
    <3>2. q[k] = Unread[k] BY <2>2, <1>8
    <3> HIDE DEF q
    <3> QED BY <2>1, <3>1, <3>2
  <2>3. CASE k = Length(fifo) + 1
    <3>1. Slot(fifo.rd + (k - 1)) = Slot(fifo.wr) BY <2>3, <1>2, <1>7, Counters
    <3> QED BY <3>1, <2>1, <2>3, <1>3, <1>8
  <2>4. k \in 1 .. Length(fifo) \/ k = Length(fifo) + 1 BY <1>7
  <2> QED BY <2>2, <2>3, <2>4
<1>10. Unread' = q
  <2> HIDE DEF q
  <2> QED BY <1>5, <1>6, <1>8, <1>9, SeqEqual
<1> QED BY <1>1, <1>3, <1>6, <1>10 DEF Queue!Enqueue

\* read_pos++ is the moment the oldest byte leaves it.
LEMMA AdvanceDequeues ==
  ASSUME IInv, ConsAdvance
  PROVE  Queue!Dequeue
<1>1. /\ cons.pc = "advance" /\ fifo' = [fifo EXCEPT !.rd = Next1(fifo.rd)]
      /\ last' = cons.byte /\ prod' = prod
  BY DEF ConsAdvance, Advance
<1>2. TypeOK /\ TypeOK' BY ConsAdvanceIInv DEF IInv
<1>3. cons.left \in 1 .. Length(fifo) /\ cons.byte = PeekAt(fifo, 0) /\ Length(fifo) \in Nat
  BY <1>1, <1>2, Counters DEF ClaimStillTrue, IInv
<1>4. fifo'.rd = Next1(fifo.rd) /\ fifo'.wr = fifo.wr /\ fifo'.buf = fifo.buf
  BY <1>1, <1>2 DEF TypeOK
<1>5. Length(fifo)' = Length(fifo) - 1 /\ Length(fifo) > 0
  <2>1. Distance(fifo.rd, fifo.wr) > 0 BY <1>2, <1>3, Counters
  <2> QED BY <2>1, <1>2, <1>4, Counters, LengthAfterAdvance DEF Length
<1>6. Unread \in Seq(Byte) /\ Len(Unread) = Length(fifo)
      /\ Unread' \in Seq(Byte) /\ Len(Unread)' = Length(fifo)'
      /\ Unread[1] = PeekAt(fifo, 0)
  <2>1. 1 \in 1 .. Length(fifo) /\ 1 - 1 = 0 BY <1>3, <1>5
  <2>2. Unread \in Seq(Byte) /\ Len(Unread) = Length(fifo) BY <1>2, UnreadIsSeq
  <2>3. Unread' \in Seq(Byte) /\ Len(Unread)' = Length(fifo)'
    BY <1>2, UnreadIsSeqNext
  <2>4. Unread[1] = PeekAt(fifo, 0) BY <2>1 DEF Unread
  <2> QED BY <2>2, <2>3, <2>4
<1>7. Unread # <<>> /\ Head(Unread) = Unread[1] BY <1>5, <1>6
<1>8. Tail(Unread) \in Seq(Byte) /\ Len(Tail(Unread)) = Length(fifo) - 1
      /\ \A k \in 1 .. Length(fifo) - 1 : Tail(Unread)[k] = Unread[k + 1]
  BY <1>6, <1>7, HeadTailProperties
<1>9. ASSUME NEW k \in 1 .. Length(fifo) - 1 PROVE Unread'[k] = Tail(Unread)[k]
  <2>1. Unread'[k] = fifo.buf[Slot(Next1(fifo.rd) + (k - 1))]
    BY <1>4, <1>5 DEF Unread, PeekAt
  <2>2. Unread[k + 1] = fifo.buf[Slot(fifo.rd + k)]
    BY <1>3 DEF Unread, PeekAt
  <2>3. Slot(Next1(fifo.rd) + (k - 1)) = Slot(fifo.rd + 1 + (k - 1))
    BY <1>2, <1>3, Counters, SlotNext
  <2>4. fifo.rd + 1 + (k - 1) = fifo.rd + k BY <1>2, <1>3, Counters
  <2> QED BY <2>1, <2>2, <2>3, <2>4, <1>8
<1>10. Unread' = Tail(Unread) BY <1>5, <1>6, <1>8, <1>9, SeqEqual
<1> QED BY <1>1, <1>3, <1>6, <1>7, <1>10 DEF Queue!Dequeue

\* flush drops the bytes up to the mark it has read.
LEMMA FlushDiscards ==
  ASSUME IInv, FlushEnd
  PROVE  Queue!Discard
<1>1. /\ cons.pc = "flush" /\ fifo' = [fifo EXCEPT !.rd = cons.mark]
      /\ prod' = prod /\ last' = last
  BY DEF FlushEnd, FlushTo
<1>2. TypeOK /\ TypeOK' BY FlushEndIInv DEF IInv
<1> DEFINE d == Distance(fifo.rd, cons.mark)
           n == Length(fifo)
<1>3. cons.mark \in Positions /\ cons.mark \in Int /\ n \in Nat /\ d \in Nat /\ d <= n
  BY <1>1, <1>2, Counters, DistanceCases, Sizes DEF Positions, TypeOK, ClaimStillTrue, IInv
<1>4. fifo'.rd = cons.mark /\ fifo'.wr = fifo.wr /\ fifo'.buf = fifo.buf
  BY <1>1, <1>2 DEF TypeOK
<1>5. Length(fifo)' = n - d
  BY <1>2, <1>3, <1>4, Counters, LengthAfterFlush DEF Length
<1>6. Unread \in Seq(Byte) /\ Len(Unread) = n
      /\ Unread' \in Seq(Byte) /\ Len(Unread)' = Length(fifo)'
  <2>1. Unread \in Seq(Byte) /\ Len(Unread) = Length(fifo) BY <1>2, UnreadIsSeq
  <2>2. Unread' \in Seq(Byte) /\ Len(Unread)' = Length(fifo)'
    BY <1>2, UnreadIsSeqNext
  <2> QED BY <2>1, <2>2
<1> DEFINE q == SubSeq(Unread, d + 1, n)
<1>7. \A k \in d + 1 .. n : Unread[k] \in Byte
  <2> HIDE DEF d, n
  <2> QED BY <1>3, <1>6, LenProperties
<1>8. q \in Seq(Byte) /\ Len(q) = n - d
      /\ \A k \in 1 .. n - d : q[k] = Unread[d + k]
  <2>1. d + 1 \in Int /\ n \in Int BY <1>3
  <2> HIDE DEF d, n
  <2>2. /\ SubSeq(Unread, d + 1, n) \in Seq(Byte)
        /\ Len(SubSeq(Unread, d + 1, n)) = IF d + 1 <= n THEN n - (d + 1) + 1 ELSE 0
        /\ \A k \in 1 .. n - (d + 1) + 1 :
             SubSeq(Unread, d + 1, n)[k] = Unread[d + 1 + k - 1]
    BY <2>1, <1>7, SubSeqProperties
  <2>3. n - (d + 1) + 1 = n - d /\ \A k \in Int : d + 1 + k - 1 = d + k BY <1>3
  <2> QED BY <2>2, <2>3, <1>3
<1>9. ASSUME NEW k \in 1 .. n - d PROVE Unread'[k] = q[k]
  <2>1. Unread'[k] = fifo.buf[Slot(cons.mark + (k - 1))]
    BY <1>4, <1>5 DEF Unread, PeekAt
  <2>2. Unread[d + k] = fifo.buf[Slot(fifo.rd + (d + k - 1))]
    <3>1. d + k \in 1 .. n BY <1>3
    <3>2. \A j \in 1 .. n : Unread[j] = fifo.buf[Slot(fifo.rd + (j - 1))]
      BY DEF Unread, PeekAt
    <3>3. (d + k) - 1 = d + k - 1 BY <1>3
    <3> HIDE DEF d, n
    <3>4. Unread[d + k] = fifo.buf[Slot(fifo.rd + ((d + k) - 1))] BY <3>1, <3>2
    <3> QED BY <3>3, <3>4
  <2>3. Slot(cons.mark + (k - 1)) = Slot(fifo.rd + (d + k - 1))
    <3>1. fifo.rd \in Int /\ PosMod \in Int BY <1>2, Counters, Sizes
    <3>2. fifo.rd + d \in {cons.mark, cons.mark + PosMod}
      BY <3>1, <1>2, <1>3, Counters, DistanceCases
    <3>3. cons.mark + (k - 1) \in Int BY <1>3
    <3>4. Slot(cons.mark + (k - 1) + PosMod) = Slot(cons.mark + (k - 1))
      BY <3>3, SlotWraps
    <3>5. fifo.rd + (d + k - 1) \in {cons.mark + (k - 1), cons.mark + (k - 1) + PosMod}
      <4> HIDE DEF d, n
      <4> QED BY <3>1, <3>2, <1>3
    <3> QED BY <3>4, <3>5
  <2> QED BY <2>1, <2>2, <2>3, <1>8
<1>10. Unread' = q
  <2> HIDE DEF q, d, n
  <2> QED BY <1>5, <1>6, <1>8, <1>9, SeqEqual
<1>11. d \in 0 .. Len(Unread) BY <1>3, <1>6
<1> QED BY <1>1, <1>6, <1>10, <1>11 DEF Queue!Discard

LEMMA InitRefines == Init => Queue!Init
<1> SUFFICES ASSUME Init PROVE Queue!Init OBVIOUS
<1>1. TypeOK /\ Length(fifo) = 0
  <2>1. 0 \in Positions BY Sizes DEF Positions
  <2> QED BY <2>1, InitIInv, DistanceToSelf DEF Init, IInv, Length
<1>2. Unread \in Seq(Byte) /\ Len(Unread) = 0 BY <1>1, UnreadIsSeq
<1>3. Unread = <<>> BY <1>2, EmptySeq
<1> QED BY <1>1, <1>3 DEF Queue!Init, TypeOK

\* Every step of the two contexts is a step of the abstract queue or leaves its
\* variables alone.
LEMMA NextRefines == IInv /\ [Next]_vars => [Queue!Next]_(Queue!vars)
<1> SUFFICES ASSUME IInv, [Next]_vars PROVE [Queue!Next]_(Queue!vars) OBVIOUS
<1>0. IInv' BY NextIInv
<1>1. prod'.byte \in Byte BY <1>0 DEF IInv, TypeOK
<1>2. ASSUME fifo' = fifo, last' = last PROVE Queue!Offer
  <2>1. Unread' = Unread BY <1>2 DEF Unread, Length, PeekAt
  <2> QED BY <1>1, <1>2, <2>1 DEF Queue!Offer
<1>3. CASE ProdStore
  <2>1. last' = last BY <1>3 DEF ProdStore
  <2> QED BY <1>1, <1>3, <2>1, StoreStutters DEF Queue!Offer, Queue!Next
<1>4. CASE ProdPublish BY <1>4, PublishEnqueues DEF Queue!Next
<1>5. CASE ConsAdvance BY <1>5, AdvanceDequeues DEF Queue!Next
<1>6. CASE FlushEnd BY <1>6, FlushDiscards DEF Queue!Next
<1>7. CASE PeekEnd
  <2>1. /\ fifo' = fifo /\ prod' = prod /\ last' = PeekAt(fifo, cons.left)
        /\ cons.pc = "peek"
    BY <1>7 DEF PeekEnd
  <2>2. Unread' = Unread BY <2>1 DEF Unread, Length, PeekAt
  <2>3. cons.left \in Nat /\ cons.left < Length(fifo) /\ Length(fifo) \in Nat
    BY <2>1, Counters, Sizes DEF IInv, ClaimStillTrue, TypeOK
  <2>4. cons.left + 1 \in 1 .. Length(fifo) /\ (cons.left + 1) - 1 = cons.left BY <2>3
  <2>5. Len(Unread) = Length(fifo) BY UnreadIsSeq DEF IInv
  <2>6. last' = Unread[cons.left + 1] BY <2>1, <2>4 DEF Unread
  <2>7. cons.left + 1 \in 1 .. Len(Unread) BY <2>4, <2>5
  <2> QED BY <2>1, <2>2, <2>6, <2>7 DEF Queue!Look, Queue!Next
<1>8. CASE PutBegin BY <1>2, <1>8 DEF PutBegin, Queue!Next
<1>9. CASE WriteBegin BY <1>2, <1>9 DEF WriteBegin, Queue!Next
<1>10. CASE GetBegin BY <1>2, <1>10 DEF GetBegin, Queue!Next
<1>11. CASE ReadBegin BY <1>2, <1>11 DEF ReadBegin, Queue!Next
<1>12. CASE ConsFetch BY <1>2, <1>12 DEF ConsFetch, Queue!Next
<1>13. CASE PeekBegin BY <1>2, <1>13 DEF PeekBegin, Queue!Next
<1>14. CASE FlushBegin BY <1>2, <1>14 DEF FlushBegin, Queue!Next
<1>15. CASE UNCHANGED vars BY <1>2, <1>15 DEF vars, Queue!Next
<1> QED
  BY <1>3, <1>4, <1>5, <1>6, <1>7, <1>8, <1>9, <1>10, <1>11, <1>12, <1>13, <1>14, <1>15
  DEF Next, Producer, Consumer

\* The lock-free FIFO implements the bounded queue: bytes leave in the order in
\* which they came, none is made up, at most Size wait (nRF5x_FIFO.h:45-125).
THEOREM FifoImplementsQueue == Spec => ImplementsQueue
<1>1. Init => Queue!Init BY InitRefines
<1>2. IInv /\ [Next]_vars => [Queue!Next]_(Queue!vars) BY NextRefines
<1> QED BY <1>1, <1>2, AlwaysIInv, PTL DEF Spec, ImplementsQueue, Queue!Spec

-----------------------------------------------------------------------------
(* The USB event queue. *)

(***************************************************************************)
(* RingPositions in the ring, as distances from a slot.                        *)
(***************************************************************************)

\* The distance of two slots is less than the size, and 0 only to itself.
LEMMA AfterRange ==
  ASSUME NEW p \in QueuePos, NEW q \in QueuePos
  PROVE  /\ After(p, q) \in QueuePos
         /\ After(p, q) = 0 <=> p = q
  BY QueueAssumption, SMT DEF After, QueuePos

\* A slot is known by its distance.
LEMMA AfterInjective ==
  ASSUME NEW p \in QueuePos, NEW q \in QueuePos, NEW r \in QueuePos,
         After(p, q) = After(p, r)
  PROVE  q = r
  BY QueueAssumption, SMT DEF After, QueuePos

LEMMA NextPosType ==
  ASSUME NEW p \in QueuePos
  PROVE  NextPos(p) \in QueuePos /\ NextPos(p) # p
  BY QueueAssumption, SMT DEF NextPos, QueuePos

\* The next slot is one farther, unless it is where the distance begins.
LEMMA AfterNext ==
  ASSUME NEW p \in QueuePos, NEW q \in QueuePos, NextPos(q) # p
  PROVE  After(p, NextPos(q)) = After(p, q) + 1
  BY QueueAssumption, SMT DEF After, NextPos, QueuePos

\* Seen from the next slot every other slot is one nearer.
LEMMA AfterFromNext ==
  ASSUME NEW p \in QueuePos, NEW q \in QueuePos
  PROVE  /\ q # p => After(NextPos(p), q) = After(p, q) - 1
         /\ After(NextPos(p), p) = QueueSlots - 1
  BY QueueAssumption, SMT DEF After, NextPos, QueuePos
(***************************************************************************)
(* The nested contexts, as a sequence.                                     *)
(***************************************************************************)

\* One more context begins to add an event.
LEMMA OneMore ==
  ASSUME NEW q \in Seq(Ticket), NEW t \in Ticket
  PROVE  /\ Append(q, t) \in Seq(Ticket) /\ Len(Append(q, t)) = Len(q) + 1
         /\ \A k \in 1 .. Len(q) : Append(q, t)[k] = q[k]
         /\ Append(q, t)[Len(q) + 1] = t
  OBVIOUS

\* The innermost context is done.
LEMMA OneLess ==
  ASSUME NEW q \in Seq(Ticket), Len(q) > 0
  PROVE  /\ SubSeq(q, 1, Len(q) - 1) \in Seq(Ticket)
         /\ Len(SubSeq(q, 1, Len(q) - 1)) = Len(q) - 1
         /\ \A k \in 1 .. Len(q) - 1 : SubSeq(q, 1, Len(q) - 1)[k] = q[k]
  <1> DEFINE n == Len(q) - 1
  <1>1. n \in Nat /\ \A k \in 1 .. n : q[k] \in Ticket
    OBVIOUS
  <1> HIDE DEF n
  <1>2. /\ SubSeq(q, 1, n) \in Seq(Ticket)
        /\ Len(SubSeq(q, 1, n)) = IF 1 <= n THEN n - 1 + 1 ELSE 0
        /\ \A k \in 1 .. n - 1 + 1 : SubSeq(q, 1, n)[k] = q[1 + k - 1]
    BY <1>1, SubSeqProperties
  <1>3. Len(SubSeq(q, 1, n)) = n
    BY <1>1, <1>2
  <1>4. \A k \in 1 .. n : SubSeq(q, 1, n)[k] = q[k]
    <2>1. TAKE k \in 1 .. n
    <2>2. 1 + k - 1 = k /\ k \in 1 .. n - 1 + 1
      BY <1>1
    <2>3. QED
      BY <1>2, <2>2
  <1>5. QED
    BY <1>2, <1>3, <1>4 DEF n

\* The innermost context has written its event.
LEMMA OneWritten ==
  ASSUME NEW q \in Seq(Ticket), NEW n \in 1 .. Len(q)
  PROVE  LET r == [q EXCEPT ![n].written = TRUE]
         IN /\ r \in Seq(Ticket) /\ Len(r) = Len(q)
            /\ \A k \in 1 .. Len(q) : k # n => r[k] = q[k]
            /\ r[n] = [q[n] EXCEPT !.written = TRUE]
  <1> DEFINE r == [q EXCEPT ![n].written = TRUE]
  <1>0. q[n] \in Ticket
    OBVIOUS
  <1>1. [q[n] EXCEPT !.written = TRUE] \in Ticket
    BY <1>0 DEF Ticket
  <1>2. r \in Seq(Ticket) /\ Len(r) = Len(q)
    BY <1>1
  <1>3. QED
    BY <1>1, <1>2

(***************************************************************************)
(* The inductive invariant.                                                *)
(***************************************************************************)

\* How far behind the oldest slot not yet freed.
Dist(p) == After(evq.head.wr, p)

\* Going round from the oldest slot: what is executed, visible, coming.
RingOrdered == /\ Dist(evq.head.rd) <= Dist(evq.tail.rd)
               /\ Dist(evq.tail.rd) <= Dist(evq.tail.wr)

\* The main loop has at most one item, the oldest, and frees it itself.
OneTaker ==
  /\ taking.busy => /\ taking.outer /\ taking.slot = evq.head.wr
                    /\ evq.head.rd = NextPos(evq.head.wr)
                    /\ taking.event = evq.buf[taking.slot]
  /\ ~taking.busy => evq.head.rd = evq.head.wr

\* The outermost context, and no other, will make the coming events visible.
OneCloser ==
  /\ adding = <<>> <=> evq.tail.rd = evq.tail.wr
  /\ \A k \in 1 .. Len(adding) : adding[k].outer <=> k = 1

\* Every context writes to a coming slot, which is its own.
Claims ==
  \A k \in 1 .. Len(adding) :
    /\ Dist(evq.tail.rd) <= Dist(adding[k].slot)
    /\ Dist(adding[k].slot) < Dist(evq.tail.wr)
    /\ promised[adding[k].slot] = adding[k].event
    /\ adding[k].written => evq.buf[adding[k].slot] = adding[k].event

\* A slot in use holds its event, or a context is about to write it.
SlotsAccounted ==
  \A p \in QueuePos : Dist(p) < Dist(evq.tail.wr) =>
    \/ evq.buf[p] = promised[p]
    \/ \E k \in 1 .. Len(adding) : adding[k].slot = p /\ ~adding[k].written

QueueInv == /\ QueueTypeOK /\ RingOrdered /\ OneTaker /\ OneCloser
            /\ Claims /\ SlotsAccounted
\* The positions are slots.
LEMMA RingPositions ==
  ASSUME QueueTypeOK
  PROVE  /\ evq.head.wr \in QueuePos /\ evq.head.rd \in QueuePos
         /\ evq.tail.wr \in QueuePos /\ evq.tail.rd \in QueuePos
  BY DEF QueueTypeOK, Position

LEMMA QueueInvInit == ASSUME QueueInit PROVE QueueInv
  <1>1. 0 \in QueuePos /\ After(0, 0) = 0
    BY QueueAssumption DEF QueuePos, After
  <1>2. /\ evq.head = [wr |-> 0, rd |-> 0] /\ evq.tail = [wr |-> 0, rd |-> 0]
        /\ evq.buf \in [QueuePos -> Event]
        /\ evq \in [buf : [QueuePos -> Event], tail : Position, head : Position]
    BY <1>1 DEF QueueInit, Position
  <1>3. /\ taking \in [busy : BOOLEAN, slot : QueuePos, outer : BOOLEAN, event : Event]
        /\ taking.busy = FALSE
    BY <1>1 DEF QueueInit
  <1>4. adding = <<>> /\ dropped = FALSE /\ promised = evq.buf
    BY DEF QueueInit
  <1>5. adding \in Seq(Ticket) /\ Len(adding) = 0 /\ 1 .. Len(adding) = {}
    BY <1>4
  <1>6. QueueTypeOK
    <2>1. Len(adding) <= Depth
      BY <1>5, QueueAssumption
    <2>2. promised \in [QueuePos -> Event] /\ dropped \in BOOLEAN
      BY <1>2, <1>4
    <2>3. QED
      BY <1>2, <1>3, <1>5, <2>1, <2>2 DEF QueueTypeOK
  <1>7. RingOrdered
    BY <1>1, <1>2 DEF RingOrdered, Dist
  <1>8. OneTaker /\ OneCloser /\ Claims /\ SlotsAccounted
    BY <1>2, <1>3, <1>4, <1>5 DEF OneTaker, OneCloser, Claims, SlotsAccounted
  <1>9. QED
    BY <1>6, <1>7, <1>8 DEF QueueInv

\* nrf_atfifo_wspace_req claims the slot after the coming ones.
LEMMA AllocKeepsInv ==
  ASSUME QueueInv, NEW e \in Event, ItemAlloc(e)
  PROVE  QueueInv'
  <1> DEFINE n == Len(adding)
             t == [slot |-> evq.tail.wr, outer |-> evq.tail.wr = evq.tail.rd,
                   event |-> e, written |-> FALSE]
  <1>1. /\ evq.head.wr \in QueuePos /\ evq.head.rd \in QueuePos
        /\ evq.tail.wr \in QueuePos /\ evq.tail.rd \in QueuePos
        /\ NextPos(evq.tail.wr) \in QueuePos
    BY RingPositions, NextPosType DEF QueueInv
  <1>2. /\ evq'.buf = evq.buf /\ evq'.head = evq.head
        /\ evq'.tail.rd = evq.tail.rd /\ evq'.tail.wr = NextPos(evq.tail.wr)
        /\ evq' \in [buf : [QueuePos -> Event], tail : Position, head : Position]
    BY <1>1 DEF QueueInv, QueueTypeOK, ItemAlloc, Position
  <1>3. /\ promised' = [promised EXCEPT ![evq.tail.wr] = e]
        /\ taking' = taking /\ dropped' = FALSE /\ adding' = Append(adding, t)
        /\ n < Depth
    BY DEF ItemAlloc
  <1>4. t \in Ticket /\ adding \in Seq(Ticket) /\ n \in Nat
    BY <1>1 DEF Ticket, QueueInv, QueueTypeOK
  <1>5. /\ adding' \in Seq(Ticket) /\ Len(adding') = n + 1
        /\ \A k \in 1 .. n : adding'[k] = adding[k]
        /\ adding'[n + 1] = t
    BY <1>3, <1>4, OneMore
  <1>6. /\ \A k \in 1 .. n : adding[k] \in Ticket /\ adding[k].slot \in QueuePos
        /\ promised \in [QueuePos -> Event] /\ promised' \in [QueuePos -> Event]
        /\ \A q \in QueuePos : q # evq.tail.wr => promised'[q] = promised[q]
        /\ promised'[evq.tail.wr] = e
    <2>1. promised \in [QueuePos -> Event]
      BY DEF QueueInv, QueueTypeOK
    <2>2. \A k \in 1 .. n : adding[k] \in Ticket
      BY <1>4
    <2>3. \A k \in 1 .. n : adding[k].slot \in QueuePos
      BY <2>2 DEF Ticket
    <2>4. QED
      BY <1>1, <1>3, <2>1, <2>2, <2>3
  <1>7. \A q \in QueuePos : Dist(q)' = Dist(q) /\ Dist(q) \in QueuePos
    BY <1>1, <1>2, AfterRange DEF Dist
  <1>8. Dist(evq.tail.wr)' = Dist(evq.tail.wr) + 1 /\ Dist(evq.tail.rd)' = Dist(evq.tail.rd)
        /\ Dist(evq.head.rd)' = Dist(evq.head.rd)
    BY <1>1, <1>2, AfterNext DEF Dist, ItemAlloc, QueueFull
  <1>9. QueueTypeOK'
    <2>1. Len(adding') <= Depth
      BY <1>3, <1>4, <1>5, QueueAssumption
    <2>2. taking' \in [busy : BOOLEAN, slot : QueuePos, outer : BOOLEAN, event : Event]
      BY <1>3 DEF QueueInv, QueueTypeOK
    <2>3. QED
      BY <1>2, <1>3, <1>5, <1>6, <2>1, <2>2 DEF QueueTypeOK
  <1>10. RingOrdered'
    BY <1>1, <1>7, <1>8 DEF QueueInv, RingOrdered, QueuePos
  <1>11. OneTaker'
    BY <1>2, <1>3 DEF QueueInv, OneTaker
  <1>12. OneCloser'
    <2>1. adding' # <<>>
      BY <1>4, <1>5
    <2>2. evq'.tail.rd # evq'.tail.wr
      <3>1. Dist(evq.tail.rd) <= Dist(evq.tail.wr)
        BY DEF QueueInv, RingOrdered
      <3>2. Dist(evq.tail.rd)' # Dist(evq.tail.wr)'
        BY <3>1, <1>1, <1>7, <1>8 DEF QueuePos
      <3>3. QED
        BY <3>2 DEF Dist
    <2>3. t.outer <=> n + 1 = 1
      <3>1. t.outer <=> adding = <<>>
        BY DEF QueueInv, OneCloser
      <3>2. adding = <<>> <=> n = 0
        BY <1>4
      <3>3. QED
        BY <3>1, <3>2, <1>4
    <2>4. \A k \in 1 .. Len(adding') : adding'[k].outer <=> k = 1
      <3>1. TAKE k \in 1 .. Len(adding')
      <3>2. CASE k = n + 1
        BY <3>2, <2>3, <1>5
      <3>3. CASE k \in 1 .. n
        BY <3>3, <1>5 DEF QueueInv, OneCloser
      <3>4. QED
        BY <3>2, <3>3, <1>4, <1>5
    <2>5. QED
      BY <2>1, <2>2, <2>4 DEF OneCloser
  <1>13. Claims'
    <2>1. SUFFICES ASSUME NEW k \in 1 .. Len(adding')
          PROVE  /\ Dist(evq.tail.rd)' <= Dist(adding[k].slot)'
                 /\ Dist(adding[k].slot)' < Dist(evq.tail.wr)'
                 /\ promised'[adding'[k].slot] = adding'[k].event
                 /\ adding'[k].written => evq'.buf[adding'[k].slot] = adding'[k].event
      BY DEF Claims
    <2>2. CASE k = n + 1
      <3>1. adding'[k] = t /\ Dist(adding[k].slot)' = Dist(evq.tail.wr)
        BY <2>2, <1>1, <1>5, <1>7 DEF Dist
      <3>2. QED
        BY <3>1, <1>1, <1>6, <1>7, <1>8 DEF QueueInv, RingOrdered, QueuePos
    <2>3. CASE k \in 1 .. n
      <3>1. adding'[k] = adding[k] /\ Dist(adding[k].slot)' = Dist(adding[k].slot)
        BY <2>3, <1>2, <1>5 DEF Dist
      <3>2. /\ Dist(evq.tail.rd) <= Dist(adding[k].slot)
            /\ Dist(adding[k].slot) < Dist(evq.tail.wr)
            /\ promised[adding[k].slot] = adding[k].event
            /\ adding[k].written => evq.buf[adding[k].slot] = adding[k].event
        BY <2>3 DEF QueueInv, Claims
      <3>3. adding[k].slot # evq.tail.wr
        BY <3>2, <2>3, <1>1, <1>6, <1>7 DEF QueuePos
      <3>4. promised'[adding[k].slot] = promised[adding[k].slot]
        BY <2>3, <3>3, <1>6
      <3>5. Dist(adding[k].slot) < Dist(evq.tail.wr) + 1
        <4>1. Dist(adding[k].slot) \in QueuePos /\ Dist(evq.tail.wr) \in QueuePos
          BY <2>3, <1>1, <1>6, <1>7
        <4>2. \A a, b \in QueuePos : a < b => a < b + 1
          BY DEF QueuePos
        <4>3. QED
          BY <3>2, <4>1, <4>2
      <3>6. QED
        BY <3>1, <3>2, <3>4, <3>5, <1>2, <1>8
    <2>4. QED
      BY <2>2, <2>3, <1>4, <1>5
  <1>14. SlotsAccounted'
    <2>1. SUFFICES ASSUME NEW p \in QueuePos, Dist(p)' < Dist(evq.tail.wr)'
          PROVE  \/ evq'.buf[p] = promised'[p]
                 \/ \E k \in 1 .. Len(adding') : adding'[k].slot = p /\ ~adding'[k].written
      BY DEF SlotsAccounted
    <2>2. CASE p = evq.tail.wr
      <3>1. n + 1 \in 1 .. Len(adding') /\ adding'[n + 1].slot = p /\ ~adding'[n + 1].written
        BY <2>2, <1>4, <1>5
      <3>2. QED
        BY <3>1
    <2>3. CASE p # evq.tail.wr
      <3>1. Dist(p) # Dist(evq.tail.wr)
        BY <2>3, <1>1, AfterInjective DEF Dist
      <3>2. Dist(p) < Dist(evq.tail.wr)
        BY <2>1, <3>1, <1>1, <1>7, <1>8 DEF QueuePos
      <3>3. \/ evq.buf[p] = promised[p]
            \/ \E k \in 1 .. n : adding[k].slot = p /\ ~adding[k].written
        BY <3>2 DEF QueueInv, SlotsAccounted
      <3>4. 1 .. n \subseteq 1 .. Len(adding')
        BY <1>4, <1>5
      <3>5. QED
        BY <3>3, <3>4, <2>3, <1>2, <1>5, <1>6
    <2>4. QED
      BY <2>2, <2>3
  <1>15. QED
    BY <1>9, <1>10, <1>11, <1>12, <1>13, <1>14 DEF QueueInv
\* The innermost context writes its event.
LEMMA WriteKeepsInv ==
  ASSUME QueueInv, ItemWrite
  PROVE  QueueInv'
  <1> DEFINE n == Len(adding)
             s == adding[n].slot
  <1>1. /\ evq.head.wr \in QueuePos /\ evq.head.rd \in QueuePos
        /\ evq.tail.wr \in QueuePos /\ evq.tail.rd \in QueuePos
    BY RingPositions DEF QueueInv
  <1>2. adding \in Seq(Ticket) /\ n \in 1 .. Len(adding)
    BY DEF QueueInv, QueueTypeOK, ItemWrite
  <1>3. \A k \in 1 .. n : adding[k] \in Ticket /\ adding[k].slot \in QueuePos
                            /\ adding[k].event \in Event
    <2>1. \A k \in 1 .. n : adding[k] \in Ticket
      BY <1>2
    <2>2. QED
      BY <2>1 DEF Ticket
  <1>4. /\ evq'.head = evq.head /\ evq'.tail = evq.tail
        /\ evq'.buf = [evq.buf EXCEPT ![s] = adding[n].event]
        /\ evq' \in [buf : [QueuePos -> Event], tail : Position, head : Position]
    BY <1>2, <1>3 DEF QueueInv, QueueTypeOK, ItemWrite
  <1>5. /\ evq'.buf[s] = adding[n].event
        /\ \A q \in QueuePos : q # s => evq'.buf[q] = evq.buf[q]
    BY <1>2, <1>3, <1>4 DEF QueueInv, QueueTypeOK
  <1>6. /\ adding' \in Seq(Ticket) /\ Len(adding') = n
        /\ \A k \in 1 .. n : k # n => adding'[k] = adding[k]
        /\ adding'[n] = [adding[n] EXCEPT !.written = TRUE]
    BY <1>2, OneWritten DEF ItemWrite
  <1>7. /\ \A k \in 1 .. n : adding'[k].slot = adding[k].slot
        /\ \A k \in 1 .. n : adding'[k].event = adding[k].event
        /\ \A k \in 1 .. n : adding'[k].outer <=> adding[k].outer
        /\ \A k \in 1 .. n : k # n => (adding'[k].written <=> adding[k].written)
    BY <1>2, <1>3, <1>6 DEF Ticket
  <1>8. promised' = promised /\ taking' = taking /\ dropped' = dropped
    BY DEF ItemWrite
  <1>9. \A q \in QueuePos : Dist(q)' = Dist(q) /\ Dist(q) \in QueuePos
    BY <1>1, <1>4, AfterRange DEF Dist
  <1>10. /\ Dist(evq.tail.wr)' = Dist(evq.tail.wr) /\ Dist(evq.tail.rd)' = Dist(evq.tail.rd)
         /\ Dist(evq.head.rd)' = Dist(evq.head.rd)
    BY <1>4 DEF Dist
  <1>11. /\ Dist(evq.tail.rd) <= Dist(s) /\ Dist(s) < Dist(evq.tail.wr)
         /\ promised[s] = adding[n].event
    BY <1>2 DEF QueueInv, Claims
  <1>12. QueueTypeOK'
    BY <1>4, <1>6, <1>8 DEF QueueInv, QueueTypeOK
  <1>13. RingOrdered'
    BY <1>10 DEF QueueInv, RingOrdered
  <1>14. OneTaker'
    <2>1. CASE taking.busy
      <3>1. Dist(evq.head.wr) = 0 /\ Dist(evq.head.rd) # 0
        BY <2>1, <1>1, NextPosType, AfterRange DEF Dist, QueueInv, OneTaker
      <3>2. s # evq.head.wr
        <4>1. \A a, b, c \in QueuePos : a <= b /\ b <= c /\ c = 0 => a = 0
          BY DEF QueuePos
        <4>2. QED
          BY <3>1, <4>1, <1>1, <1>2, <1>3, <1>9, <1>11 DEF QueueInv, RingOrdered
      <3>3. QED
        BY <2>1, <3>2, <1>1, <1>4, <1>5, <1>8 DEF QueueInv, OneTaker
    <2>2. CASE ~taking.busy
      BY <2>2, <1>4, <1>8 DEF QueueInv, OneTaker
    <2>3. QED
      BY <2>1, <2>2
  <1>15. OneCloser'
    BY <1>2, <1>4, <1>6, <1>7 DEF QueueInv, OneCloser
  <1>16. Claims'
    <2>1. SUFFICES ASSUME NEW k \in 1 .. n
          PROVE  /\ Dist(evq.tail.rd)' <= Dist(adding[k].slot)'
                 /\ Dist(adding[k].slot)' < Dist(evq.tail.wr)'
                 /\ promised'[adding'[k].slot] = adding'[k].event
                 /\ adding'[k].written => evq'.buf[adding'[k].slot] = adding'[k].event
      BY <1>6 DEF Claims
    <2>2. /\ Dist(evq.tail.rd) <= Dist(adding[k].slot)
          /\ Dist(adding[k].slot) < Dist(evq.tail.wr)
          /\ promised[adding[k].slot] = adding[k].event
          /\ adding[k].written => evq.buf[adding[k].slot] = adding[k].event
      BY DEF QueueInv, Claims
    <2>3. Dist(adding[k].slot)' = Dist(adding[k].slot)
      BY <1>4, <1>7 DEF Dist
    <2>4. adding'[k].written => evq'.buf[adding'[k].slot] = adding'[k].event
      BY <2>2, <1>3, <1>5, <1>7, <1>11
    <2>5. QED
      BY <2>2, <2>3, <2>4, <1>7, <1>8, <1>10
  <1>17. SlotsAccounted'
    <2>1. SUFFICES ASSUME NEW p \in QueuePos, Dist(p)' < Dist(evq.tail.wr)'
          PROVE  \/ evq'.buf[p] = promised'[p]
                 \/ \E k \in 1 .. Len(adding') : adding'[k].slot = p /\ ~adding'[k].written
      BY DEF SlotsAccounted
    <2>2. CASE p = s
      BY <2>2, <1>5, <1>8, <1>11
    <2>3. CASE p # s
      <3>1. \/ evq.buf[p] = promised[p]
            \/ \E k \in 1 .. n : adding[k].slot = p /\ ~adding[k].written
        BY <2>1, <1>9, <1>10 DEF QueueInv, SlotsAccounted
      <3>2. \A k \in 1 .. n : adding[k].slot = p => k # n
        BY <2>3
      <3>3. QED
        BY <2>3, <3>1, <3>2, <1>5, <1>6, <1>7, <1>8
    <2>4. QED
      BY <2>2, <2>3
  <1>18. QED
    BY <1>12, <1>13, <1>14, <1>15, <1>16, <1>17 DEF QueueInv
\* The innermost context is done; the outermost makes the events visible.
LEMMA PutKeepsInv ==
  ASSUME QueueInv, ItemPut
  PROVE  QueueInv'
  <1> DEFINE n == Len(adding)
  <1>1. /\ evq.head.wr \in QueuePos /\ evq.head.rd \in QueuePos
        /\ evq.tail.wr \in QueuePos /\ evq.tail.rd \in QueuePos
    BY RingPositions DEF QueueInv
  <1>2. adding \in Seq(Ticket) /\ n \in Nat /\ n > 0 /\ n \in 1 .. n /\ adding[n].written
    BY DEF QueueInv, QueueTypeOK, ItemPut
  <1>3. \A k \in 1 .. n : adding[k].slot \in QueuePos
    <2>1. \A k \in 1 .. n : adding[k] \in Ticket
      BY <1>2
    <2>2. QED
      BY <2>1 DEF Ticket
  <1>4. /\ adding' \in Seq(Ticket) /\ Len(adding') = n - 1
        /\ \A k \in 1 .. n - 1 : adding'[k] = adding[k]
    BY <1>2, OneLess DEF ItemPut
  <1>5. 1 .. n - 1 \subseteq 1 .. n /\ \A k \in 1 .. n : k # n => k \in 1 .. n - 1
    BY <1>2
  <1>6. promised' = promised /\ taking' = taking /\ dropped' = dropped
    BY DEF ItemPut
  <1>7. adding[n].outer <=> n = 1
    BY <1>2 DEF QueueInv, OneCloser
  <1>8. /\ evq'.head = evq.head /\ evq'.buf = evq.buf /\ evq'.tail.wr = evq.tail.wr
        /\ evq'.tail.rd = IF n = 1 THEN evq.tail.wr ELSE evq.tail.rd
        /\ evq' \in [buf : [QueuePos -> Event], tail : Position, head : Position]
    BY <1>1, <1>7 DEF QueueInv, QueueTypeOK, ItemPut, ClosesWrite, Position
  <1>9. \A q \in QueuePos : Dist(q)' = Dist(q) /\ Dist(q) \in QueuePos
    BY <1>1, <1>8, AfterRange DEF Dist
  <1>10. QueueTypeOK'
    <2>1. Len(adding') <= Depth
      BY <1>2, <1>4, QueueAssumption DEF QueueInv, QueueTypeOK
    <2>2. QED
      BY <1>4, <1>6, <1>8, <2>1 DEF QueueInv, QueueTypeOK
  <1>11. RingOrdered'
    <2>1. /\ Dist(evq.head.rd)' = Dist(evq.head.rd) /\ Dist(evq.tail.wr)' = Dist(evq.tail.wr)
          /\ Dist(evq.tail.rd)' = IF n = 1 THEN Dist(evq.tail.wr) ELSE Dist(evq.tail.rd)
      BY <1>8 DEF Dist
    <2>2. \A a, b, c \in QueuePos : a <= b /\ b <= c => a <= c /\ c <= c
      BY DEF QueuePos
    <2>3. QED
      BY <2>1, <2>2, <1>1, <1>9 DEF QueueInv, RingOrdered
  <1>12. OneTaker'
    BY <1>6, <1>8 DEF QueueInv, OneTaker
  <1>13. OneCloser'
    <2>1. \A k \in 1 .. n - 1 : adding'[k].outer <=> k = 1
      BY <1>4, <1>5 DEF QueueInv, OneCloser
    <2>2. adding' = <<>> <=> n = 1
      BY <1>2, <1>4
    <2>3. evq.tail.rd # evq.tail.wr
      BY <1>2 DEF QueueInv, OneCloser
    <2>4. QED
      BY <1>4, <1>8, <2>1, <2>2, <2>3 DEF OneCloser
  <1>14. Claims'
    <2>1. SUFFICES ASSUME NEW k \in 1 .. n - 1
          PROVE  /\ Dist(evq.tail.rd)' <= Dist(adding[k].slot)'
                 /\ Dist(adding[k].slot)' < Dist(evq.tail.wr)'
                 /\ promised'[adding'[k].slot] = adding'[k].event
                 /\ adding'[k].written => evq'.buf[adding'[k].slot] = adding'[k].event
      BY <1>4 DEF Claims
    <2>2. n # 1 /\ k \in 1 .. n
      BY <1>2
    <2>3. /\ Dist(evq.tail.rd) <= Dist(adding[k].slot)
          /\ Dist(adding[k].slot) < Dist(evq.tail.wr)
          /\ promised[adding[k].slot] = adding[k].event
          /\ adding[k].written => evq.buf[adding[k].slot] = adding[k].event
      BY <2>2 DEF QueueInv, Claims
    <2>4. /\ adding'[k] = adding[k] /\ Dist(adding[k].slot)' = Dist(adding[k].slot)
          /\ Dist(evq.tail.rd)' = Dist(evq.tail.rd) /\ Dist(evq.tail.wr)' = Dist(evq.tail.wr)
      BY <2>2, <1>4, <1>8 DEF Dist
    <2>5. QED
      BY <2>3, <2>4, <1>6, <1>8
  <1>15. SlotsAccounted'
    <2>1. SUFFICES ASSUME NEW p \in QueuePos, Dist(p)' < Dist(evq.tail.wr)'
          PROVE  \/ evq'.buf[p] = promised'[p]
                 \/ \E k \in 1 .. Len(adding') : adding'[k].slot = p /\ ~adding'[k].written
      BY DEF SlotsAccounted
    <2>2. Dist(p) < Dist(evq.tail.wr)
      BY <2>1, <1>8 DEF Dist
    <2>3. \/ evq.buf[p] = promised[p]
          \/ \E k \in 1 .. n : adding[k].slot = p /\ ~adding[k].written
      BY <2>2 DEF QueueInv, SlotsAccounted
    <2>4. ASSUME NEW k \in 1 .. n, adding[k].slot = p, ~adding[k].written
          PROVE  k \in 1 .. Len(adding') /\ adding'[k].slot = p /\ ~adding'[k].written
      BY <2>4, <1>2, <1>4, <1>5
    <2>5. QED
      BY <2>3, <2>4, <1>6, <1>8
  <1>16. QED
    BY <1>10, <1>11, <1>12, <1>13, <1>14, <1>15 DEF QueueInv

\* The main loop takes the oldest visible event.
LEMMA GetKeepsInv ==
  ASSUME QueueInv, ItemGet
  PROVE  QueueInv'
  <1>1. /\ evq.head.wr \in QueuePos /\ evq.head.rd \in QueuePos
        /\ evq.tail.wr \in QueuePos /\ evq.tail.rd \in QueuePos
        /\ NextPos(evq.head.rd) \in QueuePos
    BY RingPositions, NextPosType DEF QueueInv
  <1>2. evq.head.rd = evq.head.wr /\ evq.head.rd # evq.tail.rd /\ adding = <<>>
    BY DEF QueueInv, OneTaker, ItemGet
  <1>3. /\ evq'.buf = evq.buf /\ evq'.tail = evq.tail
        /\ evq'.head.wr = evq.head.wr /\ evq'.head.rd = NextPos(evq.head.rd)
        /\ evq' \in [buf : [QueuePos -> Event], tail : Position, head : Position]
    BY <1>1 DEF QueueInv, QueueTypeOK, ItemGet, Position
  <1>4. /\ adding' = adding /\ dropped' = dropped /\ promised' = promised
        /\ taking' = [busy |-> TRUE, slot |-> evq.head.rd,
                      outer |-> evq.head.wr = evq.head.rd, event |-> evq.buf[evq.head.rd]]
    BY DEF ItemGet
  <1>5. taking' \in [busy : BOOLEAN, slot : QueuePos, outer : BOOLEAN, event : Event]
    BY <1>1, <1>4 DEF QueueInv, QueueTypeOK
  <1>6. QueueTypeOK'
    BY <1>3, <1>4, <1>5 DEF QueueInv, QueueTypeOK
  <1>7. \A q \in QueuePos : Dist(q)' = Dist(q) /\ Dist(q) \in QueuePos
    BY <1>1, <1>3, AfterRange DEF Dist
  <1>8. RingOrdered'
    <2>1. Dist(evq.head.rd) = 0 /\ Dist(evq.tail.rd) # 0
      BY <1>1, <1>2, AfterRange DEF Dist
    <2>2. NextPos(evq.head.rd) # evq.head.wr
      BY <1>1, <1>2, NextPosType
    <2>3. After(evq.head.wr, NextPos(evq.head.rd)) = 1
      BY <2>1, <2>2, <1>1, AfterNext DEF Dist
    <2>4. /\ Dist(evq.head.rd)' = 1 /\ Dist(evq.tail.rd)' = Dist(evq.tail.rd)
          /\ Dist(evq.tail.wr)' = Dist(evq.tail.wr)
      BY <2>3, <1>3 DEF Dist
    <2>5. Dist(evq.tail.rd) \in QueuePos
      BY <1>1, <1>7
    <2>6. 1 <= Dist(evq.tail.rd)
      BY <2>1, <2>5 DEF QueuePos
    <2>7. QED
      BY <2>4, <2>6 DEF QueueInv, RingOrdered
  <1>9. OneTaker'
    BY <1>2, <1>3, <1>4 DEF OneTaker
  <1>10. OneCloser' /\ Claims' /\ SlotsAccounted'
    <2>1. OneCloser'
      BY <1>3, <1>4 DEF QueueInv, OneCloser
    <2>2. Claims'
      BY <1>3, <1>4 DEF QueueInv, Claims, Dist
    <2>3. SlotsAccounted'
      BY <1>3, <1>4 DEF QueueInv, SlotsAccounted, Dist
    <2>4. QED
      BY <2>1, <2>2, <2>3
  <1>11. QED
    BY <1>6, <1>8, <1>9, <1>10 DEF QueueInv

\* The main loop frees the slot of the event it has executed.
LEMMA FreeKeepsInv ==
  ASSUME QueueInv, ItemFree
  PROVE  QueueInv'
  <1>1. /\ evq.head.wr \in QueuePos /\ evq.head.rd \in QueuePos
        /\ evq.tail.wr \in QueuePos /\ evq.tail.rd \in QueuePos
    BY RingPositions DEF QueueInv
  <1>2. /\ evq.head.rd = NextPos(evq.head.wr) /\ taking.outer /\ adding = <<>>
        /\ evq.tail.rd = evq.tail.wr
    BY DEF QueueInv, OneTaker, OneCloser, ItemFree
  <1>3. /\ evq'.buf = evq.buf /\ evq'.tail = evq.tail
        /\ evq'.head.rd = evq.head.rd /\ evq'.head.wr = evq.head.rd
        /\ evq' \in [buf : [QueuePos -> Event], tail : Position, head : Position]
    BY <1>1, <1>2 DEF QueueInv, QueueTypeOK, ItemFree, Position
  <1>4. /\ adding' = adding /\ dropped' = dropped /\ promised' = promised
        /\ taking' = [taking EXCEPT !.busy = FALSE]
    BY DEF ItemFree
  <1>5. /\ taking' \in [busy : BOOLEAN, slot : QueuePos, outer : BOOLEAN, event : Event]
        /\ taking'.busy = FALSE
    BY <1>4 DEF QueueInv, QueueTypeOK
  <1>6. QueueTypeOK'
    BY <1>3, <1>4, <1>5 DEF QueueInv, QueueTypeOK
  <1>7. \A q \in QueuePos : q # evq.head.wr => Dist(q)' = Dist(q) - 1
    BY <1>1, <1>2, <1>3, AfterFromNext DEF Dist
  <1>8. \A q \in QueuePos : q = evq.head.wr => Dist(q)' = QueueSlots - 1
    BY <1>1, <1>2, <1>3, AfterFromNext DEF Dist
  <1>9. \A q \in QueuePos : Dist(q) \in QueuePos
    BY <1>1, AfterRange DEF Dist
  <1>10. evq.tail.rd # evq.head.wr /\ evq.tail.wr # evq.head.wr /\ evq.head.rd # evq.head.wr
    <2>1. evq.head.rd # evq.head.wr
      BY <1>1, <1>2, NextPosType
    <2>2. Dist(evq.head.rd) # 0
      BY <2>1, <1>1, AfterRange DEF Dist
    <2>3. \A a, b \in QueuePos : a # 0 /\ a <= b => b # 0
      BY DEF QueuePos
    <2>4. Dist(evq.tail.rd) # 0
      BY <2>2, <2>3, <1>1, <1>9 DEF QueueInv, RingOrdered
    <2>5. QED
      BY <2>1, <2>4, <1>1, <1>2, AfterRange DEF Dist
  <1>11. RingOrdered'
    <2>1. Dist(evq.head.rd)' = 0
      BY <1>1, <1>3, AfterRange DEF Dist
    <2>2. evq'.tail.rd = evq'.tail.wr /\ evq'.tail.rd \in QueuePos /\ evq'.head.wr \in QueuePos
      BY <1>1, <1>2, <1>3
    <2>3. Dist(evq.tail.rd)' = Dist(evq.tail.wr)' /\ Dist(evq.tail.rd)' \in QueuePos
      BY <2>2, AfterRange DEF Dist
    <2>4. \A a \in QueuePos : 0 <= a /\ a <= a
      BY DEF QueuePos
    <2>5. QED
      BY <2>1, <2>3, <2>4 DEF RingOrdered
  <1>12. OneTaker'
    BY <1>3, <1>5 DEF OneTaker
  <1>13. OneCloser'
    BY <1>3, <1>4 DEF QueueInv, OneCloser
  <1>14. Claims'
    <2>1. 1 .. Len(adding') = {}
      BY <1>2, <1>4
    <2>2. QED
      BY <2>1 DEF Claims
  <1>15. SlotsAccounted'
    <2>1. SUFFICES ASSUME NEW p \in QueuePos, Dist(p)' < Dist(evq.tail.wr)'
          PROVE  \/ evq'.buf[p] = promised'[p]
                 \/ \E k \in 1 .. Len(adding') : adding'[k].slot = p /\ ~adding'[k].written
      BY DEF SlotsAccounted
    <2>2. Dist(evq.tail.wr)' = Dist(evq.tail.wr) - 1
      <3>1. Dist(evq.tail.wr)' = After(evq'.head.wr, evq.tail.wr)
        BY <1>3 DEF Dist
      <3>2. QED
        BY <3>1, <1>1, <1>2, <1>3, <1>10, AfterFromNext DEF Dist
    <2>3. p # evq.head.wr
      <3>1. Dist(evq.tail.wr) - 1 < QueueSlots - 1
        <4>1. \A a \in QueuePos : a - 1 < QueueSlots - 1
          BY QueueAssumption DEF QueuePos
        <4>2. QED
          BY <4>1, <1>1, <1>9
      <3>2. SUFFICES ASSUME p = evq.head.wr PROVE FALSE
        OBVIOUS
      <3>3. QueueSlots - 1 < Dist(evq.tail.wr) - 1
        BY <3>2, <2>1, <2>2, <1>8
      <3>4. \A a \in QueuePos : ~(QueueSlots - 1 < a - 1)
        BY QueueAssumption DEF QueuePos
      <3>5. QED
        BY <3>3, <3>4, <1>1, <1>9
    <2>4. Dist(p) < Dist(evq.tail.wr)
      <3>1. Dist(p) - 1 < Dist(evq.tail.wr) - 1
        BY <2>1, <2>2, <2>3, <1>7
      <3>2. \A a, b \in QueuePos : a - 1 < b - 1 => a < b
        BY DEF QueuePos
      <3>3. QED
        BY <3>1, <3>2, <1>1, <1>9
    <2>5. \/ evq.buf[p] = promised[p]
          \/ \E k \in 1 .. Len(adding) : adding[k].slot = p /\ ~adding[k].written
      BY <2>4 DEF QueueInv, SlotsAccounted
    <2>6. QED
      BY <2>5, <1>3, <1>4
  <1>16. QED
    BY <1>6, <1>11, <1>12, <1>13, <1>14, <1>15 DEF QueueInv
\* An event refused changes nothing but the fact.
LEMMA DropKeepsInv ==
  ASSUME QueueInv, ItemDrop
  PROVE  QueueInv'
  <1>1. evq' = evq /\ adding' = adding /\ taking' = taking /\ promised' = promised
        /\ dropped' = TRUE
    BY DEF ItemDrop
  <1>2. QED
    BY <1>1 DEF QueueInv, QueueTypeOK, RingOrdered, OneTaker, OneCloser, Claims,
                SlotsAccounted, Dist

LEMMA QueueInvStep == QueueInv /\ [QueueNext]_queueVars => QueueInv'
  <1> SUFFICES ASSUME QueueInv, [QueueNext]_queueVars PROVE QueueInv'
    OBVIOUS
  <1>1. ASSUME NEW e \in Event, ItemAlloc(e) PROVE QueueInv'
    BY <1>1, AllocKeepsInv
  <1>2. CASE ItemDrop
    BY <1>2, DropKeepsInv
  <1>3. CASE ItemWrite
    BY <1>3, WriteKeepsInv
  <1>4. CASE ItemPut
    BY <1>4, PutKeepsInv
  <1>5. CASE ItemGet
    BY <1>5, GetKeepsInv
  <1>6. CASE ItemFree
    BY <1>6, FreeKeepsInv
  <1>7. CASE UNCHANGED queueVars
    BY <1>7 DEF queueVars, QueueInv, QueueTypeOK, RingOrdered, OneTaker, OneCloser,
                Claims, SlotsAccounted, Dist
  <1>8. QED
    BY <1>1, <1>2, <1>3, <1>4, <1>5, <1>6, <1>7 DEF QueueNext

\* The ring of events and the contexts that fill it keep the invariant.
THEOREM QueueInvariant == QueueSpec => []QueueInv
  <1>1. QueueInit => QueueInv
    BY QueueInvInit
  <1>2. QED
    BY <1>1, QueueInvStep, PTL DEF QueueSpec

\* The variables of the queue have their types.
THEOREM QueueTypeCorrect == QueueSpec => []QueueTypeOK
  <1>1. QueueInv => QueueTypeOK
    BY DEF QueueInv
  <1>2. QED
    BY <1>1, QueueInvariant, PTL

\* No event is left invisible once no context is adding one.
THEOREM NoEventStaysInvisible == QueueSpec => []NoneLeftInvisible
  <1>1. QueueInv => NoneLeftInvisible
    BY DEF QueueInv, OneCloser, NoneLeftInvisible
  <1>2. QED
    BY <1>1, QueueInvariant, PTL

\* What the main loop executes is what some context added, never overwritten.
THEOREM EventsStayIntact == QueueSpec => []EventsIntact
  <1>1. ASSUME QueueInv PROVE EventsIntact
    <2>1. /\ evq.head.wr \in QueuePos /\ evq.head.rd \in QueuePos
          /\ evq.tail.wr \in QueuePos /\ evq.tail.rd \in QueuePos
      BY <1>1, RingPositions DEF QueueInv
    <2>2. \A q \in QueuePos : Dist(q) \in QueuePos
      BY <2>1, AfterRange DEF Dist
    <2>3. ASSUME NEW p \in QueuePos, InUse(p) PROVE evq.buf[p] = promised[p]
      <3>1. Dist(p) < Dist(evq.tail.rd)
        BY <2>3 DEF InUse, Dist
      <3>2. \A a, b, c \in QueuePos : a < b /\ b <= c => a < c /\ ~(b <= a)
        BY DEF QueuePos
      <3>3. Dist(p) < Dist(evq.tail.wr) /\ ~(Dist(evq.tail.rd) <= Dist(p))
        BY <1>1, <2>1, <2>2, <3>1, <3>2 DEF QueueInv, RingOrdered
      <3>4. \A k \in 1 .. Len(adding) : adding[k].slot # p
        BY <1>1, <3>3 DEF QueueInv, Claims
      <3>5. QED
        BY <1>1, <3>3, <3>4 DEF QueueInv, SlotsAccounted
    <2>4. ASSUME taking.busy PROVE InUse(taking.slot) /\ evq.buf[taking.slot] = taking.event
      <3>1. taking.slot = evq.head.wr /\ evq.head.rd = NextPos(evq.head.wr)
            /\ evq.buf[taking.slot] = taking.event
        BY <1>1, <2>4 DEF QueueInv, OneTaker
      <3>2. Dist(evq.head.wr) = 0 /\ Dist(evq.head.rd) # 0
        BY <2>1, <3>1, NextPosType, AfterRange DEF Dist
      <3>3. \A a, b \in QueuePos : a # 0 /\ a <= b => 0 < b
        BY DEF QueuePos
      <3>4. 0 < Dist(evq.tail.rd)
        BY <1>1, <2>1, <2>2, <3>2, <3>3 DEF QueueInv, RingOrdered
      <3>5. QED
        BY <3>1, <3>2, <3>4 DEF InUse, Dist
    <2>5. QED
      BY <2>3, <2>4 DEF EventsIntact
  <1>2. QED
    BY <1>1, QueueInvariant, PTL
(***************************************************************************)
(* What the buffer holds, as sequences.                                    *)
(***************************************************************************)

\* The slot some places on, and its distance.
LEMMA AheadIs ==
  ASSUME NEW p \in QueuePos, NEW n \in QueuePos
  PROVE  /\ Ahead(p, n) \in QueuePos /\ After(p, Ahead(p, n)) = n
         /\ Ahead(p, 0) = p
  BY QueueAssumption, SMT DEF Ahead, After, QueuePos

LEMMA AheadOfNext ==
  ASSUME NEW p \in QueuePos, NEW n \in QueuePos, n + 1 \in QueuePos
  PROVE  Ahead(NextPos(p), n) = Ahead(p, n + 1)
  BY QueueAssumption, SMT DEF Ahead, NextPos, QueuePos

\* Places ahead add up.
LEMMA AheadOfAhead ==
  ASSUME NEW p \in QueuePos, NEW q \in QueuePos, NEW n \in QueuePos,
         After(p, q) + n \in QueuePos
  PROVE  Ahead(q, n) = Ahead(p, After(p, q) + n)
  BY QueueAssumption, SMT DEF Ahead, After, QueuePos

LEMMA WindowSeq ==
  ASSUME NEW b \in [QueuePos -> Event], NEW p \in QueuePos, NEW q \in QueuePos
  PROVE  /\ After(p, q) \in Nat
         /\ \A k \in 1 .. After(p, q) : k - 1 \in QueuePos /\ Ahead(p, k - 1) \in QueuePos
         /\ Window(b, p, q) \in Seq(Event) /\ Len(Window(b, p, q)) = After(p, q)
         /\ \A k \in 1 .. After(p, q) : Window(b, p, q)[k] = b[Ahead(p, k - 1)]
  <1>1. After(p, q) \in Nat
    BY AfterRange DEF QueuePos
  <1>2. \A k \in 1 .. After(p, q) : k - 1 \in QueuePos
    BY AfterRange, QueueAssumption DEF QueuePos
  <1>3. \A k \in 1 .. After(p, q) : Ahead(p, k - 1) \in QueuePos
    BY <1>2, AheadIs
  <1>4. \A k \in 1 .. After(p, q) : b[Ahead(p, k - 1)] \in Event
    BY <1>3
  <1>5. QED
    BY <1>1, <1>2, <1>3, <1>4 DEF Window

LEMMA WindowEmpty ==
  ASSUME NEW b \in [QueuePos -> Event], NEW p \in QueuePos
  PROVE  Window(b, p, p) = <<>>
  BY WindowSeq, AfterRange

\* A slot claimed at the end appends its event.
LEMMA WindowGrows ==
  ASSUME NEW b \in [QueuePos -> Event], NEW p \in QueuePos, NEW q \in QueuePos,
         NEW e \in Event, NextPos(q) # p
  PROVE  Window([b EXCEPT ![q] = e], p, NextPos(q)) = Append(Window(b, p, q), e)
  <1> DEFINE n == After(p, q)
             c == [b EXCEPT ![q] = e]
             w == Window(b, p, q)
             v == Window(c, p, NextPos(q))
  <1>1. c \in [QueuePos -> Event] /\ NextPos(q) \in QueuePos
    BY NextPosType
  <1>2. n \in QueuePos /\ n \in Nat /\ After(p, NextPos(q)) = n + 1
    BY AfterNext, AfterRange, WindowSeq
  <1>3. /\ w \in Seq(Event) /\ Len(w) = n
        /\ \A k \in 1 .. n : w[k] = b[Ahead(p, k - 1)]
        /\ \A k \in 1 .. n : k - 1 \in QueuePos /\ Ahead(p, k - 1) \in QueuePos
    BY WindowSeq
  <1>4. /\ v \in Seq(Event) /\ Len(v) = n + 1
        /\ \A k \in 1 .. n + 1 : v[k] = c[Ahead(p, k - 1)]
    BY <1>1, <1>2, WindowSeq
  <1>5. v[n + 1] = e
    <2>1. n + 1 \in 1 .. n + 1 /\ n + 1 - 1 = n
      BY <1>2
    <2>2. Ahead(p, n) = q
      BY <1>2, AheadIs, AfterInjective
    <2>3. v[n + 1] = c[Ahead(p, n)]
      <3>1. \A j \in 1 .. n + 1 : j - 1 = n => v[j] = c[Ahead(p, n)]
        BY <1>4
      <3>2. n \in Nat
        BY <1>2
      <3> HIDE DEF n, c, v
      <3>3. QED
        BY <3>1, <3>2
    <2>4. c[q] = e
      OBVIOUS
    <2>5. QED
      BY <2>2, <2>3, <2>4
  <1>6. \A k \in 1 .. n : v[k] = w[k]
    <2>1. TAKE k \in 1 .. n
    <2>2. k \in 1 .. n + 1 /\ k - 1 # n
      BY <1>2
    <2>3. Ahead(p, k - 1) # q
      BY <2>2, <1>3, AheadIs
    <2>4. QED
      BY <2>2, <2>3, <1>3, <1>4
  <1>7. /\ Append(w, e) \in Seq(Event) /\ Len(Append(w, e)) = n + 1
        /\ \A k \in 1 .. n : Append(w, e)[k] = w[k]
        /\ Append(w, e)[n + 1] = e
    BY <1>3
  <1>8. \A k \in 1 .. n + 1 : v[k] = Append(w, e)[k]
    <2>1. \A k \in 1 .. n + 1 : k \in 1 .. n \/ k = n + 1
      BY <1>2
    <2>2. QED
      BY <2>1, <1>5, <1>6, <1>7
  <1>9. QED
    BY <1>4, <1>7, <1>8, SeqEqual

\* The first slot holds the head, the others are the tail.
LEMMA WindowTail ==
  ASSUME NEW b \in [QueuePos -> Event], NEW p \in QueuePos, NEW q \in QueuePos, p # q
  PROVE  /\ Window(b, p, q) # <<>> /\ Head(Window(b, p, q)) = b[p]
         /\ Tail(Window(b, p, q)) = Window(b, NextPos(p), q)
  <1> DEFINE n == After(p, q)
             w == Window(b, p, q)
             v == Window(b, NextPos(p), q)
  <1>1. NextPos(p) \in QueuePos /\ After(NextPos(p), q) = n - 1
    BY NextPosType, AfterFromNext
  <1>2. n \in QueuePos /\ n \in Nat /\ n >= 1
    BY AfterRange, WindowSeq
  <1>3. /\ w \in Seq(Event) /\ Len(w) = n
        /\ \A k \in 1 .. n : w[k] = b[Ahead(p, k - 1)]
    BY WindowSeq
  <1>4. /\ v \in Seq(Event) /\ Len(v) = n - 1
        /\ \A k \in 1 .. n - 1 : v[k] = b[Ahead(NextPos(p), k - 1)]
    BY <1>1, WindowSeq, SMTT(30)
  <1>5. w # <<>> /\ Head(w) = b[p]
    <2>1. 1 \in 1 .. n /\ 1 - 1 = 0
      BY <1>2
    <2>2. w[1] = b[Ahead(p, 0)]
      BY <2>1, <1>3
    <2>3. Ahead(p, 0) = p
      BY <1>2, AheadIs
    <2>4. QED
      BY <2>2, <2>3, <1>2, <1>3
  <1>6. /\ Tail(w) \in Seq(Event) /\ Len(Tail(w)) = n - 1
        /\ \A k \in 1 .. n - 1 : Tail(w)[k] = w[k + 1]
    BY <1>2, <1>3, <1>5, HeadTailProperties
  <1>7. \A k \in 1 .. n - 1 : Tail(w)[k] = v[k]
    <2>1. TAKE k \in 1 .. n - 1
    <2>2. k + 1 \in 1 .. n /\ k + 1 - 1 = k - 1 + 1
      BY <1>2
    <2>3. k - 1 \in QueuePos /\ k - 1 + 1 \in QueuePos
      BY <1>2, QueueAssumption DEF QueuePos
    <2>4. QED
      BY <2>2, <2>3, <1>3, <1>4, <1>6, AheadOfNext
  <1>8. QED
    BY <1>4, <1>5, <1>6, <1>7, SeqEqual

\* Two stretches of slots that follow on each other make one.
LEMMA WindowJoin ==
  ASSUME NEW b \in [QueuePos -> Event], NEW p \in QueuePos, NEW q \in QueuePos,
         NEW r \in QueuePos, After(p, r) = After(p, q) + After(q, r)
  PROVE  Window(b, p, r) = Window(b, p, q) \o Window(b, q, r)
  <1> DEFINE m == After(p, q)
             n == After(q, r)
             u == Window(b, p, q)
             v == Window(b, q, r)
             w == Window(b, p, r)
  <1>1. m \in Nat /\ n \in Nat /\ m + n \in QueuePos
    BY AfterRange, WindowSeq
  <1>2. /\ u \in Seq(Event) /\ Len(u) = m
        /\ \A k \in 1 .. m : u[k] = b[Ahead(p, k - 1)]
    BY WindowSeq
  <1>3. /\ v \in Seq(Event) /\ Len(v) = n
        /\ \A k \in 1 .. n : v[k] = b[Ahead(q, k - 1)]
    BY WindowSeq
  <1>4. /\ w \in Seq(Event) /\ Len(w) = m + n
        /\ \A k \in 1 .. m + n : w[k] = b[Ahead(p, k - 1)]
    BY WindowSeq
  <1>5. /\ u \o v \in Seq(Event) /\ Len(u \o v) = m + n
        /\ \A k \in 1 .. m + n : (u \o v)[k] = IF k <= m THEN u[k] ELSE v[k - m]
    <2>1. /\ u \o v \in Seq(Event) /\ Len(u \o v) = Len(u) + Len(v)
          /\ \A k \in 1 .. Len(u) + Len(v) :
               (u \o v)[k] = IF k <= Len(u) THEN u[k] ELSE v[k - Len(u)]
      <3> HIDE DEF u, v
      <3> QED
        BY <1>2, <1>3, ConcatProperties
    <2>2. QED
      BY <2>1, <1>2, <1>3
  <1>6. \A k \in 1 .. m + n : w[k] = (u \o v)[k]
    <2>1. TAKE k \in 1 .. m + n
    <2>2. CASE k <= m
      <3>1. k \in 1 .. m
        BY <2>2, <1>1
      <3>2. QED
        BY <2>2, <3>1, <1>2, <1>4, <1>5
    <2>3. CASE ~(k <= m)
      <3>1. k - m \in 1 .. n /\ k - m - 1 \in QueuePos /\ m + (k - m - 1) = k - 1
            /\ k - 1 \in QueuePos
        BY <2>3, <1>1, QueueAssumption DEF QueuePos
      <3>2. Ahead(q, k - m - 1) = Ahead(p, k - 1)
        BY <3>1, AheadOfAhead
      <3>3. QED
        BY <2>3, <3>1, <3>2, <1>3, <1>4, <1>5
    <2>4. QED
      BY <2>2, <2>3
  <1>7. QED
    BY <1>4, <1>5, <1>6, SeqEqual

(***************************************************************************)
(* Refinement of EventQueue.                                               *)
(***************************************************************************)

\* Distances from a slot subtract.
LEMMA AfterMinus ==
  ASSUME NEW p \in QueuePos, NEW q \in QueuePos, NEW r \in QueuePos,
         After(p, q) <= After(p, r)
  PROVE  After(q, r) = After(p, r) - After(p, q)
  BY QueueAssumption, SMT DEF After, QueuePos

\* How far a slot of a stretch is.
LEMMA AfterInside ==
  ASSUME NEW p \in QueuePos, NEW q \in QueuePos, NEW r \in QueuePos,
         After(p, q) <= After(p, r), NEW k \in 1 .. After(q, r)
  PROVE  /\ Ahead(q, k - 1) \in QueuePos
         /\ After(p, q) <= After(p, Ahead(q, k - 1))
         /\ After(p, Ahead(q, k - 1)) < After(p, r)
  BY QueueAssumption, SMT DEF After, Ahead, QueuePos

\* The queue is full at its capacity.
LEMMA FullIs ==
  ASSUME NEW p \in QueuePos, NEW q \in QueuePos
  PROVE  /\ NextPos(q) = p <=> After(p, q) = QueueSlots - 1
         /\ NextPos(q) # p => After(p, q) < QueueSlots - 1
  BY QueueAssumption, SMT DEF After, NextPos, QueuePos

\* Two memories that agree on a stretch of slots hold the same there.
LEMMA WindowSame ==
  ASSUME NEW b, NEW c, NEW p, NEW q,
         \A k \in 1 .. After(p, q) : b[Ahead(p, k - 1)] = c[Ahead(p, k - 1)]
  PROVE  Window(b, p, q) = Window(c, p, q)
  BY DEF Window

\* The abstract queue holds as many events as there are slots not yet free.
LEMMA HeldIs ==
  ASSUME QueueInv
  PROVE  /\ Coming \in Seq(Event) /\ Visible \in Seq(Event)
         /\ Promise!Held = Dist(evq.tail.wr)
  <1> DEFINE a == evq.head.wr
             h == evq.head.rd
             r == evq.tail.rd
             w == evq.tail.wr
  <1>1. /\ a \in QueuePos /\ h \in QueuePos /\ r \in QueuePos /\ w \in QueuePos
        /\ evq.buf \in [QueuePos -> Event] /\ promised \in [QueuePos -> Event]
    BY RingPositions DEF QueueInv, QueueTypeOK
  <1>2. /\ Coming \in Seq(Event) /\ Len(Coming) = After(r, w)
        /\ Visible \in Seq(Event) /\ Len(Visible) = After(h, r)
    BY <1>1, WindowSeq DEF Coming, Visible
  <1>3. After(r, w) = Dist(w) - Dist(r) /\ After(h, r) = Dist(r) - Dist(h)
    BY <1>1, AfterMinus DEF QueueInv, RingOrdered, Dist
  <1>4. Len(Executing) = Dist(h)
    <2>1. CASE taking.busy
      <3>1. h = NextPos(a)
        BY <2>1 DEF QueueInv, OneTaker
      <3>2. Dist(h) = After(a, a) + 1 /\ After(a, a) = 0
        BY <3>1, <1>1, NextPosType, AfterNext, AfterRange DEF Dist
      <3>3. QED
        BY <2>1, <3>2 DEF Executing
    <2>2. CASE ~taking.busy
      <3>1. h = a
        BY <2>2 DEF QueueInv, OneTaker
      <3>2. Dist(h) = 0
        BY <3>1, <1>1, AfterRange DEF Dist
      <3>3. QED
        BY <2>2, <3>2 DEF Executing
    <2>3. QED
      BY <2>1, <2>2
  <1>5. Dist(w) \in Int /\ Dist(r) \in Int /\ Dist(h) \in Int
    <2>1. Dist(w) \in QueuePos /\ Dist(r) \in QueuePos /\ Dist(h) \in QueuePos
      BY <1>1, AfterRange DEF Dist
    <2>2. \A i \in QueuePos : i \in Int
      BY DEF QueuePos
    <2>3. QED
      BY <2>1, <2>2
  <1>6. QED
    BY <1>2, <1>3, <1>4, <1>5 DEF Promise!Held

\* An event that is allocated is accepted, while the abstract queue has room.
LEMMA AllocAccepts ==
  ASSUME QueueInv, NEW e \in Event, ItemAlloc(e)
  PROVE  Promise!Accept(e)
  <1> DEFINE h == evq.head.rd
             r == evq.tail.rd
             w == evq.tail.wr
  <1>1. /\ evq.head.wr \in QueuePos /\ h \in QueuePos /\ r \in QueuePos /\ w \in QueuePos
        /\ evq.buf \in [QueuePos -> Event] /\ promised \in [QueuePos -> Event]
        /\ evq \in [buf : [QueuePos -> Event], tail : Position, head : Position]
        /\ evq.tail \in Position
    BY RingPositions DEF QueueInv, QueueTypeOK
  <1>2. /\ evq'.buf = evq.buf /\ evq'.head = evq.head
        /\ evq'.tail.rd = r /\ evq'.tail.wr = NextPos(w)
        /\ promised' = [promised EXCEPT ![w] = e]
        /\ taking' = taking /\ dropped' = FALSE /\ NextPos(w) # evq.head.wr
    BY <1>1 DEF ItemAlloc, QueueFull, Position
  <1>3. Promise!Held < QueueSlots - 1
    BY <1>1, <1>2, HeldIs, FullIs DEF Dist
  <1>4. NextPos(w) # r
    <2>1. SUFFICES ASSUME NextPos(w) = r PROVE FALSE
      OBVIOUS
    <2>2. Dist(r) = Dist(w) + 1
      BY <1>1, <1>2, <2>1, AfterNext DEF Dist
    <2>3. Dist(r) <= Dist(w) /\ Dist(w) \in QueuePos
      BY <1>1, AfterRange DEF QueueInv, RingOrdered, Dist
    <2>4. \A i \in QueuePos : ~(i + 1 <= i)
      BY DEF QueuePos
    <2>5. QED
      BY <2>2, <2>3, <2>4
  <1>5. Coming' = Append(Coming, e)
    <2>1. Coming' = Window(promised', r, NextPos(w))
      BY <1>2 DEF Coming
    <2>2. promised' = [promised EXCEPT ![w] = e]
      BY <1>2
    <2>3. Window([promised EXCEPT ![w] = e], r, NextPos(w)) = Append(Window(promised, r, w), e)
      BY <1>1, <1>4, WindowGrows
    <2>4. QED
      BY <2>1, <2>2, <2>3 DEF Coming
  <1>6. Visible' = Visible /\ Executing' = Executing
    BY <1>2 DEF Visible, Executing
  <1>7. QED
    BY <1>2, <1>3, <1>5, <1>6 DEF Promise!Accept

\* An event is lost only when the abstract queue is at its capacity.
LEMMA DropRefuses ==
  ASSUME QueueInv, ItemDrop
  PROVE  Promise!Refuse
  <1>1. evq.head.wr \in QueuePos /\ evq.tail.wr \in QueuePos
    BY RingPositions DEF QueueInv
  <1>2. Promise!Held = QueueSlots - 1
    BY <1>1, HeldIs, FullIs DEF ItemDrop, QueueFull, Dist
  <1>3. /\ evq' = evq /\ taking' = taking /\ promised' = promised /\ dropped' = TRUE
    BY DEF ItemDrop
  <1>4. Coming' = Coming /\ Visible' = Visible /\ Executing' = Executing
    BY <1>3 DEF Coming, Visible, Executing
  <1>5. QED
    BY <1>2, <1>3, <1>4 DEF Promise!Refuse

\* An event is written where the main loop does not look yet.
LEMMA WriteStutters ==
  ASSUME QueueInv, ItemWrite
  PROVE  Coming' = Coming /\ Visible' = Visible /\ Executing' = Executing
         /\ dropped' = dropped
  <1> DEFINE n == Len(adding)
             s == adding[n].slot
             h == evq.head.rd
             r == evq.tail.rd
  <1>1. /\ evq.head.wr \in QueuePos /\ h \in QueuePos /\ r \in QueuePos
        /\ evq.buf \in [QueuePos -> Event]
        /\ evq \in [buf : [QueuePos -> Event], tail : Position, head : Position]
        /\ n \in Nat /\ n > 0
    BY RingPositions DEF QueueInv, QueueTypeOK, ItemWrite
  <1>2. /\ evq'.head = evq.head /\ evq'.tail = evq.tail
        /\ evq'.buf = [evq.buf EXCEPT ![s] = adding[n].event]
        /\ taking' = taking /\ promised' = promised /\ dropped' = dropped
    BY <1>1 DEF ItemWrite
  <1>3. n \in 1 .. Len(adding) /\ adding[n] \in Ticket
    BY <1>1 DEF QueueInv, QueueTypeOK
  <1>4. s \in QueuePos /\ Dist(r) <= Dist(s)
    BY <1>3 DEF QueueInv, Claims, Ticket
  <1>5. ASSUME NEW k \in 1 .. After(h, r)
        PROVE  evq'.buf[Ahead(h, k - 1)] = evq.buf[Ahead(h, k - 1)]
    <2> DEFINE i == Ahead(h, k - 1)
    <2>1. i \in QueuePos /\ Dist(i) < Dist(r)
      BY <1>1, <1>5, AfterInside DEF QueueInv, RingOrdered, Dist
    <2>2. Dist(i) \in QueuePos /\ Dist(r) \in QueuePos /\ Dist(s) \in QueuePos
      BY <1>1, <1>4, <2>1, AfterRange DEF Dist
    <2>3. \A x, y, z \in QueuePos : x < y /\ y <= z => x # z
      BY DEF QueuePos
    <2>4. i # s
      BY <1>4, <2>1, <2>2, <2>3
    <2>5. QED
      BY <1>1, <1>2, <2>1, <2>4
  <1>6. Visible' = Visible
    <2>1. Visible' = Window(evq'.buf, h, r)
      BY <1>2 DEF Visible
    <2>2. Window(evq'.buf, h, r) = Window(evq.buf, h, r)
      <3> HIDE DEF h, r
      <3> QED
        BY <1>5, WindowSame
    <2>3. QED
      BY <2>1, <2>2 DEF Visible
  <1>7. QED
    BY <1>2, <1>6 DEF Coming, Executing

\* The outermost context reveals all that is coming; the others reveal nothing.
LEMMA PutReveals ==
  ASSUME QueueInv, ItemPut
  PROVE  \/ Promise!Reveal
         \/ Coming' = Coming /\ Visible' = Visible /\ Executing' = Executing
            /\ dropped' = dropped
  <1> DEFINE n == Len(adding)
             h == evq.head.rd
             r == evq.tail.rd
             w == evq.tail.wr
  <1>1. /\ evq.head.wr \in QueuePos /\ h \in QueuePos /\ r \in QueuePos /\ w \in QueuePos
        /\ evq.buf \in [QueuePos -> Event] /\ promised \in [QueuePos -> Event]
        /\ evq \in [buf : [QueuePos -> Event], tail : Position, head : Position]
        /\ evq.tail \in Position
        /\ n \in Nat /\ n > 0
    BY RingPositions DEF QueueInv, QueueTypeOK, ItemPut
  <1>2. taking' = taking /\ promised' = promised /\ dropped' = dropped
    BY DEF ItemPut
  <1>3. CASE ~adding[n].outer
    <2>1. evq' = evq
      BY <1>3 DEF ItemPut, ClosesWrite
    <2>2. QED
      BY <1>2, <2>1 DEF Coming, Visible, Executing
  <1>4. CASE adding[n].outer
    <2>1. evq'.buf = evq.buf /\ evq'.head = evq.head /\ evq'.tail.rd = w /\ evq'.tail.wr = w
      BY <1>1, <1>4 DEF ItemPut, ClosesWrite, Position
    <2>2. n = 1 /\ \A k \in 1 .. Len(adding) : adding[k].written
      <3>1. n \in 1 .. Len(adding)
        BY <1>1
      <3>2. n = 1
        BY <1>4, <3>1 DEF QueueInv, OneCloser
      <3>3. adding[n].written
        BY DEF ItemPut
      <3>4. \A k \in 1 .. 1 : k = 1
        OBVIOUS
      <3>5. QED
        BY <3>2, <3>3, <3>4
    <2>3. \A k \in 1 .. After(r, w) :
            evq.buf[Ahead(r, k - 1)] = promised[Ahead(r, k - 1)]
      <3>1. TAKE k \in 1 .. After(r, w)
      <3>2. Ahead(r, k - 1) \in QueuePos /\ Dist(Ahead(r, k - 1)) < Dist(w)
        BY <1>1, AfterInside DEF QueueInv, RingOrdered, Dist
      <3>3. QED
        BY <2>2, <3>2 DEF QueueInv, SlotsAccounted
    <2>4. Window(evq.buf, r, w) = Window(promised, r, w)
      <3> HIDE DEF r, w
      <3> QED
        BY <2>3, WindowSame
    <2>5. After(h, w) = After(h, r) + After(r, w)
      <3>1. /\ After(r, w) = Dist(w) - Dist(r) /\ After(h, r) = Dist(r) - Dist(h)
            /\ Dist(h) <= Dist(r) /\ Dist(r) <= Dist(w)
        BY <1>1, AfterMinus DEF QueueInv, RingOrdered, Dist
      <3>2. Dist(w) \in QueuePos /\ Dist(r) \in QueuePos /\ Dist(h) \in QueuePos
        BY <1>1, AfterRange DEF Dist
      <3>3. \A x, y, z \in QueuePos :
              x <= y /\ y <= z => x <= z /\ z - x = (y - x) + (z - y)
        BY DEF QueuePos
      <3>4. Dist(h) <= Dist(w)
            /\ Dist(w) - Dist(h) = (Dist(r) - Dist(h)) + (Dist(w) - Dist(r))
        BY <3>1, <3>2, <3>3
      <3>5. After(h, w) = Dist(w) - Dist(h)
        BY <1>1, <3>4, AfterMinus DEF Dist
      <3>6. QED
        BY <3>1, <3>4, <3>5
    <2>6. Window(evq.buf, h, w) = Window(evq.buf, h, r) \o Window(evq.buf, r, w)
      BY <1>1, <2>5, WindowJoin
    <2>7. Visible' = Visible \o Coming
      <3>1. Visible' = Window(evq.buf, h, w)
        BY <2>1 DEF Visible
      <3>2. QED
        BY <3>1, <2>4, <2>6 DEF Visible, Coming
    <2>8. Coming' = <<>>
      <3>1. Coming' = Window(promised, w, w)
        BY <1>2, <2>1 DEF Coming
      <3>2. QED
        BY <1>1, <3>1, WindowEmpty
    <2>9. Executing' = Executing
      BY <1>2 DEF Executing
    <2>10. QED
      BY <1>2, <2>7, <2>8, <2>9 DEF Promise!Reveal
  <1>5. QED
    BY <1>3, <1>4

\* The main loop takes the oldest visible event.
LEMMA GetTakes ==
  ASSUME QueueInv, ItemGet
  PROVE  Promise!Take
  <1> DEFINE h == evq.head.rd
             r == evq.tail.rd
  <1>1. /\ h \in QueuePos /\ r \in QueuePos /\ h # r
        /\ evq.buf \in [QueuePos -> Event]
        /\ evq \in [buf : [QueuePos -> Event], tail : Position, head : Position]
        /\ evq.head \in Position
    BY RingPositions DEF QueueInv, QueueTypeOK, ItemGet
  <1>2. /\ evq'.buf = evq.buf /\ evq'.tail = evq.tail /\ evq'.head.rd = NextPos(h)
        /\ ~taking.busy /\ taking'.busy /\ taking'.event = evq.buf[h]
        /\ promised' = promised /\ dropped' = dropped
    BY <1>1 DEF ItemGet, Position
  <1>3. /\ Visible # <<>> /\ Head(Visible) = evq.buf[h]
        /\ Tail(Visible) = Window(evq.buf, NextPos(h), r)
    BY <1>1, WindowTail DEF Visible
  <1>4. Visible' = Tail(Visible)
    BY <1>2, <1>3 DEF Visible
  <1>5. Executing = <<>> /\ Executing' = <<Head(Visible)>>
    BY <1>2, <1>3 DEF Executing
  <1>6. Coming' = Coming
    BY <1>2 DEF Coming
  <1>7. QED
    BY <1>2, <1>3, <1>4, <1>5, <1>6 DEF Promise!Take

\* The event in execution is done when its slot is freed.
LEMMA FreeFinishes ==
  ASSUME QueueInv, ItemFree
  PROVE  Promise!Finish
  <1>1. /\ evq \in [buf : [QueuePos -> Event], tail : Position, head : Position]
        /\ evq.head \in Position
        /\ taking \in [busy : BOOLEAN, slot : QueuePos, outer : BOOLEAN, event : Event]
    BY DEF QueueInv, QueueTypeOK
  <1>2. /\ evq'.buf = evq.buf /\ evq'.tail = evq.tail /\ evq'.head.rd = evq.head.rd
        /\ taking.busy /\ taking'.busy = FALSE
        /\ promised' = promised /\ dropped' = dropped
    BY <1>1 DEF ItemFree, Position
  <1>3. Visible' = Visible /\ Coming' = Coming
    BY <1>2 DEF Visible, Coming
  <1>4. Executing # <<>> /\ Executing' = <<>>
    BY <1>2 DEF Executing
  <1>5. QED
    BY <1>2, <1>3, <1>4 DEF Promise!Finish

LEMMA QueueInitRefines == QueueInit => Promise!Init
  <1> SUFFICES ASSUME QueueInit PROVE Promise!Init
    OBVIOUS
  <1>1. /\ 0 \in QueuePos /\ evq.head.rd = 0 /\ evq.tail.rd = 0 /\ evq.tail.wr = 0
        /\ evq.buf \in [QueuePos -> Event] /\ promised \in [QueuePos -> Event]
        /\ taking.busy = FALSE /\ dropped = FALSE
    <2>1. 0 \in QueuePos
      BY QueueAssumption DEF QueuePos
    <2>2. /\ evq.head = [wr |-> 0, rd |-> 0] /\ evq.tail = [wr |-> 0, rd |-> 0]
          /\ evq.buf \in [QueuePos -> Event]
      BY DEF QueueInit
    <2>3. taking.busy = FALSE /\ dropped = FALSE /\ promised = evq.buf
      BY DEF QueueInit
    <2>4. QED
      BY <2>1, <2>2, <2>3
  <1>2. Coming = <<>> /\ Visible = <<>>
    BY <1>1, WindowEmpty DEF Coming, Visible
  <1>3. QED
    BY <1>1, <1>2 DEF Promise!Init, Executing

\* Every step of the nested contexts and of the main loop is a step of the
\* abstract queue or leaves its variables alone.
LEMMA QueueStepRefines ==
  QueueInv /\ [QueueNext]_queueVars => [Promise!Next]_(Promise!vars)
  <1> SUFFICES ASSUME QueueInv, [QueueNext]_queueVars PROVE [Promise!Next]_(Promise!vars)
    OBVIOUS
  <1>1. ASSUME NEW e \in Event, ItemAlloc(e) PROVE Promise!Next
    BY <1>1, AllocAccepts DEF Promise!Next
  <1>2. CASE ItemDrop
    BY <1>2, DropRefuses DEF Promise!Next
  <1>3. CASE ItemWrite
    BY <1>3, WriteStutters DEF Promise!vars
  <1>4. CASE ItemPut
    BY <1>4, PutReveals DEF Promise!Next, Promise!vars
  <1>5. CASE ItemGet
    BY <1>5, GetTakes DEF Promise!Next
  <1>6. CASE ItemFree
    BY <1>6, FreeFinishes DEF Promise!Next
  <1>7. CASE UNCHANGED queueVars
    BY <1>7 DEF queueVars, Promise!vars, Coming, Visible, Executing
  <1>8. QED
    BY <1>1, <1>2, <1>3, <1>4, <1>5, <1>6, <1>7 DEF QueueNext

\* The atomic FIFO implements the event queue: whatever contexts preempt each
\* other while they add events (app_usbd.c:408-427), every accepted event is
\* executed once, in order, and only a full queue refuses one.
THEOREM AtFifoImplementsEventQueue == QueueSpec => ImplementsEventQueue
  <1>1. QueueInit => Promise!Init
    BY QueueInitRefines
  <1>2. QueueInv /\ [QueueNext]_queueVars => [Promise!Next]_(Promise!vars)
    BY QueueStepRefines
  <1>3. QED
    BY <1>1, <1>2, QueueInvariant, PTL DEF QueueSpec, ImplementsEventQueue, Promise!Spec
=============================================================================
