------------------------------- MODULE AtFifo -------------------------------
(***************************************************************************)
(* The USB event queue: the atomic FIFO of libraries/atomic_fifo used by    *)
(* app_usbd_event_add and app_usbd_event_queue_process of app_usbd.c.  An   *)
(* event is added by the main loop or by an interrupt that preempts it, a   *)
(* context that preempts another finishes first, and the main loop alone    *)
(* executes events, in place, in the slot of the queue.  Each request or    *)
(* close of space is one exclusive load and store, so one step.             *)
(***************************************************************************)
EXTENDS Integers, Sequences

CONSTANTS Event,      \* what is queued
          QueueSlots, \* slots of the buffer, one more than the capacity
          Depth       \* how many contexts can be adding an event at once

ASSUME QueueAssumption == QueueSlots \in Nat /\ QueueSlots >= 2 /\ Depth \in Nat

VARIABLES evq,      \* the nrf_atfifo_t: memory, tail and head, each with a
                    \* write and a read position
          adding,   \* the nested calls of app_usbd_event_add, outermost first
          taking,   \* the main loop's item in execution
          dropped,  \* whether the last event added met a full queue
          promised  \* history: the event each slot was last claimed for

queueVars == <<evq, adding, taking, dropped, promised>>

QueuePos == 0 .. QueueSlots - 1
Position == [wr : QueuePos, rd : QueuePos]
Ticket == [slot : QueuePos, outer : BOOLEAN, event : Event, written : BOOLEAN]

NextPos(p) == IF p + 1 = QueueSlots THEN 0 ELSE p + 1

\* How many slots q lies after p.
After(p, q) == IF q >= p THEN q - p ELSE q - p + QueueSlots

\* The slot n places after p.
Ahead(p, n) == IF p + n < QueueSlots THEN p + n ELSE p + n - QueueSlots

QueueTypeOK ==
  /\ evq \in [buf : [QueuePos -> Event], tail : Position, head : Position]
  /\ adding \in Seq(Ticket)
  /\ Len(adding) <= Depth
  /\ taking \in [busy : BOOLEAN, slot : QueuePos, outer : BOOLEAN, event : Event]
  /\ dropped \in BOOLEAN
  /\ promised \in [QueuePos -> Event]

\* nrf_atfifo_init; the memory holds whatever it held before.
QueueInit ==
  /\ evq \in [buf : [QueuePos -> Event],
              tail : {[wr |-> 0, rd |-> 0]}, head : {[wr |-> 0, rd |-> 0]}]
  /\ adding = <<>>
  /\ taking \in [busy : {FALSE}, slot : {0}, outer : {FALSE}, event : Event]
  /\ dropped = FALSE
  /\ promised = evq.buf

-----------------------------------------------------------------------------
(* app_usbd_event_add. *)

\* Mutant: the slot that keeps full and empty apart is used too.
QueueFullUnnoticed == FALSE

QueueFull == NextPos(evq.tail.wr) = evq.head.wr

\* nrf_atfifo_wspace_req: the ticket remembers the tail it found.
ItemAlloc(e) ==
  /\ Len(adding) < Depth
  /\ ~QueueFull
  /\ adding' = Append(adding, [slot |-> evq.tail.wr,
                               outer |-> evq.tail.wr = evq.tail.rd,
                               event |-> e, written |-> FALSE])
  /\ promised' = [promised EXCEPT ![evq.tail.wr] = e]
  /\ evq' = [evq EXCEPT !.tail.wr = NextPos(@)]
  /\ dropped' = FALSE
  /\ UNCHANGED taking

\* "Event queue full": the event is lost.
ItemDrop ==
  /\ Len(adding) < Depth
  /\ QueueFull
  /\ dropped' = TRUE
  /\ UNCHANGED <<evq, adding, taking, promised>>

ItemWrite ==
  LET n == Len(adding) IN
  /\ n > 0 /\ ~adding[n].written
  /\ evq' = [evq EXCEPT !.buf[adding[n].slot] = adding[n].event]
  /\ adding' = [adding EXCEPT ![n].written = TRUE]
  /\ UNCHANGED <<taking, dropped, promised>>

\* Mutant: every ticket closes the space, not only the outermost.
ClosesWriteAlways(t) == TRUE

\* Mutant: a ticket closes the space when it is the only item there.
ClosesWriteAlone(t) == evq.tail.wr = NextPos(evq.tail.rd)

\* Only the context that found no other at work makes the items visible.
ClosesWrite(t) == t.outer

\* nrf_atfifo_item_put
ItemPut ==
  LET n == Len(adding) IN
  /\ n > 0 /\ adding[n].written
  /\ evq' = IF ClosesWrite(adding[n]) THEN [evq EXCEPT !.tail.rd = evq.tail.wr] ELSE evq
  /\ adding' = SubSeq(adding, 1, n - 1)
  /\ UNCHANGED <<taking, dropped, promised>>

-----------------------------------------------------------------------------
(* app_usbd_event_queue_process: the main loop, which no context that adds an *)
(* event lets run before it is done.                                          *)

\* nrf_atfifo_item_get
ItemGet ==
  /\ adding = <<>> /\ ~taking.busy
  /\ evq.head.rd # evq.tail.rd
  /\ taking' = [busy |-> TRUE, slot |-> evq.head.rd,
                outer |-> evq.head.wr = evq.head.rd, event |-> evq.buf[evq.head.rd]]
  /\ evq' = [evq EXCEPT !.head.rd = NextPos(@)]
  /\ UNCHANGED <<adding, dropped, promised>>

\* nrf_atfifo_item_free, after app_usbd_event_execute
ItemFree ==
  /\ adding = <<>> /\ taking.busy
  /\ evq' = IF taking.outer THEN [evq EXCEPT !.head.wr = evq.head.rd] ELSE evq
  /\ taking' = [taking EXCEPT !.busy = FALSE]
  /\ UNCHANGED <<adding, dropped, promised>>

QueueNext == \/ \E e \in Event : ItemAlloc(e)
             \/ ItemDrop \/ ItemWrite \/ ItemPut \/ ItemGet \/ ItemFree

QueueSpec == QueueInit /\ [][QueueNext]_queueVars

-----------------------------------------------------------------------------
(* Properties. *)

\* The slots the main loop may read, counted from the oldest not yet freed.
InUse(p) == After(evq.head.wr, p) < After(evq.head.wr, evq.tail.rd)

\* An event the main loop executes or will execute is the one a context
\* added: it was completely written before it became visible, and no later
\* event was written over it, not even while it is executed in place.
EventsIntact ==
  /\ \A p \in QueuePos : InUse(p) => evq.buf[p] = promised[p]
  /\ taking.busy => InUse(taking.slot) /\ evq.buf[taking.slot] = taking.event

\* Once no context is adding, no accepted event is left invisible, however
\* the contexts that added them were nested.
NoneLeftInvisible == adding = <<>> => evq.tail.rd = evq.tail.wr

\* What a buffer holds from slot p up to slot q.
Window(buf, p, q) == [k \in 1 .. After(p, q) |-> buf[Ahead(p, k - 1)]]

\* The queue as its users know it.
Visible == Window(evq.buf, evq.head.rd, evq.tail.rd)
Coming == Window(promised, evq.tail.rd, evq.tail.wr)
Executing == IF taking.busy THEN <<taking.event>> ELSE <<>>

Promise == INSTANCE EventQueue
             WITH Capacity <- QueueSlots - 1, coming <- Coming, visible <- Visible,
                  executing <- Executing, refused <- dropped

\* Every behaviour of the nested contexts is one of the abstract queue: no
\* event is lost but those refused at capacity, none comes twice or early.
ImplementsEventQueue == Promise!Spec
=============================================================================
