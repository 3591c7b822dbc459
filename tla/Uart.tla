-------------------------------- MODULE Uart --------------------------------
(***************************************************************************)
(* One port of libraries/nRF5x_UART.c with no receive callback attached:   *)
(* the main loop ("the thread") calls put, get, flush, deinit and init,    *)
(* the UARTE interrupt preempts it between any two accesses to what they   *)
(* share, and the peripheral moves bytes on its own.  The interrupt        *)
(* handler runs to completion: nothing that shares this state has a higher *)
(* priority, and what the peripheral does meanwhile commutes with it.      *)
(***************************************************************************)
EXTENDS Uarte

CONSTANTS Ops,    \* the calls the thread makes: "get", "put", "flush", "reopen"
          Line    \* what the line does: "byte", "error"

VARIABLES rx, tx,  \* the two sides of the port, see Uarte
          up,      \* the driver is initialised, its interrupts are enabled
          th       \* the thread: pc, byte, ovf (its copy of rx_ovf), mark (a
                   \* position it has loaded), stored (history: the byte of
                   \* this put is in the FIFO), res (result of the last put)

vars == <<rx, tx, up, th>>

\* put has found the transmitter idle and is starting it
StartPCs == {"put_pop", "put_fetch", "put_load_rd", "put_advance", "put_start", "put_go"}
PutPCs == {"put_retest", "put_store", "put_load", "put_publish", "put_wait", "put_busy"}
          \cup StartPCs
GetPCs == {"get_fifo", "get_clear", "get_start"}
PCs == {"idle", "flush_rx", "flush_tx", "closed"} \cup PutPCs \cup GetPCs

ThType == [pc : PCs, byte : Byte, ovf : BOOLEAN, mark : Positions, stored : BOOLEAN,
           res : {"none", "true", "false"}]

TypeOK == rx \in RxType /\ tx \in TxType /\ up \in BOOLEAN /\ th \in ThType

\* After the first nRF5x_UART_init: both FIFOs empty, the receiver waiting.
Init ==
  /\ \E b \in Byte : LET mem == [s \in Slots |-> b] IN
       /\ rx = [rd |-> 0, wr |-> 0, buf |-> mem, want |-> mem, ovf |-> FALSE, len |-> 1,
                sec |-> 0, run |-> TRUE, short |-> FALSE, endrx |-> FALSE, error |-> FALSE]
       /\ tx = [rd |-> 0, wr |-> 0, buf |-> mem, want |-> mem, len |-> 0, run |-> FALSE,
                endtx |-> FALSE]
       /\ th = [pc |-> "idle", byte |-> b, ovf |-> FALSE, mark |-> 0, stored |-> FALSE,
                res |-> "none"]
  /\ up = TRUE

-----------------------------------------------------------------------------
(* The line and the peripheral.  Bytes that arrive while the receiver is    *)
(* stopped never reach the software.                                        *)

LineByte ==
  /\ "byte" \in Line
  /\ rx.run
  /\ \E b \in Byte : rx' = HwReceive(rx, b)
  /\ UNCHANGED <<tx, up, th>>

LineError ==
  /\ "error" \in Line
  /\ rx.run
  /\ rx' = HwError(rx)
  /\ UNCHANGED <<tx, up, th>>

TxSent ==
  /\ tx.run
  /\ tx' = HwSent(tx)
  /\ UNCHANGED <<rx, up, th>>

-----------------------------------------------------------------------------
(* uarte_irq_handler.  RXD.AMOUNT is 1 whenever ENDRX is set, RXTO needs    *)
(* STOPRX, which nothing triggers.                                          *)

IrqError == rx.error /\ rx' = RxAborted(rx)

IrqByte == /\ ~rx.error /\ rx.endrx /\ rx.len = 1
           /\ rx' = RxRearmed(RxStored(RxCompleted(rx)))

\* "Interrupted transfer is ignored": amount differs from rx_buffer_length.
IrqStrayByte == /\ ~rx.error /\ rx.endrx /\ rx.len # 1
                /\ rx' = [rx EXCEPT !.endrx = FALSE]

IrqNoRx == ~rx.error /\ ~rx.endrx /\ rx' = rx

IrqSent == tx.endtx /\ tx.len # 0 /\ tx' = TxNext(TxCompleted(tx))

IrqNoTx == ~tx.endtx /\ tx' = tx

Irq ==
  /\ up
  /\ rx.error \/ rx.endrx \/ tx.endtx
  /\ IrqError \/ IrqByte \/ IrqStrayByte \/ IrqNoRx
  /\ IrqSent \/ IrqNoTx
  /\ UNCHANGED <<up, th>>

-----------------------------------------------------------------------------
(* nRF5x_UART_get *)

\* The overflow flag is copied before the FIFO is looked at.
GetCall ==
  /\ "get" \in Ops /\ th.pc = "idle"
  /\ th' = [th EXCEPT !.pc = "get_fifo", !.ovf = rx.ovf]
  /\ UNCHANGED <<rx, tx, up>>

\* nRF5x_FIFO_get in one step: Fifo shows that preempting it does no harm.
GetFifo ==
  /\ th.pc = "get_fifo"
  /\ \/ /\ Length(rx) = 0
        /\ th' = [th EXCEPT !.pc = "idle"]
        /\ rx' = rx
     \/ /\ Length(rx) # 0
        /\ rx' = Advance(rx)
        /\ th' = [th EXCEPT !.byte = PeekAt(rx, 0),
                            !.pc = IF th.ovf THEN "get_clear" ELSE "idle"]
  /\ UNCHANGED <<tx, up>>

\* Mutant: the flag is cleared and reception not started again.
GetClearForgets ==
  /\ th.pc = "get_clear"
  /\ rx' = [rx EXCEPT !.ovf = FALSE]
  /\ th' = [th EXCEPT !.pc = "idle"]
  /\ UNCHANGED <<tx, up>>

GetClear ==
  /\ th.pc = "get_clear"
  /\ rx' = [rx EXCEPT !.ovf = FALSE]
  /\ th' = [th EXCEPT !.pc = "get_start"]
  /\ UNCHANGED <<tx, up>>

GetStart ==
  /\ th.pc = "get_start"
  /\ rx' = RxRequest(rx)
  /\ th' = [th EXCEPT !.pc = "idle"]
  /\ UNCHANGED <<tx, up>>

Get == GetCall \/ GetFifo \/ GetClear \/ GetStart

-----------------------------------------------------------------------------
(* nRF5x_UART_put.  The two increments, write_pos++ and read_pos++, are a   *)
(* load and a store each, and put's two looks at the driver are steps of    *)
(* their own: in this module the thread is the only writer, but in Bridge   *)
(* the other port's interrupt writes too and comes between any two of them. *)

Goto(pc) == th' = [th EXCEPT !.pc = pc, !.mark = 0]

Return(result) == th' = [th EXCEPT !.pc = "idle", !.mark = 0, !.res = result]

PutCall ==
  /\ "put" \in Ops /\ th.pc = "idle"
  /\ \E b \in Byte :
       th' = [th EXCEPT !.byte = b, !.stored = FALSE, !.res = "none",
                        !.pc = IF IsFull(tx) THEN "put_wait" ELSE "put_retest"]
  /\ UNCHANGED <<rx, tx, up>>

\* nRF5x_FIFO_put tests the length once more; full is NRF_ERROR_NO_MEM ...
PutRetest ==
  /\ th.pc = "put_retest"
  /\ IF IsFull(tx) THEN Return("false") ELSE Goto("put_store")
  /\ UNCHANGED <<rx, tx, up>>

\* ... and fifo_put stores the byte and increments write_pos.
PutStore ==
  /\ th.pc = "put_store"
  /\ tx' = StoreKept(tx, th.byte)
  /\ Goto("put_load")
  /\ UNCHANGED <<rx, up>>

PutLoad ==
  /\ th.pc = "put_load"
  /\ th' = [th EXCEPT !.pc = "put_publish", !.mark = tx.wr]
  /\ UNCHANGED <<rx, tx, up>>

PutPublish ==
  /\ th.pc = "put_publish"
  /\ tx' = [tx EXCEPT !.wr = Next1(th.mark)]
  /\ th' = [th EXCEPT !.pc = "put_busy", !.mark = 0, !.stored = TRUE]
  /\ UNCHANGED <<rx, up>>

\* nRF5x_UART_wait_tx sees no transfer: status is NRF_SUCCESS.
PutWaited ==
  /\ th.pc = "put_wait"
  /\ ~TxInProgress(tx)
  /\ Goto("put_busy")
  /\ UNCHANGED <<rx, tx, up>>

\* nRF5x_UART_wait_tx gives up: status was never assigned, so either value.
PutTimeout ==
  /\ th.pc = "put_wait"
  /\ TxInProgress(tx)
  /\ Return("false") \/ Goto("put_busy")
  /\ UNCHANGED <<rx, tx, up>>

\* Mutant: put does not ask whether a transfer is under way.
PutBusyUnasked ==
  /\ th.pc = "put_busy"
  /\ Goto("put_pop")
  /\ UNCHANGED <<rx, tx, up>>

PutBusy ==
  /\ th.pc = "put_busy"
  /\ IF TxInProgress(tx) THEN Return("true") ELSE Goto("put_pop")
  /\ UNCHANGED <<rx, tx, up>>

\* nRF5x_FIFO_get(&tx_fifo, tx_buffer): the length, the copy, read_pos++.
PutPop ==
  /\ th.pc = "put_pop"
  /\ IF Length(tx) = 0 THEN Return("false") ELSE Goto("put_fetch")
  /\ UNCHANGED <<rx, tx, up>>

PutFetch ==
  /\ th.pc = "put_fetch"
  /\ tx' = TxCopy(tx)
  /\ Goto("put_load_rd")
  /\ UNCHANGED <<rx, up>>

PutLoadRd ==
  /\ th.pc = "put_load_rd"
  /\ th' = [th EXCEPT !.pc = "put_advance", !.mark = tx.rd]
  /\ UNCHANGED <<rx, tx, up>>

PutAdvance ==
  /\ th.pc = "put_advance"
  /\ tx' = [tx EXCEPT !.rd = Next1(th.mark)]
  /\ Goto("put_start")
  /\ UNCHANGED <<rx, up>>

\* nrf_drv_uarte_tx asks again, and NRF_ERROR_BUSY loses the byte taken ...
PutStart ==
  /\ th.pc = "put_start"
  /\ IF TxInProgress(tx) THEN Return("false") ELSE Goto("put_go")
  /\ UNCHANGED <<rx, tx, up>>

\* ... or it starts the transfer.  What follows the second look is one step: the
\* first store sets tx_buffer_length, after which every other writer finds the
\* driver busy and only queues, and ENDTX cannot come before STARTTX, the last.
PutGo ==
  /\ th.pc = "put_go"
  /\ tx' = TxStarted(tx)
  /\ Return("true")
  /\ UNCHANGED <<rx, up>>

PutStep == \/ PutRetest \/ PutStore \/ PutLoad \/ PutPublish \/ PutWaited \/ PutBusy
           \/ PutPop \/ PutFetch \/ PutLoadRd \/ PutAdvance \/ PutStart \/ PutGo
Put == PutCall \/ PutStep \/ PutTimeout

-----------------------------------------------------------------------------
(* nRF5x_UART_flush, nRF5x_UART_deinit and nRF5x_UART_init *)

FlushCall ==
  /\ "flush" \in Ops /\ th.pc = "idle"
  /\ th' = [th EXCEPT !.pc = "flush_rx", !.mark = rx.wr]
  /\ UNCHANGED <<rx, tx, up>>

FlushRx ==
  /\ th.pc = "flush_rx"
  /\ rx' = FlushTo(rx, th.mark)
  /\ th' = [th EXCEPT !.pc = "flush_tx", !.mark = tx.wr]
  /\ UNCHANGED <<tx, up>>

FlushTx ==
  /\ th.pc = "flush_tx"
  /\ tx' = FlushTo(tx, th.mark)
  /\ Goto("idle")
  /\ UNCHANGED <<rx, up>>

Flush == FlushCall \/ FlushRx \/ FlushTx

\* nrf_drv_uarte_uninit stops the peripheral and its interrupts.
Deinit ==
  /\ "reopen" \in Ops /\ th.pc = "idle"
  /\ th' = [th EXCEPT !.pc = "closed"]
  /\ rx' = [rx EXCEPT !.run = FALSE]
  /\ tx' = [tx EXCEPT !.run = FALSE]
  /\ up' = FALSE

\* Mutant: tx_buffer_length survives, as after nrf_drv_uarte_uninit.
ReinitKeepsLength ==
  /\ th.pc = "closed"
  /\ rx' = RxRequest([rx EXCEPT !.rd = 0, !.wr = 0, !.endrx = FALSE, !.error = FALSE,
                                !.len = 0, !.sec = 0])
  /\ tx' = [tx EXCEPT !.rd = 0, !.wr = 0, !.endtx = FALSE]
  /\ th' = [th EXCEPT !.pc = "idle", !.res = "none"]
  /\ up' = TRUE

\* nRF5x_UART_init after a deinit: the FIFOs, the control block and the events
\* are reset, the short and rx_ovf are not, then the first byte is asked for.
Reinit ==
  /\ th.pc = "closed"
  /\ rx' = RxRequest([rx EXCEPT !.rd = 0, !.wr = 0, !.endrx = FALSE, !.error = FALSE,
                                !.len = 0, !.sec = 0])
  /\ tx' = [tx EXCEPT !.rd = 0, !.wr = 0, !.endtx = FALSE, !.len = 0]
  /\ th' = [th EXCEPT !.pc = "idle", !.res = "none"]
  /\ up' = TRUE

-----------------------------------------------------------------------------
Hardware == LineByte \/ LineError \/ TxSent

Next == Hardware \/ Irq \/ Get \/ Put \/ Flush \/ Deinit \/ Reinit

Spec == Init /\ [][Next]_vars

\* A pending interrupt is taken, a started byte leaves, and a call that has
\* begun goes on: the handler's work is bounded and the thread is not stopped.
Fairness ==
  /\ WF_vars(Irq)
  /\ WF_vars(TxSent)
  /\ WF_vars(GetFifo \/ GetClear \/ GetStart)
  /\ WF_vars(PutStep)
  /\ WF_vars(FlushRx \/ FlushTx)

FairSpec == Spec /\ Fairness

\* The client polls: it keeps calling get.
PollingSpec == FairSpec /\ WF_vars(GetCall)

-----------------------------------------------------------------------------
(* Properties of receiving. *)

\* Every byte the driver has been asked to receive has a free slot waiting for
\* it, so the nRF5x_FIFO_put of the interrupt never drops a byte
\* (nRF5x_UART.c:38-40, whose error branch is empty).
RequestsHaveRoom == Length(rx) + rx.len + rx.sec <= Size

\* Receiving never dies: either one request is outstanding and the peripheral
\* is working on it or has an interrupt pending for it, or the flag says that
\* the next get has to ask again and there is a byte left for a get to take,
\* or a get is just doing so.
ReceptionAlive ==
  up => \/ rx.len = 1 /\ rx.sec = 0 /\ (rx.run \/ rx.endrx)
        \/ rx.len = 0 /\ rx.ovf /\ Length(rx) > 0
        \/ rx.len = 0 /\ th.pc \in {"get_clear", "get_start"}

\* The receive buffer is also the FIFO's memory, yet only slot 0 is damaged:
\* every unread byte in another slot is the byte that was received.
RxDamageOnlyInSlot0 ==
  \A k \in 0 .. Length(rx) - 1 : Slot(rx.rd + k) # 0 => Intact(rx, k)

\* An unread byte is the byte that was received, in every slot.
RxUnreadIntact == \A k \in 0 .. Length(rx) - 1 : Intact(rx, k)

\* An overflow ends: a client that keeps calling get gets the receiver going
\* again, whichever way the interrupt falls between its two looks.
OverflowEnds == rx.ovf ~> rx.run

-----------------------------------------------------------------------------
(* Properties of sending. *)

\* No byte is left behind: while bytes wait, a transfer is under way (or its
\* interrupt is pending), or the put that stored the byte has yet to look
\* whether it must start one.
NoByteStranded ==
  /\ up /\ Length(tx) > 0 => TxInProgress(tx) \/ th.pc \in StartPCs \cup {"put_busy"}
  /\ up /\ TxInProgress(tx) => tx.run \/ tx.endtx

\* The result of put tells what became of its byte: true means that it was
\* queued, and false that it was not, so that a caller who tries again does not
\* send it twice.
PutResultIsTrue ==
  th.pc = "idle" /\ th.res # "none" => (th.res = "true") = th.stored

\* Neither FIFO ever claims more bytes than it has slots, also with flush,
\* errors and a port that is closed and opened again.
FifosWithinCapacity == Length(rx) <= Size /\ Length(tx) <= Size

\* As for receiving: what waits outside slot 0 is what was put.
TxDamageOnlyInSlot0 ==
  \A k \in 0 .. Length(tx) - 1 : Slot(tx.rd + k) # 0 => Intact(tx, k)

\* Every byte that waits at some position leaves it.
QueuedByteLeaves ==
  \A p \in Positions : (tx.rd = p /\ Length(tx) > 0) ~> tx.rd # p
=============================================================================
