-------------------------------- MODULE Uarte --------------------------------
(***************************************************************************)
(* One UARTE instance below the UART library, as operators on two records: *)
(* what drivers/nrf_drv_uarte.c does to its control block and to the       *)
(* peripheral, and what the library's event handler nRF5x_UART_handler     *)
(* does with the driver's events.  Every transfer is one byte long and     *)
(* uses element 0 of the array that also is the memory of the FIFO.        *)
(*                                                                         *)
(* Receiving side r: rd, wr, buf  the rx FIFO (FifoOps) over               *)
(*                                nRF5x_UART_rx_buffer                     *)
(*                   ovf          nRF5x_UART_rx_ovf                        *)
(*                   len, sec     rx_buffer_length and                     *)
(*                                rx_secondary_buffer_length               *)
(*                   run, short   receiver started, SHORT_ENDRX_STARTRX    *)
(*                   endrx, error event registers                          *)
(*                   want         history: what each slot was given        *)
(* Sending side t:   rd, wr, buf  the tx FIFO over nRF5x_UART_tx_buffer    *)
(*                   len          tx_buffer_length                         *)
(*                   run, endtx   transmitter started, event register      *)
(*                   want         history: what each slot was given        *)
(***************************************************************************)
EXTENDS FifoOps

CONSTANT Byte

RxType == [rd : Positions, wr : Positions, buf : [Slots -> Byte], want : [Slots -> Byte],
           ovf : BOOLEAN, len : {0, 1}, sec : {0, 1}, run : BOOLEAN, short : BOOLEAN,
           endrx : BOOLEAN, error : BOOLEAN]
TxType == [rd : Positions, wr : Positions, buf : [Slots -> Byte], want : [Slots -> Byte],
           len : {0, 1}, run : BOOLEAN, endtx : BOOLEAN]

\* Does the slot that is read k-th still hold the byte it was given?
Intact(f, k) == PeekAt(f, k) = f.want[Slot(f.rd + k)]

StoreKept(f, byte) == [Store(f, byte) EXCEPT !.want[Slot(f.wr)] = byte]

PutKept(f, byte) == Publish(StoreKept(f, byte))

-----------------------------------------------------------------------------
(* Receiving. *)

\* nrf_drv_uarte_rx of one byte: the first request starts the receiver, one
\* made while another is outstanding becomes the second buffer and sets the
\* short, a third is refused (NRF_ERROR_BUSY).  Both that are taken clear ENDRX.
RxBusy(r) == r.len # 0 /\ r.sec # 0

RxRequest(r) ==
  CASE r.len = 0 -> [r EXCEPT !.len = 1, !.sec = 0, !.endrx = FALSE, !.run = TRUE]
    [] r.len # 0 /\ r.sec = 0 -> [r EXCEPT !.sec = 1, !.endrx = FALSE, !.short = TRUE]
    [] RxBusy(r) -> r

\* uarte_irq_handler, ERROR: both requests are forgotten; the library's handler
\* ignores the event.
RxAborted(r) == [r EXCEPT !.error = FALSE, !.len = 0, !.sec = 0]

\* uarte_irq_handler, ENDRX of the outstanding request.
RxCompleted(r) ==
  [r EXCEPT !.endrx = FALSE, !.len = r.sec, !.sec = 0, !.short = @ /\ r.sec = 0]

\* RX_DONE in nRF5x_UART_handler, up to the callback: p_data[0] goes to the FIFO.
RxStored(r) == IF IsFull(r) THEN r ELSE PutKept(r, r.buf[0])

\* Mutant: always ask for the next byte.
RxRearmedAlways(r) == RxRequest(r)

\* Mutant: the overflow is not noted.
RxRearmedQuietly(r) == IF IsFull(r) THEN r ELSE RxRequest(r)

\* RX_DONE after the callback: ask for the next byte, or note the overflow.
RxRearmed(r) == IF IsFull(r) THEN [r EXCEPT !.ovf = TRUE] ELSE RxRequest(r)

-----------------------------------------------------------------------------
(* Sending. *)

\* nrf_drv_uarte_tx_in_progress
TxInProgress(t) == t.len # 0

\* nrf_drv_uarte_tx of one byte; refused (NRF_ERROR_BUSY) during a transfer.
TxStarted(t) == [t EXCEPT !.len = 1, !.endtx = FALSE, !.run = TRUE]
TxRequest(t) == IF TxInProgress(t) THEN t ELSE TxStarted(t)

\* nRF5x_FIFO_get(&tx_fifo, tx_buffer) of a FIFO that is not empty: the byte is
\* copied into element 0 of the FIFO's own memory, then read_pos moves on.
TxCopy(t) == [t EXCEPT !.buf[0] = PeekAt(t, 0)]
TxPop(t) == Advance(TxCopy(t))

\* Mutant: TX_DONE does not look for a next byte.
TxNextStops(t) == t

\* uarte_irq_handler, ENDTX, and TX_DONE in nRF5x_UART_handler.
TxCompleted(t) == [t EXCEPT !.endtx = FALSE, !.len = 0]
TxNext(t) == IF Length(t) = 0 THEN t ELSE TxRequest(TxPop(t))

-----------------------------------------------------------------------------
(* The peripheral, as far as the driver sees it. *)

\* A byte has been received into element 0.
HwReceive(r, byte) == [r EXCEPT !.buf[0] = byte, !.endrx = TRUE, !.run = r.short]

\* A framing, parity or overrun error.
HwError(r) == [r EXCEPT !.error = TRUE]

\* The byte has left the shift register.
HwSent(t) == [t EXCEPT !.run = FALSE, !.endtx = TRUE]
=============================================================================
