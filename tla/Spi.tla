-------------------------------- MODULE Spi --------------------------------
(***************************************************************************)
(* libraries/nRF5x_SPI.c over drivers/nrf_drv_spi.c on one SPIM instance:  *)
(* the main loop's calls, the DMA and its END interrupt.  Pins, mode and   *)
(* frequency are left out: setMode, setBitOrder, setFreq and setNSS are a  *)
(* SpiDeinit and then a SpiInit.                                           *)
(***************************************************************************)
EXTENDS Integers

CONSTANT MaxTransfers \* bound: how many transfers are asked for

ASSUME SpiAssumption == MaxTransfers \in Nat

VARIABLES spim,   \* the driver and the library's flag: open (state), busy
                  \* (transfer_in_progress), done (spi_xfer_done)
          spidma, \* the peripheral: of (the call whose buffers it uses, 0 for
                  \* none), end (END event, with its interrupt)
          xfer    \* the main loop: pc, call (its number), filled (whether its
                  \* own answer is in the receive buffer), answer (what the
                  \* call returned)

spiVars == <<spim, spidma, xfer>>

SpiPC == {"idle", "cleared", "wait", "spin", "read", "returned"}

SpiTypeOK ==
  /\ spim \in [open : BOOLEAN, busy : BOOLEAN, done : BOOLEAN]
  /\ spidma \in [of : 0 .. MaxTransfers, end : BOOLEAN]
  /\ xfer \in [pc : SpiPC, call : 0 .. MaxTransfers, filled : BOOLEAN,
              answer : {"none", "right", "stale", "zero"}]

SpiInitial ==
  /\ spim = [open |-> FALSE, busy |-> FALSE, done |-> FALSE]
  /\ spidma = [of |-> 0, end |-> FALSE]
  /\ xfer = [pc |-> "idle", call |-> 0, filled |-> FALSE, answer |-> "none"]

-----------------------------------------------------------------------------
(* The peripheral and its interrupt. *)

\* The DMA has read and written the buffers it was given.
BusEnds ==
  /\ spidma.of # 0
  /\ spidma' = [of |-> 0, end |-> TRUE]
  /\ xfer' = [xfer EXCEPT !.filled = @ \/ spidma.of = xfer.call]
  /\ UNCHANGED spim

\* finish_transfer, with the library's handler at its end.
Finished(driver) == [driver EXCEPT !.busy = FALSE, !.done = TRUE]

\* irq_handler_spim
SpiIrq ==
  /\ spim.open /\ spidma.end
  /\ spidma' = [spidma EXCEPT !.end = FALSE]
  /\ spim' = Finished(spim)
  /\ UNCHANGED xfer

-----------------------------------------------------------------------------
(* The calls of the main loop. *)

SpiIdle == xfer.pc \in {"idle", "returned"}
SpiAt(pc) == xfer.pc = pc

\* nrf_drv_spi_init refuses an instance that is open.
DriverInit(driver) ==
  IF driver.open THEN driver ELSE [driver EXCEPT !.open = TRUE, !.busy = FALSE]

\* nRF5x_SPI_init
SpiInit ==
  /\ SpiIdle
  /\ spim' = DriverInit([spim EXCEPT !.done = FALSE])
  /\ UNCHANGED <<spidma, xfer>>

\* nrf_drv_spi_uninit: the interrupt off, the transfer stopped, END cleared.
DriverUninit ==
  /\ spim' = [spim EXCEPT !.open = FALSE, !.busy = FALSE]
  /\ spidma' = [of |-> IF spim.busy THEN 0 ELSE spidma.of, end |-> FALSE]

\* nRF5x_SPI_deinit, also the first half of the calls that set an option.
SpiDeinit == SpiIdle /\ spim.open /\ DriverUninit /\ UNCHANGED xfer

\* nRF5x_SPI_writeRead, with transfer's fresh buffers, up to its first store.
BeginWriteRead ==
  /\ SpiIdle /\ spim.open /\ xfer.call < MaxTransfers
  /\ spim' = [spim EXCEPT !.done = FALSE]
  /\ xfer' = [pc |-> "cleared", call |-> xfer.call + 1, filled |-> FALSE,
              answer |-> "none"]
  /\ UNCHANGED spidma

\* nrf_drv_spi_transfer while another one is under way.  The status is not used.
RefuseBusy ==
  /\ SpiAt("cleared") /\ spim.busy
  /\ xfer' = [xfer EXCEPT !.pc = "wait"]
  /\ UNCHANGED <<spim, spidma>>

\* Mutant: the END event is cleared after the start and may be lost.
SpimStartedFirst ==
  spidma' \in {[of |-> xfer.call, end |-> FALSE], [of |-> 0, end |-> FALSE]}

\* spim_xfer: the buffers are set and END is cleared before the start.
SpimStarted == spidma' = [of |-> xfer.call, end |-> FALSE]

\* nrf_drv_spi_transfer, when no other one is under way.
StartTransfer ==
  /\ SpiAt("cleared") /\ ~spim.busy
  /\ spim' = [spim EXCEPT !.busy = TRUE]
  /\ SpimStarted
  /\ xfer' = [xfer EXCEPT !.pc = "wait"]

\* The first test of nRF5x_SPI_wait_xfer, whose loop goes on while done is set.
WaitTests ==
  /\ SpiAt("wait")
  /\ xfer' = IF spim.done THEN [xfer EXCEPT !.pc = "spin"]
                          ELSE [xfer EXCEPT !.pc = "read"]
  /\ UNCHANGED <<spim, spidma>>

\* done is not reset during the call, so the loop ends by its timeout only.
WaitExpires ==
  /\ SpiAt("spin")
  /\ xfer' = [xfer EXCEPT !.pc = "returned", !.answer = "zero"]
  /\ UNCHANGED <<spim, spidma>>

\* nRF5x_SPI_transfer returns what is in its buffer, which the DMA may have
\* filled, may fill later, or, for a call that was refused, never fills.
ReadAnswer ==
  /\ SpiAt("read")
  /\ xfer' = [xfer EXCEPT !.pc = "returned",
                          !.answer = IF xfer.filled THEN "right" ELSE "stale"]
  /\ UNCHANGED <<spim, spidma>>

SpiNext == \/ BusEnds \/ SpiIrq
           \/ SpiInit \/ SpiDeinit
           \/ BeginWriteRead \/ RefuseBusy \/ StartTransfer
           \/ WaitTests \/ WaitExpires \/ ReadAnswer

SpiSpec == SpiInitial /\ [][SpiNext]_spiVars

-----------------------------------------------------------------------------
(* Properties. *)

\* The driver is busy exactly while the peripheral has somebody's buffers or
\* its END is still to be served: a transfer nobody waits for cannot be
\* overtaken by the next one, nor keep the instance busy for ever, and neither
\* can one that SpiDeinit cuts off.
BusyExactlyWhileTransferring == spim.busy <=> spidma.of # 0 \/ spidma.end

\* "Sends a byte and returns the byte of the answer" (nRF5x_SPI.c:169).
TransferReturnsAnswer == SpiAt("returned") => xfer.answer = "right"
=============================================================================
