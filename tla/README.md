# A verification of the nRF52840-Vega firmware in TLA+

The repository is the firmware of a board with an nRF52840 and an SX1272 radio: an
Arduino-like core (`src/nRF52/core`) over Nordic's SDK (`src/nRF52/system`) and an
application (`src/src/main.cpp`) that bridges two serial ports. It runs without an
operating system: one main loop ("the thread") and interrupt handlers that preempt it at
any instruction and share memory with it without locks. What a unit test hardly reaches is
exactly what happens there, and it is what this project models, checks with TLC and, for
every size of the buffers, proves with TLAPS.

## 1. The system

| part | state | operations | works with |
|---|---|---|---|
| **Byte FIFO** `nRF5x_FIFO.c` | `p_buf`, `buf_size_mask`, two free-running `uint32_t` counters `read_pos`, `write_pos` | init, put, get, peek, flush, read, write, length | UART library, from the thread and from interrupts |
| **UART library** `nRF5x_UART.c` | per port: two FIFOs, `rx_ovf`, callback, `inited_flag`; the DMA buffers *are* the FIFO memories | init, deinit, attachCallback, get, put, read, write, print, flush, available, wait_tx; event handler | FIFO; driver (calls down, events up); application callback, in the interrupt |
| **UARTE driver** `nrf_drv_uarte.c` | control block: `rx_buffer_length`, `rx_secondary_buffer_length`, `tx_buffer_length`, handler, state | init, uninit, tx, rx, tx_in_progress, abort; `uarte_irq_handler` | the peripheral's events ENDRX, ERROR, ENDTX; the library's handler |
| **Serial bridge** `main.cpp` | which callbacks are attached | `uart_0_handler`, `uart_1_handler` (in interrupts), the writes of `loop()` | both ports, crosswise |
| **USB session** `nRF5x_USB.c`, `app_usbd.c`, `nrf_drv_power.c` | connection flags, event queue, started/enabled/suspended flags | power event handler, `nRF5x_USB_process`, start, stop, suspend, enable, disable | power interrupt, main loop, classes |
| **CDC ACM port** `nRF5x_USB_CDC.c` | `tx_flag`, port-open flag, deferred receive size, receive buffer | write, read, class event handler, process | USB session; `cdc_handler` echoes from its receive buffer |
| **USB event queue** `nrf_atfifo.c` in `app_usbd.c` | buffer, tail and head, each a write and a read position | `app_usbd_event_add` (item_alloc, item_put), `app_usbd_event_queue_process` (item_get, item_free) | every interrupt of the USB stack adds, the main loop executes |
| **USB driver** `nrf_drv_usbd.c` | per endpoint: waiting, ready, status; one DMA | ep_transfer, ep_abort, `USBD_IRQHandler`, enable, start, stop, suspend | classes; the bus |
| **HID generic** `nRF5x_USB_GENERIC.c` | accumulators, `m_report_pending` | class event handler, report building, process | USB session |
| **RTC clock** `nRF5x_RTC.c` | seconds/minutes/hours/date, alarm, callbacks | tick handler, setTime, setDate, setAlarm, attach/detach | RTC interrupt, main loop |
| **Millisecond clock** `delay.c` | tick count | SysTick handler, millis, micros, delay | everything that waits |
| **SPI**, **TWI**, **ADC** libraries | `spi_xfer_done`, opened flags | open, close, transfer, writeRead, ... | SPI interrupt; application |
| **Arduino layer** | thin objects over the libraries; targets and their indexes in `Stream.cpp` | begin, end, read, write, print, searching, number parsing and formatting | the libraries; main.cpp constructs none of them |
| **SDK, boards, build output** | | | third-party or generated |

### What is hard

* **Interleaving.** The FIFO has no lock. Each port's FIFOs are shared by the thread and the
  interrupt, and UART0's sending FIFO is written by the thread *and* by the receive
  interrupt of UART1 (through the callback). `put` looks, then acts; `get` looks twice.
* **Hand-over at a limit.** When the receiving FIFO is full the handler stops asking for
  bytes, sets `rx_ovf`, and relies on a later `get` to start again. When the sending FIFO
  runs empty the handler stops and relies on a later `put`.
* **Shared memory with the DMA.** Reception and transmission use element 0 of the arrays the
  FIFOs keep waiting bytes in.
* **Failure.** A line error aborts the driver's request; a wait can time out; a port can be
  closed and opened again with events left over from before.
* **Wrapping.** The counters run through all of `uint32_t`.
* **Requests that arrive late.** What the cable, the bus or the host asks for goes through a
  queue or a polled flag; when it is executed the world may have moved on. The SDK guards
  itself with assertions that the build compiles out.
* **Nested interrupts.** Interrupts of different priority add to one event queue while each
  other's event is half written.
* **Multi-word state without a lock.** The time of day, the alarm with its function and a
  callback with its flag are stored field by field under an interrupt that reads them all.

PROJECT.json lists each hazard at its line, with the properties that watch it, or, where no
property does so, why.

### What makes each part correct

This is what one would ask of each part. Where the code gives less, the property that is checked
says exactly what it gives, and a violated run shows the rest (section 3).

* FIFO: it is a bounded queue to its two users; a slot promised to the producer is never an
  unread one; what the consumer concluded from the length still holds when it acts.
* Receiving: an outstanding request always has a free slot; the receiver is working, or
  stopped with a flag and a byte that make a `get` start it again; unread bytes are intact.
* Sending: a waiting byte always has a transfer ahead of it; `put`'s result is true; waiting
  bytes leave. With one writer a byte that `put` takes out gets its transfer; on UART0, which
  has two, it is lost if the other writer starts one in between, and only then.
* Bridge: a byte that goes out is the byte that came, in order, unless it was stored in slot 0
  behind a waiting one; a byte that meets a full sending FIFO is dropped. On a clean line both
  ports keep receiving; nothing is stranded although UART0 has two writers; UART1's FIFOs
  claim no more bytes than they have.
* USB event queue: an accepted event is executed once, intact and in order; none stays
  invisible.
* USB session: what the cable and the bus did last is what the device ends up doing; the
  stack's assertions hold; a device neither sleeps through traffic nor resumes for ever.
* CDC port: an open port listens, and the flag a write waits for has a transfer to clear it,
  unless a reset or a suspend has aborted it, which the code tells nobody; the first packet of
  an echo is what was received.
* Clock and alarm: a time that is set is the time shown; an alarm rings once, with the
  function passed for it; no null pointer is called.
* Millisecond clock: a time read is one the clock, less the ticks it has lost, showed; a delay
  is long enough.
* SPI: one transfer at a time has the peripheral, and the answer is that of the transfer.
* Searches in a stream: a string is reported only where it ends, and the first occurrence is
  found, but for the strings `find` reads over.

## 2. The modules

```
FifoOps        the FIFO as operators on records (no variables)
  |-- Fifo     one FIFO, two contexts, access by access  --refines-->  BoundedQueue
  |-- Uarte    driver + event handler + peripheral, as operators on the two sides of a port
        |-- Uart     one port: thread, interrupt, peripheral, line
        |-- Bridge   two ports with main.cpp's callbacks; two INSTANCEs of Uart
AtFifo         the USB event queue under nested contexts  --refines-->  EventQueue
UsbSession     cable, power interrupt, main loop, requests, bus events, suspend
Cdc            the CDC port, its class and the two data endpoints with their DMA
Rtc  Clock  Spi  Stream    clock and alarm; millisecond clock; SPI master; searches

MC_Uart, MC_Bridge, MC_Devices          the modules TLC runs
FifoLemmas -> FifoProofs                about Fifo and AtFifo
FifoLemmas -> UarteLemmas -> UartProofs, BridgeProofs
UsbProofs                               about UsbSession and Cdc
DeviceProofs                            about Rtc, Clock, Spi and Stream
MC_DevicesProofs                        extends FifoProofs, UsbProofs and DeviceProofs
```

`MC_Devices` puts the components that share no state side by side: `part` chooses the one a
behaviour runs, the others stay as they are at reset. It is not a product, so the size of the
run is the sum of its parts.

**FifoOps** and **Fifo**. The record fields `rd`, `wr`, `buf` are `read_pos`, `write_pos`,
`p_buf`; `& mask` is the remainder by `Size`. `PosMod` is the number of values of a counter,
2^32 in the program. `Fifo` splits every operation at each access to a variable the other
context writes: the length test (`PutBegin`, `GetBegin`, `ReadBegin`, `WriteBegin`,
`PeekBegin`), the store and `write_pos++` (`ProdStore`, `ProdPublish`), the copy and
`read_pos++` (`ConsFetch`, `ConsAdvance`), flush's read and its assignment (`FlushBegin`,
`FlushEnd`). `nRF5x_FIFO_length` reads both counters in one step: of the two only the other
context's moves meanwhile, and only in the direction that makes the real answer the more
cautious one, so the split adds no behaviour a test of the length could be wrong about.

**Uarte** and **Uart**. `rx` and `tx` are the two sides of a port: FIFO, driver lengths,
event registers, and the history `want` (what a slot was given, to tell when the DMA has
overwritten it). The thread `th` runs `nRF5x_UART_get` (`GetCall` .. `GetStart`), `put`
(`PutCall` .. `PutGo`), `flush`, `deinit` and the `init` that follows one; `Irq` is a whole
run of `uarte_irq_handler` with the library's handler inside; `LineByte`, `LineError` and
`TxSent` are the peripheral. In `put` the increments are a load and a store each, and put's
look at the driver (`PutBusy`), the driver's own (`PutStart`) and the start (`PutGo`) are
steps of their own, because Bridge has an interrupt that writes to the same port. `PutGo` is
what follows the second look, `nrf_drv_uarte.c:275-287`: its first store sets
`tx_buffer_length`, after which every other writer only queues. `PutTimeout` covers
`nRF5x_UART_wait_tx` giving up: `status` has then never been assigned
(`nRF5x_UART.c:250-262`), so the step takes either branch. The get of the main loop takes
its byte in one step, which `Fifo` justifies.

**Bridge** composes two instances of `Uart` (for UART0 with `Ops = {"put"}`, the thread in
`loop()`) and adds the callbacks: `Forward` is the interrupt of one port running
`uart_X_handler`, that is `nRF5x_UART_get` on its own port and `nRF5x_UART_put` on the
other. A full FIFO makes that `put` wait in vain, at the priority of the interrupt it waits
for, and drop its byte. `Attach` are the two `attachCallback` calls after both ports are already
receiving. Two histories follow the bytes. `fwd` has for each direction the byte that came for
each slot of the sending FIFO (`Queued`), whether slot 0 was filled behind a waiting byte, and
whether what went to the transmitter since was what came (`Sends`); it is kept while the port is
`Watched`: nothing came before its callback and, towards UART0, the main loop has not written.
`rival` says that `uart_1_handler` has started UART0's transmitter under a put of the thread
that had found it idle. The lines of Bridge have no errors: after one a port is deaf (run
`rx_error`), so `KeepsReceiving` is about clean lines.

**AtFifo** (`evq` is the `nrf_atfifo_t`; its memory, `tail` and `head` with their `wr` and
`rd`). `adding` is the stack of contexts that are inside `app_usbd_event_add`: an interrupt
that preempts another finishes first, so only the last one moves. `ItemAlloc`, `ItemWrite`
and `ItemPut` are request, copy and close of the space of writing; `ItemDrop` is the full
queue; `ItemGet` and `ItemFree` are the main loop's, which executes the event in place. Each
request or close is one LDREX/STREX pair and one step. A ticket remembers whether it found no
other context at work (`outer`): only that one reveals. **EventQueue** is the promise:
accepted events become visible together, are executed in order, and an event is refused only
while Capacity are held.

**UsbSession**. `cable` holds POWER's status bits and its pending events, `PowerIrq` the
interrupt that reports them in one fixed order; `conn` is `nRF5x_USB_isConnected` and the copy
the main loop compares it with, in three reads (`ConnCompare`, `ConnCopy`, `ConnChoose`), which
it makes once it has found the queue empty; bus events may be queued again by then;
`queue`, `sustate` and `hfclk` are the event queue, the suspend state and the clock of
`app_usbd.c`, `ExecEvent` is `app_usbd_event_execute`. Start-up is included, with the two
classes' initialisations in the order of `USB_init`. `Assert` notes a failed ASSERT and the
model goes on, as the build does. `hasty` is history: whether the cable was moved before the
firmware had come to rest since it was last moved, or is in at reset.

**Cdc**. `epin` and `epout` are the driver's two data endpoints, `dma` the one DMA they share
and the interrupt the driver raises for itself; `DmaRequest` is `usbd_dmareq_process`, with
which every run of the USBD interrupt ends. `link` is the bus as the port meets it: configured
or not, the suspend state and its clock. A suspend runs through its whole course: the event, the
request with which `nRF5x_USB_ev_handler` answers it, and `nrf_drv_usbd_suspend`
(`DeviceSuspends`), whose `usbd_ep_abort_all` drops a waiting read without an event and a waiting
write with one the class ignores; after a resume the link is active again only with the clock.
`port` is `nRF5x_USB_CDC.c`'s state and the line state; `PortExecutes` is the execution of one
event with the class's and the port's handlers, `Handle` and `HandleRead` are
`nRF5x_USB_CDC_handle` with the callback of main.cpp that echoes. Data is which packet of the
buffer is read or overwritten when. `history` says what came since the last read (`unread`: a
reset or a suspend) or the last write (`unsent`: these or a close) that found the link in order,
and which packet not yet sent was overwritten (`torn`).

**Rtc**. `time`, `alarm` and `attached` are the variables of `nRF5x_RTC.c` that the tick
interrupt (`Tick`, one step: nothing that shares its state preempts it) and the main loop
share. Each call is a first step and one step per store that follows (`SetTimeCall` and
`SetTimeStore`; `SetAlarmCall`, `SetAlarmCopied`, `SetAlarmOn`, `SetAlarmFn`; `AttachCall` and
`AttachFlag`; `EnableTime` and `StartRtc`). Where a structure is copied the order of the
stores is the compiler's, so any order is allowed. `lost` says that a null pointer was called;
nothing is claimed of the program after that.

**Clock**. `Cycle` is one cycle of SysTick, `HandlerEnter` and `HandlerStore` its interrupt
around the increment; `ReadVal`, `ReadPend`, `ReadCount` are the three reads of a round of
`micros`, called from the main loop or from an interrupt of higher priority; `DelayTest` is the
loop of `delay`. At most one reading is taken per cycle. The interrupt has the lowest priority,
and others keep it waiting for as long as they like, the receive callbacks' wait of a
millisecond (`nRF5x_UART.c:277`) among them: a request that is made again before it was answered
is a tick `lost`.

**Spi**. `spim` is the driver's state and the library's `spi_xfer_done`, `spidma` the
peripheral with the call whose buffers it has, `xfer` the main loop between the store of
`nRF5x_SPI_writeRead` and the return of `nRF5x_SPI_transfer`.

**Stream**. `MultiHears` and `UntilHears` are one turn of the loops of `findMulti` and
`findUntil`; `heard` is history. The inner loop of `findMulti` is the greatest shorter index it
accepts (`Shorter`), as the loop goes down from the current one.

### Abstractions

* Bytes are model values. Baud rate, pins and instance numbers out of range are left out.
* `nrf_drv_uarte_rx` disables the receive interrupt while it works, and is one step; so is
  the handler, since both UART interrupts have one priority and nothing that shares this
  state has a higher one.
* Every transfer has length one, the only one the library asks for, so `amount` is 1. The
  transmitter runs only for such a transfer, so an ENDTX without one, which the interrupt
  handler of the driver drops, does not occur.
* Bytes that arrive while the receiver is stopped never reach the software and are not
  modelled.
* An `init` of a port that is already open is not modelled.
* A cable pulled out appears to the CDC port as the reset that follows it, since the stop
  event deselects the configuration in the same way.
* The host leaves the firmware time for one turn of the main loop, and for a DMA transfer to
  end, between two of its requests or of its changes of the bus (`HostAsks`, `BusEvents`): both
  take microseconds, a control transfer or a suspend milliseconds. So for the port a RESUME does
  not come between a SUSPEND and the request that answers it; UsbSession, which has no such
  restriction, shows what the device does then. The bus and the clock wait while `PortEvents`, or
  `MaxQueue`, events are queued; AtFifo has the queue that does fill up.
* A call of the main loop that sets the time lasts less than a minute (`Tick`).
* Callers of the RTC give seconds below 60, minutes and hours likewise, and `setAlarm` a
  structure whose `activated` is false; the code copies whatever it is given.

## 3. The runs

| run | question | instance |
|---|---|---|
| `rx` | receiving, polled with `get`: room for every request, never deaf, overflow ends | 4 slots, counters of 8 values, 2 bytes |
| `tx` | sending with `put` and `flush`: does every byte leave, is damage confined to slot 0? | the same |
| `faults` | all calls, line errors, reopening: is sending still sound, do FIFOs stay within their size? | 2 slots, counters of 4 values, 1 byte |
| `bridge` | both ports with the callbacks, bytes before they are attached, main loop writing, every FIFO driven to its limit: which byte goes out for each that comes, when is one lost, do both ports go on, is nothing stranded? | 2 slots, 4 values, 2 bytes |
| `devices` | the parts that share no state, each against its interrupts | below |
| `rx_slot0` | *violated*: an unread byte in slot 0 is overwritten by the next one received | 4 slots |
| `rx_error` | *violated*: one line error and the port never receives again | 4 slots |
| `tx_result` | *violated*: `put` reports false for a byte that was sent, and true for one that was not stored | 4 slots |
| `bridge_overfull` | *violated*: UART0's two writers make its FIFO claim more bytes than it has slots | 2 slots |
| `micros_irq` | *violated*: `micros`, called by an interrupt that preempts the tick handler before its store, is one period behind | a period of 7 cycles |
| `usb_assert` | *violated*: with the cable in at start-up a class is appended to an enabled device | the session alone |
| `spi_answer` | *violated*: `nRF5x_SPI_transfer` returns before the transfer is done, or gives up because it is | two transfers |

The parts of `devices`, each with the question, its properties and its bounds:

| part | question | instance |
|---|---|---|
| fifo | is the lock-free FIFO a bounded queue, and safe at each access? (`RoomForStores`, `ClaimStillTrue`, `ImplementsQueue`) | 4 slots, counters of 8 values, 2 bytes; complete |
| queue | does nesting lose, tear, duplicate or hide an event? (`EventsIntact`, `NoneLeftInvisible`, `ImplementsEventQueue`) | 4 slots, 3 nested contexts, 2 events; complete |
| session | does the device follow cable and bus? (`CalmAssertionsHold`, `SettledFollowsCable`, `AsleepOnlyOnSleepingBus`, `NotStuckResuming`) | bus and clock wait while 2 events are queued |
| cdc | through opening, closing, reset, suspend and resume, does the port listen, is its flag true, is the echo intact? (`OpenPortListens`, `BusyMeansSending`, `EchoStartsIntact`) | a buffer of 2 packets, 2 events queued |
| rtc | what can a tick between two stores do? (`SetTimeLosesAtMostACarry`, `NullCalledOnlyMidCall`, `AlarmRingsOncePerSetting`, `ArmedAlarmRings`) | 2 ticks, 2 seconds, 2 minutes, 3 hours, 2 functions, 3 calls |
| clock | with ticks that are lost, is a time read one the clock showed, a delay long enough? (`MicrosIsTimely`, `DelayLongEnough`) | a period of 7 cycles, a count of 3 values, calls of up to 14 cycles |
| spi | one transfer at a time? (`BusyExactlyWhileTransferring`) | 4 transfers |
| search | is the first occurrence found? (`MultiFindsTheFirst`, `FindMissesOnlyRepeats`) | all strings of up to 4 over 2 characters, 6 bytes of input |

Why these bounds suffice. Four slots is the program's own size of the FIFOs (`nRF5x_UART.h`);
with two slots the full, the empty and the partly filled FIFO still differ, and slot 0 and
another slot. Counters of `2 * Size` values are the narrowest that tell full from empty: every
wrap of the program's counters happens, and often. Two bytes tell an intact slot from an
overwritten one. `bridge` lets the lines of UART0 and UART1 deliver four and two bytes and the
loop write two, so that four bytes meet a sending FIFO of two behind one that is being sent and
the waiting path of `put` is taken in both directions. Only UART0's line delivers two values
(`ValuesFromLine0`): until the main loop writes, what holds of the bytes on their way to UART1
holds of those on their way to UART0, and after that no property tells UART0's bytes apart; the
proof has no such restriction. `MaxEarly` is two, which fills a receiving FIFO before its
callback is attached. `rx`, `tx`, `faults` and the parts `fifo` and `queue` are bounded in
nothing but the sizes.

Three contexts are an outer one, one inside it and one inside that: the ticket of the middle one
is neither the first nor the last. With two events queued, a suspend and the request it leads
to, or a suspend and the resume that overtakes the request, are in the queue of the session
together; its own requests come on top. A buffer of two packets has a first and a later one.
Three calls of the main loop on the RTC are an alarm that is set, a time that is moved past it,
and one more; two seconds make a minute end at every other one. A count of three values wraps
within a delay of two, and a call of `micros` of up to two periods sees every position of
reload, request and handler between its reads, and a request made twice. A period of seven is
longer than two rounds of reads, so a call can also end within it. Strings of four are long
enough for a fallback that takes one shorter index and refuses a longer one.

Deadlock is checked in `rx`, `tx` and `faults`. The runs of Bridge end when their bytes are
used up; `devices` ends where the calls, transfers or bytes that a bound allows are used up,
and where the RTC has called a null pointer. `bridge` uses symmetry in the bytes; it has no
liveness property. It is the largest run with 3,185,276 distinct states; `devices` has 1,780,135.

The seven violations are disagreements between the code and what its headers, comments or
assertions say; "findings" in PROJECT.json quotes both. Two more results are worth a reader's
attention though no run is violated, because the property says what does hold:
`FindMissesOnlyRepeats` holds only with its restriction, so `find` may not find a string that
was received (`aab` in `aaab`), against "returns true if target string is found, false if timed
out" (`Stream.cpp:62`); and `NullCalledOnlyMidCall` names the two calls during which the RTC
interrupt does call a null pointer.

### Fairness

`FairSpec` assumes that a pending interrupt is taken (`WF(Irq)`), that a started byte leaves
the shift register (`WF(TxSent)`), and that a call which has begun goes on. The first is the
hardware's; the second holds of a UART without flow control; the third because the handlers
are bounded and nothing else stops the thread. `PutTimeout` carries no fairness, and neither
does any `...Call`: nobody has to call. `PollingSpec` adds that the client keeps calling
`get`, which is what the overflow protocol asks of it; `OverflowEnds` is checked under it.

`RtcFairSpec`, and `DevicesFairSpec` for the part `rtc`, assume that the tick interrupt comes
(the RTC counts on its own crystal) and that a call that has begun makes its next store; no
call has to be made. `ArmedAlarmRings` is checked under it.

## 4. What is proved

Every theorem is about the specification the runs check, for every value of the constants that
the modules' assumptions allow.

**FifoLemmas.** Under FifoOps' `SizeAssumption` (both positive) and `PosModAssumption` (the
counters' range is a proper multiple of the size; the program has a power of two and 2^32):
remainders, the distance of two wrapping counters, and what publish, advance and flush do to
the length (`LengthAfterPublish` needs `2 * Size <= PosMod`), that the slots of distinct
positions within one memory length differ (`SlotsDiffer`), and that a counter that wraps stays
on its slot (`SlotWraps`, which needs the multiple).

**FifoProofs**, the byte FIFO. The inductive invariant is `IInv == TypeOK /\ RoomForStores /\
ClaimStillTrue`. Neither property is inductive alone: the byte the consumer has fetched is
still the oldest one *because* the producer's store falls outside the unread slots, and the
producer has room because the consumer only ever gives back what it has counted. From it:
`FifoTypeCorrect`, `ProducerHasRoom`, `ConsumerClaimStands`, and `FifoImplementsQueue`: the
publish step is the abstract enqueue, the advance step the dequeue, the end of flush the
discard, and all others change no variable of the queue.

**FifoProofs**, the event queue. `QueueInv` says that the four positions lie in their order
around the ring (`RingOrdered`), that the main loop has at most one item, the oldest, and frees
it itself (`OneTaker`), that events are coming exactly while a context is adding and that the
first context on the stack, and no other, will reveal them (`OneCloser`), that every context
writes to a coming slot that is promised to its event (`Claims`), and that every other slot in
use holds what was promised (`SlotsAccounted`). It gives `NoEventStaysInvisible` and
`EventsStayIntact`, and, with lemmas on how `Window` grows and shrinks,
`AtFifoImplementsEventQueue`: a put by the outermost context is `Reveal`, any other put a
stutter.

**UarteLemmas.** What each operator of Uarte does to one side of a port: the type it returns,
which counters move and how the length changes. Then the same for `Undamaged` (every waiting
byte outside slot 0 is the one that was stored): taking bytes keeps it, a store at `write_pos`
hits no waiting slot, and publishing keeps it if the slot at `write_pos` is intact
(`EndIntact`).

**UartProofs.** `PortInv` adds to the type `NoByteStranded`, `StaysIdle`, and what the thread
remembers while an interrupt may come in between (`TxClaims`, `RxClaims`). `StaysIdle` makes the
rest inductive: in this module the thread is the only writer, so from put's look until its start
no transfer is under way, the interrupt takes nothing from the sending FIFO and the loaded
`read_pos` is not stale. (It is false of UART0 in Bridge, and no theorem claims it.) It gives
`UartTypeCorrect`, `NothingStranded` and `PortWithinCapacity`, for all calls and everything the
line does. `RecvInv` adds the two states of the receiver, `Asking` and `Stopped`, under
`CleanUse` (the client calls `get` and `put`, no line errors, at least two slots). The last
three are needed: flush, an error or reopening do break the receiving protocol (run `rx_error`
and the hazards at `nRF5x_UART.c:153` and `:293`), and with one slot `get` can leave the flag
set with no byte left to take. It gives `EveryRequestHasRoom` and `ReceiverStaysAlive`.
`DamageInv` adds to `PortInv` that both FIFOs are `Undamaged` and that between put's store and
its publish the slot at `write_pos` is intact. The step that makes this more than bookkeeping is
the DMA's: the peripheral writes to slot 0 whatever waits there, and the properties claim no
more than that it writes nowhere else. The handler's and the thread's own stores go to the slot
at `write_pos`, which by `PortWithinCapacity`'s bound is not a waiting one. It gives
`ReceivedBytesSurvive` and `BytesToSendSurvive` without `CleanUse`.

**BridgeProofs.** The theorems are about the composition; nothing is assumed of the two ports
but their modules' definitions, which the first lemmas restate for the instances `Port0` and
`Port1`; `BoundsAssumption` says only that the numbers of bytes are numbers. `BridgeInv` has for
each receiver that it works, or its interrupt is pending, and there is room, or that it is
stopped with its FIFO full (`Receiving`); for UART1, to which only interrupts write, that what
waits has a transfer (`Sending`) and fits; for UART0, which the loop and an interrupt write to,
`NoByteStranded` alone. The latter needs no bound on the length: whichever of the two writers'
increments is lost, a counter that differs from the other one still finds a transfer, or the
thread about to look. `Quiet` and `Faithful` are the forwarding: with nothing gathered before
its callback, a port's receiving FIFO is empty between interrupts, so the byte the DMA has put
into slot 0 is in no waiting byte's way and the one that is taken; and every byte that waits in
the sending FIFO is the one that came for its slot (`Carried`), but for one in slot 0 that was
stored behind another, over which the next byte taken out is copied. `PutsSpent` says that the
main loop has not begun to write while UART0 is watched. `TakenByteLostOnlyToRival` is inductive
as it stands, because of the interrupts only UART1's starts UART0 when it is idle. It gives
`BridgeTypeCorrect`, `BridgeForwards`, `ByteLostOnlyToRival`, `BridgeKeepsReceiving`,
`BridgeStrandsNothing`, `Uart1WithinCapacity`, and the action property `BacklogStaysFrozen`.
`WithinCapacity0` is false (run `bridge_overfull`).

**UsbProofs**, suspend. The two properties of the suspend machine are about the order of events
in the queue. `LetGo` says that after executing a part of the queue the device is without its
clock; `ResumesFollowSuspends` says this is so before every RESUME that is queued and before
one the bus may still send. Therefore a RESUME always asks for the clock anew, and its answer
is ahead: `ResumingGetsItsClock`. With `AsleepMeansNotActive` it gives
`SleepsOnlyWithTheBus`. The invariant needs `QueueBound`, that only the main loop's own
requests pass the bound.

**UsbProofs**, the life of the device. `CalmLife` says that a device whose cable is moved only
when it is at rest is always in one of six phases: `StartingUp`, `Resting`, `PluggedIn` (the
interrupt or the main loop has still to see it), `Connecting` (up to the start in the queue),
`Connected`, `Parting` (three stages, up to the stop in the queue). Each phase says where the
main loop may be and which requests the queue may hold; one start or one stop, never both,
is what `nRF5x_USB_process` relies on. `LifeInv` adds it to the invariant of the suspend
machine, with `ClockInUse`, that only an awake device holds the clock. Every assertion the
library makes is made in a phase in which it holds (`AssertionsHoldInCalm`); with everything
worked off only `Resting` and `Connected` remain (`DeviceFollowsCable`). With a cable moved
in haste a start and a stop are in the queue together, the phases overlap, and the assertions
do fail; they also fail if the cable is in at start-up (run `usb_assert`).

**UsbProofs**, the port. `CdcInv` has one conjunct per actor: `InSound` and `OutSound` (what a
transfer that is not with the DMA still has to feed or room for), `HostWaits` (at most one of
the host's events is queued, it fits the bus, and a link that is not active is one whose suspend
was noted), `OneSend` (no transfer begins while one is on its way or its end unannounced),
`OneRead` (a reception is under way, done and queued, noted in the flag, or about to be
restarted, and only one of these), `ClosedIsWorkedOff`. The properties follow: `PortListens`
because the read is always in one of those places until a reset or a suspend aborts it,
`BusyFlagMeansSending` because a write on a link in order meets an idle IN endpoint and is never
refused, and `EchoBeginsIntact` because the IN endpoint is served before the OUT endpoint and is
ready when the echo is asked for.

**DeviceProofs**, clock and alarm. `GuardedPointers` is the order of the two stores in each
call that sets a pointer and a flag; `ArmedHasNotRung` ties an activated alarm to its setting.
They give `NullOnlyMidCall` and `AlarmRingsOnce`. `RtcTypeCorrect` includes that the carries,
also of a time half set, stay within the day. `SetTimeIsKept` is about what a torn
`setTimeValue` loses. In the middle of the call the clock shows neither the old nor the new
time, so the invariant `PendingIsDue` speaks of `Pending`, the time there will be once the
fields still to be stored are stored: it is the one that is due, or late by one carry. A tick
that ends a minute loses the minute's carry when the minute is still to be stored, and the
hour's when only the hour is; `StoresInOrder` says that nothing else is left to store, and the
assumption in `Tick` that a call lasts less than a minute, that it happens once.

**DeviceProofs**, the millisecond clock, under `ClockAssumption` (a reload of at least one, a
count of at least two values, calls shorter than the span of the count; the program has 63999,
2^32 and so 49 days). `ClockTold` says that the count, the request and the handler that owe it
one each (`Owed`) and the counter's place in its period together *are* the time less the ticks
lost, modulo the span of the count. For `micros` the question is which time the older of two
equal rounds of readings tells (`OldRound`): one the clock has shown since the call began
(`Shown`), or one the counter has still to come down to (`Later`), or one that a request has
`Overtaken`; the last two make the next reading differ, so the loop goes round. `Caller` is what
the main loop, which sees no request pending, and an interrupt, for which the count stands
still, may rely on. With `ValIsShown` it gives `MicrosTellsTheTime`, with the exception of a
call that preempts the handler, whose reading is a period old (run `micros_irq`). A count of one
value would make every period look alike and is excluded. `DelayAged` compares the age of the
call with what it has counted, is owed and has of the current period, and gives `DelayWaits`
without looking at how often the count has wrapped.

**DeviceProofs**, SPI. `OneAtATime` (the peripheral never has a transfer and an unserved END at
once) and `ClosedIsFree` make `BusyFlagIsTrue` inductive.

**DeviceProofs**, searches. `SearchInv` says that between two bytes the index of a target is a
match (`Ending`: that many bytes of it are the last ones read), for findMulti the `Longest` one
shorter than the target, and that the target has not been seen. `MultiKeepsLongest` is the
inner loop of `Stream::findMulti`: of the indexes it walks through, those it accepts are
exactly the shorter matches the current byte continues (`EndingWithin`), so the first one from
above is the longest. It needs that a bounded set of numbers has a greatest one
(`GreatestBelow`, from the library's well-foundedness of the naturals). findUntil falls back
only to nothing, which is the longest match exactly if no other can begin within the target:
`UntilKeepsLongest` for targets that are `StartsOnce`. The induction is over the steps of the
search, so no induction over strings is needed. They give `MultiFindsFirst` and
`FindMissesOnlyThose` for strings of any length.

**MC_DevicesProofs.** `DevicesRunTheirParts`: the specification of the run `devices` implies
every part's own, so what the other modules prove holds of that run; from it and the parts'
type theorems, `DevicesTypeCorrect`.

Every safety invariant that a passing run checks, the action property, and both refinements are
proved. Only model-checked are the three liveness properties (`OverflowEnds`,
`QueuedByteLeaves`, `ArmedAlarmRings`), since liveness under fairness and ENABLED are beyond
this prover, and the seven violations, which are counterexamples.

## 5. Not modelled, and what is left

PROJECT.json's "components" gives the reason for each part left out. Of the parts that are
modelled, these operations are not:

* UART: an `init` of a port that is already open; ports without an RX pin.
* USB: remote wake-up and the two WAKINGUP states only it reaches (`app_usbd_wakeup_req` has no
  caller); the control endpoint; isochronous endpoints; SOF.
* CDC: the contents of packets; the size of an echo, which `nRF5x_USB_CDC.c:79` keeps in eight
  bits; `print`, `attachEvent`.
* HID: the report accumulator. `hid_generic_mouse_action` has no caller, so no report is ever
  built from anything.
* RTC: `getTime` assigns to its own parameter and has no effect; `deinit` is empty.
* SPI: pins, modes, slave select, transfer flags, `nrf_drv_spi_abort`.
* Streams: the functions that copy until a terminator. `parseInt` and `parseFloat` wait for
  `peek`, which is -1 in both stream classes, so they return 0 whatever arrives.
* TWI and ADC: the TWI library blocks and its transfers are stubs; the flag every ADC
  operation tests is never set.
* Formatting (`itoa.c`, `Print.cpp`, `WString.cpp`) is not used by main.cpp.

The bulk of the source tree, Nordic's SDK headers, the CMSIS libraries and the build output, is
third-party code without logic of this program.

What would extend the project most: the reopening hazards of `rx_ovf` (`nRF5x_UART.c:153`,
`:293`), once it is decided what reception should be after an `init`; the control endpoint
under the requests of Cdc; the session and the port composed, so that the reset Cdc chooses
freely is the one UsbSession's cable causes.

## 6. Running

```
tlc -workers 2 -config devices.cfg MC_Devices      # likewise the other rows of PROJECT.json
tlapm FifoLemmas.tla                               # likewise UarteLemmas and the ...Proofs
```
