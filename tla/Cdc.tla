-------------------------------- MODULE Cdc --------------------------------
(***************************************************************************)
(* The CDC serial port and its echo: the requests that open and close it   *)
(* and the class (app_usbd_cdc_acm.c), the port with its one buffer, flag   *)
(* and tx_flag (libraries/nRF5x_USB_CDC.c, main.cpp), and under them the    *)
(* two data endpoints of nrf_drv_usbd.c, which share one DMA.  The USBD     *)
(* interrupt comes between any two steps of the main loop.  Data is left    *)
(* out but for which packet of the buffer is read or overwritten when.      *)
(***************************************************************************)
EXTENDS Integers, Sequences

CONSTANTS MaxPackets, \* packets the port's buffer has room for
          PortEvents  \* bound: the bus waits while so many events are queued

ASSUME CdcAssumption == MaxPackets \in Nat \ {0} /\ PortEvents \in Nat

VARIABLES epin,    \* the IN endpoint: waiting and ready (its bits), aborted (its
                   \* status), left (packets to be fed; 0 is a null feeder),
                   \* fed, full (a packet awaits the host)
          epout,   \* the OUT endpoint: waiting, ready, aborted, consuming (the
                   \* consumer is not null), got (packets in the buffer), last
          dma,     \* whose transfer m_dma_pending is about; irq: the interrupt
                   \* has been raised by usbd_int_rise
          link,    \* enabled (both endpoints), state (m_sustate), clock, up (not
                   \* m_bus_suspend), asked: the host waits for an answer
          port,    \* dtr, opened, tx_flag, flag, size (packets), pc
          portq,   \* the events of the queue that concern the port
          history  \* what came since the last read, or write, that found the link
                   \* in order: a reset or suspend (unread), or one of these or a
                   \* close (unsent); torn: the unsent packet last overwritten

cdcVars == <<epin, epout, dma, link, port, portq, history>>

PortEvent == {"DTR_ON", "DTR_OFF", "TX_DONE", "RX_DONE", "RESET", "CONFIG",
              "SUSPEND", "SUSPEND_REQ", "RESUME", "HFCLK_READY"}
LinkState == {"ACTIVE", "SUSPENDING", "SUSPEND", "RESUMING"}

CdcTypeOK ==
  /\ epin \in [waiting : BOOLEAN, ready : BOOLEAN, aborted : BOOLEAN, full : BOOLEAN,
               left : 0 .. MaxPackets, fed : 0 .. MaxPackets]
  /\ epout \in [waiting : BOOLEAN, ready : BOOLEAN, aborted : BOOLEAN, consuming : BOOLEAN,
                got : 0 .. MaxPackets, last : BOOLEAN]
  /\ dma \in [of : {"none", "in", "out"}, irq : BOOLEAN]
  /\ link \in [enabled : BOOLEAN, state : LinkState, clock : {"off", "asked", "on"},
               up : BOOLEAN, asked : BOOLEAN]
  /\ port \in [dtr : BOOLEAN, opened : BOOLEAN, tx_flag : BOOLEAN, flag : BOOLEAN,
               size : 0 .. MaxPackets, pc : {"events", "handle", "read"}]
  /\ portq \in Seq(PortEvent)
  /\ history \in [unread : BOOLEAN, unsent : BOOLEAN, torn : 0 .. MaxPackets]

\* The device as it is started, before the host has configured it.
CdcInit ==
  /\ epin = [waiting |-> FALSE, ready |-> TRUE, aborted |-> FALSE, full |-> FALSE,
             left |-> 0, fed |-> 0]
  /\ epout = [waiting |-> FALSE, ready |-> FALSE, aborted |-> FALSE, consuming |-> FALSE,
              got |-> 0, last |-> FALSE]
  /\ dma = [of |-> "none", irq |-> FALSE]
  /\ link = [enabled |-> FALSE, state |-> "ACTIVE", clock |-> "asked", up |-> TRUE, asked |-> FALSE]
  /\ port = [dtr |-> FALSE, opened |-> FALSE, tx_flag |-> FALSE, flag |-> FALSE, size |-> 0,
             pc |-> "events"]
  /\ portq = <<>>
  /\ history = [unread |-> FALSE, unsent |-> FALSE, torn |-> 0]

InPortq(e) == \E k \in 1 .. Len(portq) : portq[k] = e

-----------------------------------------------------------------------------
(* The driver's interrupt.  Whatever it was about, it ends with             *)
(* usbd_dmareq_process.                                                     *)

\* An OUT packet goes to the slot of the buffer after those received; if what
\* is there waits for its echo or to be fed to the IN endpoint, it is lost.
Overwrites(in, out) ==
  \/ port.flag /\ out.got + 1 <= port.size
  \/ out.got + 1 \in in.fed + 1 .. in.fed + in.left

\* Of the endpoints that wait and are ready the IN endpoint comes first.
DmaRequest(in, out, of) ==
  LET feeds == of = "none" /\ in.waiting /\ in.ready
      consumes == of = "none" /\ ~feeds /\ out.waiting /\ out.ready
  IN /\ epin' = IF feeds THEN [in EXCEPT !.ready = FALSE, !.left = @ - 1, !.fed = @ + 1] ELSE in
     /\ epout' = IF consumes
                   THEN [out EXCEPT !.ready = FALSE, !.got = @ + 1,
                           !.consuming = ~out.last /\ out.got + 1 < MaxPackets]
                   ELSE out
     /\ dma' = [of |-> IF feeds THEN "in" ELSE IF consumes THEN "out" ELSE of, irq |-> FALSE]
     /\ history' = IF consumes /\ Overwrites(in, out)
                     THEN [history EXCEPT !.torn = out.got + 1] ELSE history

\* The interrupt raised by a transfer call.
RaisedIrq ==
  /\ dma.irq
  /\ DmaRequest(epin, epout, dma.of)
  /\ UNCHANGED <<link, port, portq>>

\* nrf_usbd_epin_dma_handler
EndIn ==
  /\ dma.of = "in"
  /\ DmaRequest([epin EXCEPT !.full = TRUE,
                             !.waiting = @ /\ ~epin.aborted /\ epin.left > 0], epout, "none")
  /\ UNCHANGED <<link, port, portq>>

\* nrf_usbd_epout_dma_handler.  The end of an aborted transfer clears the wait,
\* and an end that is not the message's last leaves it.
EndOut ==
  LET done == ~epout.aborted /\ ~epout.consuming IN
  /\ dma.of = "out"
  /\ DmaRequest(epin, [epout EXCEPT !.waiting = @ /\ ~epout.aborted /\ ~done], "none")
  /\ portq' = IF done THEN Append(portq, "RX_DONE") ELSE portq
  /\ UNCHANGED <<link, port>>

\* The driver's data and setup interrupts are enabled while the device is
\* active; what the host has done before that is then found.
Traffic == link.enabled /\ link.up /\ link.state = "ACTIVE" /\ Len(portq) < PortEvents

\* usbd_ep_data_handler for the IN endpoint: the host took the packet.
HostTakes ==
  /\ Traffic /\ epin.full
  /\ DmaRequest([epin EXCEPT !.full = FALSE, !.ready = TRUE], epout, dma.of)
  /\ portq' = IF epin.waiting THEN portq ELSE Append(portq, "TX_DONE")
  /\ UNCHANGED <<link, port>>

\* ... and for the OUT endpoint: a packet came, the last of its message or not.
HostSends(last) ==
  /\ Traffic /\ ~epout.ready /\ dma.of # "out"
  /\ DmaRequest(epin, [epout EXCEPT !.ready = TRUE, !.last = last], dma.of)
  /\ UNCHANGED <<link, port, portq>>

-----------------------------------------------------------------------------
(* The host's control of the bus and of the port.                           *)

\* The main loop turns at least once between two requests of the host, which
\* comes much later than the end of a DMA transfer.
HostAsks ==
  \E e \in {"DTR_ON", "DTR_OFF", "CONFIG"} :
    /\ e = "CONFIG" <=> ~link.enabled
    /\ link.up /\ link.state = "ACTIVE" /\ ~link.asked
    /\ dma.of = "none" /\ Len(portq) < PortEvents
    /\ portq' = Append(portq, e)
    /\ link' = [link EXCEPT !.asked = TRUE]
    /\ UNCHANGED <<epin, epout, dma, port, history>>

\* A bus reset empties the endpoints; the interrupt queues the event.
BusEvents ==
  \E e \in {"RESET", "SUSPEND", "RESUME"} :
    /\ e = "RESET" \/ (link.up <=> e = "SUSPEND")
    /\ ~link.asked /\ dma.of = "none" /\ Len(portq) < PortEvents
    /\ portq' = Append(portq, e)
    /\ link' = [link EXCEPT !.up = e # "SUSPEND", !.asked = TRUE]
    /\ epin' = IF e = "RESET" THEN [epin EXCEPT !.full = FALSE] ELSE epin
    /\ history' = [history EXCEPT !.unsent = @ \/ e = "RESET"]
    /\ UNCHANGED <<epout, dma, port>>

\* app_usbd_hfclk_ready
ClockReady ==
  /\ link.clock = "asked" /\ link.state \in {"ACTIVE", "RESUMING"} /\ Len(portq) < PortEvents
  /\ portq' = Append(portq, "HFCLK_READY")
  /\ link' = [link EXCEPT !.clock = "on"]
  /\ UNCHANGED <<epin, epout, dma, port, history>>

-----------------------------------------------------------------------------
(* The main loop.                                                           *)

AtPort(pc) == port.pc = pc /\ ~dma.irq

\* app_usbd_ep_transfer and nrf_drv_usbd_ep_transfer
LinkReady == link.enabled /\ link.state = "ACTIVE"
InAccepted == port.dtr /\ LinkReady /\ ~epin.waiting /\ epin.ready
OutAccepted == port.dtr /\ LinkReady /\ ~epout.waiting
InTransfer(size) == [epin EXCEPT !.waiting = TRUE, !.aborted = FALSE, !.left = size, !.fed = 0]
OutTransfer == [epout EXCEPT !.waiting = TRUE, !.aborted = FALSE, !.consuming = TRUE, !.got = 0]

\* usbd_ep_abort.  Its event for the IN endpoint is ignored by the class.
InAborted == IF epin.waiting \/ ~epin.ready
               THEN [epin EXCEPT !.waiting = FALSE, !.ready = TRUE, !.left = 0, !.aborted = TRUE]
               ELSE epin

\* Mutant: an aborted transfer keeps its wait.
OutAbortedWaits == [epout EXCEPT !.consuming = IF epout.waiting THEN FALSE ELSE @,
                                 !.ready = FALSE, !.aborted = TRUE]

OutAborted == [epout EXCEPT !.consuming = IF epout.waiting THEN FALSE ELSE @,
                            !.waiting = FALSE, !.ready = FALSE, !.aborted = TRUE]

\* sustate_set, with the clock it asks for or releases
LinkIn(state) ==
  [link EXCEPT !.state = state,
               !.clock = IF state \in {"ACTIVE", "RESUMING"} THEN IF @ = "off" THEN "asked" ELSE @
                                                             ELSE IF @ = "on" THEN "off" ELSE @]

\* SET_CONTROL_LINE_STATE: DTR becomes set, and the handler of PORT_OPEN reads.
PortOpens ==
  LET reads == LinkReady /\ ~epout.waiting IN
  /\ port' = [port EXCEPT !.dtr = TRUE, !.opened = TRUE]
  /\ epout' = IF reads THEN OutTransfer ELSE epout
  /\ dma' = [dma EXCEPT !.irq = reads]
  /\ history' = [history EXCEPT !.unread = @ /\ ~LinkReady]
  /\ UNCHANGED <<epin, link>>

\* Mutant: the port is not told, and goes on writing.
PortClosesUntold ==
  /\ port' = [port EXCEPT !.dtr = FALSE]
  /\ epin' = InAborted
  /\ epout' = OutAborted
  /\ history' = [history EXCEPT !.unsent = TRUE]
  /\ UNCHANGED <<dma, link>>

\* DTR becomes clear: PORT_CLOSE, and both endpoints are aborted.
PortCloses ==
  /\ port' = [port EXCEPT !.dtr = FALSE, !.opened = FALSE]
  /\ epin' = InAborted
  /\ epout' = OutAborted
  /\ history' = [history EXCEPT !.unsent = TRUE]
  /\ UNCHANGED <<dma, link>>

\* The interfaces are deselected, which aborts and disables their endpoints.
\* Neither the line state nor the port takes notice.
DeviceReset ==
  /\ link' = [LinkIn("ACTIVE") EXCEPT !.enabled = FALSE]
  /\ epin' = InAborted
  /\ epout' = OutAborted
  /\ history' = [history EXCEPT !.unread = TRUE, !.unsent = TRUE]
  /\ UNCHANGED <<dma, port>>

\* nrf_drv_usbd_suspend: usbd_ep_abort_all drops what waits and makes every IN
\* endpoint, and no OUT endpoint, ready; nobody is told of a dropped read.  The
\* state stays if the bus wakes in this moment.
DeviceSuspends ==
  /\ link' \in {LinkIn("SUSPEND"), link}
  /\ epin' = [IF epin.waiting THEN InAborted ELSE epin EXCEPT !.ready = TRUE]
  /\ epout' = IF epout.waiting \/ epout.ready THEN OutAborted ELSE epout
  /\ UNCHANGED <<dma, port, history>>

DeviceConfigured ==
  /\ link' = [link EXCEPT !.enabled = TRUE]
  /\ epout' = [epout EXCEPT !.ready = FALSE, !.waiting = FALSE]
  /\ UNCHANGED <<epin, dma, port, history>>

PortAfter(e) ==
  CASE e = "TX_DONE" -> [port EXCEPT !.tx_flag = FALSE]
    [] e = "RX_DONE" -> [port EXCEPT !.flag = TRUE, !.size = epout.got]
    [] OTHER -> port

LinkAfter(e) ==
  CASE e = "SUSPEND" -> LinkIn("SUSPENDING")
    [] e = "RESUME" -> LinkIn("RESUMING")
    [] e = "HFCLK_READY" /\ link.state = "RESUMING" -> LinkIn("ACTIVE")
    [] OTHER -> link

HistoryAfter(e) ==
  IF e = "SUSPEND" THEN [history EXCEPT !.unread = TRUE, !.unsent = TRUE] ELSE history

\* Mutant: the next read is begun at once, as it is without a callback.
PortFlagsReads(e) ==
  /\ port' = PortAfter(e)
  /\ link' = LinkAfter(e)
  /\ history' = HistoryAfter(e)
  /\ epout' = IF e = "RX_DONE" /\ OutAccepted THEN OutTransfer ELSE epout
  /\ dma' = [dma EXCEPT !.irq = e = "RX_DONE" /\ OutAccepted]
  /\ UNCHANGED epin

\* What else changes with an event is a flag.
PortFlags(e) ==
  /\ port' = PortAfter(e)
  /\ link' = LinkAfter(e)
  /\ history' = HistoryAfter(e)
  /\ UNCHANGED <<epin, epout, dma>>

\* app_usbd_event_execute and the handlers of the class and of the port
PortExecutes ==
  LET e == Head(portq)
      opens == e = "DTR_ON" /\ ~port.dtr
      closes == e = "DTR_OFF" /\ port.dtr
      suspends == e = "SUSPEND_REQ" /\ link.state = "SUSPENDING" /\ ~link.up IN
  /\ AtPort("events") /\ portq # <<>>
  \* nRF5x_USB_ev_handler answers a suspend with app_usbd_suspend_req
  /\ portq' = IF e = "SUSPEND" THEN Append(Tail(portq), "SUSPEND_REQ") ELSE Tail(portq)
  /\ \/ opens /\ PortOpens
     \/ closes /\ PortCloses
     \/ suspends /\ DeviceSuspends
     \/ e = "RESET" /\ DeviceReset
     \/ e = "CONFIG" /\ DeviceConfigured
     \/ ~opens /\ ~closes /\ ~suspends /\ e \notin {"RESET", "CONFIG"} /\ PortFlags(e)

QueueWorkedOff ==
  /\ AtPort("events") /\ portq = <<>>
  /\ port' = [port EXCEPT !.pc = "handle"]
  /\ UNCHANGED <<epin, epout, dma, link, portq, history>>

\* nRF5x_USB_CDC_write: only the main loop clears tx_flag, so the wait for it
\* ends by its time-out; the flag is set whether the transfer is accepted or not.
Write ==
  LET written == port.opened /\ ~port.tx_flag
      sent == written /\ InAccepted IN
  /\ port' = [port EXCEPT !.flag = FALSE, !.tx_flag = @ \/ written, !.pc = "read"]
  /\ epin' = IF sent THEN InTransfer(port.size) ELSE epin
  /\ dma' = [dma EXCEPT !.irq = sent]
  /\ history' = [history EXCEPT !.unsent = IF written THEN ~LinkReady ELSE @,
                                !.torn = IF sent THEN 0 ELSE @]

\* nRF5x_USB_CDC_handle, whose callback echoes the buffer,
Handle ==
  /\ AtPort("handle")
  /\ IF port.flag THEN Write
       ELSE port' = [port EXCEPT !.pc = "events"] /\ UNCHANGED <<epin, dma, history>>
  /\ link' = [link EXCEPT !.asked = @ /\ portq # <<>>]
  /\ UNCHANGED <<epout, portq>>

\* ... and then reads into it again.
HandleRead ==
  /\ AtPort("read")
  /\ port' = [port EXCEPT !.pc = "events"]
  /\ epout' = IF OutAccepted THEN OutTransfer ELSE epout
  /\ dma' = [dma EXCEPT !.irq = OutAccepted]
  /\ history' = [history EXCEPT !.unread = @ /\ ~LinkReady]
  /\ UNCHANGED <<epin, link, portq>>

CdcNext ==
  \/ RaisedIrq \/ EndIn \/ EndOut \/ HostTakes \/ (\E last \in BOOLEAN : HostSends(last))
  \/ HostAsks \/ BusEvents \/ ClockReady \/ PortExecutes \/ QueueWorkedOff \/ Handle \/ HandleRead

CdcSpec == CdcInit /\ [][CdcNext]_cdcVars

-----------------------------------------------------------------------------
(* Properties. *)

\* An open port has a read under way, or one that is done and will be
\* answered by the next, unless the bus was reset or suspended since the last
\* read that found the link in order: both abort the read, and nothing but the
\* host's closing and opening the port begins another (nRF5x_USB_CDC.c:49).
OpenPortListens ==
  port.opened /\ ~history.unread =>
    \/ epout.waiting /\ (epout.consuming \/ dma.of = "out")
    \/ InPortq("RX_DONE") \/ port.flag \/ port.pc = "read"

\* tx_flag makes every later write give up until a transfer is done
\* (nRF5x_USB_CDC.c:137), so it must not be set without one.  A write that finds
\* the link in order is not refused, and only a close, a reset or a suspend
\* after it can take its transfer away.
BusyMeansSending ==
  port.tx_flag /\ ~history.unsent =>
    epin.waiting \/ epin.full \/ dma.of = "in" \/ InPortq("TX_DONE")

\* The echo is sent from the buffer that is being received into; its first
\* packet is fed before that, so what is overwritten is never the first.
EchoStartsIntact == history.torn # 1
=============================================================================
