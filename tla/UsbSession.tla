---------------------------- MODULE UsbSession ----------------------------
(***************************************************************************)
(* The life of the USB device: the cable's interrupt and the flag the main *)
(* loop polls (libraries/nRF5x_USB.c), the requests and bus events that go *)
(* through the event queue, and the suspend state machine (app_usbd.c).    *)
(* Interrupts come in between any two steps of the main loop; a failed     *)
(* ASSERT is noted and the code goes on, as it does in the build.          *)
(***************************************************************************)
EXTENDS Integers, Sequences

CONSTANT MaxQueue \* bound: the bus and the clock wait while so many events queue

ASSUME SessionAssumption == MaxQueue \in Nat

VARIABLES cable,   \* vbus, ready: POWER's status bits; pend: its events; irqOn:
                   \* its interrupts are enabled; hasty: history, the cable was
                   \* moved before the firmware had settled, or at start-up
          bus,     \* the bus as the host drives it
          dev,     \* enabled (m_drv_state), irqOn (USBD's interrupt and pull-up),
                   \* asleep (m_bus_suspend)
          queue,   \* m_event_queue; AtFifo shows that it is one
          sustate, \* m_sustate
          hfclk,   \* on; asked: the handler waits for it to start
          conn,    \* nRF5x_USB_isConnected, and last: nRF5x_last_conn_status
          main,    \* where the main loop is
          failed   \* history: whether an ASSERT has failed, and under which cable

sessionVars == <<cable, bus, dev, queue, sustate, hfclk, conn, main, failed>>

QueuedEvent == {"START_REQ", "STOP_REQ", "SUSPEND_REQ", "HFCLK_READY",
                "RESET", "SUSPEND", "RESUME"}
Sustate == {"STOPPED", "STARTED", "ACTIVE", "SUSPENDING", "SUSPEND", "RESUMING"}

SessionTypeOK ==
  /\ cable \in [vbus : BOOLEAN, ready : BOOLEAN, pend : SUBSET {"DETECTED", "REMOVED", "READY"},
                irqOn : BOOLEAN, hasty : BOOLEAN]
  /\ bus \in {"off", "powered", "active", "suspended"}
  /\ dev \in [enabled : BOOLEAN, irqOn : BOOLEAN, asleep : BOOLEAN]
  /\ queue \in Seq(QueuedEvent) /\ Len(queue) <= MaxQueue + 2
  /\ sustate \in Sustate
  /\ hfclk \in [on : BOOLEAN, asked : BOOLEAN]
  /\ conn \in [now : BOOLEAN, last : BOOLEAN]
  /\ main \in {"generic_init", "cdc_init", "stop", "stop_req", "stop_flag", "append",
               "events", "compare", "copy", "choose", "wait_ready"}
  /\ failed \in {"never", "calm", "hasty"}

\* Reset, with or without a cable.
SessionInit ==
  /\ \E plugged \in BOOLEAN :
       cable = [vbus |-> plugged, ready |-> plugged, irqOn |-> FALSE, hasty |-> plugged,
                pend |-> IF plugged THEN {"DETECTED", "READY"} ELSE {}]
  /\ bus = "off"
  /\ dev = [enabled |-> FALSE, irqOn |-> FALSE, asleep |-> FALSE]
  /\ queue = <<>> /\ sustate = "STOPPED"
  /\ hfclk = [on |-> FALSE, asked |-> FALSE]
  /\ conn = [now |-> FALSE, last |-> FALSE]
  /\ main = "generic_init" /\ failed = "never"

Queued(e) == \E k \in 1 .. Len(queue) : queue[k] = e

\* Nothing is left to do for the firmware until something happens.
Settled == /\ main = "events" /\ queue = <<>> /\ cable.pend = {}
           /\ conn.now = conn.last

\* ASSERT(ok)
Assert(ok) == failed' = IF ok THEN failed ELSE IF cable.hasty THEN "hasty" ELSE "calm"

-----------------------------------------------------------------------------
(* The cable, its interrupt and the host. *)

Started == dev.enabled /\ dev.irqOn

\* The firmware is at rest without a cable and has done what that takes.
AtRestUnplugged == Settled /\ ~conn.now /\ ~dev.irqOn /\ sustate = "STOPPED"

Plug ==
  /\ ~cable.vbus
  /\ cable' = [cable EXCEPT !.vbus = TRUE, !.pend = @ \cup {"DETECTED"}, !.hasty = ~AtRestUnplugged]
  /\ bus' = IF dev.enabled /\ dev.irqOn THEN "powered" ELSE "off"
  /\ UNCHANGED <<dev, queue, sustate, hfclk, conn, main, failed>>

\* The regulator's output is ready.
PowerReady ==
  /\ cable.vbus /\ ~cable.ready
  /\ cable' = [cable EXCEPT !.ready = TRUE, !.pend = @ \cup {"READY"}]
  /\ UNCHANGED <<bus, dev, queue, sustate, hfclk, conn, main, failed>>

Unplug ==
  /\ cable.vbus
  /\ cable' = [cable EXCEPT !.vbus = FALSE, !.ready = FALSE, !.pend = @ \cup {"REMOVED"},
                            !.hasty = @ \/ ~Settled]
  /\ bus' = "off"
  /\ UNCHANGED <<dev, queue, sustate, hfclk, conn, main, failed>>

\* Mutant: of the events that are pending only the last is acted upon.
PowerIrqLastOnly ==
  /\ cable.irqOn /\ cable.pend # {}
  /\ dev' = IF cable.pend = {"DETECTED"} THEN [dev EXCEPT !.enabled = TRUE] ELSE dev
  /\ conn' = [conn EXCEPT !.now = IF "READY" \in cable.pend THEN TRUE
                                  ELSE IF "REMOVED" \in cable.pend THEN FALSE ELSE @]
  /\ cable' = [cable EXCEPT !.pend = {}]
  /\ UNCHANGED <<bus, queue, sustate, hfclk, main, failed>>

\* POWER_CLOCK_IRQHandler looks at the events in this order and calls
\* nRF5x_USB_power_event_handler for each.
PowerIrq ==
  /\ cable.irqOn /\ cable.pend # {}
  /\ dev' = IF "DETECTED" \in cable.pend THEN [dev EXCEPT !.enabled = TRUE] ELSE dev
  /\ conn' = [conn EXCEPT !.now = IF "READY" \in cable.pend THEN TRUE
                                  ELSE IF "REMOVED" \in cable.pend THEN FALSE ELSE @]
  /\ cable' = [cable EXCEPT !.pend = {}]
  /\ UNCHANGED <<bus, queue, sustate, hfclk, main, failed>>

\* The host acts on the bus; the driver's interrupt queues the event.
BusEvent(from, to, event) ==
  /\ bus \in from /\ dev.enabled /\ dev.irqOn
  /\ Len(queue) < MaxQueue
  /\ bus' = to
  /\ dev' = [dev EXCEPT !.asleep = event = "SUSPEND"]
  /\ queue' = Append(queue, event)
  /\ UNCHANGED <<cable, sustate, hfclk, conn, main, failed>>

BusReset == BusEvent({"powered", "active", "suspended"}, "active", "RESET")
BusSuspend == BusEvent({"powered", "active"}, "suspended", "SUSPEND")
BusResume == BusEvent({"suspended"}, "active", "RESUME")

\* The clock's interrupt: app_usbd_hfclk_ready.
ClockStarted ==
  /\ hfclk.asked /\ sustate \in {"ACTIVE", "RESUMING"}
  /\ Len(queue) < MaxQueue
  /\ hfclk' = [on |-> TRUE, asked |-> FALSE]
  /\ queue' = Append(queue, "HFCLK_READY")
  /\ UNCHANGED <<cable, bus, dev, sustate, conn, main, failed>>

-----------------------------------------------------------------------------
(* Start-up: nRF5x_USB_GENERIC_init, then nRF5x_USB_CDC_init. *)

Step(from, to) == main = from /\ main' = to

GenericInitCall ==
  /\ Step("generic_init", "cdc_init")
  /\ Assert(~dev.enabled)
  /\ cable' = [cable EXCEPT !.irqOn = TRUE]
  /\ UNCHANGED <<bus, dev, queue, sustate, hfclk, conn>>

CdcInitCall ==
  /\ Step("cdc_init", IF conn.now THEN "stop" ELSE "append")
  /\ UNCHANGED <<cable, bus, dev, queue, sustate, hfclk, conn, failed>>

\* nrf_drv_usbd_disable
Disabled == [dev EXCEPT !.enabled = FALSE, !.irqOn = FALSE]

\* nRF5x_USB_stop
StopDisable ==
  /\ Step("stop", "stop_req")
  /\ Assert(dev.enabled /\ ~dev.irqOn)
  /\ dev' = Disabled
  /\ bus' = "off"
  /\ UNCHANGED <<cable, queue, sustate, hfclk, conn>>

StopRequest ==
  /\ Step("stop_req", "stop_flag")
  /\ queue' = Append(queue, "STOP_REQ")
  /\ UNCHANGED <<cable, bus, dev, sustate, hfclk, conn, failed>>

StopFlag ==
  /\ Step("stop_flag", "append")
  /\ conn' = [conn EXCEPT !.now = FALSE]
  /\ UNCHANGED <<cable, bus, dev, queue, sustate, hfclk, failed>>

\* app_usbd_class_append and nRF5x_USB_start, whose interrupts are on already.
AppendClass ==
  /\ Step("append", "events")
  /\ Assert(~dev.enabled)
  /\ UNCHANGED <<cable, bus, dev, queue, sustate, hfclk, conn>>

-----------------------------------------------------------------------------
(* nRF5x_USB_connection_handle: three reads of the flag the interrupt writes.*)

ConnCompare ==
  /\ Step("compare", IF conn.last # conn.now THEN "copy" ELSE "events")
  /\ UNCHANGED <<cable, bus, dev, queue, sustate, hfclk, conn, failed>>

ConnCopy ==
  /\ Step("copy", "choose")
  /\ conn' = [conn EXCEPT !.last = conn.now]
  /\ UNCHANGED <<cable, bus, dev, queue, sustate, hfclk, failed>>

\* app_usbd_start begins, or app_usbd_stop.
ConnChoose ==
  /\ IF conn.now
       THEN Step("choose", "wait_ready") /\ Assert(dev.enabled) /\ UNCHANGED queue
       ELSE Step("choose", "events") /\ queue' = Append(queue, "STOP_REQ") /\ UNCHANGED failed
  /\ UNCHANGED <<cable, bus, dev, sustate, hfclk, conn>>

\* The loop of app_usbd_start: it ends when the power is ready or gone.
StartRequest ==
  /\ Step("wait_ready", "events")
  /\ \/ cable.ready /\ queue' = Append(queue, "START_REQ")
     \/ ~cable.ready /\ ~cable.vbus /\ UNCHANGED queue
  /\ UNCHANGED <<cable, bus, dev, sustate, hfclk, conn, failed>>

-----------------------------------------------------------------------------
(* app_usbd_event_queue_process and app_usbd_event_execute. *)

WithClock == {"ACTIVE", "RESUMING"}

\* sustate_set asks for the clock or releases it when the new state and the
\* old one differ in that; a running clock answers at once.
Requested(s) == s \in WithClock /\ sustate \notin WithClock

\* Mutant: only a suspend gives the clock back.
ReleasedBySuspend(s) == s = "SUSPENDING" /\ sustate \in WithClock

Released(s) == s \notin WithClock /\ sustate \in WithClock

\* Mutant: the clock is not asked for.
SustateSetQuiet(s, rest) ==
  /\ sustate' = s
  /\ hfclk' = IF Released(s) THEN [hfclk EXCEPT !.on = FALSE] ELSE hfclk
  /\ queue' = rest

SustateSet(s, rest) ==
  /\ sustate' = s
  /\ hfclk' = IF Requested(s) THEN [hfclk EXCEPT !.asked = @ \/ ~hfclk.on]
              ELSE IF Released(s) THEN [hfclk EXCEPT !.on = FALSE] ELSE hfclk
  /\ queue' = IF Requested(s) /\ hfclk.on THEN Append(rest, "HFCLK_READY") ELSE rest

Keep(rest) == queue' = rest /\ UNCHANGED <<sustate, hfclk>>

ExecStart(rest) ==
  /\ Assert(dev.enabled)
  /\ dev' = [dev EXCEPT !.irqOn = TRUE, !.asleep = FALSE]
  /\ bus' = IF dev.enabled /\ cable.vbus THEN "powered" ELSE "off"
  /\ SustateSet("STARTED", rest)

\* The stop, and app_usbd_disable on the STOPPED event it sends.
ExecStop(rest) ==
  /\ Assert(dev.enabled)
  /\ dev' = Disabled
  /\ bus' = "off"
  /\ SustateSet("STOPPED", rest)

\* Mutant: the request is not checked against the bus.
ExecSuspendReqBlind(rest) == SustateSet("SUSPEND", rest)

\* nrf_drv_usbd_suspend looks at the bus again, in a critical region.
ExecSuspendReq(rest) ==
  IF sustate = "SUSPENDING" /\ dev.asleep THEN SustateSet("SUSPEND", rest) ELSE Keep(rest)

ExecEvent(e, rest) ==
  \/ e = "START_REQ" /\ ExecStart(rest)
  \/ e = "STOP_REQ" /\ ExecStop(rest)
  \/ /\ \/ e = "HFCLK_READY" /\ IF sustate = "RESUMING" THEN SustateSet("ACTIVE", rest)
                                                        ELSE Keep(rest)
        \/ e = "SUSPEND_REQ" /\ ExecSuspendReq(rest)
        \/ e = "RESET" /\ SustateSet("ACTIVE", rest)
        \/ e = "RESUME" /\ SustateSet("RESUMING", rest)
        \* nRF5x_USB_ev_handler answers with app_usbd_suspend_req
        \/ e = "SUSPEND" /\ SustateSet("SUSPENDING", Append(rest, "SUSPEND_REQ"))
     /\ UNCHANGED <<bus, dev, failed>>

Execute ==
  /\ main = "events" /\ queue # <<>>
  /\ ExecEvent(Head(queue), Tail(queue))
  /\ UNCHANGED <<cable, conn, main>>

\* The queue is found empty.
QueueEmpty ==
  /\ queue = <<>> /\ Step("events", "compare")
  /\ UNCHANGED <<cable, bus, dev, queue, sustate, hfclk, conn, failed>>

MainStep ==
  \/ GenericInitCall \/ CdcInitCall \/ StopDisable \/ StopRequest \/ StopFlag \/ AppendClass
  \/ ConnCompare \/ ConnCopy \/ ConnChoose \/ StartRequest \/ Execute \/ QueueEmpty

SessionNext ==
  \/ Plug \/ PowerReady \/ Unplug \/ PowerIrq \/ ClockStarted
  \/ BusReset \/ BusSuspend \/ BusResume \/ MainStep

SessionSpec == SessionInit /\ [][SessionNext]_sessionVars

-----------------------------------------------------------------------------
(* Properties. *)

\* Every ASSERT on the way of the device's life holds, whenever the cable
\* is moved.
AssertionsHold == failed = "never"

\* They hold as long as the cable is moved only when the firmware is at rest.
CalmAssertionsHold == failed # "calm"

\* Whatever the cable and the bus have done, when everything has been worked
\* off the device is started exactly if the cable is in; a stopped device
\* holds no clock.  For a cable moved in haste nothing is claimed until it
\* has been plugged in again at rest.
SettledFollowsCable ==
  Settled /\ cable.ready = cable.vbus /\ ~cable.hasty =>
    /\ Started = cable.vbus
    /\ ~cable.vbus => sustate = "STOPPED" /\ ~hfclk.on

\* The device sleeps only while the bus does, or the event that wakes it is
\* in the queue, however suspend, resume and reset overtake the requests.
AsleepOnlyOnSleepingBus ==
  sustate = "SUSPEND" /\ bus = "active" => Queued("RESUME") \/ Queued("RESET")

\* A device that resumes has the clock's answer ahead of it.
NotStuckResuming == sustate = "RESUMING" => hfclk.asked \/ Queued("HFCLK_READY")
=============================================================================
