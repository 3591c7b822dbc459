------------------------------ MODULE UsbProofs ------------------------------
(***************************************************************************)
(* Proofs about the USB session and the serial port, for any length of     *)
(* their event queues and any size of the port's buffer.                   *)
(***************************************************************************)
EXTENDS UsbSession, Cdc, SequenceTheorems, TLAPS

-----------------------------------------------------------------------------
(* The suspend state machine of the session: a device that resumes gets its *)
(* clock, and none sleeps on a bus that is awake.  The argument is about    *)
(* the order of the bus events in the queue: a RESUME always follows a      *)
(* SUSPEND that nothing has undone.  Then the whole life of a device whose  *)
(* cable is moved only when it is at rest: its phases, and what they say of *)
(* the library's assertions and of the state it comes to rest in.           *)

Waking == {"RESET", "RESUME"}

\* When the first k - 1 events of q have been executed from state s, the
\* device has let go of the clock and nothing has made it ask for it again.
LetGo(q, s, k) ==
  \/ s \notin WithClock /\ \A i \in 1 .. k - 1 : q[i] \notin Waking
  \/ \E j \in 1 .. k - 1 : q[j] = "SUSPEND" /\ \A i \in j + 1 .. k - 1 : q[i] \notin Waking

Ordered(q, s) == \A k \in 1 .. Len(q) : q[k] = "RESUME" => LetGo(q, s, k)

HasEvent(q, e) == \E k \in 1 .. Len(q) : q[k] = e

-----------------------------------------------------------------------------
(* The inductive invariant. *)

\* Only the main loop's own requests go beyond the bound.
QueueBound == Len(queue) <= IF main \in {"events", "stop_flag", "append"} THEN MaxQueue + 1
                                                                         ELSE MaxQueue

\* A RESUME in the queue, and one the bus may send next, finds the device
\* without the clock.
ResumesFollowSuspends ==
  /\ Ordered(queue, sustate)
  /\ bus = "suspended" => LetGo(queue, sustate, Len(queue) + 1)

AsleepMeansNotActive == dev.asleep => bus # "active"

SessionInv == /\ SessionTypeOK /\ QueueBound /\ ResumesFollowSuspends
              /\ AsleepMeansNotActive /\ AsleepOnlyOnSleepingBus /\ NotStuckResuming

-----------------------------------------------------------------------------
(* Events in the queue. *)

\* What an event that is added changes for the positions before it, and for
\* the one after it.
LEMMA LetGoAppend ==
  ASSUME NEW q \in Seq(QueuedEvent), NEW s, NEW e \in QueuedEvent
  PROVE  /\ \A k \in 1 .. Len(q) + 1 : LetGo(q, s, k) => LetGo(Append(q, e), s, k)
         /\ e \notin Waking /\ LetGo(q, s, Len(q) + 1) => LetGo(Append(q, e), s, Len(q) + 2)
         /\ e = "SUSPEND" => LetGo(Append(q, e), s, Len(q) + 2)
<1>0. PICK r : r = Append(q, e)
  OBVIOUS
<1>1. Len(q) \in Nat /\ Len(r) = Len(q) + 1 /\ \A i \in 1 .. Len(q) : r[i] = q[i]
  BY <1>0
<1>2. r[Len(q) + 1] = e
  BY <1>0
<1>3. ASSUME NEW k \in 1 .. Len(q) + 1, LetGo(q, s, k) PROVE LetGo(r, s, k)
  <2>0. \A i \in 1 .. k - 1 : i \in 1 .. Len(q)
    BY <1>1
  <2>1. \A i \in 1 .. k - 1 : r[i] = q[i]
    BY <1>1, <2>0
  <2>2. CASE s \notin WithClock /\ \A i \in 1 .. k - 1 : q[i] \notin Waking
    BY <2>1, <2>2 DEF LetGo
  <2>3. ASSUME NEW j \in 1 .. k - 1, q[j] = "SUSPEND",
               \A i \in j + 1 .. k - 1 : q[i] \notin Waking
        PROVE  LetGo(r, s, k)
    <3>1. \A i \in j + 1 .. k - 1 : r[i] = q[i]
      BY <2>1
    <3> QED
      BY <2>1, <2>3, <3>1 DEF LetGo
  <2> QED
    BY <1>3, <2>2, <2>3 DEF LetGo
<1>4. ASSUME e \notin Waking, LetGo(q, s, Len(q) + 1) PROVE LetGo(r, s, Len(q) + 2)
  <2>1. CASE s \notin WithClock /\ \A i \in 1 .. Len(q) : q[i] \notin Waking
    <3>1. \A i \in 1 .. Len(q) + 2 - 1 : r[i] \notin Waking
      BY <1>1, <1>2, <1>4, <2>1
    <3> QED
      BY <2>1, <3>1 DEF LetGo
  <2>2. ASSUME NEW j \in 1 .. Len(q), q[j] = "SUSPEND",
               \A i \in j + 1 .. Len(q) : q[i] \notin Waking
        PROVE  LetGo(r, s, Len(q) + 2)
    <3>1. j \in 1 .. Len(q) + 2 - 1 /\ r[j] = "SUSPEND"
      BY <1>1, <2>2
    <3>2. \A i \in j + 1 .. Len(q) + 2 - 1 : r[i] \notin Waking
      BY <1>1, <1>2, <1>4, <2>2
    <3> QED
      BY <3>1, <3>2 DEF LetGo
  <2>3. Len(q) + 1 - 1 = Len(q)
    BY <1>1
  <2> QED
    BY <1>4, <2>1, <2>2, <2>3 DEF LetGo
<1>5. ASSUME e = "SUSPEND" PROVE LetGo(r, s, Len(q) + 2)
  <2>1. Len(q) + 1 \in 1 .. Len(q) + 2 - 1 /\ Len(q) + 1 + 1 .. Len(q) + 2 - 1 = {}
    BY <1>1
  <2> QED
    BY <1>2, <1>5, <2>1 DEF LetGo
<1> QED
  BY <1>0, <1>3, <1>4, <1>5

\* What is left of it when the first event has been executed, provided that a
\* SUSPEND releases the clock and only a waking event asks for it.
LEMMA LetGoTail ==
  ASSUME NEW q \in Seq(QueuedEvent), q # <<>>, NEW s, NEW t,
         q[1] = "SUSPEND" \/ (q[1] \notin Waking /\ s \notin WithClock) => t \notin WithClock,
         NEW k \in 1 .. Len(q), LetGo(q, s, k + 1)
  PROVE  LetGo(Tail(q), t, k)
<1>0. PICK r : r = Tail(q)
  OBVIOUS
<1>1. Len(q) \in Nat \ {0} /\ Len(r) = Len(q) - 1 /\ \A i \in 1 .. Len(q) - 1 : r[i] = q[i + 1]
  BY <1>0
<1>2. CASE s \notin WithClock /\ \A i \in 1 .. k : q[i] \notin Waking
  <2>1. \A i \in 1 .. k - 1 : r[i] \notin Waking
    <3> TAKE i \in 1 .. k - 1
    <3>1. i + 1 \in 1 .. k /\ i \in 1 .. Len(q) - 1
      BY <1>1
    <3> QED
      BY <1>1, <1>2, <3>1
  <2>2. q[1] \notin Waking
    BY <1>2
  <2> QED
    BY <1>2, <2>1, <2>2 DEF LetGo
<1>3. ASSUME NEW j \in 1 .. k, q[j] = "SUSPEND", \A i \in j + 1 .. k : q[i] \notin Waking
      PROVE  LetGo(r, t, k)
  <2>1. \A i \in j .. k - 1 : i \in 1 .. Len(q) - 1 => r[i] \notin Waking
    <3> TAKE i \in j .. k - 1
    <3>1. i + 1 \in j + 1 .. k
      OBVIOUS
    <3> QED
      BY <1>1, <1>3, <3>1
  <2>2. \A i \in j .. k - 1 : r[i] \notin Waking
    BY <1>1, <2>1
  <2>3. CASE j = 1
    BY <1>3, <2>2, <2>3 DEF LetGo
  <2>4. CASE j # 1
    <3>1. j - 1 \in 1 .. k - 1 /\ j - 1 \in 1 .. Len(q) - 1 /\ j - 1 + 1 = j
      BY <1>1, <2>4
    <3>2. r[j - 1] = "SUSPEND"
      BY <1>1, <1>3, <3>1
    <3> QED
      BY <2>2, <3>1, <3>2 DEF LetGo
  <2> QED
    BY <2>3, <2>4
<1>4. k + 1 - 1 = k
  OBVIOUS
<1> QED
  BY <1>0, <1>2, <1>3, <1>4 DEF LetGo

\* An event that is added keeps the order, unless it is a RESUME nothing let
\* go before.
LEMMA OrderedAppend ==
  ASSUME NEW q \in Seq(QueuedEvent), NEW s, NEW e \in QueuedEvent, Ordered(q, s),
         e = "RESUME" => LetGo(q, s, Len(q) + 1)
  PROVE  Ordered(Append(q, e), s)
<1>0. PICK r : r = Append(q, e)
  OBVIOUS
<1>1. Len(q) \in Nat /\ Len(r) = Len(q) + 1 /\ (\A i \in 1 .. Len(q) : r[i] = q[i])
      /\ r[Len(q) + 1] = e
  BY <1>0
<1>2. \A k \in 1 .. Len(q) + 1 : LetGo(q, s, k) => LetGo(r, s, k)
  BY <1>0, LetGoAppend
<1>3. ASSUME NEW k \in 1 .. Len(r), r[k] = "RESUME" PROVE LetGo(r, s, k)
  <2>1. CASE k = Len(q) + 1
    BY <1>1, <1>2, <1>3, <2>1
  <2>2. CASE k # Len(q) + 1
    <3>1. k \in 1 .. Len(q) /\ q[k] = "RESUME"
      BY <1>1, <1>3, <2>2
    <3>2. k \in 1 .. Len(q) + 1
      BY <1>1, <3>1
    <3> QED
      BY <1>2, <3>1, <3>2 DEF Ordered
  <2> QED
    BY <2>1, <2>2
<1> QED
  BY <1>0, <1>3 DEF Ordered

\* Executing the first event keeps the order of the others.
LEMMA OrderedTail ==
  ASSUME NEW q \in Seq(QueuedEvent), q # <<>>, NEW s, NEW t, Ordered(q, s),
         q[1] = "SUSPEND" \/ (q[1] \notin Waking /\ s \notin WithClock) => t \notin WithClock
  PROVE  Ordered(Tail(q), t)
<1>0. PICK r : r = Tail(q)
  OBVIOUS
<1>1. Len(q) \in Nat \ {0} /\ Len(r) = Len(q) - 1 /\ \A i \in 1 .. Len(q) - 1 : r[i] = q[i + 1]
  BY <1>0
<1>2. \A k \in 1 .. Len(q) : LetGo(q, s, k + 1) => LetGo(r, t, k)
  BY <1>0, LetGoTail
<1>3. ASSUME NEW k \in 1 .. Len(r), r[k] = "RESUME" PROVE LetGo(r, t, k)
  <2>1. k \in 1 .. Len(q) /\ k + 1 \in 1 .. Len(q) /\ q[k + 1] = "RESUME"
    BY <1>1, <1>3
  <2> QED
    BY <1>2, <2>1 DEF Ordered
<1> QED
  BY <1>0, <1>3 DEF Ordered

\* Which events are in the queue after adding one and after taking the first.
LEMMA HasEventAppend ==
  ASSUME NEW q \in Seq(QueuedEvent), NEW e \in QueuedEvent
  PROVE  /\ HasEvent(Append(q, e), e)
         /\ \A f : HasEvent(q, f) => HasEvent(Append(q, e), f)
<1>1. Len(q) \in Nat /\ Len(Append(q, e)) = Len(q) + 1
      /\ (\A i \in 1 .. Len(q) : Append(q, e)[i] = q[i]) /\ Append(q, e)[Len(q) + 1] = e
  OBVIOUS
<1>2. Len(q) + 1 \in 1 .. Len(q) + 1 /\ \A i \in 1 .. Len(q) : i \in 1 .. Len(q) + 1
  BY <1>1
<1> QED
  BY <1>1, <1>2 DEF HasEvent

LEMMA HasEventTail ==
  ASSUME NEW q \in Seq(QueuedEvent), q # <<>>, NEW f, HasEvent(q, f), q[1] # f
  PROVE  HasEvent(Tail(q), f)
<1>1. Len(q) \in Nat \ {0} /\ Len(Tail(q)) = Len(q) - 1
      /\ \A i \in 1 .. Len(q) - 1 : Tail(q)[i] = q[i + 1]
  OBVIOUS
<1>2. PICK k \in 1 .. Len(q) : q[k] = f
  BY DEF HasEvent
<1>3. k # 1
  BY <1>2
<1>4. k - 1 \in 1 .. Len(q) - 1 /\ k - 1 + 1 = k
  BY <1>1, <1>3
<1>5. Tail(q)[k - 1] = f
  BY <1>1, <1>2, <1>4
<1> QED
  BY <1>1, <1>4, <1>5 DEF HasEvent

-----------------------------------------------------------------------------
(* What a step does to the queue, in three kinds of steps. *)

OrderInv == ResumesFollowSuspends /\ AsleepMeansNotActive /\ AsleepOnlyOnSleepingBus
            /\ NotStuckResuming

\* A step that leaves queue, state and clock alone.
LEMMA FrameStep ==
  ASSUME SessionInv, UNCHANGED <<queue, sustate, hfclk>>, dev'.asleep = dev.asleep,
         bus' = bus \/ bus' \in {"off", "powered"}
  PROVE  OrderInv'
  BY DEF SessionInv, OrderInv, ResumesFollowSuspends, AsleepMeansNotActive,
         AsleepOnlyOnSleepingBus, NotStuckResuming, Queued, Ordered, LetGo

\* The events of HasEvent are those of Queued, before and after a step.
LEMMA QueuedHasEvent ==
  /\ \A f : Queued(f) <=> HasEvent(queue, f)
  /\ \A f : Queued(f)' <=> HasEvent(queue', f)
  BY DEF Queued, HasEvent

\* A step that adds a request, or the clock's answer.
LEMMA AppendStep ==
  ASSUME SessionInv, NEW e \in QueuedEvent \ Waking, queue' = Append(queue, e),
         UNCHANGED sustate, hfclk' = hfclk \/ e = "HFCLK_READY", dev'.asleep = dev.asleep,
         bus' = bus \/ bus' \in {"off", "powered"}
  PROVE  OrderInv'
<1>1. queue \in Seq(QueuedEvent) /\ Len(queue) \in Nat /\ Len(queue') = Len(queue) + 1
  BY DEF SessionInv, SessionTypeOK
<1>2. ResumesFollowSuspends'
  <2>1. Ordered(queue, sustate)
    BY DEF SessionInv, ResumesFollowSuspends
  <2>2. Ordered(queue', sustate)
    BY <1>1, <2>1, OrderedAppend DEF Waking
  <2>3. bus = "suspended" => LetGo(queue', sustate, Len(queue) + 2)
    BY <1>1, LetGoAppend DEF SessionInv, ResumesFollowSuspends
  <2>4. Len(queue) + 2 = Len(queue') + 1
    BY <1>1
  <2> QED
    BY <2>2, <2>3, <2>4 DEF ResumesFollowSuspends
<1>3. \A f : HasEvent(queue, f) => HasEvent(queue', f)
  BY <1>1, HasEventAppend
<1>4. AsleepMeansNotActive' /\ AsleepOnlyOnSleepingBus'
  BY <1>3, QueuedHasEvent
  DEF SessionInv, AsleepMeansNotActive, AsleepOnlyOnSleepingBus
<1>5. NotStuckResuming'
  <2>1. HasEvent(queue', e)
    BY <1>1, HasEventAppend
  <2> QED
    BY <1>3, <2>1, QueuedHasEvent DEF SessionInv, NotStuckResuming
<1> QED
  BY <1>2, <1>4, <1>5 DEF OrderInv

\* A step that executes the first event: what of the order is left to show is
\* that a SUSPEND, and without a waking event any other, leaves no clock.
LEMMA ExecuteStep ==
  ASSUME SessionInv, queue # <<>>, NEW rest,
         rest = Tail(queue) \/ rest = Append(Tail(queue), "SUSPEND_REQ"),
         queue' = rest \/ queue' = Append(rest, "HFCLK_READY"),
         queue[1] = "SUSPEND" \/ (queue[1] \notin Waking /\ sustate \notin WithClock)
           => sustate' \notin WithClock,
         bus' = bus \/ bus' \in {"off", "powered"}
  PROVE  /\ ResumesFollowSuspends'
         /\ \A f : Queued(f) /\ queue[1] # f => Queued(f)'
         /\ queue' = Append(rest, "HFCLK_READY") => Queued("HFCLK_READY")'
<1> DEFINE Keeps(q, r) == /\ Ordered(r, sustate')
                          /\ bus = "suspended" => LetGo(r, sustate', Len(r) + 1)
                          /\ \A f : HasEvent(queue, f) /\ queue[1] # f => HasEvent(r, f)
<1>1. queue \in Seq(QueuedEvent) /\ Tail(queue) \in Seq(QueuedEvent)
      /\ Len(queue) \in Nat \ {0} /\ Len(Tail(queue)) = Len(queue) - 1
  BY DEF SessionInv, SessionTypeOK
<1>2. Keeps(queue, Tail(queue))
  <2>1. Ordered(Tail(queue), sustate')
    BY <1>1, OrderedTail DEF SessionInv, ResumesFollowSuspends
  <2>2. ASSUME bus = "suspended" PROVE LetGo(Tail(queue), sustate', Len(Tail(queue)) + 1)
    <3>1. LetGo(queue, sustate, Len(queue) + 1)
      BY <2>2 DEF SessionInv, ResumesFollowSuspends
    <3>2. Len(queue) \in 1 .. Len(queue) /\ Len(queue) = Len(Tail(queue)) + 1
      BY <1>1
    <3> QED
      BY <1>1, <3>1, <3>2, LetGoTail
  <2>3. \A f : HasEvent(queue, f) /\ queue[1] # f => HasEvent(Tail(queue), f)
    BY <1>1, HasEventTail
  <2> QED
    BY <2>1, <2>2, <2>3
<1>3. ASSUME NEW r \in Seq(QueuedEvent), NEW e \in QueuedEvent \ Waking, Keeps(queue, r)
      PROVE  Keeps(queue, Append(r, e)) /\ Append(r, e) \in Seq(QueuedEvent)
  <2>1. Len(r) \in Nat /\ Len(Append(r, e)) = Len(r) + 1 /\ Append(r, e) \in Seq(QueuedEvent)
    OBVIOUS
  <2>2. Ordered(Append(r, e), sustate')
    BY <1>3, OrderedAppend DEF Waking
  <2>3. bus = "suspended" => LetGo(Append(r, e), sustate', Len(r) + 2)
    BY <1>3, LetGoAppend
  <2>4. Len(r) + 2 = Len(Append(r, e)) + 1
    BY <2>1
  <2>5. \A f : HasEvent(queue, f) /\ queue[1] # f => HasEvent(Append(r, e), f)
    BY <1>3, HasEventAppend
  <2> QED
    BY <2>1, <2>2, <2>3, <2>4, <2>5
<1>4. "SUSPEND_REQ" \in QueuedEvent \ Waking /\ "HFCLK_READY" \in QueuedEvent \ Waking
  BY DEF QueuedEvent, Waking
<1> HIDE DEF Keeps
<1>5. Keeps(queue, rest) /\ rest \in Seq(QueuedEvent)
  BY <1>1, <1>2, <1>3, <1>4
<1>6. Keeps(queue, queue')
  BY <1>3, <1>4, <1>5
<1>7. queue' = Append(rest, "HFCLK_READY") => HasEvent(queue', "HFCLK_READY")
  BY <1>4, <1>5, HasEventAppend
<1>8. ResumesFollowSuspends'
  BY <1>6 DEF ResumesFollowSuspends, Keeps
<1>9. \A f : Queued(f) /\ queue[1] # f => Queued(f)'
  BY <1>6, QueuedHasEvent DEF Keeps
<1> QED
  BY <1>7, <1>8, <1>9, QueuedHasEvent

-----------------------------------------------------------------------------
(* Every step keeps the invariant. *)

TypeInv == SessionTypeOK /\ QueueBound

\* Reset satisfies the invariant.
LEMMA SessionInvInit == SessionInit => SessionInv
<1> SUFFICES ASSUME SessionInit PROVE SessionInv
  OBVIOUS
<1>1. SessionTypeOK /\ QueueBound
  BY SessionAssumption DEF SessionInit, SessionTypeOK, QueueBound, QueuedEvent, Sustate
<1>2. OrderInv
  BY DEF SessionInit, OrderInv, ResumesFollowSuspends, Ordered, LetGo, WithClock,
         AsleepMeansNotActive, AsleepOnlyOnSleepingBus, NotStuckResuming
<1> QED
  BY <1>1, <1>2 DEF SessionInv, OrderInv

\* The steps that do not execute an event keep the types and the bound.
LEMMA TypeStep ==
  ASSUME SessionInv, SessionNext, ~Execute
  PROVE  TypeInv'
<1> USE SessionAssumption DEF SessionInv, SessionTypeOK, QueueBound, TypeInv
<1>1. CASE Plug
  <2>1. cable' \in [vbus : BOOLEAN, ready : BOOLEAN, pend : SUBSET {"DETECTED", "REMOVED", "READY"},
                     irqOn : BOOLEAN, hasty : BOOLEAN]
    BY <1>1 DEF Plug, AtRestUnplugged
  <2>2. UNCHANGED <<dev, queue, sustate, hfclk, conn, main, failed>> /\ bus' \in {"powered", "off"}
    BY <1>1 DEF Plug
  <2> QED
    BY <2>1, <2>2
<1>2. CASE PowerReady
  <2>1. cable' \in [vbus : BOOLEAN, ready : BOOLEAN, pend : SUBSET {"DETECTED", "REMOVED", "READY"},
                     irqOn : BOOLEAN, hasty : BOOLEAN]
    BY <1>2 DEF PowerReady
  <2>2. UNCHANGED <<dev, queue, sustate, hfclk, conn, main, failed>> /\ (bus' = bus \/ bus' = "off")
    BY <1>2 DEF PowerReady
  <2> QED
    BY <2>1, <2>2
<1>3. CASE Unplug
  <2>1. cable' \in [vbus : BOOLEAN, ready : BOOLEAN, pend : SUBSET {"DETECTED", "REMOVED", "READY"},
                     irqOn : BOOLEAN, hasty : BOOLEAN]
    BY <1>3 DEF Unplug
  <2>2. UNCHANGED <<dev, queue, sustate, hfclk, conn, main, failed>> /\ (bus' = bus \/ bus' = "off")
    BY <1>3 DEF Unplug
  <2> QED
    BY <2>1, <2>2
<1>4. CASE PowerIrq
  BY <1>4 DEF PowerIrq
<1>5. CASE ClockStarted
  BY <1>5 DEF ClockStarted, QueuedEvent
<1>6. CASE BusReset
  <2>1. dev' \in [enabled : BOOLEAN, irqOn : BOOLEAN, asleep : BOOLEAN]
    BY <1>6 DEF BusReset, BusEvent
  <2>2. queue' \in Seq(QueuedEvent) /\ Len(queue') = Len(queue) + 1 /\ Len(queue) < MaxQueue
    BY <1>6 DEF BusReset, BusEvent, QueuedEvent
  <2>3. UNCHANGED <<cable, sustate, hfclk, conn, main, failed>> /\ bus' = "active"
    BY <1>6 DEF BusReset, BusEvent
  <2> QED
    BY <2>1, <2>2, <2>3
<1>7. CASE BusSuspend
  <2>1. dev' \in [enabled : BOOLEAN, irqOn : BOOLEAN, asleep : BOOLEAN]
    BY <1>7 DEF BusSuspend, BusEvent
  <2>2. queue' \in Seq(QueuedEvent) /\ Len(queue') = Len(queue) + 1 /\ Len(queue) < MaxQueue
    BY <1>7 DEF BusSuspend, BusEvent, QueuedEvent
  <2>3. UNCHANGED <<cable, sustate, hfclk, conn, main, failed>> /\ bus' = "suspended"
    BY <1>7 DEF BusSuspend, BusEvent
  <2> QED
    BY <2>1, <2>2, <2>3
<1>8. CASE BusResume
  <2>1. dev' \in [enabled : BOOLEAN, irqOn : BOOLEAN, asleep : BOOLEAN]
    BY <1>8 DEF BusResume, BusEvent
  <2>2. queue' \in Seq(QueuedEvent) /\ Len(queue') = Len(queue) + 1 /\ Len(queue) < MaxQueue
    BY <1>8 DEF BusResume, BusEvent, QueuedEvent
  <2>3. UNCHANGED <<cable, sustate, hfclk, conn, main, failed>> /\ bus' = "active"
    BY <1>8 DEF BusResume, BusEvent
  <2> QED
    BY <2>1, <2>2, <2>3
<1>9. CASE GenericInitCall
  BY <1>9 DEF GenericInitCall, Step, Assert
<1>10. CASE CdcInitCall
  BY <1>10 DEF CdcInitCall, Step
<1>11. CASE StopDisable
  BY <1>11 DEF StopDisable, Step, Assert, Disabled
<1>12. CASE StopRequest
  BY <1>12 DEF StopRequest, Step, QueuedEvent
<1>13. CASE StopFlag
  <2>1. conn' \in [now : BOOLEAN, last : BOOLEAN]
    BY <1>13 DEF StopFlag
  <2>2. UNCHANGED <<cable, bus, dev, queue, sustate, hfclk, failed>>
        /\ main = "stop_flag" /\ main' = "append"
    BY <1>13 DEF StopFlag, Step
  <2> QED
    BY <2>1, <2>2
<1>14. CASE AppendClass
  BY <1>14 DEF AppendClass, Step, Assert
<1>15. CASE ConnCompare
  BY <1>15 DEF ConnCompare, Step
<1>16. CASE ConnCopy
  BY <1>16 DEF ConnCopy, Step
<1>17. CASE ConnChoose
  <2>1. queue' \in Seq(QueuedEvent) /\ Len(queue') <= Len(queue) + 1
        /\ (main' = "wait_ready" => queue' = queue)
    BY <1>17 DEF ConnChoose, Step, QueuedEvent
  <2>2. UNCHANGED <<cable, bus, dev, sustate, hfclk, conn>>
    BY <1>17 DEF ConnChoose
  <2>3. failed' \in {"never", "calm", "hasty"}
    BY <1>17 DEF ConnChoose, Assert
  <2>4. main = "choose" /\ main' \in {"wait_ready", "events"}
    BY <1>17 DEF ConnChoose, Step
  <2> QED
    BY <2>1, <2>2, <2>3, <2>4
<1>18. CASE StartRequest
  <2>1. queue' \in Seq(QueuedEvent) /\ Len(queue') <= Len(queue) + 1
    BY <1>18 DEF StartRequest, QueuedEvent
  <2>2. UNCHANGED <<cable, bus, dev, sustate, hfclk, conn, failed>>
        /\ main = "wait_ready" /\ main' = "events"
    BY <1>18 DEF StartRequest, Step
  <2> QED
    BY <2>1, <2>2
<1>19. CASE QueueEmpty
  BY <1>19 DEF QueueEmpty, Step
<1> QED
  BY <1>1, <1>2, <1>3, <1>4, <1>5, <1>6, <1>7, <1>8, <1>9, <1>10, <1>11, <1>12, <1>13, <1>14, <1>15, <1>16, <1>17, <1>18, <1>19 DEF SessionNext, MainStep

\* The steps that do not execute an event keep the order of the events.
LEMMA OrderStep ==
  ASSUME SessionInv, SessionNext, ~Execute
  PROVE  OrderInv'
<1>1. ASSUME Plug \/ PowerReady \/ Unplug \/ PowerIrq \/ GenericInitCall \/ CdcInitCall
             \/ StopDisable \/ StopFlag \/ AppendClass \/ ConnCompare \/ ConnCopy \/ QueueEmpty
      PROVE  OrderInv'
  <2>1. UNCHANGED <<queue, sustate, hfclk>>
    BY <1>1 DEF Plug, PowerReady, Unplug, PowerIrq, GenericInitCall, CdcInitCall, StopDisable,
                StopFlag, AppendClass, ConnCompare, ConnCopy, QueueEmpty
  <2>2. bus' = bus \/ bus' \in {"off", "powered"}
    BY <1>1 DEF Plug, PowerReady, Unplug, PowerIrq, GenericInitCall, CdcInitCall, StopDisable,
                StopFlag, AppendClass, ConnCompare, ConnCopy, QueueEmpty
  <2>3. dev'.asleep = dev.asleep
    BY <1>1 DEF SessionInv, SessionTypeOK, Plug, PowerReady, Unplug, PowerIrq, GenericInitCall,
                CdcInitCall, StopDisable, Disabled, StopFlag, AppendClass, ConnCompare, ConnCopy,
                QueueEmpty
  <2> QED
    BY <2>1, <2>2, <2>3, FrameStep
<1>2. CASE StopRequest
  <2>1. "STOP_REQ" \in QueuedEvent \ Waking
    BY DEF QueuedEvent, Waking
  <2> QED
    BY <1>2, <2>1, AppendStep DEF StopRequest
<1>3. CASE ConnChoose
  <2>1. "STOP_REQ" \in QueuedEvent \ Waking
    BY DEF QueuedEvent, Waking
  <2>2. UNCHANGED <<bus, dev, sustate, hfclk>>
        /\ (UNCHANGED queue \/ queue' = Append(queue, "STOP_REQ"))
    BY <1>3 DEF ConnChoose
  <2> QED
    BY <2>1, <2>2, AppendStep, FrameStep
<1>4. CASE StartRequest
  <2>1. "START_REQ" \in QueuedEvent \ Waking
    BY DEF QueuedEvent, Waking
  <2>2. UNCHANGED <<bus, dev, sustate, hfclk>>
        /\ (UNCHANGED queue \/ queue' = Append(queue, "START_REQ"))
    BY <1>4 DEF StartRequest
  <2> QED
    BY <2>1, <2>2, AppendStep, FrameStep
<1>5. CASE ClockStarted
  <2>1. "HFCLK_READY" \in QueuedEvent \ Waking
    BY DEF QueuedEvent, Waking
  <2> QED
    BY <1>5, <2>1, AppendStep DEF ClockStarted
<1>6. CASE BusSuspend
  <2>1. "SUSPEND" \in QueuedEvent \ Waking /\ queue \in Seq(QueuedEvent)
        /\ queue' = Append(queue, "SUSPEND") /\ UNCHANGED <<sustate, hfclk>> /\ bus' = "suspended"
    BY <1>6 DEF BusSuspend, BusEvent, QueuedEvent, Waking, SessionInv, SessionTypeOK
  <2>2. Ordered(queue', sustate)
    BY <2>1, OrderedAppend DEF Waking, SessionInv, ResumesFollowSuspends
  <2>3. LetGo(queue', sustate, Len(queue) + 2)
    BY <2>1, LetGoAppend
  <2>4. Len(queue') + 1 = Len(queue) + 2
    BY <2>1
  <2>5. \A f : Queued(f) => Queued(f)'
    BY <2>1, HasEventAppend, QueuedHasEvent
  <2> QED
    BY <2>1, <2>2, <2>3, <2>4, <2>5
    DEF OrderInv, ResumesFollowSuspends, AsleepMeansNotActive, AsleepOnlyOnSleepingBus,
        NotStuckResuming, SessionInv
<1>7. ASSUME BusReset \/ BusResume PROVE OrderInv'
  <2>1. PICK e \in {"RESET", "RESUME"} :
          /\ queue' = Append(queue, e) /\ UNCHANGED <<sustate, hfclk>> /\ bus' = "active"
          /\ e = "RESUME" => bus = "suspended"
          /\ ~dev'.asleep
    BY <1>7 DEF BusReset, BusResume, BusEvent, SessionInv, SessionTypeOK
  <2>2. e \in QueuedEvent /\ queue \in Seq(QueuedEvent)
    BY DEF QueuedEvent, SessionInv, SessionTypeOK
  <2>3. Ordered(queue', sustate)
    BY <2>1, <2>2, OrderedAppend DEF SessionInv, ResumesFollowSuspends
  <2>4. (\A f : Queued(f) => Queued(f)') /\ Queued(e)'
    BY <2>1, <2>2, HasEventAppend, QueuedHasEvent
  <2>5. Queued("RESUME")' \/ Queued("RESET")'
    BY <2>4
  <2> QED
    BY <2>1, <2>3, <2>4, <2>5
    DEF OrderInv, ResumesFollowSuspends, AsleepMeansNotActive, AsleepOnlyOnSleepingBus,
        NotStuckResuming, SessionInv
<1> QED
  BY <1>1, <1>2, <1>3, <1>4, <1>5, <1>6, <1>7 DEF SessionNext, MainStep

\* sustate_set: the state, the clock and the answer it may queue.
LEMMA SetStep ==
  ASSUME SessionInv, NEW s \in Sustate, NEW rest \in Seq(QueuedEvent), SustateSet(s, rest)
  PROVE  /\ sustate' = s /\ hfclk' \in [on : BOOLEAN, asked : BOOLEAN]
         /\ queue' = rest \/ (Requested(s) /\ queue' = Append(rest, "HFCLK_READY"))
         /\ Requested(s) => hfclk'.asked \/ queue' = Append(rest, "HFCLK_READY")
<1>1. hfclk \in [on : BOOLEAN, asked : BOOLEAN]
  BY DEF SessionInv, SessionTypeOK
<1>2. CASE Requested(s)
  <2>1. hfclk' = [hfclk EXCEPT !.asked = @ \/ ~hfclk.on]
    BY <1>2 DEF SustateSet
  <2>2. hfclk' \in [on : BOOLEAN, asked : BOOLEAN] /\ (hfclk'.asked \/ hfclk.on)
    BY <1>1, <2>1
  <2> QED
    BY <1>2, <2>2 DEF SustateSet
<1>3. CASE ~Requested(s)
  <2>1. hfclk' = [hfclk EXCEPT !.on = FALSE] \/ hfclk' = hfclk
    BY <1>3 DEF SustateSet
  <2> QED
    BY <1>1, <1>3, <2>1 DEF SustateSet
<1> QED
  BY <1>2, <1>3

\* The step that executes an event keeps the types and the order.
LEMMA ExecuteKeeps == SessionInv /\ Execute => TypeInv' /\ OrderInv'
<1> SUFFICES ASSUME SessionInv, Execute PROVE TypeInv' /\ OrderInv'
  OBVIOUS
<1> DEFINE rest == Tail(queue)
<1>1. /\ queue \in Seq(QueuedEvent) /\ queue # <<>> /\ rest \in Seq(QueuedEvent)
      /\ Len(queue) \in Nat \ {0} /\ Len(rest) = Len(queue) - 1
      /\ Head(queue) = queue[1] /\ queue[1] \in QueuedEvent
  BY DEF Execute, SessionInv, SessionTypeOK
<1>2. /\ ExecEvent(queue[1], rest) /\ UNCHANGED <<cable, conn, main>>
      /\ main = "events" /\ Len(queue) <= MaxQueue + 1
  BY <1>1 DEF Execute, SessionInv, QueueBound
<1>3. /\ bus \in {"off", "powered", "active", "suspended"} /\ failed \in {"never", "calm", "hasty"}
      /\ dev \in [enabled : BOOLEAN, irqOn : BOOLEAN, asleep : BOOLEAN] /\ sustate \in Sustate
      /\ hfclk \in [on : BOOLEAN, asked : BOOLEAN]
  BY DEF SessionInv, SessionTypeOK
<1> HIDE DEF rest
<1>4. ASSUME /\ queue' \in Seq(QueuedEvent) /\ Len(queue') <= Len(queue)
             /\ sustate' \in Sustate /\ hfclk' \in [on : BOOLEAN, asked : BOOLEAN]
             /\ bus' \in {"off", "powered", "active", "suspended"}
             /\ dev' \in [enabled : BOOLEAN, irqOn : BOOLEAN, asleep : BOOLEAN]
             /\ failed' \in {"never", "calm", "hasty"}
      PROVE  TypeInv'
  <2>1. Len(queue') <= MaxQueue + 1 /\ Len(queue') <= MaxQueue + 2
    BY <1>1, <1>2, <1>4, SessionAssumption
  <2> QED
    BY <1>2, <1>4, <2>1 DEF TypeInv, SessionTypeOK, QueueBound, SessionInv
<1>5. ASSUME NEW s \in Sustate, SustateSet(s, rest)
      PROVE  /\ queue' \in Seq(QueuedEvent) /\ Len(queue') <= Len(queue)
             /\ sustate' = s /\ hfclk' \in [on : BOOLEAN, asked : BOOLEAN]
             /\ queue' = rest \/ queue' = Append(rest, "HFCLK_READY")
             /\ Requested(s) => hfclk'.asked \/ queue' = Append(rest, "HFCLK_READY")
  <2>1. "HFCLK_READY" \in QueuedEvent
    BY DEF QueuedEvent
  <2>2. /\ sustate' = s /\ hfclk' \in [on : BOOLEAN, asked : BOOLEAN]
        /\ queue' = rest \/ queue' = Append(rest, "HFCLK_READY")
        /\ Requested(s) => hfclk'.asked \/ queue' = Append(rest, "HFCLK_READY")
    BY <1>1, <1>5, SetStep
  <2>3. Append(rest, "HFCLK_READY") \in Seq(QueuedEvent)
        /\ Len(Append(rest, "HFCLK_READY")) = Len(rest) + 1
    BY <1>1, <2>1
  <2>4. queue' \in Seq(QueuedEvent) /\ Len(queue') <= Len(queue)
    BY <1>1, <2>2, <2>3
  <2> QED
    BY <2>2, <2>4
<1>6. ASSUME queue' = rest \/ queue' = Append(rest, "HFCLK_READY"),
             queue[1] = "SUSPEND" \/ (queue[1] \notin Waking /\ sustate \notin WithClock)
               => sustate' \notin WithClock,
             bus' = bus \/ bus' \in {"off", "powered"}
      PROVE  /\ ResumesFollowSuspends'
             /\ \A f : Queued(f) /\ queue[1] # f => Queued(f)'
             /\ queue' = Append(rest, "HFCLK_READY") => Queued("HFCLK_READY")'
  BY <1>1, <1>6, ExecuteStep DEF rest
<1>7. CASE queue[1] = "START_REQ"
  <2>1. ExecStart(rest)
    BY <1>2, <1>7 DEF ExecEvent
  <2>2. /\ sustate' = "STARTED" /\ queue' \in Seq(QueuedEvent) /\ Len(queue') <= Len(queue)
        /\ hfclk' \in [on : BOOLEAN, asked : BOOLEAN]
        /\ queue' = rest \/ queue' = Append(rest, "HFCLK_READY")
    BY <1>5, <2>1 DEF ExecStart, Sustate
  <2>3. bus' \in {"off", "powered"} /\ failed' \in {"never", "calm", "hasty"}
    BY <1>3, <2>1 DEF ExecStart, Assert
  <2>4. dev' \in [enabled : BOOLEAN, irqOn : BOOLEAN, asleep : BOOLEAN]
    BY <1>3, <2>1 DEF ExecStart
  <2>5. TypeInv'
    BY <1>4, <2>2, <2>3, <2>4 DEF Sustate
  <2>6. ResumesFollowSuspends'
    BY <1>6, <2>2, <2>3 DEF WithClock
  <2> QED
    BY <2>2, <2>3, <2>5, <2>6
    DEF OrderInv, AsleepMeansNotActive, AsleepOnlyOnSleepingBus, NotStuckResuming
<1>8. CASE queue[1] = "STOP_REQ"
  <2>1. ExecStop(rest)
    BY <1>2, <1>8 DEF ExecEvent
  <2>2. /\ sustate' = "STOPPED" /\ queue' \in Seq(QueuedEvent) /\ Len(queue') <= Len(queue)
        /\ hfclk' \in [on : BOOLEAN, asked : BOOLEAN]
        /\ queue' = rest \/ queue' = Append(rest, "HFCLK_READY")
    BY <1>5, <2>1 DEF ExecStop, Sustate
  <2>3. bus' = "off" /\ failed' \in {"never", "calm", "hasty"}
    BY <1>3, <2>1 DEF ExecStop, Assert
  <2>4. dev' \in [enabled : BOOLEAN, irqOn : BOOLEAN, asleep : BOOLEAN]
    BY <1>3, <2>1 DEF ExecStop, Disabled
  <2>5. TypeInv'
    BY <1>4, <2>2, <2>3, <2>4 DEF Sustate
  <2>6. ResumesFollowSuspends'
    BY <1>6, <2>2, <2>3 DEF WithClock
  <2> QED
    BY <2>2, <2>3, <2>5, <2>6
    DEF OrderInv, AsleepMeansNotActive, AsleepOnlyOnSleepingBus, NotStuckResuming
<1>9. ASSUME UNCHANGED <<bus, dev, failed>>, AsleepOnlyOnSleepingBus', NotStuckResuming',
             ResumesFollowSuspends'
      PROVE  OrderInv'
  BY <1>9 DEF OrderInv, AsleepMeansNotActive, SessionInv
<1>10. ASSUME queue[1] \notin {"START_REQ", "STOP_REQ"} PROVE UNCHANGED <<bus, dev, failed>>
  BY <1>2, <1>10 DEF ExecEvent
<1>11. ASSUME Keep(rest), queue[1] \notin {"SUSPEND", "RESET", "RESUME", "START_REQ", "STOP_REQ"},
              queue[1] = "HFCLK_READY" => sustate # "RESUMING"
       PROVE  TypeInv' /\ OrderInv'
  <2>1. queue' = rest /\ UNCHANGED <<sustate, hfclk, bus, dev, failed>>
    BY <1>10, <1>11 DEF Keep
  <2>2. TypeInv'
    BY <1>1, <1>3, <1>4, <2>1
  <2>3. ResumesFollowSuspends' /\ \A f : Queued(f) /\ queue[1] # f => Queued(f)'
    BY <1>6, <1>11, <2>1 DEF Waking
  <2>4. AsleepOnlyOnSleepingBus' /\ NotStuckResuming'
    BY <1>11, <2>1, <2>3 DEF AsleepOnlyOnSleepingBus, NotStuckResuming, SessionInv
  <2> QED
    BY <1>9, <2>1, <2>2, <2>3, <2>4
<1>12. CASE queue[1] = "HFCLK_READY"
  <2>1. CASE sustate = "RESUMING"
    <3>1. SustateSet("ACTIVE", rest) /\ UNCHANGED <<bus, dev, failed>>
      BY <1>2, <1>12, <2>1 DEF ExecEvent
    <3>2. /\ sustate' = "ACTIVE" /\ queue' \in Seq(QueuedEvent) /\ Len(queue') <= Len(queue)
          /\ hfclk' \in [on : BOOLEAN, asked : BOOLEAN]
          /\ queue' = rest \/ queue' = Append(rest, "HFCLK_READY")
      BY <1>5, <3>1 DEF Sustate
    <3>3. ResumesFollowSuspends'
      BY <1>6, <1>12, <2>1, <3>1, <3>2 DEF WithClock
    <3>4. TypeInv'
      BY <1>3, <1>4, <3>1, <3>2 DEF Sustate
    <3> QED
      BY <1>9, <3>1, <3>2, <3>3, <3>4 DEF AsleepOnlyOnSleepingBus, NotStuckResuming
  <2>2. CASE sustate # "RESUMING"
    <3>1. Keep(rest)
      BY <1>2, <1>12, <2>2 DEF ExecEvent
    <3> QED
      BY <1>11, <1>12, <2>2, <3>1
  <2> QED
    BY <2>1, <2>2
<1>13. CASE queue[1] = "SUSPEND_REQ"
  <2>1. ExecSuspendReq(rest) /\ UNCHANGED <<bus, dev, failed>>
    BY <1>2, <1>13 DEF ExecEvent
  <2>2. CASE sustate = "SUSPENDING" /\ dev.asleep
    <3>1. SustateSet("SUSPEND", rest)
      BY <2>1, <2>2 DEF ExecSuspendReq
    <3>2. /\ sustate' = "SUSPEND" /\ queue' \in Seq(QueuedEvent) /\ Len(queue') <= Len(queue)
          /\ hfclk' \in [on : BOOLEAN, asked : BOOLEAN]
          /\ queue' = rest \/ queue' = Append(rest, "HFCLK_READY")
      BY <1>5, <3>1 DEF Sustate
    <3>3. ResumesFollowSuspends'
      BY <1>6, <2>1, <3>2 DEF WithClock
    <3>4. TypeInv'
      BY <1>3, <1>4, <2>1, <3>2 DEF Sustate
    <3>5. bus' # "active"
      BY <2>1, <2>2 DEF SessionInv, AsleepMeansNotActive
    <3> QED
      BY <1>9, <2>1, <3>2, <3>3, <3>4, <3>5 DEF AsleepOnlyOnSleepingBus, NotStuckResuming
  <2>3. CASE ~(sustate = "SUSPENDING" /\ dev.asleep)
    <3>1. Keep(rest)
      BY <2>1, <2>3 DEF ExecSuspendReq
    <3> QED
      BY <1>11, <1>13, <3>1
  <2> QED
    BY <2>2, <2>3
<1>14. CASE queue[1] = "RESET"
  <2>1. SustateSet("ACTIVE", rest) /\ UNCHANGED <<bus, dev, failed>>
    BY <1>2, <1>14 DEF ExecEvent
  <2>2. /\ sustate' = "ACTIVE" /\ queue' \in Seq(QueuedEvent) /\ Len(queue') <= Len(queue)
        /\ hfclk' \in [on : BOOLEAN, asked : BOOLEAN]
        /\ queue' = rest \/ queue' = Append(rest, "HFCLK_READY")
    BY <1>5, <2>1 DEF Sustate
  <2>3. ResumesFollowSuspends'
    BY <1>6, <1>14, <2>1, <2>2 DEF Waking
  <2>4. TypeInv'
    BY <1>3, <1>4, <2>1, <2>2 DEF Sustate
  <2> QED
    BY <1>9, <2>1, <2>2, <2>3, <2>4 DEF AsleepOnlyOnSleepingBus, NotStuckResuming
<1>15. CASE queue[1] = "RESUME"
  <2>1. SustateSet("RESUMING", rest) /\ UNCHANGED <<bus, dev, failed>>
    BY <1>2, <1>15 DEF ExecEvent
  <2>2. sustate \notin WithClock
    <3>1. 1 \in 1 .. Len(queue)
      BY <1>1
    <3>2. LetGo(queue, sustate, 1)
      BY <1>15, <3>1 DEF SessionInv, ResumesFollowSuspends, Ordered
    <3> QED
      BY <3>2 DEF LetGo
  <2>3. /\ sustate' = "RESUMING" /\ queue' \in Seq(QueuedEvent) /\ Len(queue') <= Len(queue)
        /\ hfclk' \in [on : BOOLEAN, asked : BOOLEAN]
        /\ queue' = rest \/ queue' = Append(rest, "HFCLK_READY")
        /\ hfclk'.asked \/ queue' = Append(rest, "HFCLK_READY")
    BY <1>5, <2>1, <2>2 DEF Sustate, Requested, WithClock
  <2>4. ResumesFollowSuspends' /\ (queue' = Append(rest, "HFCLK_READY") => Queued("HFCLK_READY")')
    BY <1>6, <1>15, <2>1, <2>3 DEF Waking
  <2>5. TypeInv'
    BY <1>3, <1>4, <2>1, <2>3 DEF Sustate
  <2> QED
    BY <1>9, <2>1, <2>3, <2>4, <2>5 DEF AsleepOnlyOnSleepingBus, NotStuckResuming
<1>16. CASE queue[1] = "SUSPEND"
  <2> DEFINE more == Append(rest, "SUSPEND_REQ")
  <2>1. SustateSet("SUSPENDING", more) /\ UNCHANGED <<bus, dev, failed>>
    BY <1>2, <1>16 DEF ExecEvent
  <2>2. more \in Seq(QueuedEvent) /\ Len(more) = Len(rest) + 1
    BY <1>1 DEF QueuedEvent
  <2>3. ~Requested("SUSPENDING")
    BY DEF Requested, WithClock
  <2>4. sustate' = "SUSPENDING" /\ queue' = more /\ hfclk' \in [on : BOOLEAN, asked : BOOLEAN]
    BY <2>1, <2>2, <2>3, SetStep DEF Sustate
  <2>5. TypeInv'
    BY <1>1, <1>3, <1>4, <2>1, <2>2, <2>4 DEF Sustate
  <2>6. sustate' \notin WithClock
    BY <2>4 DEF WithClock
  <2>7. ResumesFollowSuspends'
    BY <1>1, <2>1, <2>4, <2>6, ExecuteStep DEF rest
  <2> QED
    BY <1>9, <2>1, <2>4, <2>5, <2>7 DEF AsleepOnlyOnSleepingBus, NotStuckResuming
<1> QED
  BY <1>1, <1>7, <1>8, <1>12, <1>13, <1>14, <1>15, <1>16 DEF QueuedEvent

\* Every step keeps the invariant.
LEMMA SessionInvNext == SessionInv /\ [SessionNext]_sessionVars => SessionInv'
<1> SUFFICES ASSUME SessionInv, [SessionNext]_sessionVars PROVE SessionInv'
  OBVIOUS
<1>1. CASE SessionNext
  <2>1. TypeInv' /\ OrderInv'
    BY <1>1, TypeStep, OrderStep, ExecuteKeeps
  <2> QED
    BY <2>1 DEF TypeInv, OrderInv, SessionInv
<1>2. CASE UNCHANGED sessionVars
  <2>1. TypeInv'
    BY <1>2 DEF sessionVars, TypeInv, SessionInv, SessionTypeOK, QueueBound
  <2>2. OrderInv'
    BY <1>2, FrameStep DEF sessionVars
  <2> QED
    BY <2>1, <2>2 DEF TypeInv, OrderInv, SessionInv
<1> QED
  BY <1>1, <1>2

-----------------------------------------------------------------------------
(* The theorems. *)

\* Every reachable state satisfies the inductive invariant.
THEOREM SessionInvariant == SessionSpec => []SessionInv
<1>1. SessionInit => SessionInv
  BY SessionInvInit
<1>2. SessionInv /\ [SessionNext]_sessionVars => SessionInv'
  BY SessionInvNext
<1> QED
  BY <1>1, <1>2, PTL DEF SessionSpec

\* The variables of the session have their types, and the queue never holds
\* more than the main loop's requests beyond the bound.
THEOREM SessionTypeCorrect == SessionSpec => []SessionTypeOK
<1>1. SessionInv => SessionTypeOK
  BY DEF SessionInv
<1> QED
  BY SessionInvariant, <1>1, PTL

\* A device that resumes is never left without the clock it waits for
\* (app_usbd.c:524, sustate_set).
THEOREM ResumingGetsItsClock == SessionSpec => []NotStuckResuming
<1>1. SessionInv => NotStuckResuming
  BY DEF SessionInv
<1> QED
  BY SessionInvariant, <1>1, PTL

\* A suspend that the bus has overtaken never leaves the device asleep on a
\* bus that is awake (app_usbd.c:863).
THEOREM SleepsOnlyWithTheBus == SessionSpec => []AsleepOnlyOnSleepingBus
<1>1. SessionInv => AsleepOnlyOnSleepingBus
  BY DEF SessionInv
<1> QED
  BY SessionInvariant, <1>1, PTL

-----------------------------------------------------------------------------
(* The life of a device whose cable is moved only when it is at rest.      *)

OnlyClock(q) == \A k \in 1 .. Len(q) : q[k] = "HFCLK_READY"

\* One stop among the clock's answers.
OneStop(q) == \E k \in 1 .. Len(q) :
                /\ q[k] = "STOP_REQ"
                /\ \A i \in 1 .. Len(q) : i # k => q[i] = "HFCLK_READY"

NoRequests(q) == \A k \in 1 .. Len(q) : q[k] \notin {"START_REQ", "STOP_REQ"}

Polling == main \in {"events", "compare"}
Stopped == ~dev.irqOn /\ sustate = "STOPPED" /\ bus = "off"

StartingUp == /\ ~cable.vbus /\ cable.pend = {} /\ Stopped /\ ~dev.enabled
              /\ queue = <<>> /\ ~conn.now /\ ~conn.last
              /\ main \in {"generic_init", "cdc_init", "append"}

Resting == /\ ~cable.vbus /\ cable.pend \subseteq {"REMOVED"} /\ Stopped
           /\ OnlyClock(queue) /\ ~conn.now /\ ~conn.last /\ Polling

\* The cable is in and the main loop has not seen it.
PluggedIn == /\ cable.vbus /\ "REMOVED" \notin cable.pend /\ Stopped
             /\ "DETECTED" \in cable.pend \/ dev.enabled
             /\ cable.ready <=> "READY" \in cable.pend \/ conn.now
             /\ conn.now => cable.pend = {}
             /\ queue = <<>> /\ ~conn.last /\ Polling

\* The main loop has seen it and the device is not started.
Connecting == /\ cable.vbus /\ cable.ready /\ cable.pend = {} /\ Stopped
              /\ dev.enabled /\ conn.now
              /\ \/ main = "copy" /\ ~conn.last /\ queue = <<>>
                 \/ main \in {"choose", "wait_ready"} /\ conn.last /\ queue = <<>>
                 \/ main = "events" /\ conn.last /\ queue = <<"START_REQ">>

Connected == /\ cable.vbus /\ cable.ready /\ cable.pend = {} /\ Started
             /\ conn.now /\ conn.last /\ Polling /\ NoRequests(queue)

\* The cable is out and the device is not stopped: before the interrupt,
\* before the main loop has seen it, before and after the request.
PartingPend == cable.pend = {"REMOVED"} /\ conn.now /\ conn.last /\ Polling /\ OnlyClock(queue)
PartingSeen == /\ cable.pend = {} /\ ~conn.now /\ conn.last /\ OnlyClock(queue)
               /\ Polling \/ main = "copy"
PartingTold == /\ cable.pend = {} /\ ~conn.now /\ ~conn.last
               /\ \/ main = "choose" /\ OnlyClock(queue)
                  \/ main = "events" /\ OneStop(queue)
Parting == /\ ~cable.vbus /\ Started /\ bus = "off"
           /\ PartingPend \/ PartingSeen \/ PartingTold

Phase == StartingUp \/ Resting \/ PluggedIn \/ Connecting \/ Connected \/ Parting

ReadyNeedsCable == cable.ready => cable.vbus
ClockInUse == hfclk.on => sustate \in WithClock
CalmLife == ~cable.hasty => Phase

LifeInv == SessionInv /\ ReadyNeedsCable /\ ClockInUse /\ CalmLife /\ CalmAssertionsHold

-----------------------------------------------------------------------------
(* What the phases need to know of the queue. *)

LEMMA KindsEmpty ==
  ASSUME NEW q \in Seq(QueuedEvent), q = <<>>
  PROVE  OnlyClock(q) /\ NoRequests(q) /\ ~OneStop(q)
BY DEF OnlyClock, NoRequests, OneStop

LEMMA KindsAppend ==
  ASSUME NEW q \in Seq(QueuedEvent), NEW e \in QueuedEvent
  PROVE  /\ OnlyClock(q) /\ e = "HFCLK_READY" => OnlyClock(Append(q, e))
         /\ OneStop(q) /\ e = "HFCLK_READY" => OneStop(Append(q, e))
         /\ OnlyClock(q) /\ e = "STOP_REQ" => OneStop(Append(q, e))
         /\ NoRequests(q) /\ e \notin {"START_REQ", "STOP_REQ"} => NoRequests(Append(q, e))
<1>0. PICK r : r = Append(q, e) OBVIOUS
<1>1. Len(q) \in Nat /\ Len(r) = Len(q) + 1 /\ (\A i \in 1 .. Len(q) : r[i] = q[i])
      /\ r[Len(q) + 1] = e
  BY <1>0
<1>2. \A i \in 1 .. Len(r) : i \in 1 .. Len(q) \/ i = Len(q) + 1 BY <1>1
<1>3. OnlyClock(q) /\ e = "HFCLK_READY" => OnlyClock(r) BY <1>1, <1>2 DEF OnlyClock
<1>4. NoRequests(q) /\ e \notin {"START_REQ", "STOP_REQ"} => NoRequests(r)
  BY <1>1, <1>2 DEF NoRequests
<1>5. ASSUME OneStop(q), e = "HFCLK_READY" PROVE OneStop(r)
  <2>1. PICK k \in 1 .. Len(q) : /\ q[k] = "STOP_REQ"
                                 /\ \A i \in 1 .. Len(q) : i # k => q[i] = "HFCLK_READY"
    BY <1>5 DEF OneStop
  <2>2. k \in 1 .. Len(r) /\ r[k] = "STOP_REQ" BY <1>1, <2>1
  <2>3. \A i \in 1 .. Len(r) : i # k => r[i] = "HFCLK_READY" BY <1>1, <1>2, <1>5, <2>1
  <2> QED BY <2>2, <2>3 DEF OneStop
<1>6. ASSUME OnlyClock(q), e = "STOP_REQ" PROVE OneStop(r)
  <2>1. Len(q) + 1 \in 1 .. Len(r) /\ r[Len(q) + 1] = "STOP_REQ" BY <1>1, <1>6
  <2>2. \A i \in 1 .. Len(r) : i # Len(q) + 1 => r[i] = "HFCLK_READY"
    BY <1>1, <1>2, <1>6 DEF OnlyClock
  <2> QED BY <2>1, <2>2 DEF OneStop
<1> QED BY <1>0, <1>3, <1>4, <1>5, <1>6

LEMMA KindsTail ==
  ASSUME NEW q \in Seq(QueuedEvent), q # <<>>
  PROVE  /\ OnlyClock(q) => q[1] = "HFCLK_READY" /\ OnlyClock(Tail(q))
         /\ NoRequests(q) => q[1] \notin {"START_REQ", "STOP_REQ"} /\ NoRequests(Tail(q))
         /\ OneStop(q) => \/ q[1] = "STOP_REQ" /\ OnlyClock(Tail(q))
                          \/ q[1] = "HFCLK_READY" /\ OneStop(Tail(q))
<1>0. PICK r : r = Tail(q) OBVIOUS
<1>1. Len(q) \in Nat \ {0} /\ Len(r) = Len(q) - 1 /\ \A i \in 1 .. Len(q) - 1 : r[i] = q[i + 1]
  BY <1>0
<1>2. 1 \in 1 .. Len(q) BY <1>1
<1>3. \A i \in 1 .. Len(r) : i + 1 \in 1 .. Len(q) /\ i + 1 # 1 /\ r[i] = q[i + 1] BY <1>1
<1>4. OnlyClock(q) => q[1] = "HFCLK_READY" /\ OnlyClock(r) BY <1>2, <1>3 DEF OnlyClock
<1>5. NoRequests(q) => q[1] \notin {"START_REQ", "STOP_REQ"} /\ NoRequests(r)
  BY <1>2, <1>3 DEF NoRequests
<1>6. ASSUME OneStop(q)
      PROVE  \/ q[1] = "STOP_REQ" /\ OnlyClock(r)
             \/ q[1] = "HFCLK_READY" /\ OneStop(r)
  <2>1. PICK k \in 1 .. Len(q) : /\ q[k] = "STOP_REQ"
                                 /\ \A i \in 1 .. Len(q) : i # k => q[i] = "HFCLK_READY"
    BY <1>6 DEF OneStop
  <2>2. CASE k = 1 BY <1>3, <2>1, <2>2 DEF OnlyClock
  <2>3. CASE k # 1
    <3>1. q[1] = "HFCLK_READY" BY <1>2, <2>1, <2>3
    <3>2. k - 1 \in 1 .. Len(r) /\ (k - 1) + 1 = k BY <1>1, <2>1, <2>3
    <3>3. r[k - 1] = "STOP_REQ" BY <1>3, <2>1, <3>2
    <3>4. \A i \in 1 .. Len(r) : i # k - 1 => r[i] = "HFCLK_READY"
      <4> TAKE i \in 1 .. Len(r)
      <4>1. i # k - 1 => i + 1 # k BY <1>1, <2>1
      <4> QED BY <1>3, <2>1, <4>1
    <3> QED BY <3>1, <3>2, <3>3, <3>4 DEF OneStop
  <2> QED BY <2>2, <2>3
<1> QED BY <1>0, <1>4, <1>5, <1>6

-----------------------------------------------------------------------------
LEMMA LifeInvInit == SessionInit => LifeInv
<1> SUFFICES ASSUME SessionInit PROVE LifeInv OBVIOUS
<1>1. SessionInv BY SessionInvInit
<1>2. PICK plugged \in BOOLEAN :
       cable = [vbus |-> plugged, ready |-> plugged, irqOn |-> FALSE, hasty |-> plugged,
                pend |-> IF plugged THEN {"DETECTED", "READY"} ELSE {}]
  BY DEF SessionInit
<1>3. CASE plugged
  BY <1>1, <1>2, <1>3 DEF SessionInit, LifeInv, ReadyNeedsCable, ClockInUse, CalmLife,
     CalmAssertionsHold
<1>4. CASE ~plugged
  <2>1. StartingUp BY <1>2, <1>4 DEF SessionInit, StartingUp, Stopped
  <2> QED BY <1>1, <1>2, <1>4, <2>1
      DEF SessionInit, LifeInv, ReadyNeedsCable, ClockInUse, CalmLife, Phase, CalmAssertionsHold
<1> QED BY <1>3, <1>4

LEMMA LifeTypes ==
  ASSUME SessionInv
  PROVE  /\ cable \in [vbus : BOOLEAN, ready : BOOLEAN, pend : SUBSET {"DETECTED", "REMOVED", "READY"},
                       irqOn : BOOLEAN, hasty : BOOLEAN]
         /\ dev \in [enabled : BOOLEAN, irqOn : BOOLEAN, asleep : BOOLEAN]
         /\ queue \in Seq(QueuedEvent) /\ hfclk \in [on : BOOLEAN, asked : BOOLEAN]
         /\ conn \in [now : BOOLEAN, last : BOOLEAN]
BY DEF SessionInv, SessionTypeOK

\* What the rest of the invariant claims of a step, its types apart.
LifeKept == ReadyNeedsCable' /\ ClockInUse' /\ CalmLife' /\ CalmAssertionsHold'

LEMMA PlugLife == ASSUME LifeInv, Plug PROVE LifeKept
<1>1. SessionInv BY DEF LifeInv
<1>2. /\ cable'.vbus = TRUE /\ cable'.ready = cable.ready
      /\ cable'.pend = cable.pend \cup {"DETECTED"} /\ cable'.hasty = ~AtRestUnplugged
  BY <1>1, LifeTypes DEF Plug
<1>3. UNCHANGED <<dev, queue, sustate, hfclk, conn, main, failed>> BY DEF Plug
<1>4. ReadyNeedsCable' /\ ClockInUse' /\ CalmAssertionsHold'
  BY <1>2, <1>3 DEF LifeInv, ReadyNeedsCable, ClockInUse, CalmAssertionsHold
<1>5. ASSUME AtRestUnplugged PROVE PluggedIn'
  <2>1. /\ main = "events" /\ queue = <<>> /\ cable.pend = {} /\ ~conn.now /\ ~conn.last
        /\ ~dev.irqOn /\ sustate = "STOPPED"
    BY <1>1, <1>5, LifeTypes DEF AtRestUnplugged, Settled
  <2>2. bus' = "off" BY <2>1 DEF Plug
  <2>3. ~cable.ready BY DEF LifeInv, ReadyNeedsCable, Plug
  <2> QED BY <1>2, <1>3, <2>1, <2>2, <2>3 DEF PluggedIn, Stopped, Polling
<1>6. CalmLife' BY <1>2, <1>5 DEF CalmLife, Phase
<1> QED BY <1>4, <1>6 DEF LifeKept

LEMMA UnplugLife == ASSUME LifeInv, Unplug PROVE LifeKept
<1>1. SessionInv BY DEF LifeInv
<1>2. /\ cable'.vbus = FALSE /\ cable'.ready = FALSE
      /\ cable'.pend = cable.pend \cup {"REMOVED"} /\ cable'.hasty = (cable.hasty \/ ~Settled)
  BY <1>1, LifeTypes DEF Unplug
<1>3. UNCHANGED <<dev, queue, sustate, hfclk, conn, main, failed>> /\ bus' = "off" BY DEF Unplug
<1>4. ReadyNeedsCable' /\ ClockInUse' /\ CalmAssertionsHold'
  BY <1>2, <1>3 DEF LifeInv, ReadyNeedsCable, ClockInUse, CalmAssertionsHold
<1>5. ASSUME ~cable.hasty, Settled PROVE Phase'
  <2>1. main = "events" /\ queue = <<>> /\ cable.pend = {} /\ (conn.now <=> conn.last)
    BY <1>5 DEF Settled
  <2>2. cable.vbus BY DEF Unplug
  <2>3. PluggedIn \/ Connected
    BY <1>5, <2>1, <2>2
    DEF LifeInv, CalmLife, Phase, StartingUp, Resting, Connecting, Parting
  <2>4. OnlyClock(queue') BY <1>1, <1>3, <2>1, LifeTypes, KindsEmpty
  <2>5. CASE PluggedIn
    <3>1. Resting' BY <1>2, <1>3, <2>1, <2>4, <2>5 DEF PluggedIn, Resting, Stopped, Polling
    <3> QED BY <3>1 DEF Phase
  <2>6. CASE Connected
    <3>1. PartingPend' BY <1>2, <1>3, <2>1, <2>4, <2>6 DEF Connected, PartingPend, Polling
    <3>2. Parting' BY <1>2, <1>3, <2>6, <3>1 DEF Connected, Parting, Started
    <3> QED BY <3>2 DEF Phase
  <2> QED BY <2>3, <2>5, <2>6
<1>6. CalmLife' BY <1>2, <1>5 DEF CalmLife
<1> QED BY <1>4, <1>6 DEF LifeKept

LEMMA PowerReadyLife == ASSUME LifeInv, PowerReady PROVE LifeKept
<1>1. SessionInv BY DEF LifeInv
<1>2. /\ cable'.vbus = cable.vbus /\ cable'.ready = TRUE
      /\ cable'.pend = cable.pend \cup {"READY"} /\ cable'.hasty = cable.hasty
  BY <1>1, LifeTypes DEF PowerReady
<1>3. UNCHANGED <<bus, dev, queue, sustate, hfclk, conn, main, failed>> /\ cable.vbus /\ ~cable.ready
  BY DEF PowerReady
<1>4. ReadyNeedsCable' /\ ClockInUse' /\ CalmAssertionsHold'
  BY <1>2, <1>3 DEF LifeInv, ReadyNeedsCable, ClockInUse, CalmAssertionsHold
<1>5. ASSUME ~cable.hasty PROVE PluggedIn'
  <2>1. PluggedIn
    BY <1>3, <1>5
    DEF LifeInv, CalmLife, Phase, StartingUp, Resting, Connecting, Connected, Parting
  <2> QED BY <1>2, <1>3, <2>1 DEF PluggedIn, Stopped, Polling
<1>6. CalmLife' BY <1>2, <1>5 DEF CalmLife, Phase
<1> QED BY <1>4, <1>6 DEF LifeKept

LEMMA PowerIrqLife == ASSUME LifeInv, PowerIrq PROVE LifeKept
<1>1. SessionInv BY DEF LifeInv
<1>2. /\ cable'.vbus = cable.vbus /\ cable'.ready = cable.ready
      /\ cable'.pend = {} /\ cable'.hasty = cable.hasty
  BY <1>1, LifeTypes DEF PowerIrq
<1>3. UNCHANGED <<bus, queue, sustate, hfclk, main, failed>> /\ cable.pend # {}
  BY DEF PowerIrq
<1>4. /\ dev'.irqOn = dev.irqOn
      /\ dev'.enabled = IF "DETECTED" \in cable.pend THEN TRUE ELSE dev.enabled
  BY <1>1, LifeTypes DEF PowerIrq
<1>5. /\ conn'.last = conn.last
      /\ conn'.now = IF "READY" \in cable.pend THEN TRUE
                     ELSE IF "REMOVED" \in cable.pend THEN FALSE ELSE conn.now
  BY <1>1, LifeTypes DEF PowerIrq
<1>6. ReadyNeedsCable' /\ ClockInUse' /\ CalmAssertionsHold'
  BY <1>2, <1>3 DEF LifeInv, ReadyNeedsCable, ClockInUse, CalmAssertionsHold
<1>7. ASSUME ~cable.hasty PROVE Phase'
  <2>1. Resting \/ PluggedIn \/ (Parting /\ PartingPend)
    BY <1>3, <1>7
    DEF LifeInv, CalmLife, Phase, StartingUp, Connecting, Connected, Parting, PartingSeen, PartingTold
  <2>2. CASE Resting
    <3>1. Resting' BY <1>2, <1>3, <1>4, <1>5, <2>2 DEF Resting, Stopped, Polling
    <3> QED BY <3>1 DEF Phase
  <2>3. CASE PluggedIn
    <3>1. PluggedIn' BY <1>2, <1>3, <1>4, <1>5, <2>3 DEF PluggedIn, Stopped, Polling
    <3> QED BY <3>1 DEF Phase
  <2>4. CASE Parting /\ PartingPend
    <3>1. "READY" \notin cable.pend /\ "REMOVED" \in cable.pend /\ "DETECTED" \notin cable.pend
      BY <2>4 DEF PartingPend
    <3>2. PartingSeen' BY <1>2, <1>3, <1>5, <2>4, <3>1 DEF PartingPend, PartingSeen, Polling
    <3>3. Parting' BY <1>2, <1>3, <1>4, <2>4, <3>1, <3>2 DEF Parting, Started
    <3> QED BY <3>3 DEF Phase
  <2> QED BY <2>1, <2>2, <2>3, <2>4
<1>8. CalmLife' BY <1>2, <1>7 DEF CalmLife
<1> QED BY <1>6, <1>8 DEF LifeKept

LEMMA BusLife ==
  ASSUME LifeInv, NEW from, NEW to, NEW e \in {"RESET", "SUSPEND", "RESUME"},
         from \subseteq {"powered", "active", "suspended"}, BusEvent(from, to, e)
  PROVE  LifeKept
<1>1. SessionInv BY DEF LifeInv
<1>2. /\ bus # "off" /\ UNCHANGED <<cable, sustate, hfclk, conn, main, failed>>
      /\ queue' = Append(queue, e)
  BY DEF BusEvent
<1>3. dev'.enabled = dev.enabled /\ dev'.irqOn = dev.irqOn BY <1>1, LifeTypes DEF BusEvent
<1>4. ReadyNeedsCable' /\ ClockInUse' /\ CalmAssertionsHold'
  BY <1>2 DEF LifeInv, ReadyNeedsCable, ClockInUse, CalmAssertionsHold
<1>5. ASSUME ~cable.hasty PROVE Connected'
  <2>1. Connected
    BY <1>2, <1>5
    DEF LifeInv, CalmLife, Phase, StartingUp, Resting, PluggedIn, Connecting, Parting, Stopped
  <2>2. e \in QueuedEvent /\ e \notin {"START_REQ", "STOP_REQ"} BY DEF QueuedEvent
  <2>3. NoRequests(queue') BY <1>1, <1>2, <2>1, <2>2, LifeTypes, KindsAppend DEF Connected
  <2> QED BY <1>2, <1>3, <2>1, <2>3 DEF Connected, Started, Polling
<1>6. CalmLife' BY <1>2, <1>5 DEF CalmLife, Phase
<1> QED BY <1>4, <1>6 DEF LifeKept

LEMMA ClockStartedLife == ASSUME LifeInv, ClockStarted PROVE LifeKept
<1>1. SessionInv BY DEF LifeInv
<1>2. /\ UNCHANGED <<cable, bus, dev, sustate, conn, main, failed>>
      /\ queue' = Append(queue, "HFCLK_READY") /\ sustate \in WithClock
  BY DEF ClockStarted, WithClock
<1>3. ReadyNeedsCable' /\ ClockInUse' /\ CalmAssertionsHold'
  BY <1>2 DEF LifeInv, ReadyNeedsCable, ClockInUse, CalmAssertionsHold
<1>4. ASSUME ~cable.hasty PROVE Phase'
  <2>1. Connected \/ Parting
    BY <1>2, <1>4
    DEF LifeInv, CalmLife, Phase, StartingUp, Resting, PluggedIn, Connecting, Stopped, WithClock
  <2>2. "HFCLK_READY" \in QueuedEvent BY DEF QueuedEvent
  <2>3. /\ OnlyClock(queue) => OnlyClock(queue')
        /\ OneStop(queue) => OneStop(queue')
        /\ NoRequests(queue) => NoRequests(queue')
    BY <1>1, <1>2, <2>2, LifeTypes, KindsAppend
  <2>4. Connected => Connected' BY <1>2, <2>3 DEF Connected, Started, Polling
  <2>5. Parting => Parting'
    BY <1>2, <2>3 DEF Parting, PartingPend, PartingSeen, PartingTold, Started, Polling
  <2> QED BY <2>1, <2>4, <2>5 DEF Phase
<1>5. CalmLife' BY <1>2, <1>4 DEF CalmLife
<1> QED BY <1>3, <1>5 DEF LifeKept

\* The assertions the main loop makes at start-up and when it starts the
\* device are made in phases in which they hold.
LEMMA StartUpLife ==
  ASSUME LifeInv,
         GenericInitCall \/ CdcInitCall \/ StopDisable \/ StopRequest \/ StopFlag \/ AppendClass
  PROVE  LifeKept
<1>1. SessionInv BY DEF LifeInv
<1>2. cable'.vbus = cable.vbus /\ cable'.ready = cable.ready /\ cable'.pend = cable.pend
      /\ cable'.hasty = cable.hasty
  BY <1>1, LifeTypes
  DEF GenericInitCall, CdcInitCall, StopDisable, StopRequest, StopFlag, AppendClass
<1>3. UNCHANGED <<sustate, hfclk>>
  BY DEF GenericInitCall, CdcInitCall, StopDisable, StopRequest, StopFlag, AppendClass
<1>4. ReadyNeedsCable' /\ ClockInUse'
  BY <1>2, <1>3 DEF LifeInv, ReadyNeedsCable, ClockInUse
<1>5. main \in {"generic_init", "cdc_init", "stop", "stop_req", "stop_flag", "append"}
  BY DEF GenericInitCall, CdcInitCall, StopDisable, StopRequest, StopFlag, AppendClass, Step
<1>6. CASE cable.hasty
  <2>1. CalmAssertionsHold'
    BY <1>6 DEF LifeInv, CalmAssertionsHold, GenericInitCall, CdcInitCall, StopDisable,
       StopRequest, StopFlag, AppendClass, Assert
  <2> QED BY <1>2, <1>4, <1>6, <2>1 DEF LifeKept, CalmLife
<1>7. CASE ~cable.hasty
  <2>1. StartingUp
    BY <1>5, <1>7
    DEF LifeInv, CalmLife, Phase, Resting, PluggedIn, Connecting, Connected, Parting,
        PartingPend, PartingSeen, PartingTold, Polling
  <2>2. /\ main \in {"generic_init", "cdc_init", "append"} /\ ~dev.enabled /\ ~conn.now
    BY <2>1 DEF StartingUp
  <2>3. GenericInitCall \/ CdcInitCall \/ AppendClass
    BY <2>2 DEF StopDisable, StopRequest, StopFlag, Step
  <2>4. UNCHANGED <<bus, dev, queue, conn>>
    BY <2>3 DEF GenericInitCall, CdcInitCall, AppendClass
  <2>5. failed' = failed BY <2>2, <2>3 DEF GenericInitCall, CdcInitCall, AppendClass, Assert
  <2>6. main' \in {"cdc_init", "append", "events"}
        /\ (main' = "events" => main = "append")
    BY <2>2, <2>3 DEF GenericInitCall, CdcInitCall, AppendClass, Step
  <2>7. Phase'
    <3>1. CASE main' # "events"
      BY <1>2, <1>3, <2>1, <2>4, <2>6, <3>1 DEF StartingUp, Stopped, Phase
    <3>2. CASE main' = "events"
      <4>1. OnlyClock(queue') BY <1>1, <2>1, <2>4, LifeTypes, KindsEmpty DEF StartingUp
      <4> QED BY <1>2, <1>3, <2>1, <2>4, <3>2, <4>1 DEF StartingUp, Stopped, Resting, Polling, Phase
    <3> QED BY <3>1, <3>2
  <2> QED BY <1>4, <2>5, <2>7 DEF LifeInv, LifeKept, CalmLife, CalmAssertionsHold
<1> QED BY <1>6, <1>7

LEMMA ConnectionLife ==
  ASSUME LifeInv, ConnCompare \/ ConnCopy \/ ConnChoose \/ StartRequest \/ QueueEmpty
  PROVE  LifeKept
<1>1. SessionInv BY DEF LifeInv
<1>2. UNCHANGED <<cable, bus, dev, sustate, hfclk>>
  BY DEF ConnCompare, ConnCopy, ConnChoose, StartRequest, QueueEmpty
<1>3. ReadyNeedsCable' /\ ClockInUse'
  BY <1>2 DEF LifeInv, ReadyNeedsCable, ClockInUse
<1>4. CASE cable.hasty
  <2>1. CalmAssertionsHold'
    BY <1>4 DEF LifeInv, CalmAssertionsHold, ConnCompare, ConnCopy, ConnChoose, StartRequest,
       QueueEmpty, Assert
  <2> QED BY <1>2, <1>3, <1>4, <2>1 DEF LifeKept, CalmLife
<1>5. ASSUME ~cable.hasty PROVE Phase' /\ CalmAssertionsHold'
  <2>0. Phase /\ CalmAssertionsHold BY <1>5 DEF LifeInv, CalmLife
  <2>1. CASE QueueEmpty
    <3>1. main = "events" /\ main' = "compare" /\ queue = <<>> /\ UNCHANGED <<queue, conn, failed>>
      BY <2>1 DEF QueueEmpty, Step
    <3>2. ~OneStop(queue) BY <1>1, <3>1, LifeTypes, KindsEmpty
    <3>3. Resting \/ PluggedIn \/ Connected \/ (Parting /\ (PartingPend \/ PartingSeen))
      BY <2>0, <3>1, <3>2 DEF Phase, StartingUp, Connecting, Parting, PartingTold
    <3>4. Resting => Resting' BY <1>2, <3>1 DEF Resting, Stopped, Polling
    <3>5. PluggedIn => PluggedIn' BY <1>2, <3>1 DEF PluggedIn, Stopped, Polling
    <3>6. Connected => Connected' BY <1>2, <3>1 DEF Connected, Started, Polling
    <3>7. Parting /\ (PartingPend \/ PartingSeen) => Parting'
      BY <1>2, <3>1 DEF Parting, PartingPend, PartingSeen, Started, Polling
    <3> QED BY <2>0, <3>1, <3>3, <3>4, <3>5, <3>6, <3>7 DEF Phase, CalmAssertionsHold
  <2>2. CASE ConnCompare
    <3>1. /\ main = "compare" /\ UNCHANGED <<queue, conn, failed>>
          /\ main' = IF conn.last # conn.now THEN "copy" ELSE "events"
      BY <2>2 DEF ConnCompare, Step
    <3>2. (conn.last # conn.now) <=> ~(conn.last <=> conn.now) BY <1>1, LifeTypes
    <3>3. Resting \/ PluggedIn \/ Connected \/ (Parting /\ (PartingPend \/ PartingSeen))
      BY <2>0, <3>1 DEF Phase, StartingUp, Connecting, Parting, PartingTold
    <3>4. Resting => Resting' BY <1>2, <3>1, <3>2 DEF Resting, Stopped, Polling
    <3>5. PluggedIn => PluggedIn' \/ Connecting'
      <4>1. CASE PluggedIn /\ ~conn.now
        BY <1>2, <3>1, <3>2, <4>1 DEF PluggedIn, Stopped, Polling
      <4>2. CASE PluggedIn /\ conn.now /\ main' = "events"
        BY <3>1, <3>2, <4>2 DEF PluggedIn
      <4>3. CASE PluggedIn /\ conn.now /\ main' = "copy"
        BY <1>2, <3>1, <4>3 DEF PluggedIn, Connecting, Stopped
      <4> QED BY <3>1, <4>1, <4>2, <4>3
    <3>6. Connected => Connected' BY <1>2, <3>1, <3>2 DEF Connected, Started, Polling
    <3>7. Parting /\ (PartingPend \/ PartingSeen) => Parting'
      BY <1>2, <3>1, <3>2 DEF Parting, PartingPend, PartingSeen, Started, Polling
    <3> QED BY <2>0, <3>1, <3>3, <3>4, <3>5, <3>6, <3>7 DEF Phase, CalmAssertionsHold
  <2>3. CASE ConnCopy
    <3>1. /\ main = "copy" /\ main' = "choose" /\ UNCHANGED <<queue, failed>>
      BY <2>3 DEF ConnCopy, Step
    <3>2. conn'.now = conn.now /\ conn'.last = conn.now BY <1>1, <2>3, LifeTypes DEF ConnCopy
    <3>3. Connecting \/ (Parting /\ PartingSeen)
      BY <2>0, <3>1 DEF Phase, StartingUp, Resting, PluggedIn, Connected, Parting, PartingPend,
         PartingTold, Polling
    <3>4. Connecting => Connecting' BY <1>2, <3>1, <3>2 DEF Connecting, Stopped
    <3>5. Parting /\ PartingSeen => Parting'
      BY <1>2, <3>1, <3>2 DEF Parting, PartingSeen, PartingTold, Started
    <3> QED BY <2>0, <3>1, <3>3, <3>4, <3>5 DEF Phase, CalmAssertionsHold
  <2>4. CASE ConnChoose
    <3>1. main = "choose" /\ UNCHANGED conn BY <2>4 DEF ConnChoose, Step
    <3>2. Connecting \/ (Parting /\ PartingTold)
      BY <2>0, <3>1 DEF Phase, StartingUp, Resting, PluggedIn, Connected, Parting, PartingPend,
         PartingSeen, Polling
    <3>3. CASE Connecting
      <4>1. conn.now /\ dev.enabled BY <3>3 DEF Connecting
      <4>2. main' = "wait_ready" /\ UNCHANGED queue /\ failed' = failed
        BY <2>4, <4>1 DEF ConnChoose, Step, Assert
      <4>3. Connecting' BY <1>2, <3>1, <3>3, <4>2 DEF Connecting, Stopped
      <4> QED BY <2>0, <4>2, <4>3 DEF Phase, CalmAssertionsHold
    <3>4. CASE Parting /\ PartingTold
      <4>1. ~conn.now /\ OnlyClock(queue) BY <3>1, <3>4 DEF PartingTold
      <4>2. main' = "events" /\ queue' = Append(queue, "STOP_REQ") /\ failed' = failed
        BY <2>4, <4>1 DEF ConnChoose, Step
      <4>3. OneStop(queue') BY <1>1, <4>1, <4>2, LifeTypes, KindsAppend DEF QueuedEvent
      <4>4. Parting' BY <1>2, <3>1, <3>4, <4>2, <4>3 DEF Parting, PartingTold, Started
      <4> QED BY <2>0, <4>2, <4>4 DEF Phase, CalmAssertionsHold
    <3> QED BY <3>2, <3>3, <3>4
  <2>5. CASE StartRequest
    <3>1. main = "wait_ready" /\ main' = "events" /\ UNCHANGED <<conn, failed>>
      BY <2>5 DEF StartRequest, Step
    <3>2. Connecting
      BY <2>0, <3>1 DEF Phase, StartingUp, Resting, PluggedIn, Connected, Parting, PartingPend,
         PartingSeen, PartingTold, Polling
    <3>3. cable.ready /\ queue = <<>> /\ conn.last BY <3>1, <3>2 DEF Connecting
    <3>4. queue' = Append(queue, "START_REQ") BY <2>5, <3>2 DEF StartRequest, Connecting
    <3>5. queue' = <<"START_REQ">> BY <3>3, <3>4
    <3>6. Connecting' BY <1>2, <3>1, <3>2, <3>3, <3>5 DEF Connecting, Stopped
    <3> QED BY <2>0, <3>1, <3>6 DEF Phase, CalmAssertionsHold
  <2> QED BY <2>1, <2>2, <2>3, <2>4, <2>5
<1>6. CASE ~cable.hasty BY <1>2, <1>3, <1>5, <1>6 DEF LifeKept, CalmLife
<1> QED BY <1>4, <1>6

\* sustate_set keeps the clock to the states that use it.
LEMMA SetKeepsClock ==
  ASSUME SessionInv, ClockInUse, NEW s \in Sustate, NEW rest \in Seq(QueuedEvent),
         SustateSet(s, rest)
  PROVE  ClockInUse'
<1>1. hfclk \in [on : BOOLEAN, asked : BOOLEAN] BY LifeTypes
<1>2. sustate' = s BY DEF SustateSet
<1>3. CASE Requested(s)
  <2>1. s \in WithClock BY <1>3 DEF Requested
  <2> QED BY <1>2, <2>1 DEF ClockInUse
<1>4. CASE ~Requested(s) /\ Released(s)
  <2>1. hfclk' = [hfclk EXCEPT !.on = FALSE] BY <1>4 DEF SustateSet
  <2>2. hfclk'.on = FALSE BY <1>1, <2>1
  <2> QED BY <2>2 DEF ClockInUse
<1>5. CASE ~Requested(s) /\ ~Released(s)
  <2>1. hfclk' = hfclk BY <1>5 DEF SustateSet
  <2>2. sustate \in WithClock => s \in WithClock BY <1>5 DEF Released
  <2> QED BY <1>2, <2>1, <2>2 DEF ClockInUse
<1> QED BY <1>3, <1>4, <1>5

LEMMA ExecuteLife == ASSUME LifeInv, Execute PROVE LifeKept
<1> DEFINE rest == Tail(queue)
           e == queue[1]
<1>1. SessionInv /\ ClockInUse /\ ReadyNeedsCable BY DEF LifeInv
<1>2. /\ queue \in Seq(QueuedEvent) /\ queue # <<>> /\ rest \in Seq(QueuedEvent)
      /\ Head(queue) = e /\ e \in QueuedEvent /\ main = "events"
  BY <1>1, LifeTypes DEF Execute
<1>3. ExecEvent(e, rest) /\ UNCHANGED <<cable, conn, main>> BY <1>2 DEF Execute
<1>4. /\ OnlyClock(queue) => e = "HFCLK_READY" /\ OnlyClock(rest)
      /\ NoRequests(queue) => e \notin {"START_REQ", "STOP_REQ"} /\ NoRequests(rest)
      /\ OneStop(queue) => \/ e = "STOP_REQ" /\ OnlyClock(rest)
                           \/ e = "HFCLK_READY" /\ OneStop(rest)
  BY <1>2, KindsTail
<1>5. queue = <<"START_REQ">> => e = "START_REQ" /\ rest = <<>> OBVIOUS
<1>6. Append(rest, "SUSPEND_REQ") \in Seq(QueuedEvent) /\ "SUSPEND_REQ" \in QueuedEvent
      /\ "HFCLK_READY" \in QueuedEvent
  BY <1>2 DEF QueuedEvent
<1>7. sustate \in Sustate BY <1>1 DEF SessionInv, SessionTypeOK
<1> HIDE DEF rest, e
<1>8. ASSUME NEW s \in Sustate, NEW r \in Seq(QueuedEvent), SustateSet(s, r)
      PROVE  /\ ClockInUse' /\ sustate' = s
             /\ queue' = r \/ (Requested(s) /\ queue' = Append(r, "HFCLK_READY"))
  BY <1>1, <1>8, SetKeepsClock, SetStep
<1>9. ClockInUse' /\ (Keep(rest) \/ \E s \in Sustate, r \in {rest, Append(rest, "SUSPEND_REQ")} : SustateSet(s, r))
  <2>1. \/ Keep(rest)
        \/ \E s \in Sustate : SustateSet(s, rest)
        \/ \E s \in Sustate : SustateSet(s, Append(rest, "SUSPEND_REQ"))
    BY <1>3 DEF ExecEvent, ExecStart, ExecStop, ExecSuspendReq, Sustate
  <2>2. Keep(rest) => ClockInUse' BY <1>1 DEF Keep, ClockInUse
  <2> QED BY <1>2, <1>6, <1>8, <2>1, <2>2
<1>10. ReadyNeedsCable' BY <1>1, <1>3 DEF ReadyNeedsCable
<1>11. e \notin {"START_REQ", "STOP_REQ"} => UNCHANGED <<bus, dev, failed>>
  BY <1>3 DEF ExecEvent
<1>12. e = "HFCLK_READY" =>
         queue' = rest /\ (sustate' = sustate \/ (sustate = "RESUMING" /\ sustate' = "ACTIVE"))
  <2> SUFFICES ASSUME e = "HFCLK_READY"
               PROVE  queue' = rest /\ (sustate' = sustate \/ (sustate = "RESUMING" /\ sustate' = "ACTIVE"))
    OBVIOUS
  <2>1. IF sustate = "RESUMING" THEN SustateSet("ACTIVE", rest) ELSE Keep(rest)
    BY <1>3 DEF ExecEvent
  <2>2. CASE sustate = "RESUMING"
    <3>1. ~Requested("ACTIVE") BY <2>2 DEF Requested, WithClock
    <3>2. "ACTIVE" \in Sustate BY DEF Sustate
    <3> QED BY <1>2, <1>8, <2>1, <2>2, <3>1, <3>2
  <2>3. CASE sustate # "RESUMING" BY <2>1, <2>3 DEF Keep
  <2> QED BY <2>2, <2>3
<1>13. CASE cable.hasty
  <2>1. CalmAssertionsHold'
    BY <1>3, <1>13 DEF LifeInv, CalmAssertionsHold, ExecEvent, ExecStart, ExecStop, Assert
  <2> QED BY <1>3, <1>9, <1>10, <1>13, <2>1 DEF LifeKept, CalmLife
<1>14. ASSUME ~cable.hasty PROVE Phase' /\ failed' = failed
  <2>1. Resting \/ Connecting \/ Connected \/ Parting
    BY <1>2, <1>14 DEF LifeInv, CalmLife, Phase, StartingUp, PluggedIn
  <2>2. CASE Resting
    <3>1. e = "HFCLK_READY" /\ OnlyClock(rest) /\ sustate = "STOPPED"
      BY <1>4, <2>2 DEF Resting, Stopped
    <3>2. Resting' BY <1>3, <1>11, <1>12, <2>2, <3>1 DEF Resting, Stopped, Polling
    <3> QED BY <1>11, <3>1, <3>2 DEF Phase
  <2>3. CASE Connecting
    <3>1. queue = <<"START_REQ">> /\ conn.last /\ dev.enabled BY <1>2, <2>3 DEF Connecting
    <3>2. ExecStart(rest) BY <1>3, <1>5, <3>1 DEF ExecEvent
    <3>3. failed' = failed BY <3>1, <3>2 DEF ExecStart, Assert
    <3>4. dev'.enabled = dev.enabled /\ dev'.irqOn = TRUE
      BY <1>1, <3>2, LifeTypes DEF ExecStart
    <3>5. queue' = rest
      <4>1. "STARTED" \in Sustate /\ ~Requested("STARTED") BY DEF Sustate, Requested, WithClock
      <4> QED BY <1>2, <1>8, <3>2, <4>1 DEF ExecStart
    <3>6. NoRequests(queue') BY <1>2, <1>5, <3>1, <3>5, KindsEmpty
    <3>7. Connected' BY <1>2, <1>3, <2>3, <3>1, <3>4, <3>6 DEF Connecting, Connected, Started, Polling
    <3> QED BY <3>3, <3>7 DEF Phase
  <2>4. CASE Connected
    <3>1. e \notin {"START_REQ", "STOP_REQ"} /\ NoRequests(rest) BY <1>4, <2>4 DEF Connected
    <3>2. NoRequests(Append(rest, "SUSPEND_REQ")) BY <1>2, <1>6, <3>1, KindsAppend
    <3>3. NoRequests(queue')
      <4>1. CASE Keep(rest) BY <3>1, <4>1 DEF Keep
      <4>2. ASSUME NEW s \in Sustate, NEW r \in {rest, Append(rest, "SUSPEND_REQ")}, SustateSet(s, r)
            PROVE  NoRequests(queue')
        <5>1. NoRequests(r) /\ r \in Seq(QueuedEvent) BY <1>2, <1>6, <3>1, <3>2
        <5>2. NoRequests(Append(r, "HFCLK_READY")) BY <1>6, <5>1, KindsAppend
        <5> QED BY <1>8, <4>2, <5>1, <5>2
      <4> QED BY <1>9, <4>1, <4>2
    <3>4. Connected' BY <1>3, <1>11, <2>4, <3>1, <3>3 DEF Connected, Started, Polling
    <3> QED BY <1>11, <3>1, <3>4 DEF Phase
  <2>5. CASE Parting /\ (PartingPend \/ PartingSeen)
    <3>1. e = "HFCLK_READY" /\ OnlyClock(rest)
      BY <1>4, <2>5 DEF PartingPend, PartingSeen
    <3>2. Parting' BY <1>3, <1>11, <1>12, <2>5, <3>1
      DEF Parting, PartingPend, PartingSeen, Started, Polling
    <3> QED BY <1>11, <3>1, <3>2 DEF Phase
  <2>6. CASE Parting /\ PartingTold
    <3>1. OneStop(queue) BY <1>2, <2>6 DEF PartingTold
    <3>2. CASE e = "HFCLK_READY" /\ OneStop(rest)
      <4>1. Parting' BY <1>2, <1>3, <1>11, <1>12, <2>6, <3>2 DEF Parting, PartingTold, Started
      <4> QED BY <1>11, <3>2, <4>1 DEF Phase
    <3>3. CASE e = "STOP_REQ" /\ OnlyClock(rest)
      <4>1. ExecStop(rest) BY <1>3, <3>3 DEF ExecEvent
      <4>2. failed' = failed BY <2>6, <4>1 DEF ExecStop, Assert, Parting, Started
      <4>3. dev'.irqOn = FALSE /\ bus' = "off" BY <1>1, <4>1, LifeTypes DEF ExecStop, Disabled
      <4>4. queue' = rest /\ sustate' = "STOPPED"
        <5>1. "STOPPED" \in Sustate /\ ~Requested("STOPPED") BY DEF Sustate, Requested, WithClock
        <5> QED BY <1>2, <1>8, <4>1, <5>1 DEF ExecStop
      <4>5. Resting' BY <1>2, <1>3, <2>6, <3>3, <4>3, <4>4
        DEF Parting, PartingTold, Resting, Stopped, Polling
      <4> QED BY <4>2, <4>5 DEF Phase
    <3> QED BY <1>4, <3>1, <3>2, <3>3
  <2> QED BY <2>1, <2>2, <2>3, <2>4, <2>5, <2>6 DEF Parting
<1>15. CASE ~cable.hasty
  BY <1>9, <1>10, <1>14, <1>15 DEF LifeInv, LifeKept, CalmLife, CalmAssertionsHold
<1> QED BY <1>13, <1>15

LEMMA LifeInvNext == LifeInv /\ [SessionNext]_sessionVars => LifeInv'
<1> SUFFICES ASSUME LifeInv, [SessionNext]_sessionVars PROVE LifeInv' OBVIOUS
<1>1. SessionInv' BY SessionInvNext DEF LifeInv
<1>2. CASE UNCHANGED sessionVars
  <2>1. Phase => Phase'
    BY <1>2 DEF sessionVars, Phase, StartingUp, Resting, PluggedIn, Connecting, Connected,
       Parting, PartingPend, PartingSeen, PartingTold, Stopped, Started, Polling
  <2> QED BY <1>1, <1>2, <2>1 DEF sessionVars, LifeInv, ReadyNeedsCable, ClockInUse, CalmLife,
       CalmAssertionsHold
<1>3. CASE SessionNext
  <2>1. BusReset \/ BusSuspend \/ BusResume => LifeKept
    BY BusLife DEF BusReset, BusSuspend, BusResume
  <2>2. LifeKept
    BY <1>3, <2>1, PlugLife, UnplugLife, PowerReadyLife, PowerIrqLife, ClockStartedLife,
       StartUpLife, ConnectionLife, ExecuteLife
    DEF SessionNext, MainStep
  <2> QED BY <1>1, <2>2 DEF LifeInv, LifeKept
<1> QED BY <1>2, <1>3

\* Every reachable state satisfies the life's invariant.
THEOREM LifeInvariant == SessionSpec => []LifeInv
BY LifeInvInit, LifeInvNext, PTL DEF SessionSpec

\* Every ASSERT on the way of the device's life holds as long as the cable is
\* moved only when the firmware is at rest.
THEOREM AssertionsHoldInCalm == SessionSpec => []CalmAssertionsHold
<1>1. LifeInv => CalmAssertionsHold BY DEF LifeInv
<1> QED BY <1>1, LifeInvariant, PTL

\* When everything has been worked off the device is started exactly if the
\* cable is in, and a stopped device holds no clock.
THEOREM DeviceFollowsCable == SessionSpec => []SettledFollowsCable
<1>1. ASSUME LifeInv PROVE SettledFollowsCable
  <2> SUFFICES ASSUME Settled, cable.ready <=> cable.vbus, ~cable.hasty
               PROVE  /\ Started <=> cable.vbus
                      /\ ~cable.vbus => sustate = "STOPPED" /\ ~hfclk.on
    <3>1. SessionInv BY <1>1 DEF LifeInv
    <3>2. (cable.ready = cable.vbus) <=> (cable.ready <=> cable.vbus) BY <3>1, LifeTypes
    <3>3. (Started = cable.vbus) <=> (Started <=> cable.vbus) BY <3>1, LifeTypes DEF Started
    <3> QED BY <3>2, <3>3 DEF SettledFollowsCable
  <2>1. main = "events" /\ queue = <<>> /\ cable.pend = {} /\ (conn.now <=> conn.last)
    BY DEF Settled
  <2>2. ~OneStop(queue) BY <1>1, <2>1, LifeTypes, KindsEmpty DEF LifeInv
  <2>3. Phase BY <1>1 DEF LifeInv, CalmLife
  <2>4. Resting \/ Connected
    BY <2>1, <2>2, <2>3
    DEF Phase, StartingUp, PluggedIn, Connecting, Parting, PartingPend, PartingSeen, PartingTold
  <2>5. CASE Resting
    <3>1. sustate = "STOPPED" /\ ~cable.vbus /\ ~Started BY <2>5 DEF Resting, Stopped, Started
    <3>2. ~hfclk.on BY <1>1, <3>1 DEF LifeInv, ClockInUse, WithClock
    <3> QED BY <3>1, <3>2
  <2>6. CASE Connected BY <2>6 DEF Connected
  <2> QED BY <2>4, <2>5, <2>6
<1> QED BY <1>1, LifeInvariant, PTL

-----------------------------------------------------------------------------
(* The serial port and its echo: when the port listens, when tx_flag is     *)
(* true, and that the packet an echo begins with is never overwritten.      *)

InType == [waiting : BOOLEAN, ready : BOOLEAN, aborted : BOOLEAN, full : BOOLEAN,
           left : 0 .. MaxPackets, fed : 0 .. MaxPackets]
OutType == [waiting : BOOLEAN, ready : BOOLEAN, aborted : BOOLEAN, consuming : BOOLEAN,
            got : 0 .. MaxPackets, last : BOOLEAN]
DmaType == [of : {"none", "in", "out"}, irq : BOOLEAN]
LinkType == [enabled : BOOLEAN, state : LinkState, clock : {"off", "asked", "on"},
             up : BOOLEAN, asked : BOOLEAN]
PortType == [dtr : BOOLEAN, opened : BOOLEAN, tx_flag : BOOLEAN, flag : BOOLEAN,
             size : 0 .. MaxPackets, pc : {"events", "handle", "read"}]
HistoryType == [unread : BOOLEAN, unsent : BOOLEAN, torn : 0 .. MaxPackets]

-----------------------------------------------------------------------------
(* Events in a queue. *)

\* What the host causes; a suspend goes on until its request is executed.
HostEvent == PortEvent \ {"TX_DONE", "RX_DONE", "HFCLK_READY"}

\* q holds one of events; it holds at most one of them.
Holds(q, events) == \E k \in 1 .. Len(q) : q[k] \in events
Lone(q, events) ==
  \A j, k \in 1 .. Len(q) : q[j] \in events /\ q[k] \in events => j = k

-----------------------------------------------------------------------------
(* The inductive invariant. *)

\* An IN transfer that is not with the DMA has a packet to feed, and one that
\* has fed none yet is ready to; one packet at a time is with the DMA or awaits
\* the host.
InSound(in, of) ==
  /\ in.waiting => ~in.aborted
  /\ in.waiting /\ of # "in" => in.left >= 1
  /\ in.fed + in.left <= MaxPackets
  /\ in.left >= 1 /\ in.fed = 0 => in.waiting /\ in.ready
  /\ in.full => of # "in"
  /\ in.waiting /\ (in.full \/ of = "in") => ~in.ready

\* The IN endpoint takes the next transfer.
InIdle(in, of) == ~in.waiting /\ ~in.full /\ of # "in" /\ in.ready

\* An OUT transfer has room for a packet or its last one is with the DMA.
OutSound(out, of) ==
  /\ out.waiting => ~out.aborted /\ (out.consuming \/ of = "out")
  /\ ~out.waiting /\ of = "out" => out.aborted
  /\ out.consuming => out.got < MaxPackets
  /\ out.waiting /\ of = "out" /\ ~out.consuming => out.got >= 1

\* The host has at most one event in the queue, and waits while it has; what
\* it asks for fits the state of the bus, and a suspend is noted.
HostWaits ==
  /\ Lone(portq, HostEvent)
  /\ ~link.asked => ~Holds(portq, HostEvent)
  /\ Holds(portq, {"DTR_ON"}) => link.enabled /\ link.state = "ACTIVE"
  /\ Holds(portq, {"CONFIG"}) => ~link.enabled
  /\ Holds(portq, {"RESET", "RESUME"}) => link.up
  /\ Holds(portq, {"RESUME"}) \/ (~link.up /\ ~Holds(portq, {"SUSPEND"})) =>
       link.state \in {"SUSPENDING", "SUSPEND"}
  /\ link.state # "ACTIVE" => history.unread /\ history.unsent

\* A read of the port is in one place at a time: under way, done and in the
\* queue, noted in flag, or about to be answered by the next.
OneRead ==
  /\ Lone(portq, {"RX_DONE"})
  /\ epout.waiting => /\ port.dtr /\ link.enabled
                      /\ ~port.flag /\ port.pc # "read" /\ ~Holds(portq, {"RX_DONE"})
  /\ port.flag \/ port.pc = "read" => ~Holds(portq, {"RX_DONE"})
  /\ port.pc = "read" => ~port.flag
  /\ Holds(portq, {"RX_DONE"}) => epout.got >= 1
  /\ port.flag => port.size >= 1

\* While a transfer of the port is on its way, or its end not yet announced, no
\* other is begun.
OneSend ==
  /\ Lone(portq, {"TX_DONE"})
  /\ ~InIdle(epin, dma.of) => port.tx_flag /\ ~Holds(portq, {"TX_DONE"})
  /\ Holds(portq, {"TX_DONE"}) => port.tx_flag

\* What a read leaves behind when the port closes is worked off before the
\* host opens it again.
ClosedIsWorkedOff ==
  /\ port.opened = port.dtr
  /\ ~port.dtr /\ (Holds(portq, {"RX_DONE"}) \/ port.flag) =>
       link.asked /\ ~Holds(portq, HostEvent)
  /\ ~link.enabled /\ port.opened => history.unread

CdcInv == /\ CdcTypeOK /\ InSound(epin, dma.of) /\ OutSound(epout, dma.of)
          /\ HostWaits /\ OneRead /\ OneSend /\ ClosedIsWorkedOff
          /\ OpenPortListens /\ BusyMeansSending /\ EchoStartsIntact
-----------------------------------------------------------------------------
(* Queues. *)

LEMMA HoldsAppend ==
  ASSUME NEW S, NEW q \in Seq(S), NEW e \in S, NEW events
  PROVE  Holds(Append(q, e), events) <=> Holds(q, events) \/ e \in events
<1>1. /\ Len(Append(q, e)) = Len(q) + 1 /\ Len(q) \in Nat
      /\ \A k \in 1 .. Len(q) : Append(q, e)[k] = q[k]
      /\ Append(q, e)[Len(q) + 1] = e
  OBVIOUS
<1>2. \A k \in 1 .. Len(q) + 1 : k \in 1 .. Len(q) \/ k = Len(q) + 1
  BY <1>1
<1>3. Len(q) + 1 \in 1 .. Len(q) + 1 /\ \A k \in 1 .. Len(q) : k \in 1 .. Len(q) + 1
  BY <1>1
<1> QED
  BY <1>1, <1>2, <1>3 DEF Holds

LEMMA HoldsTail ==
  ASSUME NEW S, NEW q \in Seq(S), q # <<>>, NEW events
  PROVE  Holds(q, events) <=> Holds(Tail(q), events) \/ Head(q) \in events
<1>1. /\ Len(q) \in Nat \ {0} /\ Len(Tail(q)) = Len(q) - 1
      /\ \A k \in 1 .. Len(q) - 1 : Tail(q)[k] = q[k + 1]
      /\ Head(q) = q[1]
  OBVIOUS
<1>2. \A k \in 1 .. Len(q) : k = 1 \/ (k - 1 \in 1 .. Len(q) - 1 /\ (k - 1) + 1 = k)
  BY <1>1
<1>3. 1 \in 1 .. Len(q) /\ \A k \in 1 .. Len(q) - 1 : k + 1 \in 1 .. Len(q)
  BY <1>1
<1> QED
  BY <1>1, <1>2, <1>3 DEF Holds

LEMMA LoneAppend ==
  ASSUME NEW S, NEW q \in Seq(S), NEW e \in S, NEW events,
         Lone(q, events), e \notin events \/ ~Holds(q, events)
  PROVE  Lone(Append(q, e), events)
<1>1. /\ Len(Append(q, e)) = Len(q) + 1 /\ Len(q) \in Nat
      /\ \A k \in 1 .. Len(q) : Append(q, e)[k] = q[k]
      /\ Append(q, e)[Len(q) + 1] = e
  OBVIOUS
<1>2. \A k \in 1 .. Len(q) + 1 : k \in 1 .. Len(q) \/ k = Len(q) + 1
  BY <1>1
<1> QED
  BY <1>1, <1>2 DEF Holds, Lone

LEMMA LoneTail ==
  ASSUME NEW S, NEW q \in Seq(S), q # <<>>, NEW events, Lone(q, events)
  PROVE  /\ Lone(Tail(q), events)
         /\ Head(q) \in events => ~Holds(Tail(q), events)
<1>1. /\ Len(q) \in Nat \ {0} /\ Len(Tail(q)) = Len(q) - 1
      /\ \A k \in 1 .. Len(q) - 1 : Tail(q)[k] = q[k + 1]
      /\ Head(q) = q[1]
  OBVIOUS
<1>2. 1 \in 1 .. Len(q) /\ \A k \in 1 .. Len(q) - 1 : k + 1 \in 1 .. Len(q) /\ k + 1 # 1
  BY <1>1
<1>3. \A j, k \in 1 .. Len(q) - 1 : j + 1 = k + 1 => j = k
  BY <1>1
<1> QED
  BY <1>1, <1>2, <1>3 DEF Holds, Lone

\* The two ways to say that an event is in the queue.
LEMMA InPortqHolds == ASSUME NEW e PROVE InPortq(e) <=> Holds(portq, {e})
  BY DEF InPortq, Holds

LEMMA InPortqHoldsNext == ASSUME NEW e PROVE InPortq(e)' <=> Holds(portq', {e})
  BY DEF InPortq, Holds

LEMMA CdcTypes ==
  CdcTypeOK <=> /\ epin \in InType /\ epout \in OutType /\ dma \in DmaType
                /\ link \in LinkType /\ port \in PortType /\ portq \in Seq(PortEvent)
                /\ history \in HistoryType
  BY DEF CdcTypeOK, InType, OutType, DmaType, LinkType, PortType, HistoryType

-----------------------------------------------------------------------------
(* Every step keeps the invariant. *)

LEMMA CdcInvInit == CdcInit => CdcInv
<1> SUFFICES ASSUME CdcInit PROVE CdcInv
  OBVIOUS
<1>1. CdcTypeOK
  <2>1. 0 \in 0 .. MaxPackets /\ <<>> \in Seq(PortEvent)
    BY CdcAssumption
  <2> QED
    BY <2>1 DEF CdcInit, CdcTypeOK, LinkState
<1>2. \A events : ~Holds(<<>>, events) /\ Lone(<<>>, events)
  BY DEF Holds, Lone
<1>3. InSound(epin, dma.of) /\ OutSound(epout, dma.of)
  BY CdcAssumption DEF CdcInit, InSound, OutSound
<1>4. HostWaits /\ OneRead /\ OneSend /\ ClosedIsWorkedOff
  BY <1>2 DEF CdcInit, HostWaits, OneRead, OneSend, InIdle, ClosedIsWorkedOff
<1>5. OpenPortListens /\ BusyMeansSending /\ EchoStartsIntact
  BY DEF CdcInit, OpenPortListens, BusyMeansSending, EchoStartsIntact
<1> QED
  BY <1>1, <1>3, <1>4, <1>5 DEF CdcInv

\* usbd_dmareq_process, whatever the interrupt was about.
LEMMA DmaRequestKeeps ==
  ASSUME port \in PortType, history \in HistoryType, history.torn # 1,
         NEW in \in InType, NEW out \in OutType, NEW of \in {"none", "in", "out"},
         InSound(in, of), OutSound(out, of), out.waiting => ~port.flag,
         DmaRequest(in, out, of)
  PROVE  /\ epin' \in InType /\ epout' \in OutType /\ dma' \in DmaType /\ ~dma'.irq
         /\ InSound(epin', dma'.of) /\ OutSound(epout', dma'.of)
         /\ epin'.waiting = in.waiting /\ epin'.full = in.full
         /\ epout'.waiting = out.waiting /\ epout'.got >= out.got
         /\ of = "in" => dma'.of = "in"
         /\ InIdle(in, of) <=> InIdle(epin', dma'.of)
         /\ history' \in HistoryType /\ history'.unread = history.unread
         /\ history'.unsent = history.unsent /\ history'.torn # 1
<1> DEFINE feeds == of = "none" /\ in.waiting /\ in.ready
           consumes == of = "none" /\ ~feeds /\ out.waiting /\ out.ready
<1>1. /\ epin' = IF feeds THEN [in EXCEPT !.ready = FALSE, !.left = @ - 1, !.fed = @ + 1] ELSE in
      /\ epout' = IF consumes
                    THEN [out EXCEPT !.ready = FALSE, !.got = @ + 1,
                            !.consuming = ~out.last /\ out.got + 1 < MaxPackets]
                    ELSE out
      /\ dma' = [of |-> IF feeds THEN "in" ELSE IF consumes THEN "out" ELSE of, irq |-> FALSE]
      /\ history' = IF consumes /\ Overwrites(in, out)
                      THEN [history EXCEPT !.torn = out.got + 1] ELSE history
  BY DEF DmaRequest
<1>2. CASE feeds
  <2>1. /\ epin' = [in EXCEPT !.ready = FALSE, !.left = in.left - 1, !.fed = in.fed + 1]
        /\ epout' = out /\ dma' = [of |-> "in", irq |-> FALSE] /\ history' = history
    BY <1>1, <1>2
  <2>2. in.left \in 1 .. MaxPackets /\ in.fed \in 0 .. MaxPackets /\ in.fed + in.left <= MaxPackets
        /\ MaxPackets \in Nat
    BY <1>2, CdcAssumption DEF InSound, InType
  <2>3. in.left - 1 \in 0 .. MaxPackets /\ in.fed + 1 \in 0 .. MaxPackets /\ in.fed + 1 # 0
        /\ (in.fed + 1) + (in.left - 1) <= MaxPackets
    BY <2>2
  <2>4. /\ epin' \in InType /\ epin'.waiting = in.waiting /\ epin'.full = in.full
        /\ epin'.left = in.left - 1 /\ epin'.fed = in.fed + 1 /\ epin'.aborted = in.aborted
        /\ ~epin'.ready
    BY <2>1, <2>3 DEF InType
  <2>5. dma' \in DmaType /\ dma'.of = "in" /\ ~dma'.irq
    BY <2>1 DEF DmaType
  <2>6. InSound(epin', dma'.of)
    BY <1>2, <2>3, <2>4, <2>5 DEF InSound
  <2>7. OutSound(epout', dma'.of)
    BY <1>2, <2>1, <2>5 DEF OutSound
  <2>8. out.got >= out.got
    BY CdcAssumption DEF OutType
  <2>9. ~InIdle(in, of) /\ ~InIdle(epin', dma'.of)
    BY <1>2, <2>4 DEF InIdle
  <2> QED
    BY <2>1, <2>4, <2>5, <2>6, <2>7, <2>8, <2>9
<1>3. CASE consumes
  <2>1. /\ epin' = in /\ dma' = [of |-> "out", irq |-> FALSE]
        /\ epout' = [out EXCEPT !.ready = FALSE, !.got = out.got + 1,
                                !.consuming = ~out.last /\ out.got + 1 < MaxPackets]
    BY <1>1, <1>3
  <2>2. out.got \in 0 .. MaxPackets /\ out.got < MaxPackets /\ MaxPackets \in Nat
    BY <1>3, CdcAssumption DEF OutSound, OutType
  <2>3. out.got + 1 \in 1 .. MaxPackets /\ out.got + 1 >= out.got
    BY <2>2
  <2>4. /\ epout' \in OutType /\ epout'.waiting = out.waiting /\ epout'.aborted = out.aborted
        /\ epout'.got = out.got + 1 /\ (epout'.consuming => out.got + 1 < MaxPackets)
    <3>1. \E b \in BOOLEAN : b <=> ~out.last /\ out.got + 1 < MaxPackets
      OBVIOUS
    <3>2. PICK b \in BOOLEAN : b <=> ~out.last /\ out.got + 1 < MaxPackets
      BY <3>1
    <3>3. b = (~out.last /\ out.got + 1 < MaxPackets)
      BY <3>2
    <3>4. epout' = [out EXCEPT !.ready = FALSE, !.got = out.got + 1, !.consuming = b]
      BY <2>1, <3>3
    <3>5. out.got + 1 \in 0 .. MaxPackets
      BY <2>2
    <3> QED
      BY <3>2, <3>4, <3>5 DEF OutType
  <2>5. dma' \in DmaType /\ dma'.of = "out" /\ ~dma'.irq
    BY <2>1 DEF DmaType
  <2>6. OutSound(epout', dma'.of)
    BY <1>3, <2>3, <2>4, <2>5 DEF OutSound
  <2>7. InSound(epin', dma'.of)
    BY <1>3, <2>1, <2>5 DEF InSound
  <2>8. Overwrites(in, out) => out.got # 0
    <3>1. SUFFICES ASSUME out.got = 0, Overwrites(in, out) PROVE FALSE
      OBVIOUS
    <3>2. 1 \in in.fed + 1 .. in.fed + in.left
      BY <1>3, <3>1 DEF Overwrites
    <3>3. in.fed = 0 /\ in.left >= 1
      BY <3>2, CdcAssumption DEF InType
    <3> QED
      BY <1>3, <3>3 DEF InSound
  <2>9. /\ history' \in HistoryType /\ history'.unread = history.unread
        /\ history'.unsent = history.unsent /\ history'.torn # 1
    <3>1. CASE ~Overwrites(in, out)
      BY <1>1, <3>1
    <3>2. CASE Overwrites(in, out)
      <4>1. history' = [history EXCEPT !.torn = out.got + 1]
        BY <1>1, <1>3, <3>2
      <4>2. out.got + 1 \in 0 .. MaxPackets /\ out.got + 1 # 1
        BY <2>2, <2>8, <3>2
      <4> QED
        BY <4>1, <4>2 DEF HistoryType
    <3> QED
      BY <3>1, <3>2
  <2>10. InIdle(in, of) <=> InIdle(epin', dma'.of)
    BY <1>3, <2>1, <2>5 DEF InIdle
  <2> QED
    BY <1>3, <2>1, <2>3, <2>4, <2>5, <2>6, <2>7, <2>9, <2>10
<1>4. CASE ~feeds /\ ~consumes
  <2>1. epin' = in /\ epout' = out /\ dma' = [of |-> of, irq |-> FALSE] /\ history' = history
    BY <1>1, <1>4
  <2>2. dma' \in DmaType /\ dma'.of = of /\ ~dma'.irq
    BY <2>1 DEF DmaType
  <2>3. out.got >= out.got
    BY CdcAssumption DEF OutType
  <2> QED
    BY <2>1, <2>2, <2>3
<1> QED
  BY <1>2, <1>3, <1>4

\* What appending an event says of the sets the invariant speaks of.
LEMMA HostEvents ==
  /\ "TX_DONE" \notin HostEvent /\ "RX_DONE" \notin HostEvent /\ "HFCLK_READY" \notin HostEvent
  /\ "TX_DONE" \in PortEvent /\ "RX_DONE" \in PortEvent /\ "HFCLK_READY" \in PortEvent
  /\ {"DTR_ON", "DTR_OFF", "RESET", "CONFIG", "SUSPEND", "SUSPEND_REQ", "RESUME"} = HostEvent
  /\ HostEvent \subseteq PortEvent
  BY DEF HostEvent, PortEvent

\* An interrupt of the driver: it may announce the end of a transfer.
LEMMA IrqKeeps ==
  ASSUME CdcInv, NEW in \in InType, NEW out \in OutType, NEW of \in {"none", "in", "out"},
         InSound(in, of), OutSound(out, of), DmaRequest(in, out, of), UNCHANGED <<link, port>>,
         out.waiting => epout.waiting, out.got = epout.got,
         NEW e \in {"TX_DONE", "RX_DONE"}, portq' = portq \/ portq' = Append(portq, e),
         e = "RX_DONE" /\ portq' # portq => epout.waiting /\ ~out.waiting /\ epout.got >= 1,
         epout.waiting /\ ~out.waiting => e = "RX_DONE" /\ portq' = Append(portq, e),
         epin.waiting \/ epin.full \/ dma.of = "in" =>
           in.waiting \/ in.full \/ of = "in" \/ (e = "TX_DONE" /\ portq' = Append(portq, e)),
         InIdle(epin, dma.of) => InIdle(in, of),
         e = "TX_DONE" /\ portq' # portq => ~InIdle(epin, dma.of) /\ InIdle(in, of)
  PROVE  CdcInv'
<1>1. /\ port \in PortType /\ history \in HistoryType /\ history.torn # 1
      /\ portq \in Seq(PortEvent) /\ link \in LinkType /\ epout \in OutType
      /\ epout.waiting => ~port.flag
  BY CdcTypes DEF CdcInv, EchoStartsIntact, OneRead
<1>2. /\ epin' \in InType /\ epout' \in OutType /\ dma' \in DmaType /\ ~dma'.irq
      /\ InSound(epin', dma'.of) /\ OutSound(epout', dma'.of)
      /\ epin'.waiting = in.waiting /\ epin'.full = in.full
      /\ epout'.waiting = out.waiting /\ epout'.got >= out.got
      /\ of = "in" => dma'.of = "in"
      /\ InIdle(in, of) <=> InIdle(epin', dma'.of)
      /\ history' \in HistoryType /\ history'.unread = history.unread
      /\ history'.unsent = history.unsent /\ history'.torn # 1
  BY <1>1, DmaRequestKeeps
<1>3. /\ portq' \in Seq(PortEvent)
      /\ \A S : Holds(portq', S) <=> Holds(portq, S) \/ (portq' # portq /\ e \in S)
  <2>1. CASE portq' = portq
    BY <1>1, <2>1
  <2>2. CASE portq' # portq
    <3>1. portq' = Append(portq, e) /\ e \in PortEvent
      BY <2>2, HostEvents
    <3>2. \A S : Holds(portq', S) <=> Holds(portq, S) \/ e \in S
      BY <1>1, <3>1, HoldsAppend
    <3> QED
      BY <1>1, <2>2, <3>1, <3>2
  <2> QED
    BY <2>1, <2>2
<1>4. CdcTypeOK'
  <2>1. link' \in LinkType /\ port' \in PortType
    BY <1>1
  <2> QED
    BY <1>2, <1>3, <2>1 DEF CdcTypeOK, InType, OutType, DmaType, LinkType, PortType, HistoryType
<1>5. HostWaits'
  <2>1. Lone(portq', HostEvent)
    <3>1. Lone(portq, HostEvent) /\ e \in PortEvent /\ e \notin HostEvent
      BY HostEvents DEF CdcInv, HostWaits
    <3>2. Lone(Append(portq, e), HostEvent)
      BY <1>1, <3>1, LoneAppend
    <3> QED
      BY <3>1, <3>2
  <2>2. \A S \in SUBSET HostEvent : Holds(portq', S) <=> Holds(portq, S)
    BY <1>3, HostEvents
  <2>3. {"DTR_ON"} \in SUBSET HostEvent /\ {"CONFIG"} \in SUBSET HostEvent
        /\ {"SUSPEND"} \in SUBSET HostEvent /\ {"RESET", "RESUME"} \in SUBSET HostEvent
        /\ {"RESUME"} \in SUBSET HostEvent /\ HostEvent \in SUBSET HostEvent
    BY DEF HostEvent, PortEvent
  <2>4. link' = link /\ history'.unread = history.unread /\ history'.unsent = history.unsent
    BY <1>2
  <2> QED
    BY <2>1, <2>2, <2>3, <2>4 DEF CdcInv, HostWaits
<1>6. OneRead' /\ OneSend' /\ ClosedIsWorkedOff'
  <2>1. Holds(portq', HostEvent) <=> Holds(portq, HostEvent)
    BY <1>3, HostEvents
  <2>2. Holds(portq', {"RX_DONE"}) <=> Holds(portq, {"RX_DONE"}) \/ (portq' # portq /\ e = "RX_DONE")
    BY <1>3
  <2>3. portq' # portq /\ e = "RX_DONE" => epout.waiting /\ ~epout'.waiting /\ epout.got >= 1
    BY <1>2
  <2>4. Lone(portq', {"RX_DONE"})
    <3>1. CASE portq' = portq
      BY <3>1 DEF CdcInv, OneRead
    <3>2. CASE portq' # portq
      <4>1. portq' = Append(portq, e) /\ e \in PortEvent /\ Lone(portq, {"RX_DONE"})
        BY <3>2, HostEvents DEF CdcInv, OneRead
      <4>2. e \notin {"RX_DONE"} \/ ~Holds(portq, {"RX_DONE"})
        BY <2>3, <3>2 DEF CdcInv, OneRead
      <4> QED
        BY <1>1, <4>1, <4>2, LoneAppend
    <3> QED
      BY <3>1, <3>2
  <2>5. epout'.got \in Nat /\ epout.got \in Nat /\ epout'.got >= epout.got
        /\ (epout'.waiting => epout.waiting)
    BY <1>1, <1>2, CdcAssumption DEF OutType
  <2>6. UNCHANGED <<link, port>> /\ history'.unread = history.unread
    BY <1>2
  <2>7. OneRead'
    <3>1. epout'.got >= 1 \/ ~Holds(portq', {"RX_DONE"})
      BY <2>2, <2>3, <2>5 DEF CdcInv, OneRead
    <3> QED
      BY <2>2, <2>3, <2>4, <2>5, <2>6, <3>1 DEF CdcInv, OneRead
  <2>8. ClosedIsWorkedOff'
    BY <2>1, <2>2, <2>3, <2>6 DEF CdcInv, ClosedIsWorkedOff, OneRead
  <2>9. OneSend'
    <3>1. Holds(portq', {"TX_DONE"}) <=> Holds(portq, {"TX_DONE"}) \/ (portq' # portq /\ e = "TX_DONE")
      BY <1>3
    <3>2. Lone(portq', {"TX_DONE"})
      <4>1. CASE portq' = portq
        BY <4>1 DEF CdcInv, OneSend
      <4>2. CASE portq' # portq
        <5>1. portq' = Append(portq, e) /\ e \in PortEvent /\ Lone(portq, {"TX_DONE"})
          BY <4>2, HostEvents DEF CdcInv, OneSend
        <5>2. e \notin {"TX_DONE"} \/ ~Holds(portq, {"TX_DONE"})
          BY <4>2 DEF CdcInv, OneSend
        <5> QED
          BY <1>1, <5>1, <5>2, LoneAppend
      <4> QED
        BY <4>1, <4>2
    <3>3. ~InIdle(epin', dma'.of) => ~InIdle(in, of) /\ ~InIdle(epin, dma.of)
      BY <1>2
    <3>4. OneSend
      BY DEF CdcInv
    <3> QED
      BY <2>6, <3>1, <3>2, <3>3, <3>4 DEF OneSend
  <2> QED
    BY <2>7, <2>8, <2>9
<1>7. OpenPortListens'
  <2>1. SUFFICES ASSUME port.opened, ~history.unread, ~Holds(portq', {"RX_DONE"}), ~port.flag,
                        port.pc # "read"
                 PROVE  epout'.waiting /\ (epout'.consuming \/ dma'.of = "out")
    BY <1>2, InPortqHoldsNext DEF OpenPortListens
  <2>2. ~Holds(portq, {"RX_DONE"})
    BY <1>3, <2>1
  <2>3. epout.waiting
    BY <2>1, <2>2, InPortqHolds DEF CdcInv, OpenPortListens
  <2>4. out.waiting
    <3>1. ~(e = "RX_DONE" /\ portq' = Append(portq, e))
      <4>1. SUFFICES ASSUME e = "RX_DONE", portq' = Append(portq, e) PROVE Holds(portq', {"RX_DONE"})
        BY <2>1
      <4> QED
        BY <1>1, <4>1, HoldsAppend, HostEvents
    <3> QED
      BY <2>3, <3>1
  <2> QED
    BY <1>2, <2>4 DEF OutSound
<1>8. BusyMeansSending'
  <2>1. SUFFICES ASSUME port.tx_flag, ~history.unsent, ~Holds(portq', {"TX_DONE"})
                 PROVE  epin'.waiting \/ epin'.full \/ dma'.of = "in"
    BY <1>2, InPortqHoldsNext DEF BusyMeansSending
  <2>2. ~Holds(portq, {"TX_DONE"})
    BY <1>3, <2>1
  <2>3. epin.waiting \/ epin.full \/ dma.of = "in"
    BY <2>1, <2>2, InPortqHolds DEF CdcInv, BusyMeansSending
  <2>4. ~(e = "TX_DONE" /\ portq' = Append(portq, e))
    <3>1. SUFFICES ASSUME e = "TX_DONE", portq' = Append(portq, e) PROVE Holds(portq', {"TX_DONE"})
      BY <2>1
    <3> QED
      BY <1>1, <3>1, HoldsAppend, HostEvents
  <2> QED
    BY <1>2, <2>3, <2>4
<1>9. EchoStartsIntact'
  BY <1>2 DEF EchoStartsIntact
<1> QED
  BY <1>2, <1>4, <1>5, <1>6, <1>7, <1>8, <1>9 DEF CdcInv

LEMMA DriverKeeps ==
  CdcInv /\ (RaisedIrq \/ EndIn \/ EndOut \/ HostTakes \/ \E last \in BOOLEAN : HostSends(last))
    => CdcInv'
<1> SUFFICES ASSUME CdcInv,
                    RaisedIrq \/ EndIn \/ EndOut \/ HostTakes \/ \E last \in BOOLEAN : HostSends(last)
             PROVE  CdcInv'
  OBVIOUS
<1>1. /\ epin \in InType /\ epout \in OutType /\ dma.of \in {"none", "in", "out"}
      /\ InSound(epin, dma.of) /\ OutSound(epout, dma.of)
  BY CdcTypes DEF CdcInv, DmaType
<1>2. CASE RaisedIrq
  <2>1. DmaRequest(epin, epout, dma.of) /\ UNCHANGED <<link, port>> /\ portq' = portq
    BY <1>2 DEF RaisedIrq
  <2>2. "TX_DONE" \in {"TX_DONE", "RX_DONE"}
    OBVIOUS
  <2> QED
    BY <1>1, <2>1, <2>2, IrqKeeps
<1>3. CASE EndIn
  <2> DEFINE in == [epin EXCEPT !.full = TRUE, !.waiting = @ /\ ~epin.aborted /\ epin.left > 0]
  <2>1. DmaRequest(in, epout, "none") /\ UNCHANGED <<link, port>> /\ portq' = portq /\ dma.of = "in"
    BY <1>3 DEF EndIn
  <2>2. /\ in \in InType /\ in.full /\ (in.waiting <=> epin.waiting /\ ~epin.aborted /\ epin.left > 0)
        /\ in.left = epin.left /\ in.fed = epin.fed /\ in.aborted = epin.aborted /\ in.ready = epin.ready
    <3>1. PICK b \in BOOLEAN : b <=> epin.waiting /\ ~epin.aborted /\ epin.left > 0
      <4>1. \E b \in BOOLEAN : b <=> epin.waiting /\ ~epin.aborted /\ epin.left > 0
        OBVIOUS
      <4> QED
        BY <4>1
    <3>2. b = (epin.waiting /\ ~epin.aborted /\ epin.left > 0)
      BY <3>1, <1>1 DEF InType
    <3>3. in = [epin EXCEPT !.full = TRUE, !.waiting = b]
      BY <3>2
    <3> HIDE DEF in
    <3> QED
      BY <1>1, <3>1, <3>3 DEF InType
  <2>3. InSound(in, "none")
    <3> HIDE DEF in
    <3>1. epin.left \in Nat /\ epin.fed \in Nat
      BY <1>1, CdcAssumption DEF InType
    <3> QED
      BY <1>1, <2>1, <2>2, <3>1 DEF InSound
  <2>4. OutSound(epout, "none")
    BY <1>1, <2>1 DEF OutSound
  <2>5. ~InIdle(epin, dma.of)
    BY <2>1 DEF InIdle
  <2> HIDE DEF in
  <2> QED
    BY <1>1, <2>1, <2>2, <2>3, <2>4, <2>5, IrqKeeps
<1>4. CASE EndOut
  <2> DEFINE done == ~epout.aborted /\ ~epout.consuming
             out == [epout EXCEPT !.waiting = @ /\ ~epout.aborted /\ ~done]
  <2>1. DmaRequest(epin, out, "none") /\ UNCHANGED <<link, port>> /\ dma.of = "out"
        /\ portq' = (IF done THEN Append(portq, "RX_DONE") ELSE portq)
    BY <1>4 DEF EndOut
  <2>2. /\ out \in OutType /\ (out.waiting <=> epout.waiting /\ ~epout.aborted /\ ~done)
        /\ out.got = epout.got /\ out.aborted = epout.aborted /\ out.consuming = epout.consuming
    <3>1. PICK b \in BOOLEAN : b <=> epout.waiting /\ ~epout.aborted /\ ~done
      <4>1. \E b \in BOOLEAN : b <=> epout.waiting /\ ~epout.aborted /\ ~done
        OBVIOUS
      <4> QED
        BY <4>1
    <3>2. b = (epout.waiting /\ ~epout.aborted /\ ~done)
      BY <3>1, <1>1 DEF OutType
    <3>3. out = [epout EXCEPT !.waiting = b]
      BY <3>2
    <3> HIDE DEF out
    <3> QED
      BY <1>1, <3>1, <3>3 DEF OutType
  <2>3. OutSound(out, "none")
    BY <1>1, <2>2 DEF OutSound
  <2>4. InSound(epin, "none")
    BY <1>1, <2>1 DEF InSound
  <2>5. epout.waiting /\ ~out.waiting <=> epout.waiting /\ done
    BY <1>1, <2>2 DEF OutSound
  <2>6. done => epout.waiting /\ epout.got >= 1
    BY <1>1, <2>1 DEF OutSound
  <2>7. /\ portq' = portq \/ portq' = Append(portq, "RX_DONE")
        /\ portq' # portq => done
        /\ done => portq' = Append(portq, "RX_DONE")
    BY <2>1
  <2>8. "RX_DONE" \in {"TX_DONE", "RX_DONE"}
    OBVIOUS
  <2>9. out.waiting => epout.waiting
    BY <2>2
  <2>10. InIdle(epin, dma.of) => InIdle(epin, "none")
    BY DEF InIdle
  <2> HIDE DEF out, done
  <2> QED
    BY <1>1, <2>1, <2>2, <2>3, <2>4, <2>5, <2>6, <2>7, <2>8, <2>9, <2>10, IrqKeeps
<1>5. CASE HostTakes
  <2> DEFINE in == [epin EXCEPT !.full = FALSE, !.ready = TRUE]
  <2>1. /\ DmaRequest(in, epout, dma.of) /\ UNCHANGED <<link, port>> /\ epin.full
        /\ epin.waiting => portq' = portq
        /\ ~epin.waiting => portq' = Append(portq, "TX_DONE")
    BY <1>5 DEF HostTakes
  <2>2. /\ in \in InType /\ ~in.full /\ in.ready /\ in.waiting = epin.waiting
        /\ in.left = epin.left /\ in.fed = epin.fed /\ in.aborted = epin.aborted
    BY <1>1 DEF InType
  <2>3. InSound(in, dma.of)
    BY <1>1, <2>1, <2>2 DEF InSound
  <2>4. "TX_DONE" \in {"TX_DONE", "RX_DONE"}
    OBVIOUS
  <2>5. ~InIdle(epin, dma.of) /\ (~epin.waiting => InIdle(in, dma.of))
    BY <1>1, <2>1, <2>2 DEF InSound, InIdle
  <2> HIDE DEF in
  <2> QED
    BY <1>1, <2>1, <2>2, <2>3, <2>4, <2>5, IrqKeeps
<1>6. CASE \E last \in BOOLEAN : HostSends(last)
  <2>1. PICK last \in BOOLEAN : HostSends(last)
    BY <1>6
  <2> DEFINE out == [epout EXCEPT !.ready = TRUE, !.last = last]
  <2>2. DmaRequest(epin, out, dma.of) /\ UNCHANGED <<link, port>> /\ portq' = portq
    BY <2>1 DEF HostSends
  <2>3. /\ out \in OutType /\ out.waiting = epout.waiting /\ out.got = epout.got
        /\ out.aborted = epout.aborted /\ out.consuming = epout.consuming
    BY <1>1 DEF OutType
  <2>4. OutSound(out, dma.of)
    BY <1>1, <2>3 DEF OutSound
  <2>5. "TX_DONE" \in {"TX_DONE", "RX_DONE"}
    OBVIOUS
  <2> HIDE DEF out
  <2> QED
    BY <1>1, <2>2, <2>3, <2>4, <2>5, IrqKeeps
<1> QED
  BY <1>2, <1>3, <1>4, <1>5, <1>6

LEMMA HoldsMore ==
  ASSUME NEW q, NEW S, NEW T, S \subseteq T, Holds(q, S) PROVE Holds(q, T)
  BY DEF Holds

\* The host asks for something and waits.
LEMMA HostKeeps ==
  ASSUME CdcInv, NEW h \in HostEvent, NEW u \in BOOLEAN, NEW m \in BOOLEAN,
         ~link.asked, portq' = Append(portq, h), UNCHANGED <<epout, dma, port>>,
         link' = [link EXCEPT !.up = u, !.asked = TRUE],
         h = "DTR_ON" => link.enabled /\ link.state = "ACTIVE", h = "CONFIG" => ~link.enabled,
         h \in {"RESET", "RESUME"} => u, h = "RESUME" => ~link.up,
         h \notin {"RESET", "SUSPEND", "RESUME"} => u = link.up,
         epin' = epin \/ epin' = [epin EXCEPT !.full = FALSE],
         history' = [history EXCEPT !.unsent = m],
         history.unsent => m, ~m => (epin.full => epin' = epin)
  PROVE  CdcInv'
<1>1. /\ port \in PortType /\ history \in HistoryType /\ history.torn # 1
      /\ portq \in Seq(PortEvent) /\ link \in LinkType /\ epin \in InType /\ epout \in OutType
      /\ dma \in DmaType
  BY CdcTypes DEF CdcInv, EchoStartsIntact
<1>2. /\ epin' \in InType /\ epin'.waiting = epin.waiting /\ epin'.ready = epin.ready
      /\ epin'.left = epin.left /\ epin'.fed = epin.fed /\ epin'.aborted = epin.aborted
      /\ epin'.full => epin.full
      /\ ~m => (epin.full => epin'.full)
  BY <1>1 DEF InType
<1>3. /\ link' \in LinkType /\ link'.up = u /\ link'.asked
      /\ link'.enabled = link.enabled /\ link'.state = link.state
  BY <1>1 DEF LinkType
<1>4. /\ history' \in HistoryType /\ history'.unsent = m /\ history'.unread = history.unread
      /\ history'.torn = history.torn
  BY <1>1 DEF HistoryType
<1>5. /\ portq' \in Seq(PortEvent) /\ h \in PortEvent /\ h \notin {"TX_DONE", "RX_DONE"}
      /\ \A S : Holds(portq', S) <=> Holds(portq, S) \/ h \in S
  <2>1. h \in PortEvent /\ h \notin {"TX_DONE", "RX_DONE"}
    BY HostEvents
  <2>2. \A S : Holds(portq', S) <=> Holds(portq, S) \/ h \in S
    BY <1>1, <2>1, HoldsAppend
  <2> QED
    BY <1>1, <2>1, <2>2
<1>6. \A S \in SUBSET HostEvent : ~Holds(portq, S)
  BY HoldsMore DEF CdcInv, HostWaits
<1>7. CdcTypeOK'
  BY <1>1, <1>2, <1>3, <1>4, <1>5
  DEF CdcTypeOK, InType, OutType, DmaType, LinkType, PortType, HistoryType
<1>8. InSound(epin', dma'.of) /\ OutSound(epout', dma'.of)
  BY <1>2 DEF CdcInv, InSound, OutSound
<1>9. HostWaits'
  <2>1. Lone(portq, HostEvent) /\ ~Holds(portq, HostEvent)
    BY DEF CdcInv, HostWaits
  <2>2. Lone(Append(portq, h), HostEvent)
    BY <1>1, <1>5, <2>1, LoneAppend
  <2>3. \A S \in SUBSET HostEvent : Holds(portq', S) <=> h \in S
    BY <1>5, <1>6
  <2>4. {"DTR_ON"} \in SUBSET HostEvent /\ {"CONFIG"} \in SUBSET HostEvent
        /\ {"SUSPEND"} \in SUBSET HostEvent /\ {"RESET", "RESUME"} \in SUBSET HostEvent
        /\ {"RESUME"} \in SUBSET HostEvent
    BY DEF HostEvent, PortEvent
  <2>5. /\ ~link.up => link.state \in {"SUSPENDING", "SUSPEND"}
        /\ link.state # "ACTIVE" => history.unread /\ history.unsent
    BY <1>6, <2>4 DEF CdcInv, HostWaits
  <2>6. link'.state # "ACTIVE" => history'.unread /\ history'.unsent
    BY <1>3, <1>4, <2>5
  <2>7. h = "RESUME" \/ (~u /\ h # "SUSPEND") => link.state \in {"SUSPENDING", "SUSPEND"}
    BY <2>5
  <2> QED
    BY <1>3, <2>2, <2>3, <2>4, <2>6, <2>7 DEF HostWaits
<1>10. OneRead' /\ ClosedIsWorkedOff'
  <2>1. Holds(portq', {"RX_DONE"}) <=> Holds(portq, {"RX_DONE"})
    BY <1>5
  <2>2. Lone(portq', {"RX_DONE"})
    <3>1. Lone(portq, {"RX_DONE"})
      BY DEF CdcInv, OneRead
    <3>2. Lone(Append(portq, h), {"RX_DONE"})
      BY <1>1, <1>5, <3>1, LoneAppend
    <3> QED
      BY <3>2
  <2>3. ~(~port.dtr /\ (Holds(portq, {"RX_DONE"}) \/ port.flag))
    BY DEF CdcInv, ClosedIsWorkedOff
  <2>4. OneRead'
    BY <1>3, <2>1, <2>2 DEF CdcInv, OneRead
  <2>5. ClosedIsWorkedOff'
    BY <1>3, <1>4, <2>1, <2>3 DEF CdcInv, ClosedIsWorkedOff
  <2> QED
    BY <2>4, <2>5
<1>11. OneSend'
  <2>1. Holds(portq', {"TX_DONE"}) <=> Holds(portq, {"TX_DONE"})
    BY <1>5
  <2>2. Lone(portq', {"TX_DONE"})
    BY <1>1, <1>5, LoneAppend DEF CdcInv, OneSend
  <2>3. InIdle(epin, dma.of) => InIdle(epin', dma'.of)
    BY <1>2 DEF InIdle
  <2> QED
    BY <2>1, <2>2, <2>3 DEF CdcInv, OneSend
<1>12. OpenPortListens'
  <2>1. InPortq("RX_DONE") => InPortq("RX_DONE")'
    BY <1>5, InPortqHolds, InPortqHoldsNext
  <2> QED
    BY <1>4, <2>1 DEF CdcInv, OpenPortListens
<1>13. BusyMeansSending'
  <2>1. InPortq("TX_DONE") => InPortq("TX_DONE")'
    BY <1>5, InPortqHolds, InPortqHoldsNext
  <2> QED
    BY <1>2, <1>4, <2>1 DEF CdcInv, BusyMeansSending
<1>14. EchoStartsIntact'
  BY <1>1, <1>4 DEF EchoStartsIntact
<1> QED
  BY <1>7, <1>8, <1>9, <1>10, <1>11, <1>12, <1>13, <1>14 DEF CdcInv

LEMMA HostRequestKeeps == CdcInv /\ (HostAsks \/ BusEvents) => CdcInv'
<1>1. ASSUME CdcInv PROVE link \in LinkType /\ history \in HistoryType /\ epin \in InType
  BY <1>1, CdcTypes DEF CdcInv
<1>2. ASSUME CdcInv, HostAsks PROVE CdcInv'
  <2>1. PICK e \in {"DTR_ON", "DTR_OFF", "CONFIG"} :
          /\ e = "CONFIG" <=> ~link.enabled
          /\ link.up /\ link.state = "ACTIVE" /\ ~link.asked
          /\ portq' = Append(portq, e)
          /\ link' = [link EXCEPT !.asked = TRUE]
          /\ UNCHANGED <<epin, epout, dma, port, history>>
    BY <1>2 DEF HostAsks
  <2>2. e \in HostEvent /\ e \notin {"RESET", "RESUME", "SUSPEND"}
    BY HostEvents
  <2>3. link' = [link EXCEPT !.up = link.up, !.asked = TRUE] /\ link.up \in BOOLEAN /\ link.up
    BY <1>1, <1>2, <2>1 DEF LinkType
  <2>4. history' = [history EXCEPT !.unsent = history.unsent] /\ history.unsent \in BOOLEAN
    BY <1>1, <1>2, <2>1 DEF HistoryType
  <2>5. e = "DTR_ON" => link.enabled /\ link.state = "ACTIVE"
    BY <2>1
  <2> QED
    BY <1>2, <2>1, <2>2, <2>3, <2>4, <2>5, HostKeeps
<1>3. ASSUME CdcInv, BusEvents PROVE CdcInv'
  <2>1. PICK e \in {"RESET", "SUSPEND", "RESUME"} :
          /\ e = "RESET" \/ (link.up <=> e = "SUSPEND")
          /\ ~link.asked
          /\ portq' = Append(portq, e)
          /\ link' = [link EXCEPT !.up = (e # "SUSPEND"), !.asked = TRUE]
          /\ epin' = IF e = "RESET" THEN [epin EXCEPT !.full = FALSE] ELSE epin
          /\ history' = [history EXCEPT !.unsent = @ \/ e = "RESET"]
          /\ UNCHANGED <<epout, dma, port>>
    BY <1>3 DEF BusEvents
  <2>2. e \in HostEvent /\ e # "DTR_ON" /\ e # "CONFIG"
    BY HostEvents
  <2>3. PICK u \in BOOLEAN : u = (e # "SUSPEND")
    OBVIOUS
  <2>4. PICK m \in BOOLEAN : m = (history.unsent \/ e = "RESET")
    OBVIOUS
  <2>5. history' = [history EXCEPT !.unsent = m]
    BY <2>1, <2>4
  <2>6. (history.unsent => m) /\ (~m => (epin.full => epin' = epin))
    BY <2>1, <2>4
  <2>7. link' = [link EXCEPT !.up = u, !.asked = TRUE]
    BY <2>1, <2>3
  <2>8. /\ e \in {"RESET", "RESUME"} => u
        /\ e = "RESUME" => ~link.up
        /\ e \notin {"RESET", "SUSPEND", "RESUME"} => u = link.up
        /\ epin' = epin \/ epin' = [epin EXCEPT !.full = FALSE]
    BY <2>1, <2>3
  <2> QED
    BY <1>3, <2>1, <2>2, <2>5, <2>6, <2>7, <2>8, HostKeeps
<1> QED
  BY <1>2, <1>3

\* The clock runs: the event will be executed, the link is as it was.
LEMMA ClockReadyKeeps == CdcInv /\ ClockReady => CdcInv'
<1> SUFFICES ASSUME CdcInv, ClockReady PROVE CdcInv'
  OBVIOUS
<1>1. /\ portq \in Seq(PortEvent) /\ link \in LinkType /\ portq' = Append(portq, "HFCLK_READY")
      /\ link' = [link EXCEPT !.clock = "on"] /\ UNCHANGED <<epin, epout, dma, port, history>>
  BY CdcTypes DEF CdcInv, ClockReady
<1>2. /\ link' \in LinkType /\ link'.enabled = link.enabled /\ link'.state = link.state
      /\ link'.up = link.up /\ link'.asked = link.asked
  BY <1>1 DEF LinkType
<1>3. /\ portq' \in Seq(PortEvent)
      /\ \A S : Holds(portq', S) <=> Holds(portq, S) \/ "HFCLK_READY" \in S
  BY <1>1, HoldsAppend, HostEvents
<1>4. \A S \in SUBSET HostEvent : Holds(portq', S) <=> Holds(portq, S)
  BY <1>3, HostEvents
<1>5. /\ Holds(portq', {"RX_DONE"}) <=> Holds(portq, {"RX_DONE"})
      /\ Holds(portq', {"TX_DONE"}) <=> Holds(portq, {"TX_DONE"})
  BY <1>3
<1>6. /\ Lone(portq', HostEvent) /\ Lone(portq', {"RX_DONE"}) /\ Lone(portq', {"TX_DONE"})
  <2>1. Lone(portq, HostEvent) /\ Lone(portq, {"RX_DONE"}) /\ Lone(portq, {"TX_DONE"})
    BY DEF CdcInv, HostWaits, OneRead, OneSend
  <2>2. "HFCLK_READY" \in PortEvent /\ "HFCLK_READY" \notin HostEvent
        /\ "HFCLK_READY" \notin {"RX_DONE"} /\ "HFCLK_READY" \notin {"TX_DONE"}
    BY HostEvents
  <2> QED
    BY <1>1, <2>1, <2>2, LoneAppend
<1>7. CdcTypeOK'
  <2>1. /\ epin' \in InType /\ epout' \in OutType /\ dma' \in DmaType /\ port' \in PortType
        /\ history' \in HistoryType
    BY <1>1, CdcTypes DEF CdcInv
  <2> QED
    BY <1>2, <1>3, <2>1
    DEF CdcTypeOK, InType, OutType, DmaType, LinkType, PortType, HistoryType
<1>8. InSound(epin', dma'.of) /\ OutSound(epout', dma'.of)
  BY <1>1 DEF CdcInv
<1>9. HostWaits'
  <2>1. {"DTR_ON"} \in SUBSET HostEvent /\ {"CONFIG"} \in SUBSET HostEvent
        /\ {"SUSPEND"} \in SUBSET HostEvent /\ {"RESET", "RESUME"} \in SUBSET HostEvent
        /\ {"RESUME"} \in SUBSET HostEvent /\ HostEvent \in SUBSET HostEvent
    BY DEF HostEvent, PortEvent
  <2> QED
    BY <1>1, <1>2, <1>4, <1>6, <2>1 DEF CdcInv, HostWaits
<1>10. OneRead' /\ OneSend' /\ ClosedIsWorkedOff'
  <2>1. HostEvent \in SUBSET HostEvent
    OBVIOUS
  <2>2. OneRead'
    BY <1>1, <1>2, <1>5, <1>6 DEF CdcInv, OneRead
  <2>3. OneSend'
    BY <1>1, <1>5, <1>6 DEF CdcInv, OneSend
  <2>4. ClosedIsWorkedOff'
    BY <1>1, <1>2, <1>4, <1>5, <2>1 DEF CdcInv, ClosedIsWorkedOff
  <2> QED
    BY <2>2, <2>3, <2>4
<1>11. OpenPortListens'
  BY <1>1, <1>5, InPortqHolds, InPortqHoldsNext DEF CdcInv, OpenPortListens
<1>12. BusyMeansSending' /\ EchoStartsIntact'
  BY <1>1, <1>5, InPortqHolds, InPortqHoldsNext DEF CdcInv, BusyMeansSending, EchoStartsIntact
<1> QED
  BY <1>7, <1>8, <1>9, <1>10, <1>11, <1>12 DEF CdcInv

\* What app_usbd_event_execute leaves in the queue.
QueueAfter == IF Head(portq) = "SUSPEND" THEN Append(Tail(portq), "SUSPEND_REQ") ELSE Tail(portq)

LEMMA ExecFacts ==
  ASSUME CdcInv, portq # <<>>, portq' = QueueAfter
  PROVE  /\ portq' \in Seq(PortEvent) /\ Head(portq) \in PortEvent
         /\ \A S : "SUSPEND_REQ" \notin S =>
              (Holds(portq, S) <=> Holds(portq', S) \/ Head(portq) \in S)
         /\ Lone(portq', HostEvent) /\ Lone(portq', {"RX_DONE"}) /\ Lone(portq', {"TX_DONE"})
         /\ Holds(portq, HostEvent) <=> Holds(portq', HostEvent) \/ Head(portq) \in HostEvent
         /\ Head(portq) \in HostEvent =>
              /\ link.asked
              /\ \A S \in SUBSET HostEvent : "SUSPEND_REQ" \notin S => ~Holds(portq', S)
         /\ Head(portq) \in HostEvent /\ Head(portq) # "SUSPEND" => ~Holds(portq', HostEvent)
         /\ Head(portq) = "RX_DONE" => ~Holds(portq', {"RX_DONE"})
         /\ Head(portq) = "TX_DONE" => ~Holds(portq', {"TX_DONE"})
<1> DEFINE q == Tail(portq)
<1>1. /\ portq \in Seq(PortEvent) /\ Lone(portq, HostEvent) /\ Lone(portq, {"RX_DONE"})
      /\ Lone(portq, {"TX_DONE"})
  BY CdcTypes DEF CdcInv, HostWaits, OneRead, OneSend
<1>2. q \in Seq(PortEvent) /\ Head(portq) \in PortEvent
  BY <1>1
<1>3. \A S : Holds(portq, S) <=> Holds(q, S) \/ Head(portq) \in S
  BY <1>1, HoldsTail
<1>4. /\ Lone(q, HostEvent)
      /\ Head(portq) \in HostEvent => ~Holds(q, HostEvent)
  BY <1>1, LoneTail
<1>5. /\ Lone(q, {"RX_DONE"}) /\ Lone(q, {"TX_DONE"})
      /\ Head(portq) \in {"RX_DONE"} => ~Holds(q, {"RX_DONE"})
      /\ Head(portq) \in {"TX_DONE"} => ~Holds(q, {"TX_DONE"})
  BY <1>1, LoneTail
<1>6. Head(portq) \in HostEvent => link.asked
  BY <1>3 DEF CdcInv, HostWaits
<1>7. ~Holds(q, HostEvent) => \A S \in SUBSET HostEvent : ~Holds(q, S)
  BY HoldsMore
<1> HIDE DEF q
<1>8. CASE Head(portq) # "SUSPEND"
  <2>1. portq' = q
    BY <1>8 DEF QueueAfter, q
  <2> QED
    BY <1>2, <1>3, <1>4, <1>5, <1>6, <1>7, <2>1
<1>9. CASE Head(portq) = "SUSPEND"
  <2>1. portq' = Append(q, "SUSPEND_REQ") /\ "SUSPEND_REQ" \in PortEvent
        /\ "SUSPEND_REQ" \in HostEvent /\ Head(portq) \in HostEvent
    BY <1>9, HostEvents DEF QueueAfter, q
  <2>2. portq' \in Seq(PortEvent)
    BY <1>2, <2>1
  <2>3. \A S : Holds(portq', S) <=> Holds(q, S) \/ "SUSPEND_REQ" \in S
    BY <1>2, <2>1, HoldsAppend
  <2>4. Lone(portq', HostEvent)
    BY <1>2, <1>4, <2>1, LoneAppend
  <2>5. Lone(portq', {"RX_DONE"}) /\ Lone(portq', {"TX_DONE"})
    <3>1. "SUSPEND_REQ" \notin {"RX_DONE"} /\ "SUSPEND_REQ" \notin {"TX_DONE"}
      OBVIOUS
    <3> QED
      BY <1>2, <1>5, <2>1, <3>1, LoneAppend
  <2> QED
    BY <1>2, <1>3, <1>4, <1>5, <1>6, <1>7, <1>9, <2>1, <2>2, <2>3, <2>4, <2>5
<1> QED
  BY <1>8, <1>9

\* What the queue still says of the host when an event is executed.
LEMMA HostWaitsAfter ==
  ASSUME CdcInv, portq # <<>>, portq' = QueueAfter, link'.asked = link.asked,
         link'.up = link.up, link.up \in BOOLEAN,
         Head(portq) \notin HostEvent =>
           link'.enabled = link.enabled
           /\ (link'.state = link.state \/ (link.state = "RESUMING" /\ link'.state = "ACTIVE")),
         Head(portq) \notin {"RESET", "RESUME"} =>
           link'.state = link.state
           \/ link'.state \in {"SUSPENDING", "SUSPEND"}
           \/ (link.state = "RESUMING" /\ link'.state = "ACTIVE"),
         Head(portq) = "SUSPEND" => link'.state = "SUSPENDING",
         link'.state # "ACTIVE" => history'.unread /\ history'.unsent
  PROVE  HostWaits'
<1>1. /\ Lone(portq', HostEvent)
      /\ \A S : "SUSPEND_REQ" \notin S =>
           (Holds(portq, S) <=> Holds(portq', S) \/ Head(portq) \in S)
      /\ Holds(portq, HostEvent) <=> Holds(portq', HostEvent) \/ Head(portq) \in HostEvent
      /\ Head(portq) \in HostEvent =>
           /\ link.asked
           /\ \A S \in SUBSET HostEvent : "SUSPEND_REQ" \notin S => ~Holds(portq', S)
  BY ExecFacts
<1>2. {"DTR_ON"} \in SUBSET HostEvent /\ {"CONFIG"} \in SUBSET HostEvent
      /\ {"SUSPEND"} \in SUBSET HostEvent /\ {"RESET", "RESUME"} \in SUBSET HostEvent
      /\ {"RESUME"} \in SUBSET HostEvent
  BY DEF HostEvent, PortEvent
<1>3. HostWaits
  BY DEF CdcInv
<1>4. CASE Head(portq) \in HostEvent
  <2>1. /\ ~Holds(portq', {"DTR_ON"}) /\ ~Holds(portq', {"CONFIG"}) /\ ~Holds(portq', {"SUSPEND"})
        /\ ~Holds(portq', {"RESET", "RESUME"}) /\ ~Holds(portq', {"RESUME"})
        /\ link.asked
    BY <1>1, <1>2, <1>4
  <2>2. ~link.up => link'.state \in {"SUSPENDING", "SUSPEND"}
    <3>1. CASE Head(portq) = "SUSPEND"
      BY <3>1
    <3>2. CASE Head(portq) \in {"RESET", "RESUME"}
      <4>1. Holds(portq, {"RESET", "RESUME"})
        BY <1>1, <3>2
      <4> QED
        BY <1>3, <4>1 DEF HostWaits
    <3>3. CASE Head(portq) \notin {"SUSPEND", "RESET", "RESUME"}
      <4>1. ~Holds(portq, {"SUSPEND"})
        BY <1>1, <2>1, <3>3
      <4>2. ~link.up => link.state \in {"SUSPENDING", "SUSPEND"}
        BY <1>3, <4>1 DEF HostWaits
      <4> QED
        BY <3>3, <4>2
    <3> QED
      BY <3>1, <3>2, <3>3
  <2> QED
    BY <1>1, <2>1, <2>2 DEF HostWaits
<1>5. CASE Head(portq) \notin HostEvent
  <2>1. /\ Holds(portq', {"DTR_ON"}) <=> Holds(portq, {"DTR_ON"})
        /\ Holds(portq', {"CONFIG"}) <=> Holds(portq, {"CONFIG"})
        /\ Holds(portq', {"SUSPEND"}) <=> Holds(portq, {"SUSPEND"})
        /\ Holds(portq', {"RESET", "RESUME"}) <=> Holds(portq, {"RESET", "RESUME"})
        /\ Holds(portq', {"RESUME"}) <=> Holds(portq, {"RESUME"})
        /\ Holds(portq', HostEvent) <=> Holds(portq, HostEvent)
    BY <1>1, <1>2, <1>5
  <2>2. link'.enabled = link.enabled
        /\ (link'.state = link.state \/ (link.state = "RESUMING" /\ link'.state = "ACTIVE"))
    BY <1>5
  <2> QED
    BY <1>1, <1>3, <2>1, <2>2 DEF HostWaits
<1> QED
  BY <1>4, <1>5

\* usbd_ep_abort on the two endpoints.
LEMMA AbortKeeps ==
  ASSUME CdcInv
  PROVE  /\ InAborted \in InType /\ InSound(InAborted, dma.of) /\ InAborted.full = epin.full
         /\ OutAborted \in OutType /\ OutSound(OutAborted, dma.of)
         /\ ~OutAborted.waiting /\ OutAborted.got = epout.got
         /\ InIdle(epin, dma.of) => InIdle(InAborted, dma.of)
<1>1. /\ epin \in InType /\ epout \in OutType
      /\ InSound(epin, dma.of) /\ OutSound(epout, dma.of)
  BY CdcTypes DEF CdcInv
<1>2. InAborted \in InType /\ InAborted.full = epin.full
  <2>1. 0 \in 0 .. MaxPackets
    BY CdcAssumption
  <2>2. CASE epin.waiting \/ ~epin.ready
    <3>1. InAborted = [epin EXCEPT !.waiting = FALSE, !.ready = TRUE, !.left = 0, !.aborted = TRUE]
      BY <2>2 DEF InAborted
    <3> QED
      BY <1>1, <2>1, <3>1 DEF InType
  <2>3. CASE ~(epin.waiting \/ ~epin.ready)
    BY <1>1, <2>3 DEF InAborted
  <2> QED
    BY <2>2, <2>3
<1>3. InSound(InAborted, dma.of)
  <2>1. CASE epin.waiting \/ ~epin.ready
    <3>1. InAborted = [epin EXCEPT !.waiting = FALSE, !.ready = TRUE, !.left = 0, !.aborted = TRUE]
      BY <2>1 DEF InAborted
    <3>2. ~InAborted.waiting /\ InAborted.left = 0 /\ InAborted.fed = epin.fed
          /\ epin.fed \in 0 .. MaxPackets /\ MaxPackets \in Nat /\ InAborted.full = epin.full
      BY <1>1, <3>1, CdcAssumption DEF InType
    <3> QED
      BY <1>1, <3>2 DEF InSound
  <2>2. CASE ~(epin.waiting \/ ~epin.ready)
    BY <1>1, <2>2 DEF InAborted
  <2> QED
    BY <2>1, <2>2
<1>4. /\ OutAborted \in OutType /\ ~OutAborted.waiting /\ OutAborted.aborted
      /\ OutAborted.got = epout.got /\ (OutAborted.consuming => epout.consuming)
  BY <1>1 DEF OutAborted, OutType
<1>5. OutSound(OutAborted, dma.of)
  BY <1>1, <1>4 DEF OutSound
<1>6. InIdle(epin, dma.of) => InIdle(InAborted, dma.of)
  BY DEF InIdle, InAborted
<1> QED
  BY <1>2, <1>3, <1>4, <1>5, <1>6

\* nRF5x_USB_CDC_read, accepted by the driver.
LEMMA ReadKeeps ==
  ASSUME epout \in OutType, NEW of
  PROVE  /\ OutTransfer \in OutType /\ OutTransfer.waiting /\ OutTransfer.consuming
         /\ OutSound(OutTransfer, of)
<1>1. 0 \in 0 .. MaxPackets /\ 0 < MaxPackets
  BY CdcAssumption
<1>2. OutTransfer \in OutType /\ OutTransfer.waiting /\ OutTransfer.consuming
      /\ OutTransfer.got = 0 /\ ~OutTransfer.aborted
  BY <1>1 DEF OutTransfer, OutType
<1> QED
  BY <1>1, <1>2 DEF OutSound

LEMMA PortOpensKeeps ==
  ASSUME CdcInv, AtPort("events"), portq # <<>>, portq' = QueueAfter,
         Head(portq) = "DTR_ON", ~port.dtr, PortOpens
  PROVE  CdcInv'
<1>1. /\ epin \in InType /\ epout \in OutType /\ dma \in DmaType /\ link \in LinkType
      /\ port \in PortType /\ history \in HistoryType /\ port.pc = "events"
  BY CdcTypes DEF CdcInv, AtPort
<1>2. /\ portq' \in Seq(PortEvent) /\ Lone(portq', {"RX_DONE"}) /\ Lone(portq', {"TX_DONE"})
      /\ Holds(portq, {"DTR_ON"}) /\ Holds(portq, HostEvent)
      /\ Holds(portq, {"RX_DONE"}) <=> Holds(portq', {"RX_DONE"})
      /\ Holds(portq, {"TX_DONE"}) <=> Holds(portq', {"TX_DONE"})
  BY ExecFacts, HostEvents
<1>3. /\ ~Holds(portq', {"RX_DONE"}) /\ ~port.flag /\ ~epout.waiting
      /\ link.enabled /\ link.state = "ACTIVE"
  BY <1>2 DEF CdcInv, ClosedIsWorkedOff, OneRead, HostWaits
<1>4. /\ port' = [port EXCEPT !.dtr = TRUE, !.opened = TRUE] /\ epout' = OutTransfer
      /\ dma' = [dma EXCEPT !.irq = TRUE] /\ history' = [history EXCEPT !.unread = FALSE]
      /\ UNCHANGED <<epin, link>>
  <2>1. LinkReady
    BY <1>3 DEF LinkReady
  <2>2. (history.unread /\ ~LinkReady) = FALSE
    BY <2>1
  <2> QED
    BY <1>3, <2>1, <2>2 DEF PortOpens
<1>5. /\ port' \in PortType /\ port'.dtr /\ port'.opened /\ ~port'.flag /\ port'.pc = "events"
      /\ port'.tx_flag = port.tx_flag /\ dma' \in DmaType /\ dma'.of = dma.of
      /\ history' \in HistoryType /\ history'.unsent = history.unsent /\ history'.torn = history.torn
  BY <1>1, <1>3, <1>4 DEF PortType, DmaType, HistoryType
<1>6. epout' \in OutType /\ epout'.waiting /\ epout'.consuming /\ OutSound(epout', dma'.of)
  BY <1>1, <1>4, ReadKeeps
<1>7. CdcTypeOK'
  BY <1>1, <1>2, <1>4, <1>5, <1>6
  DEF CdcTypeOK, InType, OutType, DmaType, LinkType, PortType, HistoryType
<1>8. InSound(epin', dma'.of)
  BY <1>4, <1>5 DEF CdcInv
<1>9. HostWaits'
  <2>1. "DTR_ON" \in HostEvent /\ link' = link /\ link.up \in BOOLEAN /\ link.state = "ACTIVE"
    BY <1>1, <1>3, <1>4, HostEvents DEF LinkType
  <2> QED
    BY <2>1, HostWaitsAfter
<1>10. OneRead' /\ ClosedIsWorkedOff'
  BY <1>2, <1>3, <1>4, <1>5 DEF OneRead, ClosedIsWorkedOff
<1>11. OneSend'
  BY <1>2, <1>4, <1>5 DEF CdcInv, OneSend
<1>12. OpenPortListens'
  BY <1>6 DEF OpenPortListens
<1>13. BusyMeansSending'
  BY <1>2, <1>4, <1>5, InPortqHolds, InPortqHoldsNext DEF CdcInv, BusyMeansSending
<1>14. EchoStartsIntact'
  BY <1>5 DEF CdcInv, EchoStartsIntact
<1> QED
  BY <1>6, <1>7, <1>8, <1>9, <1>10, <1>11, <1>12, <1>13, <1>14 DEF CdcInv

\* What takes the transfers away from both endpoints, and is noted.
LEMMA TakenAwayKeeps ==
  ASSUME CdcInv, AtPort("events"), portq # <<>>, portq' = QueueAfter, HostWaits',
         Head(portq) \in {"DTR_OFF", "RESET", "SUSPEND_REQ"}, dma' = dma, link' \in LinkType,
         epin' \in InType, InSound(epin', dma.of), InIdle(epin, dma.of) => InIdle(epin', dma.of),
         epout' \in OutType, OutSound(epout', dma.of), ~epout'.waiting, epout'.got = epout.got,
         history' \in HistoryType, history'.torn = history.torn,
         history.unread => history'.unread, history'.unsent,
         link'.asked = link.asked, ~link'.enabled => history'.unread,
         port' \in PortType, port'.opened = port'.dtr, port'.flag = port.flag,
         port'.size = port.size, port'.pc = "events", port'.tx_flag = port.tx_flag,
         port'.dtr => history'.unread, Head(portq) # "DTR_OFF" => port'.dtr = port.dtr
  PROVE  CdcInv'
<1>1. /\ portq' \in Seq(PortEvent) /\ Lone(portq', {"RX_DONE"}) /\ Lone(portq', {"TX_DONE"})
      /\ link.asked /\ Holds(portq, HostEvent) /\ ~Holds(portq', HostEvent)
      /\ Holds(portq', {"RX_DONE"}) <=> Holds(portq, {"RX_DONE"})
      /\ Holds(portq', {"TX_DONE"}) <=> Holds(portq, {"TX_DONE"})
  BY ExecFacts, HostEvents
<1>2. dma \in DmaType /\ port \in PortType
  BY CdcTypes DEF CdcInv
<1>3. CdcTypeOK'
  BY <1>1, <1>2 DEF CdcTypeOK, InType, OutType, DmaType, LinkType, PortType, HistoryType
<1>4. port.pc = "events"
  BY DEF AtPort
<1>5. OneRead'
  BY <1>1, <1>4 DEF CdcInv, OneRead
<1>6. OneSend'
  BY <1>1 DEF CdcInv, OneSend
<1>7. ClosedIsWorkedOff'
  BY <1>1 DEF ClosedIsWorkedOff
<1>8. OpenPortListens' /\ BusyMeansSending'
  BY DEF OpenPortListens, BusyMeansSending
<1>9. EchoStartsIntact'
  BY DEF CdcInv, EchoStartsIntact
<1> QED
  BY <1>3, <1>5, <1>6, <1>7, <1>8, <1>9 DEF CdcInv

\* PORT_CLOSE and a bus reset abort both endpoints.
LEMMA AbortsKeep ==
  ASSUME CdcInv, AtPort("events"), portq # <<>>, portq' = QueueAfter,
         \/ Head(portq) = "DTR_OFF" /\ port.dtr /\ PortCloses
         \/ Head(portq) = "RESET" /\ DeviceReset
  PROVE  CdcInv'
<1>1. /\ link \in LinkType /\ port \in PortType /\ history \in HistoryType /\ port.pc = "events"
      /\ link.state # "ACTIVE" => history.unread
  BY CdcTypes DEF CdcInv, AtPort, HostWaits
<1>2. epin' = InAborted /\ epout' = OutAborted /\ dma' = dma
  BY DEF PortCloses, DeviceReset
<1>3. /\ epin' \in InType /\ InSound(epin', dma.of) /\ (InIdle(epin, dma.of) => InIdle(epin', dma.of))
      /\ epout' \in OutType /\ OutSound(epout', dma.of) /\ ~epout'.waiting
      /\ epout'.got = epout.got
  BY <1>2, AbortKeeps
<1>4. CASE Head(portq) = "DTR_OFF" /\ port.dtr /\ PortCloses
  <2>1. /\ link' = link /\ port' = [port EXCEPT !.dtr = FALSE, !.opened = FALSE]
        /\ history' = [history EXCEPT !.unsent = TRUE]
    BY <1>4 DEF PortCloses
  <2>2. /\ history' \in HistoryType /\ history'.unsent /\ history'.unread = history.unread
        /\ history'.torn = history.torn
    BY <1>1, <2>1 DEF HistoryType
  <2>3. /\ port' \in PortType /\ ~port'.dtr /\ port'.opened = port'.dtr /\ port'.flag = port.flag
        /\ port'.size = port.size /\ port'.pc = "events" /\ port'.tx_flag = port.tx_flag
    BY <1>1, <2>1 DEF PortType
  <2>4. HostWaits'
    <3>1. link.up \in BOOLEAN /\ (link'.state # "ACTIVE" => history'.unread /\ history'.unsent)
      BY <1>1, <2>1, <2>2 DEF LinkType
    <3> QED
      BY <1>4, <2>1, <3>1, HostEvents, HostWaitsAfter
  <2>5. ~link'.enabled => history'.unread
    <3>1. port.opened = port.dtr
      BY DEF CdcInv, ClosedIsWorkedOff
    <3> QED
      BY <1>4, <2>1, <2>2, <3>1 DEF CdcInv, ClosedIsWorkedOff
  <2> QED
    BY <1>1, <1>2, <1>3, <1>4, <2>1, <2>2, <2>3, <2>4, <2>5, TakenAwayKeeps
<1>5. CASE Head(portq) = "RESET" /\ DeviceReset
  <2>1. /\ link' = [LinkIn("ACTIVE") EXCEPT !.enabled = FALSE] /\ port' = port
        /\ history' = [history EXCEPT !.unread = TRUE, !.unsent = TRUE]
    BY <1>5 DEF DeviceReset
  <2>2. /\ history' \in HistoryType /\ history'.unsent /\ history'.unread
        /\ history'.torn = history.torn
    BY <1>1, <2>1 DEF HistoryType
  <2>3. /\ link' \in LinkType /\ link'.asked = link.asked /\ link'.up = link.up
        /\ link'.state = "ACTIVE" /\ link.up \in BOOLEAN
    <3>1. LinkIn("ACTIVE") \in LinkType
      BY <1>1 DEF LinkIn, LinkType, LinkState
    <3>2. /\ LinkIn("ACTIVE").state = "ACTIVE" /\ LinkIn("ACTIVE").asked = link.asked
          /\ LinkIn("ACTIVE").up = link.up
      BY <1>1 DEF LinkIn, LinkType
    <3> QED
      BY <1>1, <2>1, <3>1, <3>2 DEF LinkType
  <2>4. HostWaits'
    BY <1>5, <2>2, <2>3, HostEvents, HostWaitsAfter
  <2>5. port.opened = port.dtr
    BY DEF CdcInv, ClosedIsWorkedOff
  <2> QED
    BY <1>1, <1>2, <1>3, <1>5, <2>1, <2>2, <2>3, <2>4, <2>5, TakenAwayKeeps
<1> QED
  BY <1>4, <1>5

\* sustate_set leaves the rest of the link alone.
LEMMA LinkInTypes ==
  ASSUME link \in LinkType, NEW s \in LinkState
  PROVE  /\ LinkIn(s) \in LinkType /\ LinkIn(s).state = s /\ LinkIn(s).enabled = link.enabled
         /\ LinkIn(s).asked = link.asked /\ LinkIn(s).up = link.up
  BY DEF LinkIn, LinkType

\* A suspend aborts what waits.
LEMMA SuspendKeeps ==
  ASSUME CdcInv, AtPort("events"), portq # <<>>, portq' = QueueAfter,
         Head(portq) = "SUSPEND_REQ", link.state = "SUSPENDING", DeviceSuspends
  PROVE  CdcInv'
<1>1. /\ link \in LinkType /\ port \in PortType /\ history \in HistoryType /\ port.pc = "events"
      /\ epin \in InType /\ epout \in OutType /\ history.unread /\ history.unsent
  BY CdcTypes DEF CdcInv, AtPort, HostWaits
<1>2. /\ link' = LinkIn("SUSPEND") \/ link' = link
      /\ epin' = [IF epin.waiting THEN InAborted ELSE epin EXCEPT !.ready = TRUE]
      /\ epout' = (IF epout.waiting \/ epout.ready THEN OutAborted ELSE epout)
      /\ UNCHANGED <<dma, port, history>>
  BY DEF DeviceSuspends
<1>3. /\ InAborted \in InType /\ InSound(InAborted, dma.of) /\ InAborted.full = epin.full
      /\ OutAborted \in OutType /\ OutSound(OutAborted, dma.of)
      /\ ~OutAborted.waiting /\ OutAborted.got = epout.got
      /\ epin.waiting => ~InAborted.waiting
      /\ InSound(epin, dma.of) /\ OutSound(epout, dma.of)
  <2>1. epin.waiting => ~InAborted.waiting
    BY <1>1 DEF InAborted, InType
  <2> QED
    BY <2>1, AbortKeeps DEF CdcInv
<1>4. /\ epin' \in InType /\ InSound(epin', dma.of)
      /\ InIdle(epin, dma.of) => InIdle(epin', dma.of)
  <2> DEFINE in == IF epin.waiting THEN InAborted ELSE epin
  <2>1. in \in InType /\ InSound(in, dma.of) /\ ~in.waiting /\ in.full = epin.full
    BY <1>1, <1>3
  <2> HIDE DEF in
  <2>2. epin' = [in EXCEPT !.ready = TRUE]
    BY <1>2 DEF in
  <2>3. /\ epin' \in InType /\ epin'.ready /\ ~epin'.waiting /\ epin'.full = in.full
        /\ epin'.left = in.left /\ epin'.fed = in.fed
    BY <2>1, <2>2 DEF InType
  <2>4. InSound(epin', dma.of)
    BY <2>1, <2>3 DEF InSound
  <2> QED
    BY <2>1, <2>3, <2>4 DEF InIdle
<1>5. epout' \in OutType /\ OutSound(epout', dma.of) /\ ~epout'.waiting /\ epout'.got = epout.got
  BY <1>1, <1>2, <1>3
<1>6. /\ link' \in LinkType /\ link'.state \in {"SUSPENDING", "SUSPEND"}
      /\ link'.asked = link.asked /\ link'.up = link.up /\ link.up \in BOOLEAN
  <2>1. "SUSPEND" \in LinkState
    BY DEF LinkState
  <2>2. link.up \in BOOLEAN
    BY <1>1 DEF LinkType
  <2> QED
    BY <1>1, <1>2, <2>1, <2>2, LinkInTypes
<1>7. HostWaits'
  <2>1. "SUSPEND_REQ" \in HostEvent
    BY HostEvents
  <2> QED
    BY <1>1, <1>2, <1>6, <2>1, HostWaitsAfter
<1>8. port.opened = port.dtr
  BY DEF CdcInv, ClosedIsWorkedOff
<1> QED
  BY <1>1, <1>2, <1>4, <1>5, <1>6, <1>7, <1>8, TakenAwayKeeps

LEMMA ConfiguredKeeps ==
  ASSUME CdcInv, AtPort("events"), portq # <<>>, portq' = QueueAfter,
         Head(portq) = "CONFIG", DeviceConfigured
  PROVE  CdcInv'
<1>1. /\ epout \in OutType /\ link \in LinkType /\ port.pc = "events"
  BY CdcTypes DEF CdcInv, AtPort
<1>2. /\ portq' \in Seq(PortEvent) /\ Lone(portq', {"RX_DONE"}) /\ Lone(portq', {"TX_DONE"})
      /\ Holds(portq, HostEvent) /\ ~Holds(portq', HostEvent) /\ Holds(portq, {"CONFIG"})
      /\ Holds(portq', {"RX_DONE"}) <=> Holds(portq, {"RX_DONE"})
      /\ Holds(portq', {"TX_DONE"}) <=> Holds(portq, {"TX_DONE"})
  BY ExecFacts, HostEvents
<1>3. ~link.enabled /\ ~epout.waiting
  BY <1>2 DEF CdcInv, HostWaits, OneRead
<1>4. /\ epout' = [epout EXCEPT !.ready = FALSE, !.waiting = FALSE]
      /\ link' = [link EXCEPT !.enabled = TRUE] /\ UNCHANGED <<epin, dma, port, history>>
  BY DEF DeviceConfigured
<1>5. /\ epout' \in OutType /\ ~epout'.waiting /\ epout'.aborted = epout.aborted
      /\ epout'.got = epout.got /\ epout'.consuming = epout.consuming
  BY <1>1, <1>4 DEF OutType
<1>6. /\ link' \in LinkType /\ link'.enabled /\ link'.asked = link.asked /\ link'.up = link.up
      /\ link'.state = link.state /\ link.up \in BOOLEAN
  BY <1>1, <1>4 DEF LinkType
<1>7. CdcTypeOK'
  <2>1. /\ epin' \in InType /\ dma' \in DmaType /\ port' \in PortType /\ history' \in HistoryType
    BY <1>4, CdcTypes DEF CdcInv
  <2> QED
    BY <1>2, <1>5, <1>6, <2>1
    DEF CdcTypeOK, InType, OutType, DmaType, LinkType, PortType, HistoryType
<1>8. InSound(epin', dma'.of) /\ OutSound(epout', dma'.of)
  BY <1>3, <1>4, <1>5 DEF CdcInv, OutSound
<1>9. HostWaits'
  <2>1. link'.state # "ACTIVE" => history'.unread /\ history'.unsent
    BY <1>4, <1>6 DEF CdcInv, HostWaits
  <2> QED
    BY <1>6, <2>1, HostWaitsAfter, HostEvents
<1>10. OneRead' /\ OneSend'
  BY <1>2, <1>4, <1>5 DEF CdcInv, OneRead, OneSend
<1>11. ClosedIsWorkedOff'
  <2>1. port.dtr \/ ~(Holds(portq, {"RX_DONE"}) \/ port.flag)
    BY <1>2 DEF CdcInv, ClosedIsWorkedOff
  <2> QED
    BY <1>2, <1>4, <1>6, <2>1 DEF CdcInv, ClosedIsWorkedOff
<1>12. OpenPortListens'
  BY <1>3, <1>4 DEF CdcInv, ClosedIsWorkedOff, OpenPortListens
<1>13. BusyMeansSending' /\ EchoStartsIntact'
  BY <1>2, <1>4, InPortqHolds, InPortqHoldsNext DEF CdcInv, BusyMeansSending, EchoStartsIntact
<1> QED
  BY <1>7, <1>8, <1>9, <1>10, <1>11, <1>12, <1>13 DEF CdcInv

LEMMA PortFlagsKeeps ==
  ASSUME CdcInv, AtPort("events"), portq # <<>>, portq' = QueueAfter,
         Head(portq) \notin {"RESET", "CONFIG"}, PortFlags(Head(portq))
  PROVE  CdcInv'
<1> DEFINE e == Head(portq)
<1>1. /\ epin \in InType /\ epout \in OutType /\ dma \in DmaType /\ link \in LinkType
      /\ port \in PortType /\ history \in HistoryType /\ port.pc = "events"
      /\ link.state # "ACTIVE" => history.unread /\ history.unsent
  BY CdcTypes DEF CdcInv, AtPort, HostWaits
<1>2. /\ portq' \in Seq(PortEvent) /\ e \in PortEvent
      /\ Lone(portq', {"RX_DONE"}) /\ Lone(portq', {"TX_DONE"})
      /\ Holds(portq, {"RX_DONE"}) <=> Holds(portq', {"RX_DONE"}) \/ e = "RX_DONE"
      /\ Holds(portq, {"TX_DONE"}) <=> Holds(portq', {"TX_DONE"}) \/ e = "TX_DONE"
      /\ Holds(portq', HostEvent) => Holds(portq, HostEvent)
      /\ e = "RX_DONE" => ~Holds(portq', {"RX_DONE"})
      /\ e = "TX_DONE" => ~Holds(portq', {"TX_DONE"})
  <2>1. \A S : "SUSPEND_REQ" \notin S => (Holds(portq, S) <=> Holds(portq', S) \/ e \in S)
    BY ExecFacts
  <2> QED
    BY <2>1, ExecFacts
<1>3. UNCHANGED <<epin, epout, dma>>
  BY DEF PortFlags
<1>4. /\ port' \in PortType /\ port'.dtr = port.dtr /\ port'.opened = port.opened
      /\ port'.pc = "events" /\ (port'.flag <=> port.flag \/ e = "RX_DONE")
      /\ (port'.tx_flag <=> port.tx_flag /\ e # "TX_DONE")
      /\ port'.size = IF e = "RX_DONE" THEN epout.got ELSE port.size
  <2>1. port' = PortAfter(e) /\ epout.got \in 0 .. MaxPackets
    BY <1>1 DEF PortFlags, OutType
  <2>2. CASE e = "TX_DONE"
    <3>1. port' = [port EXCEPT !.tx_flag = FALSE]
      BY <2>1, <2>2 DEF PortAfter
    <3> QED
      BY <1>1, <2>2, <3>1 DEF PortType
  <2>3. CASE e = "RX_DONE"
    <3>1. port' = [port EXCEPT !.flag = TRUE, !.size = epout.got]
      BY <2>1, <2>3 DEF PortAfter
    <3> QED
      BY <1>1, <2>1, <2>3, <3>1 DEF PortType
  <2>4. CASE e # "TX_DONE" /\ e # "RX_DONE"
    <3>1. port' = port
      BY <2>1, <2>4 DEF PortAfter
    <3> QED
      BY <1>1, <2>4, <3>1 DEF PortType
  <2> QED
    BY <2>2, <2>3, <2>4
<1>5. /\ link' \in LinkType /\ link'.enabled = link.enabled /\ link'.asked = link.asked
      /\ link'.up = link.up /\ link.up \in BOOLEAN
      /\ e = "SUSPEND" => link'.state = "SUSPENDING"
      /\ e = "RESUME" => link'.state = "RESUMING"
      /\ e \notin {"SUSPEND", "RESUME"} =>
           link'.state = link.state \/ (link.state = "RESUMING" /\ link'.state = "ACTIVE")
  <2>1. link' = LinkAfter(e)
    BY DEF PortFlags
  <2>2. "SUSPENDING" \in LinkState /\ "RESUMING" \in LinkState /\ "ACTIVE" \in LinkState
    BY DEF LinkState
  <2>3. link.up \in BOOLEAN
    BY <1>1 DEF LinkType
  <2>4. CASE e = "SUSPEND"
    <3>1. link' = LinkIn("SUSPENDING")
      BY <2>1, <2>4 DEF LinkAfter
    <3> QED
      BY <1>1, <2>2, <2>3, <2>4, <3>1, LinkInTypes
  <2>5. CASE e = "RESUME"
    <3>1. link' = LinkIn("RESUMING")
      BY <2>1, <2>5 DEF LinkAfter
    <3> QED
      BY <1>1, <2>2, <2>3, <2>5, <3>1, LinkInTypes
  <2>6. CASE e = "HFCLK_READY" /\ link.state = "RESUMING"
    <3>1. link' = LinkIn("ACTIVE")
      BY <2>1, <2>6 DEF LinkAfter
    <3> QED
      BY <1>1, <2>2, <2>3, <2>6, <3>1, LinkInTypes
  <2>7. CASE e \notin {"SUSPEND", "RESUME"} /\ ~(e = "HFCLK_READY" /\ link.state = "RESUMING")
    <3>1. link' = link
      BY <2>1, <2>7 DEF LinkAfter
    <3> QED
      BY <1>1, <2>3, <2>7, <3>1
  <2> QED
    BY <2>4, <2>5, <2>6, <2>7
<1>6. /\ history' \in HistoryType /\ history'.torn = history.torn
      /\ (history'.unread <=> history.unread \/ e = "SUSPEND")
      /\ (history'.unsent <=> history.unsent \/ e = "SUSPEND")
  <2>1. history' = HistoryAfter(e)
    BY DEF PortFlags
  <2>2. CASE e = "SUSPEND"
    <3>1. history' = [history EXCEPT !.unread = TRUE, !.unsent = TRUE]
      BY <2>1, <2>2 DEF HistoryAfter
    <3> QED
      BY <1>1, <2>2, <3>1 DEF HistoryType
  <2>3. CASE e # "SUSPEND"
    <3>1. history' = history
      BY <2>1, <2>3 DEF HistoryAfter
    <3> QED
      BY <1>1, <2>3, <3>1
  <2> QED
    BY <2>2, <2>3
<1>7. CdcTypeOK'
  BY <1>1, <1>2, <1>3, <1>4, <1>5, <1>6
  DEF CdcTypeOK, InType, OutType, DmaType, LinkType, PortType, HistoryType
<1>8. InSound(epin', dma'.of) /\ OutSound(epout', dma'.of)
  BY <1>3 DEF CdcInv
<1>9. HostWaits'
  <2>1. e \notin HostEvent => e \notin {"SUSPEND", "RESUME"}
    BY HostEvents
  <2>2. link'.state # "ACTIVE" => history'.unread /\ history'.unsent
    <3>1. CASE e = "SUSPEND"
      BY <1>6, <3>1
    <3>2. CASE e = "RESUME"
      <4>1. Holds(portq, {"RESUME"})
        BY <3>2, ExecFacts
      <4>2. link.state # "ACTIVE"
        BY <4>1 DEF CdcInv, HostWaits
      <4> QED
        BY <1>1, <1>6, <4>2
    <3>3. CASE e \notin {"SUSPEND", "RESUME"}
      BY <1>1, <1>5, <1>6, <3>3
    <3> QED
      BY <3>1, <3>2, <3>3
  <2> QED
    BY <1>5, <2>1, <2>2, HostWaitsAfter
<1> HIDE DEF e
<1>10. OneRead'
  <2>1. e = "RX_DONE" => ~epout.waiting /\ epout.got >= 1
    BY <1>2 DEF CdcInv, OneRead
  <2> QED
    BY <1>1, <1>2, <1>3, <1>4, <1>5, <2>1 DEF CdcInv, OneRead
<1>11. OneSend'
  <2>1. e = "TX_DONE" => InIdle(epin, dma.of)
    BY <1>2 DEF CdcInv, OneSend
  <2> QED
    BY <1>2, <1>3, <1>4, <2>1 DEF CdcInv, OneSend
<1>12. ClosedIsWorkedOff'
  BY <1>2, <1>4, <1>5, <1>6 DEF CdcInv, ClosedIsWorkedOff
<1>13. OpenPortListens'
  BY <1>1, <1>2, <1>3, <1>4, <1>6, InPortqHolds, InPortqHoldsNext DEF CdcInv, OpenPortListens
<1>14. BusyMeansSending' /\ EchoStartsIntact'
  BY <1>2, <1>3, <1>4, <1>6, InPortqHolds, InPortqHoldsNext
  DEF CdcInv, BusyMeansSending, EchoStartsIntact
<1> QED
  BY <1>7, <1>8, <1>9, <1>10, <1>11, <1>12, <1>13, <1>14 DEF CdcInv

LEMMA WorkedOffKeeps == CdcInv /\ QueueWorkedOff => CdcInv'
<1> SUFFICES ASSUME CdcInv, QueueWorkedOff PROVE CdcInv'
  OBVIOUS
<1>1. /\ port' = [port EXCEPT !.pc = "handle"] /\ port.pc = "events"
      /\ UNCHANGED <<epin, epout, dma, link, portq, history>>
  BY DEF QueueWorkedOff, AtPort
<1>2. /\ port' \in PortType /\ port'.pc = "handle" /\ port'.dtr = port.dtr
      /\ port'.opened = port.opened /\ port'.flag = port.flag /\ port'.size = port.size
      /\ port'.tx_flag = port.tx_flag
  BY <1>1, CdcTypes DEF CdcInv, PortType
<1>3. CdcTypeOK'
  BY <1>1, <1>2 DEF CdcInv, CdcTypeOK, PortType
<1>4. HostWaits' /\ InSound(epin', dma'.of) /\ OutSound(epout', dma'.of)
  BY <1>1 DEF CdcInv, HostWaits
<1>5. OneRead' /\ OneSend' /\ ClosedIsWorkedOff'
  BY <1>1, <1>2 DEF CdcInv, OneRead, OneSend, ClosedIsWorkedOff
<1>6. OpenPortListens' /\ BusyMeansSending' /\ EchoStartsIntact'
  BY <1>1, <1>2 DEF CdcInv, OpenPortListens, BusyMeansSending, EchoStartsIntact, InPortq
<1> QED
  BY <1>3, <1>4, <1>5, <1>6 DEF CdcInv

\* nRF5x_USB_CDC_handle: nothing is flagged, or the echo is written.
LEMMA HandleKeeps == CdcInv /\ Handle => CdcInv'
<1> SUFFICES ASSUME CdcInv, Handle PROVE CdcInv'
  OBVIOUS
<1>1. /\ epin \in InType /\ epout \in OutType /\ dma \in DmaType /\ link \in LinkType
      /\ port \in PortType /\ history \in HistoryType /\ port.pc = "handle"
      /\ portq \in Seq(PortEvent) /\ UNCHANGED <<epout, portq>>
  BY CdcTypes DEF CdcInv, AtPort, Handle
<1>2. /\ link' \in LinkType /\ link'.enabled = link.enabled /\ link'.up = link.up
      /\ link'.state = link.state /\ (link'.asked <=> link.asked /\ portq # <<>>)
  <2>1. PICK a \in BOOLEAN : a = (link.asked /\ portq # <<>>)
    <3>1. (link.asked /\ portq # <<>>) \in BOOLEAN
      BY <1>1 DEF LinkType
    <3> QED
      BY <3>1
  <2>2. link' = [link EXCEPT !.asked = a]
    BY <2>1 DEF Handle
  <2> QED
    BY <1>1, <2>1, <2>2 DEF LinkType
<1>3. \A S : Holds(portq, S) => portq # <<>>
  BY DEF Holds
<1>4. ASSUME history'.unread = history.unread, link.state # "ACTIVE" => history'.unsent
      PROVE  HostWaits'
  BY <1>1, <1>2, <1>3, <1>4 DEF CdcInv, HostWaits
<1>5. ASSUME epin' \in InType, InSound(epin', dma'.of), dma' \in DmaType, dma'.of = dma.of,
             port' \in PortType, port'.dtr = port.dtr, port'.opened = port.opened, ~port'.flag,
             port'.pc = "read" => port.flag, port'.pc # "read" => ~port.flag,
             history' \in HistoryType, history'.unread = history.unread, history'.torn # 1,
             link.state # "ACTIVE" => history'.unsent, OneSend', BusyMeansSending'
      PROVE  CdcInv'
  <2>1. CdcTypeOK'
    BY <1>1, <1>2, <1>5
    DEF CdcTypeOK, InType, OutType, DmaType, LinkType, PortType, HistoryType
  <2>2. OutSound(epout', dma'.of)
    BY <1>1, <1>5 DEF CdcInv
  <2>3. OneRead'
    BY <1>1, <1>2, <1>5 DEF CdcInv, OneRead
  <2>4. ClosedIsWorkedOff'
    BY <1>1, <1>2, <1>3, <1>5 DEF CdcInv, ClosedIsWorkedOff
  <2>5. OpenPortListens'
    BY <1>1, <1>5, InPortqHolds, InPortqHoldsNext DEF CdcInv, OpenPortListens
  <2> QED
    BY <1>4, <1>5, <2>1, <2>2, <2>3, <2>4, <2>5 DEF CdcInv, EchoStartsIntact
<1>6. CASE ~port.flag
  <2>1. port' = [port EXCEPT !.pc = "events"] /\ UNCHANGED <<epin, dma, history>>
    BY <1>6 DEF Handle
  <2>2. /\ port' \in PortType /\ port'.dtr = port.dtr /\ port'.opened = port.opened
        /\ port'.flag = port.flag /\ port'.pc = "events" /\ port'.tx_flag = port.tx_flag
    BY <1>1, <2>1 DEF PortType
  <2>3. OneSend' /\ BusyMeansSending'
    BY <1>1, <2>1, <2>2 DEF CdcInv, OneSend, BusyMeansSending, InPortq
  <2>4. InSound(epin', dma'.of) /\ history'.torn # 1 /\ (link.state # "ACTIVE" => history'.unsent)
    BY <2>1 DEF CdcInv, HostWaits, EchoStartsIntact
  <2> QED
    BY <1>1, <1>5, <1>6, <2>1, <2>2, <2>3, <2>4
<1>7. CASE port.flag
  <2> DEFINE written == port.opened /\ ~port.tx_flag
             sent == written /\ InAccepted
  <2>1. /\ port' = [port EXCEPT !.flag = FALSE, !.tx_flag = @ \/ written, !.pc = "read"]
        /\ epin' = (IF sent THEN InTransfer(port.size) ELSE epin)
        /\ dma' = [dma EXCEPT !.irq = sent]
        /\ history' = [history EXCEPT !.unsent = IF written THEN ~LinkReady ELSE @,
                                      !.torn = IF sent THEN 0 ELSE @]
    BY <1>7 DEF Handle, Write
  <2>2. /\ sent => written /\ InAccepted /\ ~port.tx_flag
        /\ written /\ ~sent => ~LinkReady
    <3>1. written => port.dtr /\ ~epin.waiting /\ epin.ready
      BY DEF CdcInv, OneSend, InIdle, ClosedIsWorkedOff
    <3> QED
      BY <3>1 DEF InAccepted
  <2>3. written \in BOOLEAN /\ sent \in BOOLEAN
    BY <1>1 DEF PortType
  <2> HIDE DEF written, sent
  <2>4. /\ port' \in PortType /\ port'.dtr = port.dtr /\ port'.opened = port.opened
        /\ ~port'.flag /\ port'.pc = "read" /\ (port'.tx_flag <=> port.tx_flag \/ written)
    <3>1. PICK b \in BOOLEAN : b = (port.tx_flag \/ written)
      OBVIOUS
    <3>2. port' = [port EXCEPT !.flag = FALSE, !.tx_flag = b, !.pc = "read"]
      BY <2>1, <3>1
    <3> QED
      BY <1>1, <3>1, <3>2 DEF PortType
  <2>5. dma' \in DmaType /\ dma'.of = dma.of
    BY <1>1, <2>1, <2>3 DEF DmaType
  <2>6. /\ history' \in HistoryType /\ history'.unread = history.unread /\ history'.torn # 1
        /\ (history'.unsent <=> IF written THEN ~LinkReady ELSE history.unsent)
    <3>1. PICK m \in BOOLEAN : m = IF written THEN ~LinkReady ELSE history.unsent
      <4>1. history.unsent \in BOOLEAN /\ (~LinkReady) \in BOOLEAN
        BY <1>1 DEF HistoryType
      <4> QED
        BY <4>1
    <3>2. PICK t \in 0 .. MaxPackets : t # 1 /\ t = IF sent THEN 0 ELSE history.torn
      <4>1. 0 \in 0 .. MaxPackets /\ history.torn \in 0 .. MaxPackets /\ history.torn # 1
        BY <1>1, CdcAssumption DEF CdcInv, EchoStartsIntact, HistoryType
      <4> QED
        BY <4>1
    <3>3. history' = [history EXCEPT !.unsent = m, !.torn = t]
      BY <2>1, <3>1, <3>2
    <3> QED
      BY <1>1, <3>1, <3>2, <3>3 DEF HistoryType
  <2>7. link.state # "ACTIVE" => history'.unsent
    BY <2>6 DEF CdcInv, HostWaits, LinkReady
  <2>8. CASE sent
    <3>1. epin' = [epin EXCEPT !.waiting = TRUE, !.aborted = FALSE, !.left = port.size, !.fed = 0]
      BY <2>1, <2>8 DEF InTransfer
    <3>2. epin.ready /\ port.size >= 1 /\ port.size \in 0 .. MaxPackets
          /\ 0 \in 0 .. MaxPackets /\ 0 + port.size <= MaxPackets
      BY <1>1, <1>7, <2>2, <2>8, CdcAssumption DEF InAccepted, CdcInv, OneRead, PortType
    <3>3. /\ epin' \in InType /\ epin'.waiting /\ ~epin'.aborted /\ epin'.ready
          /\ epin'.left = port.size /\ epin'.fed = 0
      BY <1>1, <3>1, <3>2 DEF InType
    <3>4. InIdle(epin, dma.of) /\ epin'.full = epin.full /\ ~Holds(portq, {"TX_DONE"})
      <4>1. InIdle(epin, dma.of) /\ ~Holds(portq, {"TX_DONE"})
        BY <2>2, <2>8 DEF CdcInv, OneSend
      <4> QED
        BY <1>1, <3>1, <4>1 DEF InType
    <3>5. InSound(epin', dma'.of)
      BY <2>5, <3>2, <3>3, <3>4 DEF InSound, InIdle
    <3>6. OneSend'
      BY <1>1, <2>2, <2>4, <2>8, <3>4 DEF CdcInv, OneSend
    <3>7. BusyMeansSending'
      BY <3>3 DEF BusyMeansSending
    <3> QED
      BY <1>5, <1>7, <2>4, <2>5, <2>6, <2>7, <3>3, <3>5, <3>6, <3>7
  <2>9. CASE ~sent
    <3>1. epin' = epin
      BY <2>1, <2>9
    <3>2. InSound(epin', dma'.of)
      BY <2>5, <3>1 DEF CdcInv
    <3>3. BusyMeansSending'
      BY <1>1, <2>2, <2>4, <2>5, <2>6, <2>9, <3>1, InPortqHolds, InPortqHoldsNext
      DEF CdcInv, BusyMeansSending
    <3>4. OneSend'
      BY <1>1, <2>4, <2>5, <3>1 DEF CdcInv, OneSend
    <3> QED
      BY <1>1, <1>5, <1>7, <2>4, <2>5, <2>6, <2>7, <3>1, <3>2, <3>3, <3>4
  <2> QED
    BY <2>8, <2>9
<1> QED
  BY <1>6, <1>7

LEMMA HandleReadKeeps == CdcInv /\ HandleRead => CdcInv'
<1> SUFFICES ASSUME CdcInv, HandleRead PROVE CdcInv'
  OBVIOUS
<1>1. /\ epin \in InType /\ epout \in OutType /\ dma \in DmaType /\ link \in LinkType
      /\ port \in PortType /\ history \in HistoryType /\ port.pc = "read"
      /\ portq \in Seq(PortEvent) /\ UNCHANGED <<epin, link, portq>>
  BY CdcTypes DEF CdcInv, AtPort, HandleRead
<1>2. /\ port' \in PortType /\ port'.dtr = port.dtr /\ port'.opened = port.opened
      /\ port'.flag = port.flag /\ port'.pc = "events" /\ port'.tx_flag = port.tx_flag
      /\ port'.size = port.size
  BY <1>1 DEF HandleRead, PortType
<1>3. OutAccepted \in BOOLEAN /\ (OutAccepted <=> port.dtr /\ LinkReady /\ ~epout.waiting)
      /\ (LinkReady <=> link.enabled /\ link.state = "ACTIVE")
  BY <1>1 DEF OutAccepted, LinkReady, PortType, LinkType
<1>4. dma' \in DmaType /\ dma'.of = dma.of
  BY <1>1, <1>3 DEF HandleRead, DmaType
<1>5. /\ history' \in HistoryType /\ history'.unsent = history.unsent /\ history'.torn = history.torn
      /\ (history'.unread <=> history.unread /\ ~LinkReady)
  <2>1. PICK d \in BOOLEAN : d = (history.unread /\ ~LinkReady)
    <3>1. (history.unread /\ ~LinkReady) \in BOOLEAN
      BY <1>1 DEF HistoryType
    <3> QED
      BY <3>1
  <2>2. history' = [history EXCEPT !.unread = d]
    BY <2>1 DEF HandleRead
  <2> QED
    BY <1>1, <2>1, <2>2 DEF HistoryType
<1>6. /\ epout' \in OutType /\ OutSound(epout', dma'.of)
      /\ OutAccepted => epout'.waiting /\ epout'.consuming
      /\ ~OutAccepted => epout' = epout
  <2>1. CASE OutAccepted
    <3>1. epout' = OutTransfer
      BY <2>1 DEF HandleRead
    <3> QED
      BY <1>1, <2>1, <3>1, ReadKeeps
  <2>2. CASE ~OutAccepted
    <3>1. epout' = epout
      BY <2>2 DEF HandleRead
    <3> QED
      BY <1>1, <1>4, <2>2, <3>1 DEF CdcInv
  <2> QED
    BY <1>3, <2>1, <2>2
<1>7. ~port.flag /\ ~Holds(portq, {"RX_DONE"})
  BY <1>1 DEF CdcInv, OneRead
<1>8. CdcTypeOK'
  BY <1>1, <1>2, <1>4, <1>5, <1>6
  DEF CdcTypeOK, InType, OutType, DmaType, LinkType, PortType, HistoryType
<1>9. HostWaits' /\ InSound(epin', dma'.of)
  BY <1>1, <1>3, <1>4, <1>5 DEF CdcInv, HostWaits
<1>10. OneRead'
  <2>1. epout'.waiting => port.dtr /\ link.enabled
    BY <1>3, <1>6 DEF CdcInv, OneRead
  <2> QED
    BY <1>1, <1>2, <1>7, <2>1 DEF CdcInv, OneRead
<1>11. ClosedIsWorkedOff'
  BY <1>1, <1>2, <1>3, <1>5, <1>7 DEF CdcInv, ClosedIsWorkedOff
<1>12. OpenPortListens'
  <2>1. SUFFICES ASSUME port.opened, ~history'.unread
                 PROVE  epout'.waiting /\ (epout'.consuming \/ dma'.of = "out")
    BY <1>2 DEF OpenPortListens
  <2>2. LinkReady
    BY <1>3, <1>5, <2>1 DEF CdcInv, ClosedIsWorkedOff, HostWaits
  <2>3. OutAccepted \/ epout'.waiting
    BY <1>3, <1>5, <1>6, <2>1, <2>2 DEF CdcInv, ClosedIsWorkedOff
  <2> QED
    BY <1>6, <2>3 DEF OutSound
<1>13. OneSend' /\ BusyMeansSending' /\ EchoStartsIntact'
  BY <1>1, <1>2, <1>4, <1>5 DEF CdcInv, OneSend, BusyMeansSending, EchoStartsIntact, InPortq
<1> QED
  BY <1>6, <1>8, <1>9, <1>10, <1>11, <1>12, <1>13 DEF CdcInv

LEMMA PortExecutesKeeps == CdcInv /\ PortExecutes => CdcInv'
<1> SUFFICES ASSUME CdcInv, PortExecutes PROVE CdcInv'
  OBVIOUS
<1>1. AtPort("events") /\ portq # <<>> /\ portq' = QueueAfter
  BY DEF PortExecutes, QueueAfter
<1>2. \/ Head(portq) = "DTR_ON" /\ ~port.dtr /\ PortOpens
      \/ \/ Head(portq) = "DTR_OFF" /\ port.dtr /\ PortCloses
         \/ Head(portq) = "RESET" /\ DeviceReset
      \/ Head(portq) = "SUSPEND_REQ" /\ link.state = "SUSPENDING" /\ DeviceSuspends
      \/ Head(portq) = "CONFIG" /\ DeviceConfigured
      \/ Head(portq) \notin {"RESET", "CONFIG"} /\ PortFlags(Head(portq))
  BY DEF PortExecutes
<1> QED
  BY <1>1, <1>2, PortOpensKeeps, AbortsKeep, SuspendKeeps, ConfiguredKeeps, PortFlagsKeeps

LEMMA CdcInvNext == CdcInv /\ [CdcNext]_cdcVars => CdcInv'
<1>1. CdcInv /\ UNCHANGED cdcVars => CdcInv'
  <2> SUFFICES ASSUME CdcInv, UNCHANGED cdcVars PROVE CdcInv'
    OBVIOUS
  <2>1. UNCHANGED <<epin, epout, dma, link, port, portq, history>>
    BY DEF cdcVars
  <2>2. CdcTypeOK' /\ InSound(epin', dma'.of) /\ OutSound(epout', dma'.of)
    BY <2>1 DEF CdcInv, CdcTypeOK
  <2>3. HostWaits' /\ OneRead' /\ OneSend' /\ ClosedIsWorkedOff'
    BY <2>1 DEF CdcInv, HostWaits, OneRead, OneSend, ClosedIsWorkedOff
  <2>4. OpenPortListens' /\ BusyMeansSending' /\ EchoStartsIntact'
    BY <2>1 DEF CdcInv, OpenPortListens, BusyMeansSending, EchoStartsIntact, InPortq
  <2> QED
    BY <2>2, <2>3, <2>4 DEF CdcInv
<1> QED
  BY <1>1, DriverKeeps, HostRequestKeeps, ClockReadyKeeps, PortExecutesKeeps, WorkedOffKeeps,
     HandleKeeps, HandleReadKeeps
  DEF CdcNext

\* The invariant holds of the port, its class and the driver's two endpoints,
\* however interrupts, host and main loop interleave.
THEOREM CdcInvariant == CdcSpec => []CdcInv
  BY CdcInvInit, CdcInvNext, PTL DEF CdcSpec

\* The endpoints never count more packets than the buffer has, nor fewer than
\* none, whatever is aborted, reopened or refused.
THEOREM CdcTypeCorrect == CdcSpec => []CdcTypeOK
<1>1. CdcInv => CdcTypeOK
  BY DEF CdcInv
<1> QED
  BY <1>1, CdcInvariant, PTL

\* nRF5x_USB_CDC_read is in one place at a time and never forgotten, unless a
\* reset or a suspend came after the last read that found the link in order.
THEOREM PortListens == CdcSpec => []OpenPortListens
<1>1. CdcInv => OpenPortListens
  BY DEF CdcInv
<1> QED
  BY <1>1, CdcInvariant, PTL

\* tx_flag of nRF5x_USB_CDC_write has a transfer that will clear it, unless a
\* reset, a suspend or a close came after the last write that found the link in
\* order; such a write is never refused.
THEOREM BusyFlagMeansSending == CdcSpec => []BusyMeansSending
<1>1. CdcInv => BusyMeansSending
  BY DEF CdcInv
<1> QED
  BY <1>1, CdcInvariant, PTL

\* usbd_dmareq_process feeds the first packet of the echo before it lets the
\* read into the same buffer have the DMA.
THEOREM EchoBeginsIntact == CdcSpec => []EchoStartsIntact
<1>1. CdcInv => EchoStartsIntact
  BY DEF CdcInv
<1> QED
  BY <1>1, CdcInvariant, PTL
=============================================================================
