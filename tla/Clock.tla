------------------------------- MODULE Clock -------------------------------
(***************************************************************************)
(* The millisecond clock of core/delay.c: SysTick counts down from Load,   *)
(* asks for its interrupt when it reaches 0, and the handler adds one to   *)
(* _ulTickCount.  micros() reads the counter, the pending flag and the     *)
(* count without locking; delay() waits for the count.  The interrupt has  *)
(* the lowest priority: while others keep it waiting for a whole period a  *)
(* request is made again before it was answered, and that tick is lost.    *)
(* Time is measured in SysTick cycles: the scaling of micros to            *)
(* microseconds is left out.                                               *)
(***************************************************************************)
EXTENDS Integers

CONSTANTS Load,    \* SysTick->LOAD
          TickMod, \* how many values _ulTickCount has
          Delays,  \* the arguments of delay
          MaxAge   \* bound: how many cycles a call may last

ASSUME ClockAssumption ==
  /\ Load \in Nat \ {0} /\ TickMod \in Nat \ {0, 1} /\ MaxAge \in Nat /\ Delays \subseteq Nat
  /\ MaxAge < (Load + 1) * TickMod

VARIABLES tick, \* val, pend: SysTick's counter and interrupt request;
                \* busy: the handler has begun and not yet stored; count
          now,  \* the time, which wraps when count does
          lost, \* history: how many ticks have been lost
          call  \* the call in progress: pc, irq (it is made by an interrupt
                \* that SysTick's cannot preempt), the two rounds of readings,
                \* read (a reading was taken this cycle), age (cycles since it
                \* began), early (it began while the handler was at work),
                \* shown (history: the clock's times since it began)

clockVars == <<tick, now, lost, call>>

Period == Load + 1
Span == Period * TickMod
Reading == [val : 0 .. Load, pend : {0, 1}, count : 0 .. TickMod - 1]
NoReading == [val |-> 0, pend |-> 0, count |-> 0]

ClockTypeOK ==
  /\ tick \in [val : 0 .. Load, pend : {0, 1}, busy : BOOLEAN, count : 0 .. TickMod - 1]
  /\ now \in 0 .. Span - 1 /\ lost \in 0 .. TickMod - 1
  /\ call \in [pc : {"none", "val", "pend", "count", "micros_end", "wait", "delay_end"},
               irq : BOOLEAN, first : BOOLEAN, old : Reading, new : Reading,
               read : BOOLEAN, age : 0 .. MaxAge, early : BOOLEAN,
               shown : SUBSET (0 .. Span - 1),
               ms : Delays \cup {0}, start : 0 .. TickMod - 1]

NoCall == [pc |-> "none", irq |-> FALSE, first |-> TRUE, old |-> NoReading,
           new |-> NoReading, read |-> FALSE, age |-> 0, early |-> FALSE,
           shown |-> {}, ms |-> 0, start |-> 0]

\* After systick_init; SysTick_Config loads the counter, the count goes on
\* from any value, as it does once it has wrapped.
ClockInit ==
  \E c \in 0 .. TickMod - 1 :
    /\ tick = [val |-> Load, pend |-> 0, busy |-> FALSE, count |-> c]
    /\ now = c * Period /\ lost = 0
    /\ call = NoCall

-----------------------------------------------------------------------------
(* The timer and its interrupt. *)

Ended == call.pc \in {"micros_end", "delay_end"}
Running == call.pc # "none" /\ ~Ended

\* The clock's time: all the ticks but those lost, and the part of a period.
Kept == (now - lost * Period) % Span

\* The counter asks for the interrupt as it comes to 0; when it has asked and
\* got no answer since the last time there is one request for two ticks.
Cycle ==
  /\ ~Ended /\ (Running => call.age < MaxAge)
  /\ tick' = [tick EXCEPT !.val = IF @ = 0 THEN Load ELSE @ - 1,
                          !.pend = IF tick.val = 1 THEN 1 ELSE @]
  /\ now' = (now + 1) % Span
  /\ lost' = IF tick.val = 1 /\ tick.pend = 1 THEN (lost + 1) % TickMod ELSE lost
  /\ call' = IF Running THEN [call EXCEPT !.read = FALSE, !.age = @ + 1,
                                          !.shown = @ \cup {(Kept + 1) % Span, Kept'}]
                        ELSE call

\* A call made by an interrupt holds SysTick's interrupt off.
Preemptible == ~(Running /\ call.irq)

HandlerEnter ==
  /\ Preemptible /\ tick.pend = 1 /\ ~tick.busy
  /\ tick' = [tick EXCEPT !.pend = 0, !.busy = TRUE]
  /\ UNCHANGED <<now, lost, call>>

\* SysTick_Handler: _ulTickCount++
HandlerStore ==
  /\ Preemptible /\ tick.busy
  /\ tick' = [tick EXCEPT !.busy = FALSE, !.count = (@ + 1) % TickMod]
  /\ UNCHANGED <<now, lost, call>>

-----------------------------------------------------------------------------
(* The callers.  The main loop does not run while an interrupt is due or at *)
(* work; an interrupt of a higher priority does.  Each access takes a cycle.*)

MainMayRun == tick.pend = 0 /\ ~tick.busy
MayStep == ~call.read /\ (call.irq \/ MainMayRun)

MicrosCall(byIrq) ==
  /\ call.pc = "none"
  /\ byIrq \/ MainMayRun
  /\ call' = [NoCall EXCEPT !.pc = "val", !.irq = byIrq, !.early = tick.busy,
                            !.shown = {Kept}]
  /\ UNCHANGED <<tick, now, lost>>

ReadVal ==
  /\ call.pc = "val" /\ MayStep
  /\ call' = [call EXCEPT !.new.val = tick.val, !.pc = "pend", !.read = TRUE]
  /\ UNCHANGED <<tick, now, lost>>

ReadPend ==
  /\ call.pc = "pend" /\ MayStep
  /\ call' = [call EXCEPT !.new.pend = tick.pend, !.pc = "count", !.read = TRUE]
  /\ UNCHANGED <<tick, now, lost>>

\* Mutant: the loop does not look whether the counter was reloaded.
UnstableFlagsOnly(old, new) == old.pend # new.pend \/ old.count # new.count

\* The condition of the loop in micros, on the older and the newer round.
Unstable(old, new) ==
  old.pend # new.pend \/ old.count # new.count \/ old.val < new.val

\* The first round has none to be compared with; a stable round ends the
\* loop and the older readings are the ones used.
ReadCount ==
  LET new == [call.new EXCEPT !.count = tick.count] IN
  /\ call.pc = "count" /\ MayStep
  /\ IF call.first \/ Unstable(call.old, new)
       THEN call' = [call EXCEPT !.pc = "val", !.first = FALSE, !.old = new, !.new = new,
                                 !.read = TRUE]
       ELSE call' = [call EXCEPT !.pc = "micros_end", !.new = new]
  /\ UNCHANGED <<tick, now, lost>>

\* (count + pend) * 1000 + (LOAD - ticks) scaled, of a round of readings
Told(r) == ((r.count + r.pend) * Period + (Load - r.val)) % Span
MicrosResult == Told(call.old)

DelayCall ==
  \E ms \in Delays \ {0} :
    /\ call.pc = "none" /\ MainMayRun
    /\ call' = [NoCall EXCEPT !.pc = "wait", !.ms = ms, !.start = tick.count]
    /\ UNCHANGED <<tick, now, lost>>

\* Mutant: one millisecond less.
WaitingLess(ms, start, count) == (count - start) % TickMod < ms - 1

\* Unsigned arithmetic of the count's width.
Waiting(ms, start, count) == (count - start) % TickMod <= ms - 1

\* One turn of the loop in delay.
DelayTest ==
  /\ call.pc = "wait" /\ MayStep
  /\ call' = IF Waiting(call.ms, call.start, tick.count)
               THEN [call EXCEPT !.read = TRUE] ELSE [call EXCEPT !.pc = "delay_end"]
  /\ UNCHANGED <<tick, now, lost>>

Return ==
  /\ Ended
  /\ call' = NoCall
  /\ UNCHANGED <<tick, now, lost>>

ClockNext == \/ Cycle \/ HandlerEnter \/ HandlerStore
             \/ MicrosCall(TRUE) \/ MicrosCall(FALSE) \/ ReadVal \/ ReadPend \/ ReadCount
             \/ DelayCall \/ DelayTest \/ Return

ClockSpec == ClockInit /\ [][ClockNext]_clockVars

-----------------------------------------------------------------------------
(* Properties. *)

\* micros returns a time the clock showed during the call, wherever the
\* reload, the request and the handler fall between its readings, and across
\* the wrap of the count: it is behind the time by the ticks lost and by no
\* more (while one is being lost, with or without it).  The one exception is a
\* call from an interrupt that preempts SysTick_Handler between its entry and
\* its store: what it sees is exactly one period old.
MicrosIsTimely ==
  call.pc = "micros_end" =>
    (MicrosResult + IF call.early THEN Period ELSE 0) % Span \in call.shown

\* "Interrupt-compatible version of micros" (delay.c:25): called by an
\* interrupt, too, micros returns a time the clock showed during the call.
InterruptCompatible ==
  call.pc = "micros_end" /\ call.irq => MicrosResult \in call.shown

\* delay waits for more than ms - 1 full periods, wherever in a period and in
\* the wrap of the count it begins; a lost tick makes it longer.
DelayLongEnough == call.pc = "delay_end" => call.age > (call.ms - 1) * Period
=============================================================================
