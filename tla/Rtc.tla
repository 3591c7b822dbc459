-------------------------------- MODULE Rtc --------------------------------
(***************************************************************************)
(* The clock and alarm of libraries/nRF5x_RTC.c on one RTC instance.  Its  *)
(* tick interrupt runs the attached callback, carries the time and rings   *)
(* the alarm; the main loop sets time, alarm and callbacks store by store, *)
(* without locking, and the interrupt comes in between any two stores.     *)
(***************************************************************************)
EXTENDS Integers, Sequences

CONSTANTS TicksPerSecond, SecondsPerMinute, MinutesPerHour, HoursPerDay,
          Callback, \* the functions the program passes
          NULL,     \* the pointer before any is passed
          MaxCalls  \* bound: how many calls the main loop makes

ASSUME RtcAssumption ==
  /\ TicksPerSecond \in Nat \ {0} /\ SecondsPerMinute \in Nat \ {0, 1}
  /\ MinutesPerHour \in Nat \ {0} /\ HoursPerDay \in Nat \ {0}
  /\ NULL \notin Callback /\ MaxCalls \in Nat

VARIABLES time,     \* TimeInternal
          ticker,   \* tickerTime
          alarm,    \* AlarmInternal: activated, second; and fn, alarmCallback
          attached, \* attachedCallback as on, rtcCallback as fn
          rtc,      \* the instance: running (started, its ticks interrupt),
                    \* timed (enabledTime), lost (a null pointer was called)
          user,     \* the main loop: pc, todo (fields of the time still to be
                    \* stored), set (their values), whole (setTimeValue),
                    \* second and fn (arguments), calls
          due,      \* history: the second of the day, had setTimeValue stored
                    \* its time at once; torn: a minute ended between its stores
          rung      \* history: times the alarm rang since it was activated, the
                    \* function called, whether setAlarm was still at work

rtcVars == <<time, ticker, alarm, attached, rtc, user, due, rung>>

Second == 0 .. SecondsPerMinute - 1
Time == [second : Second, minute : 0 .. MinutesPerHour - 1, hour : 0 .. HoursPerDay - 1]
Field == {"second", "minute", "hour"}
Pointer == Callback \cup {NULL}
Day == SecondsPerMinute * MinutesPerHour * HoursPerDay
InSeconds(t) == (t.hour * MinutesPerHour + t.minute) * SecondsPerMinute + t.second
AlarmPCs == {"alarm_second", "alarm_off", "alarm_on", "alarm_fn"}

RtcTypeOK ==
  /\ time \in Time
  /\ ticker \in 0 .. TicksPerSecond - 1
  /\ alarm \in [activated : BOOLEAN, second : Second, fn : Pointer]
  /\ attached \in [on : BOOLEAN, fn : Pointer]
  /\ rtc \in [running : BOOLEAN, timed : BOOLEAN, lost : BOOLEAN]
  /\ user \in [pc : {"idle", "time", "attach_flag", "detach_flag", "start"} \cup AlarmPCs,
               todo : Seq(Field), set : Time, whole : BOOLEAN, second : Second,
               fn : Pointer, calls : 0 .. MaxCalls]
  /\ due \in [second : 0 .. Day - 1, torn : BOOLEAN]
  /\ rung \in [times : Nat, fn : Pointer, early : BOOLEAN]

Midnight == [second |-> 0, minute |-> 0, hour |-> 0]

RtcInit ==
  /\ time = Midnight
  /\ ticker = 0
  /\ alarm = [activated |-> FALSE, second |-> 0, fn |-> NULL]
  /\ attached = [on |-> FALSE, fn |-> NULL]
  /\ rtc = [running |-> FALSE, timed |-> FALSE, lost |-> FALSE]
  /\ user = [pc |-> "idle", todo |-> <<>>, set |-> Midnight, whole |-> FALSE, second |-> 0,
             fn |-> NULL, calls |-> 0]
  /\ due = [second |-> 0, torn |-> FALSE]
  /\ rung = [times |-> 0, fn |-> NULL, early |-> FALSE]

-----------------------------------------------------------------------------
(* The tick interrupt. *)

\* Mutant: the field starts over after its limit.
BumpedLate(n, limit) == IF n = limit THEN 0 ELSE n + 1

\* ++ on a field that starts over at its limit.
Bumped(n, limit) == IF n + 1 = limit THEN 0 ELSE n + 1
Over(n, limit) == n + 1 = limit

\* Mutant: the hour is counted although the minute is not over.
NextSecondEager(t) ==
  [second |-> Bumped(t.second, SecondsPerMinute),
   minute |-> IF Over(t.second, SecondsPerMinute) THEN Bumped(t.minute, MinutesPerHour)
                                                  ELSE t.minute,
   hour |-> IF Over(t.minute, MinutesPerHour) THEN Bumped(t.hour, HoursPerDay) ELSE t.hour]

NextSecond(t) ==
  LET minuteOver == Over(t.second, SecondsPerMinute)
      hourOver == minuteOver /\ Over(t.minute, MinutesPerHour)
  IN [second |-> Bumped(t.second, SecondsPerMinute),
      minute |-> IF minuteOver THEN Bumped(t.minute, MinutesPerHour) ELSE t.minute,
      hour |-> IF hourOver THEN Bumped(t.hour, HoursPerDay) ELSE t.hour]

\* setTimeValue has stored the second and not yet the hour.
HalfSet == user.pc = "time" /\ user.whole /\ Len(user.todo) < 3
MinuteEnds == ticker + 1 = TicksPerSecond /\ Over(time.second, SecondsPerMinute)

\* The first part of nRF5x_RTC_TIME_handler.
CountTime ==
  /\ ticker' = Bumped(ticker, TicksPerSecond)
  /\ IF ticker + 1 = TicksPerSecond
       THEN /\ time' = NextSecond(time)
            /\ due' = [second |-> (due.second + 1) % Day,
                       torn |-> due.torn \/ (HalfSet /\ MinuteEnds)]
       ELSE UNCHANGED <<time, due>>

\* Mutant: the alarm is not switched off by its ringing.
RingAlarmOn ==
  /\ rung' = [times |-> rung.times + 1, fn |-> alarm.fn, early |-> user.pc = "alarm_fn"]
  /\ rtc' = [rtc EXCEPT !.lost = alarm.fn = NULL]
  /\ UNCHANGED alarm

RingAlarm ==
  /\ alarm' = [alarm EXCEPT !.activated = FALSE]
  /\ rung' = [times |-> rung.times + 1, fn |-> alarm.fn, early |-> user.pc = "alarm_fn"]
  /\ rtc' = [rtc EXCEPT !.lost = alarm.fn = NULL]

\* Mutant: the second of the alarm itself is not enough.
AlarmIsDueAfter(second) == alarm.activated /\ second > alarm.second

AlarmIsDue(second) == alarm.activated /\ second >= alarm.second

TimeHandler ==
  /\ CountTime
  /\ \/ AlarmIsDue(time'.second) /\ RingAlarm
     \/ ~AlarmIsDue(time'.second) /\ UNCHANGED <<alarm, rung, rtc>>

\* RTC2_IRQHandler; a call of the main loop lasts less than a minute.
Tick ==
  /\ rtc.running /\ ~rtc.lost
  /\ ~(HalfSet /\ due.torn /\ MinuteEnds)
  /\ IF attached.on /\ attached.fn = NULL
       THEN rtc' = [rtc EXCEPT !.lost = TRUE] /\ UNCHANGED <<time, ticker, alarm, due, rung>>
       ELSE IF rtc.timed THEN TimeHandler
                         ELSE UNCHANGED <<time, ticker, alarm, due, rung, rtc>>
  /\ UNCHANGED <<attached, user>>

-----------------------------------------------------------------------------
(* The calls of the main loop. *)

At(pc) == user.pc = pc /\ ~rtc.lost
MayCall == At("idle") /\ user.calls < MaxCalls
Goto(pc) == user' = [user EXCEPT !.pc = pc]

\* nRF5x_RTC_setTimeValue stores in this order; resetTime is one of its calls.
SetOrder == <<"second", "minute", "hour">>

CopyOrders == {q \in [1 .. 3 -> Field] : Field = {q[1], q[2], q[3]}}

\* setTimeValue, the three setters, and setTime, whose structure is copied in
\* the compiler's order.
SetTimeCall ==
  \E t \in Time, whole \in BOOLEAN, fields \in {<<f>> : f \in Field} \cup CopyOrders :
    /\ whole => fields = SetOrder
    /\ MayCall
    /\ user' = [user EXCEPT !.pc = "time", !.todo = fields, !.set = t, !.whole = whole,
                            !.calls = @ + 1]
    /\ UNCHANGED <<time, ticker, alarm, attached, rtc, due, rung>>

\* One store.  What a call other than setTimeValue leaves is what is due.
SetTimeStore ==
  LET f == Head(user.todo) IN
  /\ At("time")
  /\ time' = [time EXCEPT ![f] = user.set[f]]
  /\ user' = IF Len(user.todo) = 1
               THEN [user EXCEPT !.pc = "idle", !.todo = <<>>, !.set = Midnight, !.whole = FALSE]
               ELSE [user EXCEPT !.todo = Tail(@)]
  /\ due' = IF user.whole
              THEN IF Len(user.todo) = 3
                     THEN [second |-> InSeconds(user.set), torn |-> FALSE] ELSE due
              ELSE [second |-> InSeconds(time'), torn |-> FALSE]
  /\ UNCHANGED <<ticker, alarm, attached, rtc, rung>>

\* nRF5x_RTC_setAlarm: the structure is copied in either order.  It comes in
\* with activated false, as callers fill it, and with a second of the minute: the
\* code copies whatever it is given.
SetAlarmCall ==
  \E s \in Second, f \in Callback, pc \in {"alarm_second", "alarm_off"} :
    /\ MayCall
    /\ user' = [user EXCEPT !.pc = pc, !.second = s, !.fn = f, !.calls = @ + 1]
    /\ alarm' = IF pc = "alarm_second" THEN [alarm EXCEPT !.activated = FALSE]
                                       ELSE [alarm EXCEPT !.second = s]
    /\ UNCHANGED <<time, ticker, attached, rtc, due, rung>>

SetAlarmCopied ==
  /\ At("alarm_second") \/ At("alarm_off")
  /\ alarm' = IF At("alarm_second") THEN [alarm EXCEPT !.second = user.second]
                                    ELSE [alarm EXCEPT !.activated = FALSE]
  /\ Goto("alarm_on")
  /\ UNCHANGED <<time, ticker, attached, rtc, due, rung>>

SetAlarmOn ==
  /\ At("alarm_on")
  /\ alarm' = [alarm EXCEPT !.activated = TRUE]
  /\ rung' = [times |-> 0, fn |-> NULL, early |-> FALSE]
  /\ Goto("alarm_fn")
  /\ UNCHANGED <<time, ticker, attached, rtc, due>>

SetAlarmFn ==
  /\ At("alarm_fn")
  /\ alarm' = [alarm EXCEPT !.fn = user.fn]
  /\ Goto("idle")
  /\ UNCHANGED <<time, ticker, attached, rtc, due, rung>>

\* attachCallback stores the pointer and then the flag, and so does
\* detachCallback, which stores a null pointer.
AttachCall ==
  \E f \in Pointer :
    LET pc == IF f = NULL THEN "detach_flag" ELSE "attach_flag" IN
    /\ MayCall
    /\ user' = [user EXCEPT !.pc = pc, !.calls = @ + 1]
    /\ attached' = [attached EXCEPT !.fn = f]
    /\ UNCHANGED <<time, ticker, alarm, rtc, due, rung>>

\* Mutant: detachCallback sets the flag, too.
AttachFlagSet ==
  /\ At("attach_flag") \/ At("detach_flag")
  /\ attached' = [attached EXCEPT !.on = TRUE]
  /\ Goto("idle")
  /\ UNCHANGED <<time, ticker, alarm, rtc, due, rung>>

AttachFlag ==
  /\ At("attach_flag") \/ At("detach_flag")
  /\ attached' = [attached EXCEPT !.on = user.pc = "attach_flag"]
  /\ Goto("idle")
  /\ UNCHANGED <<time, ticker, alarm, rtc, due, rung>>

\* nRF5x_RTC_enableTime; it returns when time is enabled already.
EnableTime ==
  /\ MayCall /\ ~rtc.timed
  /\ user' = [user EXCEPT !.pc = "start", !.calls = @ + 1]
  /\ rtc' = [rtc EXCEPT !.timed = TRUE]
  /\ UNCHANGED <<time, ticker, alarm, attached, due, rung>>

\* nRF5x_RTC_init and nRF5x_RTC_start, as enableTime calls them.
StartRtc ==
  /\ At("start")
  /\ rtc' = [rtc EXCEPT !.running = TRUE]
  /\ Goto("idle")
  /\ UNCHANGED <<time, ticker, alarm, attached, due, rung>>

\* nRF5x_RTC_disableTime and nRF5x_RTC_stop
StopTime ==
  \E r \in {[rtc EXCEPT !.timed = FALSE], [rtc EXCEPT !.running = FALSE]} :
    /\ MayCall
    /\ user' = [user EXCEPT !.calls = @ + 1]
    /\ rtc' = r
    /\ UNCHANGED <<time, ticker, alarm, attached, due, rung>>

UserCall == SetTimeCall \/ SetAlarmCall \/ AttachCall \/ EnableTime \/ StopTime
UserStore == SetTimeStore \/ SetAlarmCopied \/ SetAlarmOn \/ SetAlarmFn \/ AttachFlag \/ StartRtc

RtcNext == Tick \/ UserCall \/ UserStore

RtcSpec == RtcInit /\ [][RtcNext]_rtcVars

\* The interrupt is taken and a call that has begun goes on.
RtcFairSpec == RtcSpec /\ WF_rtcVars(Tick) /\ WF_rtcVars(UserStore)

-----------------------------------------------------------------------------
(* Properties. *)

\* A time set with setTimeValue is the one the clock shows from then on,
\* advanced by the seconds that have ended; if a minute ended between its
\* stores, the clock may be late by that minute, or by the hour it began.
SetTimeLosesAtMostACarry ==
  user.pc # "time" =>
    LET late == (due.second - InSeconds(time)) % Day
    IN late = 0 \/ (due.torn /\ late \in {SecondsPerMinute, SecondsPerMinute * MinutesPerHour})

\* The interrupt calls a null pointer only in the middle of setAlarm, which
\* activates the alarm before it stores the function, or of detachCallback,
\* which clears the function before the flag.
NullCalledOnlyMidCall == rtc.lost => user.pc \in {"alarm_fn", "detach_flag"}

\* An alarm rings at most once for each time it is activated, and calls the
\* function passed with it, unless it rang before setAlarm had stored that.
AlarmRingsOncePerSetting ==
  /\ rung.times <= 1
  /\ rung.times = 1 /\ ~rung.early => rung.fn = user.fn \/ user.pc \in AlarmPCs

\* An alarm set while the clock runs rings: the comparison with the second
\* alone comes true within a minute, however the time is set meanwhile.
ArmedAlarmRings ==
  (alarm.activated /\ rtc.running /\ rtc.timed) ~>
    (~alarm.activated \/ ~rtc.running \/ ~rtc.timed \/ rtc.lost)
=============================================================================
