---------------------------- MODULE DeviceProofs ----------------------------
(***************************************************************************)
(* Proofs about the devices that serve one caller: the clock and alarm, for *)
(* any lengths of second, minute, hour and day and any number of calls; the *)
(* millisecond clock, for any reload value and width of the count; the SPI  *)
(* master's busy flag, for any number of transfers; the searches of Stream, *)
(* for strings of any length over any characters.                           *)
(***************************************************************************)
EXTENDS Rtc, Clock, Spi, Stream, SequenceTheorems, WellFoundedInduction, TLAPS

-----------------------------------------------------------------------------
(* The clock and alarm: when a null pointer can be called, that an alarm    *)
(* rings once for each setting, and what a torn setTimeValue loses.         *)

UserType == [pc : {"idle", "time", "attach_flag", "detach_flag", "start"} \cup AlarmPCs,
             todo : Seq(Field), set : Time, whole : BOOLEAN, second : Second,
             fn : Pointer, calls : 0 .. MaxCalls]
RungType == [times : Nat, fn : Pointer, early : BOOLEAN]
AlarmType == [activated : BOOLEAN, second : Second, fn : Pointer]
AttachedType == [on : BOOLEAN, fn : Pointer]
RtcType == [running : BOOLEAN, timed : BOOLEAN, lost : BOOLEAN]

-----------------------------------------------------------------------------
(* The inductive invariant. *)

\* A call that has begun has what it stores.
CallHasArguments ==
  /\ user.pc = "time" => user.todo # <<>>
  /\ user.pc \in AlarmPCs => user.fn \in Callback
  /\ user.pc = "attach_flag" => attached.fn # NULL

\* The flags that guard the two pointers, which calls store in the wrong order.
GuardedPointers ==
  /\ attached.on /\ attached.fn = NULL => user.pc = "detach_flag"
  /\ alarm.activated /\ alarm.fn = NULL => user.pc = "alarm_fn"

\* An alarm that is activated has not rung yet; outside setAlarm it has the
\* function that was passed with it, and what rings before that is stored, is early.
ArmedHasNotRung ==
  /\ alarm.activated => rung.times = 0
  /\ alarm.activated /\ user.pc \notin AlarmPCs => alarm.fn = user.fn
  /\ user.pc = "alarm_fn" /\ rung.times # 0 => rung.early

RtcInv == /\ RtcTypeOK /\ CallHasArguments /\ GuardedPointers /\ ArmedHasNotRung
          /\ NullCalledOnlyMidCall /\ AlarmRingsOncePerSetting

-----------------------------------------------------------------------------
(* Arithmetic of the time of day. *)

LEMMA BumpedInRange ==
  ASSUME NEW limit \in Nat \ {0}, NEW n \in 0 .. limit - 1
  PROVE  Bumped(n, limit) \in 0 .. limit - 1
  BY DEF Bumped

LEMMA DayIsPositive == Day \in Nat \ {0}
<1>1. SecondsPerMinute * MinutesPerHour \in Nat \ {0}
  BY RtcAssumption
<1>2. ASSUME NEW a \in Nat \ {0}, NEW b \in Nat \ {0} PROVE a * b \in Nat \ {0}
  OBVIOUS
<1> QED
  BY <1>1, <1>2, RtcAssumption DEF Day

\* a * n + r stays below m * n.
LEMMA DigitsInRange ==
  ASSUME NEW n \in Nat \ {0}, NEW m \in Nat \ {0}, NEW a \in 0 .. m - 1, NEW r \in 0 .. n - 1
  PROVE  a * n + r \in 0 .. m * n - 1
<1>1. \E d \in Nat : m = a + 1 + d
  <2>1. m - a - 1 \in Nat /\ m = a + 1 + (m - a - 1)
    OBVIOUS
  <2> QED
    BY <2>1
<1>2. PICK d \in Nat : m = a + 1 + d
  BY <1>1
<1>3. m * n = a * n + n + d * n /\ d * n \in Nat /\ a * n \in Nat
  BY <1>2
<1> QED
  BY <1>3

LEMMA InSecondsInRange == ASSUME NEW t \in Time PROVE InSeconds(t) \in 0 .. Day - 1
<1>1. t.second \in 0 .. SecondsPerMinute - 1 /\ t.minute \in 0 .. MinutesPerHour - 1
      /\ t.hour \in 0 .. HoursPerDay - 1
  BY DEF Time, Second
<1>2. t.hour * MinutesPerHour + t.minute \in 0 .. HoursPerDay * MinutesPerHour - 1
  BY <1>1, DigitsInRange, RtcAssumption
<1>3. HoursPerDay * MinutesPerHour \in Nat \ {0}
  BY RtcAssumption
<1>4. InSeconds(t) \in 0 .. HoursPerDay * MinutesPerHour * SecondsPerMinute - 1
  BY <1>1, <1>2, <1>3, DigitsInRange, RtcAssumption DEF InSeconds
<1>5. HoursPerDay * MinutesPerHour * SecondsPerMinute = Day
  BY RtcAssumption DEF Day
<1> QED
  BY <1>4, <1>5

LEMMA NextSecondIsTime == ASSUME NEW t \in Time PROVE NextSecond(t) \in Time
<1>1. /\ Bumped(t.second, SecondsPerMinute) \in Second
      /\ Bumped(t.minute, MinutesPerHour) \in 0 .. MinutesPerHour - 1
      /\ Bumped(t.hour, HoursPerDay) \in 0 .. HoursPerDay - 1
  BY BumpedInRange, RtcAssumption DEF Time, Second
<1> QED
  BY <1>1 DEF NextSecond, Time

-----------------------------------------------------------------------------
(* Every step keeps the invariant. *)

LEMMA MidnightIsTime == Midnight \in Time /\ InSeconds(Midnight) = 0
  BY RtcAssumption DEF Midnight, Time, Second, InSeconds

LEMMA RtcInvInit == RtcInit => RtcInv
<1> SUFFICES ASSUME RtcInit PROVE RtcInv
  OBVIOUS
<1>1. RtcTypeOK
  <2>1. 0 \in 0 .. Day - 1 /\ 0 \in Second /\ 0 \in 0 .. TicksPerSecond - 1 /\ 0 \in 0 .. MaxCalls
    BY DayIsPositive, RtcAssumption DEF Second
  <2>2. <<>> \in Seq(Field)
    OBVIOUS
  <2> QED
    BY <2>1, <2>2, MidnightIsTime DEF RtcInit, RtcTypeOK, Pointer
<1>2. CallHasArguments /\ GuardedPointers /\ ArmedHasNotRung /\ NullCalledOnlyMidCall
      /\ AlarmRingsOncePerSetting
  BY DEF RtcInit, CallHasArguments, GuardedPointers, ArmedHasNotRung, NullCalledOnlyMidCall,
         AlarmRingsOncePerSetting, AlarmPCs
<1> QED
  BY <1>1, <1>2 DEF RtcInv

\* The interrupt: time, alarm and the pointers it calls.
LEMMA TickKeeps == RtcInv /\ Tick => RtcInv'
<1> SUFFICES ASSUME RtcInv, Tick PROVE RtcInv'
  OBVIOUS
<1>0. /\ time \in Time /\ ticker \in 0 .. TicksPerSecond - 1 /\ alarm \in AlarmType
      /\ attached \in AttachedType /\ rtc \in RtcType /\ user \in UserType
      /\ due \in [second : 0 .. Day - 1, torn : BOOLEAN] /\ rung \in RungType
  BY DEF RtcInv, RtcTypeOK, AlarmType, AttachedType, RtcType, UserType, RungType
<1>1. UNCHANGED <<attached, user>> /\ ~rtc.lost
  BY DEF Tick
<1>2. CASE attached.on /\ attached.fn = NULL
  <2>1. UNCHANGED <<time, ticker, alarm, due, rung>> /\ rtc' = [rtc EXCEPT !.lost = TRUE]
    BY <1>2 DEF Tick
  <2>2. RtcTypeOK'
    BY <1>0, <1>1, <2>1 DEF RtcTypeOK, AlarmType, AttachedType, RtcType, UserType, RungType
  <2>3. user.pc = "detach_flag"
    BY <1>2 DEF RtcInv, GuardedPointers
  <2> QED
    BY <1>1, <2>1, <2>2, <2>3
    DEF RtcInv, CallHasArguments, GuardedPointers, ArmedHasNotRung, NullCalledOnlyMidCall,
        AlarmRingsOncePerSetting
<1>3. ASSUME UNCHANGED <<time, ticker, alarm, due, rung, rtc>> PROVE RtcInv'
  BY <1>1, <1>3
  DEF RtcInv, RtcTypeOK, CallHasArguments, GuardedPointers, ArmedHasNotRung,
      NullCalledOnlyMidCall, AlarmRingsOncePerSetting
<1>4. ASSUME TimeHandler PROVE RtcInv'
  <2>1. time' \in Time /\ ticker' \in 0 .. TicksPerSecond - 1
        /\ due' \in [second : 0 .. Day - 1, torn : BOOLEAN]
    <3>1. ticker' \in 0 .. TicksPerSecond - 1
      BY <1>0, <1>4, BumpedInRange, RtcAssumption DEF TimeHandler, CountTime
    <3>2. time' \in Time
      BY <1>0, <1>4, NextSecondIsTime DEF TimeHandler, CountTime
    <3>3. (due.second + 1) % Day \in 0 .. Day - 1
      BY <1>0, DayIsPositive
    <3>4. due' \in [second : 0 .. Day - 1, torn : BOOLEAN]
      <4> DEFINE t == due.torn \/ (HalfSet /\ MinuteEnds)
      <4>1. t \in BOOLEAN
        BY <1>0
      <4>2. due' = due \/ due' = [second |-> (due.second + 1) % Day, torn |-> t]
        BY <1>4 DEF TimeHandler, CountTime
      <4> HIDE DEF t
      <4> QED
        BY <1>0, <3>3, <4>1, <4>2
    <3> QED
      BY <3>1, <3>2, <3>4
  <2>2. CASE AlarmIsDue(time'.second) /\ RingAlarm
    <3>1. /\ alarm' = [alarm EXCEPT !.activated = FALSE] /\ alarm.activated
          /\ rung' = [times |-> rung.times + 1, fn |-> alarm.fn, early |-> user.pc = "alarm_fn"]
          /\ rtc' = [rtc EXCEPT !.lost = (alarm.fn = NULL)]
      BY <2>2 DEF RingAlarm, AlarmIsDue
    <3>2. alarm' \in AlarmType /\ ~alarm'.activated /\ alarm'.fn = alarm.fn
      BY <1>0, <3>1 DEF AlarmType
    <3>3. rung' \in RungType /\ rung'.times = 1 /\ rung'.fn = alarm.fn
          /\ (rung'.early <=> user.pc = "alarm_fn")
      <4>1. rung.times = 0
        BY <3>1 DEF RtcInv, ArmedHasNotRung
      <4>2. rung' = [times |-> 1, fn |-> alarm.fn, early |-> (user.pc = "alarm_fn")]
        BY <3>1, <4>1
      <4>3. alarm.fn \in Pointer /\ (user.pc = "alarm_fn") \in BOOLEAN /\ 1 \in Nat
        BY <1>0 DEF AlarmType
      <4>4. rung' \in RungType
        BY <4>2, <4>3 DEF RungType
      <4> QED
        BY <4>2, <4>4
    <3>4. rtc' \in RtcType /\ (rtc'.lost <=> alarm.fn = NULL)
      BY <1>0, <3>1 DEF RtcType
    <3>5. RtcTypeOK'
      BY <1>0, <1>1, <2>1, <3>2, <3>3, <3>4
      DEF RtcTypeOK, AlarmType, AttachedType, RtcType, UserType, RungType
    <3>6. NullCalledOnlyMidCall' /\ AlarmRingsOncePerSetting'
      BY <1>1, <3>1, <3>3, <3>4
      DEF RtcInv, NullCalledOnlyMidCall, AlarmRingsOncePerSetting, GuardedPointers,
          ArmedHasNotRung
    <3>7. CallHasArguments' /\ GuardedPointers' /\ ArmedHasNotRung'
      BY <1>1, <3>2, <3>3 DEF RtcInv, CallHasArguments, GuardedPointers, ArmedHasNotRung
    <3> QED
      BY <3>5, <3>6, <3>7 DEF RtcInv
  <2>3. CASE UNCHANGED <<alarm, rung, rtc>>
    <3>1. RtcTypeOK'
      BY <1>0, <1>1, <2>1, <2>3
      DEF RtcTypeOK, AlarmType, AttachedType, RtcType, UserType, RungType
    <3> QED
      BY <1>1, <2>3, <3>1
      DEF RtcInv, CallHasArguments, GuardedPointers, ArmedHasNotRung, NullCalledOnlyMidCall,
          AlarmRingsOncePerSetting
  <2> QED
    BY <1>4, <2>2, <2>3 DEF TimeHandler
<1> QED
  BY <1>2, <1>3, <1>4 DEF Tick

\* The types, under the names the proofs use.
LEMMA RtcTypes ==
  RtcTypeOK <=>
    /\ time \in Time /\ ticker \in 0 .. TicksPerSecond - 1 /\ alarm \in AlarmType
    /\ attached \in AttachedType /\ rtc \in RtcType /\ user \in UserType
    /\ due \in [second : 0 .. Day - 1, torn : BOOLEAN] /\ rung \in RungType
  BY DEF RtcTypeOK, AlarmType, AttachedType, RtcType, UserType, RungType

\* The orders in which the fields of a time are stored.
LEMMA OrdersAreSequences ==
  \A q \in {<<f>> : f \in Field} \cup CopyOrders : q \in Seq(Field) /\ q # <<>>
<1>1. ASSUME NEW f \in Field PROVE <<f>> \in Seq(Field) /\ <<f>> # <<>>
  OBVIOUS
<1>2. ASSUME NEW q \in [1 .. 3 -> Field] PROVE q \in Seq(Field) /\ q # <<>>
  <2>1. q \in Seq(Field)
    BY <1>2, SeqDef
  <2>2. DOMAIN q = 1 .. 3 /\ DOMAIN << >> = 1 .. 0
    OBVIOUS
  <2>3. 1 \in DOMAIN q /\ 1 \notin DOMAIN << >>
    BY <2>2
  <2>4. q # <<>>
    BY <2>3
  <2> QED
    BY <2>1, <2>4
<1> QED
  BY <1>1, <1>2 DEF CopyOrders

\* A step of a call other than setAlarm: it leaves the alarm and what setAlarm
\* was passed.
LEMMA OtherCallKeeps ==
  ASSUME RtcInv, ~rtc.lost, user.pc \notin AlarmPCs, UNCHANGED <<alarm, rung, ticker>>,
         user' \in UserType, user'.fn = user.fn, user'.pc \notin AlarmPCs,
         rtc' \in RtcType, ~rtc'.lost, attached' \in AttachedType, time' \in Time,
         due' \in [second : 0 .. Day - 1, torn : BOOLEAN],
         user'.pc = "time" => user'.todo # <<>>,
         user'.pc = "attach_flag" => attached'.fn # NULL,
         attached'.on /\ attached'.fn = NULL => user'.pc = "detach_flag"
  PROVE  RtcInv'
<1>1. RtcTypeOK'
  <2>1. ticker' \in 0 .. TicksPerSecond - 1 /\ alarm' \in AlarmType /\ rung' \in RungType
    BY RtcTypes DEF RtcInv
  <2> QED
    BY <2>1 DEF RtcTypeOK, AlarmType, AttachedType, RtcType, UserType, RungType
<1>2. CallHasArguments' /\ GuardedPointers' /\ ArmedHasNotRung'
  BY DEF RtcInv, CallHasArguments, GuardedPointers, ArmedHasNotRung, AlarmPCs
<1>3. NullCalledOnlyMidCall' /\ AlarmRingsOncePerSetting'
  BY DEF RtcInv, NullCalledOnlyMidCall, AlarmRingsOncePerSetting
<1> QED
  BY <1>1, <1>2, <1>3 DEF RtcInv

LEMMA SetTimeKeeps == RtcInv /\ (SetTimeCall \/ SetTimeStore) => RtcInv'
<1>1. ASSUME RtcInv, SetTimeCall PROVE RtcInv'
  <2>1. PICK t \in Time, whole \in BOOLEAN, fields \in {<<f>> : f \in Field} \cup CopyOrders :
          /\ MayCall
          /\ user' = [user EXCEPT !.pc = "time", !.todo = fields, !.set = t, !.whole = whole,
                                  !.calls = @ + 1]
          /\ UNCHANGED <<time, ticker, alarm, attached, rtc, due, rung>>
    BY <1>1 DEF SetTimeCall
  <2>2. fields \in Seq(Field) /\ fields # <<>>
    BY OrdersAreSequences
  <2>3. user \in UserType /\ ~rtc.lost /\ user.pc = "idle" /\ user.calls + 1 \in 0 .. MaxCalls
    BY <1>1, <2>1, RtcTypes, RtcAssumption DEF MayCall, At, RtcInv, UserType
  <2>4. user' \in UserType /\ user'.fn = user.fn /\ user'.pc = "time" /\ user'.todo # <<>>
    BY <2>1, <2>2, <2>3 DEF UserType
  <2>5. time \in Time /\ attached \in AttachedType /\ rtc \in RtcType
        /\ due \in [second : 0 .. Day - 1, torn : BOOLEAN]
    BY <1>1, RtcTypes DEF RtcInv
  <2>6. ~(attached.on /\ attached.fn = NULL)
    BY <1>1, <2>3 DEF RtcInv, GuardedPointers
  <2> QED
    BY <1>1, <2>1, <2>3, <2>4, <2>5, <2>6, OtherCallKeeps DEF AlarmPCs
<1>2. ASSUME RtcInv, SetTimeStore PROVE RtcInv'
  <2> DEFINE f == Head(user.todo)
  <2>1. user \in UserType /\ ~rtc.lost /\ user.pc = "time" /\ user.todo # <<>>
    BY <1>2, RtcTypes DEF SetTimeStore, At, RtcInv, CallHasArguments
  <2>2. user.todo \in Seq(Field) /\ f \in Field /\ user.set \in Time /\ time \in Time
    BY <1>2, <2>1, RtcTypes DEF UserType, RtcInv
  <2>3. /\ time' = [time EXCEPT ![f] = user.set[f]]
        /\ UNCHANGED <<ticker, alarm, attached, rtc, rung>>
    BY <1>2 DEF SetTimeStore
  <2>4. time' \in Time
    <3>1. CASE f = "second"
      BY <2>2, <2>3, <3>1 DEF Time
    <3>2. CASE f = "minute"
      BY <2>2, <2>3, <3>2 DEF Time
    <3>3. CASE f = "hour"
      BY <2>2, <2>3, <3>3 DEF Time
    <3> QED
      BY <2>2, <3>1, <3>2, <3>3 DEF Field
  <2>5. due' \in [second : 0 .. Day - 1, torn : BOOLEAN]
    <3>1. InSeconds(user.set) \in 0 .. Day - 1 /\ InSeconds(time') \in 0 .. Day - 1
      BY <2>2, <2>4, InSecondsInRange
    <3>2. due \in [second : 0 .. Day - 1, torn : BOOLEAN]
      BY <1>2, RtcTypes DEF RtcInv
    <3>3. \/ due' = due \/ due' = [second |-> InSeconds(user.set), torn |-> FALSE]
          \/ due' = [second |-> InSeconds(time'), torn |-> FALSE]
      BY <1>2 DEF SetTimeStore
    <3>4. ASSUME NEW n \in 0 .. Day - 1
          PROVE  [second |-> n, torn |-> FALSE] \in [second : 0 .. Day - 1, torn : BOOLEAN]
      OBVIOUS
    <3>5. /\ [second |-> InSeconds(user.set), torn |-> FALSE]
               \in [second : 0 .. Day - 1, torn : BOOLEAN]
          /\ [second |-> InSeconds(time'), torn |-> FALSE]
               \in [second : 0 .. Day - 1, torn : BOOLEAN]
      BY <3>1, <3>4
    <3> QED
      BY <3>2, <3>3, <3>5, Zenon
  <2>6. /\ user' \in UserType /\ user'.fn = user.fn /\ user'.pc \in {"idle", "time"}
        /\ user'.pc = "time" => user'.todo # <<>>
    <3>1. CASE Len(user.todo) = 1
      <4>1. user' = [user EXCEPT !.pc = "idle", !.todo = <<>>, !.set = Midnight, !.whole = FALSE]
        BY <1>2, <3>1 DEF SetTimeStore
      <4>2. <<>> \in Seq(Field) /\ Midnight \in Time
        BY MidnightIsTime
      <4> QED
        BY <2>1, <4>1, <4>2 DEF UserType
    <3>2. CASE Len(user.todo) # 1
      <4>1. user' = [user EXCEPT !.todo = Tail(user.todo)]
        BY <1>2, <3>2 DEF SetTimeStore
      <4>2. Tail(user.todo) \in Seq(Field) /\ Len(Tail(user.todo)) = Len(user.todo) - 1
            /\ Len(user.todo) - 1 # 0 /\ Len(<<>>) = 0
        BY <2>1, <2>2, <3>2, HeadTailProperties
      <4>3. Tail(user.todo) # <<>>
        BY <4>2
      <4>4. Tail(user.todo) \in Seq(Field)
        BY <4>2
      <4>5. user' \in UserType /\ user'.fn = user.fn /\ user'.pc = user.pc
            /\ user'.todo = Tail(user.todo)
        BY <2>1, <4>1, <4>4 DEF UserType
      <4> QED
        BY <2>1, <4>3, <4>5
    <3> QED
      BY <3>1, <3>2
  <2>7. attached' \in AttachedType /\ rtc' \in RtcType /\ ~rtc'.lost
    BY <1>2, <2>1, <2>3, RtcTypes DEF RtcInv
  <2>8. ~(attached'.on /\ attached'.fn = NULL)
    BY <1>2, <2>1, <2>3 DEF RtcInv, GuardedPointers
  <2> QED
    BY <1>2, <2>1, <2>3, <2>4, <2>5, <2>6, <2>7, <2>8, OtherCallKeeps DEF AlarmPCs
<1> QED
  BY <1>1, <1>2

\* attachCallback and detachCallback, enableTime, disableTime and stop.
LEMMA AttachKeeps ==
  RtcInv /\ (AttachCall \/ AttachFlag \/ EnableTime \/ StartRtc \/ StopTime) => RtcInv'
<1> SUFFICES ASSUME RtcInv, AttachCall \/ AttachFlag \/ EnableTime \/ StartRtc \/ StopTime
             PROVE  RtcInv'
  OBVIOUS
<1>1. /\ user \in UserType /\ time \in Time /\ attached \in AttachedType /\ rtc \in RtcType
      /\ due \in [second : 0 .. Day - 1, torn : BOOLEAN]
  BY RtcTypes DEF RtcInv
<1>2. CASE AttachCall
  <2>1. PICK f \in Pointer :
          /\ MayCall
          /\ user' = [user EXCEPT !.pc = IF f = NULL THEN "detach_flag" ELSE "attach_flag",
                                  !.calls = @ + 1]
          /\ attached' = [attached EXCEPT !.fn = f]
          /\ UNCHANGED <<time, ticker, alarm, rtc, due, rung>>
    BY <1>2 DEF AttachCall
  <2>2. ~rtc.lost /\ user.pc = "idle" /\ user.calls + 1 \in 0 .. MaxCalls
    BY <1>1, <2>1, RtcAssumption DEF MayCall, At, UserType
  <2>3. attached' \in AttachedType /\ attached'.fn = f
    BY <1>1, <2>1 DEF AttachedType
  <2>4. user' \in UserType /\ user'.fn = user.fn
        /\ user'.pc = IF f = NULL THEN "detach_flag" ELSE "attach_flag"
    BY <1>1, <2>1, <2>2 DEF UserType
  <2> QED
    BY <1>1, <2>1, <2>2, <2>3, <2>4, OtherCallKeeps DEF AlarmPCs
<1>3. CASE AttachFlag
  <2>1. /\ user.pc = "attach_flag" \/ user.pc = "detach_flag"
        /\ ~rtc.lost /\ attached' = [attached EXCEPT !.on = (user.pc = "attach_flag")]
        /\ user' = [user EXCEPT !.pc = "idle"]
        /\ UNCHANGED <<time, ticker, alarm, rtc, due, rung>>
    BY <1>3 DEF AttachFlag, At, Goto
  <2>2. attached' \in AttachedType /\ attached'.fn = attached.fn
        /\ (attached'.on <=> user.pc = "attach_flag")
    BY <1>1, <2>1 DEF AttachedType
  <2>3. user' \in UserType /\ user'.fn = user.fn /\ user'.pc = "idle"
    BY <1>1, <2>1 DEF UserType
  <2>4. ~(attached'.on /\ attached'.fn = NULL)
    BY <2>2 DEF RtcInv, CallHasArguments
  <2> QED
    BY <1>1, <2>1, <2>2, <2>3, <2>4, OtherCallKeeps DEF AlarmPCs
<1>4. ASSUME NEW pc \in {"idle", "start"}, NEW calls \in 0 .. MaxCalls,
             user.pc \in {"idle", "start"}, ~rtc.lost,
             user' = [user EXCEPT !.pc = pc, !.calls = calls],
             rtc' \in RtcType, ~rtc'.lost,
             UNCHANGED <<time, ticker, alarm, attached, due, rung>>
      PROVE  RtcInv'
  <2>1. user' \in UserType /\ user'.fn = user.fn /\ user'.pc = pc
    BY <1>1, <1>4 DEF UserType
  <2>2. ~(attached.on /\ attached.fn = NULL)
    BY <1>4 DEF RtcInv, GuardedPointers
  <2> QED
    BY <1>1, <1>4, <2>1, <2>2, OtherCallKeeps DEF AlarmPCs
<1>5. CASE EnableTime
  <2>1. rtc' \in RtcType /\ ~rtc'.lost
    BY <1>1, <1>5 DEF EnableTime, MayCall, At, RtcType
  <2>2. user.calls + 1 \in 0 .. MaxCalls /\ user.pc = "idle" /\ ~rtc.lost
    BY <1>1, <1>5, RtcAssumption DEF EnableTime, MayCall, At, UserType
  <2>3. user' = [user EXCEPT !.pc = "start", !.calls = user.calls + 1]
    BY <1>5 DEF EnableTime
  <2> QED
    BY <1>4, <1>5, <2>1, <2>2, <2>3 DEF EnableTime
<1>6. CASE StartRtc
  <2>1. rtc' \in RtcType /\ ~rtc'.lost
    BY <1>1, <1>6 DEF StartRtc, At, RtcType
  <2>2. user.calls \in 0 .. MaxCalls /\ user.pc = "start" /\ ~rtc.lost
    BY <1>1, <1>6 DEF StartRtc, At, UserType
  <2>3. user' = [user EXCEPT !.pc = "idle", !.calls = user.calls]
    BY <1>1, <1>6 DEF StartRtc, Goto, UserType
  <2> QED
    BY <1>4, <1>6, <2>1, <2>2, <2>3 DEF StartRtc
<1>7. CASE StopTime
  <2>1. /\ rtc' = [rtc EXCEPT !.timed = FALSE] \/ rtc' = [rtc EXCEPT !.running = FALSE]
        /\ MayCall /\ user' = [user EXCEPT !.calls = @ + 1]
        /\ UNCHANGED <<time, ticker, alarm, attached, due, rung>>
    BY <1>7 DEF StopTime
  <2>2. user.calls + 1 \in 0 .. MaxCalls /\ user.pc = "idle" /\ ~rtc.lost
    BY <1>1, <2>1, RtcAssumption DEF MayCall, At, UserType
  <2>3. rtc' \in RtcType /\ ~rtc'.lost
    BY <1>1, <2>1, <2>2 DEF RtcType
  <2>4. user' = [user EXCEPT !.pc = "idle", !.calls = user.calls + 1]
    BY <1>1, <2>1, <2>2 DEF UserType
  <2> QED
    BY <1>4, <2>1, <2>2, <2>3, <2>4
<1> QED
  BY <1>2, <1>3, <1>5, <1>6, <1>7

\* setAlarm: it switches the alarm off, activates it and then stores the function.
LEMMA SetAlarmKeeps ==
  RtcInv /\ (SetAlarmCall \/ SetAlarmCopied \/ SetAlarmOn \/ SetAlarmFn) => RtcInv'
<1> SUFFICES ASSUME RtcInv, SetAlarmCall \/ SetAlarmCopied \/ SetAlarmOn \/ SetAlarmFn
             PROVE  RtcInv'
  OBVIOUS
<1>1. /\ user \in UserType /\ alarm \in AlarmType /\ rung \in RungType
      /\ UNCHANGED <<time, ticker, attached, rtc, due>> /\ ~rtc.lost
      /\ user.pc \in {"idle"} \cup AlarmPCs
  BY RtcTypes
  DEF RtcInv, SetAlarmCall, SetAlarmCopied, SetAlarmOn, SetAlarmFn, MayCall, At, AlarmPCs
<1>2. ASSUME user' \in UserType, alarm' \in AlarmType, rung' \in RungType,
             user'.pc \in {"idle"} \cup AlarmPCs, user'.fn \in Callback,
             alarm'.activated /\ alarm'.fn = NULL => user'.pc = "alarm_fn",
             alarm'.activated => rung'.times = 0,
             alarm'.activated /\ user'.pc = "idle" => alarm'.fn = user'.fn,
             user'.pc = "alarm_fn" => rung'.times = 0,
             AlarmRingsOncePerSetting'
      PROVE  RtcInv'
  <2>1. RtcTypeOK'
    <3>1. /\ time' \in Time /\ ticker' \in 0 .. TicksPerSecond - 1 /\ attached' \in AttachedType
          /\ rtc' \in RtcType /\ due' \in [second : 0 .. Day - 1, torn : BOOLEAN]
      BY <1>1, RtcTypes DEF RtcInv
    <3> QED
      BY <1>2, <3>1 DEF RtcTypeOK, AlarmType, AttachedType, RtcType, UserType, RungType
  <2>2. ~(attached'.on /\ attached'.fn = NULL)
    BY <1>1 DEF RtcInv, GuardedPointers, AlarmPCs
  <2>3. CallHasArguments' /\ GuardedPointers'
    BY <1>2, <2>2 DEF CallHasArguments, GuardedPointers, AlarmPCs
  <2>4. ArmedHasNotRung' /\ NullCalledOnlyMidCall'
    BY <1>1, <1>2 DEF ArmedHasNotRung, NullCalledOnlyMidCall, AlarmPCs
  <2> QED
    BY <1>2, <2>1, <2>3, <2>4 DEF RtcInv
<1>3. CASE SetAlarmCall
  <2>1. PICK s \in Second, f \in Callback, pc \in {"alarm_second", "alarm_off"} :
          /\ MayCall
          /\ user' = [user EXCEPT !.pc = pc, !.second = s, !.fn = f, !.calls = @ + 1]
          /\ alarm' = IF pc = "alarm_second" THEN [alarm EXCEPT !.activated = FALSE]
                                             ELSE [alarm EXCEPT !.second = s]
          /\ UNCHANGED <<time, ticker, attached, rtc, due, rung>>
    BY <1>3 DEF SetAlarmCall
  <2>2. user.calls + 1 \in 0 .. MaxCalls /\ user.pc = "idle"
    BY <1>1, <2>1, RtcAssumption DEF MayCall, At, UserType
  <2>3. user' \in UserType /\ user'.pc = pc /\ user'.fn = f
    BY <1>1, <2>1, <2>2 DEF UserType, AlarmPCs, Pointer
  <2>4. alarm' \in AlarmType /\ alarm'.fn = alarm.fn /\ (alarm'.activated => alarm.activated)
    BY <1>1, <2>1 DEF AlarmType
  <2>5. alarm.activated => alarm.fn # NULL /\ rung.times = 0
    BY <2>2 DEF RtcInv, GuardedPointers, ArmedHasNotRung
  <2>6. AlarmRingsOncePerSetting'
    BY <2>1, <2>3 DEF RtcInv, AlarmRingsOncePerSetting, AlarmPCs
  <2>7. user'.pc \in AlarmPCs /\ user'.pc # "idle"
    BY <2>1, <2>3 DEF AlarmPCs
  <2>8. rung' \in RungType /\ rung' = rung
    BY <1>1, <2>1
  <2> QED
    BY <1>2, <2>3, <2>4, <2>5, <2>6, <2>7, <2>8
<1>4. CASE SetAlarmCopied
  <2>1. /\ user.pc \in {"alarm_second", "alarm_off"}
        /\ \/ alarm' = [alarm EXCEPT !.second = user.second]
           \/ alarm' = [alarm EXCEPT !.activated = FALSE]
        /\ user' = [user EXCEPT !.pc = "alarm_on"]
        /\ rung' = rung
    BY <1>4 DEF SetAlarmCopied, At, Goto
  <2>2. user' \in UserType /\ user'.pc = "alarm_on" /\ user'.fn = user.fn
    BY <1>1, <2>1 DEF UserType, AlarmPCs
  <2>3. user.second \in Second
    BY <1>1 DEF UserType
  <2>4. alarm' \in AlarmType /\ alarm'.fn = alarm.fn /\ (alarm'.activated => alarm.activated)
    BY <1>1, <2>1, <2>3 DEF AlarmType
  <2>5. user.fn \in Callback
    BY <2>1 DEF RtcInv, CallHasArguments, AlarmPCs
  <2>6. alarm.activated => alarm.fn # NULL /\ rung.times = 0
    BY <2>1 DEF RtcInv, GuardedPointers, ArmedHasNotRung
  <2>7. AlarmRingsOncePerSetting'
    BY <2>1, <2>2 DEF RtcInv, AlarmRingsOncePerSetting, AlarmPCs
  <2>8. user'.pc \in AlarmPCs /\ user'.pc # "idle"
    BY <2>2 DEF AlarmPCs
  <2> QED
    BY <1>1, <1>2, <2>1, <2>2, <2>4, <2>5, <2>6, <2>7, <2>8
<1>5. CASE SetAlarmOn
  <2>1. /\ user.pc = "alarm_on" /\ alarm' = [alarm EXCEPT !.activated = TRUE]
        /\ rung' = [times |-> 0, fn |-> NULL, early |-> FALSE]
        /\ user' = [user EXCEPT !.pc = "alarm_fn"]
    BY <1>5 DEF SetAlarmOn, At, Goto
  <2>2. user' \in UserType /\ user'.pc = "alarm_fn" /\ user'.fn = user.fn
    BY <1>1, <2>1 DEF UserType, AlarmPCs
  <2>3. alarm' \in AlarmType
    BY <1>1, <2>1 DEF AlarmType
  <2>4. rung' \in RungType /\ rung'.times = 0
    BY <2>1 DEF RungType, Pointer
  <2>5. user.fn \in Callback
    BY <2>1 DEF RtcInv, CallHasArguments, AlarmPCs
  <2>6. AlarmRingsOncePerSetting'
    BY <2>4 DEF AlarmRingsOncePerSetting
  <2> QED
    BY <1>2, <2>2, <2>3, <2>4, <2>5, <2>6 DEF AlarmPCs
<1>6. CASE SetAlarmFn
  <2>1. /\ user.pc = "alarm_fn" /\ alarm' = [alarm EXCEPT !.fn = user.fn]
        /\ user' = [user EXCEPT !.pc = "idle"] /\ rung' = rung
    BY <1>6 DEF SetAlarmFn, At, Goto
  <2>2. user' \in UserType /\ user'.pc = "idle" /\ user'.fn = user.fn
    BY <1>1, <2>1 DEF UserType
  <2>3. user.fn \in Callback /\ user.fn # NULL /\ user.fn \in Pointer
    BY <2>1, RtcAssumption DEF RtcInv, CallHasArguments, AlarmPCs, Pointer
  <2>4. alarm' \in AlarmType /\ alarm'.fn = user.fn /\ alarm'.activated = alarm.activated
    BY <1>1, <2>1, <2>3 DEF AlarmType
  <2>5. alarm.activated => rung.times = 0
    BY DEF RtcInv, ArmedHasNotRung
  <2>6. AlarmRingsOncePerSetting'
    BY <2>1, <2>2 DEF RtcInv, AlarmRingsOncePerSetting, ArmedHasNotRung
  <2> QED
    BY <1>1, <1>2, <2>1, <2>2, <2>3, <2>4, <2>5, <2>6
<1> QED
  BY <1>3, <1>4, <1>5, <1>6

LEMMA RtcInvNext == RtcInv /\ [RtcNext]_rtcVars => RtcInv'
<1>1. RtcInv /\ UNCHANGED rtcVars => RtcInv'
  BY DEF rtcVars, RtcInv, RtcTypeOK, CallHasArguments, GuardedPointers, ArmedHasNotRung,
         NullCalledOnlyMidCall, AlarmRingsOncePerSetting
<1> QED
  BY <1>1, TickKeeps, SetTimeKeeps, AttachKeeps, SetAlarmKeeps DEF RtcNext, UserCall, UserStore

\* The invariant holds of nRF5x_RTC.c under every order of calls and ticks.
THEOREM RtcInvariant == RtcSpec => []RtcInv
  BY RtcInvInit, RtcInvNext, PTL DEF RtcSpec

\* The time stays one of the day, whatever setTimeValue and the setters store
\* while TIME_handler counts.
THEOREM RtcTypeCorrect == RtcSpec => []RtcTypeOK
<1>1. RtcInv => RtcTypeOK
  BY DEF RtcInv
<1> QED
  BY <1>1, RtcInvariant, PTL

\* A null pointer is called only between the stores of setAlarm that activate the
\* alarm and set its function, or between the two of detachCallback.
THEOREM NullOnlyMidCall == RtcSpec => []NullCalledOnlyMidCall
<1>1. RtcInv => NullCalledOnlyMidCall
  BY DEF RtcInv
<1> QED
  BY <1>1, RtcInvariant, PTL

\* An alarm rings at most once for each setAlarm, and with the function passed.
THEOREM AlarmRingsOnce == RtcSpec => []AlarmRingsOncePerSetting
<1>1. RtcInv => AlarmRingsOncePerSetting
  BY DEF RtcInv
<1> QED
  BY <1>1, RtcInvariant, PTL

-----------------------------------------------------------------------------
(* The time that is set.                                                    *)

\* setTimeValue stores second, minute and hour in this order.
StoresInOrder ==
  user.pc = "time" /\ user.whole => user.todo \in {SetOrder, <<"minute", "hour">>, <<"hour">>}

\* The time there will be if no minute ends before setTimeValue has stored it.
Pending ==
  IF ~HalfSet THEN time
  ELSE [second |-> time.second,
        minute |-> IF Len(user.todo) = 2 THEN user.set.minute ELSE time.minute,
        hour |-> user.set.hour]

\* d is l seconds after i, modulo a day.
Lags(d, i, l) == d = i + l \/ d = i + l - Day

Hour == SecondsPerMinute * MinutesPerHour

\* The pending time is the one that is due, or late by the carry that was torn.
PendingIsDue ==
  \E l \in IF due.torn THEN {0, SecondsPerMinute, Hour} ELSE {0} :
    Lags(due.second, InSeconds(Pending), l)

\* A day has at least an hour, and an hour at least a minute.
LEMMA CarriesFitTheDay ==
  /\ SecondsPerMinute \in 1 .. Day /\ Hour \in 1 .. Day
  /\ Day = HoursPerDay * Hour
<1>1. ASSUME NEW a \in Nat \ {0}, NEW b \in Nat \ {0} PROVE a * b \in Nat /\ a <= a * b
  <2>1. a * (b - 1) >= 0 /\ a * b = a * (b - 1) + a
    BY <1>1
  <2> QED
    BY <2>1
<1>2. Hour \in Nat \ {0} /\ SecondsPerMinute <= Hour
  BY <1>1, RtcAssumption DEF Hour
<1>3. Day = Hour * HoursPerDay
  BY DEF Day, Hour
<1>4. Hour <= Hour * HoursPerDay
  BY <1>1, <1>2, RtcAssumption
<1>5. Hour * HoursPerDay = HoursPerDay * Hour
  BY <1>2, RtcAssumption
<1> QED
  BY <1>2, <1>3, <1>4, <1>5, DayIsPositive, RtcAssumption

\* The seconds of a time, without products of its digits.
LEMMA Digits ==
  ASSUME NEW t \in Time
  PROVE  /\ InSeconds(t) = t.hour * Hour + t.minute * SecondsPerMinute + t.second
         /\ t.second \in 0 .. SecondsPerMinute - 1 /\ t.minute \in 0 .. MinutesPerHour - 1
         /\ t.hour \in 0 .. HoursPerDay - 1
<1>1. /\ t.second \in 0 .. SecondsPerMinute - 1 /\ t.minute \in 0 .. MinutesPerHour - 1
      /\ t.hour \in 0 .. HoursPerDay - 1
  BY DEF Time, Second
<1>2. ASSUME NEW h \in Int, NEW m \in Int, NEW s \in Int, NEW n \in Int, NEW k \in Int
      PROVE  (h * n + m) * k + s = h * (k * n) + m * k + s
  OBVIOUS
<1> QED
  BY <1>1, <1>2, RtcAssumption DEF InSeconds, Hour

\* A remainder of one more than a second of the day.
LEMMA NextOfDay ==
  ASSUME NEW n \in 0 .. Day - 1
  PROVE  (n + 1) % Day = IF n + 1 = Day THEN 0 ELSE n + 1
<1> QED
  BY DayIsPositive

\* A lag stays what it is while both clocks advance.
LEMMA LagAdvances ==
  ASSUME NEW d \in 0 .. Day - 1, NEW i \in 0 .. Day - 1, NEW l \in 0 .. Day, Lags(d, i, l)
  PROVE  Lags((d + 1) % Day, (i + 1) % Day, l)
  BY DayIsPositive, NextOfDay DEF Lags

\* What is set against NextSecond: the minute whose carry is lost.
LEMMA NextSecondAdvances ==
  ASSUME NEW t \in Time
  PROVE  /\ InSeconds(NextSecond(t)) = (InSeconds(t) + 1) % Day
         /\ t.second + 1 < SecondsPerMinute =>
              NextSecond(t) = [t EXCEPT !.second = t.second + 1]
<1> DEFINE u == NextSecond(t)
<1>1. /\ u \in Time /\ InSeconds(t) \in 0 .. Day - 1
      /\ InSeconds(t) = t.hour * Hour + t.minute * SecondsPerMinute + t.second
      /\ InSeconds(u) = u.hour * Hour + u.minute * SecondsPerMinute + u.second
  BY NextSecondIsTime, InSecondsInRange, Digits
<1>2. /\ t.second \in 0 .. SecondsPerMinute - 1 /\ t.minute \in 0 .. MinutesPerHour - 1
      /\ t.hour \in 0 .. HoursPerDay - 1
  BY Digits
<1>3. CASE ~Over(t.second, SecondsPerMinute)
  <2>1. u = [second |-> t.second + 1, minute |-> t.minute, hour |-> t.hour]
    BY <1>3 DEF NextSecond, Bumped, Over
  <2>2. u = [t EXCEPT !.second = t.second + 1]
    BY <2>1 DEF Time
  <2>3. InSeconds(u) = InSeconds(t) + 1 /\ InSeconds(u) \in 0 .. Day - 1
    <3>1. t.hour * Hour \in Int /\ t.minute * SecondsPerMinute \in Int
      BY <1>2, CarriesFitTheDay, RtcAssumption
    <3>2. u.hour = t.hour /\ u.minute = t.minute /\ u.second = t.second + 1
      BY <2>1
    <3>3. InSeconds(u) = t.hour * Hour + t.minute * SecondsPerMinute + (t.second + 1)
      BY <1>1, <3>2
    <3>4. InSeconds(u) = InSeconds(t) + 1
      BY <1>1, <1>2, <3>1, <3>3
    <3> QED
      BY <1>1, <3>4, InSecondsInRange
  <2> QED
    BY <1>1, <2>2, <2>3, NextOfDay
<1>4. CASE Over(t.second, SecondsPerMinute) /\ ~Over(t.minute, MinutesPerHour)
  <2>1. u = [second |-> 0, minute |-> t.minute + 1, hour |-> t.hour] /\ t.second + 1 = SecondsPerMinute
    BY <1>4 DEF NextSecond, Bumped, Over
  <2>2. (t.minute + 1) * SecondsPerMinute = t.minute * SecondsPerMinute + SecondsPerMinute
    BY <1>2, RtcAssumption
  <2>3. t.hour * Hour \in Int /\ t.minute * SecondsPerMinute \in Int
    BY <1>2, CarriesFitTheDay, RtcAssumption
  <2>4. InSeconds(u) = InSeconds(t) + 1 /\ InSeconds(u) \in 0 .. Day - 1
    BY <1>1, <1>2, <2>1, <2>2, <2>3, InSecondsInRange, RtcAssumption
  <2>5. ~(t.second + 1 < SecondsPerMinute)
    BY <1>2, <2>1, RtcAssumption
  <2> QED
    BY <1>1, <2>4, <2>5, NextOfDay
<1>5. CASE Over(t.second, SecondsPerMinute) /\ Over(t.minute, MinutesPerHour)
  <2>1. /\ u = [second |-> 0, minute |-> 0, hour |-> Bumped(t.hour, HoursPerDay)]
        /\ t.second + 1 = SecondsPerMinute /\ t.minute + 1 = MinutesPerHour
    BY <1>5 DEF NextSecond, Bumped, Over
  <2>2. t.minute * SecondsPerMinute + SecondsPerMinute = Hour
    <3>1. (t.minute + 1) * SecondsPerMinute = t.minute * SecondsPerMinute + SecondsPerMinute
      BY <1>2, RtcAssumption
    <3> QED
      BY <2>1, <3>1, RtcAssumption DEF Hour
  <2>3. InSeconds(t) + 1 = t.hour * Hour + Hour
    BY <1>1, <1>2, <2>1, <2>2, CarriesFitTheDay, RtcAssumption
  <2>4. (t.hour + 1) * Hour = t.hour * Hour + Hour
    BY <1>2, CarriesFitTheDay
  <2>5. CASE t.hour + 1 = HoursPerDay
    <3>1. InSeconds(u) = 0
      BY <1>1, <2>1, <2>5, CarriesFitTheDay, RtcAssumption DEF Bumped
    <3>2. InSeconds(t) + 1 = Day
      BY <2>3, <2>4, <2>5, CarriesFitTheDay
    <3> QED
      BY <1>1, <2>1, <3>1, <3>2, NextOfDay, RtcAssumption
  <2>6. CASE t.hour + 1 # HoursPerDay
    <3>1. u.hour = t.hour + 1 /\ u.minute = 0 /\ u.second = 0
      BY <2>1, <2>6 DEF Bumped
    <3>2. InSeconds(u) = InSeconds(t) + 1 /\ InSeconds(u) \in 0 .. Day - 1
      BY <1>1, <1>2, <2>3, <2>4, <3>1, InSecondsInRange, CarriesFitTheDay, RtcAssumption
    <3> QED
      BY <1>1, <2>1, <3>2, NextOfDay, RtcAssumption
  <2> QED
    BY <2>5, <2>6
<1> QED
  BY <1>3, <1>4, <1>5

SetInv == RtcInv /\ StoresInOrder /\ PendingIsDue

LEMMA PendingIsTime == RtcTypeOK => Pending \in Time
<1> SUFFICES ASSUME RtcTypeOK PROVE Pending \in Time
  OBVIOUS
<1>1. time \in Time /\ user.set \in Time
  BY RtcTypes DEF UserType
<1> QED
  BY <1>1 DEF Pending, Time

LEMMA SetInvInit == RtcInit => SetInv
<1> SUFFICES ASSUME RtcInit PROVE SetInv
  OBVIOUS
<1>1. StoresInOrder /\ Pending = Midnight /\ due.second = 0
  BY DEF RtcInit, StoresInOrder, Pending, HalfSet
<1>2. Lags(due.second, InSeconds(Pending), 0)
  BY <1>1, MidnightIsTime DEF Lags
<1> QED
  BY <1>1, <1>2, RtcInvInit DEF SetInv, PendingIsDue

\* A call that does not set the time leaves it and what is due.
LEMMA OtherCallKeepsTime ==
  ASSUME SetInv, UNCHANGED <<time, due>>, user.pc # "time", user'.pc # "time"
  PROVE  StoresInOrder' /\ PendingIsDue'
<1>1. Pending = time /\ Pending' = time' /\ StoresInOrder'
  BY DEF Pending, HalfSet, StoresInOrder
<1> QED
  BY <1>1 DEF SetInv, PendingIsDue

\* A second that ends: it advances both, or tears the carry of its minute off.
LEMMA SecondKeepsTime ==
  ASSUME SetInv, ticker + 1 = TicksPerSecond, UNCHANGED user, time' = NextSecond(time),
         due' = [second |-> (due.second + 1) % Day, torn |-> due.torn \/ (HalfSet /\ MinuteEnds)],
         ~(HalfSet /\ due.torn /\ MinuteEnds)
  PROVE  PendingIsDue'
<1> DEFINE i == InSeconds(Pending)
           d == due.second
<1>1. time \in Time /\ user.set \in Time /\ Pending \in Time /\ d \in 0 .. Day - 1
  BY PendingIsTime, RtcTypes DEF UserType, SetInv, RtcInv
<1>2. i \in 0 .. Day - 1 /\ due'.second = (d + 1) % Day
  BY <1>1, InSecondsInRange
<1>3. PICK l \in IF due.torn THEN {0, SecondsPerMinute, Hour} ELSE {0} : Lags(d, i, l)
  BY DEF SetInv, PendingIsDue
<1>4. l \in 0 .. Day
  BY <1>3, CarriesFitTheDay, DayIsPositive
<1>5. ASSUME Pending' = NextSecond(Pending) PROVE PendingIsDue'
  <2>1. InSeconds(Pending') = (i + 1) % Day
    BY <1>1, <1>5, NextSecondAdvances
  <2>2. Lags((d + 1) % Day, (i + 1) % Day, l)
    BY <1>1, <1>2, <1>3, <1>4, LagAdvances
  <2>3. l \in IF due'.torn THEN {0, SecondsPerMinute, Hour} ELSE {0}
    BY <1>3
  <2> QED
    BY <1>2, <2>1, <2>2, <2>3 DEF PendingIsDue
<1>6. CASE ~HalfSet
  BY <1>5, <1>6 DEF Pending, HalfSet
<1>7. CASE HalfSet /\ ~MinuteEnds
  <2>1. time.second + 1 < SecondsPerMinute
    BY <1>1, <1>7, RtcAssumption DEF MinuteEnds, Over, Time, Second
  <2>2. time' = [time EXCEPT !.second = time.second + 1]
    BY <1>1, <2>1, NextSecondAdvances
  <2>3. Pending' = [Pending EXCEPT !.second = time.second + 1] /\ Pending.second = time.second
    BY <1>1, <1>7, <2>2 DEF Pending, HalfSet, Time
  <2> QED
    BY <1>1, <1>5, <2>1, <2>3, NextSecondAdvances
<1>8. CASE HalfSet /\ MinuteEnds
  <2>1. l = 0 /\ due'.torn /\ time.second + 1 = SecondsPerMinute
    BY <1>3, <1>8 DEF MinuteEnds, Over
  <2>2. d = i \/ d = i - Day
    BY <1>1, <1>2, <1>3, <2>1, DayIsPositive DEF Lags
  <2>3. d = i
    BY <1>1, <1>2, <2>2, DayIsPositive
  <2>4. Pending' \in Time
    BY <1>1, NextSecondIsTime DEF Pending, Time
  <2>5. user.todo \in {<<"minute", "hour">>, <<"hour">>}
    BY <1>8 DEF HalfSet, SetInv, StoresInOrder, SetOrder
  <2>6. HalfSet'
    BY <1>8 DEF HalfSet
  <2>7. ASSUME NEW c \in {SecondsPerMinute, Hour}, i + 1 = InSeconds(Pending') + c
        PROVE  PendingIsDue'
    <3>1. InSeconds(Pending') \in 0 .. Day - 1 /\ c \in 1 .. Day
      BY <2>4, InSecondsInRange, CarriesFitTheDay
    <3>2. Lags((d + 1) % Day, InSeconds(Pending'), c)
      BY <1>1, <2>3, <2>7, <3>1, NextOfDay, DayIsPositive DEF Lags
    <3> QED
      BY <1>2, <2>1, <3>2 DEF PendingIsDue
  <2>8. time'.second = 0 /\ time'.minute = Bumped(time.minute, MinutesPerHour)
    BY <1>8, <2>1 DEF NextSecond, MinuteEnds, Over, Bumped
  <2>9. /\ i = Pending.hour * Hour + Pending.minute * SecondsPerMinute + Pending.second
        /\ InSeconds(Pending') = Pending'.hour * Hour + Pending'.minute * SecondsPerMinute
                                   + Pending'.second
    BY <1>1, <2>4, Digits
  <2>10. /\ Pending.hour = user.set.hour /\ Pending.second = SecondsPerMinute - 1
         /\ Pending'.hour = user.set.hour /\ Pending'.second = 0
    <3>1. time.second = SecondsPerMinute - 1
      BY <1>1, <2>1, RtcAssumption DEF Time, Second
    <3> QED
      BY <1>8, <2>6, <2>8, <3>1 DEF Pending
  <2>11. user.set.hour * Hour \in Int
    BY <1>1, CarriesFitTheDay DEF Time
  <2>12. CASE user.todo = <<"minute", "hour">>
    <3>1. Pending.minute = user.set.minute /\ Pending'.minute = user.set.minute
      BY <1>8, <2>6, <2>12 DEF Pending
    <3>2. user.set.minute * SecondsPerMinute \in Int
      BY <1>1, RtcAssumption DEF Time
    <3>3. i + 1 = InSeconds(Pending') + SecondsPerMinute
      BY <2>9, <2>10, <2>11, <3>1, <3>2, RtcAssumption
    <3> QED
      BY <2>7, <3>3
  <2>13. CASE user.todo = <<"hour">>
    <3>1. Pending.minute = time.minute /\ Pending'.minute = Bumped(time.minute, MinutesPerHour)
      BY <1>8, <2>6, <2>8, <2>13 DEF Pending
    <3>2. CASE Over(time.minute, MinutesPerHour)
      <4>1. Pending'.minute = 0 /\ time.minute + 1 = MinutesPerHour
        BY <3>1, <3>2 DEF Over, Bumped
      <4>2. (time.minute + 1) * SecondsPerMinute = time.minute * SecondsPerMinute + SecondsPerMinute
        BY <1>1, RtcAssumption DEF Time
      <4>3. time.minute * SecondsPerMinute + SecondsPerMinute = Hour
        BY <4>1, <4>2, RtcAssumption DEF Hour
      <4>4. time.minute * SecondsPerMinute \in Int
        BY <1>1, RtcAssumption DEF Time
      <4>5. InSeconds(Pending') = user.set.hour * Hour
        BY <2>9, <2>10, <2>11, <4>1, RtcAssumption
      <4>6. i + 1 = InSeconds(Pending') + Hour
        BY <2>9, <2>10, <2>11, <3>1, <4>3, <4>4, <4>5, RtcAssumption, CarriesFitTheDay
      <4> QED
        BY <2>7, <4>6
    <3>3. CASE ~Over(time.minute, MinutesPerHour)
      <4>1. /\ NextSecond(Pending).second = 0
            /\ NextSecond(Pending).minute = Bumped(time.minute, MinutesPerHour)
            /\ NextSecond(Pending).hour = user.set.hour
        BY <2>1, <2>10, <3>1, <3>3, RtcAssumption DEF NextSecond, Over, Bumped
      <4>2. NextSecond(Pending) \in Time
        BY <1>1, NextSecondIsTime
      <4>3. Pending' = NextSecond(Pending)
        BY <2>4, <2>10, <3>1, <4>1, <4>2 DEF Time
      <4> QED
        BY <1>5, <4>3
    <3> QED
      BY <3>2, <3>3
  <2> QED
    BY <2>5, <2>12, <2>13
<1> QED
  BY <1>6, <1>7, <1>8

LEMMA TickKeepsTime == SetInv /\ Tick => StoresInOrder' /\ PendingIsDue'
<1> SUFFICES ASSUME SetInv, Tick PROVE StoresInOrder' /\ PendingIsDue'
  OBVIOUS
<1>1. UNCHANGED user /\ ~(HalfSet /\ due.torn /\ MinuteEnds)
  BY DEF Tick
<1>2. StoresInOrder'
  BY <1>1 DEF SetInv, StoresInOrder
<1>3. CASE UNCHANGED <<time, due>>
  <2>1. Pending' = Pending
    BY <1>1, <1>3 DEF Pending, HalfSet
  <2> QED
    BY <1>2, <1>3, <2>1 DEF SetInv, PendingIsDue
<1>4. CASE /\ ticker + 1 = TicksPerSecond /\ time' = NextSecond(time)
           /\ due' = [second |-> (due.second + 1) % Day,
                      torn |-> due.torn \/ (HalfSet /\ MinuteEnds)]
  BY <1>1, <1>2, <1>4, SecondKeepsTime
<1> QED
  BY <1>3, <1>4 DEF Tick, TimeHandler, CountTime

\* A store: the first of setTimeValue's decides what is due, the others only
\* catch up with it; any other call's store is what is due at once.
LEMMA StoreKeepsTime == SetInv /\ SetTimeStore => StoresInOrder' /\ PendingIsDue'
<1> SUFFICES ASSUME SetInv, SetTimeStore PROVE StoresInOrder' /\ PendingIsDue'
  OBVIOUS
<1>1. /\ user.pc = "time" /\ user \in UserType /\ time \in Time /\ user.set \in Time
      /\ time' = [time EXCEPT ![Head(user.todo)] = user.set[Head(user.todo)]]
  BY RtcTypes DEF SetInv, RtcInv, SetTimeStore, At, UserType
<1>2. ASSUME Pending' = Pending, due' = due PROVE PendingIsDue'
  BY <1>2 DEF SetInv, PendingIsDue
<1>3. ASSUME due' = [second |-> InSeconds(Pending'), torn |-> FALSE], Pending' \in Time
      PROVE  PendingIsDue'
  <2>1. Lags(due'.second, InSeconds(Pending'), 0)
    BY <1>3, InSecondsInRange DEF Lags
  <2> QED
    BY <2>1 DEF PendingIsDue
<1>4. CASE ~user.whole
  <2>1. ~user'.whole
    BY <1>1, <1>4 DEF SetTimeStore, UserType
  <2>2. Pending' = time' /\ due' = [second |-> InSeconds(time'), torn |-> FALSE]
    BY <1>4, <2>1 DEF SetTimeStore, Pending, HalfSet
  <2>3. time' \in Time
    BY SetTimeKeeps DEF SetInv, RtcInv, RtcTypeOK
  <2> QED
    BY <1>3, <2>1, <2>2, <2>3 DEF StoresInOrder
<1>5. CASE user.whole /\ user.todo = SetOrder
  <2>1. /\ time' = [time EXCEPT !.second = user.set.second]
        /\ user' = [user EXCEPT !.todo = <<"minute", "hour">>]
        /\ due' = [second |-> InSeconds(user.set), torn |-> FALSE]
    <3>1. Head(user.todo) = "second" /\ Len(user.todo) = 3 /\ Tail(user.todo) = <<"minute", "hour">>
      BY <1>5 DEF SetOrder
    <3>2. time' = [time EXCEPT !["second"] = user.set["second"]]
      BY <1>1, <3>1
    <3>3. /\ user' = [user EXCEPT !.todo = Tail(user.todo)]
          /\ due' = [second |-> InSeconds(user.set), torn |-> FALSE]
      BY <1>5, <3>1 DEF SetTimeStore
    <3> QED
      BY <3>1, <3>2, <3>3
  <2>2. /\ user'.pc = "time" /\ user'.whole /\ user'.todo = <<"minute", "hour">>
        /\ user'.set = user.set
    BY <1>1, <1>5, <2>1 DEF UserType
  <2>3. Pending' = [second |-> user.set.second, minute |-> user.set.minute,
                    hour |-> user.set.hour]
    BY <1>1, <2>1, <2>2 DEF Pending, HalfSet, Time
  <2>4. Pending' = user.set
    BY <1>1, <2>3 DEF Time
  <2> QED
    BY <1>1, <1>3, <2>1, <2>2, <2>4 DEF StoresInOrder
<1>6. CASE user.whole /\ user.todo = <<"minute", "hour">>
  <2>1. /\ time' = [time EXCEPT !.minute = user.set.minute]
        /\ user' = [user EXCEPT !.todo = <<"hour">>] /\ due' = due
    <3>1. Head(user.todo) = "minute" /\ Len(user.todo) = 2 /\ Tail(user.todo) = <<"hour">>
      BY <1>6
    <3>2. time' = [time EXCEPT !["minute"] = user.set["minute"]]
      BY <1>1, <3>1
    <3>3. user' = [user EXCEPT !.todo = Tail(user.todo)] /\ due' = due
      BY <1>6, <3>1 DEF SetTimeStore
    <3> QED
      BY <3>1, <3>2, <3>3
  <2>2. user'.pc = "time" /\ user'.whole /\ user'.todo = <<"hour">> /\ user'.set = user.set
    BY <1>1, <1>6, <2>1 DEF UserType
  <2>3. Pending' = [second |-> time.second, minute |-> user.set.minute, hour |-> user.set.hour]
    BY <1>1, <2>1, <2>2 DEF Pending, HalfSet, Time
  <2>4. Pending = [second |-> time.second, minute |-> user.set.minute, hour |-> user.set.hour]
    BY <1>1, <1>6 DEF Pending, HalfSet
  <2> QED
    BY <1>2, <2>1, <2>2, <2>3, <2>4 DEF StoresInOrder
<1>7. CASE user.whole /\ user.todo = <<"hour">>
  <2>1. /\ time' = [time EXCEPT !.hour = user.set.hour] /\ due' = due
        /\ user' = [user EXCEPT !.pc = "idle", !.todo = <<>>, !.set = Midnight, !.whole = FALSE]
    <3>1. Head(user.todo) = "hour" /\ Len(user.todo) = 1
      BY <1>7
    <3>2. time' = [time EXCEPT !["hour"] = user.set["hour"]]
      BY <1>1, <3>1
    <3>3. /\ user' = [user EXCEPT !.pc = "idle", !.todo = <<>>, !.set = Midnight, !.whole = FALSE]
          /\ due' = due
      BY <1>7, <3>1 DEF SetTimeStore
    <3> QED
      BY <3>2, <3>3
  <2>2. user'.pc # "time"
    BY <1>1, <2>1 DEF UserType
  <2>3. Pending' = time'
    BY <2>2 DEF Pending, HalfSet
  <2>4. Pending = [second |-> time.second, minute |-> time.minute, hour |-> user.set.hour]
    BY <1>1, <1>7 DEF Pending, HalfSet
  <2>5. time' = [second |-> time.second, minute |-> time.minute, hour |-> user.set.hour]
    BY <1>1, <2>1 DEF Time
  <2> QED
    BY <1>2, <2>1, <2>2, <2>3, <2>4, <2>5 DEF StoresInOrder
<1> QED
  BY <1>1, <1>4, <1>5, <1>6, <1>7 DEF SetInv, StoresInOrder

LEMMA SetInvNext == SetInv /\ [RtcNext]_rtcVars => SetInv'
<1> SUFFICES ASSUME SetInv, [RtcNext]_rtcVars PROVE SetInv'
  OBVIOUS
<1>1. user \in UserType
  BY RtcTypes DEF SetInv, RtcInv
<1>2. RtcInv'
  BY RtcInvNext DEF SetInv
<1>3. CASE UNCHANGED rtcVars
  BY <1>2, <1>3 DEF rtcVars, SetInv, StoresInOrder, PendingIsDue, Pending, HalfSet
<1>4. CASE Tick
  BY <1>2, <1>4, TickKeepsTime DEF SetInv
<1>5. CASE SetTimeCall
  <2>1. /\ user.pc = "idle" /\ UNCHANGED <<time, due>>
        /\ user'.whole => user'.todo = SetOrder
    BY <1>1, <1>5 DEF SetTimeCall, MayCall, At, UserType
  <2>2. ~HalfSet /\ ~HalfSet' /\ StoresInOrder'
    <3>1. ~HalfSet
      BY <2>1 DEF HalfSet
    <3>2. user'.whole => ~(Len(user'.todo) < 3)
      <4>1. Len(SetOrder) = 3
        BY DEF SetOrder
      <4>2. ~(Len(SetOrder) < 3)
        BY <4>1
      <4> QED
        BY <2>1, <4>2
    <3>3. ~HalfSet'
      BY <3>2 DEF HalfSet
    <3>4. StoresInOrder'
      BY <2>1 DEF StoresInOrder
    <3> QED
      BY <3>1, <3>3, <3>4
  <2>3. Pending = time /\ Pending' = time'
    BY <2>2 DEF Pending
  <2> QED
    BY <1>2, <2>1, <2>2, <2>3 DEF SetInv, PendingIsDue
<1>6. CASE SetTimeStore
  BY <1>2, <1>6, StoreKeepsTime DEF SetInv
<1>7. CASE \/ AttachCall \/ AttachFlag \/ EnableTime \/ StartRtc \/ StopTime
           \/ SetAlarmCall \/ SetAlarmCopied \/ SetAlarmOn \/ SetAlarmFn
  <2>1. UNCHANGED <<time, due>> /\ user.pc # "time"
    BY <1>7 DEF AttachCall, AttachFlag, EnableTime, StartRtc, StopTime, SetAlarmCall,
                SetAlarmCopied, SetAlarmOn, SetAlarmFn, MayCall, At
  <2>2. user'.pc # "time"
    BY <1>1, <1>7, <2>1
    DEF AttachCall, AttachFlag, EnableTime, StartRtc, StopTime, SetAlarmCall,
        SetAlarmCopied, SetAlarmOn, SetAlarmFn, MayCall, At, Goto, UserType
  <2> QED
    BY <1>2, <2>1, <2>2, OtherCallKeepsTime DEF SetInv
<1> QED
  BY <1>3, <1>4, <1>5, <1>6, <1>7 DEF RtcNext, UserCall, UserStore

\* What lags by l is late by l, or by nothing if l is a whole day.
LEMMA LagIsLate ==
  ASSUME NEW d \in 0 .. Day - 1, NEW i \in 0 .. Day - 1, NEW l \in 0 .. Day, Lags(d, i, l)
  PROVE  (d - i) % Day \in {0, l}
  BY DayIsPositive DEF Lags

\* A time set with setTimeValue is the one the clock shows, less at most the one
\* carry that fell between its stores: the minute's into minutes still to be
\* set, or the hour's.
THEOREM SetTimeIsKept == RtcSpec => []SetTimeLosesAtMostACarry
<1>1. SetInv => SetTimeLosesAtMostACarry
  <2> SUFFICES ASSUME SetInv, user.pc # "time"
               PROVE  LET late == (due.second - InSeconds(time)) % Day
                      IN late = 0 \/ (due.torn /\ late \in {SecondsPerMinute, Hour})
    BY DEF SetTimeLosesAtMostACarry, Hour
  <2>1. Pending = time
    BY DEF Pending, HalfSet
  <2>2. PICK l \in IF due.torn THEN {0, SecondsPerMinute, Hour} ELSE {0} :
          Lags(due.second, InSeconds(time), l)
    BY <2>1 DEF SetInv, PendingIsDue
  <2>3. /\ due.second \in 0 .. Day - 1 /\ InSeconds(time) \in 0 .. Day - 1
        /\ l \in 0 .. Day
    BY <2>2, RtcTypes, InSecondsInRange, CarriesFitTheDay, DayIsPositive DEF SetInv, RtcInv
  <2>4. (due.second - InSeconds(time)) % Day \in {0, l}
    BY <2>2, <2>3, LagIsLate
  <2> QED
    BY <2>2, <2>4
<1> QED
  BY <1>1, SetInvInit, SetInvNext, PTL DEF RtcSpec

-----------------------------------------------------------------------------
(* The millisecond clock: what micros tells and how long delay waits.       *)

\* The counter's place in its period.  At 0 the period it asked the interrupt
\* for begins one cycle later, with the reload.
Place == IF tick.val = 0 THEN -1 ELSE Load - tick.val

\* The ticks that are not lost and not yet counted: one asked for, one at work.
Owed == tick.pend + (IF tick.busy THEN 1 ELSE 0)

\* What % Span does to a number less than a span away.
Wrapped(x) == IF x < 0 THEN x + Span ELSE IF x >= Span THEN x - Span ELSE x

\* The registers and the count together tell the clock's time.
ClockTold == Kept = Wrapped((tick.count + Owed) * Period + Place)

\* What a call reads depends on who makes it: the main loop reads only when
\* nothing is owed; what an interrupt reads of the count does not change.
InMicros == call.pc \in {"val", "pend", "count"}
Caller ==
  /\ call.pc = "wait" => ~call.irq
  /\ InMicros => (call.early <=> call.irq /\ tick.busy)
  /\ InMicros /\ ~call.first /\ call.irq =>
       call.old.count = tick.count /\ call.old.pend <= tick.pend
  /\ InMicros /\ ~call.first /\ ~call.irq => call.old.pend = 0
  /\ call.pc = "count" /\ call.irq => call.new.pend <= tick.pend
  /\ call.pc = "count" /\ ~call.irq => call.new.pend = 0

NowShown == InMicros => Kept \in call.shown

\* The time in this period at which the counter stood at v.
ThisPeriod(v) == Wrapped((tick.count + Owed) * Period + (Load - v))

\* A counter below the value read has come down since it was read.
ValIsShown ==
  call.pc \in {"pend", "count"} /\ tick.val # 0 /\ call.new.val >= tick.val =>
    ThisPeriod(call.new.val) \in call.shown

\* The time the older round tells, with the tick at work in a call that began
\* inside the handler, has been shown during the call,
Early == IF call.early THEN 1 ELSE 0
OldTold == Wrapped((call.old.count + (call.old.pend + Early)) * Period + (Load - call.old.val))
Shown == OldTold \in call.shown
\* or the counter has still to come down to it: the next reading of it shows it,
Later == /\ tick.count = call.old.count
         /\ Owed = call.old.pend + Early
         /\ tick.val > call.old.val \/ (tick.val = 0 /\ call.read)
\* or the request came after its reading: the next reading of it shows it.
Overtaken == call.irq /\ call.old.pend = 0 /\ tick.pend = 1

OldRound ==
  /\ call.pc = "val" /\ ~call.first => Shown \/ Later \/ Overtaken
  /\ call.pc = "pend" /\ ~call.first =>
       Shown \/ call.new.val > call.old.val \/ Overtaken
  /\ call.pc = "count" /\ ~call.first =>
       Shown \/ call.new.val > call.old.val \/ call.old.pend # call.new.pend

\* The periods counted since delay began, those owed and the counter's place
\* never add up to more than the call has lasted.
Passed == (tick.count - call.start) % TickMod
DelayAged == call.pc = "wait" => call.age >= (Passed + Owed) * Period + Place - (Load - 1)

ClockInv == /\ ClockTypeOK /\ ClockTold /\ Caller /\ NowShown /\ ValIsShown
            /\ OldRound /\ DelayAged /\ MicrosIsTimely /\ DelayLongEnough

LEMMA ModWrapped ==
  ASSUME NEW s \in Nat \ {0}, NEW x \in Int, -s <= x, x < s + s
  PROVE  x % s = IF x < 0 THEN x + s ELSE IF x >= s THEN x - s ELSE x
OBVIOUS

LEMMA TimesSucc == ASSUME NEW a \in Int, NEW b \in Int PROVE (a + 1) * b = a * b + b
OBVIOUS

LEMMA TimesMono == ASSUME NEW a \in Int, NEW b \in Int, NEW c \in Nat, a <= b PROVE a * c <= b * c
OBVIOUS

LEMMA SpanFacts ==
  /\ Period \in Nat /\ Period = Load + 1 /\ Period > 1 /\ Span \in Nat /\ Span >= Period + Period
  /\ \A c \in Nat : c * Period \in Nat /\ (c + 1) * Period = c * Period + Period
  /\ \A c \in 0 .. TickMod - 1 : c * Period <= Span - Period
  /\ TickMod * Period = Span
<1>1. Load \in Nat \ {0} /\ TickMod \in Nat \ {0, 1} BY ClockAssumption
<1>2. Period \in Nat /\ Period = Load + 1 /\ Period > 1 BY <1>1 DEF Period
<1>3. Span = Period * TickMod BY DEF Span
<1>4. TickMod * Period = Span BY <1>1, <1>2, <1>3
<1>5. 2 * Period <= TickMod * Period BY <1>1, <1>2, TimesMono
<1>6. \A c \in Nat : c * Period \in Nat /\ (c + 1) * Period = c * Period + Period
  BY <1>2, TimesSucc
<1>8. Span \in Nat BY <1>1, <1>2, <1>3
<1>7. \A c \in 0 .. TickMod - 1 : c * Period <= Span - Period
  <2> SUFFICES ASSUME NEW c \in 0 .. TickMod - 1 PROVE c * Period <= Span - Period OBVIOUS
  <2>1. (c + 1) * Period <= TickMod * Period BY <1>1, <1>2, TimesMono
  <2>2. c * Period \in Nat /\ (c + 1) * Period = c * Period + Period BY <1>1, <1>6
  <2> QED BY <2>1, <2>2, <1>2, <1>4, <1>8
<1> QED BY <1>2, <1>4, <1>5, <1>6, <1>7, <1>8

LEMMA SpanBasics == Span \in Nat \ {0} /\ Span > Load + 1 /\ Load \in Nat /\ Load >= 1
<1>1. Span \in Nat /\ Span >= Period + Period /\ Period = Load + 1 BY SpanFacts
<1> QED BY <1>1, ClockAssumption

LEMMA TickTypes ==
  ASSUME ClockTypeOK
  PROVE  /\ tick.val \in 0 .. Load /\ tick.pend \in {0, 1} /\ tick.busy \in BOOLEAN
         /\ tick.count \in 0 .. TickMod - 1 /\ now \in 0 .. Span - 1
         /\ lost \in 0 .. TickMod - 1
         /\ tick = [val |-> tick.val, pend |-> tick.pend, busy |-> tick.busy,
                    count |-> tick.count]
BY DEF ClockTypeOK

LEMMA CallTypes ==
  ASSUME ClockTypeOK
  PROVE  /\ call.irq \in BOOLEAN /\ call.first \in BOOLEAN /\ call.read \in BOOLEAN
         /\ call.early \in BOOLEAN /\ call.age \in 0 .. MaxAge
         /\ call.ms \in Delays \cup {0} /\ call.start \in 0 .. TickMod - 1
         /\ call.old \in Reading /\ call.new \in Reading
         /\ call.shown \in SUBSET (0 .. Span - 1)
         /\ call.old.val \in 0 .. Load /\ call.old.pend \in {0, 1}
         /\ call.old.count \in 0 .. TickMod - 1
         /\ call.new.val \in 0 .. Load /\ call.new.pend \in {0, 1}
         /\ call.new.count \in 0 .. TickMod - 1
BY DEF ClockTypeOK, Reading

LEMMA Sorts == Load \in Nat /\ Load > 0 /\ TickMod \in Nat /\ TickMod > 1 /\ MaxAge \in Nat /\ Delays \subseteq Nat
BY ClockAssumption

LEMMA OwedType == ASSUME ClockTypeOK PROVE Owed \in 0 .. 2
BY TickTypes DEF Owed

LEMMA PlaceType == ASSUME ClockTypeOK PROVE Place \in Int /\ Place >= -1 /\ Place < Load
BY TickTypes, Sorts DEF Place

\* The periods counted and owed, a number up to a period past the span.
LEMMA SumType ==
  ASSUME NEW c \in 0 .. TickMod - 1, NEW o \in 0 .. 2
  PROVE  /\ (c + o) * Period \in Nat /\ (c + o) * Period <= Span + Period
         /\ o > 0 => (c + o) * Period >= Period
         /\ c = TickMod - 1 /\ o > 0 => (c + o) * Period = Span + (o - 1) * Period
         /\ (o - 1) * Period = o * Period - Period
         /\ o * Period = (IF o = 0 THEN 0 ELSE IF o = 1 THEN Period ELSE Period + Period)
<1>1. Period \in Nat /\ TickMod \in Nat /\ TickMod * Period = Span /\ Span \in Nat
  BY SpanFacts, Sorts
<1>2. c \in Nat /\ c * Period \in Nat /\ c * Period <= Span - Period BY SpanFacts, Sorts
<1>3. (c + 1) * Period = c * Period + Period BY SpanFacts, <1>2
<1>4. (c + 2) * Period = c * Period + Period + Period
  <2>1. ((c + 1) + 1) * Period = (c + 1) * Period + Period BY SpanFacts, <1>2
  <2>2. (c + 1) + 1 = c + 2 BY <1>2
  <2> QED BY <1>3, <2>1, <2>2
<1>5. c = TickMod - 1 => c * Period = Span - Period
  <2>1. c = TickMod - 1 => c + 1 = TickMod BY <1>1
  <2> QED BY <1>1, <1>2, <1>3, <2>1
<1>6. 0 * Period = 0 /\ 1 * Period = Period /\ 2 * Period = Period + Period
      /\ (0 - 1) * Period = 0 - Period
  BY <1>1
<1>7. CASE o = 0 BY <1>1, <1>2, <1>6, <1>7
<1>8. CASE o = 1 BY <1>1, <1>2, <1>3, <1>5, <1>6, <1>8
<1>9. CASE o = 2 BY <1>1, <1>2, <1>4, <1>5, <1>6, <1>9
<1> QED BY <1>7, <1>8, <1>9

LEMMA DifferenceIs ==
  ASSUME NEW n \in 0 .. Span - 1, NEW m \in 0 .. Span - 1
  PROVE  (n - m) % Span = IF n < m THEN n - m + Span ELSE n - m
<1> DEFINE x == n - m
<1>1. x \in Int /\ -Span <= x /\ x < Span + Span /\ x < Span /\ Span \in Nat \ {0}
  BY SpanBasics
<1>2. x % Span = IF x < 0 THEN x + Span ELSE IF x >= Span THEN x - Span ELSE x
  BY <1>1, ModWrapped
<1> QED BY <1>1, <1>2

LEMMA NextCount ==
  ASSUME NEW c \in 0 .. TickMod - 1
  PROVE  (c + 1) % TickMod = IF c = TickMod - 1 THEN 0 ELSE c + 1
<1> DEFINE x == c + 1
<1>1. x \in Int /\ -TickMod <= x /\ x < TickMod + TickMod /\ TickMod \in Nat \ {0}
  BY Sorts
<1>2. x % TickMod = IF x < 0 THEN x + TickMod ELSE IF x >= TickMod THEN x - TickMod ELSE x
  BY <1>1, ModWrapped
<1> QED BY <1>1, <1>2, Sorts

\* The time less the periods lost.
LEMMA LessLost ==
  ASSUME NEW n \in 0 .. Span - 1, NEW l \in 0 .. TickMod - 1
  PROVE  /\ l * Period \in 0 .. Span - Period
         /\ (n - l * Period) % Span = IF n < l * Period THEN n - l * Period + Span ELSE n - l * Period
         /\ (n - l * Period) % Span \in 0 .. Span - 1
<1> DEFINE m == l * Period
<1>1. Span \in Nat /\ Period \in Nat /\ Period > 1 BY SpanFacts
<1>2. m \in 0 .. Span - Period BY <1>1, SpanFacts, Sorts
<1>3. m \in 0 .. Span - 1 BY <1>1, <1>2
<1> HIDE DEF m
<1>4. (n - m) % Span = IF n < m THEN n - m + Span ELSE n - m BY <1>3, DifferenceIs
<1>5. (n - m) % Span \in 0 .. Span - 1 BY <1>1, <1>3, <1>4
<1> QED BY <1>2, <1>4, <1>5 DEF m

LEMMA KeptType == ASSUME ClockTypeOK PROVE Kept \in 0 .. Span - 1
BY TickTypes, LessLost DEF Kept

Loses == tick.val = 1 /\ tick.pend = 1

LEMMA CycleIs ==
  ASSUME ClockTypeOK, Cycle
  PROVE  /\ tick' = [val |-> IF tick.val = 0 THEN Load ELSE tick.val - 1,
                     pend |-> IF tick.val = 1 THEN 1 ELSE tick.pend,
                     busy |-> tick.busy, count |-> tick.count]
         /\ now' = IF now + 1 = Span THEN 0 ELSE now + 1
         /\ lost' = IF Loses THEN IF lost = TickMod - 1 THEN 0 ELSE lost + 1 ELSE lost
         /\ ~Running => call' = call
         /\ Running => call' = [call EXCEPT !.read = FALSE, !.age = call.age + 1,
                                  !.shown = call.shown \cup {(Kept + 1) % Span, Kept'}]
<1>1. tick \in [val : 0 .. Load, pend : {0, 1}, busy : BOOLEAN, count : 0 .. TickMod - 1]
  BY DEF ClockTypeOK
<1>2. tick' = [val |-> IF tick.val = 0 THEN Load ELSE tick.val - 1,
                     pend |-> IF tick.val = 1 THEN 1 ELSE tick.pend,
                     busy |-> tick.busy, count |-> tick.count]
  BY <1>1 DEF Cycle
<1>3. now' = IF now + 1 = Span THEN 0 ELSE now + 1
  <2>1. now' = (now + 1) % Span BY DEF Cycle
  <2>2. (now + 1) % Span = IF now + 1 < 0 THEN now + 1 + Span
                             ELSE IF now + 1 >= Span THEN now + 1 - Span ELSE now + 1
    <3>1. Span \in Nat \ {0} /\ now \in 0 .. Span - 1 BY SpanBasics, TickTypes
    <3> DEFINE x == now + 1
    <3>2. x \in Int /\ -Span <= x /\ x < Span + Span BY <3>1
    <3> HIDE DEF x
    <3>3. x % Span = IF x < 0 THEN x + Span ELSE IF x >= Span THEN x - Span ELSE x
      BY <3>1, <3>2, ModWrapped
    <3> QED BY <3>1, <3>3 DEF x
  <2> QED BY <2>1, <2>2, TickTypes, SpanBasics
<1>4. ~Running => call' = call BY DEF Cycle
<1>5. Running => call' = [call EXCEPT !.read = FALSE, !.age = call.age + 1,
                            !.shown = call.shown \cup {(Kept + 1) % Span, Kept'}]
  BY DEF Cycle
<1>6. lost' = IF Loses THEN IF lost = TickMod - 1 THEN 0 ELSE lost + 1 ELSE lost
  <2>1. lost' = IF Loses THEN (lost + 1) % TickMod ELSE lost BY DEF Cycle, Loses
  <2> QED BY <2>1, TickTypes, NextCount
<1> QED BY <1>2, <1>3, <1>4, <1>5, <1>6

\* The clock's time goes on by a cycle, and back by a period if a tick is lost.
LEMMA KeptNext ==
  ASSUME ClockTypeOK, Cycle
  PROVE  /\ (Kept + 1) % Span = Wrapped(Kept + 1)
         /\ Kept' = Wrapped(IF Loses THEN Kept + 1 - Period ELSE Kept + 1)
         /\ Wrapped(Kept + 1) \in 0 .. Span - 1 /\ Kept' \in 0 .. Span - 1
<1>1. now \in 0 .. Span - 1 /\ lost \in 0 .. TickMod - 1 /\ Kept \in 0 .. Span - 1
  BY TickTypes, KeptType
<1>2. /\ now' = (IF now + 1 = Span THEN 0 ELSE now + 1)
      /\ lost' = IF Loses THEN IF lost = TickMod - 1 THEN 0 ELSE lost + 1 ELSE lost
  BY CycleIs
<1>3. /\ Span \in Nat \ {0} /\ Period \in Nat /\ Period > 1 /\ Span >= Period + Period
  BY SpanFacts, SpanBasics
<1>4. (Kept + 1) % Span = Wrapped(Kept + 1)
  <2>1. Kept + 1 \in Int /\ -Span <= Kept + 1 /\ Kept + 1 < Span + Span BY <1>1, <1>3
  <2> QED BY <1>3, <2>1, ModWrapped DEF Wrapped
<1>5. Wrapped(Kept + 1) \in 0 .. Span - 1 BY <1>1, <1>3 DEF Wrapped
<1> DEFINE m == lost * Period
           n == lost' * Period
<1>6. m \in 0 .. Span - Period /\ Kept = IF now < m THEN now - m + Span ELSE now - m
  BY <1>1, LessLost DEF Kept
<1>7. now' \in 0 .. Span - 1 /\ lost' \in 0 .. TickMod - 1 BY <1>1, <1>2, <1>3, Sorts
<1>8. Kept' = (now' - n) % Span BY DEF Kept, Span, Period
<1>9. /\ n \in 0 .. Span - Period /\ Kept' \in 0 .. Span - 1
      /\ Kept' = IF now' < n THEN now' - n + Span ELSE now' - n
  BY <1>7, <1>8, LessLost
<1>10. n = IF Loses THEN IF lost = TickMod - 1 THEN 0 ELSE m + Period ELSE m
  <2>1. (lost + 1) * Period = lost * Period + Period BY <1>1, SpanFacts, Sorts
  <2>2. 0 * Period = 0 BY <1>3
  <2> QED BY <1>2, <2>1, <2>2
<1>11. lost = TickMod - 1 => m = Span - Period
  <2>1. (lost + 1) * Period = lost * Period + Period BY <1>1, SpanFacts, Sorts
  <2>2. lost = TickMod - 1 => lost + 1 = TickMod BY Sorts
  <2> QED BY <1>3, <1>6, <2>1, <2>2, SpanFacts
<1> HIDE DEF m, n
<1>12. CASE ~Loses
  <2>1. n = m BY <1>10, <1>12
  <2>2. Kept' = Wrapped(Kept + 1)
    BY <1>1, <1>2, <1>3, <1>6, <1>9, <2>1 DEF Wrapped
  <2> QED BY <1>4, <1>5, <1>9, <1>12, <2>2
<1>13. CASE Loses
  <2>1. n = m + Period \/ (n = 0 /\ m = Span - Period) BY <1>10, <1>11, <1>13
  <2>2. Kept' = Wrapped(Kept + 1 - Period)
    BY <1>1, <1>2, <1>3, <1>6, <1>9, <2>1 DEF Wrapped
  <2> QED BY <1>4, <1>5, <1>9, <1>13, <2>2
<1> QED BY <1>12, <1>13

LEMMA StoreIs ==
  ASSUME ClockTypeOK, HandlerStore
  PROVE  /\ tick' = [val |-> tick.val, pend |-> tick.pend, busy |-> FALSE,
                     count |-> IF tick.count = TickMod - 1 THEN 0 ELSE tick.count + 1]
         /\ now' = now /\ lost' = lost /\ call' = call
<1>1. tick \in [val : 0 .. Load, pend : {0, 1}, busy : BOOLEAN, count : 0 .. TickMod - 1]
  BY DEF ClockTypeOK
<1>2. (tick.count + 1) % TickMod = IF tick.count = TickMod - 1 THEN 0 ELSE tick.count + 1
  BY TickTypes, NextCount
<1>3. tick' = [val |-> tick.val, pend |-> tick.pend, busy |-> FALSE,
               count |-> (tick.count + 1) % TickMod]
  BY <1>1 DEF HandlerStore
<1> QED BY <1>2, <1>3 DEF HandlerStore

LEMMA EnterIs ==
  ASSUME ClockTypeOK, HandlerEnter
  PROVE  /\ tick' = [val |-> tick.val, pend |-> 0, busy |-> TRUE, count |-> tick.count]
         /\ now' = now /\ lost' = lost /\ call' = call
BY DEF ClockTypeOK, HandlerEnter

CallStep == \/ \E byIrq \in BOOLEAN : MicrosCall(byIrq)
            \/ ReadVal \/ ReadPend \/ ReadCount \/ DelayCall \/ DelayTest \/ Return

\* The newer round with the count read.
Round == [call.new EXCEPT !.count = tick.count]
Loops == call' = [call EXCEPT !.pc = "val", !.first = FALSE, !.old = Round, !.new = Round,
                              !.read = TRUE]
Stops == /\ ~call.first /\ ~Unstable(call.old, Round)
         /\ call' = [call EXCEPT !.pc = "micros_end", !.new = Round]

LEMMA CountIs ==
  ASSUME ReadCount
  PROVE  call.pc = "count" /\ MayStep /\ (Loops \/ Stops)
<1>1. CASE call.first \/ Unstable(call.old, Round) BY <1>1 DEF ReadCount, Round, Loops
<1>2. CASE ~(call.first \/ Unstable(call.old, Round)) BY <1>2 DEF ReadCount, Round, Stops
<1> QED BY <1>1, <1>2 DEF ReadCount

LEMMA CallStepKeepsTime ==
  ASSUME CallStep
  PROVE  tick' = tick /\ now' = now /\ lost' = lost /\ Owed' = Owed /\ Place' = Place
<1>1. tick' = tick /\ now' = now /\ lost' = lost
  BY DEF CallStep, MicrosCall, ReadVal, ReadPend, ReadCount, DelayCall, DelayTest, Return
<1> QED BY <1>1 DEF Owed, Place

LEMMA ClockSteps == ASSUME ClockNext PROVE Cycle \/ HandlerEnter \/ HandlerStore \/ CallStep
<1>1. MicrosCall(TRUE) \/ MicrosCall(FALSE) => \E byIrq \in BOOLEAN : MicrosCall(byIrq)
  OBVIOUS
<1> QED BY <1>1 DEF ClockNext, CallStep

\* Time stands still but for Cycle.
LEMMA KeptSame == ASSUME now' = now, lost' = lost PROVE Kept' = Kept
BY DEF Kept, Span, Period

-----------------------------------------------------------------------------
\* What a cycle does to the place in the period and to what is owed.
LEMMA CyclePlace ==
  ASSUME ClockTypeOK, Cycle
  PROVE  /\ Place' = (IF tick.val = 1 THEN -1 ELSE Place + 1)
         /\ tick.val = 1 => Place = Load - 1
         /\ Owed' = (IF tick.val = 1 /\ tick.pend = 0 THEN Owed + 1 ELSE Owed)
         /\ Owed \in 0 .. 2 /\ Owed' \in 0 .. 2
         /\ Loses => Owed >= 1
<1>1. /\ tick'.val = (IF tick.val = 0 THEN Load ELSE tick.val - 1)
      /\ tick'.pend = (IF tick.val = 1 THEN 1 ELSE tick.pend) /\ tick'.busy = tick.busy
  BY CycleIs
<1>2. tick.val \in 0 .. Load /\ tick.pend \in {0, 1} BY TickTypes
<1>3. Place' = (IF tick.val = 1 THEN -1 ELSE Place + 1) BY <1>1, <1>2, Sorts DEF Place
<1>4. tick.val = 1 => Place = Load - 1 BY Sorts DEF Place
<1>5. Owed' = (IF tick.val = 1 /\ tick.pend = 0 THEN Owed + 1 ELSE Owed)
      /\ Owed \in 0 .. 2 /\ Owed' \in 0 .. 2 /\ (Loses => Owed >= 1)
  BY <1>1, <1>2 DEF Owed, Loses
<1> QED BY <1>3, <1>4, <1>5

\* A cycle adds one to the sum of the periods and the place, less what is lost.
LEMMA CycleSum ==
  ASSUME ClockTypeOK, Cycle, NEW c \in Nat
  PROVE  /\ (c + Owed) * Period \in Nat /\ (c + Owed') * Period \in Nat
         /\ (c + Owed') * Period + Place' =
              (c + Owed) * Period + Place + 1 - (IF Loses THEN Period ELSE 0)
<1>1. /\ Place' = (IF tick.val = 1 THEN -1 ELSE Place + 1)
      /\ tick.val = 1 => Place = Load - 1
      /\ Owed' = (IF tick.val = 1 /\ tick.pend = 0 THEN Owed + 1 ELSE Owed)
      /\ Owed \in 0 .. 2 /\ Owed' \in 0 .. 2
  BY CyclePlace
<1>2. c + Owed \in Nat /\ c + Owed' \in Nat BY <1>1
<1>3. (c + Owed) * Period \in Nat /\ (c + Owed') * Period \in Nat BY <1>2, SpanFacts
<1>4. Period = Load + 1 /\ Load \in Nat BY SpanFacts, Sorts
<1>5. CASE tick.val = 1 /\ tick.pend = 0
  <2>1. c + Owed' = (c + Owed) + 1 BY <1>1, <1>5
  <2>2. ((c + Owed) + 1) * Period = (c + Owed) * Period + Period BY <1>2, SpanFacts
  <2>3. ~Loses BY <1>5 DEF Loses
  <2> QED BY <1>1, <1>3, <1>4, <1>5, <2>1, <2>2, <2>3
<1>6. CASE ~(tick.val = 1 /\ tick.pend = 0)
  <2>1. Owed' = Owed BY <1>1, <1>6
  <2>2. Loses <=> tick.val = 1 BY <1>6, TickTypes DEF Loses
  <2> QED BY <1>1, <1>3, <1>4, <2>1, <2>2, PlaceType
<1> QED BY <1>5, <1>6

\* What a call to delay has to last, from the periods it waits for.
LEMMA PeriodsGrow ==
  ASSUME NEW m \in Nat, NEW n \in Nat, m <= n
  PROVE  /\ m * Period \in Nat /\ n * Period \in Nat /\ m * Period <= n * Period
         /\ (m - 1) * Period \in Int /\ m * Period = (m - 1) * Period + Period
         /\ Period \in Nat /\ Period = Load + 1
<1>1. Period \in Nat /\ Period = Load + 1 BY SpanFacts
<1>2. m * Period \in Nat /\ n * Period \in Nat BY SpanFacts
<1>3. m * Period <= n * Period BY <1>1, TimesMono
<1>4. (m - 1) * Period \in Int BY <1>1
<1>5. ((m - 1) + 1) * Period = (m - 1) * Period + Period BY <1>1, TimesSucc
<1>6. (m - 1) + 1 = m OBVIOUS
<1> QED BY <1>1, <1>2, <1>3, <1>4, <1>5, <1>6

\* The time before the cycle and after it, as the registers told it before.
LEMMA CycleTold ==
  ASSUME ClockTypeOK, ClockTold, Cycle
  PROVE  /\ (Kept + 1) % Span = Wrapped((tick.count + Owed) * Period + Place + 1)
         /\ Kept' = Wrapped((tick.count + Owed') * Period + Place')
<1> DEFINE x == (tick.count + Owed) * Period + Place
           y == (tick.count + Owed') * Period + Place'
<1>1. (tick.count + Owed) * Period \in Nat /\ (tick.count + Owed) * Period <= Span + Period
      /\ (Owed > 0 => (tick.count + Owed) * Period >= Period)
  BY TickTypes, OwedType, SumType
<1>2. Period = Load + 1 /\ Load \in Nat /\ Load > 0 /\ Span \in Nat /\ Span >= Period + Period
  BY SpanFacts, Sorts
<1>3. x \in Int /\ x >= -1 /\ x + 1 < Span + Span BY <1>1, <1>2, PlaceType
<1>4. Kept = Wrapped(x) BY DEF ClockTold
<1>5. tick.count \in Nat BY TickTypes, Sorts
<1>6. y = x + 1 - (IF Loses THEN Period ELSE 0) BY <1>5, CycleSum
<1>7. Loses => x + 1 - Period >= -1
  <2>1. Loses => Place = Load - 1 /\ Owed >= 1 BY CyclePlace DEF Loses
  <2>2. Owed \in 0 .. 2 BY OwedType
  <2> QED BY <1>1, <1>2, <2>1, <2>2
<1>8. (Kept + 1) % Span = Wrapped(Kept + 1)
      /\ Kept' = Wrapped(IF Loses THEN Kept + 1 - Period ELSE Kept + 1)
  BY KeptNext
<1> HIDE DEF x, y
<1>9. Wrapped(Kept + 1) = Wrapped(x + 1) BY <1>2, <1>3, <1>4 DEF Wrapped
<1>10. CASE ~Loses
  <2>1. y = x + 1 BY <1>3, <1>6, <1>10
  <2>2. Kept' = Wrapped(y) BY <1>8, <1>9, <1>10, <2>1
  <2>3. (Kept + 1) % Span = Wrapped(x + 1) BY <1>8, <1>9
  <2> QED BY <2>2, <2>3 DEF x, y
<1>11. CASE Loses
  <2>1. y = x + 1 - Period BY <1>6, <1>11
  <2>2. Wrapped(Kept + 1 - Period) = Wrapped(x + 1 - Period)
    BY <1>2, <1>3, <1>4, <1>7, <1>11 DEF Wrapped
  <2>3. Kept' = Wrapped(y) BY <1>8, <1>11, <2>1, <2>2
  <2>4. (Kept + 1) % Span = Wrapped(x + 1) BY <1>8, <1>9
  <2> QED BY <2>3, <2>4 DEF x, y
<1> QED BY <1>10, <1>11

\* A tick the handler has stored is counted and no longer owed.
LEMMA StoreSum ==
  ASSUME ClockTypeOK, HandlerStore, NEW r \in -1 .. Load
  PROVE  Wrapped((tick'.count + Owed') * Period + r) = Wrapped((tick.count + Owed) * Period + r)
<1>1. tick'.pend = tick.pend /\ tick'.busy = FALSE
      /\ tick'.count = (IF tick.count = TickMod - 1 THEN 0 ELSE tick.count + 1)
  BY StoreIs
<1>2. tick.busy BY DEF HandlerStore
<1>3. Owed \in 1 .. 2 /\ Owed' = Owed - 1 BY <1>1, <1>2, TickTypes DEF Owed
<1>4. CASE tick.count # TickMod - 1
  <2>1. tick'.count + Owed' = tick.count + Owed BY <1>1, <1>3, <1>4, TickTypes, Sorts
  <2> QED BY <2>1
<1>5. CASE tick.count = TickMod - 1
  <2>1. (tick.count + Owed) * Period = Span + (Owed - 1) * Period
        /\ (tick.count + Owed) * Period \in Nat /\ (tick.count + Owed) * Period <= Span + Period
    BY <1>3, <1>5, TickTypes, SumType
  <2>2. tick'.count + Owed' = Owed - 1 BY <1>1, <1>3, <1>5
  <2>3. (Owed - 1) * Period \in Int BY <1>3, SpanFacts
  <2> DEFINE a == (Owed - 1) * Period
             b == (tick.count + Owed) * Period
  <2>4. b = Span + a /\ a \in Int /\ b <= Span + Period /\ a >= 0
    <3>1. Owed - 1 \in Nat BY <1>3
    <3>2. (Owed - 1) * Period \in Nat BY <3>1, SpanFacts
    <3> QED BY <2>1, <3>2
  <2>5. (tick'.count + Owed') * Period = a BY <2>2
  <2> HIDE DEF a, b
  <2>6. Period = Load + 1 /\ Load \in Nat /\ Span \in Nat /\ Span >= Period + Period /\ r \in -1 .. Load
    BY SpanFacts, Sorts
  <2>7. Wrapped(a + r) = Wrapped(b + r) BY <2>4, <2>6 DEF Wrapped
  <2> QED BY <2>5, <2>7 DEF b
<1> QED BY <1>4, <1>5

LEMMA EnterSum ==
  ASSUME ClockTypeOK, HandlerEnter
  PROVE  Owed' = Owed /\ Place' = Place /\ tick'.count = tick.count
<1>1. tick'.val = tick.val /\ tick'.count = tick.count /\ tick'.pend = 0 /\ tick'.busy = TRUE
  BY EnterIs
<1>2. tick.pend = 1 /\ ~tick.busy BY DEF HandlerEnter
<1> QED BY <1>1, <1>2 DEF Owed, Place

LEMMA ToldNext ==
  ASSUME ClockTypeOK, ClockTold, ClockNext
  PROVE  ClockTold'
<1>1. ASSUME Kept' = Wrapped((tick'.count + Owed') * Period + Place') PROVE ClockTold'
  BY <1>1 DEF ClockTold, Wrapped, Span, Period
<1>2. CASE Cycle
  <2>1. tick'.count = tick.count BY <1>2, CycleIs
  <2> QED BY <1>1, <1>2, <2>1, CycleTold
<1>3. CASE HandlerEnter
  <2>1. Kept' = Kept BY <1>3, EnterIs, KeptSame
  <2> QED BY <1>1, <1>3, <2>1, EnterSum DEF ClockTold
<1>4. CASE HandlerStore
  <2>1. Kept' = Kept BY <1>4, StoreIs, KeptSame
  <2>2. tick'.val = tick.val BY <1>4, StoreIs
  <2>3. Place' = Place BY <2>2 DEF Place
  <2>4. Place \in -1 .. Load BY PlaceType, Sorts
  <2>5. Wrapped((tick'.count + Owed') * Period + Place) = Wrapped((tick.count + Owed) * Period + Place)
    BY <1>4, <2>4, StoreSum
  <2> QED BY <1>1, <2>1, <2>3, <2>5 DEF ClockTold
<1>5. CASE CallStep
  <2>1. tick' = tick /\ Owed' = Owed /\ Place' = Place /\ Kept' = Kept
    BY <1>5, CallStepKeepsTime, KeptSame
  <2> QED BY <1>1, <2>1 DEF ClockTold
<1> QED BY <1>2, <1>3, <1>4, <1>5, ClockSteps

-----------------------------------------------------------------------------
(* Types. *)

LEMMA ClockTypeInit == ClockInit => ClockTypeOK
<1> SUFFICES ASSUME ClockInit PROVE ClockTypeOK OBVIOUS
<1> PICK c \in 0 .. TickMod - 1 :
      /\ tick = [val |-> Load, pend |-> 0, busy |-> FALSE, count |-> c]
      /\ now = c * Period /\ lost = 0 /\ call = NoCall
  BY DEF ClockInit
<1>1. tick \in [val : 0 .. Load, pend : {0, 1}, busy : BOOLEAN, count : 0 .. TickMod - 1]
  BY Sorts
<1>2. now \in 0 .. Span - 1 /\ lost \in 0 .. TickMod - 1 BY SpanFacts, Sorts
<1>3. NoReading \in Reading BY Sorts DEF NoReading, Reading
<1> QED BY <1>1, <1>2, <1>3, Sorts DEF ClockTypeOK, NoCall

LEMMA ClockTypeNext == ASSUME ClockTypeOK, ClockNext PROVE ClockTypeOK'
<1> DEFINE PCs == {"none", "val", "pend", "count", "micros_end", "wait", "delay_end"}
           CallType == [pc : PCs, irq : BOOLEAN, first : BOOLEAN, old : Reading, new : Reading,
                        read : BOOLEAN, age : 0 .. MaxAge, early : BOOLEAN,
                        shown : SUBSET (0 .. Span - 1),
                        ms : Delays \cup {0}, start : 0 .. TickMod - 1]
           TickType == [val : 0 .. Load, pend : {0, 1}, busy : BOOLEAN, count : 0 .. TickMod - 1]
<1>0. tick \in TickType /\ now \in 0 .. Span - 1 /\ lost \in 0 .. TickMod - 1
      /\ call \in CallType
  BY DEF ClockTypeOK
<1>1. ASSUME tick' \in TickType, now' \in 0 .. Span - 1, lost' \in 0 .. TickMod - 1,
             call' \in CallType
      PROVE  ClockTypeOK'
  BY <1>1 DEF ClockTypeOK, Reading, Span, Period
<1>2. CASE Cycle
  <2>1. tick' \in TickType BY <1>2, CycleIs, TickTypes, Sorts
  <2>2. now' \in 0 .. Span - 1 BY <1>2, CycleIs, TickTypes, SpanBasics
  <2>3. lost' \in 0 .. TickMod - 1 BY <1>2, CycleIs, TickTypes, Sorts
  <2>4. Running => call.age + 1 \in 0 .. MaxAge BY <1>2, CallTypes, Sorts DEF Cycle
  <2>5. call.shown \cup {(Kept + 1) % Span, Kept'} \in SUBSET (0 .. Span - 1)
    <3>1. (Kept + 1) % Span \in 0 .. Span - 1 /\ Kept' \in 0 .. Span - 1 BY <1>2, KeptNext
    <3>2. call.shown \in SUBSET (0 .. Span - 1) BY CallTypes
    <3> QED BY <3>1, <3>2
  <2>6. call' \in CallType
    <3>1. CASE ~Running BY <1>0, <1>2, <3>1, CycleIs
    <3>2. CASE Running
      <4>1. \A a \in 0 .. MaxAge, s \in SUBSET (0 .. Span - 1) :
              [call EXCEPT !.read = FALSE, !.age = a, !.shown = s] \in CallType
        BY <1>0
      <4>2. call' = [call EXCEPT !.read = FALSE, !.age = call.age + 1,
                       !.shown = call.shown \cup {(Kept + 1) % Span, Kept'}]
        BY <1>2, <3>2, CycleIs
      <4> HIDE DEF CallType
      <4> QED BY <2>4, <2>5, <3>2, <4>1, <4>2
    <3> QED BY <3>1, <3>2
  <2> QED BY <1>1, <2>1, <2>2, <2>3, <2>6
<1>3. CASE HandlerEnter
  <2>1. tick' = [tick EXCEPT !.pend = 0, !.busy = TRUE] BY <1>3 DEF HandlerEnter
  <2>2. tick' \in TickType BY <1>0, <2>1
  <2> QED BY <1>0, <1>1, <1>3, <2>2, EnterIs
<1>4. CASE HandlerStore
  <2>1. (tick.count + 1) % TickMod \in 0 .. TickMod - 1 BY TickTypes, NextCount, Sorts
  <2>2. tick' = [tick EXCEPT !.busy = FALSE, !.count = (tick.count + 1) % TickMod]
    BY <1>4 DEF HandlerStore
  <2>3. tick' \in TickType BY <1>0, <2>1, <2>2
  <2> QED BY <1>0, <1>1, <1>4, <2>3, StoreIs
<1>5. CASE CallStep
  <2>1. tick' = tick /\ now' = now /\ lost' = lost BY <1>5, CallStepKeepsTime
  <2>2. NoReading \in Reading BY Sorts DEF NoReading, Reading
  <2>3. NoCall \in CallType BY <2>2, Sorts DEF NoCall
  <2>4. call' \in CallType
    <3>1. CASE \E byIrq \in BOOLEAN : MicrosCall(byIrq)
      <4>1. {Kept} \in SUBSET (0 .. Span - 1) BY KeptType
      <4>2. \A i \in BOOLEAN, e \in BOOLEAN, s \in SUBSET (0 .. Span - 1) :
              [NoCall EXCEPT !.pc = "val", !.irq = i, !.early = e, !.shown = s] \in CallType
        BY <2>3
      <4>3. PICK i \in BOOLEAN : call' = [NoCall EXCEPT !.pc = "val", !.irq = i,
                                            !.early = tick.busy, !.shown = {Kept}]
        BY <3>1 DEF MicrosCall
      <4>4. tick.busy \in BOOLEAN BY TickTypes
      <4> HIDE DEF CallType
      <4> QED BY <4>1, <4>2, <4>3, <4>4
    <3>2. CASE ReadVal
      <4>1. [call.new EXCEPT !.val = tick.val] \in Reading BY CallTypes, TickTypes DEF Reading
      <4> QED BY <1>0, <3>2, <4>1 DEF ReadVal
    <3>3. CASE ReadPend
      <4>1. [call.new EXCEPT !.pend = tick.pend] \in Reading BY CallTypes, TickTypes DEF Reading
      <4> QED BY <1>0, <3>3, <4>1 DEF ReadPend
    <3>4. CASE ReadCount
      <4>1. [call.new EXCEPT !.count = tick.count] \in Reading BY CallTypes, TickTypes DEF Reading
      <4>2. Loops \/ Stops BY <3>4, CountIs
      <4>3. Round \in Reading BY <4>1 DEF Round
      <4>4. Loops => call' \in CallType
        <5>1. \A r \in Reading : [call EXCEPT !.pc = "val", !.first = FALSE, !.old = r, !.new = r,
                                             !.read = TRUE] \in CallType
          BY <1>0
        <5> QED BY <4>3, <5>1 DEF Loops
      <4>5. Stops => call' \in CallType
        <5>1. \A r \in Reading : [call EXCEPT !.pc = "micros_end", !.new = r] \in CallType
          BY <1>0
        <5> QED BY <4>3, <5>1 DEF Stops
      <4> QED BY <4>2, <4>4, <4>5
    <3>5. CASE DelayCall BY <3>5, <2>3, TickTypes DEF DelayCall
    <3>6. CASE DelayTest BY <1>0, <3>6 DEF DelayTest
    <3>7. CASE Return BY <3>7, <2>3 DEF Return
    <3> QED BY <1>5, <3>1, <3>2, <3>3, <3>4, <3>5, <3>6, <3>7 DEF CallStep
  <2> QED BY <1>0, <1>1, <2>1, <2>4
<1> QED BY <1>2, <1>3, <1>4, <1>5, ClockSteps

-----------------------------------------------------------------------------
(* What a round of readings tells. *)

LEMMA RoundTells ==
  ASSUME NEW o \in Reading, NEW e \in BOOLEAN
  PROVE  (Told(o) + IF e THEN Period ELSE 0) % Span
           = Wrapped((o.count + (o.pend + IF e THEN 1 ELSE 0)) * Period + (Load - o.val))
<1> DEFINE n == o.pend + IF e THEN 1 ELSE 0
           k == (o.count + o.pend) * Period
           j == (o.count + n) * Period
           r == Load - o.val
           x == k + r
           p == IF e THEN Period ELSE 0
<1>1. o.val \in 0 .. Load /\ o.pend \in {0, 1} /\ o.count \in 0 .. TickMod - 1 BY DEF Reading
<1>2. Period = Load + 1 /\ Load \in Nat /\ Load > 0 /\ Span \in Nat \ {0} /\ Span >= Period + Period
  BY SpanFacts, SpanBasics, Sorts
<1>3. k \in Nat /\ k <= Span
  <2>1. CASE o.pend = 0 BY <2>1, <1>1, <1>2, Sorts, SpanFacts
  <2>2. CASE o.pend = 1
    <3>1. (o.count + 1) * Period = o.count * Period + Period BY <1>1, SpanFacts, Sorts
    <3>2. o.count * Period \in Nat /\ o.count * Period <= Span - Period
      BY <1>1, SpanFacts, Sorts
    <3> QED BY <3>1, <3>2, <2>2, <1>2
  <2> QED BY <2>1, <2>2, <1>1
<1>4. j = k + p
  <2>1. CASE e
    <3>1. o.count + n = (o.count + o.pend) + 1 BY <1>1, <2>1, Sorts
    <3>2. ((o.count + o.pend) + 1) * Period = k + Period
      <4>1. o.count + o.pend \in Nat BY <1>1, Sorts
      <4> QED BY <4>1, SpanFacts
    <3> QED BY <2>1, <3>1, <3>2
  <2>2. CASE ~e
    <3>1. o.count + n = o.count + o.pend BY <1>1, <2>2, Sorts
    <3> QED BY <1>3, <2>2, <3>1
  <2> QED BY <2>1, <2>2
<1>5. r \in 0 .. Load BY <1>1, <1>2
<1>6. p \in {0, Period} OBVIOUS
<1>7. Told(o) = x % Span BY DEF Told
<1> HIDE DEF k, j, r, p
<1>8. x \in Int /\ 0 <= x /\ x < Span + Span /\ -Span <= x BY <1>2, <1>3, <1>5
<1> HIDE DEF x
<1>9. x % Span = IF x < 0 THEN x + Span ELSE IF x >= Span THEN x - Span ELSE x
  BY <1>2, <1>8, ModWrapped
<1> DEFINE y == Told(o) + p
<1>10. y \in Int /\ 0 <= y /\ y < Span + Span /\ -Span <= y
  BY <1>2, <1>6, <1>7, <1>8, <1>9
<1>11. y = (IF x >= Span THEN x - Span ELSE x) + p BY <1>2, <1>7, <1>8, <1>9
<1> HIDE DEF y
<1>12. y % Span = IF y < 0 THEN y + Span ELSE IF y >= Span THEN y - Span ELSE y
  BY <1>2, <1>10, ModWrapped
<1>13. x + p < Span + Span BY <1>2, <1>3, <1>5, <1>6 DEF x
<1>14. y % Span = Wrapped(x + p)
  BY <1>2, <1>6, <1>8, <1>10, <1>11, <1>12, <1>13 DEF Wrapped
<1>15. x + p = j + r BY <1>2, <1>3, <1>4, <1>5, <1>6 DEF x
<1> QED BY <1>14, <1>15 DEF y, p, j, r

LEMMA ResultIs ==
  ASSUME ClockTypeOK
  PROVE  (MicrosResult + IF call.early THEN Period ELSE 0) % Span = OldTold
<1>1. call.old \in Reading /\ call.early \in BOOLEAN BY CallTypes
<1> QED BY <1>1, RoundTells DEF MicrosResult, OldTold, Early

\* What has been shown stays shown.
LEMMA ShownStays ==
  ASSUME call'.old = call.old, call'.early = call.early, call.shown \subseteq call'.shown, Shown
  PROVE  Shown'
<1>1. OldTold' = OldTold BY DEF OldTold, Early, Wrapped, Span, Period
<1> QED BY <1>1 DEF Shown

-----------------------------------------------------------------------------
(* Every step keeps the invariant. *)

\* What a cycle does, field by field.
LEMMA CycleFields ==
  ASSUME ClockTypeOK, Cycle
  PROVE  /\ tick'.val = IF tick.val = 0 THEN Load ELSE tick.val - 1
         /\ tick'.pend = IF tick.val = 1 THEN 1 ELSE tick.pend
         /\ tick'.busy = tick.busy /\ tick'.count = tick.count
         /\ call'.pc = call.pc /\ call'.old = call.old /\ call'.new = call.new
         /\ call'.start = call.start /\ call'.ms = call.ms /\ call'.irq = call.irq
         /\ call'.first = call.first /\ call'.early = call.early
         /\ call.pc \in {"val", "pend", "count", "wait"} =>
              /\ call'.age = call.age + 1 /\ call'.read = FALSE
              /\ call'.shown = call.shown \cup {(Kept + 1) % Span, Kept'}
         /\ call.pc \notin {"micros_end", "delay_end"}
<1>1. /\ tick' = [val |-> IF tick.val = 0 THEN Load ELSE tick.val - 1,
                  pend |-> IF tick.val = 1 THEN 1 ELSE tick.pend,
                  busy |-> tick.busy, count |-> tick.count]
      /\ ~Running => call' = call
      /\ Running => call' = [call EXCEPT !.read = FALSE, !.age = call.age + 1,
                               !.shown = call.shown \cup {(Kept + 1) % Span, Kept'}]
  BY CycleIs
<1>2. call.pc \notin {"micros_end", "delay_end"} BY DEF Cycle, Ended
<1>3. call.pc \in {"val", "pend", "count", "wait"} => Running BY DEF Running, Ended
<1>6. /\ tick'.val = (IF tick.val = 0 THEN Load ELSE tick.val - 1)
      /\ tick'.pend = (IF tick.val = 1 THEN 1 ELSE tick.pend)
      /\ tick'.busy = tick.busy /\ tick'.count = tick.count
  BY <1>1
<1>7. ASSUME Running
      PROVE  /\ call'.pc = call.pc /\ call'.old = call.old /\ call'.new = call.new
             /\ call'.start = call.start /\ call'.ms = call.ms /\ call'.irq = call.irq
             /\ call'.first = call.first /\ call'.early = call.early
             /\ call'.age = call.age + 1 /\ call'.read = FALSE
             /\ call'.shown = call.shown \cup {(Kept + 1) % Span, Kept'}
  <2>1. call' = [call EXCEPT !.read = FALSE, !.age = call.age + 1,
                    !.shown = call.shown \cup {(Kept + 1) % Span, Kept'}]
    BY <1>1, <1>7
  <2> QED BY <2>1 DEF ClockTypeOK
<1>8. /\ call'.pc = call.pc /\ call'.old = call.old /\ call'.new = call.new
      /\ call'.start = call.start /\ call'.ms = call.ms /\ call'.irq = call.irq
      /\ call'.first = call.first /\ call'.early = call.early
  <2>1. CASE Running BY <1>7, <2>1
  <2>2. CASE ~Running BY <1>1, <2>2
  <2> QED BY <2>1, <2>2
<1> QED BY <1>2, <1>3, <1>6, <1>7, <1>8

LEMMA CycleAhead ==
  ASSUME ClockTypeOK, ClockTold, Cycle, InMicros, Later
  PROVE  Shown' \/ Later'
<1>1. /\ tick'.val = (IF tick.val = 0 THEN Load ELSE tick.val - 1)
      /\ tick'.count = tick.count
      /\ call'.old = call.old /\ call'.early = call.early
      /\ call'.shown = call.shown \cup {(Kept + 1) % Span, Kept'}
  BY CycleFields DEF InMicros
<1>2. tick.val \in 0 .. Load /\ call.old.val \in 0 .. Load BY TickTypes, CallTypes
<1>3. /\ tick.count = call.old.count /\ Owed = call.old.pend + Early
      /\ tick.val > call.old.val \/ tick.val = 0
  BY DEF Later
<1>4. tick'.val >= call.old.val /\ tick'.val \in 0 .. Load BY <1>1, <1>2, <1>3, Sorts
<1>5. CASE tick'.val > call.old.val
  <2>1. tick.val # 1 BY <1>1, <1>2, <1>5
  <2>2. Owed' = Owed BY <2>1, CyclePlace
  <2>3. Early' = Early BY <1>1 DEF Early
  <2>4. tick'.count = call'.old.count /\ Owed' = call'.old.pend + Early'
        /\ tick'.val > call'.old.val
    BY <1>1, <1>3, <1>5, <2>2, <2>3
  <2> QED BY <2>4 DEF Later
<1>6. CASE tick'.val = call.old.val
  <2>1. Place + 1 = Load - call.old.val
    <3>1. tick'.val = (IF tick.val = 0 THEN Load ELSE tick.val - 1) /\ tick'.val = call.old.val
      BY <1>1, <1>6
    <3>2. CASE tick.val = 0 BY <3>1, <3>2, Sorts DEF Place
    <3>3. CASE tick.val # 0 BY <3>1, <3>3, <1>2, Sorts DEF Place
    <3> QED BY <3>2, <3>3
  <2> DEFINE k == (tick.count + Owed) * Period
  <2>2. k \in Nat
    <3>1. tick.count \in 0 .. TickMod - 1 /\ Owed \in 0 .. 2 BY TickTypes, OwedType
    <3> QED BY <3>1, SumType
  <2>3. (Kept + 1) % Span = Wrapped(k + Place + 1) BY CycleTold
  <2>4. OldTold = Wrapped(k + (Load - call.old.val)) BY <1>3 DEF OldTold
  <2> HIDE DEF k
  <2>5. k + Place + 1 = k + (Load - call.old.val) BY <1>2, <2>1, <2>2, PlaceType, Sorts
  <2>6. OldTold \in call'.shown BY <1>1, <2>3, <2>4, <2>5
  <2>7. OldTold' = OldTold BY <1>1 DEF OldTold, Early, Wrapped, Span, Period
  <2> QED BY <2>6, <2>7 DEF Shown
<1> QED
  <2>1. tick'.val > call.old.val \/ tick'.val = call.old.val BY <1>2, <1>4
  <2> QED BY <2>1, <1>5, <1>6

\* The counter comes down through the values between, and through each once.
LEMMA CycleShows ==
  ASSUME ClockTypeOK, ClockTold, ValIsShown, Cycle
  PROVE  ValIsShown'
<1> SUFFICES ASSUME call.pc \in {"pend", "count"}, tick'.val # 0, call.new.val >= tick'.val
             PROVE  ThisPeriod(call.new.val)' \in call'.shown
  <2>1. call'.pc = call.pc /\ call'.new = call.new BY CycleFields
  <2>2. ThisPeriod(call.new.val)' = Wrapped((tick'.count + Owed') * Period + (Load - call'.new.val))
    BY DEF ThisPeriod, Wrapped, Span, Period
  <2> QED BY <2>1, <2>2 DEF ValIsShown, ThisPeriod, Wrapped, Span, Period
<1>1. /\ tick'.val = (IF tick.val = 0 THEN Load ELSE tick.val - 1)
      /\ tick'.count = tick.count /\ call'.new = call.new
      /\ call'.shown = call.shown \cup {(Kept + 1) % Span, Kept'}
  BY CycleFields
<1>2. tick.val \in 0 .. Load /\ call.new.val \in 0 .. Load BY TickTypes, CallTypes
<1>3. tick.val # 1 BY <1>1, <1>2
<1>4. Owed' = Owed BY <1>3, CyclePlace
<1>5. ThisPeriod(call.new.val)' = ThisPeriod(call.new.val)
  BY <1>1, <1>4 DEF ThisPeriod, Wrapped, Span, Period
<1>6. CASE tick.val # 0 /\ call.new.val >= tick.val
  BY <1>1, <1>5, <1>6 DEF ValIsShown
<1>7. CASE call.new.val = tick'.val
  <2> DEFINE k == (tick.count + Owed) * Period
  <2>1. Place + 1 = Load - call.new.val
    <3>1. CASE tick.val = 0 BY <1>1, <1>7, <3>1, Sorts DEF Place
    <3>2. CASE tick.val # 0 BY <1>1, <1>2, <1>7, <3>2, Sorts DEF Place
    <3> QED BY <3>1, <3>2
  <2>2. k \in Nat
    <3>1. tick.count \in 0 .. TickMod - 1 /\ Owed \in 0 .. 2 BY TickTypes, OwedType
    <3> QED BY <3>1, SumType
  <2>3. (Kept + 1) % Span = Wrapped(k + Place + 1) BY CycleTold
  <2>4. ThisPeriod(call.new.val) = Wrapped(k + (Load - call.new.val)) BY DEF ThisPeriod
  <2> HIDE DEF k
  <2>5. k + Place + 1 = k + (Load - call.new.val) BY <1>2, <2>1, <2>2, PlaceType, Sorts
  <2> QED BY <1>1, <1>5, <2>3, <2>4, <2>5
<1> QED
  <2>1. (tick.val # 0 /\ call.new.val >= tick.val) \/ call.new.val = tick'.val
    BY <1>1, <1>2, Sorts
  <2> QED BY <1>6, <1>7, <2>1

LEMMA CycleKeeps ==
  ASSUME ClockInv, Cycle
  PROVE  Caller' /\ NowShown' /\ ValIsShown' /\ OldRound'
<1> USE DEF ClockInv
<1>1. /\ tick'.val = (IF tick.val = 0 THEN Load ELSE tick.val - 1)
      /\ tick'.pend = (IF tick.val = 1 THEN 1 ELSE tick.pend)
      /\ tick'.busy = tick.busy /\ tick'.count = tick.count
      /\ call'.pc = call.pc /\ call'.old = call.old /\ call'.new = call.new
      /\ call'.irq = call.irq /\ call'.first = call.first /\ call'.early = call.early
  BY CycleFields
<1>2. InMicros => call'.shown = call.shown \cup {(Kept + 1) % Span, Kept'}
  BY CycleFields DEF InMicros
<1>3. tick.pend \in {0, 1} /\ call.old.pend \in {0, 1} /\ call.new.pend \in {0, 1}
  BY TickTypes, CallTypes
<1>4. tick'.pend >= tick.pend /\ tick'.pend \in {0, 1} BY <1>1, <1>3
<1>5. Caller'
  <2>1. call'.pc = "wait" => ~call'.irq BY <1>1 DEF Caller
  <2>2. InMicros' <=> InMicros BY <1>1 DEF InMicros
  <2>3. InMicros' => (call'.early <=> call'.irq /\ tick'.busy) BY <1>1, <2>2 DEF Caller
  <2>4. InMicros' /\ ~call'.first /\ call'.irq =>
          call'.old.count = tick'.count /\ call'.old.pend <= tick'.pend
    <3>1. InMicros /\ ~call.first /\ call.irq =>
            call.old.count = tick.count /\ call.old.pend <= tick.pend
      BY DEF Caller
    <3>2. call.old.pend <= tick.pend => call.old.pend <= tick'.pend BY <1>3, <1>4
    <3> QED BY <1>1, <2>2, <3>1, <3>2
  <2>5. InMicros' /\ ~call'.first /\ ~call'.irq => call'.old.pend = 0
    BY <1>1, <2>2 DEF Caller
  <2>6. call'.pc = "count" /\ call'.irq => call'.new.pend <= tick'.pend
    <3>1. call.pc = "count" /\ call.irq => call.new.pend <= tick.pend BY DEF Caller
    <3>2. call.new.pend <= tick.pend => call.new.pend <= tick'.pend BY <1>3, <1>4
    <3> QED BY <1>1, <3>1, <3>2
  <2>7. call'.pc = "count" /\ ~call'.irq => call'.new.pend = 0 BY <1>1 DEF Caller
  <2> QED BY <2>1, <2>3, <2>4, <2>5, <2>6, <2>7 DEF Caller
<1>6. NowShown' BY <1>1, <1>2 DEF NowShown, InMicros
<1>7. OldRound'
  <2>1. InMicros /\ Shown => Shown'
    <3>1. InMicros => call.shown \subseteq call'.shown BY <1>2
    <3> QED BY <1>1, <3>1, ShownStays
  <2>2. InMicros /\ Later => Shown' \/ Later' BY CycleAhead
  <2>3. Overtaken => Overtaken'
    <3>1. tick.pend = 1 => tick'.pend = 1 BY <1>1
    <3> QED BY <1>1, <3>1 DEF Overtaken
  <2>4. call.pc \in {"val", "pend", "count"} => InMicros BY DEF InMicros
  <2>5. call'.pc = "val" /\ ~call'.first => Shown' \/ Later' \/ Overtaken'
    BY <1>1, <2>1, <2>2, <2>3, <2>4 DEF OldRound
  <2>6. call'.pc = "pend" /\ ~call'.first =>
          Shown' \/ call'.new.val > call'.old.val \/ Overtaken'
    BY <1>1, <2>1, <2>3, <2>4 DEF OldRound
  <2>7. call'.pc = "count" /\ ~call'.first =>
          Shown' \/ call'.new.val > call'.old.val \/ call'.old.pend # call'.new.pend
    BY <1>1, <2>1, <2>4 DEF OldRound
  <2> QED BY <2>5, <2>6, <2>7 DEF OldRound
<1> QED BY <1>5, <1>6, <1>7, CycleShows

LEMMA HandlerKeeps ==
  ASSUME ClockInv, HandlerEnter \/ HandlerStore
  PROVE  Caller' /\ NowShown' /\ ValIsShown' /\ OldRound'
<1> USE DEF ClockInv
<1>1. tick'.val = tick.val /\ now' = now /\ lost' = lost /\ call' = call BY EnterIs, StoreIs
<1>2. InMicros => ~call.irq
  BY DEF HandlerEnter, HandlerStore, Preemptible, Running, Ended, InMicros
<1>3. Owed >= 1 BY TickTypes DEF HandlerEnter, HandlerStore, Owed
<1>4. InMicros => ~call.early BY <1>2 DEF Caller
<1>5. InMicros' <=> InMicros BY <1>1 DEF InMicros
<1>6. call.pc \in {"val", "pend", "count"} <=> InMicros BY DEF InMicros
<1>7. Caller'
  <2>1. call'.pc = "wait" => ~call'.irq BY <1>1 DEF Caller
  <2>2. InMicros' => (call'.early <=> call'.irq /\ tick'.busy) BY <1>1, <1>2, <1>4, <1>5
  <2>3. InMicros' => ~call'.irq BY <1>1, <1>2, <1>5
  <2>4. InMicros' /\ ~call'.first => call'.old.pend = 0 BY <1>1, <1>2, <1>5 DEF Caller
  <2>5. call'.pc = "count" => InMicros' BY DEF InMicros
  <2>6. call'.pc = "count" => call'.new.pend = 0 BY <1>1, <1>2, <1>5, <2>5 DEF Caller
  <2> QED BY <2>1, <2>2, <2>3, <2>4, <2>5, <2>6 DEF Caller
<1>8. ValIsShown'
  <2>1. call.new.val \in 0 .. Load BY CallTypes
  <2>2. ThisPeriod(call.new.val)' = ThisPeriod(call.new.val)
    <3>1. ThisPeriod(call.new.val)' = Wrapped((tick'.count + Owed') * Period + (Load - call.new.val))
      BY <1>1 DEF ThisPeriod, Wrapped, Span, Period
    <3>2. CASE HandlerEnter BY <3>1, <3>2, EnterSum DEF ThisPeriod
    <3>3. CASE HandlerStore
      <4>1. Load - call.new.val \in -1 .. Load BY <2>1, Sorts
      <4> QED BY <3>1, <3>3, <4>1, StoreSum DEF ThisPeriod
    <3> QED BY <3>2, <3>3
  <2> QED BY <1>1, <2>2 DEF ValIsShown
<1>9. OldRound'
  <2>1. InMicros /\ ~call.first => ~Later
    <3>1. InMicros /\ ~call.first => call.old.pend = 0 BY <1>2 DEF Caller
    <3> QED BY <1>3, <1>4, <3>1 DEF Later, Early
  <2>2. InMicros => ~Overtaken BY <1>2 DEF Overtaken
  <2>3. Shown => Shown' BY <1>1, ShownStays
  <2> QED BY <1>1, <1>6, <2>1, <2>2, <2>3 DEF OldRound
<1>10. NowShown' BY <1>1, <1>5, KeptSame DEF NowShown
<1> QED BY <1>7, <1>8, <1>9, <1>10

LEMMA MainOwesNothing ==
  ASSUME MainMayRun
  PROVE  Owed = 0 /\ tick.pend = 0 /\ ~tick.busy
BY DEF MainMayRun, Owed

\* What is owed when a caller reads is what it can see, and in an early call
\* the tick at work.
LEMMA ReaderOwed ==
  ASSUME ClockInv, MayStep, InMicros
  PROVE  Owed = tick.pend + Early
<1> USE DEF ClockInv
<1>1. tick.pend \in {0, 1} BY TickTypes
<1>2. call.early <=> call.irq /\ tick.busy BY DEF Caller
<1>3. CASE call.irq BY <1>2, <1>3 DEF Owed, Early
<1>4. CASE ~call.irq
  <2>1. MainMayRun BY <1>4 DEF MayStep
  <2> QED BY <1>2, <1>4, <2>1, MainOwesNothing DEF Early
<1> QED BY <1>3, <1>4

LEMMA MicrosCallKeeps ==
  ASSUME ClockInv, NEW byIrq \in BOOLEAN, MicrosCall(byIrq)
  PROVE  Caller' /\ NowShown' /\ ValIsShown' /\ OldRound'
<1>1. /\ call' = [NoCall EXCEPT !.pc = "val", !.irq = byIrq, !.early = tick.busy,
                                !.shown = {Kept}]
      /\ tick' = tick /\ now' = now /\ lost' = lost /\ (byIrq \/ MainMayRun)
  BY DEF MicrosCall
<1>2. call'.pc = "val" /\ call'.irq = byIrq /\ call'.early = tick.busy /\ call'.first = TRUE
      /\ call'.shown = {Kept}
  BY <1>1 DEF NoCall
<1>3. Caller'
  <2>1. call'.early <=> call'.irq /\ tick'.busy BY <1>1, <1>2, MainOwesNothing
  <2> QED BY <1>2, <2>1 DEF Caller
<1>4. NowShown' BY <1>1, <1>2, KeptSame DEF NowShown
<1>5. ValIsShown' BY <1>2 DEF ValIsShown
<1>6. OldRound' BY <1>2 DEF OldRound
<1> QED BY <1>3, <1>4, <1>5, <1>6

LEMMA ReadValKeeps ==
  ASSUME ClockInv, ReadVal
  PROVE  Caller' /\ NowShown' /\ ValIsShown' /\ OldRound'
<1> USE DEF ClockInv
<1>1. /\ call.pc = "val" /\ MayStep /\ tick' = tick /\ now' = now /\ lost' = lost
      /\ call' = [call EXCEPT !.new.val = tick.val, !.pc = "pend", !.read = TRUE]
  BY DEF ReadVal
<1>2. /\ call'.pc = "pend" /\ call'.old = call.old /\ call'.new.val = tick.val
      /\ call'.irq = call.irq /\ call'.first = call.first /\ call'.early = call.early
      /\ call'.shown = call.shown
  BY <1>1 DEF ClockTypeOK, Reading
<1>3. InMicros BY <1>1 DEF InMicros
<1>4. Caller'
  <2>1. call'.early <=> call'.irq /\ tick'.busy BY <1>1, <1>2, <1>3 DEF Caller
  <2>2. ~call'.first /\ call'.irq => call'.old.count = tick'.count /\ call'.old.pend <= tick'.pend
    BY <1>1, <1>2, <1>3 DEF Caller
  <2>3. ~call'.first /\ ~call'.irq => call'.old.pend = 0 BY <1>2, <1>3 DEF Caller
  <2> QED BY <1>2, <2>1, <2>2, <2>3 DEF Caller
<1>5. NowShown' BY <1>1, <1>2, <1>3, KeptSame DEF NowShown
<1>6. ValIsShown'
  <2> SUFFICES ASSUME tick.val # 0 PROVE ThisPeriod(call.new.val)' \in call'.shown
    BY <1>1 DEF ValIsShown
  <2>1. Place = Load - tick.val BY DEF Place
  <2>2. ThisPeriod(call.new.val)' = Wrapped((tick.count + Owed) * Period + (Load - tick.val))
    <3>1. Owed' = Owed BY <1>1 DEF Owed
    <3> QED BY <1>1, <1>2, <3>1 DEF ThisPeriod, Wrapped, Span, Period
  <2>3. Kept \in call.shown BY <1>3 DEF NowShown
  <2> QED BY <1>2, <2>1, <2>2, <2>3 DEF ClockTold
<1>7. OldRound'
  <2> SUFFICES ASSUME ~call.first
               PROVE  Shown' \/ call'.new.val > call'.old.val \/ Overtaken'
    BY <1>2 DEF OldRound
  <2>1. Shown => Shown' BY <1>2, ShownStays
  <2>2. Overtaken => Overtaken' BY <1>1, <1>2 DEF Overtaken
  <2>3. ~call.read BY <1>1 DEF MayStep
  <2>4. Later => call'.new.val > call'.old.val BY <1>2, <2>3 DEF Later
  <2> QED BY <1>1, <2>1, <2>2, <2>4 DEF OldRound
<1> QED BY <1>4, <1>5, <1>6, <1>7

LEMMA ReadPendKeeps ==
  ASSUME ClockInv, ReadPend
  PROVE  Caller' /\ NowShown' /\ ValIsShown' /\ OldRound'
<1> USE DEF ClockInv
<1>1. /\ call.pc = "pend" /\ MayStep /\ tick' = tick /\ now' = now /\ lost' = lost
      /\ call' = [call EXCEPT !.new.pend = tick.pend, !.pc = "count", !.read = TRUE]
  BY DEF ReadPend
<1>2. /\ call'.pc = "count" /\ call'.old = call.old /\ call'.new.val = call.new.val
      /\ call'.new.pend = tick.pend
      /\ call'.irq = call.irq /\ call'.first = call.first /\ call'.early = call.early
      /\ call'.shown = call.shown
  BY <1>1 DEF ClockTypeOK, Reading
<1>3. InMicros BY <1>1 DEF InMicros
<1>4. Caller'
  <2>1. call'.early <=> call'.irq /\ tick'.busy BY <1>1, <1>2, <1>3 DEF Caller
  <2>2. ~call'.first /\ call'.irq => call'.old.count = tick'.count /\ call'.old.pend <= tick'.pend
    BY <1>1, <1>2, <1>3 DEF Caller
  <2>3. ~call'.first /\ ~call'.irq => call'.old.pend = 0 BY <1>2, <1>3 DEF Caller
  <2>4. call'.new.pend <= tick'.pend BY <1>1, <1>2, TickTypes
  <2>5. ~call'.irq => call'.new.pend = 0 BY <1>1, <1>2, MainOwesNothing DEF MayStep
  <2> QED BY <1>2, <2>1, <2>2, <2>3, <2>4, <2>5 DEF Caller
<1>5. NowShown' BY <1>1, <1>2, <1>3, KeptSame DEF NowShown
<1>6. ValIsShown'
  <2>1. Owed' = Owed BY <1>1 DEF Owed
  <2>2. ThisPeriod(call.new.val)' = ThisPeriod(call.new.val)
    BY <1>1, <1>2, <2>1 DEF ThisPeriod, Wrapped, Span, Period
  <2> QED BY <1>1, <1>2, <2>2 DEF ValIsShown
<1>7. OldRound'
  <2> SUFFICES ASSUME ~call.first
               PROVE  Shown' \/ call'.new.val > call'.old.val \/ call'.old.pend # call'.new.pend
    BY <1>2 DEF OldRound
  <2>1. Shown => Shown' BY <1>2, ShownStays
  <2>2. Overtaken => call'.old.pend # call'.new.pend BY <1>2 DEF Overtaken
  <2> QED BY <1>1, <1>2, <2>1, <2>2 DEF OldRound
<1> QED BY <1>4, <1>5, <1>6, <1>7

\* The loop goes round: the round just read becomes the older one.
LEMMA LoopKeeps ==
  ASSUME ClockInv, ReadCount, Loops
  PROVE  Caller' /\ NowShown' /\ ValIsShown' /\ OldRound'
<1> USE DEF ClockInv
<1>1. call.pc = "count" /\ MayStep /\ tick' = tick /\ now' = now /\ lost' = lost
  BY CountIs DEF ReadCount
<1>2. /\ call'.pc = "val" /\ call'.old = Round /\ call'.read = TRUE /\ call'.first = FALSE
      /\ call'.irq = call.irq /\ call'.early = call.early /\ call'.shown = call.shown
  BY DEF Loops, ClockTypeOK
<1>3. Round.val = call.new.val /\ Round.pend = call.new.pend /\ Round.count = tick.count
  BY CallTypes DEF Round, Reading
<1>4. InMicros BY <1>1 DEF InMicros
<1>5. tick.val \in 0 .. Load /\ call.new.val \in 0 .. Load
      /\ tick.pend \in {0, 1} /\ call.new.pend \in {0, 1}
  BY TickTypes, CallTypes
<1>6. call.early <=> call.irq /\ tick.busy BY <1>4 DEF Caller
<1>7. Caller'
  <2>1. call'.early <=> call'.irq /\ tick'.busy BY <1>1, <1>2, <1>6
  <2>2. call'.irq => call'.old.pend <= tick'.pend BY <1>1, <1>2, <1>3 DEF Caller
  <2>3. ~call'.irq => call'.old.pend = 0 BY <1>1, <1>2, <1>3 DEF Caller
  <2>4. call'.old.count = tick'.count BY <1>1, <1>2, <1>3
  <2> QED BY <1>2, <2>1, <2>2, <2>3, <2>4 DEF Caller
<1>8. NowShown' BY <1>1, <1>2, <1>4, KeptSame DEF NowShown
<1>9. ValIsShown' BY <1>2 DEF ValIsShown
<1>10. OldRound'
  <2> SUFFICES Shown' \/ Later' \/ Overtaken' BY <1>2 DEF OldRound
  <2>1. Owed' = Owed /\ Early' = Early BY <1>1, <1>2 DEF Owed, Early
  <2>2. Owed = tick.pend + Early BY <1>1, <1>4, ReaderOwed
  <2>3. CASE call.new.pend # tick.pend
    <3>1. call.irq
      <4>1. ~call.irq => tick.pend = 0 BY <1>1, MainOwesNothing DEF MayStep
      <4>2. ~call.irq => call.new.pend = 0 BY <1>1 DEF Caller
      <4> QED BY <2>3, <4>1, <4>2
    <3>2. call.new.pend <= tick.pend BY <1>1, <3>1 DEF Caller
    <3>3. call.new.pend = 0 /\ tick.pend = 1 BY <1>5, <2>3, <3>2
    <3> QED BY <1>1, <1>2, <1>3, <3>1, <3>3 DEF Overtaken
  <2>4. CASE call.new.pend = tick.pend /\ (tick.val = 0 \/ tick.val > call.new.val)
    <3>1. Owed' = call'.old.pend + Early' BY <1>2, <1>3, <2>1, <2>2, <2>4
    <3> QED BY <1>1, <1>2, <1>3, <2>4, <3>1 DEF Later
  <2>5. CASE call.new.pend = tick.pend /\ tick.val # 0 /\ call.new.val >= tick.val
    <3>1. ThisPeriod(call.new.val) \in call.shown BY <1>1, <2>5 DEF ValIsShown
    <3>2. OldTold' = Wrapped((call'.old.count + (call'.old.pend + Early')) * Period
                              + (Load - call'.old.val))
      BY DEF OldTold, Wrapped, Span, Period
    <3>3. OldTold' = ThisPeriod(call.new.val)
      BY <1>2, <1>3, <2>1, <2>2, <2>5, <3>2 DEF ThisPeriod
    <3> QED BY <1>2, <3>1, <3>3 DEF Shown
  <2> QED BY <1>5, <2>3, <2>4, <2>5
<1> QED BY <1>7, <1>8, <1>9, <1>10

\* The loop ends: the older round told a time shown during the call, or, seen
\* by a call that began inside the handler, one exactly a period older.
LEMMA StopIsTimely ==
  ASSUME ClockInv, ReadCount, Stops
  PROVE  Caller' /\ NowShown' /\ ValIsShown' /\ OldRound' /\ MicrosIsTimely'
<1> USE DEF ClockInv
<1>1. call.pc = "count" /\ MayStep /\ tick' = tick /\ now' = now
  BY CountIs DEF ReadCount
<1>2. /\ call'.pc = "micros_end" /\ call'.old = call.old
      /\ call'.early = call.early /\ call'.shown = call.shown
  BY DEF Stops, ClockTypeOK
<1>3. Round.val = call.new.val /\ Round.pend = call.new.pend
  BY CallTypes DEF Round, Reading
<1>4. ~call.first /\ call.old.pend = call.new.pend /\ call.old.val >= call.new.val
  BY <1>3, CallTypes DEF Stops, Unstable
<1>5. ~(call.new.val > call.old.val) BY <1>4, CallTypes
<1>6. Shown BY <1>1, <1>4, <1>5 DEF OldRound
<1>7. Caller' /\ NowShown' /\ ValIsShown' /\ OldRound'
  BY <1>2 DEF Caller, InMicros, NowShown, ValIsShown, OldRound
<1>8. (MicrosResult + IF call.early THEN Period ELSE 0) % Span \in call.shown
  BY <1>6, ResultIs DEF Shown
<1>9. MicrosResult' = MicrosResult BY <1>2 DEF MicrosResult, Told, Span, Period
<1>10. MicrosIsTimely' BY <1>2, <1>8, <1>9 DEF MicrosIsTimely, Span, Period
<1> QED BY <1>7, <1>10

-----------------------------------------------------------------------------
(* delay: what it has counted it has lasted. *)

LEMMA PassedType == ASSUME ClockTypeOK PROVE Passed \in 0 .. TickMod - 1
<1> DEFINE x == tick.count - call.start
<1>1. x \in Int /\ -TickMod <= x /\ x < TickMod + TickMod /\ x < TickMod
      /\ TickMod \in Nat \ {0}
  BY TickTypes, CallTypes, Sorts
<1> HIDE DEF x
<1>2. x % TickMod = IF x < 0 THEN x + TickMod ELSE IF x >= TickMod THEN x - TickMod ELSE x
  BY <1>1, ModWrapped
<1> QED BY <1>1, <1>2 DEF x, Passed

LEMMA PassedStep ==
  ASSUME ClockTypeOK, HandlerStore
  PROVE  Passed' \in Nat /\ Passed' <= Passed + 1
<1>1. tick'.count = (IF tick.count = TickMod - 1 THEN 0 ELSE tick.count + 1) /\ call' = call
  BY StoreIs
<1>2. tick.count \in 0 .. TickMod - 1 /\ call.start \in 0 .. TickMod - 1
      /\ TickMod \in Nat \ {0}
  BY TickTypes, CallTypes, Sorts
<1> DEFINE x == tick.count - call.start
           y == tick'.count - call.start
<1>3. x \in Int /\ -TickMod <= x /\ x < TickMod + TickMod /\ x < TickMod
      /\ y \in Int /\ -TickMod <= y /\ y < TickMod + TickMod /\ y < TickMod
      /\ (y = x + 1 \/ y = x + 1 - TickMod)
  BY <1>1, <1>2
<1>4. Passed = x % TickMod /\ Passed' = y % TickMod BY <1>1 DEF Passed
<1> HIDE DEF x, y
<1>5. x % TickMod = IF x < 0 THEN x + TickMod ELSE IF x >= TickMod THEN x - TickMod ELSE x
  BY <1>2, <1>3, ModWrapped
<1>6. y % TickMod = IF y < 0 THEN y + TickMod ELSE IF y >= TickMod THEN y - TickMod ELSE y
  BY <1>2, <1>3, ModWrapped
<1> QED BY <1>2, <1>3, <1>4, <1>5, <1>6

LEMMA DelayNext ==
  ASSUME ClockInv, ClockNext
  PROVE  DelayAged' /\ DelayLongEnough'
<1> USE DEF ClockInv
<1>0. Passed \in Nat /\ Owed \in 0 .. 2 BY PassedType, OwedType, Sorts
<1>1. CASE Cycle
  <2>1. tick'.count = tick.count /\ call'.pc = call.pc /\ call'.start = call.start
        /\ call.pc # "delay_end"
    BY <1>1, CycleFields
  <2>2. Passed' = Passed BY <2>1 DEF Passed
  <2>3. ASSUME call.pc = "wait"
        PROVE  call'.age >= (Passed' + Owed') * Period + Place' - (Load - 1)
    <3>1. call.age >= (Passed + Owed) * Period + Place - (Load - 1)
      BY <2>3 DEF DelayAged
    <3>2. /\ (Passed + Owed) * Period \in Nat /\ (Passed + Owed') * Period \in Nat
          /\ (Passed + Owed') * Period + Place' =
               (Passed + Owed) * Period + Place + 1 - (IF Loses THEN Period ELSE 0)
      BY <1>0, <1>1, CycleSum
    <3>3. call'.age = call.age + 1 BY <1>1, <2>3, CycleFields
    <3>4. Place' \in Int BY <1>1, CycleFields, TickTypes, Sorts DEF Place
    <3>5. Period \in Nat BY SpanFacts
    <3> HIDE DEF Passed
    <3>6. call.age + 1 >= (Passed + Owed') * Period + Place' - (Load - 1)
      BY <3>1, <3>2, <3>4, <3>5, PlaceType, CallTypes, Sorts
    <3> QED BY <2>2, <3>3, <3>6
  <2>4. DelayAged' BY <2>1, <2>3 DEF DelayAged, Period
  <2> QED BY <2>1, <2>4 DEF DelayLongEnough
<1>2. CASE HandlerEnter
  <2>1. tick'.count = tick.count /\ call' = call BY <1>2, EnterIs
  <2>2. Owed' = Owed /\ Place' = Place BY <1>2, EnterSum
  <2>3. Passed' = Passed BY <2>1 DEF Passed
  <2> QED BY <2>1, <2>2, <2>3 DEF DelayAged, DelayLongEnough, Period
<1>3. CASE HandlerStore
  <2>1. tick'.val = tick.val /\ tick'.pend = tick.pend /\ ~tick'.busy /\ call' = call
    BY <1>3, StoreIs
  <2>2. tick.busy BY <1>3 DEF HandlerStore
  <2>3. Owed' = Owed - 1 /\ Owed \in 1 .. 2 BY <2>1, <2>2, TickTypes DEF Owed
  <2>4. Place' = Place BY <2>1 DEF Place
  <2>5. ASSUME call.pc = "wait"
        PROVE  call'.age >= (Passed' + Owed') * Period + Place' - (Load - 1)
    <3>1. call.age >= (Passed + Owed) * Period + Place - (Load - 1)
      BY <2>5 DEF DelayAged
    <3>2. Passed' \in Nat /\ Passed' <= Passed + 1 BY <1>3, PassedStep
    <3>3. \A p \in Nat, q \in Nat, o \in 1 .. 2 :
            q <= p + 1 => q + (o - 1) \in Nat /\ p + o \in Nat /\ q + (o - 1) <= p + o
      OBVIOUS
    <3> DEFINE m == Passed' + (Owed - 1)
               n == Passed + Owed
    <3>4. m \in Nat /\ n \in Nat /\ m <= n BY <1>0, <2>3, <3>2, <3>3
    <3> HIDE DEF m, n
    <3>5. m * Period \in Nat /\ n * Period \in Nat /\ m * Period <= n * Period
      BY <3>4, PeriodsGrow
    <3>6. call.age >= n * Period + Place - (Load - 1) BY <3>1 DEF n
    <3>7. call.age >= m * Period + Place - (Load - 1)
      BY <3>5, <3>6, PlaceType, CallTypes, Sorts
    <3> QED BY <2>1, <2>3, <2>4, <3>7 DEF m
  <2> QED BY <2>1, <2>5 DEF DelayAged, DelayLongEnough, Period
<1>4. CASE CallStep
  <2>1. tick' = tick BY <1>4, CallStepKeepsTime
  <2>2. Owed' = Owed /\ Place' = Place BY <1>4, CallStepKeepsTime
  <2>3. CASE \E byIrq \in BOOLEAN : MicrosCall(byIrq)
    <3>1. call'.pc = "val" BY <2>3 DEF MicrosCall, NoCall
    <3> QED BY <3>1 DEF DelayAged, DelayLongEnough
  <2>4. CASE ReadVal
    <3>1. call'.pc = "pend" BY <2>4 DEF ReadVal, ClockTypeOK
    <3> QED BY <3>1 DEF DelayAged, DelayLongEnough
  <2>5. CASE ReadPend
    <3>1. call'.pc = "count" BY <2>5 DEF ReadPend, ClockTypeOK
    <3> QED BY <3>1 DEF DelayAged, DelayLongEnough
  <2>6. CASE ReadCount
    <3>1. Loops \/ Stops BY <2>6, CountIs
    <3>2. call'.pc \in {"val", "micros_end"} BY <3>1 DEF Loops, Stops, ClockTypeOK
    <3> QED BY <3>2 DEF DelayAged, DelayLongEnough
  <2>7. CASE DelayCall
    <3>1. PICK ms \in Delays \ {0} :
            call' = [NoCall EXCEPT !.pc = "wait", !.ms = ms, !.start = tick.count]
      BY <2>7 DEF DelayCall
    <3>2. call'.pc = "wait" /\ call'.start = tick.count /\ call'.age = 0
      BY <3>1 DEF NoCall
    <3>3. Owed' = 0 BY <2>2, <2>7, MainOwesNothing DEF DelayCall
    <3>4. Passed' = 0
      <4>1. ClockTypeOK' BY ClockTypeNext
      <4>2. tick.count - tick.count = 0 BY TickTypes
      <4>3. Passed' = 0 % TickMod BY <2>1, <3>2, <4>2 DEF Passed
      <4>4. 0 % TickMod = 0 BY ModWrapped, Sorts
      <4> QED BY <4>3, <4>4
    <3>5. (Passed' + Owed') * Period = 0 BY <3>3, <3>4, SpanFacts
    <3>6. call'.age >= (Passed' + Owed') * Period + Place' - (Load - 1)
      BY <2>2, <3>2, <3>5, PlaceType, Sorts
    <3> QED BY <3>2, <3>6 DEF DelayAged, DelayLongEnough, Period
  <2>8. CASE DelayTest
    <3>1. call.pc = "wait" /\ MayStep BY <2>8 DEF DelayTest
    <3>2. call.age >= (Passed + Owed) * Period + Place - (Load - 1)
      BY <3>1 DEF DelayAged
    <3>3. CASE call' = [call EXCEPT !.read = TRUE]
      <4>1. call'.pc = "wait" /\ call'.age = call.age /\ call'.start = call.start
        BY <3>1, <3>3 DEF ClockTypeOK
      <4>2. Passed' = Passed BY <2>1, <4>1 DEF Passed
      <4> QED BY <2>2, <3>2, <4>1, <4>2 DEF DelayAged, DelayLongEnough, Period
    <3>4. CASE ~Waiting(call.ms, call.start, tick.count)
               /\ call' = [call EXCEPT !.pc = "delay_end"]
      <4>1. call'.pc = "delay_end" /\ call'.age = call.age /\ call'.ms = call.ms
        BY <3>4 DEF ClockTypeOK
      <4>2. call.ms \in Nat
        <5>1. Delays \cup {0} \subseteq Nat BY ClockAssumption
        <5> QED BY <5>1, CallTypes
      <4>3. Passed \in Nat BY PassedType, Sorts
      <4>4. Passed >= call.ms BY <3>4, <4>2, <4>3 DEF Waiting, Passed
      <4>5. Owed = 0
        <5>1. ~call.irq BY <3>1 DEF Caller
        <5> QED BY <3>1, <5>1, MainOwesNothing DEF MayStep
      <4>6. (Passed + Owed) * Period = Passed * Period BY <4>3, <4>5
      <4>7. /\ call.ms * Period \in Nat /\ Passed * Period \in Nat
            /\ call.ms * Period <= Passed * Period /\ (call.ms - 1) * Period \in Int
            /\ call.ms * Period = (call.ms - 1) * Period + Period /\ Period = Load + 1
        BY <4>2, <4>3, <4>4, PeriodsGrow
      <4>10. call.age > (call.ms - 1) * Period
        BY <3>2, <4>6, <4>7, PlaceType, CallTypes, Sorts
      <4> QED BY <4>1, <4>10 DEF DelayAged, DelayLongEnough, Period
    <3> QED BY <2>8, <3>3, <3>4 DEF DelayTest
  <2>9. CASE Return
    <3>1. call'.pc = "none" BY <2>9 DEF Return, NoCall
    <3> QED BY <3>1 DEF DelayAged, DelayLongEnough
  <2> QED BY <1>4, <2>3, <2>4, <2>5, <2>6, <2>7, <2>8, <2>9 DEF CallStep
<1> QED BY <1>1, <1>2, <1>3, <1>4, ClockSteps

-----------------------------------------------------------------------------
LEMMA ClockInvInit == ClockInit => ClockInv
<1> SUFFICES ASSUME ClockInit PROVE ClockInv OBVIOUS
<1>1. ClockTypeOK BY ClockTypeInit
<1>2. PICK c \in 0 .. TickMod - 1 :
        /\ tick = [val |-> Load, pend |-> 0, busy |-> FALSE, count |-> c]
        /\ now = c * Period /\ lost = 0 /\ call = NoCall
  BY DEF ClockInit
<1>3. call.pc = "none" BY <1>2 DEF NoCall
<1>4. tick.val = Load /\ tick.pend = 0 /\ ~tick.busy /\ tick.count = c BY <1>2
<1>5. ClockTold
  <2>1. Owed = 0 BY <1>4 DEF Owed
  <2>2. Place = 0 BY <1>4, Sorts DEF Place
  <2>3. c * Period \in 0 .. Span - 1 BY <1>1, <1>2, TickTypes
  <2>4. (tick.count + Owed) * Period + Place = c * Period
    BY <1>4, <2>1, <2>2, <2>3, Sorts
  <2>5. Kept = c * Period
    <3>1. now \in 0 .. Span - 1 /\ lost \in 0 .. TickMod - 1 BY <1>1, TickTypes
    <3>2. Kept = IF now < lost * Period THEN now - lost * Period + Span ELSE now - lost * Period
      BY <3>1, LessLost DEF Kept
    <3>3. lost * Period = 0 BY <1>2, SpanFacts
    <3> QED BY <1>2, <2>3, <3>2, <3>3
  <2>6. Wrapped(c * Period) = c * Period BY <2>3, SpanBasics DEF Wrapped
  <2> QED BY <2>4, <2>5, <2>6 DEF ClockTold
<1>6. Caller /\ NowShown /\ ValIsShown /\ OldRound /\ DelayAged /\ MicrosIsTimely
      /\ DelayLongEnough
  BY <1>3 DEF Caller, InMicros, NowShown, ValIsShown, OldRound, DelayAged, MicrosIsTimely,
     DelayLongEnough
<1> QED BY <1>1, <1>5, <1>6 DEF ClockInv

LEMMA ClockInvNext == ClockInv /\ [ClockNext]_clockVars => ClockInv'
<1> SUFFICES ASSUME ClockInv, [ClockNext]_clockVars PROVE ClockInv' OBVIOUS
<1>1. CASE UNCHANGED clockVars
  <2>1. tick' = tick /\ now' = now /\ lost' = lost /\ call' = call BY <1>1 DEF clockVars
  <2>2. (ClockTypeOK <=> ClockTypeOK') /\ (Caller <=> Caller')
    BY <2>1 DEF ClockTypeOK, Caller, InMicros, Span, Period, Reading
  <2>3. (ClockTold <=> ClockTold') /\ (NowShown <=> NowShown') /\ (ValIsShown <=> ValIsShown')
    BY <2>1 DEF ClockTold, Kept, Wrapped, Owed, Place, NowShown, InMicros, ValIsShown,
       ThisPeriod, Span, Period
  <2>4. OldRound <=> OldRound'
    BY <2>1 DEF OldRound, Shown, OldTold, Early, Wrapped, Later, Overtaken, Owed, Span, Period
  <2>5. (DelayAged <=> DelayAged') /\ (DelayLongEnough <=> DelayLongEnough')
    BY <2>1 DEF DelayAged, Passed, Owed, Place, DelayLongEnough, Period
  <2>6. MicrosIsTimely <=> MicrosIsTimely'
    BY <2>1 DEF MicrosIsTimely, MicrosResult, Told, Span, Period
  <2> QED BY <2>2, <2>3, <2>4, <2>5, <2>6 DEF ClockInv
<1>2. CASE ClockNext
  <2> USE DEF ClockInv
  <2>1. ClockTypeOK' BY <1>2, ClockTypeNext
  <2>2. ClockTold' BY <1>2, ToldNext
  <2>3. DelayAged' /\ DelayLongEnough' BY <1>2, DelayNext
  <2>4. Caller' /\ NowShown' /\ ValIsShown' /\ OldRound' /\ MicrosIsTimely'
    <3>1. CASE Cycle
      <4>1. call'.pc # "micros_end" BY <3>1, CycleFields
      <4> QED BY <3>1, <4>1, CycleKeeps DEF MicrosIsTimely
    <3>2. CASE HandlerEnter \/ HandlerStore
      <4>1. call' = call BY <3>2, EnterIs, StoreIs
      <4>2. MicrosIsTimely' BY <4>1 DEF MicrosIsTimely, MicrosResult, Told, Span, Period
      <4> QED BY <3>2, <4>2, HandlerKeeps
    <3>3. CASE \E byIrq \in BOOLEAN : MicrosCall(byIrq)
      <4>1. PICK byIrq \in BOOLEAN : MicrosCall(byIrq) BY <3>3
      <4>2. call'.pc = "val" BY <4>1 DEF MicrosCall, NoCall
      <4> QED BY <4>1, <4>2, MicrosCallKeeps DEF MicrosIsTimely
    <3>4. CASE ReadVal
      <4>1. call'.pc = "pend" BY <3>4 DEF ReadVal, ClockTypeOK
      <4> QED BY <3>4, <4>1, ReadValKeeps DEF MicrosIsTimely
    <3>5. CASE ReadPend
      <4>1. call'.pc = "count" BY <3>5 DEF ReadPend, ClockTypeOK
      <4> QED BY <3>5, <4>1, ReadPendKeeps DEF MicrosIsTimely
    <3>6. CASE ReadCount
      <4>1. Loops \/ Stops BY <3>6, CountIs
      <4>2. CASE Loops
        <5>1. call'.pc = "val" BY <4>2 DEF Loops, ClockTypeOK
        <5> QED BY <3>6, <4>2, <5>1, LoopKeeps DEF MicrosIsTimely
      <4>3. CASE Stops BY <3>6, <4>3, StopIsTimely
      <4> QED BY <4>1, <4>2, <4>3
    <3>7. ASSUME DelayCall \/ DelayTest \/ Return
          PROVE  Caller' /\ NowShown' /\ ValIsShown' /\ OldRound' /\ MicrosIsTimely'
      <4>1. call'.pc \in {"wait", "delay_end", "none"} /\ (call'.pc = "wait" => ~call'.irq)
        <5>1. CASE DelayCall BY <5>1 DEF DelayCall, NoCall
        <5>2. CASE DelayTest
          <6>1. call.pc = "wait" /\ ~call.irq BY <5>2 DEF DelayTest, Caller
          <6>2. \/ call' = [call EXCEPT !.read = TRUE]
                \/ call' = [call EXCEPT !.pc = "delay_end"]
            BY <5>2 DEF DelayTest
          <6> QED BY <6>1, <6>2 DEF ClockTypeOK
        <5>3. CASE Return BY <5>3 DEF Return, NoCall
        <5> QED BY <3>7, <5>1, <5>2, <5>3
      <4>2. call'.pc \notin {"val", "pend", "count", "micros_end"} BY <4>1
      <4> QED
        BY <4>1, <4>2 DEF Caller, InMicros, NowShown, ValIsShown, OldRound, MicrosIsTimely
    <3> QED BY <1>2, <3>1, <3>2, <3>3, <3>4, <3>5, <3>6, <3>7, ClockSteps DEF CallStep
  <2> QED BY <2>1, <2>2, <2>3, <2>4
<1> QED BY <1>1, <1>2

\* The inductive invariant holds in every state (delay.c:29-67).
THEOREM ClockInvariant == ClockSpec => []ClockInv
BY ClockInvInit, ClockInvNext, PTL DEF ClockSpec

\* SysTick's registers, the count and a call in progress keep their ranges
\* (delay.c:29-67).
THEOREM ClockTypeCorrect == ClockSpec => []ClockTypeOK
<1>1. ClockInv => ClockTypeOK BY DEF ClockInv
<1> QED BY <1>1, ClockInvariant, PTL

\* micros returns a time the clock showed during the call, behind the time by
\* the ticks lost and no more, wherever reload, request and handler fall
\* between its readings and across the wrap of the count; one period older
\* only from an interrupt inside the handler.
THEOREM MicrosTellsTheTime == ClockSpec => []MicrosIsTimely
<1>1. ClockInv => MicrosIsTimely BY DEF ClockInv
<1> QED BY <1>1, ClockInvariant, PTL

\* delay waits for more than ms - 1 full periods, wherever it begins.
THEOREM DelayWaits == ClockSpec => []DelayLongEnough
<1>1. ClockInv => DelayLongEnough BY DEF ClockInv
<1> QED BY <1>1, ClockInvariant, PTL

-----------------------------------------------------------------------------
(* The SPI master: its busy flag is set exactly while the peripheral is at  *)
(* work or its interrupt is pending.                                        *)

(* The inductive invariant: what the flag's property rests on. *)

\* A call in progress has a number and an open instance.
CallIsOpen == xfer.pc \in {"cleared", "wait", "spin", "read"} => spim.open /\ xfer.call # 0

\* A closed instance is not busy, so opening it finds nothing to reset.
ClosedIsFree == ~spim.open => ~spim.busy

\* END is served before the next transfer starts.
OneAtATime == ~(spidma.of # 0 /\ spidma.end)

SpiInv == /\ SpiTypeOK /\ CallIsOpen /\ ClosedIsFree /\ OneAtATime
          /\ BusyExactlyWhileTransferring

\* The initial state satisfies the invariant.
LEMMA SpiInvInit == SpiInitial => SpiInv
  BY SpiAssumption
  DEF SpiInitial, SpiInv, SpiTypeOK, CallIsOpen, ClosedIsFree, OneAtATime, SpiPC,
      BusyExactlyWhileTransferring

\* Every step of the main loop, the peripheral and the interrupt keeps it.
LEMMA SpiInvNext == SpiInv /\ [SpiNext]_spiVars => SpiInv'
<1> SUFFICES ASSUME SpiInv, [SpiNext]_spiVars PROVE SpiInv'
  OBVIOUS
<1> USE SpiAssumption
    DEF SpiInv, SpiTypeOK, CallIsOpen, ClosedIsFree, OneAtATime, SpiPC,
        BusyExactlyWhileTransferring
<1>1. CASE BusEnds
  BY <1>1 DEF BusEnds
<1>2. CASE SpiIrq
  BY <1>2 DEF SpiIrq, Finished
<1>3. CASE SpiInit
  BY <1>3 DEF SpiInit, DriverInit, SpiIdle
<1>4. CASE SpiDeinit
  <2>1. spidma' = [of |-> 0, end |-> FALSE]
    BY <1>4 DEF SpiDeinit, DriverUninit
  <2>2. /\ spim' \in [open : BOOLEAN, busy : BOOLEAN, done : BOOLEAN]
        /\ ~spim'.open /\ ~spim'.busy /\ UNCHANGED xfer
    BY <1>4 DEF SpiDeinit, DriverUninit
  <2>3. xfer'.pc \notin {"cleared", "wait", "spin", "read"}
    BY <1>4, <2>2 DEF SpiDeinit, SpiIdle
  <2>4. SpiTypeOK'
    BY <2>1, <2>2
  <2>5. CallIsOpen' /\ ClosedIsFree' /\ OneAtATime'
    BY <2>1, <2>2, <2>3
  <2>6. BusyExactlyWhileTransferring'
    BY <2>1, <2>2
  <2> QED
    BY <2>4, <2>5, <2>6
<1>5. CASE BeginWriteRead
  <2>1. spim' \in [open : BOOLEAN, busy : BOOLEAN, done : BOOLEAN]
    BY <1>5 DEF BeginWriteRead
  <2>2. spim'.open /\ spim'.busy = spim.busy /\ UNCHANGED spidma
    BY <1>5 DEF BeginWriteRead
  <2>3. xfer.call + 1 \in 0 .. MaxTransfers /\ xfer.call + 1 # 0
    BY <1>5 DEF BeginWriteRead
  <2>4. SpiTypeOK' /\ CallIsOpen'
    BY <1>5, <2>1, <2>2, <2>3 DEF BeginWriteRead
  <2> QED
    BY <2>2, <2>4
<1>6. CASE RefuseBusy
  BY <1>6 DEF RefuseBusy, SpiAt
<1>7. CASE StartTransfer
  BY <1>7 DEF StartTransfer, SpimStarted, SpiAt
<1>8. CASE WaitTests
  BY <1>8 DEF WaitTests, SpiAt
<1>9. CASE WaitExpires
  BY <1>9 DEF WaitExpires, SpiAt
<1>10. CASE ReadAnswer
  BY <1>10 DEF ReadAnswer, SpiAt
<1>11. CASE UNCHANGED spiVars
  BY <1>11 DEF spiVars
<1> QED
  BY <1>1, <1>2, <1>3, <1>4, <1>5, <1>6, <1>7, <1>8, <1>9, <1>10, <1>11 DEF SpiNext

-----------------------------------------------------------------------------
(* The theorems. *)

\* Every reachable state satisfies the inductive invariant.
THEOREM SpiInvariant == SpiSpec => []SpiInv
<1>1. SpiInitial => SpiInv
  BY SpiInvInit
<1>2. SpiInv /\ [SpiNext]_spiVars => SpiInv'
  BY SpiInvNext
<1> QED
  BY <1>1, <1>2, PTL DEF SpiSpec

\* The driver is never busy for nothing and never takes a transfer while the
\* peripheral still uses the buffers of another (nrf_drv_spi.c:314, :177).
THEOREM BusyFlagIsTrue == SpiSpec => []BusyExactlyWhileTransferring
<1>1. SpiInv => BusyExactlyWhileTransferring
  BY DEF SpiInv
<1> QED
  BY SpiInvariant, <1>1, PTL

\* Flags, event and call stay in their ranges.
THEOREM SpiTypeCorrect == SpiSpec => []SpiTypeOK
<1>1. SpiInv => SpiTypeOK
  BY DEF SpiInv
<1> QED
  BY SpiInvariant, <1>1, PTL

-----------------------------------------------------------------------------
(* Stream: strings and the bytes that end with them. *)

\* A set of numbers below a bound has a greatest one, the one Max chooses.
LEMMA GreatestBelow ==
  ASSUME NEW n \in Nat, NEW S, S \subseteq 0 .. n, S # {}
  PROVE  Sets!Max(S) \in S /\ \A j \in S : Sets!Max(S) >= j
<1> DEFINE T == {n - j : j \in S}
<1>1. T \subseteq Nat /\ T # {}
  <2>1. PICK j \in S : TRUE OBVIOUS
  <2>2. n - j \in T OBVIOUS
  <2>3. \A k \in T : k \in Nat OBVIOUS
  <2> QED BY <2>2, <2>3
<1>2. PICK t \in T : \A k \in T : <<k, t>> \notin OpToRel(<, Nat)
  BY <1>1, WFMin, NatLessThanWellFounded, Zenon
<1>3. \A k \in T : ~(k < t) BY <1>1, <1>2 DEF OpToRel
<1>4. PICK x \in S : t = n - x BY <1>2
<1>5. \A j \in S : x >= j
  <2> SUFFICES ASSUME NEW j \in S PROVE x >= j OBVIOUS
  <2>1. n - j \in T OBVIOUS
  <2>2. ~(n - j < n - x) BY <1>3, <1>4, <2>1
  <2> QED BY <2>2
<1> QED BY <1>5 DEF Sets!Max

\* The first k bytes of str are the last ones of t, and no more than k are.
Ending(str, k, t) == k <= Len(t) /\ \A i \in 1 .. k : str[i] = t[Len(t) - k + i]
Longest(str, k, t) == /\ k \in 0 .. Len(str) /\ Ending(str, k, t)
                      /\ \A j \in k + 1 .. Len(str) : ~Ending(str, j, t)

LEMMA SuffixIsEnding ==
  ASSUME NEW C, NEW s \in Seq(C), NEW t \in Seq(C)
  PROVE  Seqs!IsSuffix(s, t) <=> Ending(s, Len(s), t)
<1> DEFINE rs == Seqs!Reverse(s)
           rt == Seqs!Reverse(t)
<1>1. /\ rs \in Seq(C) /\ Len(rs) = Len(s) /\ \A i \in 1 .. Len(s) : rs[i] = s[Len(s) - i + 1]
      /\ rt \in Seq(C) /\ Len(rt) = Len(t) /\ \A i \in 1 .. Len(t) : rt[i] = t[Len(t) - i + 1]
  BY DEF Seqs!Reverse
<1> HIDE DEF rs, rt
<1>2. Seqs!IsSuffix(s, t)
        <=> Len(s) <= Len(t) /\ SubSeq(rs, 1, Len(s)) = SubSeq(rt, 1, Len(s))
  BY <1>1 DEF Seqs!IsSuffix, Seqs!IsPrefix, rs, rt
<1>3. ASSUME Len(s) <= Len(t)
      PROVE  SubSeq(rs, 1, Len(s)) = SubSeq(rt, 1, Len(s)) <=> \A i \in 1 .. Len(s) : rs[i] = rt[i]
  <2> DEFINE u == SubSeq(rs, 1, Len(s))
             v == SubSeq(rt, 1, Len(s))
  <2>1. /\ u \in Seq(C) /\ Len(u) = Len(s) /\ \A i \in 1 .. Len(s) : u[i] = rs[i]
        /\ v \in Seq(C) /\ Len(v) = Len(s) /\ \A i \in 1 .. Len(s) : v[i] = rt[i]
    BY <1>1, <1>3
  <2> HIDE DEF u, v
  <2>2. u = v <=> \A i \in 1 .. Len(s) : u[i] = v[i] BY <2>1, SeqEqual
  <2> QED BY <2>1, <2>2 DEF u, v
<1>4. ASSUME Len(s) <= Len(t)
      PROVE  (\A i \in 1 .. Len(s) : rs[i] = rt[i])
               <=> \A i \in 1 .. Len(s) : s[i] = t[Len(t) - Len(s) + i]
  <2>1. ASSUME \A i \in 1 .. Len(s) : rs[i] = rt[i], NEW i \in 1 .. Len(s)
        PROVE  s[i] = t[Len(t) - Len(s) + i]
    <3>1. Len(s) - i + 1 \in 1 .. Len(s) /\ Len(s) - i + 1 \in 1 .. Len(t) BY <1>4
    <3>2. rs[Len(s) - i + 1] = s[Len(s) - (Len(s) - i + 1) + 1] BY <1>1, <3>1
    <3>3. rt[Len(s) - i + 1] = t[Len(t) - (Len(s) - i + 1) + 1] BY <1>1, <3>1
    <3>4. Len(s) - (Len(s) - i + 1) + 1 = i
          /\ Len(t) - (Len(s) - i + 1) + 1 = Len(t) - Len(s) + i
      OBVIOUS
    <3> QED BY <2>1, <3>1, <3>2, <3>3, <3>4
  <2>2. ASSUME \A i \in 1 .. Len(s) : s[i] = t[Len(t) - Len(s) + i], NEW i \in 1 .. Len(s)
        PROVE  rs[i] = rt[i]
    <3>1. Len(s) - i + 1 \in 1 .. Len(s) /\ i \in 1 .. Len(t) BY <1>4
    <3>2. s[Len(s) - i + 1] = t[Len(t) - Len(s) + (Len(s) - i + 1)] BY <2>2, <3>1
    <3>3. Len(t) - Len(s) + (Len(s) - i + 1) = Len(t) - i + 1 OBVIOUS
    <3> QED BY <1>1, <3>1, <3>2, <3>3
  <2> QED BY <2>1, <2>2
<1> QED BY <1>2, <1>3, <1>4 DEF Ending

LEMMA EndingAppend ==
  ASSUME NEW C, NEW str \in Seq(C), NEW t \in Seq(C), NEW c \in C, NEW k \in 0 .. Len(str) - 1
  PROVE  Ending(str, k + 1, Append(t, c)) <=> Ending(str, k, t) /\ str[k + 1] = c
<1>0. PICK r : r = Append(t, c) OBVIOUS
<1>1. Len(r) = Len(t) + 1 /\ (\A i \in 1 .. Len(t) : r[i] = t[i]) /\ r[Len(t) + 1] = c
  BY <1>0
<1>2. \A i : Len(r) - (k + 1) + i = Len(t) - k + i BY <1>1
<1>3. ASSUME Ending(str, k + 1, r) PROVE Ending(str, k, t) /\ str[k + 1] = c
  <2>1. k <= Len(t) BY <1>1, <1>3 DEF Ending
  <2>2. ASSUME NEW i \in 1 .. k PROVE str[i] = t[Len(t) - k + i]
    <3>1. str[i] = r[Len(r) - (k + 1) + i] BY <1>3 DEF Ending
    <3>2. Len(r) - (k + 1) + i = Len(t) - k + i /\ Len(t) - k + i \in 1 .. Len(t) BY <1>1, <2>1
    <3> QED BY <1>1, <3>1, <3>2
  <2>3. str[k + 1] = r[Len(r) - (k + 1) + (k + 1)] BY <1>3 DEF Ending
  <2>4. Len(r) - (k + 1) + (k + 1) = Len(t) + 1 BY <1>1
  <2> QED BY <1>1, <2>1, <2>2, <2>3, <2>4 DEF Ending
<1>4. ASSUME Ending(str, k, t), str[k + 1] = c PROVE Ending(str, k + 1, r)
  <2>1. k + 1 <= Len(r) BY <1>1, <1>4 DEF Ending
  <2>2. ASSUME NEW i \in 1 .. k + 1 PROVE str[i] = r[Len(r) - (k + 1) + i]
    <3>1. CASE i \in 1 .. k
      <4>1. str[i] = t[Len(t) - k + i] BY <1>4, <3>1 DEF Ending
      <4>2. Len(r) - (k + 1) + i = Len(t) - k + i /\ Len(t) - k + i \in 1 .. Len(t)
        BY <1>1, <1>4, <3>1 DEF Ending
      <4> QED BY <1>1, <4>1, <4>2
    <3>2. CASE i = k + 1
      <4>1. Len(r) - (k + 1) + i = Len(t) + 1 BY <1>1, <3>2
      <4> QED BY <1>1, <1>4, <3>2, <4>1
    <3> QED BY <3>1, <3>2
  <2> QED BY <2>1, <2>2 DEF Ending
<1> QED BY <1>0, <1>3, <1>4

\* Of what ends t with k bytes, fewer do exactly if they end those.
LEMMA EndingWithin ==
  ASSUME NEW C, NEW str \in Seq(C), NEW t \in Seq(C), NEW k \in 0 .. Len(str),
         Ending(str, k, t), NEW j \in 0 .. k
  PROVE  Ending(str, j, t) <=> \A i \in 1 .. j : str[i] = str[i + k - j]
<1>1. k <= Len(t) /\ j <= Len(t) BY DEF Ending
<1>2. ASSUME NEW i \in 1 .. j PROVE str[i + k - j] = t[Len(t) - j + i]
  <2>1. i + k - j \in 1 .. k /\ Len(t) - k + (i + k - j) = Len(t) - j + i OBVIOUS
  <2>2. str[i + k - j] = t[Len(t) - k + (i + k - j)] BY <2>1 DEF Ending
  <2> QED BY <2>1, <2>2
<1> QED BY <1>1, <1>2 DEF Ending

LEMMA MultiKeepsLongest ==
  ASSUME NEW C, NEW str \in Seq(C), NEW t \in Seq(C), NEW c \in C, NEW k \in Nat,
         k < Len(str), Longest(str, k, t)
  PROVE  Longest(str, MultiIndex(str, k, c), Append(t, c))
<1>0. PICK r : r = Append(t, c) OBVIOUS
<1>1. \A j \in 0 .. Len(str) - 1 : Ending(str, j + 1, r) <=> Ending(str, j, t) /\ str[j + 1] = c
  BY <1>0, EndingAppend
<1>2. Ending(str, 0, r) BY <1>0 DEF Ending
<1>3. Ending(str, k, t) /\ \A j \in k + 1 .. Len(str) : ~Ending(str, j, t) BY DEF Longest
<1>4. ASSUME NEW n \in 0 .. Len(str), n = 0 \/ (Ending(str, n - 1, t) /\ str[n] = c),
             \A j \in n .. k : ~(Ending(str, j, t) /\ str[j + 1] = c)
      PROVE  Longest(str, n, r)
  <2>1. Ending(str, n, r)
    <3>1. CASE n = 0 BY <1>2, <3>1
    <3>2. CASE n # 0
      <4>1. n - 1 \in 0 .. Len(str) - 1 /\ (n - 1) + 1 = n BY <3>2
      <4> QED BY <1>1, <1>4, <3>2, <4>1
    <3> QED BY <3>1, <3>2
  <2>2. ASSUME NEW j \in n + 1 .. Len(str) PROVE ~Ending(str, j, r)
    <3>1. j - 1 \in 0 .. Len(str) - 1 /\ (j - 1) + 1 = j OBVIOUS
    <3>2. Ending(str, j, r) <=> Ending(str, j - 1, t) /\ str[j] = c BY <1>1, <3>1
    <3>3. CASE j - 1 <= k
      <4>1. j - 1 \in n .. k BY <3>3
      <4> QED BY <1>4, <3>1, <3>2, <4>1
    <3>4. CASE j - 1 > k
      <4>1. j - 1 \in k + 1 .. Len(str) BY <3>4
      <4> QED BY <1>3, <3>2, <4>1
    <3> QED BY <3>3, <3>4
  <2> QED BY <2>1, <2>2 DEF Longest
<1>5. CASE c = str[k + 1]
  <2>1. k + 1 \in 0 .. Len(str) /\ (k + 1) - 1 = k OBVIOUS
  <2>2. Longest(str, k + 1, r) BY <1>3, <1>4, <1>5, <2>1
  <2> QED BY <1>0, <1>5, <2>2 DEF MultiIndex
<1>6. CASE c # str[k + 1]
  <2>1. \A j \in 0 .. k - 1 :
          j \in Shorter(str, k, c) <=> Ending(str, j, t) /\ str[j + 1] = c
    <3> SUFFICES ASSUME NEW j \in 0 .. k - 1
                 PROVE  j \in Shorter(str, k, c) <=> Ending(str, j, t) /\ str[j + 1] = c
      OBVIOUS
    <3>1. Ending(str, j, t) <=> \A i \in 1 .. j : str[i] = str[i + k - j]
      BY <1>3, EndingWithin
    <3> QED BY <3>1 DEF Shorter
  <2>2. ~(Ending(str, k, t) /\ str[k + 1] = c) BY <1>6
  <2>3. CASE Shorter(str, k, c) = {}
    <3>1. \A j \in 0 .. k : ~(Ending(str, j, t) /\ str[j + 1] = c)
      BY <2>1, <2>2, <2>3
    <3>2. PICK n \in 0 .. Len(str) : n = 0 OBVIOUS
    <3>3. \A j \in n .. k : ~(Ending(str, j, t) /\ str[j + 1] = c) BY <3>1, <3>2
    <3>4. n = 0 \/ (Ending(str, n - 1, t) /\ str[n] = c) BY <3>2
    <3>5. Longest(str, n, r) BY <1>4, <3>3, <3>4
    <3> QED BY <1>0, <1>6, <2>3, <3>2, <3>5 DEF MultiIndex
  <2>4. CASE Shorter(str, k, c) # {}
    <3>1. PICK m : m = Sets!Max(Shorter(str, k, c)) OBVIOUS
    <3>2. Shorter(str, k, c) \subseteq 0 .. k - 1 BY DEF Shorter
    <3>3. k - 1 \in Nat BY <2>4, <3>2
    <3>4. m \in Shorter(str, k, c) /\ \A j \in Shorter(str, k, c) : m >= j
      BY <2>4, <3>1, <3>2, <3>3, GreatestBelow
    <3>5. m \in 0 .. k - 1 /\ Ending(str, m, t) /\ str[m + 1] = c BY <2>1, <3>2, <3>4
    <3>6. ASSUME NEW j \in m + 1 .. k PROVE ~(Ending(str, j, t) /\ str[j + 1] = c)
      <4>1. CASE j = k BY <2>2, <4>1
      <4>2. CASE j # k
        <5>1. j \in 0 .. k - 1 /\ ~(m >= j) BY <3>5, <4>2
        <5> QED BY <2>1, <3>4, <5>1
      <4> QED BY <4>1, <4>2
    <3>7. m + 1 \in 0 .. Len(str) /\ (m + 1) - 1 = m BY <3>5
    <3>8. Longest(str, m + 1, r) BY <1>4, <3>5, <3>6, <3>7
    <3> QED BY <1>0, <1>6, <2>4, <3>1, <3>8 DEF MultiIndex
  <2> QED BY <2>3, <2>4
<1> QED BY <1>5, <1>6

\* The loop of findUntil keeps a match, and the longest one if no other can
\* begin within it.
LEMMA UntilKeepsEnding ==
  ASSUME NEW C, NEW str \in Seq(C), NEW t \in Seq(C), NEW c \in C, NEW k \in Nat,
         k < Len(str), Ending(str, k, t)
  PROVE  /\ UntilIndex(str, k, c) \in 0 .. Len(str)
         /\ Ending(str, UntilIndex(str, k, c), Append(t, c))
<1>1. Ending(str, 0, t) /\ Ending(str, 0, Append(t, c)) BY DEF Ending
<1>2. k \in 0 .. Len(str) - 1 /\ 0 \in 0 .. Len(str) - 1 /\ 0 + 1 = 1 OBVIOUS
<1>3. CASE c = str[k + 1]
  <2>1. UntilIndex(str, k, c) = k + 1 BY <1>3 DEF UntilIndex
  <2>2. Ending(str, k + 1, Append(t, c)) BY <1>2, <1>3, EndingAppend
  <2> QED BY <2>1, <2>2
<1>4. CASE c # str[k + 1] /\ c = str[1]
  <2>1. UntilIndex(str, k, c) = 1 BY <1>4 DEF UntilIndex
  <2>2. Ending(str, 0 + 1, Append(t, c)) BY <1>1, <1>2, <1>4, EndingAppend
  <2> QED BY <2>1, <2>2
<1>5. CASE c # str[k + 1] /\ c # str[1]
  <2>1. UntilIndex(str, k, c) = 0 BY <1>5 DEF UntilIndex
  <2> QED BY <1>1, <2>1
<1> QED BY <1>3, <1>4, <1>5

LEMMA TermKeepsEnding ==
  ASSUME NEW C, NEW str \in Seq(C), NEW t \in Seq(C), NEW c \in C, NEW k \in Nat,
         k < Len(str) \/ k = 0, Ending(str, k, t)
  PROVE  /\ TermIndex(str, k, c) \in 0 .. Len(str)
         /\ Ending(str, TermIndex(str, k, c), Append(t, c))
<1>1. Ending(str, 0, Append(t, c)) BY DEF Ending
<1>2. CASE str # <<>> /\ c = str[k + 1]
  <2>1. TermIndex(str, k, c) = k + 1 BY <1>2 DEF TermIndex
  <2>2. k \in 0 .. Len(str) - 1 BY <1>2
  <2>3. Ending(str, k + 1, Append(t, c)) BY <1>2, <2>2, EndingAppend
  <2> QED BY <2>1, <2>2, <2>3
<1>3. CASE ~(str # <<>> /\ c = str[k + 1])
  <2>1. TermIndex(str, k, c) = 0 BY <1>3 DEF TermIndex
  <2> QED BY <1>1, <2>1
<1> QED BY <1>2, <1>3

LEMMA UntilKeepsLongest ==
  ASSUME NEW C, NEW str \in Seq(C), NEW t \in Seq(C), NEW c \in C, NEW k \in Nat,
         k < Len(str), Longest(str, k, t), StartsOnce(str)
  PROVE  Longest(str, UntilIndex(str, k, c), Append(t, c))
<1>1. Longest(str, MultiIndex(str, k, c), Append(t, c)) BY MultiKeepsLongest
<1>2. \A j \in 1 .. k - 1 : str[1 + k - j] # str[1] BY DEF StartsOnce
<1>3. Shorter(str, k, c) \subseteq {0}
  <2> SUFFICES ASSUME NEW j \in Shorter(str, k, c) PROVE j = 0 OBVIOUS
  <2>1. j \in 0 .. k - 1 /\ \A i \in 1 .. j : str[i] = str[i + k - j] BY DEF Shorter
  <2>2. CASE j # 0
    <3>1. 1 \in 1 .. j BY <2>1, <2>2
    <3>2. str[1] = str[1 + k - j] BY <2>1, <3>1
    <3> QED BY <1>2, <2>1, <2>2, <3>2
  <2> QED BY <2>2
<1>4. CASE c = str[k + 1] BY <1>1, <1>4 DEF MultiIndex, UntilIndex
<1>5. CASE c # str[k + 1]
  <2>1. CASE Shorter(str, k, c) = {}
    <3>1. MultiIndex(str, k, c) = 0 BY <1>5, <2>1 DEF MultiIndex
    <3>2. c # str[1]
      <4>1. k = 0 \/ 0 \in 0 .. k - 1 OBVIOUS
      <4>2. CASE k = 0 BY <1>5, <4>2
      <4>3. CASE 0 \in 0 .. k - 1
        <5>1. c = str[0 + 1] => 0 \in Shorter(str, k, c) BY <4>3 DEF Shorter
        <5> QED BY <2>1, <5>1
      <4> QED BY <4>1, <4>2, <4>3
    <3>3. UntilIndex(str, k, c) = 0 BY <1>5, <3>2 DEF UntilIndex
    <3> QED BY <1>1, <3>1, <3>3
  <2>2. CASE Shorter(str, k, c) # {}
    <3>1. Shorter(str, k, c) = {0} BY <1>3, <2>2
    <3>2. c = str[1] BY <3>1 DEF Shorter
    <3>3. Sets!Max({0}) = 0
      <4>1. 0 \in Nat /\ {0} \subseteq 0 .. 0 /\ {0} # {} OBVIOUS
      <4>2. Sets!Max({0}) \in {0} BY <4>1, GreatestBelow
      <4> QED BY <4>2
    <3>4. MultiIndex(str, k, c) = 1 BY <1>5, <3>1, <3>3 DEF MultiIndex
    <3>5. UntilIndex(str, k, c) = 1 BY <1>5, <3>2 DEF UntilIndex
    <3> QED BY <1>1, <3>4, <3>5
  <2> QED BY <2>1, <2>2
<1> QED BY <1>4, <1>5

-----------------------------------------------------------------------------
(* The searches. *)

\* The targets of which a search never loses the longest match.
Exact(n) == search.call = "findMulti" \/ (n = 1 /\ StartsOnce(search.strs[1]))

InSearch(n) ==
  /\ search.index[n] < Len(search.strs[n]) \/ search.index[n] = 0
  /\ Ending(search.strs[n], search.index[n], heard)
  /\ Exact(n) /\ search.strs[n] # <<>> =>
       Longest(search.strs[n], search.index[n], heard) /\ EndsAt(search.strs[n]) = {}

ReadsForStrings ==
  heard # <<>> => search.strs[1] # <<>> /\ (search.call = "findMulti" => search.strs[2] # <<>>)

Unfound ==
  /\ search.result \in {"none", "gaveup"}
  /\ \A n \in 1 .. 2 : Exact(n) => EndsAt(search.strs[n]) = {}
FoundFirst ==
  /\ search.result = "first" /\ Ending(search.strs[1], Len(search.strs[1]), heard)
  /\ \A n \in 1 .. 2 : Exact(n) => EndsAt(search.strs[n]) \subseteq {Len(heard)}
FoundSecond ==
  /\ search.result = "second" /\ search.call = "findMulti"
  /\ EndsAt(search.strs[1]) = {} /\ EndsAt(search.strs[2]) = {Len(heard)}
Terminated ==
  /\ search.result = "terminated" /\ search.call = "findUntil"
  /\ Ending(search.strs[2], Len(search.strs[2]), heard)
  /\ Exact(1) => EndsAt(search.strs[1]) = {}

Outcome == heard # <<>> => Unfound \/ FoundFirst \/ FoundSecond \/ Terminated

SearchInv == /\ SearchTypeOK /\ ReadsForStrings /\ Outcome
             /\ search.result = "none" => \A n \in 1 .. 2 : InSearch(n)

\* EndsAt of any sequence of bytes.
EndsIn(str, t) == {n \in 0 .. Len(t) : Seqs!IsSuffix(str, SubSeq(t, 1, n))}

LEMMA EndsInAppend ==
  ASSUME NEW C, NEW str \in Seq(C), NEW t \in Seq(C), NEW c \in C
  PROVE  EndsIn(str, Append(t, c))
           = EndsIn(str, t) \cup {n \in {Len(t) + 1} : Ending(str, Len(str), Append(t, c))}
<1>0. PICK r : r = Append(t, c) OBVIOUS
<1>1. /\ r \in Seq(C) /\ Len(r) = Len(t) + 1 /\ r[Len(t) + 1] = c
      /\ \A i \in 1 .. Len(t) : r[i] = t[i]
  BY <1>0
<1>2. ASSUME NEW n \in 0 .. Len(t) PROVE SubSeq(r, 1, n) = SubSeq(t, 1, n)
  <2> DEFINE u == SubSeq(r, 1, n)
             v == SubSeq(t, 1, n)
  <2>1. /\ u \in Seq(C) /\ Len(u) = n /\ \A i \in 1 .. n : u[i] = r[i]
        /\ v \in Seq(C) /\ Len(v) = n /\ \A i \in 1 .. n : v[i] = t[i]
    BY <1>1
  <2> HIDE DEF u, v
  <2>2. \A i \in 1 .. n : i \in 1 .. Len(t) OBVIOUS
  <2>3. \A i \in 1 .. n : r[i] = t[i] BY <1>1, <2>2
  <2>4. \A i \in 1 .. n : u[i] = v[i] BY <2>1, <2>3
  <2>5. u = v BY <2>1, <2>4, SeqEqual
  <2> QED BY <2>5 DEF u, v
<1>3. SubSeq(r, 1, Len(t) + 1) = r BY <1>1
<1>4. Seqs!IsSuffix(str, r) <=> Ending(str, Len(str), r) BY <1>1, SuffixIsEnding
<1>5. \A n : n \in 0 .. Len(r) <=> n \in 0 .. Len(t) \/ n = Len(t) + 1 BY <1>1
<1> QED BY <1>0, <1>2, <1>3, <1>4, <1>5 DEF EndsIn

\* A string that has not been found is found with the byte that completes the
\* longest match.
LEMMA FoundByLongest ==
  ASSUME NEW C, NEW str \in Seq(C), NEW t \in Seq(C), NEW c \in C, NEW k,
         Longest(str, k, Append(t, c)), EndsIn(str, t) = {}
  PROVE  /\ k = Len(str) => EndsIn(str, Append(t, c)) = {Len(Append(t, c))}
         /\ k # Len(str) => EndsIn(str, Append(t, c)) = {}
<1>1. Ending(str, Len(str), Append(t, c)) <=> k = Len(str) BY DEF Longest
<1>2. Len(Append(t, c)) = Len(t) + 1 OBVIOUS
<1> QED BY <1>1, <1>2, EndsInAppend

LEMMA SearchTypes ==
  ASSUME SearchTypeOK
  PROVE  /\ heard \in Seq(Char) /\ Len(heard) \in Nat
         /\ \A n \in 1 .. 2 : /\ search.strs[n] \in Seq(Char)
                             /\ Len(search.strs[n]) \in 0 .. MaxString
                             /\ search.index[n] \in 0 .. MaxString
<1>1. \A str \in Strings : str \in Seq(Char) /\ Len(str) \in 0 .. MaxString
  BY StreamAssumption DEF Strings
<1>2. \A n \in 1 .. 2 : search.strs[n] \in Strings /\ search.index[n] \in 0 .. MaxString
  BY DEF SearchTypeOK
<1> QED BY <1>1, <1>2 DEF SearchTypeOK

LEMMA SearchInvInit == SearchInit => SearchInv
<1> SUFFICES ASSUME SearchInit PROVE SearchInv OBVIOUS
<1>1. SearchTypeOK
  <2>1. /\ search \in [call : {"findMulti", "findUntil"}, strs : [1 .. 2 -> Strings],
                       index : {[n \in 1 .. 2 |-> 0]}, result : {"none"}]
        /\ heard = <<>>
    BY DEF SearchInit
  <2>2. [n \in 1 .. 2 |-> 0] \in [1 .. 2 -> 0 .. MaxString] BY StreamAssumption
  <2>3. heard \in Seq(Char) /\ Len(heard) <= MaxHeard BY <2>1, StreamAssumption
  <2> QED BY <2>1, <2>2, <2>3 DEF SearchTypeOK
<1>2. heard = <<>> /\ \A n \in 1 .. 2 : search.index[n] = 0 BY DEF SearchInit
<1>3. ASSUME NEW n \in 1 .. 2 PROVE InSearch(n)
  <2>1. search.strs[n] \in Seq(Char) BY <1>1, SearchTypes
  <2>2. Longest(search.strs[n], 0, heard) BY <1>2, <2>1 DEF Longest, Ending
  <2>3. ASSUME search.strs[n] # <<>> PROVE EndsAt(search.strs[n]) = {}
    <3>1. Len(search.strs[n]) > 0 BY <2>1, <2>3
    <3>2. heard \in Seq(Char) /\ Len(heard) = 0 BY <1>2, StreamAssumption
    <3>3. ~Ending(search.strs[n], Len(search.strs[n]), heard) BY <3>1, <3>2, <2>1 DEF Ending
    <3>4. ~Seqs!IsSuffix(search.strs[n], heard) BY <2>1, <3>2, <3>3, SuffixIsEnding
    <3>5. \A m \in 0 .. Len(heard) : SubSeq(heard, 1, m) = heard BY <1>2, <3>2
    <3> QED BY <3>4, <3>5 DEF EndsAt
  <2> QED BY <1>2, <2>2, <2>3 DEF InSearch, Longest
<1> QED BY <1>1, <1>2, <1>3 DEF SearchInv, ReadsForStrings, Outcome

\* The two steps that read no byte.
LEMMA NothingReadKeeps == SearchInv /\ (FindsEmptyString \/ GivesUp) => SearchInv'
<1> SUFFICES ASSUME SearchInv, FindsEmptyString \/ GivesUp PROVE SearchInv' OBVIOUS
<1>1. PICK res \in {"first", "second", "gaveup"} :
        /\ heard' = heard /\ search' = [search EXCEPT !.result = res]
        /\ search.result = "none" /\ (res = "gaveup" \/ heard = <<>>)
  BY DEF FindsEmptyString, GivesUp
<1>2. SearchTypeOK' BY <1>1 DEF SearchInv, SearchTypeOK
<1>3. /\ search'.call = search.call /\ search'.strs = search.strs /\ search'.result = res
  BY <1>1 DEF SearchInv, SearchTypeOK
<1>4. ReadsForStrings' BY <1>1, <1>3 DEF SearchInv, ReadsForStrings
<1>5. Outcome'
  <2>1. CASE heard = <<>> BY <1>1, <2>1 DEF Outcome
  <2>2. CASE heard # <<>> /\ res = "gaveup"
    <3>1. \A n \in 1 .. 2 : Exact(n)' = Exact(n) /\ EndsAt(search.strs[n])' = EndsAt(search.strs[n])
      BY <1>1, <1>3 DEF Exact, EndsAt
    <3>2. \A n \in 1 .. 2 : Exact(n) => EndsAt(search.strs[n]) = {}
      <4> SUFFICES ASSUME NEW n \in 1 .. 2, Exact(n) PROVE EndsAt(search.strs[n]) = {} OBVIOUS
      <4>1. InSearch(n) BY <1>1 DEF SearchInv
      <4>2. n = 1 \/ n = 2 OBVIOUS
      <4>3. search.strs[n] # <<>> BY <2>2, <4>2 DEF SearchInv, ReadsForStrings, Exact
      <4> QED BY <4>1, <4>3 DEF InSearch
    <3>3. Unfound' BY <1>3, <2>2, <3>1, <3>2 DEF Unfound
    <3> QED BY <3>3 DEF Outcome
  <2> QED BY <1>1, <2>1, <2>2
<1> QED BY <1>2, <1>3, <1>4, <1>5 DEF SearchInv

LEMMA MultiHearsKeeps == ASSUME SearchInv, NEW c \in Char, MultiHears(c) PROVE SearchInv'
<1> DEFINE i(n) == MultiIndex(search.strs[n], search.index[n], c)
<1>1. /\ search.call = "findMulti" /\ search.result = "none" /\ heard' = Append(heard, c)
      /\ Len(heard) < MaxHeard /\ \A n \in 1 .. 2 : search.strs[n] # <<>>
  BY DEF MultiHears, InCall, Reads
<1>2. /\ heard \in Seq(Char) /\ Len(heard) \in Nat
      /\ \A n \in 1 .. 2 : /\ search.strs[n] \in Seq(Char)
                          /\ Len(search.strs[n]) \in 0 .. MaxString
                          /\ search.index[n] \in 0 .. MaxString
  BY SearchTypes DEF SearchInv
<1>3. heard' \in Seq(Char) /\ Len(heard') = Len(heard) + 1 /\ heard' # <<>> BY <1>1, <1>2
<1>4. ASSUME NEW n \in 1 .. 2
      PROVE  /\ Longest(search.strs[n], i(n), heard')
             /\ i(n) = Len(search.strs[n]) => EndsIn(search.strs[n], heard') = {Len(heard')}
             /\ i(n) # Len(search.strs[n]) => EndsIn(search.strs[n], heard') = {}
  <2>1. InSearch(n) /\ search.strs[n] # <<>> /\ Exact(n) BY <1>1 DEF SearchInv, Exact
  <2>2. /\ search.index[n] < Len(search.strs[n])
        /\ Longest(search.strs[n], search.index[n], heard) /\ EndsIn(search.strs[n], heard) = {}
    BY <1>2, <2>1 DEF InSearch, EndsAt, EndsIn
  <2>3. Longest(search.strs[n], i(n), heard') BY <1>1, <1>2, <2>2, MultiKeepsLongest
  <2> HIDE DEF i
  <2> QED BY <1>1, <1>2, <2>2, <2>3, FoundByLongest
<1>5. /\ i(1) \in 0 .. Len(search.strs[1]) /\ i(2) \in 0 .. Len(search.strs[2])
      /\ i(1) \in 0 .. MaxString /\ i(2) \in 0 .. MaxString
  <2> HIDE DEF i
  <2> QED BY <1>2, <1>4, StreamAssumption DEF Longest
<1> DEFINE index == [n \in 1 .. 2 |-> i(n)]
           complete == {n \in 1 .. 2 : index[n] = Len(search.strs[n])}
<1>6. search' = CASE 1 \in complete -> [search EXCEPT !.index[1] = index[1], !.result = "first"]
                  [] complete = {2} -> [search EXCEPT !.index = index, !.result = "second"]
                  [] OTHER -> [search EXCEPT !.index = index]
  BY DEF MultiHears
<1>7. /\ index \in [1 .. 2 -> 0 .. MaxString] /\ index[1] = i(1) /\ index[2] = i(2)
      /\ 1 \in complete <=> i(1) = Len(search.strs[1])
      /\ 2 \in complete <=> i(2) = Len(search.strs[2])
      /\ complete \subseteq {1, 2}
  <2> HIDE DEF i
  <2>1. \A n \in 1 .. 2 : i(n) \in 0 .. MaxString BY <1>5
  <2> QED BY <2>1
<1> HIDE DEF index, complete, i
<1>8. /\ search'.call = search.call /\ search'.strs = search.strs
      /\ search' \in [call : {"findMulti", "findUntil"}, strs : [1 .. 2 -> Strings],
                     index : [1 .. 2 -> 0 .. MaxString],
                     result : {"none", "first", "second", "terminated", "gaveup"}]
  BY <1>6, <1>7 DEF SearchInv, SearchTypeOK
<1>9. SearchTypeOK' BY <1>1, <1>2, <1>3, <1>8, StreamAssumption DEF SearchTypeOK
<1>10. ReadsForStrings' BY <1>1, <1>8 DEF ReadsForStrings
<1>11. \A n \in 1 .. 2 : EndsAt(search.strs[n])' = EndsIn(search.strs[n], heard')
  BY <1>8 DEF EndsAt, EndsIn
<1>12. CASE i(1) = Len(search.strs[1])
  <2>1. search'.result = "first" BY <1>6, <1>7, <1>12 DEF SearchInv, SearchTypeOK
  <2>2. Ending(search.strs[1], Len(search.strs[1]), heard') BY <1>4, <1>12 DEF Longest
  <2>3. \A n \in 1 .. 2 : EndsAt(search.strs[n])' \subseteq {Len(heard')} BY <1>4, <1>11
  <2>4. FoundFirst' BY <1>8, <2>1, <2>2, <2>3 DEF FoundFirst
  <2> QED BY <1>9, <1>10, <2>1, <2>4 DEF SearchInv, Outcome
<1>13. CASE i(1) # Len(search.strs[1]) /\ i(2) = Len(search.strs[2])
  <2>1. complete = {2} /\ 1 \notin complete BY <1>7, <1>13
  <2>2. search'.result = "second" BY <1>6, <2>1 DEF SearchInv, SearchTypeOK
  <2>3. FoundSecond' BY <1>1, <1>4, <1>8, <1>11, <1>13, <2>2 DEF FoundSecond
  <2> QED BY <1>9, <1>10, <2>2, <2>3 DEF SearchInv, Outcome
<1>14. CASE i(1) # Len(search.strs[1]) /\ i(2) # Len(search.strs[2])
  <2>1. complete # {2} /\ 1 \notin complete BY <1>7, <1>14
  <2>2. search'.result = "none" /\ search'.index = index
    BY <1>1, <1>6, <2>1 DEF SearchInv, SearchTypeOK
  <2>3. \A n \in 1 .. 2 : EndsAt(search.strs[n])' = {} BY <1>4, <1>11, <1>14
  <2>4. Unfound' BY <2>2, <2>3 DEF Unfound
  <2>5. ASSUME NEW n \in 1 .. 2 PROVE InSearch(n)'
    <3>1. Longest(search.strs[n], index[n], heard') /\ index[n] < Len(search.strs[n])
      BY <1>2, <1>4, <1>5, <1>7, <1>14
    <3> QED BY <1>8, <2>2, <2>3, <3>1 DEF InSearch, Longest
  <2> QED BY <1>9, <1>10, <2>4, <2>5 DEF SearchInv, Outcome
<1> QED BY <1>12, <1>13, <1>14

LEMMA UntilHearsKeeps == ASSUME SearchInv, NEW c \in Char, UntilHears(c) PROVE SearchInv'
<1> DEFINE i == UntilIndex(search.strs[1], search.index[1], c)
           j == TermIndex(search.strs[2], search.index[2], c)
<1>1. /\ search.call = "findUntil" /\ search.result = "none" /\ heard' = Append(heard, c)
      /\ Len(heard) < MaxHeard /\ search.strs[1] # <<>>
  BY DEF UntilHears, InCall, Reads
<1>2. /\ heard \in Seq(Char) /\ Len(heard) \in Nat
      /\ \A n \in 1 .. 2 : /\ search.strs[n] \in Seq(Char)
                          /\ Len(search.strs[n]) \in 0 .. MaxString
                          /\ search.index[n] \in 0 .. MaxString
  BY SearchTypes DEF SearchInv
<1>3. heard' \in Seq(Char) /\ Len(heard') = Len(heard) + 1 /\ heard' # <<>> BY <1>1, <1>2
<1>4. InSearch(1) /\ InSearch(2) BY <1>1 DEF SearchInv
<1>5. Len(search.strs[1]) > 0 BY <1>1, <1>2
<1>6. i \in 0 .. Len(search.strs[1]) /\ Ending(search.strs[1], i, heard')
  <2>1. search.index[1] < Len(search.strs[1]) /\ Ending(search.strs[1], search.index[1], heard)
    BY <1>4, <1>5 DEF InSearch
  <2> QED BY <1>1, <1>2, <2>1, UntilKeepsEnding
<1>7. j \in 0 .. Len(search.strs[2]) /\ Ending(search.strs[2], j, heard')
  <2>1. /\ search.index[2] < Len(search.strs[2]) \/ search.index[2] = 0
        /\ Ending(search.strs[2], search.index[2], heard)
    BY <1>4 DEF InSearch
  <2> QED BY <1>1, <1>2, <2>1, TermKeepsEnding
<1>8. ASSUME Exact(1)
      PROVE  /\ Longest(search.strs[1], i, heard')
             /\ i = Len(search.strs[1]) => EndsIn(search.strs[1], heard') = {Len(heard')}
             /\ i # Len(search.strs[1]) => EndsIn(search.strs[1], heard') = {}
  <2>1. /\ search.index[1] < Len(search.strs[1]) /\ StartsOnce(search.strs[1])
        /\ Longest(search.strs[1], search.index[1], heard) /\ EndsIn(search.strs[1], heard) = {}
    BY <1>1, <1>2, <1>4, <1>5, <1>8 DEF InSearch, EndsAt, EndsIn, Exact
  <2>2. Longest(search.strs[1], i, heard') BY <1>1, <1>2, <2>1, UntilKeepsLongest
  <2> HIDE DEF i
  <2> QED BY <1>1, <1>2, <2>1, <2>2, FoundByLongest
<1>9. search' = CASE i = Len(search.strs[1]) ->
                       [search EXCEPT !.index[1] = i, !.result = "first"]
                  [] i < Len(search.strs[1]) /\ j > 0 /\ j = Len(search.strs[2]) ->
                       [search EXCEPT !.index = <<i, j>>, !.result = "terminated"]
                  [] OTHER -> [search EXCEPT !.index = <<i, j>>]
  BY DEF UntilHears
<1> HIDE DEF i, j
<1>10. i \in 0 .. MaxString /\ j \in 0 .. MaxString BY <1>2, <1>6, <1>7, StreamAssumption
<1>11. <<i, j>> \in [1 .. 2 -> 0 .. MaxString]
  <2>1. PICK f : f = [n \in 1 .. 2 |-> IF n = 1 THEN i ELSE j] OBVIOUS
  <2>2. f = <<i, j>> BY <2>1
  <2>3. f \in [1 .. 2 -> 0 .. MaxString] BY <1>10, <2>1
  <2> QED BY <2>2, <2>3
<1>12. /\ search'.call = search.call /\ search'.strs = search.strs
       /\ search' \in [call : {"findMulti", "findUntil"}, strs : [1 .. 2 -> Strings],
                      index : [1 .. 2 -> 0 .. MaxString],
                      result : {"none", "first", "second", "terminated", "gaveup"}]
  BY <1>9, <1>10, <1>11 DEF SearchInv, SearchTypeOK
<1>13. SearchTypeOK' BY <1>1, <1>2, <1>3, <1>12, StreamAssumption DEF SearchTypeOK
<1>14. ReadsForStrings' BY <1>1, <1>12 DEF ReadsForStrings
<1>15. /\ Exact(1)' <=> Exact(1)
       /\ ~Exact(2)'
       /\ EndsAt(search.strs[1])' = EndsIn(search.strs[1], heard')
  BY <1>1, <1>12 DEF Exact, EndsAt, EndsIn
<1>16. \A n \in 1 .. 2 : n = 1 \/ n = 2 OBVIOUS
<1>17. CASE i = Len(search.strs[1])
  <2>1. search'.result = "first" BY <1>9, <1>17 DEF SearchInv, SearchTypeOK
  <2>2. Ending(search.strs[1], Len(search.strs[1]), heard') BY <1>6, <1>17
  <2>3. \A n \in 1 .. 2 : Exact(n)' => EndsAt(search.strs[n])' \subseteq {Len(heard')}
    BY <1>8, <1>15, <1>16, <1>17
  <2>4. FoundFirst' BY <1>12, <2>1, <2>2, <2>3 DEF FoundFirst
  <2> QED BY <1>13, <1>14, <2>1, <2>4 DEF SearchInv, Outcome
<1>18. CASE i # Len(search.strs[1]) /\ j > 0 /\ j = Len(search.strs[2])
  <2>1. i < Len(search.strs[1]) BY <1>6, <1>18, <1>2
  <2>2. search'.result = "terminated" BY <1>9, <1>18, <2>1 DEF SearchInv, SearchTypeOK
  <2>3. Ending(search.strs[2], Len(search.strs[2]), heard') BY <1>7, <1>18
  <2>4. Exact(1)' => EndsAt(search.strs[1])' = {} BY <1>8, <1>15, <1>18
  <2>5. Terminated' BY <1>1, <1>12, <2>2, <2>3, <2>4 DEF Terminated
  <2> QED BY <1>13, <1>14, <2>2, <2>5 DEF SearchInv, Outcome
<1>19. CASE i # Len(search.strs[1]) /\ ~(j > 0 /\ j = Len(search.strs[2]))
  <2>1. i < Len(search.strs[1]) BY <1>6, <1>19, <1>2
  <2>2. search'.result = "none" /\ search'.index = <<i, j>>
    BY <1>1, <1>9, <1>19 DEF SearchInv, SearchTypeOK
  <2>3. search'.index[1] = i /\ search'.index[2] = j BY <2>2
  <2>4. \A n \in 1 .. 2 : Exact(n)' => EndsAt(search.strs[n])' = {} BY <1>8, <1>15, <1>16, <1>19
  <2>5. Unfound' BY <2>2, <2>4 DEF Unfound
  <2>6. InSearch(1)'
    BY <1>6, <1>8, <1>12, <1>15, <2>1, <2>3, <2>4 DEF InSearch
  <2>7. InSearch(2)'
    <3>1. j < Len(search.strs[2]) \/ j = 0 BY <1>2, <1>7, <1>19
    <3> QED BY <1>7, <1>12, <1>15, <2>3, <3>1 DEF InSearch
  <2> QED BY <1>13, <1>14, <1>16, <2>5, <2>6, <2>7 DEF SearchInv, Outcome
<1> QED BY <1>17, <1>18, <1>19

LEMMA SearchInvNext == SearchInv /\ [SearchNext]_searchVars => SearchInv'
<1> SUFFICES ASSUME SearchInv, [SearchNext]_searchVars PROVE SearchInv' OBVIOUS
<1>1. CASE FindsEmptyString \/ GivesUp BY <1>1, NothingReadKeeps
<1>2. ASSUME NEW c \in Char, MultiHears(c) PROVE SearchInv' BY <1>2, MultiHearsKeeps
<1>3. ASSUME NEW c \in Char, UntilHears(c) PROVE SearchInv' BY <1>3, UntilHearsKeeps
<1>4. CASE UNCHANGED searchVars
  BY <1>4
  DEF searchVars, SearchInv, SearchTypeOK, ReadsForStrings, Outcome, Unfound, FoundFirst,
      FoundSecond, Terminated, InSearch, Exact, EndsAt
<1> QED BY <1>1, <1>2, <1>3, <1>4 DEF SearchNext

\* Between two bytes a search has the longest match of every target it is
\* exact about, and what it has reported is right.
THEOREM SearchInvariant == SearchSpec => []SearchInv
<1> QED BY SearchInvInit, SearchInvNext, PTL DEF SearchSpec

\* No index runs past its string.
THEOREM SearchTypeCorrect == SearchSpec => []SearchTypeOK
<1>1. SearchInv => SearchTypeOK BY DEF SearchInv
<1> QED BY <1>1, SearchInvariant, PTL

\* findMulti returns at the byte that completes the first occurrence of a
\* target, however the targets overlap themselves (Stream.cpp:274).
THEOREM MultiFindsFirst == SearchSpec => []MultiFindsTheFirst
<1>1. SearchInv => MultiFindsTheFirst
  <2> SUFFICES ASSUME SearchInv, search.call = "findMulti", heard # <<>>
               PROVE  MultiFindsTheFirst
    BY DEF MultiFindsTheFirst
  <2> DEFINE ended == {n \in 1 .. 2 : Occurs(search.strs[n])}
  <2>1. \A n \in 1 .. 2 : Exact(n) BY DEF Exact
  <2>2. \A n \in 1 .. 2 : n \in ended <=> EndsAt(search.strs[n]) # {} BY DEF Occurs
  <2>3. ended \subseteq {1, 2} OBVIOUS
  <2> HIDE DEF ended
  <2>4. Unfound \/ FoundFirst \/ FoundSecond \/ Terminated BY DEF SearchInv, Outcome
  <2>5. /\ search.result \in {"none", "gaveup"} <=> ended = {}
        /\ \A n \in ended : EndsAt(search.strs[n]) = {Len(heard)}
        /\ search.result = "first" <=> 1 \in ended
        /\ search.result = "second" <=> ended = {2}
    <3>1. CASE Unfound BY <3>1, <2>1, <2>2, <2>3 DEF Unfound
    <3>2. CASE FoundFirst
      <4>1. EndsAt(search.strs[1]) # {}
        <5>1. heard \in Seq(Char) /\ search.strs[1] \in Seq(Char) BY SearchTypes DEF SearchInv
        <5>2. Seqs!IsSuffix(search.strs[1], heard) BY <3>2, <5>1, SuffixIsEnding DEF FoundFirst
        <5>3. SubSeq(heard, 1, Len(heard)) = heard /\ Len(heard) \in 0 .. Len(heard) BY <5>1
        <5> QED BY <5>2, <5>3 DEF EndsAt
      <4>2. \A n \in 1 .. 2 : EndsAt(search.strs[n]) \subseteq {Len(heard)}
        BY <2>1, <3>2 DEF FoundFirst
      <4>3. 1 \in ended BY <2>2, <4>1
      <4> QED BY <2>2, <2>3, <3>2, <4>2, <4>3 DEF FoundFirst
    <3>3. CASE FoundSecond
      <4>1. 1 \notin ended /\ 2 \in ended BY <2>2, <3>3 DEF FoundSecond
      <4>2. ended = {2} BY <2>3, <4>1
      <4> QED BY <3>3, <4>2 DEF FoundSecond
    <3>4. CASE Terminated BY <3>4 DEF Terminated
    <3> QED BY <2>4, <3>1, <3>2, <3>3, <3>4
  <2> QED BY <2>5 DEF MultiFindsTheFirst, ended
<1> QED BY <1>1, SearchInvariant, PTL

\* find and findUntil report a string only where it ends, and read over none
\* whose first byte does not come again in it (Stream.cpp:87).
THEOREM FindMissesOnlyThose == SearchSpec => []FindMissesOnlyRepeats
<1>1. SearchInv => FindMissesOnlyRepeats
  <2> SUFFICES ASSUME SearchInv, search.call = "findUntil", heard # <<>>
               PROVE  FindMissesOnlyRepeats
    BY DEF FindMissesOnlyRepeats
  <2>1. Unfound \/ FoundFirst \/ FoundSecond \/ Terminated BY DEF SearchInv, Outcome
  <2>2. /\ heard \in Seq(Char) /\ search.strs[1] \in Seq(Char) /\ search.strs[2] \in Seq(Char)
    BY SearchTypes DEF SearchInv
  <2>3. search.result = "first" => Seqs!IsSuffix(search.strs[1], heard)
    BY <2>1, <2>2, SuffixIsEnding DEF Unfound, FoundFirst, FoundSecond, Terminated
  <2>4. search.result = "terminated" => Seqs!IsSuffix(search.strs[2], heard)
    BY <2>1, <2>2, SuffixIsEnding DEF Unfound, FoundFirst, FoundSecond, Terminated
  <2>5. ASSUME StartsOnce(search.strs[1]), Occurs(search.strs[1])
        PROVE  search.result = "first" /\ EndsAt(search.strs[1]) = {Len(heard)}
    <3>1. Exact(1) BY <2>5 DEF Exact
    <3>2. EndsAt(search.strs[1]) # {} BY <2>5 DEF Occurs
    <3>3. FoundFirst BY <2>1, <3>1, <3>2 DEF Unfound, FoundSecond, Terminated
    <3> QED BY <3>1, <3>2, <3>3 DEF FoundFirst
  <2> QED BY <2>3, <2>4, <2>5 DEF FindMissesOnlyRepeats
<1> QED BY <1>1, SearchInvariant, PTL
=============================================================================
