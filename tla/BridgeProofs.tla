---------------------------- MODULE BridgeProofs ----------------------------
(***************************************************************************)
(* Proofs about the two ports as main.cpp connects them, for every size of *)
(* their FIFOs, every set of bytes and however many bytes the lines and    *)
(* the main loop deliver.                                                  *)
(***************************************************************************)
EXTENDS Bridge, UarteLemmas

(***************************************************************************)
(* Uart's steps, as Port0 and Port1, in the terms of Uarte.                *)
(***************************************************************************)

LEMMA Port0Ops ==
  /\ Port0!Positions = Positions /\ Port0!RxType = RxType /\ Port0!TxType = TxType
  /\ \A f : Port0!Length(f) = Length(f) /\ (Port0!IsFull(f) <=> IsFull(f))
  /\ \A t : /\ (Port0!TxInProgress(t) <=> TxInProgress(t))
            /\ Port0!TxCopy(t) = TxCopy(t) /\ Port0!TxStarted(t) = TxStarted(t)
            /\ Port0!TxNext(Port0!TxCompleted(t)) = TxNext(TxCompleted(t))
            /\ Port0!HwSent(t) = HwSent(t)
  /\ \A t, b : Port0!StoreKept(t, b) = StoreKept(t, b)
  /\ \A p : Port0!Next1(p) = Next1(p)
  /\ \A r, b : Port0!HwReceive(r, b) = HwReceive(r, b)
BY DEF Port0!Positions, Positions, Port0!RxType, RxType, Port0!TxType, TxType,
       Port0!Slots, Slots, Port0!Length, Length, Port0!Distance, Distance,
       Port0!IsFull, IsFull, Port0!TxInProgress, TxInProgress, Port0!TxCopy, TxCopy,
       Port0!PeekAt, PeekAt, Port0!Slot, Slot, Port0!TxStarted, TxStarted,
       Port0!TxNext, TxNext, Port0!TxCompleted, TxCompleted, Port0!TxRequest, TxRequest,
       Port0!TxPop, TxPop, Port0!Advance, Advance, Port0!HwSent, HwSent,
       Port0!StoreKept, StoreKept, Port0!Store, Store, Port0!Next1, Next1,
       Port0!HwReceive, HwReceive

LEMMA Port0Rx ==
  \A r : /\ Port0!RxRearmed(Port0!RxStored(Port0!RxCompleted(r)))
              = RxRearmed(RxStored(RxCompleted(r)))
         /\ Port0!RxAborted(r) = RxAborted(r)
BY DEF Port0!RxRearmed, RxRearmed, Port0!RxStored, RxStored, Port0!RxCompleted,
       RxCompleted, Port0!RxRequest, RxRequest, Port0!RxBusy, RxBusy, Port0!IsFull, IsFull,
       Port0!Length, Length, Port0!Distance, Distance, Port0!PutKept, PutKept,
       Port0!Publish, Publish, Port0!StoreKept, StoreKept, Port0!Store, Store,
       Port0!Slot, Slot, Port0!Next1, Next1, Port0!RxAborted, RxAborted

LEMMA Port1Ops ==
  /\ \A t : /\ Port1!TxNext(Port1!TxCompleted(t)) = TxNext(TxCompleted(t))
            /\ Port1!HwSent(t) = HwSent(t)
  /\ \A r, b : Port1!HwReceive(r, b) = HwReceive(r, b)
BY DEF Port1!Length, Length, Port1!Distance, Distance, Port1!TxInProgress, TxInProgress,
       Port1!TxCopy, TxCopy, Port1!PeekAt, PeekAt, Port1!Slot, Slot,
       Port1!TxStarted, TxStarted, Port1!TxNext, TxNext, Port1!TxCompleted, TxCompleted,
       Port1!TxRequest, TxRequest, Port1!TxPop, TxPop, Port1!Advance, Advance,
       Port1!Next1, Next1, Port1!HwSent, HwSent, Port1!HwReceive, HwReceive

LEMMA Port1Rx ==
  \A r : /\ Port1!RxRearmed(Port1!RxStored(Port1!RxCompleted(r)))
              = RxRearmed(RxStored(RxCompleted(r)))
         /\ Port1!RxAborted(r) = RxAborted(r)
BY DEF Port1!RxRearmed, RxRearmed, Port1!RxStored, RxStored, Port1!RxCompleted,
       RxCompleted, Port1!RxRequest, RxRequest, Port1!RxBusy, RxBusy, Port1!IsFull, IsFull,
       Port1!Length, Length, Port1!Distance, Distance, Port1!PutKept, PutKept,
       Port1!Publish, Publish, Port1!StoreKept, StoreKept, Port1!Store, Store,
       Port1!Slot, Slot, Port1!Next1, Next1, Port1!RxAborted, RxAborted

(***************************************************************************)
(* The inductive invariant.                                                *)
(***************************************************************************)

\* Either the one request is outstanding, the receiver works on it or its
\* interrupt is pending, and there is room; or the FIFO is full and the
\* receiver stopped.
Receiving(r) ==
  /\ r.sec = 0 /\ ~r.short /\ ~r.error
  /\ r.len = 1 => Length(r) < Size /\ ~r.ovf /\ (r.run \/ r.endrx) /\ ~(r.run /\ r.endrx)
  /\ r.len = 0 => Length(r) = Size /\ ~r.run /\ ~r.endrx

\* What NoneStranded says of a port that only interrupt handlers write to.
Sending(t) == /\ Length(t) > 0 => TxInProgress(t)
              /\ TxInProgress(t) => t.run \/ t.endtx

\* Nothing came before the callback, so nothing waits.
Quiet(i, r) == early[i] = 0 => Length(r) = 0 /\ (~TakesCallback(i) => ~r.endrx)

FwdRec == [came : [Slots -> Byte], behind : BOOLEAN, kept : BOOLEAN]
FwdType == [0 .. 1 -> FwdRec]

\* Every waiting byte is the one that came for its slot, and if it is in slot 0
\* it is the next to go; or it is in slot 0 and known to be overwritten.
Carried(f, t) ==
  \A k \in 0 .. Length(t) - 1 :
    \/ Slot(t.rd + k) = 0 /\ f.behind
    \/ t.buf[Slot(t.rd + k)] = f.came[Slot(t.rd + k)] /\ (Slot(t.rd + k) = 0 => k = 0)

Carries(f, t) == f.kept /\ Length(t) <= Size /\ Carried(f, t)

\* What port i passes on waits unchanged in t, while it is watched.
Faithful(i, t) == Watched(i) => Carries(fwd[i], t)

\* The main loop writes only what the bound leaves, and while UART0 is watched
\* it has not begun.
PutsSpent == /\ left.puts <= MaxPuts
             /\ th.pc # "idle" => left.puts # MaxPuts

BridgeInv ==
  /\ TypeOK /\ up
  /\ Receiving(rx0) /\ Receiving(rx1)
  /\ Port0!NoByteStranded /\ Sending(tx1) /\ Length(tx1) <= Size
  /\ Quiet(0, rx0) /\ Quiet(1, rx1)
  /\ Faithful(0, tx1) /\ Faithful(1, tx0) /\ PutsSpent /\ TakenByteLostOnlyToRival

-----------------------------------------------------------------------------
(* One receiving side. *)

LEMMA ReceiveKeeps ==
  ASSUME NEW r \in RxType, Receiving(r), r.run, NEW b \in Byte
  PROVE  LET q == HwReceive(r, b) IN
         q \in RxType /\ Receiving(q) /\ Length(q) = Length(r) /\ q.endrx
<1> DEFINE q == HwReceive(r, b)
<1>1. /\ q \in RxType /\ q.rd = r.rd /\ q.wr = r.wr /\ q.len = r.len /\ q.sec = r.sec
      /\ q.ovf = r.ovf /\ q.run = r.short /\ q.short = r.short /\ q.error = r.error
      /\ q.endrx
  BY ReceiveOps
<1>2. r.len = 1 BY DEF RxType, Receiving
<1> HIDE DEF q
<1>3. Length(q) = Length(r) BY <1>1 DEF Length
<1>4. Receiving(q) BY <1>1, <1>2, <1>3 DEF Receiving
<1> QED BY <1>1, <1>3, <1>4 DEF q

\* RX_DONE: the byte has a slot.
LEMMA StoreKeeps ==
  ASSUME NEW r \in RxType, Receiving(r), r.endrx, r.len = 1
  PROVE  LET s == RxStored(RxCompleted(r)) IN
         /\ s \in RxType /\ Length(s) = Length(r) + 1 /\ Length(r) < Size
         /\ s.rd = r.rd /\ s.len = 0 /\ s.sec = 0 /\ ~s.ovf /\ ~s.run /\ ~s.short
         /\ ~s.error /\ ~s.endrx
<1> DEFINE c == RxCompleted(r)
           s == RxStored(c)
<1>1. /\ r.sec = 0 /\ ~r.short /\ ~r.error /\ ~r.ovf /\ ~r.run
      /\ Length(r) < Size
  BY DEF Receiving
<1>2. /\ c \in RxType /\ c.rd = r.rd /\ c.wr = r.wr /\ c.len = 0 /\ c.sec = 0
      /\ ~c.ovf /\ ~c.run /\ ~c.error /\ ~c.endrx /\ ~c.short
  BY <1>1, CompletedOps
<1> HIDE DEF c
<1>3. Length(c) = Length(r) BY <1>2 DEF Length
<1>4. /\ s \in RxType /\ s.rd = c.rd /\ Length(s) = Length(r) + 1
      /\ s.len = 0 /\ s.sec = 0 /\ ~s.ovf /\ ~s.run /\ ~s.short /\ ~s.error /\ ~s.endrx
  BY <1>1, <1>2, <1>3, StoredOps
<1> HIDE DEF s
<1>5. /\ s \in RxType /\ Length(s) = Length(r) + 1 /\ Length(r) < Size
      /\ s.rd = r.rd /\ s.len = 0 /\ s.sec = 0 /\ ~s.ovf /\ ~s.run /\ ~s.short
      /\ ~s.error /\ ~s.endrx
  BY <1>1, <1>2, <1>4
<1> QED BY <1>5 DEF s, c

\* A side that has just given up its request asks again, or is full.
LEMMA RearmKeeps ==
  ASSUME NEW s \in RxType, Length(s) <= Size, s.len = 0, s.sec = 0, ~s.ovf, ~s.run,
         ~s.short, ~s.error, ~s.endrx
  PROVE  LET q == RxRearmed(s) IN
         q \in RxType /\ Receiving(q) /\ Length(q) = Length(s) /\ ~q.endrx
<1> DEFINE q == RxRearmed(s)
<1>0. Length(s) \in Nat /\ Size \in Nat BY RxLength, Sizes
<1>1. q \in RxType /\ q.rd = s.rd /\ q.wr = s.wr /\ ~q.error BY RearmedOps
<1>2. Length(q) = Length(s)
  <2> HIDE DEF q
  <2> QED BY <1>1 DEF Length
<1>3. CASE Length(s) >= Size
  <2>1. q.len = 0 /\ q.sec = 0 /\ ~q.run /\ ~q.endrx /\ ~q.short BY <1>3, RearmedOps
  <2>2. Length(s) = Size BY <1>0, <1>3
  <2> HIDE DEF q
  <2>3. Receiving(q) BY <1>1, <1>2, <2>1, <2>2 DEF Receiving
  <2>4. q \in RxType /\ Receiving(q) /\ Length(q) = Length(s) /\ ~q.endrx
    BY <1>1, <1>2, <2>1, <2>3
  <2> QED BY <2>4 DEF q
<1>4. CASE Length(s) < Size
  <2>1. q = RxRequest(s) BY <1>4, RearmedOps
  <2>2. q.len = 1 /\ q.sec = 0 /\ q.run /\ ~q.endrx /\ ~q.short /\ ~q.ovf
    BY <2>1, RequestOps
  <2> HIDE DEF q
  <2>3. Receiving(q) BY <1>1, <1>2, <1>4, <2>2 DEF Receiving
  <2>4. q \in RxType /\ Receiving(q) /\ Length(q) = Length(s) /\ ~q.endrx
    BY <1>1, <1>2, <2>2, <2>3
  <2> QED BY <2>4 DEF q
<1> QED BY <1>0, <1>3, <1>4

\* Without a callback the FIFO gains the byte.
LEMMA IrqByteKeeps ==
  ASSUME NEW r \in RxType, Receiving(r), r.endrx, r.len = 1
  PROVE  LET q == RxRearmed(RxStored(RxCompleted(r))) IN
         q \in RxType /\ Receiving(q)
<1> DEFINE s == RxStored(RxCompleted(r))
<1>1. /\ s \in RxType /\ Length(s) = Length(r) + 1 /\ Length(r) < Size
      /\ s.len = 0 /\ s.sec = 0 /\ ~s.ovf /\ ~s.run /\ ~s.short /\ ~s.error /\ ~s.endrx
  BY StoreKeeps
<1>2. Length(s) <= Size
  <2> HIDE DEF s
  <2> QED BY <1>1, RxLength, Sizes
<1> HIDE DEF s
<1>3. RxRearmed(s) \in RxType /\ Receiving(RxRearmed(s)) BY <1>1, <1>2, RearmKeeps
<1> QED BY <1>3 DEF s

\* With a callback it gains the byte and loses its oldest one.
LEMMA CallbackKeeps ==
  ASSUME NEW r \in RxType, Receiving(r), r.endrx, r.len = 1
  PROVE  LET q == RxRearmed(GetFromIrq(RxStored(RxCompleted(r)))) IN
         q \in RxType /\ Receiving(q) /\ Length(q) = Length(r) /\ ~q.endrx
<1> DEFINE s == RxStored(RxCompleted(r))
           g == GetFromIrq(s)
<1>1. /\ s \in RxType /\ Length(s) = Length(r) + 1 /\ Length(r) < Size
      /\ s.len = 0 /\ s.sec = 0 /\ ~s.ovf /\ ~s.run /\ ~s.short /\ ~s.error /\ ~s.endrx
  BY StoreKeeps
<1>2. g = Advance(s)
  <2> HIDE DEF s
  <2> QED BY <1>1 DEF GetFromIrq
<1>3. /\ g \in RxType /\ g.rd = Next1(s.rd) /\ g.wr = s.wr
      /\ g.len = 0 /\ g.sec = 0 /\ ~g.ovf /\ ~g.run /\ ~g.short /\ ~g.error /\ ~g.endrx
  <2> HIDE DEF s, g
  <2>1. Next1(s.rd) \in Positions BY <1>1, RxLength, NextCases
  <2> QED BY <1>1, <1>2, <2>1 DEF Advance, RxType
<1>4. Length(g) = Length(r)
  <2> HIDE DEF s, g
  <2>1. Length(r) \in Nat BY RxLength
  <2>2. Distance(s.rd, s.wr) = Length(r) + 1 /\ s.rd \in Positions /\ s.wr \in Positions
    BY <1>1, RxLength
  <2>3. Distance(Next1(s.rd), s.wr) = Distance(s.rd, s.wr) - 1
    BY <2>1, <2>2, LengthAfterAdvance
  <2> QED BY <1>3, <2>1, <2>2, <2>3 DEF Length
<1>5. Length(g) <= Size BY <1>1, <1>4, RxLength, Sizes
<1> HIDE DEF g
<1>6. /\ RxRearmed(g) \in RxType /\ Receiving(RxRearmed(g))
      /\ Length(RxRearmed(g)) = Length(g) /\ ~RxRearmed(g).endrx
  BY <1>3, <1>5, RearmKeeps
<1>7. Length(RxRearmed(g)) = Length(r) BY <1>4, <1>6
<1> QED BY <1>6, <1>7 DEF g, s

\* The byte the callback takes; the new one if the FIFO was empty.
LEMMA CallbackByte ==
  ASSUME NEW r \in RxType, Receiving(r), r.endrx, r.len = 1
  PROVE  LET byte == PeekAt(RxStored(RxCompleted(r)), 0) IN
         /\ byte \in Byte /\ r.buf[0] \in Byte
         /\ Length(r) = 0 => byte = r.buf[0]
<1> DEFINE c == RxCompleted(r)
           s == RxStored(c)
<1>1. s \in RxType /\ s.rd = r.rd /\ Length(r) < Size BY StoreKeeps
<1>2. PeekAt(s, 0) \in Byte
  <2> HIDE DEF s
  <2>1. s.rd \in Int BY <1>1, RxLength, Sizes DEF Positions
  <2>2. s.rd + 0 \in Int BY <2>1
  <2> QED BY <1>1, <2>2, SlotInSlots DEF PeekAt, RxType
<1>3. r.buf[0] \in Byte BY ZeroSlot DEF RxType
<1>4. ASSUME Length(r) = 0 PROVE PeekAt(s, 0) = r.buf[0]
  <2>1. r.rd = r.wr
    <3>1. Distance(r.rd, r.wr) = 0 /\ r.rd \in Positions /\ r.wr \in Positions
      BY <1>4, RxLength
    <3>2. IF r.wr >= r.rd THEN r.wr - r.rd = 0 ELSE r.wr - r.rd + PosMod = 0
      BY <3>1, DistanceCases
    <3> QED BY <3>1, <3>2, Sizes DEF Positions
  <2>2. c \in RxType /\ c.rd = r.rd /\ c.wr = r.wr /\ c.buf = r.buf
    BY DEF RxType, RxCompleted
  <2>3. s = PutKept(c, c.buf[0])
    <3> HIDE DEF c
    <3>1. Length(c) = 0 BY <1>4, <2>2 DEF Length
    <3> QED BY <3>1, Sizes DEF RxStored, IsFull
  <2>4. Slot(c.wr) \in Slots
    <3> HIDE DEF c
    <3>1. c.wr \in Int BY <2>2, RxLength, Sizes DEF Positions
    <3> QED BY <3>1, SlotInSlots
  <2>5. s.buf[Slot(c.wr)] = c.buf[0]
    <3> HIDE DEF c
    <3> QED BY <2>2, <2>3, <2>4 DEF PutKept, Publish, StoreKept, Store, RxType
  <2>6. r.rd + 0 = r.wr BY <2>1, RxLength, Sizes DEF Positions
  <2>7. PeekAt(s, 0) = s.buf[Slot(r.wr)]
    <3> HIDE DEF s
    <3> QED BY <1>1, <2>6 DEF PeekAt
  <2> HIDE DEF s, c
  <2> QED BY <2>2, <2>5, <2>7
<1> QED BY <1>2, <1>3, <1>4

-----------------------------------------------------------------------------
(* One sending side. *)

LEMMA PutKeptOps ==
  ASSUME NEW t \in TxType, NEW b \in Byte
  PROVE  LET u == PutKept(t, b) IN
         /\ u \in TxType /\ u.rd = t.rd /\ u.wr = Next1(t.wr)
         /\ u.len = t.len /\ u.run = t.run /\ u.endtx = t.endtx
         /\ Length(t) < Size => Length(u) = Length(t) + 1
<1> DEFINE k == StoreKept(t, b)
           u == PutKept(t, b)
<1>1. /\ k \in TxType /\ k.len = t.len /\ k.run = t.run /\ k.endtx = t.endtx
      /\ k.rd = t.rd /\ k.wr = t.wr
  BY StoreOps
<1>2. u = [k EXCEPT !.wr = Next1(@)] BY DEF PutKept, Publish
<1> HIDE DEF k, u
<1>3. Next1(t.wr) \in Positions BY TxLength, NextCases
<1>4. /\ u \in TxType /\ u.rd = t.rd /\ u.wr = Next1(t.wr)
      /\ u.len = t.len /\ u.run = t.run /\ u.endtx = t.endtx
  BY <1>1, <1>2, <1>3 DEF TxType
<1>5. ASSUME Length(t) < Size PROVE Length(u) = Length(t) + 1
  <2>1. Distance(t.rd, Next1(t.wr)) = Distance(t.rd, t.wr) + 1
    BY <1>5, TxLength, LengthAfterPublish
  <2> QED BY <1>4, <2>1 DEF Length
<1> QED BY <1>4, <1>5 DEF u

\* TX_DONE.
LEMMA NextKeeps ==
  ASSUME NEW t \in TxType
  PROVE  LET u == TxNext(TxCompleted(t)) IN
         /\ u \in TxType /\ Sending(u)
         /\ Length(t) <= Size => Length(u) <= Size
<1> DEFINE u == TxNext(TxCompleted(t))
<1>1. /\ u \in TxType /\ u.wr = t.wr
      /\ Length(t) = 0 => u.len = 0 /\ u.rd = t.rd
      /\ Length(t) # 0 => u.len = 1 /\ u.run /\ u.rd = Next1(t.rd)
  BY NextOps
<1> HIDE DEF u
<1>2. /\ Length(t) \in Nat /\ Length(t) = Distance(t.rd, t.wr) /\ t.rd \in Positions
      /\ t.wr \in Positions /\ Size \in Nat
  BY TxLength, Sizes
<1>3. CASE Length(t) = 0
  <2>1. Length(u) = 0 BY <1>1, <1>3 DEF Length
  <2>2. Sending(u) BY <1>1, <1>3, <2>1 DEF Sending, TxInProgress
  <2>3. /\ u \in TxType /\ Sending(u)
        /\ Length(t) <= Size => Length(u) <= Size
    BY <1>1, <1>2, <2>1, <2>2
  <2> QED BY <2>3 DEF u
<1>4. CASE Length(t) # 0
  <2>1. Distance(Next1(t.rd), t.wr) = Distance(t.rd, t.wr) - 1
    BY <1>2, <1>4, LengthAfterAdvance
  <2>2. Length(u) = Length(t) - 1 BY <1>1, <1>2, <1>4, <2>1 DEF Length
  <2>3. Sending(u) BY <1>1, <1>4 DEF Sending, TxInProgress
  <2>4. /\ u \in TxType /\ Sending(u)
        /\ Length(t) <= Size => Length(u) <= Size
    BY <1>1, <1>2, <2>2, <2>3
  <2> QED BY <2>4 DEF u
<1> QED BY <1>3, <1>4

\* nRF5x_UART_put from an interrupt: a transfer goes on or is started; only a
\* FIFO without bytes stays without one, and a full one is left alone.
LEMMA PutFromIrqKeeps ==
  ASSUME NEW t \in TxType, NEW b \in Byte
  PROVE  LET u == PutFromIrq(t, b) IN
         /\ u \in TxType
         /\ t.len # 0 => u.len = t.len /\ u.run = t.run /\ u.endtx = t.endtx
         /\ t.len = 0 => Sending(u)
         /\ Length(t) <= Size => Length(u) <= Size
<1> DEFINE t1 == IF IsFull(t) THEN t ELSE PutKept(t, b)
           p == TxPop(t1)
           u == PutFromIrq(t, b)
<1>0. Length(t) \in Nat /\ Size \in Nat BY TxLength, Sizes
<1>1. /\ t1 \in TxType /\ t1.len = t.len /\ t1.run = t.run /\ t1.endtx = t.endtx
      /\ Length(t) <= Size => Length(t1) <= Size
  <2>1. CASE IsFull(t) BY <2>1
  <2>2. CASE ~IsFull(t)
    <3>1. t1 = PutKept(t, b) BY <2>2
    <3>2. Length(t) < Size BY <1>0, <2>2 DEF IsFull
    <3> HIDE DEF t1
    <3>3. Length(t1) = Length(t) + 1 BY <3>1, <3>2, PutKeptOps
    <3> QED BY <1>0, <3>1, <3>2, <3>3, PutKeptOps
  <2> QED BY <2>1, <2>2
<1>2. u = IF TxInProgress(t1) \/ Length(t1) = 0 THEN t1 ELSE TxRequest(p)
  BY DEF PutFromIrq
<1> HIDE DEF t1
<1>3. CASE TxInProgress(t1) \/ Length(t1) = 0
  <2>1. u = t1 BY <1>2, <1>3
  <2> HIDE DEF u
  <2>2. t.len = 0 => Sending(u) BY <1>1, <1>3, <2>1 DEF Sending, TxInProgress
  <2>3. /\ u \in TxType
        /\ t.len # 0 => u.len = t.len /\ u.run = t.run /\ u.endtx = t.endtx
        /\ t.len = 0 => Sending(u)
        /\ Length(t) <= Size => Length(u) <= Size
    BY <1>1, <2>1, <2>2
  <2> QED BY <2>3 DEF u
<1>4. CASE ~TxInProgress(t1) /\ Length(t1) # 0
  <2>1. t1.len = 0 /\ t.len = 0 BY <1>1, <1>4 DEF TxInProgress
  <2>2. /\ Length(t1) \in Nat /\ Length(t1) = Distance(t1.rd, t1.wr)
        /\ t1.rd \in Positions /\ t1.wr \in Positions
    BY <1>1, TxLength
  <2>3. p \in TxType /\ p.rd = Next1(t1.rd) /\ p.wr = t1.wr /\ p.len = 0
    <3>1. TxCopy(t1) \in TxType /\ TxCopy(t1).len = 0
          /\ TxCopy(t1).rd = t1.rd /\ TxCopy(t1).wr = t1.wr
      BY <1>1, <2>1, CopyOps
    <3>2. Next1(t1.rd) \in Positions BY <2>2, NextCases
    <3> QED BY <3>1, <3>2 DEF TxPop, Advance, TxType
  <2>4. u = TxStarted(p) BY <1>2, <1>4, <2>3 DEF TxRequest, TxInProgress
  <2> HIDE DEF p, u
  <2>5. u \in TxType /\ u.len = 1 /\ u.run /\ u.rd = p.rd /\ u.wr = p.wr
    BY <2>3, <2>4, SentOps
  <2>6. Length(u) = Length(t1) - 1
    <3>1. Distance(Next1(t1.rd), t1.wr) = Distance(t1.rd, t1.wr) - 1
      BY <1>4, <2>2, LengthAfterAdvance
    <3> QED BY <2>2, <2>3, <2>5, <3>1 DEF Length
  <2>7. Sending(u) BY <2>5 DEF Sending, TxInProgress
  <2>8. Length(t) <= Size => Length(u) <= Size BY <1>0, <1>1, <2>2, <2>6
  <2>9. /\ u \in TxType
        /\ t.len # 0 => u.len = t.len /\ u.run = t.run /\ u.endtx = t.endtx
        /\ t.len = 0 => Sending(u)
        /\ Length(t) <= Size => Length(u) <= Size
    BY <2>1, <2>5, <2>7, <2>8
  <2> QED BY <2>9 DEF u
<1> QED BY <1>3, <1>4

-----------------------------------------------------------------------------
(* What each byte becomes on its way through a sending side. *)

\* A byte is queued where nothing waits.
LEMMA QueuedCarries ==
  ASSUME NEW f \in FwdRec, NEW t \in TxType, NEW b \in Byte, Carries(f, t),
         Length(t) < Size,
         NEW g \in FwdRec, g.kept = f.kept, g.came = [f.came EXCEPT ![Slot(t.wr)] = b],
         g.behind = IF Slot(t.wr) = 0 THEN Length(t) > 0 ELSE f.behind
  PROVE  Carries(g, PutKept(t, b))
<1> DEFINE u == PutKept(t, b)
<1>1. /\ u \in TxType /\ u.rd = t.rd /\ u.wr = Next1(t.wr) /\ Length(u) = Length(t) + 1
  BY PutKeptOps
<1>2. /\ Length(t) \in Nat /\ Length(t) = Distance(t.rd, t.wr) /\ Size \in Nat
      /\ t.rd \in Positions /\ t.wr \in Positions /\ t.rd \in Int /\ t.wr \in Int
  BY TxLength, Sizes DEF Positions
<1>3. Slot(t.wr) \in Slots BY <1>2, SlotInSlots
<1>4. u.buf = [t.buf EXCEPT ![Slot(t.wr)] = b]
  BY DEF PutKept, Publish, StoreKept, Store, TxType
<1> HIDE DEF u
<1>5. t.buf \in [Slots -> Byte] /\ f.came \in [Slots -> Byte] BY DEF TxType, FwdRec
<1>6. ASSUME NEW k \in 0 .. Length(u) - 1
      PROVE  \/ Slot(u.rd + k) = 0 /\ g.behind
             \/ /\ u.buf[Slot(u.rd + k)] = g.came[Slot(u.rd + k)]
                /\ Slot(u.rd + k) = 0 => k = 0
  <2>1. CASE k \in 0 .. Length(t) - 1
    <3>1. Slot(t.rd + k) # Slot(t.wr) BY <1>2, <2>1, EndIsFree
    <3>2. \/ Slot(t.rd + k) = 0 /\ f.behind
          \/ t.buf[Slot(t.rd + k)] = f.came[Slot(t.rd + k)] /\ (Slot(t.rd + k) = 0 => k = 0)
      BY <2>1 DEF Carries, Carried
    <3>3. Slot(t.rd + k) \in Slots BY <1>2, SlotInSlots
    <3>4. /\ u.buf[Slot(t.rd + k)] = t.buf[Slot(t.rd + k)]
          /\ g.came[Slot(t.rd + k)] = f.came[Slot(t.rd + k)]
      BY <1>3, <1>4, <1>5, <3>1, <3>3
    <3>5. Slot(t.rd + k) = 0 => g.behind = f.behind BY <3>1
    <3> QED BY <1>1, <3>2, <3>4, <3>5
  <2>2. CASE k = Length(t)
    <3>1. Slot(u.rd + k) = Slot(t.wr) BY <1>1, <1>2, <2>2, SlotOfEnd
    <3>2. u.buf[Slot(t.wr)] = b /\ g.came[Slot(t.wr)] = b BY <1>3, <1>4, <1>5
    <3>3. Slot(t.wr) = 0 => g.behind = (k > 0) BY <2>2
    <3>4. k > 0 \/ k = 0 OBVIOUS
    <3> QED BY <3>1, <3>2, <3>3, <3>4
  <2>3. k \in 0 .. Length(t) - 1 \/ k = Length(t) BY <1>1, <1>2
  <2> QED BY <2>1, <2>2, <2>3
<1>7. Length(u) <= Size BY <1>1, <1>2
<1>8. Carries(g, u) BY <1>6, <1>7 DEF Carries, Carried
<1> QED BY <1>8 DEF u

\* The oldest byte is taken out into slot 0.
LEMMA SendsCarries ==
  ASSUME NEW f \in FwdRec, NEW t \in TxType, Carries(f, t), Length(t) > 0,
         NEW u, u.rd = Next1(t.rd), u.wr = t.wr, u.buf = TxCopy(t).buf
  PROVE  /\ Carries(f, u)
         /\ (Slot(t.rd) = 0 /\ f.behind) \/ u.buf[0] = f.came[Slot(t.rd)]
<1>1. /\ Length(t) \in Nat /\ Length(t) = Distance(t.rd, t.wr) /\ Size \in Nat
      /\ t.rd \in Positions /\ t.wr \in Positions /\ t.rd \in Int
  BY TxLength, Sizes DEF Positions
<1>2. u.buf = [t.buf EXCEPT ![0] = t.buf[Slot(t.rd)]]
  <2>1. t.rd + 0 = t.rd BY <1>1
  <2> QED BY <2>1 DEF TxCopy, PeekAt, TxType
<1>3. t.buf \in [Slots -> Byte] /\ 0 \in Slots BY ZeroSlot DEF TxType
<1>4. Length(u) = Length(t) - 1
  <2>1. Distance(Next1(t.rd), t.wr) = Distance(t.rd, t.wr) - 1
    BY <1>1, LengthAfterAdvance
  <2> QED BY <1>1, <2>1 DEF Length
<1>5. \A k \in 0 .. Length(t) - 1 :
        \/ Slot(t.rd + k) = 0 /\ f.behind
        \/ t.buf[Slot(t.rd + k)] = f.came[Slot(t.rd + k)] /\ (Slot(t.rd + k) = 0 => k = 0)
  BY DEF Carries, Carried
<1>6. (Slot(t.rd) = 0 /\ f.behind) \/ u.buf[0] = f.came[Slot(t.rd)]
  <2>1. 0 \in 0 .. Length(t) - 1 /\ t.rd + 0 = t.rd BY <1>1
  <2>2. (Slot(t.rd) = 0 /\ f.behind) \/ t.buf[Slot(t.rd)] = f.came[Slot(t.rd)]
    BY <1>5, <2>1
  <2> QED BY <1>2, <1>3, <2>2
<1>7. ASSUME NEW k \in 0 .. Length(u) - 1
      PROVE  \/ Slot(u.rd + k) = 0 /\ f.behind
             \/ /\ u.buf[Slot(u.rd + k)] = f.came[Slot(u.rd + k)]
                /\ Slot(u.rd + k) = 0 => k = 0
  <2>1. k \in Nat /\ 1 + k \in 0 .. Length(t) - 1 /\ 1 + k # 0 BY <1>1, <1>4
  <2>2. Slot(u.rd + k) = Slot(t.rd + (1 + k))
    <3>1. Slot(Next1(t.rd) + k) = Slot(t.rd + 1 + k) BY <1>1, <2>1, SlotNext
    <3>2. t.rd + 1 + k = t.rd + (1 + k) BY <1>1, <2>1
    <3> QED BY <3>1, <3>2
  <2> DEFINE s == Slot(t.rd + (1 + k))
  <2>3. s \in Slots BY <1>1, <2>1, SlotInSlots
  <2>4. (s = 0 /\ f.behind) \/ (t.buf[s] = f.came[s] /\ s # 0) BY <1>5, <2>1
  <2> HIDE DEF s
  <2>5. s # 0 => u.buf[s] = t.buf[s] BY <1>2, <1>3, <2>3
  <2>6. Slot(u.rd + k) = s BY <2>2 DEF s
  <2> QED BY <2>4, <2>5, <2>6
<1>8. Length(u) <= Size BY <1>1, <1>4 DEF Carries
<1>9. Carries(f, u) BY <1>7, <1>8 DEF Carries, Carried
<1> QED BY <1>6, <1>9

\* The history notes it.
LEMMA SendsKeeps ==
  ASSUME NEW f \in FwdRec, NEW t \in TxType, Carries(f, t), Length(t) > 0,
         NEW u, u.rd = Next1(t.rd), u.wr = t.wr, u.buf = TxCopy(t).buf
  PROVE  Carries(Sends(f, t, u), u)
<1>1. Carries(f, u) /\ ((Slot(t.rd) = 0 /\ f.behind) \/ u.buf[0] = f.came[Slot(t.rd)])
  BY SendsCarries
<1>2. f.kept BY DEF Carries
<1> DEFINE g == Sends(f, t, u)
<1>3. g.came = f.came /\ g.behind = f.behind /\ g.kept BY <1>1, <1>2 DEF Sends, FwdRec
<1> HIDE DEF g
<1>4. Carried(g, u) BY <1>1, <1>3 DEF Carries, Carried
<1>5. Carries(g, u) BY <1>1, <1>3, <1>4 DEF Carries
<1> QED BY <1>5 DEF g

LEMMA SentType ==
  ASSUME NEW i \in 0 .. 1, NEW f \in FwdRec, NEW t, NEW u
  PROVE  Sent(i, f, t, u) \in FwdRec
<1> DEFINE over == Slot(t.rd) = 0 /\ f.behind
           e == f.kept /\ (over \/ u.buf[0] = f.came[Slot(t.rd)])
<1>1. e \in BOOLEAN OBVIOUS
<1>2. Sends(f, t, u) = [f EXCEPT !.kept = e] BY DEF Sends, FwdRec
<1> HIDE DEF e, over
<1>3. Sends(f, t, u) \in FwdRec BY <1>1, <1>2 DEF FwdRec
<1> QED BY <1>3 DEF Sent

LEMMA QueuedType ==
  ASSUME NEW i \in 0 .. 1, NEW f \in FwdRec, NEW t \in TxType, NEW b \in Byte
  PROVE  LET g == Queued(i, f, b, t) IN
         /\ g \in FwdRec /\ g.kept = f.kept
         /\ IsFull(t) => g = f
         /\ Watched(i) /\ ~IsFull(t) =>
              /\ g.came = [f.came EXCEPT ![Slot(t.wr)] = b]
              /\ g.behind = IF Slot(t.wr) = 0 THEN Length(t) > 0 ELSE f.behind
<1>1. Slot(t.wr) \in Slots
  <2>1. t.wr \in Int BY TxLength, Sizes DEF Positions
  <2> QED BY <2>1, SlotInSlots
<1>2. CASE Watched(i) /\ ~IsFull(t)
  <2> DEFINE e == IF Slot(t.wr) = 0 THEN Length(t) > 0 ELSE f.behind
             c == [f.came EXCEPT ![Slot(t.wr)] = b]
  <2>1. f.behind \in BOOLEAN /\ c \in [Slots -> Byte] BY <1>1 DEF FwdRec
  <2>4. e \in BOOLEAN
    <3>1. (Length(t) > 0) \in BOOLEAN OBVIOUS
    <3> QED BY <2>1, <3>1
  <2>2. Queued(i, f, b, t) = [f EXCEPT !.came = c, !.behind = e]
    BY <1>2 DEF Queued, FwdRec
  <2> HIDE DEF e, c
  <2>3. /\ Queued(i, f, b, t) \in FwdRec /\ Queued(i, f, b, t).kept = f.kept
        /\ Queued(i, f, b, t).came = c /\ Queued(i, f, b, t).behind = e
    BY <2>1, <2>2, <2>4 DEF FwdRec
  <2> QED BY <1>2, <2>3 DEF e, c
<1>3. CASE ~(Watched(i) /\ ~IsFull(t))
  <2>1. Queued(i, f, b, t) = f BY <1>3 DEF Queued
  <2> QED BY <1>3, <2>1
<1> QED BY <1>2, <1>3

\* The interrupt's own transmitter.
LEMMA NextCarries ==
  ASSUME NEW i \in 0 .. 1, NEW f \in FwdRec, NEW t \in TxType,
         Watched(i) => Carries(f, t),
         NEW u, u = t \/ u = TxNext(TxCompleted(t))
  PROVE  Watched(i) => Carries(Sent(i, f, t, u), u)
<1> SUFFICES ASSUME Watched(i) PROVE Carries(Sent(i, f, t, u), u) OBVIOUS
<1>1. CASE u.rd = t.rd /\ u.wr = t.wr /\ u.buf = t.buf
  <2>1. Sent(i, f, t, u) = f BY <1>1 DEF Sent
  <2>2. Carries(f, u) BY <1>1 DEF Carries, Carried, Length
  <2> QED BY <2>1, <2>2
<1>2. CASE Length(t) > 0 /\ u = TxNext(TxCompleted(t))
  <2> DEFINE c == TxCompleted(t)
  <2>1. c \in TxType /\ c.len = 0 /\ c.rd = t.rd /\ c.wr = t.wr /\ c.buf = t.buf
    BY DEF TxType, TxCompleted
  <2>2. u = TxStarted(TxPop(c))
    <3> HIDE DEF c
    <3>1. Length(c) # 0 BY <1>2, <2>1, TxLength DEF Length
    <3>2. TxPop(c).len = 0 BY <2>1 DEF TxPop, Advance, TxCopy, TxType
    <3>3. u = TxNext(c) BY <1>2 DEF c
    <3> QED BY <3>1, <3>2, <3>3 DEF TxNext, TxRequest, TxInProgress
  <2>3. u.rd = Next1(t.rd) /\ u.wr = t.wr /\ u.buf = TxCopy(t).buf
    <3> HIDE DEF c
    <3>1. TxCopy(c).buf = TxCopy(t).buf
      BY <2>1 DEF TxCopy, PeekAt, TxType
    <3>2. /\ TxPop(c).rd = Next1(c.rd) /\ TxPop(c).wr = c.wr
          /\ TxPop(c).buf = TxCopy(c).buf
      BY <2>1 DEF TxPop, Advance, TxCopy, TxType
    <3>3. /\ TxStarted(TxPop(c)).rd = TxPop(c).rd /\ TxStarted(TxPop(c)).wr = TxPop(c).wr
          /\ TxStarted(TxPop(c)).buf = TxPop(c).buf
      BY <2>1 DEF TxStarted, TxPop, Advance, TxCopy, TxType
    <3> QED BY <2>1, <2>2, <3>1, <3>2, <3>3
  <2>4. u.rd # t.rd
    <3>1. t.rd \in Positions /\ PosMod > 1 /\ PosMod \in Nat BY TxLength, Sizes
    <3> QED BY <2>3, <3>1, NextCases DEF Positions
  <2>5. Sent(i, f, t, u) = Sends(f, t, u) BY <2>4 DEF Sent
  <2> QED BY <1>2, <2>3, <2>5, SendsKeeps
<1>3. CASE Length(t) = 0 /\ u = TxNext(TxCompleted(t))
  <2> DEFINE c == TxCompleted(t)
  <2>1. c.rd = t.rd /\ c.wr = t.wr /\ c.buf = t.buf BY DEF TxType, TxCompleted
  <2>2. u = c
    <3> HIDE DEF c
    <3>1. Length(c) = 0 BY <1>3, <2>1 DEF Length
    <3>2. u = TxNext(c) BY <1>3 DEF c
    <3> QED BY <3>1, <3>2 DEF TxNext
  <2> HIDE DEF c
  <2> QED BY <1>1, <2>1, <2>2
<1>4. Length(t) > 0 \/ Length(t) = 0 BY TxLength
<1> QED BY <1>1, <1>2, <1>3, <1>4

\* A put made by the other port's callback.
LEMMA PutCarries ==
  ASSUME NEW i \in 0 .. 1, NEW f \in FwdRec, NEW t \in TxType, NEW b \in Byte,
         Watched(i), Carries(f, t),
         NEW u, u = PutFromIrq(t, b)
  PROVE  Carries(Sent(i, Queued(i, f, b, t), t, u), u)
<1> DEFINE g == Queued(i, f, b, t)
           t1 == IF IsFull(t) THEN t ELSE PutKept(t, b)
<1>1. /\ t1 \in TxType /\ t1.rd = t.rd /\ t1.len = t.len
  BY PutKeptOps
<1>2. g \in FwdRec /\ Carries(g, t1)
  <2>1. CASE IsFull(t) BY <2>1, QueuedType
  <2>2. CASE ~IsFull(t)
    <3>1. Length(t) < Size BY <2>2, TxLength, Sizes DEF IsFull
    <3>2. /\ g \in FwdRec /\ g.kept = f.kept
          /\ g.came = [f.came EXCEPT ![Slot(t.wr)] = b]
          /\ g.behind = IF Slot(t.wr) = 0 THEN Length(t) > 0 ELSE f.behind
      BY <2>2, QueuedType
    <3> HIDE DEF g
    <3>3. Carries(g, PutKept(t, b)) BY <3>1, <3>2, QueuedCarries
    <3> QED BY <2>2, <3>2, <3>3
  <2> QED BY <2>1, <2>2
<1>3. u = IF TxInProgress(t1) \/ Length(t1) = 0 THEN t1 ELSE TxRequest(TxPop(t1))
  BY DEF PutFromIrq
<1> HIDE DEF g, t1
<1>4. CASE TxInProgress(t1) \/ Length(t1) = 0
  <2>1. u = t1 BY <1>3, <1>4
  <2>2. Sent(i, g, t, u) = g BY <1>1, <2>1 DEF Sent
  <2>3. Carries(Sent(i, g, t, u), u) BY <1>2, <2>1, <2>2
  <2> QED BY <2>3 DEF g
<1>5. CASE ~TxInProgress(t1) /\ Length(t1) # 0
  <2>1. t1.len = 0 /\ Length(t1) > 0 BY <1>1, <1>5, TxLength DEF TxInProgress
  <2>2. /\ TxPop(t1).len = 0 /\ TxPop(t1).rd = Next1(t1.rd) /\ TxPop(t1).wr = t1.wr
        /\ TxPop(t1).buf = TxCopy(t1).buf
    BY <1>1, <2>1 DEF TxPop, Advance, TxCopy, TxType
  <2>3. u = TxStarted(TxPop(t1)) BY <1>3, <1>5, <2>2 DEF TxRequest, TxInProgress
  <2>4. /\ u.rd = TxPop(t1).rd /\ u.wr = TxPop(t1).wr /\ u.buf = TxPop(t1).buf
    BY <1>1, <2>3 DEF TxStarted, TxPop, Advance, TxCopy, TxType
  <2>5. u.rd = Next1(t1.rd) /\ u.wr = t1.wr /\ u.buf = TxCopy(t1).buf BY <2>2, <2>4
  <2>6. u.rd # t.rd
    <3>1. t.rd \in Positions /\ PosMod > 1 /\ PosMod \in Nat BY TxLength, Sizes
    <3> QED BY <1>1, <2>5, <3>1, NextCases DEF Positions
  <2>7. Sent(i, g, t, u) = Sends(g, t1, u) BY <1>1, <2>6 DEF Sent, Sends
  <2>8. Carries(Sends(g, t1, u), u) BY <1>1, <1>2, <2>1, <2>5, SendsKeeps
  <2>9. Carries(Sent(i, g, t, u), u) BY <2>7, <2>8
  <2> QED BY <2>9 DEF g
<1> QED BY <1>4, <1>5

-----------------------------------------------------------------------------
(* The main loop inside nRF5x_UART_put on UART0. *)

\* The put that the main loop is in has yet to look whether it must start.
WillLook == th.pc \in Port0!StartPCs \cup {"put_busy"}

\* NoByteStranded of UART0, whose drivers stay initialised.
LEMMA Stranded0 ==
  /\ Port0!NoByteStranded <=>
       /\ up /\ Length(tx0) > 0 => TxInProgress(tx0) \/ WillLook
       /\ up /\ TxInProgress(tx0) => tx0.run \/ tx0.endtx
  /\ Port0!NoByteStranded' <=>
       /\ up' /\ Length(tx0)' > 0 => TxInProgress(tx0)' \/ WillLook'
       /\ up' /\ TxInProgress(tx0)' => tx0'.run \/ tx0'.endtx
BY DEF Port0!NoByteStranded, WillLook, Port0!Length, Length, Port0!Distance, Distance,
       Port0!TxInProgress, TxInProgress

LEMMA Goto0 ==
  ASSUME th \in Port0!ThType, NEW pc \in Port0!PCs, Port0!Goto(pc)
  PROVE  th' \in Port0!ThType /\ th'.pc = pc
<1>1. 0 \in Port0!Positions BY ZeroSlot, Port0Ops
<1> QED BY <1>1 DEF Port0!ThType, Port0!Goto

LEMMA Return0 ==
  ASSUME th \in Port0!ThType, NEW result \in {"true", "false"}, Port0!Return(result)
  PROVE  th' \in Port0!ThType /\ th'.pc = "idle"
<1>1. 0 \in Port0!Positions BY ZeroSlot, Port0Ops
<1> QED BY <1>1 DEF Port0!ThType, Port0!Return, Port0!PCs

LEMMA PutPCs0 ==
  {"put_store", "put_load", "put_load_rd", "put_start", "put_busy", "put_pop",
   "put_fetch", "put_go", "put_retest", "put_wait", "put_publish", "put_advance"}
    \subseteq Port0!PCs
BY DEF Port0!PCs, Port0!PutPCs, Port0!StartPCs

\* The steps that leave the FIFO and the transmitter alone.
LEMMA PutLooks0 ==
  ASSUME tx0 \in TxType, th \in Port0!ThType, Port0!NoByteStranded,
         \/ Port0!PutCall \/ Port0!PutRetest \/ Port0!PutLoad \/ Port0!PutWaited
         \/ Port0!PutTimeout \/ Port0!PutBusy \/ Port0!PutPop \/ Port0!PutLoadRd
         \/ Port0!PutStart
  PROVE  /\ UNCHANGED <<rx0, tx0, up>> /\ th' \in Port0!ThType
         /\ Port0!NoByteStranded'
<1>1. UNCHANGED <<rx0, tx0, up>>
  BY DEF Port0!PutCall, Port0!PutRetest, Port0!PutLoad, Port0!PutWaited, Port0!PutTimeout,
         Port0!PutBusy, Port0!PutPop, Port0!PutLoadRd, Port0!PutStart
<1>2. /\ th' \in Port0!ThType
      /\ WillLook => WillLook' \/ TxInProgress(tx0) \/ Length(tx0) = 0
  <2>1. CASE Port0!PutCall
    <3>1. PICK b \in Byte :
            th' = [th EXCEPT !.byte = b, !.stored = FALSE, !.res = "none",
                             !.pc = IF Port0!IsFull(tx0) THEN "put_wait" ELSE "put_retest"]
      BY <2>1 DEF Port0!PutCall
    <3>2. th.pc = "idle" BY <2>1 DEF Port0!PutCall
    <3>3. th' \in Port0!ThType BY <3>1, PutPCs0 DEF Port0!ThType
    <3> QED BY <3>2, <3>3 DEF WillLook, Port0!StartPCs
  <2>2. CASE Port0!PutRetest
    <3>1. th.pc = "put_retest" /\ (Port0!Return("false") \/ Port0!Goto("put_store"))
      BY <2>2 DEF Port0!PutRetest
    <3>2. th' \in Port0!ThType BY <3>1, Goto0, Return0, PutPCs0
    <3> QED BY <3>1, <3>2 DEF WillLook, Port0!StartPCs
  <2>3. CASE Port0!PutLoad
    <3>1. th' = [th EXCEPT !.pc = "put_publish", !.mark = tx0.wr] /\ th.pc = "put_load"
      BY <2>3 DEF Port0!PutLoad
    <3>2. tx0.wr \in Port0!Positions BY TxLength, Port0Ops
    <3>3. th' \in Port0!ThType BY <3>1, <3>2, PutPCs0 DEF Port0!ThType
    <3> QED BY <3>1, <3>3 DEF WillLook, Port0!StartPCs
  <2>4. CASE Port0!PutWaited \/ Port0!PutTimeout
    <3>1. th.pc = "put_wait" /\ (Port0!Return("false") \/ Port0!Goto("put_busy"))
      BY <2>4 DEF Port0!PutWaited, Port0!PutTimeout
    <3>2. th' \in Port0!ThType BY <3>1, Goto0, Return0, PutPCs0
    <3> QED BY <3>1, <3>2 DEF WillLook, Port0!StartPCs
  <2>5. CASE Port0!PutBusy
    <3>1. CASE TxInProgress(tx0)
      <4>1. Port0!Return("true") BY <2>5, <3>1, Port0Ops DEF Port0!PutBusy
      <4>2. th' \in Port0!ThType BY <4>1, Return0
      <4> QED BY <3>1, <4>2
    <3>2. CASE ~TxInProgress(tx0)
      <4>1. Port0!Goto("put_pop") BY <2>5, <3>2, Port0Ops DEF Port0!PutBusy
      <4>2. th' \in Port0!ThType /\ th'.pc = "put_pop" BY <4>1, Goto0, PutPCs0
      <4> QED BY <4>2 DEF WillLook, Port0!StartPCs
    <3> QED BY <3>1, <3>2
  <2>6. CASE Port0!PutPop
    <3>1. CASE Length(tx0) = 0
      <4>1. Port0!Return("false") BY <2>6, <3>1, Port0Ops DEF Port0!PutPop
      <4>2. th' \in Port0!ThType BY <4>1, Return0
      <4> QED BY <3>1, <4>2
    <3>2. CASE Length(tx0) # 0
      <4>1. Port0!Goto("put_fetch") BY <2>6, <3>2, Port0Ops DEF Port0!PutPop
      <4>2. th' \in Port0!ThType /\ th'.pc = "put_fetch" BY <4>1, Goto0, PutPCs0
      <4> QED BY <4>2 DEF WillLook, Port0!StartPCs
    <3> QED BY <3>1, <3>2
  <2>7. CASE Port0!PutLoadRd
    <3>1. th' = [th EXCEPT !.pc = "put_advance", !.mark = tx0.rd]
      BY <2>7 DEF Port0!PutLoadRd
    <3>2. tx0.rd \in Port0!Positions BY TxLength, Port0Ops
    <3>3. th' \in Port0!ThType /\ th'.pc = "put_advance"
      BY <3>1, <3>2, PutPCs0 DEF Port0!ThType
    <3> QED BY <3>3 DEF WillLook, Port0!StartPCs
  <2>8. CASE Port0!PutStart
    <3>1. CASE TxInProgress(tx0)
      <4>1. Port0!Return("false") BY <2>8, <3>1, Port0Ops DEF Port0!PutStart
      <4>2. th' \in Port0!ThType BY <4>1, Return0
      <4> QED BY <3>1, <4>2
    <3>2. CASE ~TxInProgress(tx0)
      <4>1. Port0!Goto("put_go") BY <2>8, <3>2, Port0Ops DEF Port0!PutStart
      <4>2. th' \in Port0!ThType /\ th'.pc = "put_go" BY <4>1, Goto0, PutPCs0
      <4> QED BY <4>2 DEF WillLook, Port0!StartPCs
    <3> QED BY <3>1, <3>2
  <2> QED BY <2>1, <2>2, <2>3, <2>4, <2>5, <2>6, <2>7, <2>8
<1>3. Length(tx0)' = Length(tx0) /\ (TxInProgress(tx0)' <=> TxInProgress(tx0))
      /\ Length(tx0) \in Nat
  BY <1>1, TxLength DEF Length, TxInProgress
<1>4. Port0!NoByteStranded'
  <2>1. up' /\ Length(tx0)' > 0 => TxInProgress(tx0)' \/ WillLook'
    BY <1>1, <1>2, <1>3, Stranded0
  <2>2. up' /\ TxInProgress(tx0)' => tx0'.run \/ tx0'.endtx BY <1>1, <1>3, Stranded0
  <2> QED BY <2>1, <2>2, Stranded0
<1> QED BY <1>1, <1>2, <1>4

\* The steps that store, publish, take or send.  The interrupt may have moved
\* either counter since put loaded it: what is stored then is what was loaded.
LEMMA PutChanges0 ==
  ASSUME tx0 \in TxType, th \in Port0!ThType, Port0!NoByteStranded,
         \/ Port0!PutStore \/ Port0!PutPublish \/ Port0!PutFetch \/ Port0!PutAdvance
         \/ Port0!PutGo
  PROVE  /\ UNCHANGED <<rx0, up>> /\ tx0' \in TxType /\ th' \in Port0!ThType
         /\ Port0!NoByteStranded'
<1>1. UNCHANGED <<rx0, up>>
  BY DEF Port0!PutStore, Port0!PutPublish, Port0!PutFetch, Port0!PutAdvance, Port0!PutGo
<1>2. th.mark \in Positions /\ th.byte \in Byte BY Port0Ops DEF Port0!ThType
<1>3. Next1(th.mark) \in Positions BY <1>2, NextCases
<1>4. CASE Port0!PutStore
  <2>1. tx0' = StoreKept(tx0, th.byte) /\ Port0!Goto("put_load") /\ th.pc = "put_store"
    BY <1>4, Port0Ops DEF Port0!PutStore
  <2>2. /\ tx0' \in TxType /\ tx0'.len = tx0.len /\ tx0'.run = tx0.run
        /\ tx0'.endtx = tx0.endtx /\ tx0'.rd = tx0.rd /\ tx0'.wr = tx0.wr
    BY <1>2, <2>1, StoreOps
  <2>3. Length(tx0)' = Length(tx0) /\ (TxInProgress(tx0)' <=> TxInProgress(tx0))
    BY <2>2 DEF Length, TxInProgress
  <2>4. ~WillLook BY <2>1 DEF WillLook, Port0!StartPCs
  <2>5. Port0!NoByteStranded' BY <1>1, <2>2, <2>3, <2>4, Stranded0
  <2> QED BY <1>1, <2>1, <2>2, <2>5, Goto0, PutPCs0
<1>5. CASE Port0!PutPublish
  <2>1. /\ tx0' = [tx0 EXCEPT !.wr = Next1(th.mark)]
        /\ th' = [th EXCEPT !.pc = "put_busy", !.mark = 0, !.stored = TRUE]
    BY <1>5, Port0Ops DEF Port0!PutPublish
  <2>2. /\ tx0' \in TxType /\ tx0'.len = tx0.len /\ tx0'.run = tx0.run
        /\ tx0'.endtx = tx0.endtx
    BY <1>3, <2>1 DEF TxType
  <2>3. th' \in Port0!ThType /\ th'.pc = "put_busy"
    <3>1. 0 \in Port0!Positions BY ZeroSlot, Port0Ops
    <3> QED BY <2>1, <3>1, PutPCs0 DEF Port0!ThType
  <2>4. WillLook' /\ (TxInProgress(tx0)' <=> TxInProgress(tx0))
    BY <2>2, <2>3 DEF WillLook, TxInProgress
  <2>5. Port0!NoByteStranded' BY <1>1, <2>2, <2>4, Stranded0
  <2> QED BY <1>1, <2>2, <2>3, <2>5
<1>6. CASE Port0!PutFetch
  <2>1. tx0' = TxCopy(tx0) /\ Port0!Goto("put_load_rd")
    BY <1>6, Port0Ops DEF Port0!PutFetch
  <2>2. /\ tx0' \in TxType /\ tx0'.len = tx0.len /\ tx0'.run = tx0.run
        /\ tx0'.endtx = tx0.endtx
    BY <2>1, CopyOps
  <2>3. th' \in Port0!ThType /\ th'.pc = "put_load_rd" BY <2>1, Goto0, PutPCs0
  <2>4. WillLook' /\ (TxInProgress(tx0)' <=> TxInProgress(tx0))
    BY <2>2, <2>3 DEF WillLook, TxInProgress, Port0!StartPCs
  <2>5. Port0!NoByteStranded' BY <1>1, <2>2, <2>4, Stranded0
  <2> QED BY <1>1, <2>2, <2>3, <2>5
<1>7. CASE Port0!PutAdvance
  <2>1. tx0' = [tx0 EXCEPT !.rd = Next1(th.mark)] /\ Port0!Goto("put_start")
    BY <1>7, Port0Ops DEF Port0!PutAdvance
  <2>2. /\ tx0' \in TxType /\ tx0'.len = tx0.len /\ tx0'.run = tx0.run
        /\ tx0'.endtx = tx0.endtx
    BY <1>3, <2>1 DEF TxType
  <2>3. th' \in Port0!ThType /\ th'.pc = "put_start" BY <2>1, Goto0, PutPCs0
  <2>4. WillLook' /\ (TxInProgress(tx0)' <=> TxInProgress(tx0))
    BY <2>2, <2>3 DEF WillLook, TxInProgress, Port0!StartPCs
  <2>5. Port0!NoByteStranded' BY <1>1, <2>2, <2>4, Stranded0
  <2> QED BY <1>1, <2>2, <2>3, <2>5
<1>8. CASE Port0!PutGo
  <2>1. tx0' = TxStarted(tx0) /\ Port0!Return("true") BY <1>8, Port0Ops DEF Port0!PutGo
  <2>2. tx0' \in TxType /\ tx0'.len = 1 /\ tx0'.run BY <2>1, SentOps
  <2>3. TxInProgress(tx0)' BY <2>2 DEF TxInProgress
  <2>4. Port0!NoByteStranded' BY <2>2, <2>3, Stranded0
  <2> QED BY <1>1, <2>1, <2>2, <2>4, Return0
<1> QED BY <1>4, <1>5, <1>6, <1>7, <1>8

LEMMA PutKeeps0 ==
  ASSUME tx0 \in TxType, th \in Port0!ThType, Port0!NoByteStranded, Port0!Put
  PROVE  /\ UNCHANGED <<rx0, up>> /\ tx0' \in TxType /\ th' \in Port0!ThType
         /\ Port0!NoByteStranded'
<1>1. CASE \/ Port0!PutCall \/ Port0!PutRetest \/ Port0!PutLoad \/ Port0!PutWaited
           \/ Port0!PutTimeout \/ Port0!PutBusy \/ Port0!PutPop \/ Port0!PutLoadRd
           \/ Port0!PutStart
  BY <1>1, PutLooks0
<1>2. CASE \/ Port0!PutStore \/ Port0!PutPublish \/ Port0!PutFetch \/ Port0!PutAdvance
           \/ Port0!PutGo
  BY <1>2, PutChanges0
<1> QED BY <1>1, <1>2 DEF Port0!Put, Port0!PutStep

\* put goes on to start a transfer only with the transmitter idle, and does not
\* start it before it is done.
LEMMA PutRival ==
  ASSUME tx0 \in TxType, th \in Port0!ThType, Port0!Put,
         th'.pc \in Port0!StartPCs, TxInProgress(tx0')
  PROVE  th.pc \in Port0!StartPCs /\ TxInProgress(tx0)
<1>1. th'.pc \in {"put_pop", "put_fetch", "put_load_rd", "put_advance", "put_start", "put_go"}
  BY DEF Port0!StartPCs
<1>2. \/ Port0!PutCall \/ Port0!PutRetest \/ Port0!PutLoad \/ Port0!PutWaited
      \/ Port0!PutTimeout \/ Port0!PutBusy \/ Port0!PutPop \/ Port0!PutLoadRd
      \/ Port0!PutStart \/ Port0!PutStore \/ Port0!PutPublish \/ Port0!PutFetch
      \/ Port0!PutAdvance \/ Port0!PutGo
  BY DEF Port0!Put, Port0!PutStep
<1>3. CASE \/ Port0!PutCall \/ Port0!PutRetest \/ Port0!PutLoad \/ Port0!PutWaited
           \/ Port0!PutTimeout \/ Port0!PutStore \/ Port0!PutPublish \/ Port0!PutGo
  BY <1>1, <1>3 DEF Port0!PutCall, Port0!PutRetest, Port0!PutLoad, Port0!PutWaited,
     Port0!PutTimeout, Port0!PutStore, Port0!PutPublish, Port0!PutGo,
     Port0!Goto, Port0!Return, Port0!ThType
<1>4. CASE Port0!PutBusy
  <2>1. tx0' = tx0 BY <1>4 DEF Port0!PutBusy
  <2>2. CASE TxInProgress(tx0)
    <3>1. Port0!Return("true") BY <1>4, <2>2, Port0Ops DEF Port0!PutBusy
    <3> QED BY <1>1, <3>1 DEF Port0!Return, Port0!ThType
  <2> QED BY <2>1, <2>2
<1>5. CASE Port0!PutPop \/ Port0!PutLoadRd \/ Port0!PutStart
  BY <1>5 DEF Port0!PutPop, Port0!PutLoadRd, Port0!PutStart, Port0!StartPCs
<1>6. CASE Port0!PutFetch \/ Port0!PutAdvance
  <2>1. th.pc \in Port0!StartPCs
    BY <1>6 DEF Port0!PutFetch, Port0!PutAdvance, Port0!StartPCs
  <2>2. tx0'.len = tx0.len
    BY <1>6, Port0Ops, CopyOps DEF Port0!PutFetch, Port0!PutAdvance, TxType
  <2> QED BY <2>1, <2>2 DEF TxInProgress
<1> QED BY <1>2, <1>3, <1>4, <1>5, <1>6

-----------------------------------------------------------------------------
(* The two interrupts. *)

\* TypeOK of UART0 in the terms of Uarte.
LEMMA Type0 ==
  /\ Port0!TypeOK <=> /\ rx0 \in RxType /\ tx0 \in TxType /\ up \in BOOLEAN
                      /\ th \in Port0!ThType
  /\ Port0!TypeOK' <=> /\ rx0' \in RxType /\ tx0' \in TxType /\ up' \in BOOLEAN
                       /\ th' \in Port0!ThType
BY Port0Ops DEF Port0!TypeOK, Port0!ThType

LEMMA ForwardOps ==
  ASSUME NEW r \in RxType, Receiving(r), r.endrx, r.len = 1, NEW t, NEW r2, NEW t2,
         Forward(r, t, r2, t2)
  PROVE  /\ r2 \in RxType /\ Receiving(r2) /\ Length(r2) = Length(r) /\ ~r2.endrx
         /\ r.buf[0] \in Byte
         /\ \E b \in Byte : t2 = PutFromIrq(t, b) /\ (Length(r) = 0 => b = r.buf[0])
<1> DEFINE stored == RxStored(RxCompleted(r))
           byte == PeekAt(stored, 0)
<1>1. r2 = RxRearmed(GetFromIrq(stored)) /\ t2 = PutFromIrq(t, byte) BY DEF Forward
<1>2. r2 \in RxType /\ Receiving(r2) /\ Length(r2) = Length(r) /\ ~r2.endrx
  BY <1>1, CallbackKeeps
<1>3. byte \in Byte /\ r.buf[0] \in Byte /\ (Length(r) = 0 => byte = r.buf[0])
  BY CallbackByte
<1> HIDE DEF byte
<1> QED BY <1>1, <1>2, <1>3

\* A port called its callback: what it passes on is carried to t2.
LEMMA ForwardCarries ==
  ASSUME NEW i \in 0 .. 1, NEW r \in RxType, NEW t \in TxType, fwd[i] \in FwdRec,
         Watched(i) => Carries(fwd[i], t), Watched(i) => Length(r) = 0, r.buf[0] \in Byte,
         Calls(i, r),
         NEW t2, \E b \in Byte : t2 = PutFromIrq(t, b) /\ (Length(r) = 0 => b = r.buf[0])
  PROVE  /\ Forwarded(i, r, t, t2) \in FwdRec
         /\ Watched(i) => Carries(Forwarded(i, r, t, t2), t2)
<1> DEFINE g == Queued(i, fwd[i], r.buf[0], t)
<1>1. Forwarded(i, r, t, t2) = Sent(i, g, t, t2) BY DEF Forwarded
<1>2. g \in FwdRec BY QueuedType
<1>3. Sent(i, g, t, t2) \in FwdRec
  <2> HIDE DEF g
  <2> QED BY <1>2, SentType
<1>4. ASSUME Watched(i) PROVE Carries(Sent(i, g, t, t2), t2)
  <2>1. t2 = PutFromIrq(t, r.buf[0]) BY <1>4
  <2> QED BY <1>4, <2>1, PutCarries
<1> QED BY <1>1, <1>3, <1>4

\* It did not, and the other port's sending side is as it was.
LEMMA IdleCarries ==
  ASSUME NEW i \in 0 .. 1, NEW r, NEW t, ~Calls(i, r)
  PROVE  Forwarded(i, r, t, t) = fwd[i]
BY DEF Forwarded, Sent

\* What Irq0 does to each side: a forwarded byte, a byte that finds no callback,
\* or nothing; and the next byte of UART0's own transmitter.
LEMMA Irq0Ops ==
  ASSUME BridgeInv, Irq0
  PROVE  /\ UNCHANGED <<up, rx1, th, left, attached, early, rival>>
         /\ rx0' \in RxType /\ Receiving(rx0')
         /\ tx0' = tx0 \/ (tx0' \in TxType /\ Sending(tx0'))
         /\ TxInProgress(tx0') => TxInProgress(tx0)
         /\ fwd' \in FwdType
         /\ Watched(0) => Carries(fwd'[0], tx1')
         /\ Watched(1) => Carries(fwd'[1], tx0')
         /\ \/ /\ TakesCallback(0) /\ Length(rx0') = Length(rx0) /\ ~rx0'.endrx
               /\ \E b \in Byte : tx1' = PutFromIrq(tx1, b)
            \/ ~TakesCallback(0) /\ rx0.endrx /\ tx1' = tx1
            \/ rx0' = rx0 /\ tx1' = tx1
<1>0. /\ rx0 \in RxType /\ tx0 \in TxType /\ tx1 \in TxType /\ Receiving(rx0)
      /\ fwd \in FwdType /\ attached \in 0 .. 2
      /\ Quiet(0, rx0) /\ Faithful(0, tx1) /\ Faithful(1, tx0)
  BY Type0 DEF BridgeInv, TypeOK, FwdType, FwdRec
<1>1. UNCHANGED <<up, rx1, th, left, attached, early, rival>> BY DEF Irq0
<1>2. 0 \in 0 .. 1 /\ 1 \in 0 .. 1 /\ 1 # 0 /\ fwd[0] \in FwdRec /\ fwd[1] \in FwdRec
  BY <1>0 DEF FwdType
<1>3. /\ tx0' = tx0 \/ (tx0' = TxNext(TxCompleted(tx0)) /\ TxInProgress(tx0))
  BY Port0Ops DEF Irq0, Port0!IrqSent, Port0!IrqNoTx, TxInProgress
<1>4. tx0' = tx0 \/ (tx0' \in TxType /\ Sending(tx0')) BY <1>0, <1>3, NextKeeps
<1>5. TxInProgress(tx0') => TxInProgress(tx0) BY <1>3
<1>6. /\ fwd'[0] = Forwarded(0, rx0, tx1, tx1') /\ fwd'[1] = Sent(1, fwd[1], tx0, tx0')
      /\ fwd' = [i \in 0 .. 1 |-> IF i = 0 THEN Forwarded(0, rx0, tx1, tx1')
                                           ELSE Sent(1, fwd[1], tx0, tx0')]
  BY <1>2 DEF Irq0
<1>7. fwd'[1] \in FwdRec /\ (Watched(1) => Carries(fwd'[1], tx0'))
  <2>1. fwd'[1] \in FwdRec BY <1>2, <1>6, SentType
  <2>2. Watched(1) => Carries(fwd[1], tx0) BY <1>0 DEF Faithful
  <2>3. Watched(1) => Carries(Sent(1, fwd[1], tx0, tx0'), tx0')
    BY <1>0, <1>2, <1>3, <2>2, NextCarries
  <2> QED BY <1>6, <2>1, <2>3
<1>8. fwd'[0] \in FwdRec => fwd' \in FwdType
  <2> DEFINE a == Forwarded(0, rx0, tx1, tx1')
             c == Sent(1, fwd[1], tx0, tx0')
  <2>1. fwd' = [i \in 0 .. 1 |-> IF i = 0 THEN a ELSE c] /\ fwd'[0] = a /\ fwd'[1] = c
    BY <1>6
  <2> HIDE DEF a, c
  <2> QED BY <1>7, <2>1 DEF FwdType
<1>9. CASE Calls(0, rx0) /\ Forward(rx0, tx1, rx0', tx1')
  <2>1. rx0.endrx /\ rx0.len = 1 /\ TakesCallback(0)
    BY <1>9 DEF Calls, TakesCallback
  <2>2. /\ rx0' \in RxType /\ Receiving(rx0') /\ Length(rx0') = Length(rx0) /\ ~rx0'.endrx
        /\ rx0.buf[0] \in Byte
        /\ \E b \in Byte : tx1' = PutFromIrq(tx1, b) /\ (Length(rx0) = 0 => b = rx0.buf[0])
    BY <1>0, <1>9, <2>1, ForwardOps
  <2>3. (Watched(0) => Carries(fwd[0], tx1)) /\ (Watched(0) => Length(rx0) = 0)
    BY <1>0 DEF Faithful, Quiet, Watched
  <2>4. /\ Forwarded(0, rx0, tx1, tx1') \in FwdRec
        /\ Watched(0) => Carries(Forwarded(0, rx0, tx1, tx1'), tx1')
    BY <1>0, <1>2, <1>9, <2>2, <2>3, ForwardCarries
  <2> QED BY <1>1, <1>4, <1>5, <1>6, <1>7, <1>8, <2>1, <2>2, <2>4
<1>10. ASSUME ~Calls(0, rx0), tx1' = tx1
       PROVE  fwd' \in FwdType /\ (Watched(0) => Carries(fwd'[0], tx1'))
  <2>1. fwd'[0] = fwd[0] BY <1>2, <1>6, <1>10, IdleCarries
  <2> QED BY <1>0, <1>2, <1>8, <1>10, <2>1 DEF Faithful
<1>11. CASE ~Calls(0, rx0) /\ Port0!IrqByte /\ tx1' = tx1
  <2>1. /\ rx0.endrx /\ rx0.len = 1 /\ ~rx0.error
        /\ rx0' = RxRearmed(RxStored(RxCompleted(rx0)))
    BY <1>11, Port0Rx DEF Port0!IrqByte
  <2>2. attached = 0
    <3>1. Length(rx0) < Size BY <2>1, <1>0 DEF Receiving
    <3>2. ~IsFull(rx0) BY <1>0, <3>1, RxLength, Sizes DEF IsFull
    <3> QED BY <1>0, <1>11, <2>1, <3>2 DEF Calls
  <2>3. ~TakesCallback(0) BY <2>2 DEF TakesCallback
  <2>4. rx0' \in RxType /\ Receiving(rx0') BY <1>0, <2>1, IrqByteKeeps
  <2> QED BY <1>1, <1>4, <1>5, <1>7, <1>10, <1>11, <2>1, <2>3, <2>4
<1>12. CASE Port0!IrqNoRx /\ tx1' = tx1
  <2>1. rx0' = rx0 /\ ~Calls(0, rx0) BY <1>12 DEF Port0!IrqNoRx, Calls
  <2> QED BY <1>0, <1>1, <1>4, <1>5, <1>7, <1>10, <1>12, <2>1
<1>13. ~Port0!IrqError BY <1>0 DEF Port0!IrqError, Receiving
<1>14. ~Port0!IrqStrayByte
  <2>1. rx0.len \in {0, 1} BY <1>0 DEF RxType
  <2> QED BY <1>0, <2>1 DEF Port0!IrqStrayByte, Receiving
<1> QED BY <1>9, <1>11, <1>12, <1>13, <1>14 DEF Irq0

LEMMA Irq1Ops ==
  ASSUME BridgeInv, Irq1
  PROVE  /\ UNCHANGED <<up, rx0, th, left, attached, early>>
         /\ rx1' \in RxType /\ Receiving(rx1')
         /\ tx1' = tx1
            \/ (tx1' \in TxType /\ Sending(tx1') /\ Length(tx1') <= Size)
         /\ rival' = (rival \/ StartsUnder)
         /\ fwd' \in FwdType
         /\ Watched(0) => Carries(fwd'[0], tx1')
         /\ Watched(1) => Carries(fwd'[1], tx0')
         /\ \/ /\ TakesCallback(1) /\ Length(rx1') = Length(rx1) /\ ~rx1'.endrx
               /\ \E b \in Byte : tx0' = PutFromIrq(tx0, b)
            \/ ~TakesCallback(1) /\ rx1.endrx /\ tx0' = tx0
            \/ rx1' = rx1 /\ tx0' = tx0
<1>0. /\ rx1 \in RxType /\ tx0 \in TxType /\ tx1 \in TxType /\ Receiving(rx1)
      /\ fwd \in FwdType /\ attached \in 0 .. 2 /\ Length(tx1) <= Size
      /\ Quiet(1, rx1) /\ Faithful(0, tx1) /\ Faithful(1, tx0)
  BY Type0 DEF BridgeInv, TypeOK, FwdType, FwdRec
<1>1. UNCHANGED <<up, rx0, th, left, attached, early>> /\ rival' = (rival \/ StartsUnder)
  BY DEF Irq1
<1>2. 0 \in 0 .. 1 /\ 1 \in 0 .. 1 /\ 1 # 0 /\ fwd[0] \in FwdRec /\ fwd[1] \in FwdRec
  BY <1>0 DEF FwdType
<1>3. tx1' = tx1 \/ tx1' = TxNext(TxCompleted(tx1))
  BY Port1Ops DEF Irq1, Port1!IrqSent, Port1!IrqNoTx
<1>4. tx1' = tx1 \/ (tx1' \in TxType /\ Sending(tx1') /\ Length(tx1') <= Size)
  BY <1>0, <1>3, NextKeeps
<1>6. /\ fwd'[1] = Forwarded(1, rx1, tx0, tx0') /\ fwd'[0] = Sent(0, fwd[0], tx1, tx1')
      /\ fwd' = [i \in 0 .. 1 |-> IF i = 1 THEN Forwarded(1, rx1, tx0, tx0')
                                           ELSE Sent(0, fwd[0], tx1, tx1')]
  BY <1>2 DEF Irq1
<1>7. fwd'[0] \in FwdRec /\ (Watched(0) => Carries(fwd'[0], tx1'))
  <2>1. fwd'[0] \in FwdRec BY <1>2, <1>6, SentType
  <2>2. Watched(0) => Carries(fwd[0], tx1) BY <1>0 DEF Faithful
  <2>3. Watched(0) => Carries(Sent(0, fwd[0], tx1, tx1'), tx1')
    BY <1>0, <1>2, <1>3, <2>2, NextCarries
  <2> QED BY <1>6, <2>1, <2>3
<1>8. fwd'[1] \in FwdRec => fwd' \in FwdType
  <2> DEFINE a == Forwarded(1, rx1, tx0, tx0')
             c == Sent(0, fwd[0], tx1, tx1')
  <2>1. fwd' = [i \in 0 .. 1 |-> IF i = 1 THEN a ELSE c] /\ fwd'[1] = a /\ fwd'[0] = c
    BY <1>6
  <2> HIDE DEF a, c
  <2> QED BY <1>7, <2>1 DEF FwdType
<1>9. CASE Calls(1, rx1) /\ Forward(rx1, tx0, rx1', tx0')
  <2>1. rx1.endrx /\ rx1.len = 1 /\ TakesCallback(1)
    BY <1>9 DEF Calls, TakesCallback
  <2>2. /\ rx1' \in RxType /\ Receiving(rx1') /\ Length(rx1') = Length(rx1) /\ ~rx1'.endrx
        /\ rx1.buf[0] \in Byte
        /\ \E b \in Byte : tx0' = PutFromIrq(tx0, b) /\ (Length(rx1) = 0 => b = rx1.buf[0])
    BY <1>0, <1>9, <2>1, ForwardOps
  <2>3. (Watched(1) => Carries(fwd[1], tx0)) /\ (Watched(1) => Length(rx1) = 0)
    BY <1>0 DEF Faithful, Quiet, Watched
  <2>4. /\ Forwarded(1, rx1, tx0, tx0') \in FwdRec
        /\ Watched(1) => Carries(Forwarded(1, rx1, tx0, tx0'), tx0')
    BY <1>0, <1>2, <1>9, <2>2, <2>3, ForwardCarries
  <2> QED BY <1>1, <1>4, <1>6, <1>7, <1>8, <2>1, <2>2, <2>4
<1>10. ASSUME ~Calls(1, rx1), tx0' = tx0
       PROVE  fwd' \in FwdType /\ (Watched(1) => Carries(fwd'[1], tx0'))
  <2>1. fwd'[1] = fwd[1] BY <1>2, <1>6, <1>10, IdleCarries
  <2> QED BY <1>0, <1>2, <1>8, <1>10, <2>1 DEF Faithful
<1>11. CASE ~Calls(1, rx1) /\ Port1!IrqByte /\ tx0' = tx0
  <2>1. /\ rx1.endrx /\ rx1.len = 1 /\ ~rx1.error
        /\ rx1' = RxRearmed(RxStored(RxCompleted(rx1)))
    BY <1>11, Port1Rx DEF Port1!IrqByte
  <2>2. ~(attached > 1)
    <3>1. Length(rx1) < Size BY <2>1, <1>0 DEF Receiving
    <3>2. ~IsFull(rx1) BY <1>0, <3>1, RxLength, Sizes DEF IsFull
    <3> QED BY <1>0, <1>11, <2>1, <3>2 DEF Calls
  <2>3. ~TakesCallback(1) BY <2>2 DEF TakesCallback
  <2>4. rx1' \in RxType /\ Receiving(rx1') BY <1>0, <2>1, IrqByteKeeps
  <2> QED BY <1>1, <1>4, <1>7, <1>10, <1>11, <2>1, <2>3, <2>4
<1>12. CASE Port1!IrqNoRx /\ tx0' = tx0
  <2>1. rx1' = rx1 /\ ~Calls(1, rx1) BY <1>12 DEF Port1!IrqNoRx, Calls
  <2> QED BY <1>0, <1>1, <1>4, <1>7, <1>10, <1>12, <2>1
<1>13. ~Port1!IrqError BY <1>0 DEF Port1!IrqError, Receiving
<1>14. ~Port1!IrqStrayByte
  <2>1. rx1.len \in {0, 1} BY <1>0 DEF RxType
  <2> QED BY <1>0, <2>1 DEF Port1!IrqStrayByte, Receiving
<1> QED BY <1>9, <1>11, <1>12, <1>13, <1>14 DEF Irq1

-----------------------------------------------------------------------------
(* Every step keeps the invariant. *)

\* The primed operators are the operators of the primed records.
LEMMA Primes ==
  /\ Receiving(rx0)' <=> Receiving(rx0')
  /\ Receiving(rx1)' <=> Receiving(rx1')
  /\ Sending(tx1)' <=> Sending(tx1')
  /\ Length(rx0)' = Length(rx0') /\ Length(rx1)' = Length(rx1')
  /\ Length(tx0)' = Length(tx0') /\ Length(tx1)' = Length(tx1')
  /\ Quiet(0, rx0)' <=>
       (early'[0] = 0 => Length(rx0') = 0 /\ (~TakesCallback(0)' => ~rx0'.endrx))
  /\ Quiet(1, rx1)' <=>
       (early'[1] = 0 => Length(rx1') = 0 /\ (~TakesCallback(1)' => ~rx1'.endrx))
  /\ Sending(tx0') => Port0!NoByteStranded'
  /\ Faithful(0, tx1)' <=> (Watched(0)' => Carries(fwd'[0], tx1'))
  /\ Faithful(1, tx0)' <=> (Watched(1)' => Carries(fwd'[1], tx0'))
  /\ TakenByteLostOnlyToRival' <=>
       (th'.pc \in Port0!StartPCs /\ TxInProgress(tx0') => rival')
<1>1. /\ Receiving(rx0)' <=> Receiving(rx0')
      /\ Receiving(rx1)' <=> Receiving(rx1')
      /\ Sending(tx1)' <=> Sending(tx1')
      /\ Length(rx0)' = Length(rx0') /\ Length(rx1)' = Length(rx1')
      /\ Length(tx0)' = Length(tx0') /\ Length(tx1)' = Length(tx1')
      /\ Sending(tx0)' <=> Sending(tx0')
  BY DEF Receiving, Sending, Length, Distance, TxInProgress
<1>2. /\ Quiet(0, rx0)' <=>
           (early'[0] = 0 => Length(rx0') = 0 /\ (~TakesCallback(0)' => ~rx0'.endrx))
      /\ Quiet(1, rx1)' <=>
           (early'[1] = 0 => Length(rx1') = 0 /\ (~TakesCallback(1)' => ~rx1'.endrx))
  BY DEF Quiet, Length, Distance
<1>3. Sending(tx0)' => Port0!NoByteStranded' BY Stranded0 DEF Sending
<1>4. /\ Faithful(0, tx1)' <=> (Watched(0)' => Carries(fwd'[0], tx1'))
      /\ Faithful(1, tx0)' <=> (Watched(1)' => Carries(fwd'[1], tx0'))
  BY DEF Faithful, Carries, Carried, Length, Distance
<1>5. TakenByteLostOnlyToRival' <=>
        (th'.pc \in Port0!StartPCs /\ TxInProgress(tx0') => rival')
  BY DEF TakenByteLostOnlyToRival, TxInProgress, Port0!StartPCs
<1> QED BY <1>1, <1>2, <1>3, <1>4, <1>5

\* A put from an interrupt strands nothing.
LEMMA PutFromIrqSends ==
  ASSUME NEW t \in TxType, NEW b \in Byte, Sending(t)
  PROVE  Sending(PutFromIrq(t, b))
<1>1. CASE t.len # 0
  <2> DEFINE u == PutFromIrq(t, b)
  <2>1. u.len = t.len /\ u.run = t.run /\ u.endtx = t.endtx BY <1>1, PutFromIrqKeeps
  <2> HIDE DEF u
  <2>2. Sending(u) BY <1>1, <2>1 DEF Sending, TxInProgress
  <2> QED BY <2>2 DEF u
<1>2. CASE t.len = 0 BY <1>2, PutFromIrqKeeps
<1> QED BY <1>1, <1>2

LEMMA ForwardsByFaithful ==
  Faithful(0, tx1) /\ Faithful(1, tx0) => ForwardsWhatArrives
<1>1. \A i \in 0 .. 1 : i = 0 \/ i = 1 OBVIOUS
<1> QED BY <1>1 DEF Faithful, Carries, ForwardsWhatArrives

\* What an interrupt or a line does not touch stays watched.
LEMMA StaysWatched ==
  ASSUME NEW i \in 0 .. 1, UNCHANGED <<left, early>>
  PROVE  Watched(i)' <=> Watched(i)
BY DEF Watched

\* BridgeInv by its parts.
LEMMA InvParts ==
  /\ BridgeInv <=>
       /\ rx0 \in RxType /\ tx0 \in TxType /\ up \in BOOLEAN /\ th \in Port0!ThType
       /\ rx1 \in RxType /\ tx1 \in TxType /\ attached \in 0 .. 2
       /\ left \in [line : [0 .. 1 -> Nat], puts : Nat]
       /\ early \in [0 .. 1 -> 0 .. MaxEarly] /\ fwd \in FwdType
       /\ up /\ Receiving(rx0) /\ Receiving(rx1)
       /\ Port0!NoByteStranded /\ Sending(tx1) /\ Length(tx1) <= Size
       /\ Quiet(0, rx0) /\ Quiet(1, rx1) /\ Faithful(0, tx1) /\ Faithful(1, tx0)
       /\ PutsSpent /\ rival \in BOOLEAN /\ TakenByteLostOnlyToRival
  /\ BridgeInv' <=>
       /\ rx0' \in RxType /\ tx0' \in TxType /\ up' \in BOOLEAN /\ th' \in Port0!ThType
       /\ rx1' \in RxType /\ tx1' \in TxType /\ attached' \in 0 .. 2
       /\ left' \in [line : [0 .. 1 -> Nat], puts : Nat]
       /\ early' \in [0 .. 1 -> 0 .. MaxEarly] /\ fwd' \in FwdType
       /\ up' /\ Receiving(rx0)' /\ Receiving(rx1)'
       /\ Port0!NoByteStranded' /\ Sending(tx1)' /\ Length(tx1)' <= Size
       /\ Quiet(0, rx0)' /\ Quiet(1, rx1)' /\ Faithful(0, tx1)' /\ Faithful(1, tx0)'
       /\ PutsSpent' /\ rival' \in BOOLEAN /\ TakenByteLostOnlyToRival'
BY Type0 DEF BridgeInv, TypeOK, FwdType, FwdRec

LEMMA InitBridgeInv == Init => BridgeInv
<1> SUFFICES ASSUME Init PROVE BridgeInv OBVIOUS
<1>1. PICK b \in Byte : LET mem == [s \in Slots |-> b] IN
       /\ rx0 = [rd |-> 0, wr |-> 0, buf |-> mem, want |-> mem, ovf |-> FALSE, len |-> 1,
                 sec |-> 0, run |-> TRUE, short |-> FALSE, endrx |-> FALSE,
                 error |-> FALSE]
       /\ tx0 = [rd |-> 0, wr |-> 0, buf |-> mem, want |-> mem, len |-> 0, run |-> FALSE,
                 endtx |-> FALSE]
       /\ th = [pc |-> "idle", byte |-> b, ovf |-> FALSE, mark |-> 0, stored |-> FALSE,
                res |-> "none"]
       /\ up = TRUE
  BY DEF Init, Port0!Init, Port0!Slots, Slots
<1>2. rx1 = rx0 /\ tx1 = tx0 BY DEF Init
<1>3. rx0 \in RxType /\ tx0 \in TxType
  <2>1. rx0 \in RxType BY <1>1, ZeroSlot DEF RxType
  <2>2. tx0 \in TxType BY <1>1, ZeroSlot DEF TxType
  <2> QED BY <2>1, <2>2
<1>4. th \in Port0!ThType /\ th.pc = "idle"
  <2>1. 0 \in Port0!Positions BY ZeroSlot, Port0Ops
  <2> QED BY <1>1, <2>1 DEF Port0!ThType, Port0!PCs
<1>5. /\ rx0.rd = 0 /\ rx0.wr = 0 /\ tx0.rd = 0 /\ tx0.wr = 0 /\ tx0.len = 0
      /\ rx0.len = 1 /\ rx0.sec = 0 /\ rx0.run /\ ~rx0.short /\ ~rx0.endrx
      /\ ~rx0.error /\ ~rx0.ovf
  BY <1>1
<1>6. Length(rx0) = 0 /\ Length(tx0) = 0 /\ Size > 0
  BY <1>5, ZeroSlot, DistanceToSelf, Sizes DEF Length
<1>7. Receiving(rx0) BY <1>5, <1>6 DEF Receiving
<1>8. Sending(tx0) BY <1>5, <1>6 DEF Sending, TxInProgress
<1>9. Port0!NoByteStranded BY <1>8, Stranded0 DEF Sending
<1>10. attached = 0 /\ left \in [line : [0 .. 1 -> Nat], puts : Nat]
       /\ early \in [0 .. 1 -> 0 .. MaxEarly] /\ fwd \in FwdType
  <2>1. left \in [line : [0 .. 1 -> Nat], puts : Nat] BY BoundsAssumption DEF Init
  <2>2. early \in [0 .. 1 -> 0 .. MaxEarly] BY BoundsAssumption DEF Init
  <2>3. fwd \in FwdType
    <3>1. tx0.want \in [Slots -> Byte] BY <1>3 DEF TxType
    <3>2. fwd = [i \in 0 .. 1 |-> [came |-> tx0.want, behind |-> FALSE, kept |-> TRUE]]
      BY DEF Init
    <3> QED BY <3>1, <3>2 DEF FwdType, FwdRec
  <2> QED BY <2>1, <2>2, <2>3 DEF Init
<1>11. Quiet(0, rx0) /\ Quiet(1, rx1) BY <1>2, <1>5, <1>6 DEF Quiet
<1>12. Faithful(0, tx1) /\ Faithful(1, tx0)
  <2>1. fwd[0].kept /\ fwd[1].kept BY DEF Init
  <2>2. /\ Length(tx0) <= Size /\ Length(tx1) <= Size
        /\ 0 .. Length(tx0) - 1 = {} /\ 0 .. Length(tx1) - 1 = {}
    BY <1>2, <1>6, Sizes
  <2> QED BY <2>1, <2>2 DEF Faithful, Carries, Carried
<1>13. Length(tx1) <= Size BY <1>2, <1>6, Sizes
<1>14. PutsSpent BY <1>4, BoundsAssumption DEF Init, PutsSpent
<1>15. rival = FALSE /\ TakenByteLostOnlyToRival
  BY <1>4 DEF Init, TakenByteLostOnlyToRival, Port0!StartPCs
<1>16. rival \in BOOLEAN BY <1>15
<1>17. rx1 \in RxType /\ tx1 \in TxType /\ Receiving(rx1) /\ Sending(tx1)
  BY <1>2, <1>3, <1>7, <1>8
<1> QED BY <1>1, <1>3, <1>4, <1>7, <1>9, <1>10, <1>11, <1>12, <1>13, <1>14, <1>15, <1>16,
           <1>17, InvParts

\* UART0's interrupt, with the put into UART1 that its callback makes.
LEMMA Irq0Inv == ASSUME BridgeInv, Irq0 PROVE BridgeInv'
<1>0. /\ rx0 \in RxType /\ tx0 \in TxType /\ tx1 \in TxType /\ Receiving(rx0)
      /\ Sending(tx1) /\ Length(tx1) <= Size
      /\ Quiet(0, rx0) /\ Quiet(1, rx1) /\ PutsSpent /\ rival \in BOOLEAN
      /\ TakenByteLostOnlyToRival
  BY InvParts
<1>1. /\ UNCHANGED <<up, rx1, th, left, attached, early, rival>>
      /\ rx0' \in RxType /\ Receiving(rx0)'
      /\ tx0' = tx0 \/ (tx0' \in TxType /\ Sending(tx0'))
  BY Irq0Ops, Primes
<1>2. tx0' \in TxType /\ Port0!NoByteStranded'
  <2>1. CASE tx0' = tx0
    <3>1. WillLook' <=> WillLook BY <1>1 DEF WillLook
    <3> QED BY <1>0, <1>1, <2>1, <3>1, InvParts, Stranded0 DEF Length, TxInProgress
  <2>2. CASE tx0' \in TxType /\ Sending(tx0') BY <2>2, Primes
  <2> QED BY <1>1, <2>1, <2>2
<1>3. Quiet(1, rx1)' BY <1>0, <1>1, Primes DEF Quiet, TakesCallback
<1>4. tx1' \in TxType /\ Sending(tx1)' /\ Length(tx1)' <= Size /\ Quiet(0, rx0)'
  <2>1. CASE /\ TakesCallback(0) /\ Length(rx0') = Length(rx0) /\ ~rx0'.endrx
             /\ \E b \in Byte : tx1' = PutFromIrq(tx1, b)
    <3>1. tx1' \in TxType /\ Sending(tx1') /\ Length(tx1') <= Size
      BY <1>0, <2>1, PutFromIrqKeeps, PutFromIrqSends
    <3>2. Quiet(0, rx0)' BY <1>0, <1>1, <2>1, Primes DEF Quiet
    <3> QED BY <3>1, <3>2, Primes
  <2>2. CASE ~TakesCallback(0) /\ rx0.endrx /\ tx1' = tx1
    <3>1. early[0] # 0 BY <1>0, <2>2 DEF Quiet
    <3>2. Quiet(0, rx0)' BY <1>1, <3>1, Primes
    <3> QED BY <1>0, <2>2, <3>2, Primes
  <2>3. CASE rx0' = rx0 /\ tx1' = tx1
    <3>1. Quiet(0, rx0)' BY <1>0, <1>1, <2>3, Primes DEF Quiet, TakesCallback
    <3> QED BY <1>0, <2>3, <3>1, Primes
  <2> QED BY <2>1, <2>2, <2>3, Irq0Ops
<1>5. fwd' \in FwdType /\ Faithful(0, tx1)' /\ Faithful(1, tx0)'
  <2>1. (Watched(0)' <=> Watched(0)) /\ (Watched(1)' <=> Watched(1))
    BY <1>1, StaysWatched
  <2> QED BY <2>1, Irq0Ops, Primes
<1>6. Receiving(rx1)' BY <1>1, InvParts, Primes
<1>7. TakenByteLostOnlyToRival'
  <2>1. TxInProgress(tx0') => TxInProgress(tx0) BY Irq0Ops
  <2> QED BY <1>0, <1>1, <2>1, Primes DEF TakenByteLostOnlyToRival
<1>8. PutsSpent' BY <1>0, <1>1 DEF PutsSpent
<1> QED BY <1>0, <1>1, <1>2, <1>3, <1>4, <1>5, <1>6, <1>7, <1>8, InvParts

\* UART1's interrupt, with the put into UART0: the second writer of that FIFO.
LEMMA Irq1Inv == ASSUME BridgeInv, Irq1 PROVE BridgeInv'
<1>0. /\ rx1 \in RxType /\ tx0 \in TxType /\ tx1 \in TxType /\ Receiving(rx1)
      /\ Sending(tx1) /\ Length(tx1) <= Size /\ up
      /\ Quiet(0, rx0) /\ Quiet(1, rx1) /\ PutsSpent /\ rival \in BOOLEAN
      /\ TakenByteLostOnlyToRival
  BY InvParts
<1>1. /\ UNCHANGED <<up, rx0, th, left, attached, early>>
      /\ rx1' \in RxType /\ Receiving(rx1)'
      /\ tx1' = tx1 \/ (tx1' \in TxType /\ Sending(tx1') /\ Length(tx1') <= Size)
      /\ rival' = (rival \/ StartsUnder)
  BY Irq1Ops, Primes
<1>2. tx1' \in TxType /\ Sending(tx1)' /\ Length(tx1)' <= Size BY <1>0, <1>1, Primes
<1>3. Quiet(0, rx0)' BY <1>0, <1>1, Primes DEF Quiet, TakesCallback
<1>4. tx0' = tx0 => Port0!NoByteStranded'
  <2>1. WillLook' <=> WillLook BY <1>1 DEF WillLook
  <2> QED BY <1>0, <1>1, <2>1, InvParts, Stranded0 DEF Length, TxInProgress
<1>5. tx0' \in TxType /\ Port0!NoByteStranded' /\ Quiet(1, rx1)'
  <2>1. CASE /\ TakesCallback(1) /\ Length(rx1') = Length(rx1) /\ ~rx1'.endrx
             /\ \E b \in Byte : tx0' = PutFromIrq(tx0, b)
    <3>1. PICK b \in Byte : tx0' = PutFromIrq(tx0, b) BY <2>1
    <3>2. tx0' \in TxType BY <1>0, <3>1, PutFromIrqKeeps
    <3>3. Port0!NoByteStranded'
      <4>1. CASE tx0.len # 0
        <5>1. tx0'.len = tx0.len /\ tx0'.run = tx0.run /\ tx0'.endtx = tx0.endtx
          BY <1>0, <3>1, <4>1, PutFromIrqKeeps
        <5>2. TxInProgress(tx0) /\ TxInProgress(tx0)' BY <4>1, <5>1 DEF TxInProgress
        <5>3. tx0.run \/ tx0.endtx BY <1>0, <5>2, InvParts, Stranded0
        <5>4. tx0'.run \/ tx0'.endtx BY <5>1, <5>3
        <5> QED BY <5>2, <5>4, Stranded0
      <4>2. CASE tx0.len = 0
        <5>1. Sending(tx0') BY <1>0, <3>1, <4>2, PutFromIrqKeeps
        <5> QED BY <5>1, Primes
      <4> QED BY <4>1, <4>2
    <3>4. Quiet(1, rx1)' BY <1>0, <1>1, <2>1, Primes DEF Quiet
    <3> QED BY <3>2, <3>3, <3>4
  <2>2. CASE ~TakesCallback(1) /\ rx1.endrx /\ tx0' = tx0
    <3>1. early[1] # 0 BY <1>0, <2>2 DEF Quiet
    <3>2. Quiet(1, rx1)' BY <1>1, <3>1, Primes
    <3> QED BY <1>0, <1>4, <2>2, <3>2
  <2>3. CASE rx1' = rx1 /\ tx0' = tx0
    <3>1. Quiet(1, rx1)' BY <1>0, <1>1, <2>3, Primes DEF Quiet, TakesCallback
    <3> QED BY <1>0, <1>4, <2>3, <3>1
  <2> QED BY <2>1, <2>2, <2>3, Irq1Ops
<1>6. Receiving(rx0)' BY <1>1, InvParts, Primes
<1>7. fwd' \in FwdType /\ Faithful(0, tx1)' /\ Faithful(1, tx0)'
  <2>1. (Watched(0)' <=> Watched(0)) /\ (Watched(1)' <=> Watched(1))
    BY <1>1, StaysWatched
  <2> QED BY <2>1, Irq1Ops, Primes
<1>8. TakenByteLostOnlyToRival' /\ rival' \in BOOLEAN
  <2>1. ASSUME th'.pc \in Port0!StartPCs, TxInProgress(tx0') PROVE rival'
    <3>1. TxInProgress(tx0) => rival BY <1>0, <1>1, <2>1 DEF TakenByteLostOnlyToRival
    <3>2. ~TxInProgress(tx0) => StartsUnder BY <1>1, <2>1 DEF StartsUnder
    <3> QED BY <1>1, <3>1, <3>2
  <2>2. rival' \in BOOLEAN BY <1>0, <1>1 DEF StartsUnder
  <2> QED BY <2>1, <2>2, Primes
<1>9. PutsSpent' BY <1>0, <1>1 DEF PutsSpent
<1> QED BY <1>1, <1>2, <1>3, <1>5, <1>6, <1>7, <1>8, <1>9, InvParts

LEMMA SpendType ==
  ASSUME left \in [line : [0 .. 1 -> Nat], puts : Nat], NEW i \in 0 .. 1, Spend(i)
  PROVE  left' \in [line : [0 .. 1 -> Nat], puts : Nat] /\ left'.puts = left.puts
<1>1. left.line[i] \in Nat /\ left.line[i] > 0 BY DEF Spend
<1>2. left.line[i] - 1 \in Nat BY <1>1
<1> QED BY <1>2 DEF Spend

\* A step of a line leaves everything but its receiver as it is.
LEMMA LineKeeps ==
  ASSUME BridgeInv, UNCHANGED <<tx0, tx1, th, fwd, rival>>, left'.puts = left.puts,
         \A i \in 0 .. 1 : early'[i] = 0 => early[i] = 0
  PROVE  /\ Faithful(0, tx1)' /\ Faithful(1, tx0)' /\ PutsSpent'
         /\ TakenByteLostOnlyToRival' /\ rival' \in BOOLEAN /\ fwd' \in FwdType
<1>1. (Watched(0)' => Watched(0)) /\ (Watched(1)' => Watched(1)) BY DEF Watched
<1>2. /\ Faithful(0, tx1) /\ Faithful(1, tx0) /\ PutsSpent /\ TakenByteLostOnlyToRival
      /\ rival \in BOOLEAN /\ fwd \in FwdType
  BY InvParts
<1>3. Faithful(0, tx1)' /\ Faithful(1, tx0)' BY <1>1, <1>2, Primes DEF Faithful
<1>4. PutsSpent' BY <1>2 DEF PutsSpent
<1>5. TakenByteLostOnlyToRival' BY <1>2, Primes DEF TakenByteLostOnlyToRival
<1> QED BY <1>2, <1>3, <1>4, <1>5

\* A byte on the line of UART0.
LEMMA Line0Inv == ASSUME BridgeInv, Line0Byte PROVE BridgeInv'
<1>0. /\ rx0 \in RxType /\ Receiving(rx0) /\ attached \in 0 .. 2
      /\ left \in [line : [0 .. 1 -> Nat], puts : Nat]
      /\ early \in [0 .. 1 -> 0 .. MaxEarly]
      /\ Quiet(0, rx0) /\ Quiet(1, rx1)
  BY InvParts
<1>1. PICK b \in Byte : rx0.run /\ rx0' = HwReceive(rx0, b)
  BY Port0Ops DEF Line0Byte, Port0!LineByte
<1>2. UNCHANGED <<tx0, up, th, rx1, tx1, attached, fwd, rival>>
  BY DEF Line0Byte, Port0!LineByte
<1>3. rx0' \in RxType /\ Receiving(rx0)' /\ Length(rx0') = Length(rx0)
  BY <1>0, <1>1, ReceiveKeeps, Primes
<1>4. 0 \in 0 .. 1 /\ 1 \in 0 .. 1 /\ 1 # 0 /\ Spend(0) BY DEF Line0Byte
<1>5. /\ early' = [early EXCEPT ![0] = IF attached = 0 THEN @ + 1 ELSE @]
      /\ early'[0] <= MaxEarly
  BY DEF Line0Byte
<1>6. /\ early' \in [0 .. 1 -> 0 .. MaxEarly] /\ early'[1] = early[1]
      /\ attached = 0 => early'[0] # 0
      /\ attached # 0 => early'[0] = early[0]
  <2>1. early[0] \in 0 .. MaxEarly BY <1>0, <1>4
  <2>2. early'[0] = IF attached = 0 THEN early[0] + 1 ELSE early[0] BY <1>0, <1>4, <1>5
  <2>3. early'[0] \in 0 .. MaxEarly BY <1>5, <2>1, <2>2, BoundsAssumption
  <2>4. early'[1] = early[1] BY <1>0, <1>4, <1>5
  <2>5. early' = [early EXCEPT ![0] = early'[0]] BY <1>0, <1>4, <1>5
  <2>6. early' \in [0 .. 1 -> 0 .. MaxEarly] BY <1>0, <2>3, <2>5
  <2>7. (attached = 0 => early'[0] # 0) /\ (attached # 0 => early'[0] = early[0])
    BY <2>1, <2>2
  <2> QED BY <2>4, <2>6, <2>7
<1>7. left' \in [line : [0 .. 1 -> Nat], puts : Nat] /\ left'.puts = left.puts
  BY <1>0, <1>4, SpendType
<1>8. Quiet(0, rx0)'
  <2>1. attached # 0 => TakesCallback(0) BY <1>0 DEF TakesCallback
  <2>2. TakesCallback(0)' <=> TakesCallback(0) BY <1>2 DEF TakesCallback
  <2> QED BY <1>0, <1>3, <1>6, <2>1, <2>2, Primes DEF Quiet
<1>9. Quiet(1, rx1)' BY <1>0, <1>2, <1>6, Primes DEF Quiet, TakesCallback
<1>10. /\ Faithful(0, tx1)' /\ Faithful(1, tx0)' /\ PutsSpent'
       /\ TakenByteLostOnlyToRival' /\ rival' \in BOOLEAN /\ fwd' \in FwdType
  <2>1. \A i \in 0 .. 1 : i = 0 \/ i = 1 OBVIOUS
  <2>2. \A i \in 0 .. 1 : early'[i] = 0 => early[i] = 0 BY <1>6, <2>1
  <2> QED BY <1>2, <1>7, <2>2, LineKeeps
<1>11. Port0!NoByteStranded'
  <2>1. WillLook' <=> WillLook BY <1>2 DEF WillLook
  <2> QED BY <1>2, <2>1, InvParts, Stranded0 DEF Length, TxInProgress
<1>12. Receiving(rx1)' /\ Sending(tx1)' /\ Length(tx1)' <= Size BY <1>2, InvParts, Primes
<1> QED BY <1>2, <1>3, <1>6, <1>7, <1>8, <1>9, <1>10, <1>11, <1>12, InvParts

LEMMA Line1Inv == ASSUME BridgeInv, Line1Byte PROVE BridgeInv'
<1>0. /\ rx1 \in RxType /\ Receiving(rx1) /\ attached \in 0 .. 2
      /\ left \in [line : [0 .. 1 -> Nat], puts : Nat]
      /\ early \in [0 .. 1 -> 0 .. MaxEarly]
      /\ Quiet(0, rx0) /\ Quiet(1, rx1)
  BY InvParts
<1>1. PICK b \in Byte : rx1.run /\ rx1' = HwReceive(rx1, b)
  BY Port1Ops DEF Line1Byte, Port1!LineByte
<1>2. UNCHANGED <<tx1, up, th, rx0, tx0, attached, fwd, rival>>
  BY DEF Line1Byte, Port1!LineByte
<1>3. rx1' \in RxType /\ Receiving(rx1)' /\ Length(rx1') = Length(rx1)
  BY <1>0, <1>1, ReceiveKeeps, Primes
<1>4. 0 \in 0 .. 1 /\ 1 \in 0 .. 1 /\ 1 # 0 /\ Spend(1) BY DEF Line1Byte
<1>5. /\ early' = [early EXCEPT ![1] = IF attached < 2 THEN @ + 1 ELSE @]
      /\ early'[1] <= MaxEarly
  BY DEF Line1Byte
<1>6. /\ early' \in [0 .. 1 -> 0 .. MaxEarly] /\ early'[0] = early[0]
      /\ attached < 2 => early'[1] # 0
      /\ attached = 2 => early'[1] = early[1]
  <2>1. early[1] \in 0 .. MaxEarly BY <1>0, <1>4
  <2>2. early'[1] = IF attached < 2 THEN early[1] + 1 ELSE early[1] BY <1>0, <1>4, <1>5
  <2>3. early'[1] \in 0 .. MaxEarly BY <1>5, <2>1, <2>2, BoundsAssumption
  <2>4. early'[0] = early[0] BY <1>0, <1>4, <1>5
  <2>5. early' = [early EXCEPT ![1] = early'[1]] BY <1>0, <1>4, <1>5
  <2>6. early' \in [0 .. 1 -> 0 .. MaxEarly] BY <1>0, <2>3, <2>5
  <2>7. (attached < 2 => early'[1] # 0) /\ (attached = 2 => early'[1] = early[1])
    BY <2>1, <2>2
  <2> QED BY <2>4, <2>6, <2>7
<1>7. left' \in [line : [0 .. 1 -> Nat], puts : Nat] /\ left'.puts = left.puts
  BY <1>0, <1>4, SpendType
<1>8. attached < 2 \/ attached = 2 BY <1>0
<1>9. TakesCallback(1)' <=> TakesCallback(1) BY <1>2 DEF TakesCallback
<1>10. Quiet(1, rx1)'
  <2>1. attached = 2 => TakesCallback(1) BY DEF TakesCallback
  <2> QED BY <1>0, <1>3, <1>6, <1>8, <1>9, <2>1, Primes DEF Quiet
<1>11. Quiet(0, rx0)' BY <1>0, <1>2, <1>6, Primes DEF Quiet, TakesCallback
<1>12. /\ Faithful(0, tx1)' /\ Faithful(1, tx0)' /\ PutsSpent'
       /\ TakenByteLostOnlyToRival' /\ rival' \in BOOLEAN /\ fwd' \in FwdType
  <2>1. \A i \in 0 .. 1 : i = 0 \/ i = 1 OBVIOUS
  <2>2. \A i \in 0 .. 1 : early'[i] = 0 => early[i] = 0 BY <1>6, <1>8, <2>1
  <2> QED BY <1>2, <1>7, <2>2, LineKeeps
<1>13. Port0!NoByteStranded'
  <2>1. WillLook' <=> WillLook BY <1>2 DEF WillLook
  <2> QED BY <1>2, <2>1, InvParts, Stranded0 DEF Length, TxInProgress
<1>14. Receiving(rx0)' /\ Sending(tx1)' /\ Length(tx1)' <= Size BY <1>2, InvParts, Primes
<1> QED BY <1>2, <1>3, <1>6, <1>7, <1>10, <1>11, <1>12, <1>13, <1>14, InvParts

\* The memory and the counters of both sending sides stay as they are.
LEMMA SentCarries ==
  ASSUME Faithful(0, tx1), Faithful(1, tx0), UNCHANGED <<left, early, fwd>>,
         tx0'.buf = tx0.buf, tx0'.rd = tx0.rd, tx0'.wr = tx0.wr,
         tx1'.buf = tx1.buf, tx1'.rd = tx1.rd, tx1'.wr = tx1.wr
  PROVE  Faithful(0, tx1)' /\ Faithful(1, tx0)'
<1>1. (Watched(0)' <=> Watched(0)) /\ (Watched(1)' <=> Watched(1)) BY StaysWatched
<1>2. Length(tx0') = Length(tx0) /\ Length(tx1') = Length(tx1) BY DEF Length
<1>3. Carries(fwd[0], tx1) => Carries(fwd'[0], tx1')
  BY <1>2 DEF Carries, Carried
<1>4. Carries(fwd[1], tx0) => Carries(fwd'[1], tx0')
  BY <1>2 DEF Carries, Carried
<1> QED BY <1>1, <1>3, <1>4, Primes DEF Faithful

\* A byte has left one of the ports.
LEMMA SentInv == ASSUME BridgeInv, Tx0Sent \/ Tx1Sent PROVE BridgeInv'
<1>0. /\ tx0 \in TxType /\ tx1 \in TxType /\ Quiet(0, rx0) /\ Quiet(1, rx1)
      /\ Faithful(0, tx1) /\ Faithful(1, tx0) /\ PutsSpent /\ TakenByteLostOnlyToRival
  BY InvParts
<1>1. UNCHANGED <<rx0, rx1, up, th, left, attached, early, fwd, rival>>
  BY DEF Tx0Sent, Tx1Sent, Port0!TxSent, Port1!TxSent
<1>2. /\ Quiet(0, rx0)' /\ Quiet(1, rx1)' /\ Receiving(rx0)' /\ Receiving(rx1)' /\ PutsSpent'
  BY <1>0, <1>1, InvParts, Primes DEF Quiet, TakesCallback, PutsSpent
<1>3. WillLook' <=> WillLook BY <1>1 DEF WillLook
<1>4. CASE Tx0Sent
  <2>1. tx0' = HwSent(tx0) /\ tx1' = tx1 BY <1>4, Port0Ops DEF Tx0Sent, Port0!TxSent
  <2>2. /\ tx0' \in TxType /\ tx0'.rd = tx0.rd /\ tx0'.wr = tx0.wr
        /\ tx0'.len = tx0.len /\ tx0'.endtx
    BY <1>0, <2>1, SentOps
  <2>3. Length(tx0)' = Length(tx0) /\ (TxInProgress(tx0)' <=> TxInProgress(tx0))
    BY <2>2 DEF Length, TxInProgress
  <2>4. Port0!NoByteStranded' BY <1>1, <1>3, <2>2, <2>3, InvParts, Stranded0
  <2>5. Sending(tx1)' /\ Length(tx1)' <= Size BY <2>1, InvParts, Primes
  <2>6. Faithful(0, tx1)' /\ Faithful(1, tx0)'
    <3>1. tx0'.buf = tx0.buf BY <1>0, <2>1 DEF HwSent, TxType
    <3> QED BY <1>0, <1>1, <2>1, <2>2, <3>1, SentCarries, Primes
  <2>7. TakenByteLostOnlyToRival'
    BY <1>0, <1>1, <2>2, Primes DEF TakenByteLostOnlyToRival, TxInProgress
  <2> QED BY <1>1, <1>2, <2>1, <2>2, <2>4, <2>5, <2>6, <2>7, InvParts
<1>5. CASE Tx1Sent
  <2>1. tx1' = HwSent(tx1) /\ tx0' = tx0 BY <1>5, Port1Ops DEF Tx1Sent, Port1!TxSent
  <2>2. /\ tx1' \in TxType /\ tx1'.rd = tx1.rd /\ tx1'.wr = tx1.wr
        /\ tx1'.len = tx1.len /\ tx1'.endtx
    BY <1>0, <2>1, SentOps
  <2>3. Length(tx1)' = Length(tx1) BY <2>2 DEF Length
  <2>4. Sending(tx1)' BY <2>2, <2>3, InvParts DEF Sending, TxInProgress
  <2>5. Port0!NoByteStranded'
    BY <1>1, <1>3, <2>1, InvParts, Stranded0 DEF Length, TxInProgress
  <2>6. Length(tx1)' <= Size BY <2>3, InvParts
  <2>7. Faithful(0, tx1)' /\ Faithful(1, tx0)'
    <3>1. tx1'.buf = tx1.buf BY <1>0, <2>1 DEF HwSent, TxType
    <3> QED BY <1>0, <1>1, <2>1, <2>2, <3>1, SentCarries, Primes
  <2>8. TakenByteLostOnlyToRival'
    BY <1>0, <1>1, <2>1, Primes DEF TakenByteLostOnlyToRival
  <2> QED BY <1>1, <1>2, <2>1, <2>2, <2>4, <2>5, <2>6, <2>7, <2>8, InvParts
<1> QED BY <1>4, <1>5

\* Steps of the main loop.
LEMMA LoopInv == ASSUME BridgeInv, Attach \/ LoopPut PROVE BridgeInv'
<1>0. /\ tx0 \in TxType /\ th \in Port0!ThType /\ Port0!NoByteStranded
      /\ attached \in 0 .. 2 /\ left \in [line : [0 .. 1 -> Nat], puts : Nat]
      /\ Quiet(0, rx0) /\ Quiet(1, rx1) /\ Faithful(0, tx1) /\ Faithful(1, tx0)
      /\ PutsSpent /\ TakenByteLostOnlyToRival /\ rival \in BOOLEAN
  BY InvParts
<1>1. CASE Attach
  <2>1. /\ UNCHANGED <<up, rx0, tx0, rx1, tx1, th, left, early, fwd, rival>>
        /\ attached < 2 /\ attached' = attached + 1
    BY <1>1 DEF Attach
  <2>2. attached' \in 0 .. 2 BY <1>0, <2>1
  <2>3. /\ TakesCallback(0) => TakesCallback(0)'
        /\ TakesCallback(1) => TakesCallback(1)'
    BY <1>0, <2>1 DEF TakesCallback
  <2>4. /\ Quiet(0, rx0)' /\ Quiet(1, rx1)'
    BY <1>0, <2>1, <2>3, Primes DEF Quiet
  <2>5. /\ Faithful(0, tx1)' /\ Faithful(1, tx0)' /\ PutsSpent' /\ TakenByteLostOnlyToRival'
        /\ rival' \in BOOLEAN /\ fwd' \in FwdType
    <3>1. left'.puts = left.puts /\ \A i \in 0 .. 1 : early'[i] = 0 => early[i] = 0
      BY <2>1
    <3> QED BY <2>1, <3>1, LineKeeps
  <2>6. Port0!NoByteStranded'
    <3>1. WillLook' <=> WillLook BY <2>1 DEF WillLook
    <3> QED BY <1>0, <2>1, <3>1, Stranded0 DEF Length, TxInProgress
  <2>7. Receiving(rx0)' /\ Receiving(rx1)' /\ Sending(tx1)' /\ Length(tx1)' <= Size
    BY <2>1, InvParts, Primes
  <2> QED BY <2>1, <2>2, <2>4, <2>5, <2>6, <2>7, InvParts
<1>2. CASE LoopPut
  <2>1. /\ Port0!Put /\ UNCHANGED <<rx1, tx1, attached, early, fwd>>
        /\ th.pc = "idle" => left.puts > 0
        /\ left' = [left EXCEPT !.puts = IF th.pc = "idle" THEN @ - 1 ELSE @]
        /\ rival' = (rival /\ th'.pc \in Port0!StartPCs)
    BY <1>2 DEF LoopPut
  <2>2. /\ UNCHANGED <<rx0, up>> /\ tx0' \in TxType /\ th' \in Port0!ThType
        /\ Port0!NoByteStranded'
    BY <1>0, <2>1, PutKeeps0
  <2>3. /\ left' \in [line : [0 .. 1 -> Nat], puts : Nat]
        /\ left'.puts < MaxPuts
    <3>1. (IF th.pc = "idle" THEN left.puts - 1 ELSE left.puts) \in Nat
      BY <1>0, <2>1
    <3>2. left'.puts = IF th.pc = "idle" THEN left.puts - 1 ELSE left.puts
      BY <1>0, <2>1
    <3>3. left.puts \in Nat /\ MaxPuts \in Nat BY <1>0, BoundsAssumption
    <3>4. left'.puts < MaxPuts BY <1>0, <3>2, <3>3 DEF PutsSpent
    <3> QED BY <1>0, <2>1, <3>1, <3>4
  <2>4. /\ Quiet(0, rx0)' /\ Quiet(1, rx1)'
        /\ Receiving(rx0)' /\ Receiving(rx1)' /\ Sending(tx1)' /\ Length(tx1)' <= Size
    BY <1>0, <2>1, <2>2, InvParts, Primes DEF Quiet, TakesCallback
  <2>5. left'.puts # MaxPuts /\ left'.puts <= MaxPuts
    <3>1. left'.puts \in Nat /\ MaxPuts \in Nat BY <2>3, BoundsAssumption
    <3> QED BY <2>3, <3>1
  <2>6. PutsSpent' /\ Faithful(1, tx0)' BY <2>5 DEF PutsSpent, Faithful, Watched
  <2>7. Faithful(0, tx1)'
    <3>1. Watched(0)' <=> Watched(0) BY <2>1 DEF Watched
    <3> QED BY <1>0, <2>1, <3>1, Primes DEF Faithful
  <2>8. TakenByteLostOnlyToRival' /\ rival' \in BOOLEAN
    <3>1. ASSUME th'.pc \in Port0!StartPCs, TxInProgress(tx0') PROVE rival'
      <4>1. th.pc \in Port0!StartPCs /\ TxInProgress(tx0) BY <1>0, <2>1, <3>1, PutRival
      <4>2. rival BY <1>0, <4>1 DEF TakenByteLostOnlyToRival
      <4> QED BY <2>1, <3>1, <4>2
    <3> QED BY <1>0, <2>1, <3>1, Primes
  <2>9. fwd' \in FwdType BY <2>1, InvParts
  <2> QED BY <1>0, <2>1, <2>2, <2>3, <2>4, <2>6, <2>7, <2>8, <2>9, InvParts
<1> QED BY <1>1, <1>2

LEMMA NextBridgeInv == BridgeInv /\ [Next]_vars => BridgeInv'
<1> SUFFICES ASSUME BridgeInv, [Next]_vars PROVE BridgeInv' OBVIOUS
<1>1. CASE UNCHANGED vars
  <2>1. UNCHANGED <<up, rx0, tx0, rx1, tx1, th, left, attached, early, fwd, rival>>
    BY <1>1 DEF vars
  <2>2. Port0!NoByteStranded'
    <3>1. WillLook' <=> WillLook BY <2>1 DEF WillLook
    <3> QED BY <2>1, <3>1, InvParts, Stranded0 DEF Length, TxInProgress
  <2>3. /\ Quiet(0, rx0)' /\ Quiet(1, rx1)' /\ Receiving(rx0)' /\ Receiving(rx1)'
        /\ Sending(tx1)' /\ Length(tx1)' <= Size
    BY <2>1, InvParts, Primes DEF Quiet, TakesCallback
  <2>4. /\ Faithful(0, tx1)' /\ Faithful(1, tx0)' /\ PutsSpent' /\ TakenByteLostOnlyToRival'
        /\ rival' \in BOOLEAN /\ fwd' \in FwdType
    BY <2>1, LineKeeps
  <2> QED BY <2>1, <2>2, <2>3, <2>4, InvParts
<1> QED BY <1>1, Irq0Inv, Irq1Inv, Line0Inv, Line1Inv, SentInv, LoopInv DEF Next

LEMMA AlwaysBridgeInv == Spec => []BridgeInv
BY InitBridgeInv, NextBridgeInv, PTL DEF Spec

\* The two ports and the main loop keep their state in shape, although UART0's
\* counters may be set back by the second writer (main.cpp:21-31, :192-209).
THEOREM BridgeTypeCorrect == Spec => []TypeOK
<1>1. BridgeInv => TypeOK BY DEF BridgeInv
<1> QED BY <1>1, AlwaysBridgeInv, PTL

\* On a port whose callback was attached before its first byte, each byte that
\* leaves the other port is the one that came for it, in order, unless it was
\* stored in slot 0 behind a waiting one; a byte that finds the FIFO full is
\* dropped.  On the way to UART0 this holds until the main loop writes there
\* (main.cpp:21-31, nRF5x_UART.c:253-270).
THEOREM BridgeForwards == Spec => []ForwardsWhatArrives
<1>1. BridgeInv => ForwardsWhatArrives
  BY ForwardsByFaithful DEF BridgeInv
<1> QED BY <1>1, AlwaysBridgeInv, PTL

\* With UART1's handler as second writer, put on UART0 finds the transmitter
\* busy behind a byte it has taken out only if that handler started it in
\* between (nRF5x_UART.c:263-270, main.cpp:30).
THEOREM ByteLostOnlyToRival == Spec => []TakenByteLostOnlyToRival
<1>1. BridgeInv => TakenByteLostOnlyToRival BY DEF BridgeInv
<1> QED BY <1>1, AlwaysBridgeInv, PTL

\* A port whose FIFO was not filled before its callback came goes on receiving
\* for ever (nRF5x_UART.c:38-63, :234-239).
THEOREM BridgeKeepsReceiving == Spec => []KeepsReceiving
<1>1. BridgeInv => KeepsReceiving
  <2> SUFFICES ASSUME BridgeInv PROVE KeepsReceiving OBVIOUS
  <2>1. /\ rx0 \in RxType /\ rx1 \in RxType /\ Receiving(rx0) /\ Receiving(rx1)
    BY InvParts
  <2>2. ASSUME NEW r \in RxType, Receiving(r), ~IsFull(r)
        PROVE  r.len = 1 /\ r.sec = 0 /\ ~r.ovf /\ (r.run \/ r.endrx)
    <3>1. Length(r) # Size BY <2>2, RxLength, Sizes DEF IsFull
    <3>2. r.len \in {0, 1} BY DEF RxType
    <3> QED BY <2>2, <3>1, <3>2 DEF Receiving
  <2> QED BY <2>1, <2>2 DEF KeepsReceiving
<1> QED BY <1>1, AlwaysBridgeInv, PTL

\* Nothing that waits to be sent on either port is left without a transfer or
\* somebody about to start one, with two writers on UART0 too
\* (nRF5x_UART.c:67-78, :246-271).
THEOREM BridgeStrandsNothing == Spec => []NoneStranded
<1>1. BridgeInv => NoneStranded BY DEF BridgeInv, Sending, NoneStranded
<1> QED BY <1>1, AlwaysBridgeInv, PTL

\* The FIFO with one writer stays within its memory (nRF5x_FIFO.h:51).
THEOREM Uart1WithinCapacity == Spec => []WithinCapacity1
<1>1. BridgeInv => WithinCapacity1 BY DEF BridgeInv, WithinCapacity1
<1> QED BY <1>1, AlwaysBridgeInv, PTL

\* With a callback, no step changes how many bytes wait.
LEMMA BacklogStep ==
  ASSUME BridgeInv, [Next]_vars, NEW i \in 0 .. 1, TakesCallback(i)
  PROVE  Waiting(i)' = Waiting(i)
<1>0. rx0 \in RxType /\ rx1 \in RxType /\ Receiving(rx0) /\ Receiving(rx1) BY InvParts
<1>1. CASE i = 0
  <2>1. Waiting(i) = Length(rx0) /\ Waiting(i)' = Length(rx0)' BY <1>1 DEF Waiting
  <2>2. CASE rx0' = rx0 BY <2>1, <2>2 DEF Length
  <2>3. CASE Irq0
    <3>1. Length(rx0') = Length(rx0) \/ rx0' = rx0 BY <1>1, <2>3, Irq0Ops
    <3> QED BY <2>1, <2>2, <3>1, Primes
  <2>4. CASE Line0Byte
    <3>1. PICK b \in Byte : rx0.run /\ rx0' = HwReceive(rx0, b)
      BY <2>4, Port0Ops DEF Line0Byte, Port0!LineByte
    <3> QED BY <1>0, <2>1, <3>1, ReceiveKeeps, Primes
  <2>5. Irq0 \/ Line0Byte \/ rx0' = rx0
    <3>1. LoopPut => rx0' = rx0
      BY PutKeeps0, InvParts DEF LoopPut
    <3> QED BY <3>1 DEF Next, Irq1, Line1Byte, Tx0Sent, Tx1Sent, Attach, vars, Port0!TxSent
  <2> QED BY <2>2, <2>3, <2>4, <2>5
<1>2. CASE i = 1
  <2>1. Waiting(i) = Length(rx1) /\ Waiting(i)' = Length(rx1)' BY <1>2 DEF Waiting
  <2>2. CASE rx1' = rx1 BY <2>1, <2>2 DEF Length
  <2>3. CASE Irq1
    <3>1. Length(rx1') = Length(rx1) \/ rx1' = rx1 BY <1>2, <2>3, Irq1Ops
    <3> QED BY <2>1, <2>2, <3>1, Primes
  <2>4. CASE Line1Byte
    <3>1. PICK b \in Byte : rx1.run /\ rx1' = HwReceive(rx1, b)
      BY <2>4, Port1Ops DEF Line1Byte, Port1!LineByte
    <3> QED BY <1>0, <2>1, <3>1, ReceiveKeeps, Primes
  <2>5. Irq1 \/ Line1Byte \/ rx1' = rx1
    BY DEF Next, Irq0, Line0Byte, Tx0Sent, Tx1Sent, Attach, LoopPut, vars, Port1!TxSent
  <2> QED BY <2>2, <2>3, <2>4, <2>5
<1> QED BY <1>1, <1>2

\* From the moment its callback is attached the number of bytes waiting in a
\* receive FIFO never changes again (main.cpp:21-31, :72-73).
THEOREM BacklogStaysFrozen == Spec => BacklogIsFrozen
<1>1. BridgeInv /\ [Next]_vars =>
        [\A i \in 0 .. 1 : TakesCallback(i) => Waiting(i)' = Waiting(i)]_vars
  BY BacklogStep
<1> QED BY <1>1, AlwaysBridgeInv, PTL DEF Spec, BacklogIsFrozen
=============================================================================
