---------------------------- MODULE UarteLemmas ----------------------------
(***************************************************************************)
(* What the operators of Uarte do to the two sides of a well-formed port:  *)
(* the facts the proofs about Uart and Bridge rest on.                     *)
(***************************************************************************)
EXTENDS Uarte, FifoLemmas

LEMMA ZeroSlot == 0 \in Slots /\ 0 \in Positions
BY Sizes DEF Slots, Positions

\* Both sides of a port are FIFOs.
LEMMA LengthIsNat ==
  ASSUME NEW f, f.rd \in Positions, f.wr \in Positions
  PROVE  Length(f) \in Nat /\ Length(f) = Distance(f.rd, f.wr)
<1>1. Length(f) = Distance(f.rd, f.wr) BY DEF Length
<1>2. Distance(f.rd, f.wr) \in Positions BY DistanceCases
<1> QED BY <1>1, <1>2, Sizes DEF Positions

LEMMA TxLength ==
  ASSUME NEW t \in TxType
  PROVE  /\ Length(t) \in Nat /\ Length(t) = Distance(t.rd, t.wr)
         /\ t.rd \in Positions /\ t.wr \in Positions
<1>1. t.rd \in Positions /\ t.wr \in Positions BY DEF TxType
<1> QED BY <1>1, LengthIsNat

LEMMA RxLength ==
  ASSUME NEW r \in RxType
  PROVE  /\ Length(r) \in Nat /\ Length(r) = Distance(r.rd, r.wr)
         /\ r.rd \in Positions /\ r.wr \in Positions
<1>1. r.rd \in Positions /\ r.wr \in Positions BY DEF RxType
<1> QED BY <1>1, LengthIsNat

LEMMA SentOps ==
  ASSUME NEW t \in TxType
  PROVE  /\ HwSent(t) = [t EXCEPT !.run = FALSE, !.endtx = TRUE]
         /\ HwSent(t) \in TxType /\ HwSent(t).len = t.len /\ HwSent(t).endtx
         /\ HwSent(t).rd = t.rd /\ HwSent(t).wr = t.wr
         /\ TxCompleted(t) \in TxType /\ TxCompleted(t).len = 0
         /\ TxCompleted(t).rd = t.rd /\ TxCompleted(t).wr = t.wr
         /\ TxStarted(t) \in TxType /\ TxStarted(t).len = 1 /\ TxStarted(t).run
         /\ TxStarted(t).rd = t.rd /\ TxStarted(t).wr = t.wr
BY DEF TxType, HwSent, TxCompleted, TxStarted

LEMMA CopyOps ==
  ASSUME NEW t \in TxType
  PROVE  /\ TxCopy(t) \in TxType
         /\ TxCopy(t).len = t.len /\ TxCopy(t).run = t.run /\ TxCopy(t).endtx = t.endtx
         /\ TxCopy(t).rd = t.rd /\ TxCopy(t).wr = t.wr
<1>1. PeekAt(t, 0) \in Byte
  <2>1. t.rd + 0 \in Int BY TxLength, Sizes DEF Positions
  <2> QED BY <2>1, SlotInSlots DEF PeekAt, TxType
<1> QED BY <1>1, ZeroSlot DEF TxType, TxCopy

LEMMA StoreOps ==
  ASSUME NEW t \in TxType, NEW b \in Byte
  PROVE  /\ StoreKept(t, b) \in TxType
         /\ StoreKept(t, b).len = t.len /\ StoreKept(t, b).run = t.run
         /\ StoreKept(t, b).endtx = t.endtx
         /\ StoreKept(t, b).rd = t.rd /\ StoreKept(t, b).wr = t.wr
<1>1. Slot(t.wr) \in Slots
  <2>1. t.wr \in Int BY TxLength, Sizes DEF Positions
  <2> QED BY <2>1, SlotInSlots
<1> QED BY <1>1 DEF TxType, StoreKept, Store

\* TX_DONE takes one byte and starts its transfer, or finds nothing to do.
LEMMA NextOps ==
  ASSUME NEW t \in TxType
  PROVE  LET u == TxNext(TxCompleted(t)) IN
         /\ u \in TxType /\ u.wr = t.wr
         /\ Length(t) = 0 => u.len = 0 /\ u.rd = t.rd
         /\ Length(t) # 0 => u.len = 1 /\ u.run /\ u.rd = Next1(t.rd)
<1> DEFINE c == TxCompleted(t)
           d == TxPop(c)
<1>1. c \in TxType /\ c.len = 0 /\ c.rd = t.rd /\ c.wr = t.wr /\ Length(c) = Length(t)
  BY SentOps DEF Length
<1>2. d \in TxType /\ d.len = 0 /\ d.rd = Next1(t.rd) /\ d.wr = t.wr
  <2> HIDE DEF c
  <2>1. TxCopy(c) \in TxType /\ TxCopy(c).len = 0
        /\ TxCopy(c).rd = t.rd /\ TxCopy(c).wr = t.wr
    BY <1>1, CopyOps
  <2>2. Next1(t.rd) \in Positions BY NextCases, TxLength
  <2> QED BY <2>1, <2>2 DEF TxPop, Advance, TxType
<1>3. TxStarted(d) \in TxType /\ TxStarted(d).len = 1 /\ TxStarted(d).run
      /\ TxStarted(d).rd = Next1(t.rd) /\ TxStarted(d).wr = t.wr
  <2> HIDE DEF d
  <2> QED BY <1>2, SentOps
<1>4. Length(t) = 0 => TxNext(c) = c BY <1>1 DEF TxNext
<1>5. Length(t) # 0 => TxNext(c) = TxStarted(d)
  BY <1>1, <1>2 DEF TxNext, TxRequest, TxInProgress
<1> HIDE DEF c, d
<1>6. /\ TxNext(c) \in TxType /\ TxNext(c).wr = t.wr
      /\ Length(t) = 0 => TxNext(c).len = 0 /\ TxNext(c).rd = t.rd
      /\ Length(t) # 0 => TxNext(c).len = 1 /\ TxNext(c).run /\ TxNext(c).rd = Next1(t.rd)
  BY <1>1, <1>3, <1>4, <1>5
<1> QED BY <1>6 DEF c

LEMMA ReceiveOps ==
  ASSUME NEW r \in RxType, NEW b \in Byte
  PROVE  /\ HwReceive(r, b) \in RxType
         /\ HwReceive(r, b).rd = r.rd /\ HwReceive(r, b).wr = r.wr
         /\ HwReceive(r, b).len = r.len /\ HwReceive(r, b).sec = r.sec
         /\ HwReceive(r, b).ovf = r.ovf /\ HwReceive(r, b).run = r.short
         /\ HwReceive(r, b).short = r.short /\ HwReceive(r, b).error = r.error
         /\ HwReceive(r, b).endrx
BY ZeroSlot DEF RxType, HwReceive

LEMMA ErrorOps ==
  ASSUME NEW r \in RxType
  PROVE  /\ HwError(r) \in RxType /\ HwError(r).rd = r.rd /\ HwError(r).wr = r.wr
         /\ RxAborted(r) \in RxType
         /\ RxAborted(r).rd = r.rd /\ RxAborted(r).wr = r.wr
BY DEF RxType, HwError, RxAborted

LEMMA CompletedOps ==
  ASSUME NEW r \in RxType
  PROVE  LET c == RxCompleted(r) IN
         /\ c \in RxType /\ c.rd = r.rd /\ c.wr = r.wr
         /\ c.len = r.sec /\ c.sec = 0 /\ c.ovf = r.ovf /\ c.run = r.run
         /\ c.error = r.error /\ ~c.endrx /\ (~r.short => ~c.short)
BY DEF RxType, RxCompleted

\* RX_DONE: the byte is stored, or dropped when the FIFO is full.
LEMMA StoredOps ==
  ASSUME NEW r \in RxType
  PROVE  LET s == RxStored(r) IN
         /\ s \in RxType /\ s.rd = r.rd
         /\ Length(r) >= Size => s = r
         /\ Length(r) < Size => s.wr = Next1(r.wr) /\ Length(s) = Length(r) + 1
         /\ s.len = r.len /\ s.sec = r.sec /\ s.ovf = r.ovf /\ s.run = r.run
         /\ s.short = r.short /\ s.error = r.error /\ s.endrx = r.endrx
<1>1. CASE Length(r) >= Size
  <2>1. RxStored(r) = r BY <1>1, Sizes, RxLength DEF RxStored, IsFull
  <2> QED BY <1>1, <2>1, Sizes, RxLength
<1>2. CASE ~(Length(r) >= Size)
  <2>1. Slot(r.wr) \in Slots /\ Next1(r.wr) \in Positions
    <3>1. r.wr \in Int BY RxLength, Sizes DEF Positions
    <3> QED BY <3>1, SlotInSlots, NextCases, RxLength
  <2>2. 0 \in Slots BY ZeroSlot
  <2>3. RxStored(r) = PutKept(r, r.buf[0])
    BY <1>2, Sizes, RxLength DEF RxStored, IsFull
  <2> DEFINE s == PutKept(r, r.buf[0])
  <2>4. /\ s \in RxType /\ s.rd = r.rd /\ s.wr = Next1(r.wr)
        /\ s.len = r.len /\ s.sec = r.sec /\ s.ovf = r.ovf /\ s.run = r.run
        /\ s.short = r.short /\ s.error = r.error /\ s.endrx = r.endrx
    BY <2>1, <2>2 DEF RxType, PutKept, StoreKept, Store, Publish
  <2>5. Distance(r.rd, Next1(r.wr)) = Length(r) + 1
    <3>1. Distance(r.rd, r.wr) < Size BY <1>2, RxLength, Sizes
    <3> QED BY <3>1, LengthAfterPublish, RxLength
  <2>6. Length(s) = Length(r) + 1
    <3> HIDE DEF s
    <3> QED BY <2>4, <2>5 DEF Length
  <2> HIDE DEF s
  <2>7. ~(Length(r) >= Size) => s.wr = Next1(r.wr) /\ Length(s) = Length(r) + 1 BY <2>4, <2>6
  <2>8. RxStored(r) = s BY <2>3 DEF s
  <2> QED BY <1>2, <2>4, <2>7, <2>8
<1> QED BY <1>1, <1>2

\* A request of the driver leaves the FIFO alone; the first one starts the
\* receiver.
LEMMA RequestOps ==
  ASSUME NEW r \in RxType
  PROVE  LET q == RxRequest(r) IN
         /\ q \in RxType /\ q.rd = r.rd /\ q.wr = r.wr /\ q.ovf = r.ovf
         /\ q.error = r.error
         /\ r.len = 0 => q.len = 1 /\ q.sec = 0 /\ q.run /\ ~q.endrx /\ q.short = r.short
<1>1. CASE r.len = 0
  <2>1. RxRequest(r) = [r EXCEPT !.len = 1, !.sec = 0, !.endrx = FALSE, !.run = TRUE]
    BY <1>1 DEF RxRequest, RxBusy
  <2> QED BY <2>1 DEF RxType
<1>2. CASE r.len # 0 /\ r.sec = 0
  <2>1. RxRequest(r) = [r EXCEPT !.sec = 1, !.endrx = FALSE, !.short = TRUE]
    BY <1>2 DEF RxRequest, RxBusy
  <2> QED BY <1>2, <2>1 DEF RxType
<1>3. CASE RxBusy(r)
  <2>1. RxRequest(r) = r BY <1>3 DEF RxRequest, RxBusy
  <2> QED BY <1>3, <2>1 DEF RxBusy
<1> QED BY <1>1, <1>2, <1>3 DEF RxBusy

LEMMA RearmedOps ==
  ASSUME NEW r \in RxType
  PROVE  LET q == RxRearmed(r) IN
         /\ q \in RxType /\ q.rd = r.rd /\ q.wr = r.wr /\ q.error = r.error
         /\ Length(r) >= Size => q.ovf /\ q.len = r.len /\ q.sec = r.sec
                                 /\ q.run = r.run /\ q.endrx = r.endrx
                                 /\ q.short = r.short
         /\ Length(r) < Size => q = RxRequest(r)
<1>1. CASE Length(r) >= Size
  <2>1. RxRearmed(r) = [r EXCEPT !.ovf = TRUE]
    BY <1>1, Sizes, RxLength DEF RxRearmed, IsFull
  <2> DEFINE q == RxRearmed(r)
  <2>2. /\ q \in RxType /\ q.rd = r.rd /\ q.wr = r.wr /\ q.error = r.error
        /\ q.ovf /\ q.len = r.len /\ q.sec = r.sec /\ q.run = r.run
        /\ q.endrx = r.endrx /\ q.short = r.short
    BY <2>1 DEF RxType
  <2>3. ~(Length(r) < Size) BY <1>1, Sizes, RxLength
  <2> HIDE DEF q
  <2>4. /\ q \in RxType /\ q.rd = r.rd /\ q.wr = r.wr /\ q.error = r.error
        /\ Length(r) >= Size => q.ovf /\ q.len = r.len /\ q.sec = r.sec
                                /\ q.run = r.run /\ q.endrx = r.endrx
                                /\ q.short = r.short
        /\ Length(r) < Size => q = RxRequest(r)
    BY <2>2, <2>3
  <2> QED BY <2>4 DEF q
<1>2. CASE ~(Length(r) >= Size)
  <2>1. RxRearmed(r) = RxRequest(r)
    BY <1>2, Sizes, RxLength DEF RxRearmed, IsFull
  <2>2. RxRequest(r) \in RxType /\ RxRequest(r).rd = r.rd /\ RxRequest(r).wr = r.wr
        /\ RxRequest(r).error = r.error
    BY RequestOps
  <2> DEFINE q == RxRearmed(r)
  <2>3. q \in RxType /\ q.rd = r.rd /\ q.wr = r.wr /\ q.error = r.error
        /\ q = RxRequest(r)
    BY <2>1, <2>2
  <2> HIDE DEF q
  <2>4. /\ q \in RxType /\ q.rd = r.rd /\ q.wr = r.wr /\ q.error = r.error
        /\ Length(r) >= Size => q.ovf /\ q.len = r.len /\ q.sec = r.sec
                                /\ q.run = r.run /\ q.endrx = r.endrx
                                /\ q.short = r.short
        /\ Length(r) < Size => q = RxRequest(r)
    BY <1>2, <2>3
  <2> QED BY <2>4 DEF q
<1> QED BY <1>1, <1>2

-----------------------------------------------------------------------------
(* What becomes of the bytes that wait in the memory of a FIFO.             *)

\* Every waiting byte outside slot 0 is the byte that was stored.
Undamaged(f) == \A k \in 0 .. Length(f) - 1 : Slot(f.rd + k) # 0 => Intact(f, k)

\* The slot that the next publication reveals holds the byte it was given.
EndIntact(f) == Slot(f.wr) # 0 => f.buf[Slot(f.wr)] = f.want[Slot(f.wr)]

\* A position before the end is not on the slot of the end.
LEMMA EndIsFree ==
  ASSUME NEW f, f.rd \in Positions, f.wr \in Positions, Length(f) < Size,
         NEW k \in 0 .. Length(f) - 1
  PROVE  Slot(f.rd + k) # Slot(f.wr)
<1>1. Length(f) \in Nat /\ Length(f) = Distance(f.rd, f.wr) /\ Size \in Nat
  BY LengthIsNat, Sizes
<1>2. f.rd \in Int /\ k \in Int /\ k < Length(f) /\ Length(f) < k + Size
  BY <1>1, Sizes DEF Positions
<1>3. Slot(f.rd + k) # Slot(f.rd + Length(f)) BY <1>1, <1>2, SlotsDiffer
<1> QED BY <1>1, <1>3, SlotOfEnd

\* Positions behind a mark, counted from the mark or from read_pos.
LEMMA SlotBehind ==
  ASSUME NEW a \in Positions, NEW m \in Positions, NEW k \in Nat
  PROVE  Slot(m + k) = Slot(a + (Distance(a, m) + k))
<1>1. a \in Int /\ m \in Int /\ PosMod \in Int BY Sizes DEF Positions
<1>2. a + Distance(a, m) \in {m, m + PosMod} BY <1>1, DistanceCases
<1>3. CASE a + Distance(a, m) = m
  <2>1. Distance(a, m) \in Int BY DistanceCases, Sizes DEF Positions
  <2> QED BY <1>1, <1>3, <2>1
<1>4. CASE a + Distance(a, m) = m + PosMod
  <2>1. Distance(a, m) \in Int BY DistanceCases, Sizes DEF Positions
  <2>2. a + (Distance(a, m) + k) = (m + k) + PosMod BY <1>1, <1>4, <2>1
  <2>3. Slot((m + k) + PosMod) = Slot(m + k) BY <1>1, SlotWraps
  <2> QED BY <2>2, <2>3
<1> QED BY <1>2, <1>3, <1>4

\* Bytes are dropped from the front, and slot 0 may be overwritten.
LEMMA DropsUndamaged ==
  ASSUME NEW f, f.rd \in Positions, f.wr \in Positions, Undamaged(f),
         NEW g, g.rd \in Positions, g.wr = f.wr, Distance(f.rd, g.rd) <= Length(f),
         \A s \in Slots \ {0} : g.buf[s] = f.buf[s] /\ g.want[s] = f.want[s]
  PROVE  Undamaged(g) /\ (EndIntact(f) => EndIntact(g))
<1> DEFINE d == Distance(f.rd, g.rd)
<1>1. Length(f) = Distance(f.rd, f.wr) /\ Length(f) \in Nat
      /\ Length(g) = Distance(g.rd, g.wr) /\ d \in Nat
  <2>1. Length(f) = Distance(f.rd, f.wr) /\ Length(f) \in Nat BY LengthIsNat
  <2>2. Length(g) = Distance(g.rd, g.wr) BY DEF Length
  <2>3. Distance(f.rd, g.rd) \in Positions BY DistanceCases
  <2> QED BY <2>1, <2>2, <2>3, Sizes DEF Positions
<1>2. Length(g) = Length(f) - d BY <1>1, LengthAfterFlush
<1>3. ASSUME NEW k \in 0 .. Length(g) - 1, Slot(g.rd + k) # 0 PROVE Intact(g, k)
  <2>1. k \in Nat /\ d + k \in 0 .. Length(f) - 1
    <3> HIDE DEF d
    <3> QED BY <1>1, <1>2
  <2>2. Slot(g.rd + k) = Slot(f.rd + (d + k)) BY <2>1, SlotBehind
  <2>3. Slot(g.rd + k) \in Slots \ {0}
    <3>1. g.rd \in Int BY Sizes DEF Positions
    <3>2. g.rd + k \in Int BY <2>1, <3>1
    <3> QED BY <1>3, <3>2, SlotInSlots
  <2>4. Intact(f, d + k) BY <1>3, <2>1, <2>2 DEF Undamaged
  <2> HIDE DEF d
  <2> QED BY <2>2, <2>3, <2>4 DEF Intact, PeekAt
<1>4. EndIntact(f) => EndIntact(g)
  <2>1. f.wr \in Int BY Sizes DEF Positions
  <2>2. Slot(f.wr) \in Slots BY <2>1, SlotInSlots
  <2> QED BY <2>2 DEF EndIntact
<1> QED BY <1>3, <1>4 DEF Undamaged

\* The same for a FIFO whose counters stay.
LEMMA SameUndamaged ==
  ASSUME NEW f, f.rd \in Positions, f.wr \in Positions, Undamaged(f),
         NEW g, g.rd = f.rd, g.wr = f.wr,
         \A s \in Slots \ {0} : g.buf[s] = f.buf[s] /\ g.want[s] = f.want[s]
  PROVE  Undamaged(g) /\ (EndIntact(f) => EndIntact(g))
<1>1. Distance(f.rd, g.rd) = 0 /\ 0 <= Length(f) BY DistanceToSelf, LengthIsNat
<1> QED BY <1>1, DropsUndamaged

\* One byte is taken.
LEMMA AdvanceUndamaged ==
  ASSUME NEW f, f.rd \in Positions, f.wr \in Positions, Undamaged(f), Length(f) > 0,
         NEW g, g.rd = Next1(f.rd), g.wr = f.wr,
         \A s \in Slots \ {0} : g.buf[s] = f.buf[s] /\ g.want[s] = f.want[s]
  PROVE  Undamaged(g) /\ (EndIntact(f) => EndIntact(g))
<1>1. Next1(f.rd) \in Positions BY NextCases
<1>2. Distance(f.rd, Next1(f.rd)) = 1
  <2>1. Distance(f.rd, f.rd) = 0 /\ 0 < Size BY DistanceToSelf, Sizes
  <2>2. Distance(f.rd, f.rd) < Size BY <2>1
  <2>3. Distance(f.rd, Next1(f.rd)) = Distance(f.rd, f.rd) + 1
    BY <2>2, LengthAfterPublish
  <2> QED BY <2>1, <2>3
<1>3. 1 <= Length(f) BY LengthIsNat
<1> QED BY <1>1, <1>2, <1>3, DropsUndamaged

\* A byte is stored at write_pos, where nothing waits.
LEMMA StoreUndamaged ==
  ASSUME NEW f, f.rd \in Positions, f.wr \in Positions, Undamaged(f), Length(f) < Size,
         NEW b, NEW g, g.rd = f.rd, g.wr = f.wr,
         g.buf[Slot(f.wr)] = b, g.want[Slot(f.wr)] = b,
         \A s \in Slots \ {Slot(f.wr)} : g.buf[s] = f.buf[s] /\ g.want[s] = f.want[s]
  PROVE  Undamaged(g) /\ g.buf[Slot(g.wr)] = b /\ g.want[Slot(g.wr)] = b
<1>1. f.wr \in Int /\ f.rd \in Int BY Sizes DEF Positions
<1>2. Slot(f.wr) \in Slots BY <1>1, SlotInSlots
<1>3. Length(g) = Length(f) BY DEF Length
<1>4. ASSUME NEW k \in 0 .. Length(g) - 1, Slot(g.rd + k) # 0 PROVE Intact(g, k)
  <2>1. k \in 0 .. Length(f) - 1 BY <1>3
  <2>2. Slot(f.rd + k) # Slot(f.wr) BY <2>1, EndIsFree
  <2>3. Intact(f, k) BY <1>4, <2>1 DEF Undamaged
  <2>4. Slot(f.rd + k) \in Slots
    <3>1. f.rd + k \in Int BY <1>1
    <3> QED BY <3>1, SlotInSlots
  <2> QED BY <2>2, <2>3, <2>4 DEF Intact, PeekAt
<1> QED BY <1>2, <1>4 DEF Undamaged

\* The stored byte becomes visible.
LEMMA PublishUndamaged ==
  ASSUME NEW f, f.rd \in Positions, f.wr \in Positions, Undamaged(f), Length(f) < Size,
         EndIntact(f),
         NEW g, g.rd = f.rd, g.wr = Next1(f.wr), g.buf = f.buf, g.want = f.want
  PROVE  Undamaged(g)
<1>1. Length(f) = Distance(f.rd, f.wr) /\ Length(f) \in Nat BY LengthIsNat
<1>2. Length(g) = Length(f) + 1
  <2>1. Distance(f.rd, Next1(f.wr)) = Distance(f.rd, f.wr) + 1
    BY <1>1, LengthAfterPublish
  <2> QED BY <1>1, <2>1 DEF Length
<1>3. ASSUME NEW k \in 0 .. Length(g) - 1, Slot(g.rd + k) # 0 PROVE Intact(g, k)
  <2>1. CASE k \in 0 .. Length(f) - 1
    <3>1. Intact(f, k) BY <1>3, <2>1 DEF Undamaged
    <3> QED BY <3>1 DEF Intact, PeekAt
  <2>2. CASE k = Length(f)
    <3>1. Slot(f.rd + k) = Slot(f.wr) BY <1>1, <2>2, SlotOfEnd
    <3> QED BY <1>3, <3>1 DEF EndIntact, Intact, PeekAt
  <2>3. k \in 0 .. Length(f) - 1 \/ k = Length(f) BY <1>1, <1>2
  <2> QED BY <2>1, <2>2, <2>3
<1> QED BY <1>3 DEF Undamaged

\* Nothing waits in an empty FIFO.
LEMMA EmptyUndamaged ==
  ASSUME NEW f, f.rd \in Positions, f.wr = f.rd
  PROVE  Undamaged(f)
<1>1. Length(f) = 0 BY DistanceToSelf DEF Length
<1> QED BY <1>1 DEF Undamaged
=============================================================================
