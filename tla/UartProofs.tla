----------------------------- MODULE UartProofs -----------------------------
(***************************************************************************)
(* Proofs about one port of the UART library, for every size of its FIFOs, *)
(* every width of their counters and every set of bytes.                   *)
(***************************************************************************)
EXTENDS Uart, UarteLemmas

-----------------------------------------------------------------------------
(* Type correctness. *)

LEMMA GotoOps ==
  ASSUME th \in ThType, NEW pc \in PCs, Goto(pc)
  PROVE  th' \in ThType /\ th'.pc = pc /\ th'.mark = 0
BY ZeroSlot DEF ThType, Goto

LEMMA ReturnOps ==
  ASSUME th \in ThType, NEW result \in {"true", "false"}, Return(result)
  PROVE  th' \in ThType /\ th'.pc = "idle" /\ th'.mark = 0
BY ZeroSlot DEF ThType, Return, PCs

\* The handler's receiving half: the FIFO gains the byte or stays as it is.
LEMMA IrqRx ==
  ASSUME TypeOK, IrqError \/ IrqByte \/ IrqStrayByte \/ IrqNoRx
  PROVE  /\ rx' \in RxType /\ rx'.rd = rx.rd
         /\ \/ rx'.wr = rx.wr /\ Length(rx)' = Length(rx)
            \/ /\ Length(rx) < Size /\ Length(rx)' = Length(rx) + 1
               /\ rx'.wr = Next1(rx.wr)
<1>0. rx \in RxType BY DEF TypeOK
<1>1. CASE IrqError
  <2>1. rx' = RxAborted(rx) BY <1>1 DEF IrqError
  <2>2. RxAborted(rx) \in RxType /\ RxAborted(rx).rd = rx.rd /\ RxAborted(rx).wr = rx.wr
    BY <1>0, ErrorOps
  <2> QED BY <2>1, <2>2 DEF Length
<1>2. CASE IrqByte
  <2> DEFINE c == RxCompleted(rx)
             s == RxStored(c)
  <2>1. rx' = RxRearmed(s) BY <1>2 DEF IrqByte
  <2>2. c \in RxType /\ c.rd = rx.rd /\ c.wr = rx.wr BY <1>0, CompletedOps
  <2>3. Length(c) = Length(rx) /\ Length(c) \in Nat
    <3> HIDE DEF c
    <3> QED BY <2>2, RxLength DEF Length
  <2>4. /\ s \in RxType /\ s.rd = c.rd
        /\ Length(c) >= Size => s = c
        /\ Length(c) < Size => s.wr = Next1(c.wr) /\ Length(s) = Length(c) + 1
    <3> HIDE DEF c
    <3> QED BY <2>2, StoredOps
  <2>5. rx' \in RxType /\ rx'.rd = s.rd /\ rx'.wr = s.wr
    <3> HIDE DEF s
    <3> QED BY <2>1, <2>4, RearmedOps
  <2>6. Length(rx)' = Length(s)
    <3> HIDE DEF s
    <3> QED BY <2>5 DEF Length
  <2> HIDE DEF c, s
  <2>7. CASE Length(c) >= Size BY <2>2, <2>3, <2>4, <2>5, <2>6, <2>7
  <2>8. CASE Length(c) < Size BY <2>2, <2>3, <2>4, <2>5, <2>6, <2>8
  <2> QED BY <2>3, <2>7, <2>8, Sizes
<1>3. CASE IrqStrayByte
  <2>1. rx' = [rx EXCEPT !.endrx = FALSE] BY <1>3 DEF IrqStrayByte
  <2>2. rx' \in RxType /\ rx'.rd = rx.rd /\ rx'.wr = rx.wr BY <1>0, <2>1 DEF RxType
  <2> QED BY <2>2 DEF Length
<1>4. CASE IrqNoRx
  <2>1. rx' = rx BY <1>4 DEF IrqNoRx
  <2> QED BY <1>0, <2>1 DEF Length
<1> QED BY <1>1, <1>2, <1>3, <1>4

\* The handler's sending half: the next byte is taken, or the transmitter rests.
LEMMA IrqTx ==
  ASSUME TypeOK, IrqSent \/ IrqNoTx
  PROVE  /\ tx' \in TxType /\ tx'.wr = tx.wr
         /\ \/ tx' = tx
            \/ /\ tx.len # 0 /\ Length(tx) = 0 /\ tx'.rd = tx.rd /\ tx'.len = 0
            \/ /\ tx.len # 0 /\ Length(tx) # 0 /\ tx'.rd = Next1(tx.rd)
               /\ tx'.len = 1 /\ tx'.run
<1>0. tx \in TxType BY DEF TypeOK
<1>1. CASE IrqSent
  <2>1. tx' = TxNext(TxCompleted(tx)) /\ tx.len # 0 BY <1>1 DEF IrqSent
  <2> QED BY <1>0, <2>1, NextOps
<1>2. CASE IrqNoTx
  <2>1. tx' = tx BY <1>2 DEF IrqNoTx
  <2> QED BY <1>0, <2>1
<1> QED BY <1>1, <1>2

\* nRF5x_UART_init after a deinit.
LEMMA ReinitOps ==
  ASSUME TypeOK, Reinit
  PROVE  /\ rx' \in RxType /\ rx'.rd = 0 /\ rx'.wr = 0
         /\ tx' \in TxType /\ tx'.rd = 0 /\ tx'.wr = 0 /\ tx'.len = 0
         /\ th' \in ThType /\ th'.pc = "idle" /\ up' = TRUE
<1> DEFINE r == [rx EXCEPT !.rd = 0, !.wr = 0, !.endrx = FALSE, !.error = FALSE,
                           !.len = 0, !.sec = 0]
<1>1. r \in RxType /\ r.rd = 0 /\ r.wr = 0 BY ZeroSlot DEF TypeOK, RxType
<1>2. rx' = RxRequest(r) BY DEF Reinit
<1>3. rx' \in RxType /\ rx'.rd = 0 /\ rx'.wr = 0
  <2> HIDE DEF r
  <2> QED BY <1>1, <1>2, RequestOps
<1>4. tx' = [tx EXCEPT !.rd = 0, !.wr = 0, !.endtx = FALSE, !.len = 0] BY DEF Reinit
<1>5. tx' \in TxType /\ tx'.rd = 0 /\ tx'.wr = 0 /\ tx'.len = 0
  BY <1>4, ZeroSlot DEF TypeOK, TxType
<1>6. th' \in ThType /\ th'.pc = "idle" /\ up' = TRUE
  BY DEF Reinit, TypeOK, ThType, PCs
<1> QED BY <1>3, <1>5, <1>6

\* One step of the receive call.
LEMMA GetOps ==
  ASSUME TypeOK, Get
  PROVE  /\ rx' \in RxType /\ rx'.wr = rx.wr /\ UNCHANGED <<tx, up>>
         /\ \/ rx'.rd = rx.rd
            \/ rx'.rd = Next1(rx.rd) /\ Length(rx) > 0
         /\ th' \in ThType /\ th.pc \in {"idle"} \cup GetPCs
         /\ th'.pc \in {"idle"} \cup GetPCs
<1>0. rx \in RxType /\ th \in ThType BY DEF TypeOK
<1>1. CASE GetCall
  <2>1. rx' = rx /\ UNCHANGED <<tx, up>> /\ th.pc = "idle"
        /\ th' = [th EXCEPT !.pc = "get_fifo", !.ovf = rx.ovf]
    BY <1>1 DEF GetCall
  <2>2. rx.ovf \in BOOLEAN BY <1>0 DEF RxType
  <2>3. th' \in ThType /\ th'.pc = "get_fifo" BY <1>0, <2>1, <2>2 DEF ThType, PCs, GetPCs
  <2> QED BY <1>0, <2>1, <2>3 DEF GetPCs
<1>2. CASE GetFifo
  <2>1. CASE Length(rx) = 0 /\ th' = [th EXCEPT !.pc = "idle"] /\ rx' = rx
    <3>1. th' \in ThType /\ th'.pc = "idle" BY <1>0, <2>1 DEF ThType, PCs
    <3>2. UNCHANGED <<tx, up>> /\ th.pc = "get_fifo" BY <1>2 DEF GetFifo
    <3> QED BY <1>0, <2>1, <3>1, <3>2 DEF GetPCs
  <2>2. CASE /\ Length(rx) # 0
             /\ rx' = Advance(rx)
             /\ th' = [th EXCEPT !.byte = PeekAt(rx, 0),
                                 !.pc = IF th.ovf THEN "get_clear" ELSE "idle"]
    <3>1. Next1(rx.rd) \in Positions /\ Length(rx) > 0
      BY <1>0, <2>2, RxLength, NextCases
    <3>2. rx' \in RxType /\ rx'.wr = rx.wr /\ rx'.rd = Next1(rx.rd)
      BY <1>0, <2>2, <3>1 DEF Advance, RxType
    <3>3. PeekAt(rx, 0) \in Byte
      <4>1. rx.rd + 0 \in Int BY <1>0, RxLength, Sizes DEF Positions
      <4> QED BY <1>0, <4>1, SlotInSlots DEF PeekAt, RxType
    <3>4. th' \in ThType /\ th'.pc \in {"idle", "get_clear"}
      BY <1>0, <2>2, <3>3 DEF ThType, PCs, GetPCs
    <3>5. UNCHANGED <<tx, up>> /\ th.pc = "get_fifo" BY <1>2 DEF GetFifo
    <3> QED BY <3>1, <3>2, <3>4, <3>5 DEF GetPCs
  <2> QED BY <1>2, <2>1, <2>2 DEF GetFifo
<1>3. CASE GetClear
  <2>1. /\ rx' = [rx EXCEPT !.ovf = FALSE] /\ UNCHANGED <<tx, up>>
        /\ th' = [th EXCEPT !.pc = "get_start"] /\ th.pc = "get_clear"
    BY <1>3 DEF GetClear
  <2>2. rx' \in RxType /\ rx'.wr = rx.wr /\ rx'.rd = rx.rd BY <1>0, <2>1 DEF RxType
  <2>3. th' \in ThType /\ th'.pc = "get_start" BY <1>0, <2>1 DEF ThType, PCs, GetPCs
  <2> QED BY <2>1, <2>2, <2>3 DEF GetPCs
<1>4. CASE GetStart
  <2>1. /\ rx' = RxRequest(rx) /\ UNCHANGED <<tx, up>>
        /\ th' = [th EXCEPT !.pc = "idle"] /\ th.pc = "get_start"
    BY <1>4 DEF GetStart
  <2>2. rx' \in RxType /\ rx'.wr = rx.wr /\ rx'.rd = rx.rd BY <1>0, <2>1, RequestOps
  <2>3. th' \in ThType /\ th'.pc = "idle" BY <1>0, <2>1 DEF ThType, PCs
  <2> QED BY <2>1, <2>2, <2>3 DEF GetPCs
<1> QED BY <1>1, <1>2, <1>3, <1>4 DEF Get

-----------------------------------------------------------------------------
(* The inductive invariant, for all calls and everything the line does. *)

\* What put and flush concluded about the sending FIFO is still so.
TxClaims ==
  /\ Length(tx) <= Size
  /\ th.pc \in {"put_store", "put_load", "put_publish"} => Length(tx) < Size
  /\ th.pc \in {"put_fetch", "put_load_rd", "put_advance"} => Length(tx) > 0
  /\ th.pc \in {"put_publish", "flush_tx"} => th.mark = tx.wr
  /\ th.pc = "put_advance" => th.mark = tx.rd

\* The write_pos that flush has read lies between the counters.
RxClaims ==
  /\ Length(rx) <= Size
  /\ th.pc = "flush_rx" => Distance(rx.rd, th.mark) <= Length(rx)

\* With the thread as the only writer, as in this module, no transfer begins
\* between put's look at the driver and its start; in Bridge, where UART0 has a
\* second writer, one can (Bridge!TakenByteLostOnlyToRival).
StaysIdle == th.pc \in StartPCs => ~TxInProgress(tx)

\* NoByteStranded and StaysIdle need each other: the interrupt cannot take the
\* byte that put has seen, because no transfer is under way.
PortInv == TypeOK /\ NoByteStranded /\ StaysIdle /\ TxClaims /\ RxClaims

\* PortInv holds when the first nRF5x_UART_init returns.
LEMMA InitPortInv == Init => PortInv
<1> SUFFICES ASSUME Init PROVE PortInv OBVIOUS
<1>1. PICK b \in Byte : LET mem == [s \in Slots |-> b] IN
       /\ rx = [rd |-> 0, wr |-> 0, buf |-> mem, want |-> mem, ovf |-> FALSE, len |-> 1,
                sec |-> 0, run |-> TRUE, short |-> FALSE, endrx |-> FALSE, error |-> FALSE]
       /\ tx = [rd |-> 0, wr |-> 0, buf |-> mem, want |-> mem, len |-> 0, run |-> FALSE,
                endtx |-> FALSE]
       /\ th = [pc |-> "idle", byte |-> b, ovf |-> FALSE, mark |-> 0, stored |-> FALSE,
                res |-> "none"]
  BY DEF Init
<1>2. TypeOK
  <2>1. rx \in RxType BY <1>1, ZeroSlot DEF RxType
  <2>2. tx \in TxType BY <1>1, ZeroSlot DEF TxType
  <2>3. th \in ThType BY <1>1, ZeroSlot DEF ThType, PCs
  <2>4. up \in BOOLEAN BY DEF Init
  <2> QED BY <2>1, <2>2, <2>3, <2>4 DEF TypeOK
<1>3. rx.rd = 0 /\ rx.wr = 0 /\ tx.rd = 0 /\ tx.wr = 0 /\ tx.len = 0 /\ th.pc = "idle"
  BY <1>1
<1>4. Length(rx) = 0 /\ Length(tx) = 0 BY <1>3, ZeroSlot, DistanceToSelf DEF Length
<1> QED BY <1>2, <1>3, <1>4, Sizes
        DEF PortInv, NoByteStranded, StaysIdle, TxClaims, RxClaims, TxInProgress, StartPCs

\* The steps of put that only look, load or return.
LEMMA PutLooksInv ==
  ASSUME PortInv,
         \/ PutCall \/ PutRetest \/ PutLoad \/ PutWaited
         \/ PutTimeout \/ PutBusy \/ PutPop \/ PutStart
  PROVE  PortInv'
<1>0. rx \in RxType /\ tx \in TxType /\ th \in ThType /\ up \in BOOLEAN
  BY DEF PortInv, TypeOK
<1>1. UNCHANGED <<rx, tx, up>>
  BY DEF PutCall, PutRetest, PutLoad, PutWaited, PutTimeout, PutBusy, PutPop, PutStart
<1>2. /\ Length(rx)' = Length(rx) /\ Length(tx)' = Length(tx)
      /\ Length(tx) \in Nat /\ tx.wr \in Positions /\ tx.rd \in Positions
  BY <1>0, <1>1, TxLength DEF Length
<1>3. /\ th' \in ThType
      /\ th'.pc # "flush_rx" /\ th'.pc # "flush_tx" /\ th'.pc # "put_advance"
      /\ th'.pc = "put_publish" => th'.mark = tx.wr /\ th.pc = "put_load"
      /\ th'.pc = "put_store" => Length(tx) < Size
      /\ th'.pc = "put_fetch" => Length(tx) > 0
      /\ th'.pc \notin {"put_load", "put_load_rd"}
      /\ th'.pc \in StartPCs => th.pc \in StartPCs \/ ~TxInProgress(tx)
      /\ \/ th.pc \notin StartPCs \cup {"put_busy"} \/ th'.pc \in StartPCs \cup {"put_busy"}
         \/ TxInProgress(tx) \/ Length(tx) = 0
  <2>1. CASE PutCall
    <3>1. PICK b \in Byte :
            th' = [th EXCEPT !.byte = b, !.stored = FALSE, !.res = "none",
                             !.pc = IF IsFull(tx) THEN "put_wait" ELSE "put_retest"]
      BY <2>1 DEF PutCall
    <3>2. th' \in ThType /\ th'.pc \in {"put_wait", "put_retest"} /\ th.pc = "idle"
      BY <1>0, <2>1, <3>1 DEF ThType, PCs, PutPCs, PutCall
    <3> QED BY <3>2 DEF StartPCs
  <2>2. CASE PutRetest
    <3>1. CASE IsFull(tx)
      <4>1. th' \in ThType /\ th'.pc = "idle" /\ th.pc = "put_retest"
        BY <1>0, <2>2, <3>1, ReturnOps DEF PutRetest
      <4> QED BY <4>1 DEF StartPCs
    <3>2. CASE ~IsFull(tx)
      <4>1. Goto("put_store") /\ th.pc = "put_retest" BY <2>2, <3>2 DEF PutRetest
      <4>2. "put_store" \in PCs BY DEF PCs, PutPCs
      <4>3. th' \in ThType /\ th'.pc = "put_store" BY <1>0, <4>1, <4>2, GotoOps
      <4>4. Length(tx) < Size BY <1>2, <3>2, Sizes DEF IsFull
      <4> QED BY <4>1, <4>3, <4>4 DEF StartPCs
    <3> QED BY <3>1, <3>2
  <2>3. CASE PutLoad
    <3>1. th' = [th EXCEPT !.pc = "put_publish", !.mark = tx.wr] /\ th.pc = "put_load"
      BY <2>3 DEF PutLoad
    <3>2. th' \in ThType /\ th'.pc = "put_publish" /\ th'.mark = tx.wr
      BY <1>0, <1>2, <3>1 DEF ThType, PCs, PutPCs
    <3> QED BY <3>1, <3>2 DEF StartPCs
  <2>4. CASE PutWaited \/ (PutTimeout /\ Goto("put_busy"))
    <3>1. Goto("put_busy") /\ th.pc = "put_wait" BY <2>4 DEF PutWaited, PutTimeout
    <3>2. "put_busy" \in PCs BY DEF PCs, PutPCs
    <3>3. th' \in ThType /\ th'.pc = "put_busy" BY <1>0, <3>1, <3>2, GotoOps
    <3> QED BY <3>1, <3>3 DEF StartPCs
  <2>5. CASE PutTimeout /\ Return("false")
    <3>1. th' \in ThType /\ th'.pc = "idle" /\ th.pc = "put_wait"
      BY <1>0, <2>5, ReturnOps DEF PutTimeout
    <3> QED BY <3>1 DEF StartPCs
  <2>6. CASE PutBusy
    <3>1. CASE TxInProgress(tx)
      <4>1. th' \in ThType /\ th'.pc = "idle" BY <1>0, <2>6, <3>1, ReturnOps DEF PutBusy
      <4> QED BY <3>1, <4>1 DEF StartPCs
    <3>2. CASE ~TxInProgress(tx)
      <4>1. Goto("put_pop") BY <2>6, <3>2 DEF PutBusy
      <4>2. "put_pop" \in PCs BY DEF PCs, PutPCs, StartPCs
      <4>3. th' \in ThType /\ th'.pc = "put_pop" BY <1>0, <4>1, <4>2, GotoOps
      <4> QED BY <3>2, <4>3 DEF StartPCs
    <3> QED BY <3>1, <3>2
  <2>7. CASE PutPop
    <3>1. CASE Length(tx) = 0
      <4>1. th' \in ThType /\ th'.pc = "idle" BY <1>0, <2>7, <3>1, ReturnOps DEF PutPop
      <4> QED BY <3>1, <4>1 DEF StartPCs
    <3>2. CASE Length(tx) # 0
      <4>1. Goto("put_fetch") /\ th.pc = "put_pop" BY <2>7, <3>2 DEF PutPop
      <4>2. "put_fetch" \in PCs BY DEF PCs, PutPCs, StartPCs
      <4>3. th' \in ThType /\ th'.pc = "put_fetch" BY <1>0, <4>1, <4>2, GotoOps
      <4>4. Length(tx) > 0 BY <1>2, <3>2
      <4> QED BY <4>1, <4>3, <4>4 DEF StartPCs
    <3> QED BY <3>1, <3>2
  <2>8. CASE PutStart
    <3>1. CASE TxInProgress(tx)
      <4>1. th' \in ThType /\ th'.pc = "idle" BY <1>0, <2>8, <3>1, ReturnOps DEF PutStart
      <4> QED BY <3>1, <4>1 DEF StartPCs
    <3>2. CASE ~TxInProgress(tx)
      <4>1. Goto("put_go") BY <2>8, <3>2 DEF PutStart
      <4>2. "put_go" \in PCs BY DEF PCs, PutPCs, StartPCs
      <4>3. th' \in ThType /\ th'.pc = "put_go" BY <1>0, <4>1, <4>2, GotoOps
      <4> QED BY <3>2, <4>3 DEF StartPCs
    <3> QED BY <3>1, <3>2
  <2> QED BY <2>1, <2>2, <2>3, <2>4, <2>5, <2>6, <2>7, <2>8 DEF PutTimeout
<1>4. TypeOK' BY <1>0, <1>1, <1>3 DEF TypeOK
<1>5. NoByteStranded' BY <1>1, <1>2, <1>3 DEF PortInv, NoByteStranded, TxInProgress
<1>6. StaysIdle' BY <1>1, <1>3 DEF PortInv, StaysIdle, TxInProgress
<1>7. TxClaims' BY <1>1, <1>2, <1>3 DEF PortInv, TxClaims
<1>8. RxClaims' BY <1>1, <1>2, <1>3 DEF PortInv, RxClaims
<1> QED BY <1>4, <1>5, <1>6, <1>7, <1>8 DEF PortInv

\* The steps of put that change the sending FIFO or start a transfer, and the
\* load of read_pos before its increment.
LEMMA PutChangesInv ==
  ASSUME PortInv,
         PutStore \/ PutPublish \/ PutFetch \/ PutLoadRd \/ PutAdvance \/ PutGo
  PROVE  PortInv'
<1>0. rx \in RxType /\ tx \in TxType /\ th \in ThType /\ up \in BOOLEAN
  BY DEF PortInv, TypeOK
<1>1. UNCHANGED <<rx, up>>
  BY DEF PutStore, PutPublish, PutFetch, PutLoadRd, PutAdvance, PutGo
<1>2. /\ Length(rx)' = Length(rx) /\ Length(tx) \in Nat /\ Length(tx) = Distance(tx.rd, tx.wr)
      /\ tx.wr \in Positions /\ tx.rd \in Positions
  BY <1>0, <1>1, TxLength DEF Length
<1>3. Size \in Nat BY Sizes
<1>4. ASSUME NEW pc \in {"put_load", "put_load_rd", "put_start"}, Goto(pc)
      PROVE  th' \in ThType /\ th'.pc = pc
  <2>1. pc \in PCs BY DEF PCs, PutPCs, StartPCs
  <2> QED BY <1>0, <1>4, <2>1, GotoOps
<1>5. CASE PutStore
  <2>1. tx' = StoreKept(tx, th.byte) /\ Goto("put_load") /\ th.pc = "put_store"
    BY <1>5 DEF PutStore
  <2>2. /\ tx' \in TxType /\ tx'.len = tx.len /\ tx'.run = tx.run
        /\ tx'.endtx = tx.endtx /\ tx'.rd = tx.rd /\ tx'.wr = tx.wr
    <3>1. th.byte \in Byte BY <1>0 DEF ThType
    <3> QED BY <1>0, <2>1, <3>1, StoreOps
  <2>3. Length(tx)' = Length(tx) BY <2>2 DEF Length
  <2>4. th' \in ThType /\ th'.pc = "put_load" BY <1>4, <2>1
  <2> QED BY <1>0, <1>1, <1>2, <2>1, <2>2, <2>3, <2>4
          DEF PortInv, TypeOK, NoByteStranded, StaysIdle, TxClaims, RxClaims,
              TxInProgress, StartPCs
<1>6. CASE PutPublish
  <2>1. /\ tx' = [tx EXCEPT !.wr = Next1(th.mark)] /\ th.pc = "put_publish"
        /\ th' = [th EXCEPT !.pc = "put_busy", !.mark = 0, !.stored = TRUE]
    BY <1>6 DEF PutPublish
  <2>2. th.mark = tx.wr /\ Length(tx) < Size BY <2>1 DEF PortInv, TxClaims
  <2>3. Next1(tx.wr) \in Positions BY <1>2, NextCases
  <2>4. /\ tx' \in TxType /\ tx'.len = tx.len /\ tx'.run = tx.run
        /\ tx'.endtx = tx.endtx /\ tx'.rd = tx.rd /\ tx'.wr = Next1(tx.wr)
    BY <1>0, <2>1, <2>2, <2>3 DEF TxType
  <2>5. Length(tx)' = Length(tx) + 1
    <3>1. Distance(tx.rd, Next1(tx.wr)) = Distance(tx.rd, tx.wr) + 1
      BY <1>2, <2>2, LengthAfterPublish
    <3> QED BY <1>2, <2>4, <3>1 DEF Length
  <2>6. th' \in ThType /\ th'.pc = "put_busy"
    BY <1>0, <2>1, ZeroSlot DEF ThType, PCs, PutPCs
  <2>7. Length(tx)' <= Size BY <1>2, <1>3, <2>2, <2>5
  <2> QED BY <1>0, <1>1, <1>2, <2>1, <2>4, <2>6, <2>7
          DEF PortInv, TypeOK, NoByteStranded, StaysIdle, TxClaims, RxClaims,
              TxInProgress, StartPCs
<1>7. CASE PutFetch
  <2>1. tx' = TxCopy(tx) /\ Goto("put_load_rd") /\ th.pc = "put_fetch"
    BY <1>7 DEF PutFetch
  <2>2. /\ tx' \in TxType /\ tx'.len = tx.len /\ tx'.run = tx.run
        /\ tx'.endtx = tx.endtx /\ tx'.rd = tx.rd /\ tx'.wr = tx.wr
    BY <1>0, <2>1, CopyOps
  <2>3. Length(tx)' = Length(tx) BY <2>2 DEF Length
  <2>4. th' \in ThType /\ th'.pc = "put_load_rd" BY <1>4, <2>1
  <2> QED BY <1>0, <1>1, <1>2, <2>1, <2>2, <2>3, <2>4
          DEF PortInv, TypeOK, NoByteStranded, StaysIdle, TxClaims, RxClaims,
              TxInProgress, StartPCs
<1>8. CASE PutLoadRd
  <2>1. /\ th' = [th EXCEPT !.pc = "put_advance", !.mark = tx.rd] /\ tx' = tx
        /\ th.pc = "put_load_rd"
    BY <1>8 DEF PutLoadRd
  <2>2. th' \in ThType /\ th'.pc = "put_advance" /\ th'.mark = tx.rd
    BY <1>0, <1>2, <2>1 DEF ThType, PCs, PutPCs, StartPCs
  <2>3. Length(tx)' = Length(tx) BY <2>1 DEF Length
  <2> QED BY <1>0, <1>1, <1>2, <2>1, <2>2, <2>3
          DEF PortInv, TypeOK, NoByteStranded, StaysIdle, TxClaims, RxClaims,
              TxInProgress, StartPCs
<1>9. CASE PutAdvance
  <2>1. /\ tx' = [tx EXCEPT !.rd = Next1(th.mark)] /\ th.pc = "put_advance"
        /\ Goto("put_start")
    BY <1>9 DEF PutAdvance
  <2>2. th.mark = tx.rd /\ Length(tx) > 0 /\ Length(tx) <= Size
    BY <2>1 DEF PortInv, TxClaims
  <2>3. Next1(tx.rd) \in Positions BY <1>2, NextCases
  <2>4. /\ tx' \in TxType /\ tx'.len = tx.len /\ tx'.run = tx.run
        /\ tx'.endtx = tx.endtx /\ tx'.rd = Next1(tx.rd) /\ tx'.wr = tx.wr
    BY <1>0, <2>1, <2>2, <2>3 DEF TxType
  <2>5. Length(tx)' = Length(tx) - 1
    <3>1. Distance(Next1(tx.rd), tx.wr) = Distance(tx.rd, tx.wr) - 1
      BY <1>2, <2>2, LengthAfterAdvance
    <3> QED BY <1>2, <2>4, <3>1 DEF Length
  <2>6. th' \in ThType /\ th'.pc = "put_start" BY <1>4, <2>1
  <2>7. Length(tx)' <= Size BY <1>2, <1>3, <2>2, <2>5
  <2> QED BY <1>0, <1>1, <1>2, <2>1, <2>4, <2>6, <2>7
          DEF PortInv, TypeOK, NoByteStranded, StaysIdle, TxClaims, RxClaims,
              TxInProgress, StartPCs
<1>10. CASE PutGo
  <2>1. tx' = TxStarted(tx) /\ Return("true") /\ th.pc = "put_go"
    BY <1>10 DEF PutGo
  <2>2. /\ tx' \in TxType /\ tx'.len = 1 /\ tx'.run
        /\ tx'.rd = tx.rd /\ tx'.wr = tx.wr
    BY <1>0, <2>1, SentOps
  <2>3. Length(tx)' = Length(tx) BY <2>2 DEF Length
  <2>4. th' \in ThType /\ th'.pc = "idle" BY <1>0, <2>1, ReturnOps
  <2> QED BY <1>0, <1>1, <1>2, <2>1, <2>2, <2>3, <2>4
          DEF PortInv, TypeOK, NoByteStranded, StaysIdle, TxClaims, RxClaims,
              TxInProgress, StartPCs
<1> QED BY <1>5, <1>6, <1>7, <1>8, <1>9, <1>10

\* get takes from the receiving FIFO and leaves the sending side alone.
LEMMA GetInv == ASSUME PortInv, Get PROVE PortInv'
<1>0. rx \in RxType /\ tx \in TxType /\ up \in BOOLEAN BY DEF PortInv, TypeOK
<1>1. /\ rx' \in RxType /\ rx'.wr = rx.wr /\ UNCHANGED <<tx, up>>
      /\ rx'.rd = rx.rd \/ (rx'.rd = Next1(rx.rd) /\ Length(rx) > 0)
      /\ th' \in ThType /\ th.pc \in {"idle"} \cup GetPCs
      /\ th'.pc \in {"idle"} \cup GetPCs
  BY GetOps DEF PortInv
<1>2. Length(tx)' = Length(tx) BY <1>1 DEF Length
<1>3. Length(rx)' <= Size
  <2>1. Length(rx) \in Nat /\ Length(rx) = Distance(rx.rd, rx.wr)
        /\ rx.rd \in Positions /\ rx.wr \in Positions /\ Size \in Nat
    BY <1>0, RxLength, Sizes
  <2>2. Length(rx) <= Size BY DEF PortInv, RxClaims
  <2>3. CASE rx'.rd = rx.rd
    <3>1. Length(rx)' = Length(rx) BY <1>1, <2>3 DEF Length
    <3> QED BY <2>2, <3>1
  <2>4. CASE rx'.rd = Next1(rx.rd) /\ Length(rx) > 0
    <3>1. Distance(Next1(rx.rd), rx.wr) = Distance(rx.rd, rx.wr) - 1
      BY <2>1, <2>4, LengthAfterAdvance
    <3>2. Length(rx)' = Length(rx) - 1 BY <1>1, <2>1, <2>4, <3>1 DEF Length
    <3> QED BY <2>1, <2>2, <3>2
  <2> QED BY <1>1, <2>3, <2>4
<1> QED BY <1>0, <1>1, <1>2, <1>3
        DEF PortInv, TypeOK, NoByteStranded, StaysIdle, TxClaims, RxClaims,
            TxInProgress, StartPCs, GetPCs

LEMMA FlushInv == ASSUME PortInv, Flush PROVE PortInv'
<1>0. rx \in RxType /\ tx \in TxType /\ th \in ThType /\ up \in BOOLEAN
  BY DEF PortInv, TypeOK
<1>1. /\ Length(tx) \in Nat /\ tx.wr \in Positions /\ tx.rd \in Positions
      /\ Length(rx) \in Nat /\ rx.wr \in Positions /\ rx.rd \in Positions
      /\ Length(rx) = Distance(rx.rd, rx.wr) /\ Size \in Nat
      /\ Length(rx) <= Size
  BY <1>0, TxLength, RxLength, Sizes DEF PortInv, RxClaims
<1>2. CASE FlushCall
  <2>1. /\ th' = [th EXCEPT !.pc = "flush_rx", !.mark = rx.wr] /\ th.pc = "idle"
        /\ UNCHANGED <<rx, tx, up>>
    BY <1>2 DEF FlushCall
  <2>2. th' \in ThType /\ th'.pc = "flush_rx" /\ th'.mark = rx.wr
    BY <1>0, <1>1, <2>1 DEF ThType, PCs
  <2>3. Length(tx)' = Length(tx) /\ Length(rx)' = Length(rx) BY <2>1 DEF Length
  <2>4. RxClaims' BY <1>1, <2>1, <2>2, <2>3 DEF RxClaims
  <2> QED BY <1>0, <2>1, <2>2, <2>3, <2>4
          DEF PortInv, TypeOK, NoByteStranded, StaysIdle, TxClaims, TxInProgress, StartPCs
<1>3. CASE FlushRx
  <2>1. /\ rx' = [rx EXCEPT !.rd = th.mark] /\ th.pc = "flush_rx"
        /\ th' = [th EXCEPT !.pc = "flush_tx", !.mark = tx.wr]
        /\ UNCHANGED <<tx, up>>
    BY <1>3 DEF FlushRx, FlushTo
  <2>2. th' \in ThType /\ th'.pc = "flush_tx" /\ th'.mark = tx.wr
    BY <1>0, <1>1, <2>1 DEF ThType, PCs
  <2>3. th.mark \in Positions BY <1>0 DEF ThType
  <2>4. rx' \in RxType /\ rx'.rd = th.mark /\ rx'.wr = rx.wr
    BY <1>0, <2>1, <2>3 DEF RxType
  <2>5. Length(rx)' <= Size
    <3>1. Distance(rx.rd, th.mark) <= Distance(rx.rd, rx.wr)
      BY <1>1, <2>1 DEF PortInv, RxClaims
    <3>2. Distance(th.mark, rx.wr) = Distance(rx.rd, rx.wr) - Distance(rx.rd, th.mark)
      BY <1>1, <2>3, <3>1, LengthAfterFlush
    <3>3. Distance(rx.rd, th.mark) \in Nat
      <4>1. Distance(rx.rd, th.mark) \in Positions BY <1>1, <2>3, DistanceCases
      <4> QED BY <4>1, Sizes DEF Positions
    <3>4. Length(rx)' = Distance(th.mark, rx.wr) BY <2>4 DEF Length
    <3> QED BY <1>1, <3>2, <3>3, <3>4
  <2>6. Length(tx)' = Length(tx) BY <2>1 DEF Length
  <2> QED BY <1>0, <2>1, <2>2, <2>4, <2>5, <2>6
          DEF PortInv, TypeOK, NoByteStranded, StaysIdle, TxClaims, RxClaims,
              TxInProgress, StartPCs
<1>4. CASE FlushTx
  <2>1. /\ tx' = [tx EXCEPT !.rd = th.mark] /\ th.pc = "flush_tx"
        /\ Goto("idle") /\ UNCHANGED <<rx, up>>
    BY <1>4 DEF FlushTx, FlushTo
  <2>2. th.mark = tx.wr BY <2>1 DEF PortInv, TxClaims
  <2>3. tx' \in TxType /\ tx'.rd = tx.wr /\ tx'.wr = tx.wr /\ tx'.len = tx.len
        /\ tx'.run = tx.run /\ tx'.endtx = tx.endtx
    BY <1>0, <1>1, <2>1, <2>2 DEF TxType
  <2>4. Length(tx)' = 0 BY <1>1, <2>3, DistanceToSelf DEF Length
  <2>5. "idle" \in PCs BY DEF PCs
  <2>6. th' \in ThType /\ th'.pc = "idle" BY <1>0, <2>1, <2>5, GotoOps
  <2>7. Length(rx)' = Length(rx) BY <2>1 DEF Length
  <2> QED BY <1>0, <1>1, <2>1, <2>3, <2>4, <2>6, <2>7
          DEF PortInv, TypeOK, NoByteStranded, StaysIdle, TxClaims, RxClaims,
              TxInProgress, StartPCs
<1> QED BY <1>2, <1>3, <1>4 DEF Flush

LEMMA ReopenInv == ASSUME PortInv, Deinit \/ Reinit PROVE PortInv'
<1>0. rx \in RxType /\ tx \in TxType /\ th \in ThType BY DEF PortInv, TypeOK
<1>1. CASE Deinit
  <2>1. /\ th' = [th EXCEPT !.pc = "closed"] /\ rx' = [rx EXCEPT !.run = FALSE]
        /\ tx' = [tx EXCEPT !.run = FALSE] /\ up' = FALSE
    BY <1>1 DEF Deinit
  <2>2. /\ rx' \in RxType /\ rx'.rd = rx.rd /\ rx'.wr = rx.wr
        /\ tx' \in TxType /\ tx'.rd = tx.rd /\ tx'.wr = tx.wr
        /\ th' \in ThType /\ th'.pc = "closed"
    BY <1>0, <2>1 DEF RxType, TxType, ThType, PCs
  <2>3. Length(rx)' = Length(rx) /\ Length(tx)' = Length(tx) BY <2>2 DEF Length
  <2> QED BY <2>1, <2>2, <2>3
          DEF PortInv, TypeOK, NoByteStranded, StaysIdle, TxClaims, RxClaims,
              TxInProgress, StartPCs
<1>2. CASE Reinit
  <2>1. /\ rx' \in RxType /\ rx'.rd = 0 /\ rx'.wr = 0
        /\ tx' \in TxType /\ tx'.rd = 0 /\ tx'.wr = 0 /\ tx'.len = 0
        /\ th' \in ThType /\ th'.pc = "idle" /\ up' = TRUE
    BY <1>2, ReinitOps DEF PortInv
  <2>2. Length(rx)' = 0 /\ Length(tx)' = 0
    BY <2>1, ZeroSlot, DistanceToSelf DEF Length
  <2> QED BY <2>1, <2>2, Sizes
          DEF PortInv, TypeOK, NoByteStranded, StaysIdle, TxClaims, RxClaims,
              TxInProgress, StartPCs
<1> QED BY <1>1, <1>2

LEMMA HardwareInv == ASSUME PortInv, Hardware PROVE PortInv'
<1>0. rx \in RxType /\ tx \in TxType /\ th \in ThType BY DEF PortInv, TypeOK
<1>1. CASE LineByte \/ LineError
  <2>1. UNCHANGED <<tx, up, th>> BY <1>1 DEF LineByte, LineError
  <2>2. rx' \in RxType /\ rx'.rd = rx.rd /\ rx'.wr = rx.wr
    <3>1. CASE LineByte
      <4>1. PICK b \in Byte : rx' = HwReceive(rx, b) BY <3>1 DEF LineByte
      <4> QED BY <1>0, <4>1, ReceiveOps
    <3>2. CASE LineError
      <4>1. rx' = HwError(rx) BY <3>2 DEF LineError
      <4> QED BY <1>0, <4>1, ErrorOps
    <3> QED BY <1>1, <3>1, <3>2
  <2>3. Length(rx)' = Length(rx) /\ Length(tx)' = Length(tx) BY <2>1, <2>2 DEF Length
  <2> QED BY <2>1, <2>2, <2>3
          DEF PortInv, TypeOK, NoByteStranded, StaysIdle, TxClaims, RxClaims,
              TxInProgress, StartPCs
<1>2. CASE TxSent
  <2>1. UNCHANGED <<rx, up, th>> /\ tx' = HwSent(tx) BY <1>2 DEF TxSent
  <2>2. /\ tx' \in TxType /\ tx'.rd = tx.rd /\ tx'.wr = tx.wr
        /\ tx'.len = tx.len /\ tx'.endtx
    BY <1>0, <2>1, SentOps
  <2>3. Length(rx)' = Length(rx) /\ Length(tx)' = Length(tx) BY <2>1, <2>2 DEF Length
  <2> QED BY <2>1, <2>2, <2>3
          DEF PortInv, TypeOK, NoByteStranded, StaysIdle, TxClaims, RxClaims,
              TxInProgress, StartPCs
<1> QED BY <1>1, <1>2 DEF Hardware

\* The interrupt handler, at whatever access of the thread it comes.
LEMMA IrqInv == ASSUME PortInv, Irq PROVE PortInv'
<1>0. rx \in RxType /\ tx \in TxType /\ th \in ThType BY DEF PortInv, TypeOK
<1>1. UNCHANGED <<up, th>> BY DEF Irq
<1>2. /\ rx' \in RxType /\ rx'.rd = rx.rd
      /\ \/ rx'.wr = rx.wr /\ Length(rx)' = Length(rx)
         \/ /\ Length(rx) < Size /\ Length(rx)' = Length(rx) + 1
            /\ rx'.wr = Next1(rx.wr)
  BY IrqRx DEF PortInv, Irq
<1>3. /\ tx' \in TxType /\ tx'.wr = tx.wr
      /\ \/ tx' = tx
         \/ /\ tx.len # 0 /\ Length(tx) = 0 /\ tx'.rd = tx.rd /\ tx'.len = 0
         \/ /\ tx.len # 0 /\ Length(tx) # 0 /\ tx'.rd = Next1(tx.rd)
            /\ tx'.len = 1 /\ tx'.run
  BY IrqTx DEF PortInv, Irq
<1>4. RxClaims'
  <2>1. Length(rx) \in Nat /\ Size \in Nat BY <1>0, RxLength, Sizes
  <2>2. Length(rx)' <= Size BY <1>2, <2>1 DEF PortInv, RxClaims
  <2>3. ASSUME th.pc = "flush_rx" PROVE Distance(rx.rd, th.mark) <= Length(rx)'
    <3>1. Distance(rx.rd, th.mark) <= Length(rx) BY <2>3 DEF PortInv, RxClaims
    <3>2. Distance(rx.rd, th.mark) \in Int
      <4>1. rx.rd \in Positions /\ th.mark \in Positions
        BY <1>0, RxLength DEF ThType
      <4>2. Distance(rx.rd, th.mark) \in Positions BY <4>1, DistanceCases
      <4> QED BY <4>2, Sizes DEF Positions
    <3> QED BY <1>2, <2>1, <3>1, <3>2
  <2> QED BY <1>1, <1>2, <2>2, <2>3 DEF RxClaims
<1>5. Length(tx) \in Nat /\ Length(tx) = Distance(tx.rd, tx.wr) /\ Length(tx) <= Size
      /\ tx.rd \in Positions /\ tx.wr \in Positions /\ Size \in Nat
  BY <1>0, TxLength, Sizes DEF PortInv, TxClaims
<1>6. CASE tx' = tx
  <2>1. Length(tx)' = Length(tx) BY <1>6 DEF Length
  <2> QED BY <1>1, <1>2, <1>3, <1>4, <1>6, <2>1
          DEF PortInv, TypeOK, NoByteStranded, StaysIdle, TxClaims, TxInProgress
<1>7. CASE tx.len # 0 /\ Length(tx) = 0 /\ tx'.rd = tx.rd /\ tx'.len = 0
  <2>1. Length(tx)' = 0 BY <1>3, <1>7 DEF Length
  <2>2. th.pc \notin StartPCs BY <1>7 DEF PortInv, StaysIdle, TxInProgress
  <2>3. TxClaims' BY <1>1, <1>3, <1>5, <1>7, <2>1, <2>2 DEF PortInv, TxClaims, StartPCs
  <2>4. NoByteStranded' BY <1>7, <2>1 DEF NoByteStranded, TxInProgress
  <2>5. StaysIdle' BY <1>1, <2>2 DEF StaysIdle
  <2> QED BY <1>0, <1>1, <1>2, <1>3, <1>4, <2>3, <2>4, <2>5 DEF PortInv, TypeOK
<1>8. CASE /\ tx.len # 0 /\ Length(tx) # 0 /\ tx'.rd = Next1(tx.rd)
           /\ tx'.len = 1 /\ tx'.run
  <2>1. Length(tx)' = Length(tx) - 1
    <3>1. Length(tx) > 0 BY <1>5, <1>8
    <3>2. Distance(Next1(tx.rd), tx.wr) = Distance(tx.rd, tx.wr) - 1
      BY <1>5, <3>1, LengthAfterAdvance
    <3> QED BY <1>3, <1>5, <1>8, <3>2 DEF Length
  <2>2. th.pc \notin StartPCs BY <1>8 DEF PortInv, StaysIdle, TxInProgress
  <2>3. Length(tx)' <= Size /\ (Length(tx) < Size => Length(tx)' < Size)
    BY <1>5, <2>1
  <2>4. TxClaims' BY <1>1, <1>3, <2>2, <2>3 DEF PortInv, TxClaims, StartPCs
  <2>5. NoByteStranded' BY <1>8 DEF NoByteStranded, TxInProgress
  <2>6. StaysIdle' BY <1>1, <2>2 DEF StaysIdle
  <2> QED BY <1>0, <1>1, <1>2, <1>3, <1>4, <2>4, <2>5, <2>6 DEF PortInv, TypeOK
<1> QED BY <1>3, <1>6, <1>7, <1>8

LEMMA NextPortInv == PortInv /\ [Next]_vars => PortInv'
<1> SUFFICES ASSUME PortInv, [Next]_vars PROVE PortInv' OBVIOUS
<1>1. CASE Hardware BY <1>1, HardwareInv
<1>2. CASE Irq BY <1>2, IrqInv
<1>3. CASE Get BY <1>3, GetInv
<1>4. CASE Put BY <1>4, PutLooksInv, PutChangesInv DEF Put, PutStep
<1>5. CASE Flush BY <1>5, FlushInv
<1>6. CASE Deinit \/ Reinit BY <1>6, ReopenInv
<1>7. CASE UNCHANGED vars
  BY <1>7 DEF vars, PortInv, TypeOK, NoByteStranded, StaysIdle, TxClaims, RxClaims,
              TxInProgress, Length
<1> QED BY <1>1, <1>2, <1>3, <1>4, <1>5, <1>6, <1>7 DEF Next

LEMMA AlwaysPortInv == Spec => []PortInv
BY InitPortInv, NextPortInv, PTL DEF Spec

\* The port's state keeps its shape: the driver's lengths stay 0 or 1 and the
\* counters of both FIFOs stay in range (nRF5x_UART.c, nrf_drv_uarte.c).
THEOREM UartTypeCorrect == Spec => []TypeOK
<1>1. PortInv => TypeOK BY DEF PortInv
<1> QED BY <1>1, AlwaysPortInv, PTL

\* Whatever is called and whatever the line does, a byte that waits to be sent
\* has a transfer ahead of it, or a put about to start one
\* (nRF5x_UART.c:67-78, :246-271).
THEOREM NothingStranded == Spec => []NoByteStranded
<1>1. PortInv => NoByteStranded BY DEF PortInv
<1> QED BY <1>1, AlwaysPortInv, PTL

\* Neither FIFO of a port with one writer overflows, also with flush, line
\* errors and reopening (nRF5x_FIFO.h:51).
THEOREM PortWithinCapacity == Spec => []FifosWithinCapacity
<1>1. PortInv => FifosWithinCapacity
  BY DEF PortInv, TxClaims, RxClaims, FifosWithinCapacity
<1> QED BY <1>1, AlwaysPortInv, PTL

-----------------------------------------------------------------------------
(* Receiving, on a clean line and with a client that only calls get and put. *)

CleanUse == Ops \subseteq {"get", "put"} /\ "error" \notin Line /\ Size > 1

\* Either a request is outstanding and the receiver works on it, or it has
\* stopped at a full FIFO and the flag waits for a get, or a get has seen it.
Asking == /\ Length(rx) < Size /\ ~rx.ovf
          /\ (rx.run /\ ~rx.endrx) \/ (rx.endrx /\ ~rx.run)
          /\ th.pc \notin {"get_clear", "get_start"}
          /\ th.pc = "get_fifo" => ~th.ovf
Stopped == /\ ~rx.run /\ ~rx.endrx
           /\ rx.ovf <=> th.pc # "get_start"
           /\ th.pc \in {"get_clear", "get_start"} => Length(rx) < Size
           /\ th.pc \notin {"get_clear", "get_start"} => Length(rx) > 0
           /\ th.pc = "get_fifo" /\ ~th.ovf => Length(rx) = Size

RecvInv == /\ PortInv
           /\ up /\ th.pc \notin {"flush_rx", "flush_tx", "closed"}
           /\ rx.sec = 0 /\ ~rx.short /\ ~rx.error
           /\ rx.len = 1 => Asking
           /\ rx.len = 0 => Stopped

\* RecvInv holds when the first nRF5x_UART_init returns.
LEMMA InitRecvInv == Init => RecvInv
<1> SUFFICES ASSUME Init PROVE RecvInv OBVIOUS
<1>1. PICK b \in Byte : LET mem == [s \in Slots |-> b] IN
       /\ rx = [rd |-> 0, wr |-> 0, buf |-> mem, want |-> mem, ovf |-> FALSE, len |-> 1,
                sec |-> 0, run |-> TRUE, short |-> FALSE, endrx |-> FALSE, error |-> FALSE]
       /\ th = [pc |-> "idle", byte |-> b, ovf |-> FALSE, mark |-> 0, stored |-> FALSE,
                res |-> "none"]
       /\ up = TRUE
  BY DEF Init
<1>2. /\ rx.rd = 0 /\ rx.wr = 0 /\ rx.len = 1 /\ rx.sec = 0 /\ rx.run /\ ~rx.short
      /\ ~rx.endrx /\ ~rx.error /\ ~rx.ovf /\ th.pc = "idle" /\ up
  BY <1>1
<1>3. Length(rx) = 0 /\ Size > 0 BY <1>2, ZeroSlot, DistanceToSelf, Sizes DEF Length
<1> QED BY <1>2, <1>3, InitPortInv DEF RecvInv, Asking

\* put and get do not meet.
LEMMA PutApart ==
  ASSUME TypeOK, Put
  PROVE  /\ UNCHANGED <<rx, up>> /\ th.pc \in {"idle"} \cup PutPCs
         /\ th'.pc \in {"idle"} \cup PutPCs
<1>0. th \in ThType BY DEF TypeOK
<1>1. UNCHANGED <<rx, up>> /\ th.pc \in {"idle"} \cup PutPCs
  BY DEF Put, PutCall, PutStep, PutTimeout, PutRetest, PutStore, PutLoad, PutPublish,
         PutWaited, PutBusy, PutPop, PutFetch, PutLoadRd, PutAdvance, PutStart, PutGo,
         PutPCs, StartPCs
<1>2. \A pc \in PutPCs : Goto(pc) => th'.pc = pc BY <1>0 DEF Goto, ThType
<1>3. \A res \in {"true", "false"} : Return(res) => th'.pc = "idle"
  BY <1>0 DEF Return, ThType
<1>4. CASE PutCall
  <2>1. PICK b \in Byte :
          th' = [th EXCEPT !.byte = b, !.stored = FALSE, !.res = "none",
                           !.pc = IF IsFull(tx) THEN "put_wait" ELSE "put_retest"]
    BY <1>4 DEF PutCall
  <2>2. th'.pc \in PutPCs BY <1>0, <2>1 DEF ThType, PutPCs
  <2> QED BY <1>1, <2>2
<1>5. CASE PutLoad \/ PutPublish \/ PutLoadRd
  <2>1. th'.pc \in PutPCs
    BY <1>0, <1>5 DEF PutLoad, PutPublish, PutLoadRd, ThType, PutPCs, StartPCs
  <2> QED BY <1>1, <2>1
<1>6. CASE PutRetest \/ PutStore \/ PutWaited \/ PutTimeout \/ PutBusy \/ PutPop
           \/ PutFetch \/ PutAdvance \/ PutStart \/ PutGo
  <2>1. (\E pc \in PutPCs : Goto(pc)) \/ (\E res \in {"true", "false"} : Return(res))
    BY <1>6 DEF PutRetest, PutStore, PutWaited, PutTimeout, PutBusy, PutPop,
                PutFetch, PutAdvance, PutStart, PutGo, PutPCs, StartPCs
  <2> QED BY <1>1, <1>2, <1>3, <2>1
<1> QED BY <1>4, <1>5, <1>6 DEF Put, PutStep

\* Taking a byte: the flag that was copied decides who restarts the receiver.
LEMMA GetRecvInv ==
  ASSUME RecvInv, CleanUse, Get
  PROVE  RecvInv'
<1>0. rx \in RxType /\ th \in ThType BY DEF RecvInv, PortInv, TypeOK
<1>1. PortInv' BY GetInv DEF RecvInv
<1>2. Length(rx) \in Nat /\ Size \in Nat /\ Size > 1 /\ Length(rx) <= Size
      /\ rx.len \in {0, 1}
  BY <1>0, RxLength, Sizes DEF RecvInv, PortInv, RxClaims, CleanUse, RxType
<1>3. CASE GetCall
  <2>1. rx' = rx /\ up' = up /\ th' = [th EXCEPT !.pc = "get_fifo", !.ovf = rx.ovf]
        /\ th.pc = "idle"
    BY <1>3 DEF GetCall
  <2>2. th'.pc = "get_fifo" /\ th'.ovf = rx.ovf BY <1>0, <2>1 DEF ThType
  <2>3. Length(rx)' = Length(rx) BY <2>1 DEF Length
  <2> QED BY <1>1, <2>1, <2>2, <2>3 DEF RecvInv, Asking, Stopped
<1>4. CASE GetFifo
  <2>1. up' = up /\ th.pc = "get_fifo" BY <1>4 DEF GetFifo
  <2>2. CASE Length(rx) = 0 /\ th' = [th EXCEPT !.pc = "idle"] /\ rx' = rx
    <3>1. th'.pc = "idle" BY <1>0, <2>2 DEF ThType
    <3>2. Length(rx)' = Length(rx) BY <2>2 DEF Length
    <3> QED BY <1>1, <1>2, <2>1, <2>2, <3>1, <3>2 DEF RecvInv, Asking, Stopped
  <2>3. CASE /\ Length(rx) # 0
             /\ rx' = Advance(rx)
             /\ th' = [th EXCEPT !.byte = PeekAt(rx, 0),
                                 !.pc = IF th.ovf THEN "get_clear" ELSE "idle"]
    <3>1. /\ rx'.rd = Next1(rx.rd) /\ rx'.wr = rx.wr /\ rx'.len = rx.len
          /\ rx'.sec = rx.sec /\ rx'.ovf = rx.ovf /\ rx'.run = rx.run
          /\ rx'.short = rx.short /\ rx'.error = rx.error /\ rx'.endrx = rx.endrx
      BY <1>0, <2>3 DEF Advance, RxType
    <3>2. th'.pc = IF th.ovf THEN "get_clear" ELSE "idle" BY <1>0, <2>3 DEF ThType
    <3>3. Length(rx)' = Length(rx) - 1
      <4>1. Distance(rx.rd, rx.wr) > 0 BY <1>0, <1>2, <2>3, RxLength
      <4>2. Distance(Next1(rx.rd), rx.wr) = Distance(rx.rd, rx.wr) - 1
        BY <1>0, <4>1, RxLength, LengthAfterAdvance
      <4> QED BY <3>1, <4>2 DEF Length
    <3>4. CASE rx.len = 1
      <4>1. Asking /\ ~th.ovf BY <2>1, <3>4 DEF RecvInv, Asking
      <4>2. Asking' BY <1>2, <3>1, <3>2, <3>3, <4>1 DEF Asking
      <4> QED BY <1>1, <2>1, <3>1, <3>2, <3>4, <4>1, <4>2 DEF RecvInv
    <3>5. CASE rx.len = 0
      <4>1. Stopped /\ rx.ovf BY <2>1, <3>5 DEF RecvInv, Stopped
      <4>2. Length(rx)' < Size BY <1>2, <3>3
      <4>3. ~th.ovf => Length(rx)' > 0 BY <1>2, <2>1, <3>3, <4>1 DEF Stopped
      <4>4. Stopped' BY <3>1, <3>2, <4>1, <4>2, <4>3 DEF Stopped
      <4> QED BY <1>1, <2>1, <3>1, <3>2, <3>5, <4>4 DEF RecvInv
    <3> QED BY <1>2, <3>4, <3>5
  <2> QED BY <1>4, <2>2, <2>3 DEF GetFifo
<1>5. CASE GetClear
  <2>1. rx' = [rx EXCEPT !.ovf = FALSE] /\ up' = up /\ th' = [th EXCEPT !.pc = "get_start"]
        /\ th.pc = "get_clear"
    BY <1>5 DEF GetClear
  <2>2. th'.pc = "get_start" BY <1>0, <2>1 DEF ThType
  <2>3. /\ rx'.rd = rx.rd /\ rx'.wr = rx.wr /\ rx'.len = rx.len /\ rx'.sec = rx.sec
        /\ ~rx'.ovf /\ rx'.run = rx.run /\ rx'.short = rx.short
        /\ rx'.error = rx.error /\ rx'.endrx = rx.endrx
    BY <1>0, <2>1 DEF RxType
  <2>4. Length(rx)' = Length(rx) BY <2>3 DEF Length
  <2> QED BY <1>1, <1>2, <2>1, <2>2, <2>3, <2>4 DEF RecvInv, Asking, Stopped
<1>6. CASE GetStart
  <2>1. rx' = RxRequest(rx) /\ up' = up /\ th' = [th EXCEPT !.pc = "idle"]
        /\ th.pc = "get_start"
    BY <1>6 DEF GetStart
  <2>2. th'.pc = "idle" BY <1>0, <2>1 DEF ThType
  <2>3. rx.len = 0 /\ Stopped BY <1>2, <2>1 DEF RecvInv, Asking
  <2>4. /\ rx'.rd = rx.rd /\ rx'.wr = rx.wr /\ rx'.ovf = rx.ovf /\ rx'.error = rx.error
        /\ rx'.len = 1 /\ rx'.sec = 0 /\ rx'.run /\ ~rx'.endrx /\ rx'.short = rx.short
    BY <1>0, <2>1, <2>3, RequestOps
  <2>5. Length(rx)' = Length(rx) BY <2>4 DEF Length
  <2> QED BY <1>1, <2>1, <2>2, <2>3, <2>4, <2>5 DEF RecvInv, Asking, Stopped
<1> QED BY <1>3, <1>4, <1>5, <1>6 DEF Get

\* RX_DONE: room for one byte was kept, and the handler asks for the next one
\* or leaves the flag.
LEMMA IrqRecvInv ==
  ASSUME RecvInv, Irq
  PROVE  RecvInv'
<1>0. rx \in RxType /\ th \in ThType BY DEF RecvInv, PortInv, TypeOK
<1>1. PortInv' /\ UNCHANGED <<up, th>> BY IrqInv DEF RecvInv, Irq
<1>2. Length(rx) \in Nat /\ Size \in Nat /\ rx.len \in {0, 1}
  BY <1>0, RxLength, Sizes DEF RxType
<1>3. CASE IrqError BY <1>3 DEF IrqError, RecvInv
<1>4. CASE IrqStrayByte BY <1>2, <1>4 DEF IrqStrayByte, RecvInv, Stopped
<1>5. CASE IrqNoRx
  <2>1. rx' = rx BY <1>5 DEF IrqNoRx
  <2>2. Length(rx)' = Length(rx) BY <2>1 DEF Length
  <2> QED BY <1>1, <2>1, <2>2 DEF RecvInv, Asking, Stopped
<1>6. CASE IrqByte
  <2> DEFINE c == RxCompleted(rx)
             s == RxStored(c)
             n == Length(rx)
  <2>1. rx' = RxRearmed(s) /\ rx.endrx /\ rx.len = 1 BY <1>6 DEF IrqByte
  <2>2. Asking /\ rx.sec = 0 /\ ~rx.short /\ ~rx.error BY <2>1 DEF RecvInv
  <2>3. n < Size /\ ~rx.ovf /\ ~rx.run BY <2>1, <2>2 DEF Asking
  <2>4. /\ c \in RxType /\ c.rd = rx.rd /\ c.wr = rx.wr /\ c.len = 0 /\ c.sec = 0
        /\ ~c.ovf /\ ~c.run /\ ~c.error /\ ~c.endrx /\ ~c.short
    BY <1>0, <2>2, <2>3, CompletedOps
  <2>5. Length(c) = n
    <3> HIDE DEF c
    <3> QED BY <2>4 DEF Length
  <2>6. /\ s \in RxType /\ Length(s) = n + 1 /\ s.len = 0 /\ s.sec = 0
        /\ ~s.ovf /\ ~s.run /\ ~s.error /\ ~s.endrx /\ ~s.short
    <3> HIDE DEF c, n
    <3> QED BY <2>3, <2>4, <2>5, StoredOps
  <2>7. /\ rx'.rd = s.rd /\ rx'.wr = s.wr /\ ~rx'.error
        /\ Length(s) >= Size => /\ rx'.ovf /\ rx'.len = 0 /\ rx'.sec = 0 /\ ~rx'.run
                               /\ ~rx'.endrx /\ ~rx'.short
        /\ Length(s) < Size => rx' = RxRequest(s)
    <3> HIDE DEF s
    <3> QED BY <2>1, <2>6, RearmedOps
  <2>8. Length(rx)' = n + 1
    <3> HIDE DEF s
    <3> QED BY <2>6, <2>7 DEF Length
  <2>9. CASE n + 1 >= Size
    <3>1. Length(rx)' = Size /\ Size > 0
      <4> HIDE DEF n, s, c
      <4>1. n \in Nat BY <1>2 DEF n
      <4> QED BY <1>2, <2>3, <2>8, <2>9, <4>1, Sizes
    <3>2. /\ rx'.ovf /\ rx'.len = 0 /\ rx'.sec = 0 /\ ~rx'.run /\ ~rx'.endrx
          /\ ~rx'.short /\ ~rx'.error
      <4> HIDE DEF s
      <4> QED BY <2>6, <2>7, <2>9
    <3> QED BY <1>1, <2>2, <3>1, <3>2 DEF RecvInv, Asking, Stopped
  <2>10. CASE n + 1 < Size
    <3>1. /\ rx'.len = 1 /\ rx'.sec = 0 /\ rx'.run /\ ~rx'.endrx /\ ~rx'.short
          /\ ~rx'.ovf /\ ~rx'.error
      <4> HIDE DEF s
      <4> QED BY <2>6, <2>7, <2>10, RequestOps
    <3>2. Length(rx)' < Size BY <2>8, <2>10
    <3> QED BY <1>1, <2>2, <3>1, <3>2 DEF RecvInv, Asking, Stopped
  <2> QED BY <1>2, <2>9, <2>10
<1> QED BY <1>3, <1>4, <1>5, <1>6 DEF Irq

LEMMA NextRecvInv ==
  ASSUME CleanUse
  PROVE  RecvInv /\ [Next]_vars => RecvInv'
<1> SUFFICES ASSUME RecvInv, [Next]_vars PROVE RecvInv' OBVIOUS
<1>0. PortInv' BY NextPortInv DEF RecvInv
<1>1. rx \in RxType BY DEF RecvInv, PortInv, TypeOK
<1>2. CASE LineByte
  <2>1. PICK b \in Byte : rx' = HwReceive(rx, b) /\ UNCHANGED <<up, th>> /\ rx.run
    BY <1>2 DEF LineByte
  <2>2. /\ rx'.rd = rx.rd /\ rx'.wr = rx.wr /\ rx'.len = rx.len /\ rx'.sec = rx.sec
        /\ rx'.ovf = rx.ovf /\ rx'.run = rx.short /\ rx'.short = rx.short
        /\ rx'.error = rx.error /\ rx'.endrx
    BY <1>1, <2>1, ReceiveOps
  <2>3. Length(rx)' = Length(rx) BY <2>2 DEF Length
  <2> QED BY <1>0, <2>1, <2>2, <2>3 DEF RecvInv, Asking, Stopped
<1>3. CASE LineError BY <1>3 DEF LineError, CleanUse
<1>4. CASE TxSent \/ Put \/ UNCHANGED vars
  <2>1. /\ UNCHANGED <<rx, up>>
        /\ th' = th \/ (/\ th.pc \in {"idle"} \cup PutPCs
                        /\ th'.pc \in {"idle"} \cup PutPCs)
    BY <1>4, PutApart DEF TxSent, vars, RecvInv, PortInv
  <2>2. Length(rx)' = Length(rx) BY <2>1 DEF Length
  <2> QED BY <1>0, <2>1, <2>2 DEF RecvInv, Asking, Stopped, PutPCs, StartPCs
<1>5. CASE Irq BY <1>5, IrqRecvInv
<1>6. CASE Get BY <1>6, GetRecvInv
<1>7. CASE Flush BY <1>7 DEF Flush, FlushCall, FlushRx, FlushTx, CleanUse, RecvInv
<1>8. CASE Deinit \/ Reinit BY <1>8 DEF Deinit, Reinit, CleanUse, RecvInv
<1> QED BY <1>2, <1>3, <1>4, <1>5, <1>6, <1>7, <1>8 DEF Next, Hardware

LEMMA AlwaysRecvInv ==
  ASSUME CleanUse
  PROVE  Spec => []RecvInv
<1>1. RecvInv /\ [Next]_vars => RecvInv' BY NextRecvInv
<1> QED BY <1>1, InitRecvInv, PTL DEF Spec

\* Used cleanly, the driver is never asked for a byte that would find no slot
\* (nRF5x_UART.c:38-40, :57, :239).
THEOREM EveryRequestHasRoom ==
  ASSUME CleanUse
  PROVE  Spec => []RequestsHaveRoom
<1>1. RecvInv => RequestsHaveRoom
  <2> SUFFICES ASSUME RecvInv PROVE RequestsHaveRoom OBVIOUS
  <2>1. rx \in RxType BY DEF RecvInv, PortInv, TypeOK
  <2>2. Length(rx) \in Nat /\ Size \in Nat /\ rx.len \in {0, 1}
    BY <2>1, RxLength, Sizes DEF RxType
  <2> QED BY <2>2 DEF RecvInv, PortInv, RxClaims, Asking, RequestsHaveRoom
<1> QED BY <1>1, AlwaysRecvInv, PTL

\* Used cleanly, the receiver never goes deaf, whichever way the interrupt
\* falls between the looks of get (nRF5x_UART.c:57-63, :234-239).
THEOREM ReceiverStaysAlive ==
  ASSUME CleanUse
  PROVE  Spec => []ReceptionAlive
<1>1. RecvInv => ReceptionAlive
  <2> SUFFICES ASSUME RecvInv PROVE ReceptionAlive OBVIOUS
  <2>1. rx.len \in {0, 1} BY DEF RecvInv, PortInv, TypeOK, RxType
  <2> QED BY <2>1 DEF RecvInv, Asking, Stopped, ReceptionAlive
<1> QED BY <1>1, AlwaysRecvInv, PTL

-----------------------------------------------------------------------------
(* The receive and transmit buffers are also the memories of the FIFOs.     *)

\* A byte that put has stored and not yet published is waiting too.
Stored == th.pc \in {"put_load", "put_publish"}

DamageInv == /\ PortInv
             /\ Undamaged(rx) /\ Undamaged(tx)
             /\ Stored => EndIntact(tx)

LEMMA InitDamageInv == Init => DamageInv
<1> SUFFICES ASSUME Init PROVE DamageInv OBVIOUS
<1>1. rx.rd = 0 /\ rx.wr = 0 /\ tx.rd = 0 /\ tx.wr = 0 /\ th.pc = "idle" BY DEF Init
<1>2. Undamaged(rx) /\ Undamaged(tx) BY <1>1, ZeroSlot, EmptyUndamaged
<1> QED BY <1>1, <1>2, InitPortInv DEF DamageInv, Stored

\* The primed operators are the operators of the primed records.
LEMMA UndamagedPrime ==
  /\ Undamaged(rx)' <=> Undamaged(rx')
  /\ Undamaged(tx)' <=> Undamaged(tx')
  /\ EndIntact(tx)' <=> EndIntact(tx')
BY DEF Undamaged, EndIntact, Intact, PeekAt, Length, Distance

\* nRF5x_FIFO_put in RX_DONE copies slot 0 into the slot of write_pos, and only
\* then can the next byte overwrite slot 0.
LEMMA RxStoredUndamaged ==
  ASSUME NEW r \in RxType, Undamaged(r)
  PROVE  Undamaged(RxStored(r))
<1>1. r.rd \in Positions /\ r.wr \in Positions BY RxLength
<1>2. CASE Length(r) < Size
  <2> DEFINE m == StoreKept(r, r.buf[0])
  <2>1. /\ m.rd = r.rd /\ m.wr = r.wr
        /\ m.buf[Slot(r.wr)] = r.buf[0] /\ m.want[Slot(r.wr)] = r.buf[0]
        /\ \A s \in Slots \ {Slot(r.wr)} : m.buf[s] = r.buf[s] /\ m.want[s] = r.want[s]
    <3>1. Slot(r.wr) \in Slots
      <4>1. r.wr \in Int BY <1>1, Sizes DEF Positions
      <4> QED BY <4>1, SlotInSlots
    <3> QED BY <3>1 DEF StoreKept, Store, RxType
  <2> DEFINE p == Publish(m)
  <2>2. p.rd = m.rd /\ p.wr = Next1(m.wr) /\ p.buf = m.buf /\ p.want = m.want
    BY DEF Publish, StoreKept, Store, RxType
  <2>3. RxStored(r) = p
    BY <1>2, RxLength, Sizes DEF RxStored, IsFull, PutKept
  <2> HIDE DEF m, p
  <2>4. /\ Undamaged(m) /\ m.buf[Slot(m.wr)] = r.buf[0]
        /\ m.want[Slot(m.wr)] = r.buf[0]
    BY <1>1, <1>2, <2>1, StoreUndamaged
  <2>5. EndIntact(m) BY <2>4 DEF EndIntact
  <2>6. Length(m) < Size BY <1>2, <2>1 DEF Length
  <2>7. Undamaged(p) BY <1>1, <2>1, <2>2, <2>4, <2>5, <2>6, PublishUndamaged
  <2> QED BY <2>3, <2>7
<1>3. CASE ~(Length(r) < Size)
  <2>1. RxStored(r) = r BY <1>3, RxLength, Sizes DEF RxStored, IsFull
  <2> QED BY <2>1
<1> QED BY <1>2, <1>3

\* What only changes other fields of a side does not touch its bytes.
LEMMA RxKeepsUndamaged ==
  ASSUME NEW r \in RxType, Undamaged(r),
         NEW q, q.rd = r.rd, q.wr = r.wr, q.buf = r.buf, q.want = r.want
  PROVE  Undamaged(q)
<1>1. r.rd \in Positions /\ r.wr \in Positions BY RxLength
<1> QED BY <1>1, SameUndamaged

LEMMA TxKeepsUndamaged ==
  ASSUME NEW t \in TxType, Undamaged(t),
         NEW q, q.rd = t.rd, q.wr = t.wr, q.buf = t.buf, q.want = t.want
  PROVE  Undamaged(q) /\ (EndIntact(t) => EndIntact(q))
<1>1. t.rd \in Positions /\ t.wr \in Positions BY TxLength
<1> QED BY <1>1, SameUndamaged

\* nRF5x_FIFO_get into tx_buffer, the FIFO's own slot 0.
LEMMA TxCopyUndamaged ==
  ASSUME NEW t \in TxType, Undamaged(t)
  PROVE  Undamaged(TxCopy(t)) /\ (EndIntact(t) => EndIntact(TxCopy(t)))
<1> DEFINE c == TxCopy(t)
<1>1. t.rd \in Positions /\ t.wr \in Positions BY TxLength
<1>2. c.rd = t.rd /\ c.wr = t.wr BY CopyOps
<1>3. \A s \in Slots \ {0} : c.buf[s] = t.buf[s] /\ c.want[s] = t.want[s]
  BY DEF TxCopy, TxType
<1> HIDE DEF c
<1>4. Undamaged(c) /\ (EndIntact(t) => EndIntact(c)) BY <1>1, <1>2, <1>3, SameUndamaged
<1> QED BY <1>4 DEF c

LEMMA TxNextUndamaged ==
  ASSUME NEW t \in TxType, Undamaged(t)
  PROVE  LET u == TxNext(TxCompleted(t)) IN
         Undamaged(u) /\ (EndIntact(t) => EndIntact(u))
<1> DEFINE c == TxCompleted(t)
           d == TxCopy(c)
           e == Advance(d)
           u == TxNext(c)
<1>1. c \in TxType /\ c.rd = t.rd /\ c.wr = t.wr /\ c.len = 0
      /\ c.buf = t.buf /\ c.want = t.want
  BY DEF TxType, TxCompleted
<1>2. Undamaged(c) /\ (EndIntact(t) => EndIntact(c))
  <2> HIDE DEF c
  <2> QED BY <1>1, TxKeepsUndamaged
<1>3. CASE Length(c) = 0
  <2>1. u = c BY <1>3 DEF TxNext
  <2> HIDE DEF u, c
  <2>2. Undamaged(u) /\ (EndIntact(t) => EndIntact(u)) BY <1>2, <2>1
  <2> QED BY <2>2 DEF u, c
<1>4. CASE Length(c) # 0
  <2>1. d \in TxType /\ d.rd = t.rd /\ d.wr = t.wr /\ d.len = 0
    <3> HIDE DEF c
    <3> QED BY <1>1, CopyOps
  <2>2. Undamaged(d) /\ (EndIntact(c) => EndIntact(d))
    <3> HIDE DEF c
    <3> QED BY <1>1, <1>2, TxCopyUndamaged
  <2>3. e \in TxType /\ e.rd = Next1(d.rd) /\ e.wr = d.wr /\ e.len = 0
        /\ e.buf = d.buf /\ e.want = d.want
    <3> HIDE DEF d
    <3>1. Next1(d.rd) \in Positions BY <2>1, TxLength, NextCases
    <3> QED BY <2>1, <3>1 DEF TxType, Advance
  <2>4. Length(d) > 0
    <3>1. Length(d) = Length(c)
      <4> HIDE DEF c, d
      <4> QED BY <1>1, <2>1 DEF Length
    <3>2. Length(c) \in Nat
      <4> HIDE DEF c
      <4> QED BY <1>1, TxLength
    <3> HIDE DEF c, d
    <3> QED BY <1>4, <3>1, <3>2
  <2>5. Undamaged(e) /\ (EndIntact(d) => EndIntact(e))
    <3> HIDE DEF d, e
    <3> QED BY <2>1, <2>2, <2>3, <2>4, TxLength, AdvanceUndamaged
  <2>6. u = TxStarted(e) BY <1>4, <2>3 DEF TxNext, TxRequest, TxInProgress, TxPop
  <2>7. u.rd = e.rd /\ u.wr = e.wr /\ u.buf = e.buf /\ u.want = e.want
    <3> HIDE DEF e, u
    <3> QED BY <2>3, <2>6 DEF TxStarted, TxType
  <2>8. Undamaged(u) /\ (EndIntact(e) => EndIntact(u))
    <3> HIDE DEF e, u
    <3> QED BY <2>3, <2>5, <2>7, TxKeepsUndamaged
  <2>9. EndIntact(t) => EndIntact(u) BY <1>2, <2>2, <2>5, <2>8
  <2> HIDE DEF u, c
  <2>10. Undamaged(u) /\ (EndIntact(t) => EndIntact(u)) BY <2>8, <2>9
  <2> QED BY <2>10 DEF u, c
<1> QED BY <1>3, <1>4

\* The receiving side, whoever moves.
LEMMA RxDamageStep ==
  ASSUME DamageInv, [Next]_vars
  PROVE  Undamaged(rx)'
<1>0. /\ rx \in RxType /\ th \in ThType /\ Undamaged(rx)
      /\ rx.rd \in Positions /\ rx.wr \in Positions
  BY RxLength DEF DamageInv, PortInv, TypeOK
<1> SUFFICES Undamaged(rx') BY UndamagedPrime
<1>1. CASE rx' = rx BY <1>0, <1>1
<1>2. CASE LineByte
  <2>1. PICK b \in Byte : rx' = HwReceive(rx, b) BY <1>2 DEF LineByte
  <2>2. /\ rx'.rd = rx.rd /\ rx'.wr = rx.wr
        /\ \A s \in Slots \ {0} : rx'.buf[s] = rx.buf[s] /\ rx'.want[s] = rx.want[s]
    BY <1>0, <2>1 DEF HwReceive, RxType
  <2> QED BY <1>0, <2>2, SameUndamaged
<1>3. CASE LineError \/ IrqError \/ IrqStrayByte \/ GetClear \/ GetStart \/ Deinit
  <2>1. rx'.rd = rx.rd /\ rx'.wr = rx.wr /\ rx'.buf = rx.buf /\ rx'.want = rx.want
    BY <1>0, <1>3 DEF LineError, IrqError, IrqStrayByte, GetClear, GetStart, Deinit,
                      HwError, RxAborted, RxRequest, RxBusy, RxType
  <2> QED BY <1>0, <2>1, RxKeepsUndamaged
<1>4. CASE IrqByte
  <2> DEFINE c == RxCompleted(rx)
             s == RxStored(c)
  <2>1. rx' = RxRearmed(s) BY <1>4 DEF IrqByte
  <2>2. c \in RxType /\ c.rd = rx.rd /\ c.wr = rx.wr /\ c.buf = rx.buf /\ c.want = rx.want
    BY <1>0 DEF RxType, RxCompleted
  <2>3. Undamaged(c)
    <3> HIDE DEF c
    <3> QED BY <1>0, <2>2, RxKeepsUndamaged
  <2>4. s \in RxType /\ Undamaged(s)
    <3> HIDE DEF c
    <3> QED BY <2>2, <2>3, RxStoredUndamaged, StoredOps
  <2>5. rx'.rd = s.rd /\ rx'.wr = s.wr /\ rx'.buf = s.buf /\ rx'.want = s.want
    <3> HIDE DEF s
    <3> QED BY <2>1, <2>4 DEF RxRearmed, RxRequest, RxBusy, RxType
  <2> HIDE DEF s
  <2> QED BY <2>4, <2>5, RxKeepsUndamaged
<1>5. CASE GetFifo
  <2>1. CASE Length(rx) # 0 /\ rx' = Advance(rx)
    <3>1. Length(rx) > 0 BY <1>0, <2>1, RxLength
    <3>2. /\ rx'.rd = Next1(rx.rd) /\ rx'.wr = rx.wr /\ rx'.buf = rx.buf
          /\ rx'.want = rx.want
      BY <1>0, <2>1 DEF Advance, RxType
    <3> QED BY <1>0, <3>1, <3>2, AdvanceUndamaged
  <2> QED BY <1>1, <1>5, <2>1 DEF GetFifo
<1>6. CASE FlushRx
  <2>1. rx' = [rx EXCEPT !.rd = th.mark] /\ th.pc = "flush_rx"
    BY <1>6 DEF FlushRx, FlushTo
  <2>2. Distance(rx.rd, th.mark) <= Length(rx)
    BY <2>1 DEF DamageInv, PortInv, RxClaims
  <2>3. th.mark \in Positions BY <1>0 DEF ThType
  <2>4. rx'.rd = th.mark /\ rx'.wr = rx.wr /\ rx'.buf = rx.buf /\ rx'.want = rx.want
    BY <1>0, <2>1 DEF RxType
  <2> QED BY <1>0, <2>2, <2>3, <2>4, DropsUndamaged
<1>7. CASE Reinit
  <2>1. rx'.rd = 0 /\ rx'.wr = 0 BY <1>7, ReinitOps DEF DamageInv, PortInv
  <2> QED BY <2>1, ZeroSlot, EmptyUndamaged
<1>8. \/ rx' = rx \/ LineByte
      \/ LineError \/ IrqError \/ IrqStrayByte \/ GetClear \/ GetStart \/ Deinit
      \/ IrqByte \/ GetFifo \/ FlushRx \/ Reinit
  <2>1. Put => rx' = rx BY PutApart DEF DamageInv, PortInv
  <2> QED BY <2>1 DEF Next, Hardware, LineByte, LineError, TxSent, Irq, IrqNoRx, Get, GetCall,
                      Flush, FlushCall, FlushTx, vars
<1> QED BY <1>1, <1>2, <1>3, <1>4, <1>5, <1>6, <1>7, <1>8

\* The sending side: put stores at write_pos, and both put and the interrupt
\* copy the next byte into slot 0.
LEMMA TxDamageStep ==
  ASSUME DamageInv, [Next]_vars
  PROVE  Undamaged(tx)' /\ (Stored' => EndIntact(tx)')
<1>0. /\ tx \in TxType /\ th \in ThType /\ Undamaged(tx)
      /\ tx.rd \in Positions /\ tx.wr \in Positions
      /\ Stored => EndIntact(tx)
  BY TxLength DEF DamageInv, PortInv, TypeOK
<1> SUFFICES Undamaged(tx') /\ (Stored' => EndIntact(tx')) BY UndamagedPrime
<1>a. \A pc \in PCs : Goto(pc) => th'.pc = pc BY <1>0 DEF Goto, ThType
<1>1. CASE PutStore
  <2>1. tx' = StoreKept(tx, th.byte) /\ th.pc = "put_store" BY <1>1 DEF PutStore
  <2>2. Length(tx) < Size BY <2>1 DEF DamageInv, PortInv, TxClaims
  <2>3. Slot(tx.wr) \in Slots
    <3>1. tx.wr \in Int BY <1>0, Sizes DEF Positions
    <3> QED BY <3>1, SlotInSlots
  <2>4. /\ tx'.rd = tx.rd /\ tx'.wr = tx.wr
        /\ tx'.buf[Slot(tx.wr)] = th.byte /\ tx'.want[Slot(tx.wr)] = th.byte
        /\ \A s \in Slots \ {Slot(tx.wr)} :
             tx'.buf[s] = tx.buf[s] /\ tx'.want[s] = tx.want[s]
    BY <1>0, <2>1, <2>3 DEF StoreKept, Store, TxType
  <2>5. /\ Undamaged(tx') /\ tx'.buf[Slot(tx'.wr)] = th.byte
        /\ tx'.want[Slot(tx'.wr)] = th.byte
    BY <1>0, <2>2, <2>4, StoreUndamaged
  <2> QED BY <2>5 DEF EndIntact
<1>2. CASE PutPublish
  <2>1. tx' = [tx EXCEPT !.wr = Next1(th.mark)] /\ th.pc = "put_publish"
        /\ th' = [th EXCEPT !.pc = "put_busy", !.mark = 0, !.stored = TRUE]
    BY <1>2 DEF PutPublish
  <2>2. Length(tx) < Size /\ th.mark = tx.wr /\ EndIntact(tx)
    BY <1>0, <2>1 DEF DamageInv, PortInv, TxClaims, Stored
  <2>3. tx'.rd = tx.rd /\ tx'.wr = Next1(tx.wr) /\ tx'.buf = tx.buf /\ tx'.want = tx.want
    BY <1>0, <2>1, <2>2 DEF TxType
  <2>4. Undamaged(tx') BY <1>0, <2>2, <2>3, PublishUndamaged
  <2>5. ~Stored' BY <1>0, <2>1 DEF Stored, ThType
  <2> QED BY <2>4, <2>5
<1>3. CASE PutFetch
  <2>1. tx' = TxCopy(tx) /\ Goto("put_load_rd") BY <1>3 DEF PutFetch
  <2>2. "put_load_rd" \in PCs BY DEF PCs, PutPCs, StartPCs
  <2>3. ~Stored' BY <1>a, <2>1, <2>2 DEF Stored
  <2> QED BY <1>0, <2>1, <2>3, TxCopyUndamaged
<1>4. CASE PutAdvance
  <2>1. tx' = [tx EXCEPT !.rd = Next1(th.mark)] /\ th.pc = "put_advance"
        /\ Goto("put_start")
    BY <1>4 DEF PutAdvance
  <2>2. th.mark = tx.rd /\ Length(tx) > 0 BY <2>1 DEF DamageInv, PortInv, TxClaims
  <2>3. tx'.rd = Next1(tx.rd) /\ tx'.wr = tx.wr /\ tx'.buf = tx.buf /\ tx'.want = tx.want
    BY <1>0, <2>1, <2>2 DEF TxType
  <2>4. "put_start" \in PCs BY DEF PCs, PutPCs, StartPCs
  <2>5. ~Stored' BY <1>a, <2>1, <2>4 DEF Stored
  <2> QED BY <1>0, <2>2, <2>3, <2>5, AdvanceUndamaged
<1>5. CASE PutGo
  <2>1. tx' = TxStarted(tx) /\ Return("true") BY <1>5 DEF PutGo
  <2>2. tx'.rd = tx.rd /\ tx'.wr = tx.wr /\ tx'.buf = tx.buf /\ tx'.want = tx.want
    BY <1>0, <2>1 DEF TxStarted, TxType
  <2>3. ~Stored' BY <1>0, <2>1 DEF Return, ThType, Stored
  <2> QED BY <1>0, <2>2, <2>3, TxKeepsUndamaged
<1>6. CASE FlushTx
  <2>1. tx' = [tx EXCEPT !.rd = th.mark] /\ th.pc = "flush_tx" /\ Goto("idle")
    BY <1>6 DEF FlushTx, FlushTo
  <2>2. th.mark = tx.wr BY <2>1 DEF DamageInv, PortInv, TxClaims
  <2>3. tx'.rd = tx.wr /\ tx'.wr = tx.wr BY <1>0, <2>1, <2>2 DEF TxType
  <2>4. "idle" \in PCs BY DEF PCs
  <2>5. ~Stored' BY <1>a, <2>1, <2>4 DEF Stored
  <2> QED BY <1>0, <2>3, <2>5, EmptyUndamaged
<1>7. CASE Deinit
  <2>1. tx' = [tx EXCEPT !.run = FALSE] /\ th' = [th EXCEPT !.pc = "closed"]
    BY <1>7 DEF Deinit
  <2>2. tx'.rd = tx.rd /\ tx'.wr = tx.wr /\ tx'.buf = tx.buf /\ tx'.want = tx.want
    BY <1>0, <2>1 DEF TxType
  <2>3. ~Stored' BY <1>0, <2>1 DEF ThType, Stored
  <2> QED BY <1>0, <2>2, <2>3, TxKeepsUndamaged
<1>8. CASE Reinit
  <2>1. tx'.rd = 0 /\ tx'.wr = 0 /\ th'.pc = "idle"
    BY <1>8, ReinitOps DEF DamageInv, PortInv
  <2> QED BY <2>1, ZeroSlot, EmptyUndamaged DEF Stored
<1>9. CASE TxSent
  <2>1. tx' = HwSent(tx) /\ th' = th BY <1>9 DEF TxSent
  <2>2. tx'.rd = tx.rd /\ tx'.wr = tx.wr /\ tx'.buf = tx.buf /\ tx'.want = tx.want
    BY <1>0, <2>1 DEF HwSent, TxType
  <2> QED BY <1>0, <2>1, <2>2, TxKeepsUndamaged DEF Stored
<1>10. CASE Irq
  <2>1. th' = th BY <1>10 DEF Irq
  <2>2. tx' = tx \/ tx' = TxNext(TxCompleted(tx)) BY <1>10 DEF Irq, IrqSent, IrqNoTx
  <2>3. Undamaged(tx') /\ (EndIntact(tx) => EndIntact(tx'))
    BY <1>0, <2>2, TxNextUndamaged
  <2> QED BY <1>0, <2>1, <2>3 DEF Stored
<1>11. CASE /\ tx' = tx
            /\ Stored' => Stored
  BY <1>0, <1>11
<1>12. CASE PutCall \/ PutRetest \/ PutLoad \/ PutWaited \/ PutTimeout \/ PutBusy
            \/ PutPop \/ PutLoadRd \/ PutStart
  <2>1. tx' = tx
    BY <1>12 DEF PutCall, PutRetest, PutLoad, PutWaited, PutTimeout, PutBusy, PutPop,
                 PutLoadRd, PutStart
  <2>2. CASE PutCall
    <3>1. PICK b \in Byte :
            th' = [th EXCEPT !.byte = b, !.stored = FALSE, !.res = "none",
                             !.pc = IF IsFull(tx) THEN "put_wait" ELSE "put_retest"]
      BY <2>2 DEF PutCall
    <3>2. ~Stored' BY <1>0, <3>1 DEF ThType, Stored
    <3> QED BY <1>11, <2>1, <3>2
  <2>3. CASE PutLoad \/ PutLoadRd
    <3>1. Stored' => Stored BY <1>0, <2>3 DEF PutLoad, PutLoadRd, ThType, Stored
    <3> QED BY <1>11, <2>1, <3>1
  <2>4. CASE PutRetest \/ PutWaited \/ PutTimeout \/ PutBusy \/ PutPop \/ PutStart
    <3>1. \/ \E pc \in {"put_store", "put_busy", "put_pop", "put_fetch", "put_go"} : Goto(pc)
          \/ \E res \in {"true", "false"} : Return(res)
      BY <2>4 DEF PutRetest, PutWaited, PutTimeout, PutBusy, PutPop, PutStart
    <3>2. ~Stored'
      <4>1. ASSUME NEW pc \in {"put_store", "put_busy", "put_pop", "put_fetch", "put_go"},
                   Goto(pc)
            PROVE  ~Stored'
        <5>1. th'.pc = pc BY <1>0, <4>1 DEF Goto, ThType
        <5> QED BY <5>1 DEF Stored
      <4>2. ASSUME NEW res \in {"true", "false"}, Return(res) PROVE ~Stored'
        BY <1>0, <4>2 DEF Return, ThType, Stored
      <4> QED BY <3>1, <4>1, <4>2
    <3> QED BY <1>11, <2>1, <3>2
  <2> QED BY <1>12, <2>2, <2>3, <2>4
<1>13. CASE LineByte \/ LineError \/ Get \/ FlushCall \/ FlushRx \/ UNCHANGED vars
  <2>1. tx' = tx /\ (Stored' => Stored)
    <3>1. CASE LineByte \/ LineError \/ UNCHANGED vars
      BY <3>1 DEF LineByte, LineError, vars, Stored
    <3>2. CASE Get
      <4>1. UNCHANGED tx /\ th'.pc \in {"idle"} \cup GetPCs
        BY <3>2, GetOps DEF DamageInv, PortInv
      <4> QED BY <4>1 DEF Stored, GetPCs
    <3>3. CASE FlushCall \/ FlushRx
      BY <1>0, <3>3 DEF FlushCall, FlushRx, ThType, Stored
    <3> QED BY <1>13, <3>1, <3>2, <3>3
  <2> QED BY <1>11, <2>1
<1>14. \/ PutStore \/ PutPublish \/ PutFetch \/ PutAdvance \/ PutGo
       \/ FlushTx \/ Deinit \/ Reinit \/ TxSent \/ Irq
       \/ PutCall \/ PutRetest \/ PutLoad \/ PutWaited \/ PutTimeout \/ PutBusy
       \/ PutPop \/ PutLoadRd \/ PutStart
       \/ LineByte \/ LineError \/ Get \/ FlushCall \/ FlushRx \/ UNCHANGED vars
  BY DEF Next, Hardware, Put, PutStep, Flush
<1> QED BY <1>1, <1>2, <1>3, <1>4, <1>5, <1>6, <1>7, <1>8, <1>9, <1>10, <1>12, <1>13, <1>14

LEMMA NextDamageInv == DamageInv /\ [Next]_vars => DamageInv'
<1> SUFFICES ASSUME DamageInv, [Next]_vars PROVE DamageInv' OBVIOUS
<1>1. PortInv' BY NextPortInv DEF DamageInv
<1> QED BY <1>1, RxDamageStep, TxDamageStep DEF DamageInv

LEMMA AlwaysDamageInv == Spec => []DamageInv
BY InitDamageInv, NextDamageInv, PTL DEF Spec

\* The receive buffer is element 0 of the FIFO's memory, and still every unread
\* byte in another slot is the byte that was received, whatever is called and
\* whatever the line does (nRF5x_UART.c:38-57).
THEOREM ReceivedBytesSurvive == Spec => []RxDamageOnlyInSlot0
<1>1. DamageInv => RxDamageOnlyInSlot0
  BY DEF DamageInv, Undamaged, RxDamageOnlyInSlot0
<1> QED BY <1>1, AlwaysDamageInv, PTL

\* The same of the bytes that wait to be sent: put and TX_DONE spoil no slot
\* but 0 (nRF5x_UART.c:67-78, :246-266).
THEOREM BytesToSendSurvive == Spec => []TxDamageOnlyInSlot0
<1>1. DamageInv => TxDamageOnlyInSlot0
  BY DEF DamageInv, Undamaged, TxDamageOnlyInSlot0
<1> QED BY <1>1, AlwaysDamageInv, PTL
=============================================================================
