------------------------------- MODULE Bridge -------------------------------
(***************************************************************************)
(* The two serial ports as src/main.cpp uses them.  setup() has opened     *)
(* both and attaches uart_0_handler and uart_1_handler, which run in the   *)
(* receive interrupt of their port, take one byte and write it to the      *)
(* other port.  The main loop writes to UART0 meanwhile, so that UART0 has *)
(* two writers and UART1 one.  Both interrupts have the same priority and  *)
(* do not preempt each other; they preempt the main loop.                  *)
(***************************************************************************)
EXTENDS Uarte

CONSTANTS Line,        \* what the lines do, as in Uart
          MaxLine,     \* bound: bytes the lines of UART0 and UART1 deliver
          MaxPuts,     \* bound: bytes the main loop writes
          MaxEarly     \* bound: bytes a line delivers before its callback is attached

ASSUME BoundsAssumption ==
  MaxLine \in [0 .. 1 -> Nat] /\ MaxPuts \in Nat /\ MaxEarly \in Nat

VARIABLES up,         \* both drivers are initialised
          rx0, tx0,   \* UART0
          rx1, tx1,   \* UART1
          th,         \* the thread inside nRF5x_UART_put on UART0
          left,       \* what the bounds MaxLine and MaxPuts leave
          attached,   \* how many of the two callbacks are attached
          early,      \* history: bytes each port has taken without its callback
          fwd,        \* history of what each port passes on to the other:
                      \* came (the byte received for each slot of the other
                      \* port's FIFO), behind (slot 0 was given its byte
                      \* while another was waiting), kept (what has been
                      \* sent was what came)
          rival       \* history: the interrupt has started UART0 since the
                      \* thread's put found it idle

vars == <<up, rx0, tx0, rx1, tx1, th, left, attached, early, fwd, rival>>

Port0 == INSTANCE Uart WITH rx <- rx0, tx <- tx0, up <- up, Ops <- {"put"}
Port1 == INSTANCE Uart WITH rx <- rx1, tx <- tx1, up <- up, Ops <- {}

TypeOK ==
  /\ Port0!TypeOK
  /\ rx1 \in RxType /\ tx1 \in TxType
  /\ attached \in 0 .. 2
  /\ left \in [line : [0 .. 1 -> Nat], puts : Nat]
  /\ early \in [0 .. 1 -> 0 .. MaxEarly]
  /\ fwd \in [0 .. 1 -> [came : [Slots -> Byte], behind : BOOLEAN, kept : BOOLEAN]]
  /\ rival \in BOOLEAN

\* After the two calls of nRF5x_UART_init in UART_init.
Init ==
  /\ Port0!Init
  /\ rx1 = rx0 /\ tx1 = tx0
  /\ attached = 0
  /\ left = [line |-> MaxLine, puts |-> MaxPuts]
  /\ early = [i \in 0 .. 1 |-> 0]
  /\ fwd = [i \in 0 .. 1 |-> [came |-> tx0.want, behind |-> FALSE, kept |-> TRUE]]
  /\ rival = FALSE

-----------------------------------------------------------------------------
(* The handlers of main.cpp, in interrupt context. *)

\* Mutant: the full test is left out.
PutFromIrqUnchecked(t, byte) ==
  LET t1 == PutKept(t, byte)
  IN  IF TxInProgress(t1) THEN t1 ELSE TxRequest(TxPop(t1))

\* nRF5x_UART_put called from an interrupt handler.  On a full FIFO, while a
\* byte is being sent, it waits in vain for an interrupt of its own priority;
\* whatever its unassigned status then is, nothing is stored.
PutFromIrq(t, byte) ==
  LET t1 == IF IsFull(t) THEN t ELSE PutKept(t, byte)
  IN  IF TxInProgress(t1) \/ Length(t1) = 0 THEN t1 ELSE TxRequest(TxPop(t1))

\* Mutant: the callback looks at the byte and leaves it in the FIFO.
GetFromIrqPeeks(r) == r

\* Mutant: get asks for the next byte whether or not the FIFO had overflowed.
GetFromIrqRearms(r) == RxRequest(Advance(r))

\* nRF5x_UART_get called from the callback, right after RX_DONE stored a byte.
GetFromIrq(r) ==
  LET r1 == Advance(r)
  IN  IF r.ovf THEN RxRequest([r1 EXCEPT !.ovf = FALSE]) ELSE r1

\* What port i passes on is watched if nothing came before its callback and,
\* on the way to UART0, until the main loop writes there as well.
Watched(i) == early[i] = 0 /\ (i = 1 => left.puts = MaxPuts)

\* The byte received for a slot goes out from it, unless it was put into slot 0
\* behind another one: the next byte taken out is copied over it.
Sends(f, t, t2) ==
  LET overwritten == Slot(t.rd) = 0 /\ f.behind
  IN  [f EXCEPT !.kept = @ /\ (overwritten \/ t2.buf[0] = f.came[Slot(t.rd)])]

\* The other port's sending side goes from t to t2: a byte is taken out and
\* sent exactly when read_pos moves.
Sent(i, f, t, t2) == IF Watched(i) /\ t2.rd # t.rd THEN Sends(f, t, t2) ELSE f

\* The byte is put into the other port's FIFO, unless that is full.
Queued(i, f, byte, t) ==
  IF Watched(i) /\ ~IsFull(t)
    THEN [f EXCEPT !.came[Slot(t.wr)] = byte,
                   !.behind = IF Slot(t.wr) = 0 THEN Length(t) > 0 ELSE @]
    ELSE f

\* ENDRX on a port with its callback attached and room for the byte.
Calls(i, r) == attached > i /\ ~r.error /\ r.endrx /\ r.len = 1 /\ ~IsFull(r)

\* uarte_irq_handler, ENDRX, up to RX_DONE's callback and its end: r and r2 are
\* the port's receiving side, t and t2 the other port's sending side.
Forward(r, t, r2, t2) ==
  LET stored == RxStored(RxCompleted(r))
  IN  /\ r2 = RxRearmed(GetFromIrq(stored))
      /\ t2 = PutFromIrq(t, PeekAt(stored, 0))

\* Port i called its callback, or did not, and the other port's sending side
\* went from t to t2.
Forwarded(i, r, t, t2) ==
  Sent(i, IF Calls(i, r) THEN Queued(i, fwd[i], r.buf[0], t) ELSE fwd[i], t, t2)

\* The interrupt starts UART0 although the thread is about to.
StartsUnder == th.pc \in Port0!StartPCs /\ TxInProgress(tx0') /\ ~TxInProgress(tx0)

\* One interrupt of UART0 passes a byte on to tx1 and sends the next of tx0.
Irq0 ==
  /\ rx0.error \/ rx0.endrx \/ tx0.endtx
  /\ \/ Calls(0, rx0) /\ Forward(rx0, tx1, rx0', tx1')
     \/ /\ \/ ~Calls(0, rx0) /\ Port0!IrqByte
           \/ Port0!IrqError \/ Port0!IrqStrayByte \/ Port0!IrqNoRx
        /\ tx1' = tx1
  /\ Port0!IrqSent \/ Port0!IrqNoTx
  /\ fwd' = [i \in 0 .. 1 |-> IF i = 0 THEN Forwarded(0, rx0, tx1, tx1')
                                       ELSE Sent(1, fwd[1], tx0, tx0')]
  /\ UNCHANGED <<up, rx1, th, left, attached, early, rival>>

Irq1 ==
  /\ rx1.error \/ rx1.endrx \/ tx1.endtx
  /\ \/ Calls(1, rx1) /\ Forward(rx1, tx0, rx1', tx0')
     \/ /\ \/ ~Calls(1, rx1) /\ Port1!IrqByte
           \/ Port1!IrqError \/ Port1!IrqStrayByte \/ Port1!IrqNoRx
        /\ tx0' = tx0
  /\ Port1!IrqSent \/ Port1!IrqNoTx
  /\ fwd' = [i \in 0 .. 1 |-> IF i = 1 THEN Forwarded(1, rx1, tx0, tx0')
                                       ELSE Sent(0, fwd[0], tx1, tx1')]
  /\ rival' = (rival \/ StartsUnder)
  /\ UNCHANGED <<up, rx0, th, left, attached, early>>

-----------------------------------------------------------------------------
(* The lines. *)

Spend(i) == /\ left.line[i] > 0
            /\ left' = [left EXCEPT !.line[i] = @ - 1]

Line0Byte ==
  /\ Port0!LineByte
  /\ Spend(0)
  /\ early' = [early EXCEPT ![0] = IF attached = 0 THEN @ + 1 ELSE @]
  /\ early'[0] <= MaxEarly
  /\ UNCHANGED <<rx1, tx1, attached, fwd, rival>>

Line1Byte ==
  /\ Port1!LineByte
  /\ Spend(1)
  /\ early' = [early EXCEPT ![1] = IF attached < 2 THEN @ + 1 ELSE @]
  /\ early'[1] <= MaxEarly
  /\ UNCHANGED <<rx0, tx0, attached, fwd, rival>>

Tx0Sent == Port0!TxSent /\ UNCHANGED <<rx1, tx1, left, attached, early, fwd, rival>>
Tx1Sent == Port1!TxSent /\ UNCHANGED <<rx0, tx0, left, attached, early, fwd, rival>>

-----------------------------------------------------------------------------
(* The main loop. *)

\* UART_init attaches uart_0_handler, then uart_1_handler.
Attach ==
  /\ attached < 2
  /\ attached' = attached + 1
  /\ UNCHANGED <<up, rx0, tx0, rx1, tx1, th, left, early, fwd, rival>>

\* loop() writes the radio's version and the seconds to UART0; UART_write ends
\* at the first put that fails and loop() ignores its result.
LoopPut ==
  /\ attached = 2
  /\ Port0!Put
  /\ th.pc = "idle" => left.puts > 0
  /\ left' = [left EXCEPT !.puts = IF th.pc = "idle" THEN @ - 1 ELSE @]
  /\ rival' = (rival /\ th'.pc \in Port0!StartPCs)
  /\ UNCHANGED <<rx1, tx1, attached, early, fwd>>

Next == \/ Irq0 \/ Irq1 \/ Line0Byte \/ Line1Byte \/ Tx0Sent \/ Tx1Sent
        \/ Attach \/ LoopPut

Spec == Init /\ [][Next]_vars

-----------------------------------------------------------------------------
(* Properties. *)

Waiting(i) == Length(IF i = 0 THEN rx0 ELSE rx1)

TakesCallback(i) == attached > i

\* A callback takes exactly one byte per byte received: what had gathered in a
\* receive FIFO before its callback was attached stays there for ever, neither
\* growing nor drained (main.cpp:21-31).
BacklogIsFrozen ==
  [][\A i \in 0 .. 1 : TakesCallback(i) => Waiting(i)' = Waiting(i)]_vars

\* A port that had nothing waiting when its callback was attached passes on
\* what it receives: each byte that goes out of the other port, unless that
\* port's FIFO was full for it, is the byte that came, in the order they came,
\* although the receive buffer and the send buffer are also the FIFOs' memory;
\* only a byte stored in slot 0 behind a waiting one goes out changed.  On the
\* way to UART0 this holds until the main loop writes there.
ForwardsWhatArrives ==
  \A i \in 0 .. 1 : TakesCallback(i) /\ Watched(i) => fwd[i].kept

\* put on UART0 takes a byte out and then finds the transmitter busy, which
\* loses the byte, only if uart_1_handler started it since put found it idle.
TakenByteLostOnlyToRival ==
  th.pc \in Port0!StartPCs /\ TxInProgress(tx0) => rival

\* Unless four bytes came before its callback, a port goes on receiving: the
\* request is outstanding whenever no interrupt handler runs.
KeepsReceiving ==
  \A i \in 0 .. 1 : LET r == IF i = 0 THEN rx0 ELSE rx1 IN
    ~IsFull(r) => r.len = 1 /\ r.sec = 0 /\ ~r.ovf /\ (r.run \/ r.endrx)

\* No byte is left behind in either direction, although UART0 has two writers.
NoneStranded ==
  /\ Port0!NoByteStranded
  /\ Length(tx1) > 0 => TxInProgress(tx1)
  /\ TxInProgress(tx1) => tx1.run \/ tx1.endtx

\* UART0's FIFO never claims more bytes than it has slots
\* (nRF5x_FIFO.h:51, NRF_ERROR_NO_MEM for a full buffer).
WithinCapacity0 == Length(tx0) <= Size
WithinCapacity1 == Length(tx1) <= Size
=============================================================================
