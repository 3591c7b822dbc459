----------------------------- MODULE MC_Bridge -----------------------------
(***************************************************************************)
(* The two ports on a small instance: FIFOs of two bytes and counters that *)
(* wrap after four.                                                        *)
(***************************************************************************)
EXTENDS Bridge, TLC

\* Enough on UART0 to fill the FIFO of UART1 behind a byte that is being sent
\* and to find it full; on UART1 enough to do so together with the main loop.
LineBytes == [i \in 0 .. 1 |-> IF i = 0 THEN 4 ELSE 2]

\* Only the line of UART0 delivers more than one value.  Until the main loop
\* writes, what holds of the bytes on their way to UART1 holds of those on
\* their way to UART0; after that nothing tells UART0's bytes apart.
ValuesFromLine0 == th'.byte = th.byte /\ (rx1'.endrx => rx1'.buf = rx1.buf)

Symmetry == Permutations(Byte)
=============================================================================
