------------------------------ MODULE MC_Uart ------------------------------
(***************************************************************************)
(* The port on small instances.  FIFOs of four bytes as in nRF5x_UART.h,   *)
(* counters that wrap after eight.                                         *)
(***************************************************************************)
EXTENDS Uart
=============================================================================
