--------------------------- MODULE MC_DevicesProofs ---------------------------
(***************************************************************************)
(* That what is proved of each component holds of the specification in     *)
(* which TLC runs them side by side.                                       *)
(***************************************************************************)
EXTENDS MC_Devices, FifoProofs, UsbProofs, DeviceProofs

\* A behaviour of the parts side by side is, for every part, a behaviour of its
\* own specification: those that do not run stutter, and the initial states
\* that are left out for them are only left out.
THEOREM DevicesRunTheirParts ==
  DevicesSpec => /\ Spec /\ QueueSpec /\ SessionSpec /\ CdcSpec
                 /\ RtcSpec /\ ClockSpec /\ SpiSpec /\ SearchSpec
<1>1. DevicesInit => /\ Init /\ QueueInit /\ SessionInit /\ CdcInit
                     /\ RtcInit /\ ClockInit /\ SpiInitial /\ SearchInit
  BY DEF DevicesInit
<1>2. ASSUME [DevicesNext]_devicesVars
      PROVE  /\ [Next]_vars /\ [QueueNext]_queueVars /\ [SessionNext]_sessionVars
             /\ [CdcNext]_cdcVars /\ [RtcNext]_rtcVars /\ [ClockNext]_clockVars
             /\ [SpiNext]_spiVars /\ [SearchNext]_searchVars
  BY <1>2 DEF DevicesNext, devicesVars, RunsFifo, RunsQueue, RunsSession, RunsCdc, RunsRtc,
     RunsClock, RunsSpi, RunsSearch
<1> QED
  BY <1>1, <1>2, PTL DEF DevicesSpec, Spec, QueueSpec, SessionSpec, CdcSpec, RtcSpec, ClockSpec,
     SpiSpec, SearchSpec

\* Whichever part runs, its variables keep their types: every array index of
\* the code stays in its array (nRF5x_FIFO.c, nrf_atfifo.c, Stream.cpp), every
\* field of the time in its range (nRF5x_RTC.c).
THEOREM DevicesTypeCorrect == DevicesSpec => []DevicesTypeOK
<1>1. TypeOK /\ QueueTypeOK /\ SessionTypeOK /\ CdcTypeOK
      /\ RtcTypeOK /\ ClockTypeOK /\ SpiTypeOK /\ SearchTypeOK => DevicesTypeOK
  BY DEF DevicesTypeOK
<1> QED
  BY <1>1, DevicesRunTheirParts, FifoTypeCorrect, QueueTypeCorrect, SessionTypeCorrect,
     CdcTypeCorrect, RtcTypeCorrect, ClockTypeCorrect, SpiTypeCorrect, SearchTypeCorrect, PTL
=============================================================================
