------------------------------ MODULE MC_Devices ------------------------------
(***************************************************************************)
(* The parts of the firmware that share no state in the models: each       *)
(* behaviour runs one of Parts and leaves the others as they are at reset.  *)
(***************************************************************************)
EXTENDS Fifo, AtFifo, UsbSession, Cdc, Rtc, Clock, Spi, Stream

CONSTANT Parts \* the components this instance checks

VARIABLE part \* the one this behaviour runs

\* The initial states of a component that does not run are cut down to one.
DevicesInit ==
  /\ part \in Parts
  /\ CdcInit /\ RtcInit /\ SpiInitial
  /\ SessionInit /\ (part # "session" => ~cable.vbus)
  /\ ClockInit /\ (part # "clock" => now = 0)
  /\ SearchInit
  /\ part # "search" => search.call = "findMulti" /\ search.strs = << <<>>, <<>> >>
  /\ QueueInit
  /\ part # "queue" => LET e == CHOOSE x \in Event : TRUE
                       IN evq.buf = [p \in QueuePos |-> e] /\ taking.event = e
  /\ Init
  /\ part # "fifo" => LET b == CHOOSE x \in Byte : TRUE
                      IN /\ fifo.buf = [i \in Slots |-> b]
                         /\ prod.byte = b /\ cons.byte = b /\ last = b

RunsFifo == part = "fifo" /\ Next
            /\ UNCHANGED <<part, queueVars, sessionVars, cdcVars, rtcVars, clockVars, spiVars,
                           searchVars>>
RunsQueue == part = "queue" /\ QueueNext
             /\ UNCHANGED <<part, vars, sessionVars, cdcVars, rtcVars, clockVars, spiVars,
                           searchVars>>
RunsSession == part = "session" /\ SessionNext
               /\ UNCHANGED <<part, vars, queueVars, cdcVars, rtcVars, clockVars, spiVars,
                           searchVars>>
RunsCdc == part = "cdc" /\ CdcNext
           /\ UNCHANGED <<part, vars, queueVars, sessionVars, rtcVars, clockVars, spiVars,
                           searchVars>>
RunsRtc == part = "rtc" /\ RtcNext
           /\ UNCHANGED <<part, vars, queueVars, sessionVars, cdcVars, clockVars, spiVars,
                           searchVars>>
RunsClock == part = "clock" /\ ClockNext
             /\ UNCHANGED <<part, vars, queueVars, sessionVars, cdcVars, rtcVars, spiVars,
                           searchVars>>
RunsSpi == part = "spi" /\ SpiNext
           /\ UNCHANGED <<part, vars, queueVars, sessionVars, cdcVars, rtcVars, clockVars, searchVars>>
RunsSearch == part = "search" /\ SearchNext
           /\ UNCHANGED <<part, vars, queueVars, sessionVars, cdcVars, rtcVars, clockVars, spiVars>>

DevicesNext == \/ RunsFifo \/ RunsQueue \/ RunsSession \/ RunsCdc
               \/ RunsRtc \/ RunsClock \/ RunsSpi \/ RunsSearch

devicesVars == <<part, vars, queueVars, sessionVars, cdcVars, rtcVars, clockVars, spiVars,
                           searchVars>>

DevicesSpec == DevicesInit /\ [][DevicesNext]_devicesVars

\* The fairness of RtcFairSpec, where the clock and alarm run.
DevicesFairSpec ==
  /\ DevicesSpec
  /\ WF_rtcVars(part = "rtc" /\ Tick)
  /\ WF_rtcVars(part = "rtc" /\ UserStore)

\* The variables of the component that runs have their types.
DevicesTypeOK == CASE part = "queue" -> QueueTypeOK
                   [] part = "session" -> SessionTypeOK
                   [] part = "cdc" -> CdcTypeOK
                   [] part = "rtc" -> RtcTypeOK
                   [] part = "clock" -> ClockTypeOK
                   [] part = "spi" -> SpiTypeOK
                   [] part = "search" -> SearchTypeOK
                   [] OTHER -> TypeOK
===============================================================================
