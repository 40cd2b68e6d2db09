------------------------- MODULE SafetyStateMachine --------------------------
(***************************************************************************)
(* One channel of the IEC 61800-5-2 supervisor, driven by its public       *)
(* operations: evaluate() once per cycle with whatever the sensors and the *)
(* host present, forceFault() from the dual-channel level, setLimits() and *)
(* reset().                                                                *)
(***************************************************************************)
EXTENDS SupervisorLogic

VARIABLES
  channel,    \* the SafetyStateMachine object
  returned,   \* what its last evaluate() since power-on returned
  timestamp,  \* the timestamp of that call
  sample,     \* history: what that call was given, and the limits it compared with
  tested      \* history: self_test_passed has been seen true since power-on

channelVars == <<channel, returned, timestamp, sample, tested>>

Sample ==
  [speed: Nat, position: Int, demand: BOOLEAN, limits: LimitsSet]

ChannelTypeOK ==
  /\ channel \in Channel
  /\ returned \in SafetyOutputs
  /\ timestamp \in Nat
  /\ sample \in Sample
  /\ tested \in BOOLEAN

ChannelInit ==
  \E limits \in LimitsSet :
    /\ channel = PowerOn(limits)
    /\ returned = DefaultOutputs
    /\ timestamp = 0
    /\ sample = [speed |-> 0, position |-> 0, demand |-> TRUE, limits |-> limits]
    /\ tested = FALSE

Evaluate(in, elapsed) ==
  /\ timestamp + elapsed <= MaxTime
  /\ timestamp' = timestamp + elapsed
  /\ channel' = evaluate(channel, in, timestamp')
  /\ returned' = outputsFor(channel')
  /\ sample' = [speed    |-> in.speed_magnitude,
                position |-> in.position,
                demand   |-> \/ in.emergency_stop_asserted
                             \/ ~in.communication_ok
                             \/ ~in.heartbeat_ok,
                limits   |-> channel.limits]
  /\ tested' = (tested \/ in.self_test_passed)

(* forceFault(): the one caller passes kChannelDiscrepancy.                *)
ForceFault ==
  /\ channel' = enterSafeTorqueOff(channel, "ChannelDiscrepancy")
  /\ UNCHANGED <<returned, timestamp, sample, tested>>

SetLimits(limits) ==
  /\ channel' = [channel EXCEPT !.limits = limits]
  /\ UNCHANGED <<returned, timestamp, sample, tested>>

ChannelReset ==
  /\ channel' = PowerOn(channel.limits)
  /\ returned' = DefaultOutputs
  /\ tested' = FALSE
  /\ UNCHANGED <<timestamp, sample>>

ChannelNext ==
  \/ \E in \in Inputs, elapsed \in 0 .. MaxStep : Evaluate(in, elapsed)
  \/ ForceFault
  \/ \E limits \in LimitsSet : SetLimits(limits)
  \/ ChannelReset

ChannelSpec == ChannelInit /\ [][ChannelNext]_channelVars

(* The cyclic executor calls evaluate() in every cycle, and every cycle    *)
(* has a later timestamp than the one before it.                           *)
ChannelCycle == \E in \in Inputs, elapsed \in 1 .. MaxStep : Evaluate(in, elapsed)

FairSpec == ChannelSpec /\ WF_channelVars(ChannelCycle)
-----------------------------------------------------------------------------
(* REQ-SAF-034, enterSafeTorqueOff and phase 2 of evaluate: whatever put a *)
(* fault there, and whatever was requested since, a channel with a latched *)
(* fault is in Safe Torque Off.                                            *)
FaultMeansTorqueOff == faultLatched(channel) => channel.state = SafeTorqueOff

(* REQ-SAF-023 to 029: a channel left energised by its last cycle was      *)
(* given, in that cycle, inputs its state tolerates under the limits in    *)
(* force then: no unconditional demand, SLS at or below its speed, SOS     *)
(* inside its window and at standstill, SS1 inside its stop time.          *)
EnergisedWithinLimits ==
  channel.state \in Energised =>
    /\ ~sample.demand
    /\ channel.state = LimitedSpeed => sample.speed <= sample.limits.limited_speed
    /\ channel.state = OperatingStop =>
         /\ sample.speed <= sample.limits.standstill_speed
         /\ sample.position - channel.standstill_reference
              \in -sample.limits.standstill_window .. sample.limits.standstill_window
    /\ channel.state = Stopping =>
         timestamp - channel.stop_started_ns <= sample.limits.stop_time_limit_ns

(* REQ-SAF-036, enterSafeTorqueOff: until it is acknowledged or the        *)
(* channel is reset, a latched fault keeps naming its first cause.         *)
FirstCauseKept ==
  [][faultLatched(channel) => channel'.fault \in {channel.fault, "None"}]_channelVars

(* REQ-SAF-035, phase 2 of evaluate: no operation takes a channel from a   *)
(* latched fault to torque in one cycle, acknowledged or not.              *)
AcknowledgeNeverEnergises ==
  [][faultLatched(channel) => channel'.state \notin Energised]_channelVars

(* REQ-SAF-031, the kStopping case of evaluate: an SS1 in progress ends in *)
(* Safe Torque Off (or, by reset, at power-on), whatever is requested.     *)
StopIsNotInterrupted ==
  [][channel.state = Stopping =>
       channel'.state \in {Stopping, SafeTorqueOff, SelfTest}]_channelVars

(* REQ-SAF-032, the SLP monitor: a cycle that keeps motion permitted found *)
(* the position inside the band.                                           *)
MotionKeptInBand ==
  [][/\ channel.state \in Moving /\ channel'.state \in Moving
     /\ timestamp' # timestamp
     /\ channel.limits.position_monitoring_enabled
     => sample'.position
          \in channel.limits.position_min .. channel.limits.position_max]_channelVars

(* REQ-SAF-029, the SS1 time monitor: a stop that begins early enough for  *)
(* its time limit to pass before MaxTime ends, whatever the drive does.    *)
StopEnds ==
  (/\ channel.state = Stopping
   /\ \A limits \in LimitsSet :
        channel.stop_started_ns + limits.stop_time_limit_ns < MaxTime)
    ~> channel.state # Stopping
-----------------------------------------------------------------------------
(* REQ-SAF-021: "shall not permit torque until power-on diagnostics have   *)
(* reported success".                                                      *)
TorqueOnlyAfterSelfTest == channel.state \in Energised => tested

=============================================================================
