--------------------------- MODULE SupervisorLogic ---------------------------
(***************************************************************************)
(* The decision function of one safety channel, SafetyStateMachine in      *)
(* src/safety/safety_state_machine.cpp, as operators on a record that      *)
(* holds the object's members.  SafetyStateMachine.tla runs one channel,   *)
(* DualChannel.tla runs two.                                               *)
(*                                                                         *)
(* Speeds, positions and times are integers: the code only compares and    *)
(* subtracts them.  Infinity stands for the double of that name.           *)
(***************************************************************************)
EXTENDS Integers

CONSTANTS
  LimitsSet,  \* the SafetyLimits a channel can be configured with
  Inputs,     \* the SafetyInputs a cycle can present (all but timestamp_ns)
  Infinity,   \* the speed limit of an unrestricted machine
  MaxTime,    \* bound on the timestamps of the cycles
  MaxStep     \* bound on the time between two cycles

ASSUME TimeAssumption == MaxTime \in Nat /\ MaxStep \in Nat \ {0}

(* enum class SafetyState, ordered from most to least restrictive.         *)
SafeTorqueOff == 0
SelfTest      == 1
Stopping      == 2
OperatingStop == 3
LimitedSpeed  == 4
Operational   == 5
SafetyState   == SafeTorqueOff .. Operational

SafetyFunction ==
  {"None", "SafeTorqueOff", "SafeStop1", "SafeOperatingStop", "SafelyLimitedSpeed"}

FaultReason ==
  {"None", "SelfTestFailed", "EmergencyStop", "SpeedLimitExceeded",
   "PositionLimitExceeded", "StandstillDeviation", "StopTimeExceeded",
   "CommunicationFault", "WatchdogTimeout", "ChannelDiscrepancy", "InvalidRequest"}

SafetyLimits ==
  [limited_speed: 0 .. Infinity, position_min: Int, position_max: Int,
   position_monitoring_enabled: BOOLEAN, standstill_window: Nat,
   standstill_speed: Nat, stop_time_limit_ns: Nat]

SafetyInputs ==
  [speed_magnitude: Nat, position: Int, emergency_stop_asserted: BOOLEAN,
   communication_ok: BOOLEAN, heartbeat_ok: BOOLEAN, self_test_passed: BOOLEAN,
   request: SafetyFunction, acknowledge: BOOLEAN]

SafetyOutputs ==
  [torque_permitted: BOOLEAN, motion_permitted: BOOLEAN, speed_limit: 0 .. Infinity,
   brake_engaged: BOOLEAN, state: SafetyState, fault: FaultReason,
   fault_latched: BOOLEAN]

Channel ==
  [limits: LimitsSet, state: SafetyState, fault: FaultReason,
   stop_started_ns: Nat, standstill_reference: Int]

ASSUME SupervisorAssumption ==
  /\ Infinity \in Nat
  /\ LimitsSet \subseteq SafetyLimits
  /\ LimitsSet # {}
  /\ Inputs \subseteq SafetyInputs

(* A default-constructed SafetyOutputs permits nothing.                    *)
DefaultOutputs ==
  [torque_permitted |-> FALSE, motion_permitted |-> FALSE, speed_limit |-> 0,
   brake_engaged |-> TRUE, state |-> SafeTorqueOff, fault |-> "None",
   fault_latched |-> FALSE]

(* A newly constructed channel, and what reset() returns to.               *)
PowerOn(limits) ==
  [limits |-> limits, state |-> SelfTest, fault |-> "None",
   stop_started_ns |-> 0, standstill_reference |-> 0]

(* The states in which outputsFor permits torque, and those in which it    *)
(* permits motion.                                                         *)
Energised == {Stopping, OperatingStop, LimitedSpeed, Operational}
Moving    == {LimitedSpeed, Operational}

faultLatched(ch) == ch.fault # "None"

(* The first cause is kept: a latched fault is never overwritten.          *)
enterSafeTorqueOff(ch, reason) ==
  [ch EXCEPT !.state = SafeTorqueOff,
             !.fault = IF reason # "None" /\ @ = "None" THEN reason ELSE @]

M_noHeartbeatDemand(in) == in.emergency_stop_asserted \/ ~in.communication_ok

unconditionalDemandActive(in) ==
  in.emergency_stop_asserted \/ ~in.communication_ok \/ ~in.heartbeat_ok

unconditionalDemandReason(in) ==
  IF in.emergency_stop_asserted THEN "EmergencyStop"
  ELSE IF ~in.communication_ok THEN "CommunicationFault"
  ELSE "WatchdogTimeout"

outputsFor(ch) ==
  [torque_permitted |-> ch.state \in Energised,
   motion_permitted |-> ch.state \in Moving,
   speed_limit      |-> CASE ch.state = Operational  -> Infinity
                          [] ch.state = LimitedSpeed -> ch.limits.limited_speed
                          [] OTHER                   -> 0,
   brake_engaged    |-> ch.state \notin Energised,
   state            |-> ch.state,
   fault            |-> ch.fault,
   fault_latched    |-> faultLatched(ch)]

M_ackRestarts(ch, in) ==
  IF in.acknowledge /\ in.request = "None"
  THEN [ch EXCEPT !.fault = "None", !.state = Operational]
  ELSE [ch EXCEPT !.state = SafeTorqueOff]

(* Phase 2 of evaluate: a latched fault, and its acknowledgement.          *)
LatchedPhase(ch, in) ==
  [ch EXCEPT !.state = SafeTorqueOff,
             !.fault = IF in.acknowledge THEN "None" ELSE @]

(* Phase 3: the fault a monitor of the current state raises, or "None".    *)
Drift(ch, in) ==
  LET d == in.position - ch.standstill_reference IN IF d < 0 THEN -d ELSE d

OutOfBand(limits, in) ==
  /\ limits.position_monitoring_enabled
  /\ in.position < limits.position_min \/ in.position > limits.position_max

StateMonitor(ch, in, timestamp_ns) ==
  CASE ch.state = LimitedSpeed /\ in.speed_magnitude > ch.limits.limited_speed
         -> "SpeedLimitExceeded"
    [] /\ ch.state = OperatingStop
       /\ \/ Drift(ch, in) > ch.limits.standstill_window
          \/ in.speed_magnitude > ch.limits.standstill_speed -> "StandstillDeviation"
    [] /\ ch.state = Stopping
       /\ in.speed_magnitude > ch.limits.standstill_speed
       /\ timestamp_ns - ch.stop_started_ns > ch.limits.stop_time_limit_ns
         -> "StopTimeExceeded"
    [] OTHER -> "None"

M_bandOnlyUnrestricted(ch, in, timestamp_ns) ==
  LET own == StateMonitor(ch, in, timestamp_ns) IN
  IF own = "None" /\ ch.state = Operational /\ OutOfBand(ch.limits, in)
  THEN "PositionLimitExceeded" ELSE own

(* SLP is not a state: it watches the states that permit motion, after     *)
(* their own monitor has passed.                                           *)
MonitorFault(ch, in, timestamp_ns) ==
  LET own == StateMonitor(ch, in, timestamp_ns) IN
  IF own = "None" /\ ch.state \in Moving /\ OutOfBand(ch.limits, in)
  THEN "PositionLimitExceeded" ELSE own

(* The states whose monitor returns before any request is looked at: a     *)
(* self test that passes and a stop that reaches standstill end in STO.    *)
PhaseOver(ch, in) ==
  \/ ch.state = SelfTest /\ in.self_test_passed
  \/ ch.state = Stopping /\ in.speed_magnitude <= ch.limits.standstill_speed

(* Phase 4: the requested transition, reached only in STO, OperatingStop,  *)
(* LimitedSpeed and Operational.                                           *)
HonourRequest(ch, in, timestamp_ns) ==
  CASE in.request = "SafeTorqueOff" -> enterSafeTorqueOff(ch, "None")
    [] in.request = "SafeStop1" ->
         IF ch.state \in {OperatingStop, LimitedSpeed, Operational}
         THEN [ch EXCEPT !.state = Stopping, !.stop_started_ns = timestamp_ns]
         ELSE ch
    [] in.request = "SafeOperatingStop" ->
         IF ch.state = OperatingStop THEN ch
         ELSE IF \/ ch.state = SafeTorqueOff
                 \/ in.speed_magnitude > ch.limits.standstill_speed
         THEN enterSafeTorqueOff(ch, "InvalidRequest")
         ELSE [ch EXCEPT !.state = OperatingStop, !.standstill_reference = in.position]
    [] in.request = "SafelyLimitedSpeed" ->
         IF ch.state # LimitedSpeed /\ in.speed_magnitude > ch.limits.limited_speed
         THEN enterSafeTorqueOff(ch, "SpeedLimitExceeded")
         ELSE [ch EXCEPT !.state = LimitedSpeed]
    [] in.request = "None" -> [ch EXCEPT !.state = Operational]

M_repeatedStopRearmsTimer(ch, in, timestamp_ns) ==
  LET raised == MonitorFault(ch, in, timestamp_ns) IN
  IF unconditionalDemandActive(in)
  THEN enterSafeTorqueOff(ch, unconditionalDemandReason(in))
  ELSE IF faultLatched(ch) THEN LatchedPhase(ch, in)
  ELSE IF raised # "None" THEN enterSafeTorqueOff(ch, raised)
  ELSE IF PhaseOver(ch, in) THEN enterSafeTorqueOff(ch, "None")
  ELSE IF ch.state = SelfTest THEN ch
  ELSE IF ch.state = Stopping /\ in.request # "SafeStop1" THEN ch
  ELSE IF ch.state = Stopping THEN [ch EXCEPT !.stop_started_ns = timestamp_ns]
  ELSE HonourRequest(ch, in, timestamp_ns)

(* evaluate(): the channel after one cycle.  The outputs it returns are    *)
(* outputsFor of that channel.                                             *)
evaluate(ch, in, timestamp_ns) ==
  LET raised == MonitorFault(ch, in, timestamp_ns) IN
  IF unconditionalDemandActive(in)
  THEN enterSafeTorqueOff(ch, unconditionalDemandReason(in))
  ELSE IF faultLatched(ch) THEN LatchedPhase(ch, in)
  ELSE IF raised # "None" THEN enterSafeTorqueOff(ch, raised)
  ELSE IF PhaseOver(ch, in) THEN enterSafeTorqueOff(ch, "None")
  ELSE IF ch.state \in {SelfTest, Stopping} THEN ch
  ELSE HonourRequest(ch, in, timestamp_ns)
=============================================================================
