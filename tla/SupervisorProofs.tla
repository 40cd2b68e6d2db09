--------------------------- MODULE SupervisorProofs --------------------------
(***************************************************************************)
(* What each phase of evaluate() returns, for every channel, every limit   *)
(* and every input; and, from EvaluateEffect, the safety properties of one *)
(* channel and of the 1oo2D pair, for every set of limits and inputs,      *)
(* every tolerance and unbounded time.                                     *)
(***************************************************************************)
EXTENDS SafetyStateMachine, DualChannel, TLAPS

(* The six states, as members of SafetyState.                              *)
LEMMA States ==
  /\ SafeTorqueOff \in SafetyState /\ SelfTest \in SafetyState
  /\ Stopping \in SafetyState /\ OperatingStop \in SafetyState
  /\ LimitedSpeed \in SafetyState /\ Operational \in SafetyState
BY DEF SafetyState, SafeTorqueOff, SelfTest, Stopping, OperatingStop, LimitedSpeed,
       Operational

(* enterSafeTorqueOff returns a channel in STO that differs from its       *)
(* argument in state and fault only.                                       *)
LEMMA EnterSafeTorqueOff ==
  ASSUME NEW ch \in Channel, NEW reason \in FaultReason
  PROVE  LET sto == enterSafeTorqueOff(ch, reason) IN
         /\ sto \in Channel
         /\ sto.state = SafeTorqueOff
         /\ sto.limits = ch.limits
         /\ faultLatched(ch) => sto.fault = ch.fault
BY States DEF enterSafeTorqueOff, Channel, faultLatched

(* A monitor reports one of the faults of the enumeration.                 *)
LEMMA MonitorFaultType ==
  ASSUME NEW ch, NEW in, NEW t
  PROVE  MonitorFault(ch, in, t) \in FaultReason
BY DEF MonitorFault, StateMonitor, FaultReason

(* LatchedPhase keeps a channel well formed and in STO.                    *)
LEMMA LatchedPhaseEffect ==
  ASSUME NEW ch \in Channel, NEW in \in SafetyInputs
  PROVE  LET next == LatchedPhase(ch, in) IN
         /\ next \in Channel
         /\ next.state = SafeTorqueOff
         /\ next.fault \in {ch.fault, "None"}
         /\ next.limits = ch.limits
<1>1. "None" \in FaultReason
  BY DEF FaultReason
<1> QED BY <1>1, States DEF LatchedPhase, Channel

(* HonourRequest on a channel without a fault, in a state that looks at    *)
(* requests, whose monitor has passed: the result is well formed, a fault  *)
(* comes with STO, and the state entered tolerates the inputs.             *)
LEMMA HonourRequestEffect ==
  ASSUME NEW ch \in Channel, NEW in \in SafetyInputs, NEW t \in Nat,
         ~faultLatched(ch), ch.state \notin {SelfTest, Stopping},
         StateMonitor(ch, in, t) = "None"
  PROVE  LET next == HonourRequest(ch, in, t) IN
         /\ next \in Channel
         /\ next.limits = ch.limits
         /\ faultLatched(next) => next.state = SafeTorqueOff
         /\ next.state = LimitedSpeed =>
              in.speed_magnitude <= ch.limits.limited_speed
         /\ next.state = OperatingStop =>
              /\ in.speed_magnitude <= ch.limits.standstill_speed
              /\ in.position - next.standstill_reference
                   \in -ch.limits.standstill_window .. ch.limits.standstill_window
         /\ next.state = Stopping => next.stop_started_ns = t
<1> DEFINE next == HonourRequest(ch, in, t)
<1> USE DEF SafeTorqueOff, SelfTest, Stopping, OperatingStop, LimitedSpeed,
            Operational, Moving
<1>1. ch.limits \in SafetyLimits
  BY SupervisorAssumption DEF Channel
<1>2. /\ ch.limits.limited_speed \in Nat /\ ch.limits.standstill_speed \in Nat
      /\ ch.limits.standstill_window \in Nat
  BY <1>1, SupervisorAssumption DEF SafetyLimits
<1>3. in.speed_magnitude \in Nat /\ in.position \in Int /\ in.request \in SafetyFunction
  BY DEF SafetyInputs
<1>4. ch.standstill_reference \in Int /\ ch.state \in 0 .. 5 /\ ch.fault = "None"
  BY DEF Channel, SafetyState, faultLatched
<1>5. CASE in.request = "SafeTorqueOff"
  BY <1>4, <1>5, EnterSafeTorqueOff DEF HonourRequest, FaultReason, faultLatched
<1>6. CASE in.request = "SafeStop1"
  <2>1. CASE ch.state = SafeTorqueOff
    <3>1. next = ch
      BY <1>6, <2>1 DEF HonourRequest
    <3> QED BY <2>1, <3>1, <1>4 DEF faultLatched
  <2>2. CASE ch.state # SafeTorqueOff
    <3>1. next = [ch EXCEPT !.state = Stopping, !.stop_started_ns = t]
      BY <1>6, <1>4, <2>2 DEF HonourRequest
    <3>2. next \in Channel
      BY <3>1, States DEF Channel
    <3>3. /\ next.state = Stopping /\ next.stop_started_ns = t
          /\ next.limits = ch.limits /\ next.fault = ch.fault
      BY <3>1 DEF Channel
    <3> QED BY <3>2, <3>3, <1>4 DEF faultLatched
  <2> QED BY <2>1, <2>2
<1>7. CASE in.request = "SafeOperatingStop"
  <2>1. CASE ch.state = OperatingStop
    <3>1. next = ch
      BY <1>7, <2>1 DEF HonourRequest
    <3>2. /\ Drift(ch, in) <= ch.limits.standstill_window
          /\ in.speed_magnitude <= ch.limits.standstill_speed
      <4>1. Drift(ch, in) \in Int
        BY <1>3, <1>4 DEF Drift
      <4> QED BY <1>2, <1>3, <2>1, <4>1 DEF StateMonitor
    <3>3. in.position - ch.standstill_reference
            \in -ch.limits.standstill_window .. ch.limits.standstill_window
      BY <1>2, <1>3, <1>4, <3>2 DEF Drift
    <3> QED BY <2>1, <3>1, <3>2, <3>3, <1>4 DEF faultLatched
  <2>2. CASE /\ ch.state # OperatingStop
             /\ \/ ch.state = SafeTorqueOff
                \/ in.speed_magnitude > ch.limits.standstill_speed
    <3>1. next = enterSafeTorqueOff(ch, "InvalidRequest")
      BY <1>7, <2>2 DEF HonourRequest
    <3> QED BY <3>1, EnterSafeTorqueOff DEF FaultReason
  <2>3. CASE /\ ch.state # OperatingStop
             /\ ch.state # SafeTorqueOff
             /\ ~(in.speed_magnitude > ch.limits.standstill_speed)
    <3>1. next = [ch EXCEPT !.state = OperatingStop,
                            !.standstill_reference = in.position]
      BY <1>7, <2>3 DEF HonourRequest
    <3>2. next \in Channel
      BY <1>3, <3>1, States DEF Channel
    <3>3. /\ next.state = OperatingStop /\ next.standstill_reference = in.position
          /\ next.limits = ch.limits /\ next.fault = ch.fault
      BY <3>1 DEF Channel
    <3>4. in.position - next.standstill_reference
            \in -ch.limits.standstill_window .. ch.limits.standstill_window
      BY <1>2, <1>3, <3>3
    <3> QED BY <1>2, <1>3, <1>4, <2>3, <3>2, <3>3, <3>4 DEF faultLatched
  <2> QED BY <2>1, <2>2, <2>3
<1>8. CASE in.request = "SafelyLimitedSpeed"
  <2>1. CASE ch.state # LimitedSpeed /\ in.speed_magnitude > ch.limits.limited_speed
    <3>1. next = enterSafeTorqueOff(ch, "SpeedLimitExceeded")
      BY <1>8, <2>1 DEF HonourRequest
    <3> QED BY <3>1, EnterSafeTorqueOff DEF FaultReason
  <2>2. CASE ~(ch.state # LimitedSpeed /\ in.speed_magnitude > ch.limits.limited_speed)
    <3>1. next = [ch EXCEPT !.state = LimitedSpeed]
      BY <1>8, <2>2 DEF HonourRequest
    <3>2. in.speed_magnitude <= ch.limits.limited_speed
      BY <1>2, <1>3, <2>2 DEF StateMonitor
    <3> QED BY <1>4, <3>1, <3>2, States DEF Channel, faultLatched
  <2> QED BY <2>1, <2>2
<1>9. CASE in.request = "None"
  <2>1. next = [ch EXCEPT !.state = Operational]
    BY <1>9 DEF HonourRequest
  <2> QED BY <1>4, <2>1, States DEF Channel, faultLatched
<1> QED BY <1>3, <1>5, <1>6, <1>7, <1>8, <1>9 DEF SafetyFunction
(* evaluate() on a channel whose faults come with STO: what one cycle does,*)
(* in the words of the invariants below.                                   *)
LEMMA EvaluateEffect ==
  ASSUME NEW ch \in Channel, NEW in \in SafetyInputs, NEW t \in Nat,
         faultLatched(ch) => ch.state = SafeTorqueOff
  PROVE  LET next == evaluate(ch, in, t) IN
         /\ next \in Channel
         /\ next.limits = ch.limits
         /\ faultLatched(next) => next.state = SafeTorqueOff
         /\ faultLatched(ch) => /\ next.state = SafeTorqueOff
                                /\ next.fault \in {ch.fault, "None"}
         /\ ch.state = Stopping => next.state \in {Stopping, SafeTorqueOff}
         /\ unconditionalDemandActive(in) => next.state = SafeTorqueOff
         /\ next.state = LimitedSpeed =>
              in.speed_magnitude <= ch.limits.limited_speed
         /\ next.state = OperatingStop =>
              /\ in.speed_magnitude <= ch.limits.standstill_speed
              /\ in.position - next.standstill_reference
                   \in -ch.limits.standstill_window .. ch.limits.standstill_window
         /\ next.state = Stopping =>
              t - next.stop_started_ns <= ch.limits.stop_time_limit_ns
         /\ (ch.state \in Moving /\ next.state \in Moving) => ~OutOfBand(ch.limits, in)
<1> DEFINE next   == evaluate(ch, in, t)
           raised == MonitorFault(ch, in, t)
<1> USE DEF SafeTorqueOff, SelfTest, Stopping, OperatingStop, LimitedSpeed,
            Operational
<1>1. CASE unconditionalDemandActive(in)
  <2>1. next = enterSafeTorqueOff(ch, unconditionalDemandReason(in))
    BY <1>1 DEF evaluate
  <2>2. unconditionalDemandReason(in) \in FaultReason
    BY DEF unconditionalDemandReason, FaultReason
  <2> QED BY <2>1, <2>2, EnterSafeTorqueOff DEF Moving
<1>2. CASE ~unconditionalDemandActive(in) /\ faultLatched(ch)
  <2>1. next = LatchedPhase(ch, in)
    BY <1>2 DEF evaluate
  <2> QED BY <1>2, <2>1, LatchedPhaseEffect DEF Moving
<1>3. CASE /\ ~unconditionalDemandActive(in) /\ ~faultLatched(ch)
           /\ raised # "None"
  <2>1. next = enterSafeTorqueOff(ch, raised)
    BY <1>3 DEF evaluate
  <2> QED BY <1>3, <2>1, MonitorFaultType, EnterSafeTorqueOff DEF Moving
<1>4. CASE /\ ~unconditionalDemandActive(in) /\ ~faultLatched(ch)
           /\ raised = "None" /\ PhaseOver(ch, in)
  <2>1. next = enterSafeTorqueOff(ch, "None")
    BY <1>4 DEF evaluate
  <2>2. "None" \in FaultReason
    BY DEF FaultReason
  <2> QED BY <1>4, <2>1, <2>2, EnterSafeTorqueOff DEF Moving
<1>5. CASE /\ ~unconditionalDemandActive(in) /\ ~faultLatched(ch)
           /\ raised = "None" /\ ~PhaseOver(ch, in)
  <2>0. /\ StateMonitor(ch, in, t) = "None"
        /\ ch.state \in Moving => ~OutOfBand(ch.limits, in)
    BY <1>5 DEF MonitorFault
  <2>1. CASE ch.state \in {SelfTest, Stopping}
    <3>1. next = ch
      BY <1>5, <2>1 DEF evaluate
    <3>2. CASE ch.state = SelfTest
      BY <1>5, <3>1, <3>2 DEF Moving
    <3>3. CASE ch.state = Stopping
      <4>1. /\ ch.limits.standstill_speed \in Nat
            /\ ch.limits.stop_time_limit_ns \in Nat
            /\ ch.stop_started_ns \in Nat /\ in.speed_magnitude \in Nat
        BY SupervisorAssumption DEF Channel, SafetyLimits, SafetyInputs
      <4>2. in.speed_magnitude > ch.limits.standstill_speed
        BY <1>5, <3>3, <4>1 DEF PhaseOver
      <4>3. t - ch.stop_started_ns <= ch.limits.stop_time_limit_ns
        BY <2>0, <3>3, <4>1, <4>2 DEF StateMonitor
      <4> QED BY <1>5, <3>1, <3>3, <4>3 DEF Moving
    <3> QED BY <2>1, <3>2, <3>3
  <2>2. CASE ch.state \notin {SelfTest, Stopping}
    <3>1. next = HonourRequest(ch, in, t)
      BY <1>5, <2>2 DEF evaluate
    <3>2. ch.limits.stop_time_limit_ns \in Nat
      BY SupervisorAssumption DEF Channel, SafetyLimits
    <3>3. next.state = Stopping => t - next.stop_started_ns <= ch.limits.stop_time_limit_ns
      BY <1>5, <2>0, <2>2, <3>1, <3>2, HonourRequestEffect
    <3> QED BY <1>5, <2>0, <2>2, <3>1, <3>3, HonourRequestEffect
  <2> QED BY <2>1, <2>2
<1> QED BY <1>1, <1>2, <1>3, <1>4, <1>5

(* outputsFor returns a well-formed SafetyOutputs of the channel's state.  *)
LEMMA OutputsForType ==
  ASSUME NEW ch \in Channel
  PROVE  outputsFor(ch) \in SafetyOutputs
<1>1. ch.limits.limited_speed \in 0 .. Infinity
  BY SupervisorAssumption DEF Channel, SafetyLimits
<1>2. 0 \in 0 .. Infinity /\ Infinity \in 0 .. Infinity
  BY SupervisorAssumption
<1>3. outputsFor(ch).speed_limit \in 0 .. Infinity
  BY <1>1, <1>2 DEF outputsFor
<1>4. ch.state \in SafetyState /\ ch.fault \in FaultReason
  BY DEF Channel
<1> QED BY <1>3, <1>4 DEF outputsFor, SafetyOutputs, faultLatched

(* A default-constructed SafetyOutputs is well formed.                     *)
LEMMA DefaultOutputsType == DefaultOutputs \in SafetyOutputs
<1>1. 0 \in 0 .. Infinity /\ "None" \in FaultReason
  BY SupervisorAssumption DEF FaultReason
<1> QED BY <1>1, States DEF DefaultOutputs, SafetyOutputs

(* A newly constructed channel is well formed, without fault, and off.     *)
LEMMA PowerOnType ==
  ASSUME NEW limits \in LimitsSet
  PROVE  /\ PowerOn(limits) \in Channel
         /\ PowerOn(limits).state = SelfTest
         /\ ~faultLatched(PowerOn(limits))
<1>1. "None" \in FaultReason
  BY DEF FaultReason
<1> QED BY <1>1, States DEF PowerOn, Channel, faultLatched
-----------------------------------------------------------------------------
(* One channel, SafetyStateMachine.tla.                                    *)

(* Every variable keeps its type, and a latched fault comes with STO:      *)
(* TypeOK alone is inductive, FaultMeansTorqueOff and                      *)
(* EnergisedWithinLimits are so together with it.                          *)
ChannelInv == ChannelTypeOK /\ FaultMeansTorqueOff /\ EnergisedWithinLimits

(* The initial state satisfies the invariant.                              *)
LEMMA ChannelInitInv == ChannelInit => ChannelInv
<1> SUFFICES ASSUME NEW limits \in LimitsSet,
                    channel = PowerOn(limits), returned = DefaultOutputs,
                    timestamp = 0, tested = FALSE,
                    sample = [speed |-> 0, position |-> 0, demand |-> TRUE,
                              limits |-> limits]
             PROVE  ChannelInv
  BY DEF ChannelInit
<1>1. ChannelTypeOK
  <2>1. sample \in Sample
    BY DEF Sample
  <2>2. channel \in Channel /\ returned \in SafetyOutputs
    BY PowerOnType, DefaultOutputsType
  <2> QED BY <2>1, <2>2 DEF ChannelTypeOK
<1>2. channel.state = SelfTest /\ ~faultLatched(channel)
  BY PowerOnType
<1> QED BY <1>1, <1>2
        DEF ChannelInv, FaultMeansTorqueOff, EnergisedWithinLimits, Energised,
            SelfTest, Stopping, OperatingStop, LimitedSpeed, Operational

(* One cycle preserves the invariant, from EvaluateEffect.                 *)
LEMMA EvaluateInv ==
  ASSUME ChannelInv, NEW in \in Inputs, NEW elapsed \in Nat, Evaluate(in, elapsed)
  PROVE  ChannelInv'
<1>1. channel \in Channel /\ in \in SafetyInputs /\ timestamp' \in Nat
  BY SupervisorAssumption DEF ChannelInv, ChannelTypeOK, Evaluate
<1>2. channel' = evaluate(channel, in, timestamp')
  BY DEF Evaluate
<1>3. faultLatched(channel) => channel.state = SafeTorqueOff
  BY DEF ChannelInv, FaultMeansTorqueOff
<1>4. channel' \in Channel
  BY <1>1, <1>2, <1>3, EvaluateEffect
<1>5. ChannelTypeOK'
  <2>1. sample' \in Sample
    BY <1>1 DEF Evaluate, Sample, SafetyInputs, Channel
  <2>2. returned' \in SafetyOutputs
    BY <1>4, OutputsForType DEF Evaluate
  <2>3. tested' \in BOOLEAN
    BY DEF Evaluate
  <2> QED BY <1>1, <1>4, <2>1, <2>2, <2>3 DEF ChannelTypeOK
<1>6. FaultMeansTorqueOff'
  BY <1>1, <1>2, <1>3, EvaluateEffect DEF FaultMeansTorqueOff
<1>7. EnergisedWithinLimits'
  <2>1. /\ sample'.speed = in.speed_magnitude
        /\ sample'.position = in.position
        /\ sample'.limits = channel.limits
        /\ sample'.demand = unconditionalDemandActive(in)
    BY DEF Evaluate, unconditionalDemandActive
  <2>2. unconditionalDemandActive(in) => channel'.state \notin Energised
    <3>1. unconditionalDemandActive(in) => channel'.state = SafeTorqueOff
      BY <1>1, <1>2, <1>3, EvaluateEffect
    <3> QED BY <3>1 DEF Energised, SafeTorqueOff, Stopping, OperatingStop,
                        LimitedSpeed, Operational
  <2> QED BY <1>1, <1>2, <1>3, <2>1, <2>2, EvaluateEffect DEF EnergisedWithinLimits
<1> QED BY <1>5, <1>6, <1>7 DEF ChannelInv

(* The other operations preserve it: forceFault and reset leave the        *)
(* channel off, setLimits changes neither the state nor the last sample.   *)
LEMMA OtherStepsInv == ChannelInv /\ [ChannelNext]_channelVars => ChannelInv'
<1> SUFFICES ASSUME ChannelInv, [ChannelNext]_channelVars
             PROVE  ChannelInv'
  OBVIOUS
<1>0. channel \in Channel
  BY DEF ChannelInv, ChannelTypeOK
<1>1. ASSUME NEW in \in Inputs, NEW elapsed \in 0 .. MaxStep, Evaluate(in, elapsed)
      PROVE  ChannelInv'
  BY <1>1, EvaluateInv, TimeAssumption
<1>2. CASE ForceFault
  <2>1. "ChannelDiscrepancy" \in FaultReason
    BY DEF FaultReason
  <2>2. channel' \in Channel /\ channel'.state = SafeTorqueOff
    BY <1>0, <1>2, <2>1, EnterSafeTorqueOff DEF ForceFault
  <2> QED BY <1>2, <2>2
          DEF ChannelInv, ChannelTypeOK, FaultMeansTorqueOff, EnergisedWithinLimits, Energised,
              ForceFault, SafeTorqueOff, Stopping, OperatingStop, LimitedSpeed,
              Operational
<1>3. ASSUME NEW limits \in LimitsSet, SetLimits(limits)
      PROVE  ChannelInv'
  <2>1. /\ channel' \in Channel /\ channel'.state = channel.state
        /\ channel'.fault = channel.fault
        /\ channel'.stop_started_ns = channel.stop_started_ns
        /\ channel'.standstill_reference = channel.standstill_reference
    BY <1>0, <1>3 DEF SetLimits, Channel
  <2> QED BY <1>3, <2>1
          DEF ChannelInv, ChannelTypeOK, FaultMeansTorqueOff, EnergisedWithinLimits,
              SetLimits, faultLatched
<1>4. CASE ChannelReset
  <2>1. /\ channel' \in Channel /\ channel'.state = SelfTest
        /\ ~faultLatched(channel')
    <3>1. channel.limits \in LimitsSet
      BY <1>0 DEF Channel
    <3> QED BY <1>4, <3>1, PowerOnType DEF ChannelReset
  <2>2. ChannelTypeOK'
    BY <1>4, <2>1, DefaultOutputsType DEF ChannelInv, ChannelTypeOK, ChannelReset
  <2>3. channel'.state \notin Energised
    BY <2>1 DEF Energised, SelfTest, Stopping, OperatingStop, LimitedSpeed, Operational
  <2> QED BY <2>1, <2>2, <2>3 DEF ChannelInv, FaultMeansTorqueOff, EnergisedWithinLimits
<1>5. CASE UNCHANGED channelVars
  BY <1>5 DEF channelVars, ChannelInv, ChannelTypeOK, FaultMeansTorqueOff,
              EnergisedWithinLimits
<1> QED BY <1>1, <1>2, <1>3, <1>4, <1>5 DEF ChannelNext

(* The invariant holds of every behaviour.                                 *)
THEOREM ChannelInvariant == ChannelSpec => []ChannelInv
BY ChannelInitInv, OtherStepsInv, PTL DEF ChannelSpec

(* Every variable of the channel keeps its type.                           *)
THEOREM TypeCorrect == ChannelSpec => []ChannelTypeOK
<1>1. ChannelInv => ChannelTypeOK
  BY DEF ChannelInv
<1> QED BY <1>1, ChannelInvariant, PTL

(* A latched fault always comes with Safe Torque Off (REQ-SAF-034).        *)
THEOREM LatchedChannelIsOff == ChannelSpec => []FaultMeansTorqueOff
<1>1. ChannelInv => FaultMeansTorqueOff
  BY DEF ChannelInv
<1> QED BY <1>1, ChannelInvariant, PTL

(* An energised channel was given inputs its state tolerates               *)
(* (REQ-SAF-023 to 029).                                                   *)
THEOREM EnergisedChannelWithinLimits == ChannelSpec => []EnergisedWithinLimits
<1>1. ChannelInv => EnergisedWithinLimits
  BY DEF ChannelInv
<1> QED BY <1>1, ChannelInvariant, PTL

(* What any one step may do to a channel that satisfies the invariant.     *)
LEMMA ChannelStepEffect ==
  ASSUME ChannelInv, [ChannelNext]_channelVars
  PROVE  /\ faultLatched(channel) => channel'.fault \in {channel.fault, "None"}
         /\ faultLatched(channel) => channel'.state \notin Energised
         /\ channel.state = Stopping =>
              channel'.state \in {Stopping, SafeTorqueOff, SelfTest}
<1> USE DEF Energised, SafeTorqueOff, SelfTest, Stopping, OperatingStop,
            LimitedSpeed, Operational
<1>0. /\ channel \in Channel
      /\ faultLatched(channel) => channel.state = SafeTorqueOff
  BY DEF ChannelInv, ChannelTypeOK, FaultMeansTorqueOff
<1>1. ASSUME NEW in \in Inputs, NEW elapsed \in 0 .. MaxStep, Evaluate(in, elapsed)
      PROVE  /\ faultLatched(channel) => /\ channel'.fault \in {channel.fault, "None"}
                                         /\ channel'.state = SafeTorqueOff
             /\ channel.state = Stopping => channel'.state \in {Stopping, SafeTorqueOff}
  <2>1. /\ in \in SafetyInputs /\ timestamp' \in Nat
        /\ channel' = evaluate(channel, in, timestamp')
    BY <1>1, SupervisorAssumption, TimeAssumption DEF ChannelInv, ChannelTypeOK, Evaluate
  <2> QED BY <1>0, <2>1, EvaluateEffect
<1>2. CASE ForceFault
  <2>1. "ChannelDiscrepancy" \in FaultReason
    BY DEF FaultReason
  <2> QED BY <1>0, <1>2, <2>1, EnterSafeTorqueOff DEF ForceFault
<1>3. ASSUME NEW limits \in LimitsSet, SetLimits(limits)
      PROVE  channel'.state = channel.state /\ channel'.fault = channel.fault
  BY <1>0, <1>3 DEF SetLimits, Channel
<1>4. CASE ChannelReset
  <2>1. channel.limits \in LimitsSet
    BY <1>0 DEF Channel
  <2> QED BY <1>4, <2>1, PowerOnType DEF ChannelReset, faultLatched
<1>5. CASE UNCHANGED channelVars
  BY <1>0, <1>5 DEF channelVars
<1> QED BY <1>0, <1>1, <1>2, <1>3, <1>4, <1>5 DEF ChannelNext

(* The first cause of a fault is kept until acknowledgement (REQ-SAF-036). *)
THEOREM ChannelKeepsFirstCause == ChannelSpec => FirstCauseKept
<1>1. ChannelInv /\ [ChannelNext]_channelVars =>
        [faultLatched(channel) => channel'.fault \in {channel.fault, "None"}]_channelVars
  BY ChannelStepEffect
<1> QED BY <1>1, ChannelInvariant, PTL DEF ChannelSpec, FirstCauseKept

(* No step leads from a latched fault to torque (REQ-SAF-035).             *)
THEOREM ChannelNeverRestartsOnAcknowledge == ChannelSpec => AcknowledgeNeverEnergises
<1>1. ChannelInv /\ [ChannelNext]_channelVars =>
        [faultLatched(channel) => channel'.state \notin Energised]_channelVars
  BY ChannelStepEffect
<1> QED BY <1>1, ChannelInvariant, PTL DEF ChannelSpec, AcknowledgeNeverEnergises

(* A controlled stop can only end with torque off (REQ-SAF-031).           *)
THEOREM ChannelStopIsNotInterrupted == ChannelSpec => StopIsNotInterrupted
<1>1. ChannelInv /\ [ChannelNext]_channelVars =>
        [channel.state = Stopping =>
           channel'.state \in {Stopping, SafeTorqueOff, SelfTest}]_channelVars
  BY ChannelStepEffect
<1> QED BY <1>1, ChannelInvariant, PTL DEF ChannelSpec, StopIsNotInterrupted

(* The SLP monitor, before any request: a cycle from motion to motion      *)
(* found the position inside the band.                                     *)
LEMMA BandIsMonitored ==
  ASSUME NEW ch \in Channel, NEW in \in SafetyInputs, NEW t \in Nat,
         ch.state \in Moving, evaluate(ch, in, t).state \in Moving,
         ch.limits.position_monitoring_enabled
  PROVE  in.position \in ch.limits.position_min .. ch.limits.position_max
<1> DEFINE raised == MonitorFault(ch, in, t)
<1>1. SafeTorqueOff \notin Moving
  BY DEF Moving, SafeTorqueOff, LimitedSpeed, Operational
<1>2. raised \in FaultReason /\ unconditionalDemandReason(in) \in FaultReason
  BY MonitorFaultType DEF unconditionalDemandReason, FaultReason
<1>3. ~unconditionalDemandActive(in) /\ ~faultLatched(ch)
  <2>1. unconditionalDemandActive(in) => evaluate(ch, in, t).state = SafeTorqueOff
    BY <1>2, EnterSafeTorqueOff DEF evaluate
  <2>2. (~unconditionalDemandActive(in) /\ faultLatched(ch)) =>
          evaluate(ch, in, t).state = SafeTorqueOff
    BY LatchedPhaseEffect DEF evaluate
  <2> QED BY <1>1, <2>1, <2>2
<1>4. raised = "None"
  <2>1. raised # "None" => evaluate(ch, in, t).state = SafeTorqueOff
    BY <1>2, <1>3, EnterSafeTorqueOff DEF evaluate
  <2> QED BY <1>1, <2>1
<1>5. ~OutOfBand(ch.limits, in)
  BY <1>4 DEF MonitorFault
<1>6. /\ in.position \in Int
      /\ ch.limits.position_min \in Int /\ ch.limits.position_max \in Int
  BY SupervisorAssumption DEF SafetyInputs, Channel, SafetyLimits
<1> QED BY <1>5, <1>6 DEF OutOfBand

(* Motion is kept only inside the band (REQ-SAF-032).                      *)
THEOREM ChannelKeepsBand == ChannelSpec => MotionKeptInBand
<1>1. ChannelInv /\ [ChannelNext]_channelVars =>
        [/\ channel.state \in Moving /\ channel'.state \in Moving
         /\ timestamp' # timestamp
         /\ channel.limits.position_monitoring_enabled
         => sample'.position
              \in channel.limits.position_min .. channel.limits.position_max]_channelVars
  <2> SUFFICES ASSUME ChannelInv, ChannelNext, channel.state \in Moving,
                      channel'.state \in Moving, timestamp' # timestamp,
                      channel.limits.position_monitoring_enabled
               PROVE  sample'.position
                        \in channel.limits.position_min .. channel.limits.position_max
    OBVIOUS
  <2>1. PICK in \in Inputs, elapsed \in 0 .. MaxStep : Evaluate(in, elapsed)
    BY DEF ChannelNext, ForceFault, SetLimits, ChannelReset
  <2>2. /\ channel \in Channel /\ in \in SafetyInputs /\ timestamp' \in Nat
        /\ channel' = evaluate(channel, in, timestamp') /\ sample'.position = in.position
    BY <2>1, SupervisorAssumption, TimeAssumption DEF ChannelInv, ChannelTypeOK, Evaluate
  <2> QED BY <2>2, BandIsMonitored
<1> QED BY <1>1, ChannelInvariant, PTL DEF ChannelSpec, MotionKeptInBand
-----------------------------------------------------------------------------
(* The 1oo2D pair, DualChannel.tla.                                        *)

(* The strengthening: each channel's faults come with STO, and a channel   *)
(* not acknowledged since the latch was set still holds its fault.  The    *)
(* first gives the release of the latch a channel that is still off, the   *)
(* second gives ReleaseNeedsBoth its history.                              *)
ChannelsOff ==
  /\ faultLatched(a) => a.state = SafeTorqueOff
  /\ faultLatched(b) => b.state = SafeTorqueOff

UnacknowledgedHolds ==
  discrepancy_latched =>
    /\ "a" \in acked \/ faultLatched(a)
    /\ "b" \in acked \/ faultLatched(b)

DualInv ==
  /\ TypeOK
  /\ ChannelsOff
  /\ PermittedByBoth
  /\ LatchHoldsMachineOff
  /\ NoTorqueBeyondTolerance
  /\ UnacknowledgedHolds

(* The outputs of a latched discrepancy are well formed.                   *)
LEMMA DiscrepancyOutputsType == DiscrepancyOutputs \in SafetyOutputs
<1>1. 0 \in 0 .. Infinity /\ "ChannelDiscrepancy" \in FaultReason
  BY SupervisorAssumption DEF FaultReason
<1> QED BY <1>1, States DEF DiscrepancyOutputs, SafetyOutputs

(* combine() of two well-formed outputs is well formed.                    *)
LEMMA CombineType ==
  ASSUME NEW x \in SafetyOutputs, NEW y \in SafetyOutputs
  PROVE  combine(x, y) \in SafetyOutputs
<1>1. /\ x.state \in SafetyState /\ y.state \in SafetyState
      /\ x.fault \in FaultReason /\ y.fault \in FaultReason
      /\ x.speed_limit \in 0 .. Infinity /\ y.speed_limit \in 0 .. Infinity
      /\ x.torque_permitted \in BOOLEAN /\ y.torque_permitted \in BOOLEAN
      /\ x.motion_permitted \in BOOLEAN /\ y.motion_permitted \in BOOLEAN
      /\ x.brake_engaged \in BOOLEAN /\ y.brake_engaged \in BOOLEAN
      /\ x.fault_latched \in BOOLEAN /\ y.fault_latched \in BOOLEAN
  BY DEF SafetyOutputs
<1>2. Smaller(x.speed_limit, y.speed_limit) \in 0 .. Infinity
  BY <1>1 DEF Smaller
<1>3. Smaller(x.state, y.state) \in SafetyState
  BY <1>1 DEF Smaller
<1>4. (IF x.fault # "None" THEN x.fault ELSE y.fault) \in FaultReason
  BY <1>1
<1> QED BY <1>1, <1>2, <1>3, <1>4 DEF combine, SafetyOutputs

(* combine() of two channels' outputs permits only what both permit.       *)
LEMMA CombineIsSafe ==
  ASSUME NEW x \in Channel, NEW y \in Channel, NEW ch \in {x, y}
  PROVE  LET out == combine(outputsFor(x), outputsFor(y)) IN
         /\ out.torque_permitted => ch.state \in Energised
         /\ out.motion_permitted => ch.state \in Moving
         /\ out.speed_limit <= outputsFor(ch).speed_limit
         /\ out.brake_engaged \/ ch.state \in Energised
<1>1. /\ outputsFor(x).speed_limit \in Nat /\ outputsFor(y).speed_limit \in Nat
  BY OutputsForType, SupervisorAssumption DEF SafetyOutputs
<1>2. combine(outputsFor(x), outputsFor(y)).speed_limit <= outputsFor(ch).speed_limit
  BY <1>1 DEF combine, Smaller
<1>3. /\ combine(outputsFor(x), outputsFor(y)).torque_permitted => ch.state \in Energised
      /\ combine(outputsFor(x), outputsFor(y)).motion_permitted => ch.state \in Moving
      /\ combine(outputsFor(x), outputsFor(y)).brake_engaged \/ ch.state \in Energised
  BY DEF combine, outputsFor
<1> QED BY <1>2, <1>3

(* Outputs that permit nothing satisfy the clauses of PermittedByBoth for  *)
(* any channel.                                                            *)
LEMMA NothingPermittedIsSafe ==
  ASSUME NEW ch \in Channel, NEW out \in {DefaultOutputs, DiscrepancyOutputs}
  PROVE  /\ ~out.torque_permitted /\ ~out.motion_permitted /\ out.brake_engaged
         /\ out.speed_limit <= outputsFor(ch).speed_limit
<1>1. outputsFor(ch).speed_limit \in Nat
  BY OutputsForType, SupervisorAssumption DEF SafetyOutputs
<1> QED BY <1>1 DEF DefaultOutputs, DiscrepancyOutputs

(* forceFault() leaves a channel off with a fault.                         *)
LEMMA DrivenEffect ==
  ASSUME NEW ch \in Channel, NEW exceeded \in BOOLEAN,
         faultLatched(ch) => ch.state = SafeTorqueOff
  PROVE  /\ Driven(ch, exceeded) \in Channel
         /\ faultLatched(Driven(ch, exceeded)) =>
              Driven(ch, exceeded).state = SafeTorqueOff
         /\ exceeded => /\ Driven(ch, exceeded).state = SafeTorqueOff
                        /\ faultLatched(Driven(ch, exceeded))
         /\ ~exceeded => Driven(ch, exceeded) = ch
<1>1. "ChannelDiscrepancy" \in FaultReason
  BY DEF FaultReason
<1>2. CASE exceeded
  <2>1. Driven(ch, exceeded) = enterSafeTorqueOff(ch, "ChannelDiscrepancy")
    BY <1>2 DEF Driven
  <2>2. faultLatched(enterSafeTorqueOff(ch, "ChannelDiscrepancy"))
    BY DEF enterSafeTorqueOff, faultLatched, Channel
  <2> QED BY <1>1, <1>2, <2>1, <2>2, EnterSafeTorqueOff
<1>3. CASE ~exceeded
  BY <1>3 DEF Driven
<1> QED BY <1>2, <1>3

(* Both channels at power-on, outputs at their default.                    *)
LEMMA InitInv == Init => DualInv
<1> SUFFICES ASSUME Init PROVE DualInv
  OBVIOUS
<1>1. /\ PowerOn(Limits) \in Channel /\ ~faultLatched(PowerOn(Limits))
  BY DualAssumption, PowerOnType
<1>2. TypeOK
  BY <1>1, DefaultOutputsType DEF Init, TypeOK
<1>3. PermittedByBoth
  BY <1>1, NothingPermittedIsSafe DEF Init, PermittedByBoth
<1> QED BY <1>1, <1>2, <1>3 DEF Init, DualInv, ChannelsOff, LatchHoldsMachineOff,
                                NoTorqueBeyondTolerance, UnacknowledgedHolds

(* One cycle of the two channels.                                          *)
LEMMA CycleInv ==
  ASSUME DualInv, NEW a_in \in Inputs, NEW b_in \in Inputs,
         NEW elapsed \in Nat, evaluateBoth(a_in, b_in, elapsed)
  PROVE  /\ DualInv'
         /\ (~discrepancy_latched /\ discrepancy_latched') =>
              /\ a'.state = SafeTorqueOff /\ faultLatched(a')
              /\ b'.state = SafeTorqueOff /\ faultLatched(b')
         /\ (discrepancy_latched /\ ~discrepancy_latched') =>
              /\ acked' = {"a", "b"}
              /\ ~outputs'.torque_permitted
<1> DEFINE t        == now + elapsed
           a1       == evaluate(a, a_in, t)
           b1       == evaluate(b, b_in, t)
           exceeded == Exceeded(a1, b1, t)
           combined == combine(outputsFor(a1), outputsFor(b1))
<1>1. /\ a \in Channel /\ b \in Channel /\ t \in Nat
      /\ a_in \in SafetyInputs /\ b_in \in SafetyInputs
      /\ disagreement_since_ns \in Int /\ discrepancy_latched \in BOOLEAN
  BY SupervisorAssumption DEF DualInv, TypeOK
<1>2. /\ faultLatched(a) => a.state = SafeTorqueOff
      /\ faultLatched(b) => b.state = SafeTorqueOff
  BY DEF DualInv, ChannelsOff
<1>3. /\ a1 \in Channel
      /\ faultLatched(a1) => a1.state = SafeTorqueOff
      /\ faultLatched(a) => a1.state = SafeTorqueOff
  BY <1>1, <1>2, EvaluateEffect
<1>4. /\ b1 \in Channel
      /\ faultLatched(b1) => b1.state = SafeTorqueOff
      /\ faultLatched(b) => b1.state = SafeTorqueOff
  BY <1>1, <1>2, EvaluateEffect
<1>5. /\ now' = t
      /\ a' = Driven(a1, exceeded)
      /\ b' = Driven(b1, exceeded)
      /\ disagreement_since_ns' = Since(a1.state, b1.state, t)
      /\ discrepancy_latched' = ((discrepancy_latched \/ exceeded) /\ FaultRemains(a', b'))
      /\ outputs' = IF discrepancy_latched' THEN DiscrepancyOutputs ELSE combined
      /\ acked' = IF exceeded THEN {}
                  ELSE acked \cup {c \in {"a"} : Acknowledged(a, a1)}
                             \cup {c \in {"b"} : Acknowledged(b, b1)}
  BY DEF evaluateBoth
<1>6. exceeded \in BOOLEAN /\ (exceeded => ~discrepancy_latched)
  BY DEF Exceeded
<1> HIDE DEF a1, b1, exceeded, combined, t
<1>7. /\ a' \in Channel
      /\ faultLatched(a') => a'.state = SafeTorqueOff
      /\ exceeded => a'.state = SafeTorqueOff /\ faultLatched(a')
      /\ ~exceeded => a' = a1
  BY <1>3, <1>5, <1>6, DrivenEffect
<1>8. /\ b' \in Channel
      /\ faultLatched(b') => b'.state = SafeTorqueOff
      /\ exceeded => b'.state = SafeTorqueOff /\ faultLatched(b')
      /\ ~exceeded => b' = b1
  BY <1>4, <1>5, <1>6, DrivenEffect
<1>9. ~discrepancy_latched' => ~exceeded /\ outputs' = combined /\ a' = a1 /\ b' = b1
  BY <1>5, <1>6, <1>7, <1>8 DEF FaultRemains
<1>10. combined \in SafetyOutputs
  BY <1>3, <1>4, OutputsForType, CombineType DEF combined
<1>11. TypeOK'
  <2>1. outputs' \in SafetyOutputs
    BY <1>5, <1>10, DiscrepancyOutputsType
  <2>2. disagreement_since_ns' \in Nat \cup {-1}
    BY <1>1, <1>5 DEF Since, DualInv, TypeOK
  <2>3. discrepancy_latched' \in BOOLEAN
    BY <1>5
  <2>4. acked' \in SUBSET {"a", "b"}
    BY <1>5 DEF DualInv, TypeOK
  <2> QED BY <1>1, <1>5, <1>7, <1>8, <2>1, <2>2, <2>3, <2>4 DEF TypeOK
<1>12. ChannelsOff'
  BY <1>7, <1>8 DEF ChannelsOff
<1>13. PermittedByBoth'
  <2>1. CASE discrepancy_latched'
    BY <1>5, <1>7, <1>8, <2>1, NothingPermittedIsSafe DEF PermittedByBoth
  <2>2. CASE ~discrepancy_latched'
    BY <1>3, <1>4, <1>9, <2>2, CombineIsSafe DEF PermittedByBoth, combined
  <2> QED BY <2>1, <2>2
<1>14. LatchHoldsMachineOff'
  BY <1>5 DEF LatchHoldsMachineOff, FaultRemains, DiscrepancyOutputs
<1>15. outputs'.torque_permitted =>
         ~discrepancy_latched /\ ~discrepancy_latched' /\ ~exceeded
  <2> SUFFICES ASSUME outputs'.torque_permitted
               PROVE  ~discrepancy_latched /\ ~discrepancy_latched' /\ ~exceeded
    OBVIOUS
  <2>1. ~discrepancy_latched'
    BY <1>5 DEF DiscrepancyOutputs
  <2>2. a1.state \in Energised /\ b1.state \in Energised
    BY <1>9, <2>1, <1>13 DEF PermittedByBoth
  <2>3. ~faultLatched(a) /\ ~faultLatched(b)
    BY <1>3, <1>4, <2>2 DEF Energised, SafeTorqueOff, Stopping, OperatingStop,
                            LimitedSpeed, Operational
  <2> QED BY <1>9, <2>1, <2>3 DEF DualInv, LatchHoldsMachineOff
<1>16. NoTorqueBeyondTolerance'
  <2> SUFFICES ASSUME outputs'.torque_permitted, disagreement_since_ns' >= 0
               PROVE  now' - disagreement_since_ns' <= Tolerance
    BY DEF NoTorqueBeyondTolerance
  <2>1. a1.state # b1.state
    BY <1>5 DEF Since
  <2>2. disagreement_since_ns' \in Int
    BY <1>11 DEF TypeOK
  <2> QED BY <1>1, <1>5, <1>15, <2>1, <2>2, DualAssumption DEF exceeded, Exceeded
<1>17. UnacknowledgedHolds'
  <2>1. CASE exceeded
    BY <1>7, <1>8, <2>1 DEF UnacknowledgedHolds
  <2>2. CASE ~exceeded
    <3> SUFFICES ASSUME discrepancy_latched'
                 PROVE  /\ "a" \in acked' \/ faultLatched(a')
                        /\ "b" \in acked' \/ faultLatched(b')
      BY DEF UnacknowledgedHolds
    <3>1. discrepancy_latched
      BY <1>5, <2>2
    <3> QED BY <1>5, <1>7, <1>8, <2>2, <3>1
            DEF DualInv, UnacknowledgedHolds, Acknowledged
  <2> QED BY <1>6, <2>1, <2>2
<1>18. (~discrepancy_latched /\ discrepancy_latched') =>
         /\ a'.state = SafeTorqueOff /\ faultLatched(a')
         /\ b'.state = SafeTorqueOff /\ faultLatched(b')
  BY <1>5, <1>7, <1>8
<1>19. (discrepancy_latched /\ ~discrepancy_latched') =>
         acked' = {"a", "b"} /\ ~outputs'.torque_permitted
  <2> SUFFICES ASSUME discrepancy_latched, ~discrepancy_latched'
               PROVE  acked' = {"a", "b"} /\ ~outputs'.torque_permitted
    OBVIOUS
  <2>1. ~faultLatched(a1) /\ ~faultLatched(b1)
    BY <1>5, <1>9 DEF FaultRemains
  <2>2. /\ "a" \in acked \/ faultLatched(a)
        /\ "b" \in acked \/ faultLatched(b)
    BY DEF DualInv, UnacknowledgedHolds
  <2>3. "a" \in acked' /\ "b" \in acked'
    BY <1>5, <1>9, <2>1, <2>2 DEF Acknowledged
  <2>4. acked' \in SUBSET {"a", "b"}
    BY <1>11 DEF TypeOK
  <2> QED BY <1>15, <2>3, <2>4
<1> QED BY <1>11, <1>12, <1>13, <1>14, <1>16, <1>17, <1>18, <1>19 DEF DualInv

(* Any step: a cycle, reset(), or a stutter.                               *)
LEMMA StepInv ==
  ASSUME DualInv, [Next]_vars
  PROVE  /\ DualInv'
         /\ (~discrepancy_latched /\ discrepancy_latched') =>
              /\ a'.state = SafeTorqueOff /\ faultLatched(a')
              /\ b'.state = SafeTorqueOff /\ faultLatched(b')
         /\ (discrepancy_latched /\ ~discrepancy_latched') =>
              /\ acked' = {"a", "b"} \/ a'.state = SelfTest
              /\ ~outputs'.torque_permitted
<1>1. CASE Cycle
  BY <1>1, CycleInv, TimeAssumption DEF Cycle
<1>2. CASE Reset
  <2>1. /\ PowerOn(Limits) \in Channel /\ ~faultLatched(PowerOn(Limits))
        /\ PowerOn(Limits).state = SelfTest
    BY DualAssumption, PowerOnType
  <2>2. TypeOK'
    BY <1>2, <2>1, DefaultOutputsType DEF DualInv, TypeOK, Reset
  <2>3. PermittedByBoth'
    BY <1>2, <2>1, NothingPermittedIsSafe DEF Reset, PermittedByBoth
  <2>4. ~outputs'.torque_permitted
    BY <1>2 DEF Reset, DefaultOutputs
  <2> QED BY <1>2, <2>1, <2>2, <2>3, <2>4
          DEF Reset, DualInv, ChannelsOff, LatchHoldsMachineOff,
              NoTorqueBeyondTolerance, UnacknowledgedHolds
<1>3. CASE UNCHANGED vars
  BY <1>3 DEF vars, DualInv, TypeOK, ChannelsOff, PermittedByBoth,
              LatchHoldsMachineOff, NoTorqueBeyondTolerance, UnacknowledgedHolds
<1> QED BY <1>1, <1>2, <1>3 DEF Next

(* The inductive invariant holds of every behaviour.                       *)
THEOREM DualInvariant == Spec => []DualInv
<1>1. DualInv /\ [Next]_vars => DualInv'
  BY StepInv
<1> QED BY <1>1, InitInv, PTL DEF Spec

(* The machine is permitted only what both channels permit (REQ-SAF-040).  *)
THEOREM OneOutOfTwo == Spec => []PermittedByBoth
<1>1. DualInv => PermittedByBoth
  BY DEF DualInv
<1> QED BY <1>1, DualInvariant, PTL

(* A latched discrepancy holds the machine off (REQ-SAF-043, 044).         *)
THEOREM LatchIsSafe == Spec => []LatchHoldsMachineOff
<1>1. DualInv => LatchHoldsMachineOff
  BY DEF DualInv
<1> QED BY <1>1, DualInvariant, PTL

(* No torque on a disagreement older than the tolerance (REQ-SAF-042).     *)
THEOREM ToleranceIsBound == Spec => []NoTorqueBeyondTolerance
<1>1. DualInv => NoTorqueBeyondTolerance
  BY DEF DualInv
<1> QED BY <1>1, DualInvariant, PTL

(* A discrepancy drives both channels off (REQ-SAF-043).                   *)
THEOREM BothAreDriven == Spec => DiscrepancyDrivesBoth
<1>1. DualInv /\ [Next]_vars =>
        [(~discrepancy_latched /\ discrepancy_latched') =>
           /\ a'.state = SafeTorqueOff /\ faultLatched(a')
           /\ b'.state = SafeTorqueOff /\ faultLatched(b')]_vars
  BY StepInv
<1> QED BY <1>1, DualInvariant, PTL DEF Spec, DiscrepancyDrivesBoth

(* The latch is released only by both acknowledgements, without torque     *)
(* (REQ-SAF-044).                                                          *)
THEOREM ReleaseIsSafe == Spec => ReleaseNeedsBoth
<1>1. DualInv /\ [Next]_vars =>
        [(discrepancy_latched /\ ~discrepancy_latched') =>
           /\ acked' = {"a", "b"} \/ a'.state = SelfTest
           /\ ~outputs'.torque_permitted]_vars
  BY StepInv
<1> QED BY <1>1, DualInvariant, PTL DEF Spec, ReleaseNeedsBoth
=============================================================================
