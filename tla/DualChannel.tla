---------------------------- MODULE DualChannel ------------------------------
(***************************************************************************)
(* The 1oo2D supervisor, DualChannelSupervisor in                          *)
(* src/safety/dual_channel.cpp: two channels evaluated on independently    *)
(* sensed inputs, cross-compared, and combined in the safe direction.  The *)
(* Diagnostics counters, which nothing reads back, are left out.           *)
(***************************************************************************)
EXTENDS SupervisorLogic

CONSTANTS
  Limits,     \* the limits both channels are configured with
  Tolerance   \* discrepancy_tolerance_ns

ASSUME DualAssumption == Limits \in LimitsSet /\ Tolerance \in Nat

VARIABLES
  a, b,                     \* channel_a_ and channel_b_
  disagreement_since_ns,    \* -1 while the channels agree
  discrepancy_latched,
  outputs,                  \* what the last evaluate() since power-on returned
  now,                      \* the now_ns of that call
  acked                     \* history: channels acknowledged since the latch was set

vars == <<a, b, disagreement_since_ns, discrepancy_latched, outputs, now, acked>>

TypeOK ==
  /\ a \in Channel /\ b \in Channel
  /\ disagreement_since_ns \in Nat \cup {-1}
  /\ discrepancy_latched \in BOOLEAN
  /\ outputs \in SafetyOutputs
  /\ now \in Nat
  /\ acked \in SUBSET {"a", "b"}

Smaller(x, y) == IF x <= y THEN x ELSE y

M_combineTorqueOr(x, y) ==
  [torque_permitted |-> x.torque_permitted \/ y.torque_permitted,
   motion_permitted |-> x.motion_permitted /\ y.motion_permitted,
   speed_limit      |-> Smaller(x.speed_limit, y.speed_limit),
   brake_engaged    |-> x.brake_engaged \/ y.brake_engaged,
   state            |-> Smaller(x.state, y.state),
   fault            |-> IF x.fault # "None" THEN x.fault ELSE y.fault,
   fault_latched    |-> x.fault_latched \/ y.fault_latched]

combine(x, y) ==
  [torque_permitted |-> x.torque_permitted /\ y.torque_permitted,
   motion_permitted |-> x.motion_permitted /\ y.motion_permitted,
   speed_limit      |-> Smaller(x.speed_limit, y.speed_limit),
   brake_engaged    |-> x.brake_engaged \/ y.brake_engaged,
   state            |-> Smaller(x.state, y.state),
   fault            |-> IF x.fault # "None" THEN x.fault ELSE y.fault,
   fault_latched    |-> x.fault_latched \/ y.fault_latched]

M_discrepancyUnreported ==
  [torque_permitted |-> FALSE, motion_permitted |-> FALSE, speed_limit |-> 0,
   brake_engaged |-> TRUE, state |-> SafeTorqueOff, fault |-> "ChannelDiscrepancy",
   fault_latched |-> FALSE]

(* What evaluate() returns while the discrepancy is latched.               *)
DiscrepancyOutputs ==
  [torque_permitted |-> FALSE, motion_permitted |-> FALSE, speed_limit |-> 0,
   brake_engaged |-> TRUE, state |-> SafeTorqueOff, fault |-> "ChannelDiscrepancy",
   fault_latched |-> TRUE]

Init ==
  /\ a = PowerOn(Limits) /\ b = PowerOn(Limits)
  /\ disagreement_since_ns = -1
  /\ discrepancy_latched = FALSE
  /\ outputs = DefaultOutputs
  /\ now = 0
  /\ acked = {}

(* The timer of the cross-comparison, given the states just evaluated.     *)
Since(state_a, state_b, now_ns) ==
  IF state_a = state_b THEN -1
  ELSE IF disagreement_since_ns < 0 THEN now_ns ELSE disagreement_since_ns

Acknowledged(before, after) == faultLatched(before) /\ ~faultLatched(after)

M_toleranceOffByOne(x, y, now_ns) ==
  /\ x.state # y.state
  /\ now_ns - Since(x.state, y.state, now_ns) > Tolerance + 1
  /\ ~discrepancy_latched

(* The disagreement has outlasted the tolerance and is not yet latched.    *)
Exceeded(x, y, now_ns) ==
  /\ x.state # y.state
  /\ now_ns - Since(x.state, y.state, now_ns) > Tolerance
  /\ ~discrepancy_latched

(* forceFault() on a channel; it keeps an older fault of its own.          *)
Driven(ch, exceeded) ==
  IF exceeded THEN enterSafeTorqueOff(ch, "ChannelDiscrepancy") ELSE ch

M_eitherAcknowledged(x, y) == faultLatched(x) /\ faultLatched(y)

(* What keeps the latch: it is released once neither channel has a fault.  *)
FaultRemains(x, y) == faultLatched(x) \/ faultLatched(y)

evaluateBoth(a_in, b_in, elapsed) ==
  LET now_ns   == now + elapsed
      a1       == evaluate(a, a_in, now_ns)
      b1       == evaluate(b, b_in, now_ns)
      exceeded == Exceeded(a1, b1, now_ns)
  IN
  /\ now_ns <= MaxTime
  /\ now' = now_ns
  /\ a' = Driven(a1, exceeded)
  /\ b' = Driven(b1, exceeded)
  /\ disagreement_since_ns' = Since(a1.state, b1.state, now_ns)
  /\ discrepancy_latched' = ((discrepancy_latched \/ exceeded) /\ FaultRemains(a', b'))
  /\ outputs' = IF discrepancy_latched' THEN DiscrepancyOutputs
                ELSE combine(outputsFor(a1), outputsFor(b1))
  /\ acked' = IF exceeded THEN {}
              ELSE acked \cup {c \in {"a"} : Acknowledged(a, a1)}
                         \cup {c \in {"b"} : Acknowledged(b, b1)}

Reset ==
  /\ a' = PowerOn(Limits) /\ b' = PowerOn(Limits)
  /\ disagreement_since_ns' = -1
  /\ discrepancy_latched' = FALSE
  /\ outputs' = DefaultOutputs
  /\ acked' = {}
  /\ UNCHANGED now

Cycle ==
  \E a_in \in Inputs, b_in \in Inputs, elapsed \in 0 .. MaxStep :
    evaluateBoth(a_in, b_in, elapsed)

Next == Cycle \/ Reset

Spec == Init /\ [][Next]_vars
-----------------------------------------------------------------------------
(* REQ-SAF-040, combine() and the early return of evaluate(): after every  *)
(* cycle, the machine is permitted only what both channels, as that cycle  *)
(* left them, permit.                                                      *)
PermittedByBoth ==
  \A ch \in {a, b} :
    /\ outputs.torque_permitted => ch.state \in Energised
    /\ outputs.motion_permitted => ch.state \in Moving
    /\ outputs.speed_limit <= outputsFor(ch).speed_limit
    /\ outputs.brake_engaged \/ ch.state \in Energised

(* REQ-SAF-043 and 044: while the discrepancy is latched the machine has   *)
(* no torque, and at least one channel still holds a fault, so that the    *)
(* latch cannot outlive the acknowledgement of both.                       *)
LatchHoldsMachineOff ==
  discrepancy_latched =>
    /\ ~outputs.torque_permitted /\ outputs.fault_latched
    /\ faultLatched(a) \/ faultLatched(b)

(* REQ-SAF-042, the cross-comparison timer: the machine never keeps torque *)
(* on a pair of channels that has disagreed for longer than the tolerance, *)
(* not even when the latch is released while they still disagree.          *)
NoTorqueBeyondTolerance ==
  (outputs.torque_permitted /\ disagreement_since_ns >= 0)
    => now - disagreement_since_ns <= Tolerance

(* REQ-SAF-043: the cycle that latches the discrepancy leaves both         *)
(* channels in STO with a fault.                                           *)
DiscrepancyDrivesBoth ==
  [][(~discrepancy_latched /\ discrepancy_latched') =>
       /\ a'.state = SafeTorqueOff /\ faultLatched(a')
       /\ b'.state = SafeTorqueOff /\ faultLatched(b')]_vars

(* REQ-SAF-044: but for reset(), the latch is released only when each      *)
(* channel has been acknowledged since it was set, and the cycle that      *)
(* releases it gives no torque, whatever the channel acknowledged first    *)
(* has been requested to do meanwhile.                                     *)
ReleaseNeedsBoth ==
  [][(discrepancy_latched /\ ~discrepancy_latched') =>
       /\ acked' = {"a", "b"} \/ a'.state = SelfTest
       /\ ~outputs'.torque_permitted]_vars
=============================================================================
