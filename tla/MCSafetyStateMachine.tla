------------------------ MODULE MCSafetyStateMachine -------------------------
(***************************************************************************)
(* One channel with two limit sets, one with and one without the position  *)
(* band.  Speeds 0, 1, 2 are standstill, at the SLS limit and above it;    *)
(* position 2 is outside the band and two windows away from position 0.    *)
(***************************************************************************)
EXTENDS SafetyStateMachine

MCLimits ==
  {[limited_speed |-> 1, position_min |-> 0, position_max |-> 1,
    position_monitoring_enabled |-> banded, standstill_window |-> 1,
    standstill_speed |-> 0, stop_time_limit_ns |-> 1] : banded \in BOOLEAN}

MCInfinity == 9

Healthy(speed, position, passed, request, acknowledge) ==
  [speed_magnitude |-> speed, position |-> position,
   emergency_stop_asserted |-> FALSE, communication_ok |-> TRUE,
   heartbeat_ok |-> TRUE, self_test_passed |-> passed, request |-> request,
   acknowledge |-> acknowledge]

Demanding ==
  {[Healthy(0, 0, FALSE, "None", TRUE)
      EXCEPT !.emergency_stop_asserted = estop, !.communication_ok = comm,
             !.heartbeat_ok = heartbeat] :
     estop \in BOOLEAN, comm \in BOOLEAN, heartbeat \in BOOLEAN}

(* A cycle with a demand reads nothing else, and only the self test reads  *)
(* self_test_passed, so those inputs are combined with fewer of the rest.  *)
MCInputs ==
  {Healthy(speed, position, TRUE, request, acknowledge) :
     speed \in 0 .. 2, position \in 0 .. 2, request \in SafetyFunction,
     acknowledge \in BOOLEAN}
  \cup {Healthy(0, 0, FALSE, request, TRUE) : request \in SafetyFunction}
  \cup Demanding
=============================================================================
