---------------------------- MODULE MCDualChannel ----------------------------
(***************************************************************************)
(* Two channels without a position band.  The inputs are the classes that  *)
(* drive a channel through each of its states: the pairs of them are what  *)
(* two independent sensors and hosts can present in one cycle.             *)
(***************************************************************************)
EXTENDS DualChannel

MCLimitsRecord ==
  [limited_speed |-> 1, position_min |-> 0, position_max |-> 0,
   position_monitoring_enabled |-> FALSE, standstill_window |-> 0,
   standstill_speed |-> 0, stop_time_limit_ns |-> 1]

MCLimitsSet == {MCLimitsRecord}

MCInfinity == 9

Healthy(speed, request, acknowledge) ==
  [speed_magnitude |-> speed, position |-> 0, emergency_stop_asserted |-> FALSE,
   communication_ok |-> TRUE, heartbeat_ok |-> TRUE, self_test_passed |-> TRUE,
   request |-> request, acknowledge |-> acknowledge]

MCInputs ==
  {Healthy(0, "None", FALSE), Healthy(0, "None", TRUE),
   Healthy(1, "SafelyLimitedSpeed", TRUE), Healthy(2, "SafelyLimitedSpeed", FALSE),
   Healthy(1, "SafeStop1", FALSE), Healthy(0, "SafeOperatingStop", FALSE),
   Healthy(0, "SafeTorqueOff", FALSE),
   [Healthy(0, "None", TRUE) EXCEPT !.emergency_stop_asserted = TRUE]}
=============================================================================
