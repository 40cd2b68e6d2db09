-------------------------- MODULE MCCyclicExecutor ---------------------------
(***************************************************************************)
(* An instance of CyclicExecutor for TLC.                                  *)
(***************************************************************************)
EXTENDS CyclicExecutor

(* What rt_cycle_report.cpp asks for, only a stack that scratch[] covers,  *)
(* and another priority with too small a stack to touch.                   *)
MCRequests ==
  {[policy |-> "FIFO", priority |-> 80, cpu |-> "one", lock_memory |-> TRUE,
    prefault_stack |-> TRUE, pages |-> 128],
   [policy |-> "OTHER", priority |-> 0, cpu |-> "none", lock_memory |-> FALSE,
    prefault_stack |-> TRUE, pages |-> 4],
   [policy |-> "FIFO", priority |-> 70, cpu |-> "one", lock_memory |-> FALSE,
    prefault_stack |-> TRUE, pages |-> 0]}
=============================================================================
