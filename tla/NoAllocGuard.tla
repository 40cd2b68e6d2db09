---------------------------- MODULE NoAllocGuard -----------------------------
(***************************************************************************)
(* The allocation guard of src/rt/no_alloc_guard.cpp with the operator new *)
(* replacements of no_alloc_guard_hooks.cpp, linked in: threads open and   *)
(* close NoAllocScope and AllowAllocScope objects, allocate, and read and  *)
(* reset the process-wide report.  CyclicExecutor.tla takes the steps.     *)
(***************************************************************************)
EXTENDS Integers, FiniteSetsExt

CONSTANTS
  Threads,
  Sizes       \* the sizes allocated, in bytes

ASSUME GuardAssumption == Sizes \subseteq Nat \ {0}

VARIABLES
  no_alloc_depth, allow_depth,  \* the thread-local counters
  reporting,      \* where each thread is in reportViolation()
  violations, largest_bytes, policy,  \* the process-wide atomics
  aborted,
  resetting,      \* resetAllocationReport() has stored one of its two zeroes
  largest_seen,   \* history: the largest size counted since the last reset
  clean           \* history: no reset has met a report in progress

depths  == <<no_alloc_depth, allow_depth>>
atomics == <<violations, largest_bytes, policy>>
guard   == <<depths, reporting, atomics, aborted, resetting, largest_seen, clean>>

Policies == {"Ignore", "Count", "Abort"}

(* A thread that is not reporting, and one that compares its size with     *)
(* the value of g_largest_bytes it has loaded, or has not yet.             *)
Quiet == [at |-> "quiet", bytes |-> 0, previous |-> 0]

GuardType ==
  /\ no_alloc_depth \in [Threads -> Nat] /\ allow_depth \in [Threads -> Nat]
  /\ reporting \in [Threads ->
       [at: {"quiet", "load", "exchange"}, bytes: {0} \cup Sizes, previous: {0} \cup Sizes]]
  /\ violations \in Nat /\ largest_bytes \in {0} \cup Sizes /\ policy \in Policies
  /\ aborted \in BOOLEAN /\ resetting \in BOOLEAN
  /\ largest_seen \in {0} \cup Sizes /\ clean \in BOOLEAN

GuardInit ==
  /\ no_alloc_depth = [t \in Threads |-> 0] /\ allow_depth = [t \in Threads |-> 0]
  /\ reporting = [t \in Threads |-> Quiet]
  /\ violations = 0 /\ largest_bytes = 0 /\ policy = "Abort"
  /\ aborted = FALSE /\ resetting = FALSE
  /\ largest_seen = 0 /\ clean = TRUE

AllQuiet == \A t \in Threads : reporting[t] = Quiet
-----------------------------------------------------------------------------
(* The constructors and destructors of the scopes.                         *)
NoAllocBegin(t) == no_alloc_depth' = [no_alloc_depth EXCEPT ![t] = @ + 1]
NoAllocEnd(t)   == no_alloc_depth' = [no_alloc_depth EXCEPT ![t] = @ - 1]

AllowBegin(t) == allow_depth' = [allow_depth EXCEPT ![t] = @ + 1]
AllowEnd(t)   == allow_depth' = [allow_depth EXCEPT ![t] = @ - 1]

inNoAllocScope(t) == no_alloc_depth[t] > 0 /\ allow_depth[t] = 0

(* operator new, in any of its forms, calls noteAllocation() once, and     *)
(* reportViolation() begins with its fetch_add.  The allocation itself,    *)
(* and operator delete, leave the guard alone.                             *)
NoteAllocation(t, bytes) ==
  /\ reporting[t] = Quiet /\ inNoAllocScope(t)
  /\ violations' = violations + 1
  /\ reporting' = [reporting EXCEPT ![t] = [at |-> "load", bytes |-> bytes, previous |-> 0]]
  /\ largest_seen' = Max({largest_seen, bytes})
  /\ clean' = (clean /\ ~resetting)
  /\ UNCHANGED <<depths, largest_bytes, policy, aborted, resetting>>

(* The load of g_largest_bytes before the loop.                            *)
LoadLargest(t) ==
  /\ reporting[t].at = "load"
  /\ reporting' = [reporting EXCEPT ![t].at = "exchange", ![t].previous = largest_bytes]
  /\ UNCHANGED <<depths, atomics, aborted, resetting, largest_seen, clean>>

(* The report is over; under kAbort so is the process.                     *)
EndReport(t) ==
  /\ reporting' = [reporting EXCEPT ![t] = Quiet]
  /\ aborted' = (policy = "Abort")

M_StoreLargest(t) ==
  /\ reporting[t].at = "exchange"
  /\ largest_bytes' = IF reporting[t].bytes > reporting[t].previous
                      THEN reporting[t].bytes ELSE largest_bytes
  /\ EndReport(t)
  /\ UNCHANGED <<depths, violations, policy, resetting, largest_seen, clean>>

(* The loop around compare_exchange_weak, which reloads previous when it   *)
(* fails, as it may on an equal value too.                                 *)
ExchangeLargest(t) ==
  LET bytes == reporting[t].bytes
      previous == reporting[t].previous
  IN
  /\ reporting[t].at = "exchange"
  /\ \/ bytes <= previous /\ EndReport(t) /\ UNCHANGED largest_bytes
     \/ /\ bytes > previous /\ largest_bytes = previous
        /\ largest_bytes' = bytes
        /\ EndReport(t)
     \/ /\ bytes > previous
        /\ reporting' = [reporting EXCEPT ![t].previous = largest_bytes]
        /\ UNCHANGED <<largest_bytes, aborted>>
  /\ UNCHANGED <<depths, violations, policy, resetting, largest_seen, clean>>

(* setAllocationPolicy(): "Set before entering any real-time section".     *)
SetAllocationPolicy(p) ==
  /\ \A t \in Threads : no_alloc_depth[t] = 0
  /\ policy' = p
  /\ UNCHANGED <<depths, reporting, violations, largest_bytes, aborted, resetting,
                 largest_seen, clean>>

(* resetAllocationReport(): two stores, one after the other.               *)
ResetViolations ==
  /\ ~resetting
  /\ violations' = 0
  /\ resetting' = TRUE
  /\ largest_seen' = 0
  /\ clean' = (clean /\ AllQuiet)
  /\ UNCHANGED <<depths, reporting, largest_bytes, policy, aborted>>

ResetLargest ==
  /\ resetting
  /\ largest_bytes' = 0
  /\ resetting' = FALSE
  /\ UNCHANGED <<depths, reporting, violations, policy, aborted, largest_seen, clean>>
=============================================================================
