---------------------------- MODULE ThreadConfig -----------------------------
(***************************************************************************)
(* applyThreadConfig() of src/rt/thread_config.cpp, as a function of what  *)
(* is asked for, of how the thread runs and of what the kernel answers.    *)
(* On Linux, where the calls that read a setting of the calling thread     *)
(* back do not fail.                                                       *)
(*                                                                         *)
(* A kernel grants a call, denies it, or accepts it and ignores it.  The   *)
(* diagnostics are the set of the reasons given: the buffer of 512 bytes   *)
(* may cut a reason short, and never loses the first.                      *)
(***************************************************************************)
EXTENDS Integers

SchedulingPolicies == {"OTHER", "FIFO", "RR"}

(* ThreadConfig: "OTHER" is kDefault, "none" a cpu below zero, and pages   *)
(* is prefault_bytes in pages.                                             *)
ThreadConfigs ==
  [policy: SchedulingPolicies, priority: Nat, cpu: {"none", "one"},
   lock_memory: BOOLEAN, prefault_stack: BOOLEAN, pages: Nat]

(* How a thread runs.                                                      *)
ThreadStates ==
  [policy: SchedulingPolicies, priority: Nat, pinned: BOOLEAN, locked: BOOLEAN,
   touched: Nat]

NewThread ==
  [policy |-> "OTHER", priority |-> 0, pinned |-> FALSE, locked |-> FALSE, touched |-> 0]

Answers == {"granted", "denied", "ignored"}
KernelAnswers == [schedule: Answers, pin: Answers, lock: BOOLEAN]

(* The pages scratch[65536] has, for pages of 4096 bytes.                  *)
ScratchPages == 16

(* prefault_bytes reaches a page and not 65536 of them.                    *)
PrefaultInRange(config) == config.pages > 0 /\ config.pages < 65536

(* What the calls of applyThreadConfig() leave in force.                   *)
InForce(config, kernel, thread) ==
  LET scheduled == config.policy # "OTHER" /\ kernel.schedule = "granted"
      touched   == IF config.pages < ScratchPages THEN config.pages ELSE ScratchPages
  IN [policy   |-> IF scheduled THEN config.policy ELSE thread.policy,
      priority |-> IF scheduled THEN config.priority ELSE thread.priority,
      pinned   |-> thread.pinned \/ (config.cpu # "none" /\ kernel.pin = "granted"),
      locked   |-> thread.locked \/ (config.lock_memory /\ kernel.lock),
      touched  |-> IF config.prefault_stack /\ PrefaultInRange(config)
                   THEN touched ELSE thread.touched]

M_scheduledByReturnCode(config, kernel, in_force) ==
  config.policy = "OTHER" \/ kernel.schedule # "denied"

(* The policy is read back: the return code alone is not trusted.          *)
SchedulingApplied(config, kernel, in_force) ==
  \/ config.policy = "OTHER"
  \/ kernel.schedule # "denied" /\ in_force.policy = config.policy

(* So is the affinity, which has to be the one cpu asked for.              *)
AffinityApplied(config, kernel, in_force) ==
  config.cpu = "none" \/ (kernel.pin # "denied" /\ in_force.pinned)

MemoryLocked(config, kernel) == ~config.lock_memory \/ kernel.lock

StackPrefaulted(config) == ~config.prefault_stack \/ PrefaultInRange(config)

(* The reasons appendErrno() and appendDiagnostic() are given.             *)
Diagnostics(config, kernel, in_force) ==
  LET given ==
        [pthread_setschedparam  |-> config.policy # "OTHER" /\ kernel.schedule = "denied",
         policy_not_in_force    |-> /\ config.policy # "OTHER" /\ kernel.schedule # "denied"
                                    /\ in_force.policy # config.policy,
         pthread_setaffinity_np |-> config.cpu # "none" /\ kernel.pin = "denied",
         affinity_not_in_force  |-> /\ config.cpu # "none" /\ kernel.pin # "denied"
                                    /\ ~in_force.pinned,
         mlockall               |-> config.lock_memory /\ ~kernel.lock,
         prefault_bytes         |-> config.prefault_stack /\ ~PrefaultInRange(config)]
  IN {reason \in DOMAIN given : given[reason]}

(* The ThreadConfigReport, given what is in force afterwards.  Every step  *)
(* is tried whatever became of the ones before it.                         *)
Report(config, kernel, in_force) ==
  [scheduling_applied |-> SchedulingApplied(config, kernel, in_force),
   affinity_applied   |-> AffinityApplied(config, kernel, in_force),
   memory_locked      |-> MemoryLocked(config, kernel),
   stack_prefaulted   |-> StackPrefaulted(config),
   effective_policy   |-> in_force.policy,
   effective_priority |-> in_force.priority,
   diagnostics        |-> Diagnostics(config, kernel, in_force)]

fullyApplied(report) == report.diagnostics = {}
=============================================================================
