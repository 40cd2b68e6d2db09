--------------------------- MODULE CyclicExecutor ----------------------------
(***************************************************************************)
(* rt::CyclicExecutor of src/rt/cyclic_executor.cpp with what it is made   *)
(* of: run() on its own thread, requestStop() from any other and from the  *)
(* callback, the thread configuration its caller asks for before run(),    *)
(* the latency histograms it fills and the allocation guard around the     *)
(* callback, which other threads of the process use as well.  The clock is *)
(* CLOCK_MONOTONIC; how late the thread wakes and how long the callback    *)
(* takes are up to the machine.                                            *)
(***************************************************************************)
EXTENDS Integers, LatencyHistogram, NoAllocGuard, ThreadConfig

CONSTANTS
  RtThread,     \* the thread of run(), one of Threads
  Requests,     \* the config_.thread an executor can have
  Period,       \* config_.period
  CycleLimits,  \* the max_cycles a run() can be given; 0 is no limit
  Delays,       \* the wakeup delays and the durations of a callback
  GuardClock,   \* bound on the clock once another scope is open or a violation made
  MaxRuns,      \* bound on the calls of run()
  MaxAllocs     \* bound on the violations between two resets

ASSUME ExecutorAssumption ==
  /\ RtThread \in Threads
  /\ Requests \subseteq ThreadConfigs
  /\ Period \in Nat \ {0}
  /\ CycleLimits \subseteq Nat /\ Delays \subseteq Nat
  /\ GuardClock \in 0 .. MaxClock
  /\ MaxRuns \in Nat /\ MaxAllocs \in Nat

VARIABLES
  overrun_policy, guard_allocations,  \* of config_
  thread_report,   \* what configureCallingThread() returned, until run()
  thread,          \* how the calling thread runs, until run()
  at,              \* where run() is
  clock,
  stop_requested,
  max_cycles, index, deadline_ns, woke_ns, violations_at_start,  \* of run()
  cycles_executed, overruns, skipped_cycles, allocation_violations,  \* stats_
  histograms,      \* its wakeup_jitter, execution_time and cycle_total
  runs,
  origin,          \* history: the clock when this run() began
  base,            \* history: cycles executed or skipped before this run()
  asked,           \* history: callbacks begun since this run() was asked to stop, or -1
  made,            \* history: violations during the last run(), until resetStats()
  samples          \* history: how often each histogram was given each value

config   == <<overrun_policy, guard_allocations>>
caller   == <<thread_report, thread>>
locals   == <<max_cycles, index, deadline_ns, woke_ns, violations_at_start>>
counters == <<cycles_executed, overruns, skipped_cycles, allocation_violations>>
measured == <<histograms, samples>>
history  == <<runs, origin, base, asked, made>>
vars == <<config, caller, at, clock, stop_requested, locals, counters, measured, history,
          guard>>

Histograms == {"wakeup_jitter", "execution_time", "cycle_total"}
NoReport   == [request |-> "none"]

TypeOK ==
  /\ GuardType
  /\ overrun_policy \in {"SkipMissed", "RunLate"} /\ guard_allocations \in BOOLEAN
  /\ thread \in ThreadStates
  /\ at \in {"idle", "head", "asleep", "callback"}
  /\ clock \in Nat /\ stop_requested \in BOOLEAN
  /\ max_cycles \in Nat /\ index \in Nat /\ deadline_ns \in Nat /\ woke_ns \in Nat
  /\ violations_at_start \in Nat
  /\ cycles_executed \in Nat /\ overruns \in Nat /\ skipped_cycles \in Nat
  /\ allocation_violations \in Int
  /\ histograms \in [Histograms -> HistogramType]
  /\ runs \in Nat /\ origin \in Nat /\ base \in Nat /\ made \in Nat
  /\ asked \in Nat \cup {-1}
  /\ samples \in [Histograms -> [0 .. MaxClock -> Nat]]

NoSamples == [h \in Histograms |-> [v \in 0 .. MaxClock |-> 0]]

Init ==
  /\ GuardInit
  /\ overrun_policy \in {"SkipMissed", "RunLate"} /\ guard_allocations \in BOOLEAN
  /\ thread_report = NoReport /\ thread = NewThread
  /\ at = "idle" /\ clock = 0 /\ stop_requested = FALSE
  /\ max_cycles = 0 /\ index = 0 /\ deadline_ns = 0 /\ woke_ns = 0
  /\ violations_at_start = 0
  /\ cycles_executed = 0 /\ overruns = 0 /\ skipped_cycles = 0
  /\ allocation_violations = 0
  /\ histograms = [h \in Histograms |-> Empty] /\ samples = NoSamples
  /\ runs = 0 /\ origin = 0 /\ base = 0 /\ asked = -1 /\ made = 0
-----------------------------------------------------------------------------
(* configureCallingThread(): applyThreadConfig() on the thread that will   *)
(* call run(), once or again, before it first does.                        *)
ConfigureCallingThread(request, kernel) ==
  LET in_force == InForce(request, kernel, thread) IN
  /\ at = "idle" /\ runs = 0
  /\ thread' = in_force
  /\ thread_report' = [request |-> request, report |-> Report(request, kernel, in_force)]
  /\ UNCHANGED <<config, at, clock, stop_requested, locals, counters, measured, history,
                 guard>>

(* run() up to its loop.  With a period of zero or less it would return    *)
(* here, having changed nothing.  Neither run() nor its caller reads the   *)
(* report on the thread again, and it is forgotten.                        *)
Run(limit) ==
  /\ at = "idle" /\ runs < MaxRuns /\ ~resetting
  /\ at' = "head"
  /\ stop_requested' = FALSE
  /\ max_cycles' = limit /\ index' = 0 /\ deadline_ns' = clock + Period
  /\ violations_at_start' = violations
  /\ thread_report' = NoReport /\ thread' = NewThread
  /\ runs' = runs + 1 /\ origin' = clock /\ base' = cycles_executed + skipped_cycles
  /\ made' = 0
  /\ UNCHANGED <<config, clock, woke_ns, counters, measured, asked, guard>>

Finished == max_cycles # 0 /\ index >= max_cycles

M_SleepUnchecked ==
  /\ at = "head" /\ ~Finished
  /\ at' = "asleep"
  /\ UNCHANGED <<config, caller, clock, stop_requested, locals, counters, measured, history,
                 guard>>

(* The head of the loop, when it goes on.                                  *)
Sleep ==
  /\ at = "head" /\ ~Finished /\ ~stop_requested
  /\ at' = "asleep"
  /\ UNCHANGED <<config, caller, clock, stop_requested, locals, counters, measured, history,
                 guard>>

(* The head of the loop, when run() returns.                               *)
Return ==
  /\ at = "head" /\ (Finished \/ stop_requested)
  /\ at' = "idle"
  /\ allocation_violations' = violations - violations_at_start
  /\ asked' = -1
  /\ UNCHANGED <<config, caller, clock, stop_requested, locals, cycles_executed, overruns,
                 skipped_cycles, measured, runs, origin, base, made, guard>>
-----------------------------------------------------------------------------
(* How far the clock may go.                                               *)
Horizon ==
  IF violations > 0 \/ \E t \in Threads \ {RtThread} : no_alloc_depth[t] > 0
  THEN GuardClock ELSE MaxClock

(* What record() adds to a histogram, in fact and in history.              *)
Recorded(h, value) == record(histograms[h], value)
Sampled(h, value)  == [samples[h] EXCEPT ![value] = @ + 1]

(* When sleepUntil() returns: so late after the deadline, which does not   *)
(* wait when it is past.  A signal does not end the sleep.                 *)
sleepUntil(delay) == (IF deadline_ns > clock THEN deadline_ns ELSE clock) + delay

(* The loop wakes and the callback begins, in a NoAllocScope when the      *)
(* configuration says so.                                                  *)
Wake(delay) ==
  LET woke == sleepUntil(delay) IN
  /\ at = "asleep" /\ woke <= Horizon
  /\ at' = "callback"
  /\ clock' = woke /\ woke_ns' = woke
  /\ histograms' = [histograms EXCEPT !["wakeup_jitter"] =
                      Recorded("wakeup_jitter", woke - deadline_ns)]
  /\ samples' = [samples EXCEPT !["wakeup_jitter"] =
                   Sampled("wakeup_jitter", woke - deadline_ns)]
  /\ IF guard_allocations THEN NoAllocBegin(RtThread) ELSE UNCHANGED no_alloc_depth
  /\ asked' = IF asked >= 0 THEN asked + 1 ELSE asked
  /\ UNCHANGED <<config, caller, stop_requested, max_cycles, index, deadline_ns,
                 violations_at_start, counters, runs, origin, base, made,
                 allow_depth, reporting, atomics, aborted, resetting, largest_seen, clean>>

(* The deadlines the skip loop passes over, beyond the next one.           *)
Missed(finished_ns) ==
  IF finished_ns >= deadline_ns + Period /\ overrun_policy = "SkipMissed"
  THEN (finished_ns - deadline_ns - Period) \div Period + 1 ELSE 0

M_driftingDeadline(finished_ns) ==
  IF finished_ns >= deadline_ns + Period THEN finished_ns + Period
  ELSE deadline_ns + Period

NextDeadline(finished_ns) == deadline_ns + Period + Missed(finished_ns) * Period

(* The callback returns, its scopes closed and its reports made, having    *)
(* run for so long.                                                        *)
CallbackEnd(took) ==
  LET finished_ns == clock + took
      execution   == finished_ns - woke_ns
      total       == finished_ns - deadline_ns
  IN
  /\ at = "callback" /\ finished_ns <= Horizon
  /\ allow_depth[RtThread] = 0 /\ reporting[RtThread] = Quiet
  /\ at' = "head"
  /\ clock' = finished_ns
  /\ histograms' = [histograms EXCEPT
       !["execution_time"] = Recorded("execution_time", execution),
       !["cycle_total"]    = Recorded("cycle_total", total)]
  /\ samples' = [samples EXCEPT
       !["execution_time"] = Sampled("execution_time", execution),
       !["cycle_total"]    = Sampled("cycle_total", total)]
  /\ cycles_executed' = cycles_executed + 1
  /\ index' = index + 1
  /\ overruns' = IF finished_ns >= deadline_ns + Period THEN overruns + 1 ELSE overruns
  /\ skipped_cycles' = skipped_cycles + Missed(finished_ns)
  /\ deadline_ns' = NextDeadline(finished_ns)
  /\ IF guard_allocations THEN NoAllocEnd(RtThread) ELSE UNCHANGED no_alloc_depth
  /\ UNCHANGED <<config, caller, stop_requested, max_cycles, woke_ns, violations_at_start,
                 allocation_violations, history, allow_depth, reporting, atomics, aborted,
                 resetting, largest_seen, clean>>

RequestStop ==
  /\ stop_requested' = TRUE
  /\ asked' = IF at # "idle" /\ asked = -1 THEN 0 ELSE asked
  /\ UNCHANGED <<config, caller, at, clock, locals, counters, measured, runs, origin, base,
                 made, guard>>

(* resetStats(), between two runs: the statistics are not atomic.          *)
ResetStats ==
  /\ at = "idle"
  /\ cycles_executed' = 0 /\ overruns' = 0 /\ skipped_cycles' = 0
  /\ allocation_violations' = 0
  /\ histograms' = [h \in Histograms |-> Empty] /\ samples' = NoSamples
  /\ made' = 0
  /\ UNCHANGED <<config, caller, at, clock, stop_requested, locals, runs, origin, base,
                 asked, guard>>
-----------------------------------------------------------------------------
(* What happens to the guard meanwhile.  The callback, and a real-time     *)
(* section of another thread, may allocate; the callback may exempt part   *)
(* of itself.  Nobody else is in a scope.                                  *)
executor == <<config, caller, at, clock, stop_requested, locals, counters, measured, runs,
              origin, base, asked>>

Allocate(t, bytes) ==
  /\ violations < MaxAllocs /\ clock <= GuardClock
  /\ NoteAllocation(t, bytes)
  /\ made' = IF at = "idle" THEN made ELSE made + 1
  /\ UNCHANGED executor

FinishReport(t) ==
  /\ LoadLargest(t) \/ ExchangeLargest(t)
  /\ UNCHANGED <<executor, made>>

OtherSection(t) ==
  /\ t # RtThread /\ reporting[t] = Quiet /\ clock <= GuardClock
  /\ IF no_alloc_depth[t] = 0 THEN NoAllocBegin(t) ELSE NoAllocEnd(t)
  /\ UNCHANGED <<executor, made, allow_depth, reporting, atomics, aborted, resetting,
                 largest_seen, clean>>

Exemption ==
  /\ at = "callback" /\ reporting[RtThread] = Quiet /\ clock <= GuardClock
  /\ IF allow_depth[RtThread] = 0 THEN AllowBegin(RtThread) ELSE AllowEnd(RtThread)
  /\ UNCHANGED <<executor, made, no_alloc_depth, reporting, atomics, aborted, resetting,
                 largest_seen, clean>>

(* main() of examples/rt_cycle_report.cpp chooses to count and resets the  *)
(* report before its run().                                                *)
PrepareGuard ==
  /\ at = "idle" /\ runs = 0
  /\ SetAllocationPolicy("Count") \/ ResetViolations \/ ResetLargest
  /\ UNCHANGED <<executor, made>>

Loop ==
  \/ Sleep \/ Return
  \/ \E d \in Delays : Wake(d) \/ CallbackEnd(d)

Next ==
  /\ ~aborted
  /\ \/ \E request \in Requests, kernel \in KernelAnswers :
          ConfigureCallingThread(request, kernel)
     \/ \E limit \in CycleLimits : Run(limit)
     \/ Loop
     \/ RequestStop
     \/ ResetStats
     \/ \E t \in Threads, bytes \in Sizes : Allocate(t, bytes)
     \/ \E t \in Threads : FinishReport(t) \/ OtherSection(t)
     \/ Exemption
     \/ PrepareGuard

Spec == Init /\ [][Next]_vars
-----------------------------------------------------------------------------
(* In run(), each deadline lies a whole number of periods after the moment *)
(* run() read the clock, and that number is one more than the cycles run   *)
(* and skipped since: no cycle is lost and none counted twice, whatever    *)
(* the overruns, the policy and the resets between two runs.  Under        *)
(* kSkipMissed the deadline still lies ahead, so a late cycle is not       *)
(* followed by a burst.                                                    *)
Cadence ==
  at = "head" =>
    /\ deadline_ns = origin + Period * (1 + cycles_executed + skipped_cycles - base)
    /\ overrun_policy = "SkipMissed" => deadline_ns > clock

(* Once requestStop() is called during a run(), by the callback or by any  *)
(* other thread, at most one more callback begins: the one run() had       *)
(* already gone to sleep for.  A call made before run() is forgotten.      *)
StopWithinOneCycle == asked <= 1

(* allocationReport(), with no report in progress, has the largest size    *)
(* noted since resetAllocationReport(), however the compare-and-exchange   *)
(* loops of several threads interleave, unless a report was in progress    *)
(* when the two stores of a reset were made.                               *)
LargestIsKept == (AllQuiet /\ ~resetting /\ clean) => largest_bytes = largest_seen

(* stats().allocation_violations, once run() has returned, is the number   *)
(* of violations the process made during that run(), on the loop's thread  *)
(* and on others, whatever was counted before; and the report of the       *)
(* process keeps the largest of them.                                      *)
AllocationReportIsExact ==
  /\ at = "idle" => allocation_violations = made
  /\ LargestIsKept

(* Between runs, each histogram of stats(), and the merge of two of them,  *)
(* describes the samples run() has recorded since resetStats(): the        *)
(* percentiles err high, by no more than the width of a bucket.            *)
PercentileIsConservative ==
  at = "idle" =>
    /\ \A h \in Histograms : Describes(histograms[h], samples[h])
    /\ Describes(merge(histograms["wakeup_jitter"], histograms["execution_time"]),
                 [v \in 0 .. MaxClock |-> samples["wakeup_jitter"][v]
                                            + samples["execution_time"][v]])

(* What configureCallingThread() reports on the calling thread, though a   *)
(* kernel may accept a call and ignore it.  A policy, a cpu and a lock     *)
(* reported as applied are in force; the effective policy and priority     *)
(* reported are those in force, whatever was asked for.  A stack reported  *)
(* as prefaulted has the pages asked for touched, or those of scratch[] if *)
(* they are fewer: not the whole of the default prefault_bytes.  And       *)
(* fullyApplied(), which only looks for an empty text of diagnostics, says *)
(* so exactly when each of the four flags does.                            *)
ThreadReportIsTrue ==
  thread_report # NoReport =>
    LET request == thread_report.request
        report  == thread_report.report
    IN /\ (report.scheduling_applied /\ request.policy # "OTHER")
            => thread.policy = request.policy
       /\ report.effective_policy = thread.policy
       /\ report.effective_priority = thread.priority
       /\ (report.affinity_applied /\ request.cpu # "none") => thread.pinned
       /\ (report.memory_locked /\ request.lock_memory) => thread.locked
       /\ (report.stack_prefaulted /\ request.prefault_stack) =>
            /\ thread.touched > 0
            /\ \/ thread.touched = request.pages
               \/ thread.touched = ScratchPages /\ ScratchPages < request.pages
       /\ fullyApplied(report) <=> /\ report.scheduling_applied /\ report.affinity_applied
                                   /\ report.memory_locked /\ report.stack_prefaulted
=============================================================================
