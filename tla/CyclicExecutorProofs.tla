------------------------ MODULE CyclicExecutorProofs -------------------------
(***************************************************************************)
(* What CyclicExecutor.tla checks on a small instance, for every period,   *)
(* every delay, every number of threads, sizes, cycles and runs, and for   *)
(* histograms of every width.                                              *)
(***************************************************************************)
EXTENDS CyclicExecutor, LatencyHistogramProofs

(* All of run(), not only the head of its loop, is on the grid.            *)
CadenceInv ==
  /\ at \in {"idle", "head", "asleep", "callback"}
  /\ overrun_policy \in {"SkipMissed", "RunLate"}
  /\ clock \in Nat /\ deadline_ns \in Nat /\ origin \in Nat
  /\ base \in Nat /\ cycles_executed \in Nat /\ skipped_cycles \in Nat
  /\ at # "idle" =>
       deadline_ns = origin + Period * (1 + cycles_executed + skipped_cycles - base)
  /\ (at = "head" /\ overrun_policy = "SkipMissed") => deadline_ns > clock

(* A run() that was asked to stop and sleeps has begun no callback since,  *)
(* and at the head of its loop it has not forgotten the request.           *)
StopInv ==
  /\ at \in {"idle", "head", "asleep", "callback"}
  /\ asked \in Nat \cup {-1}
  /\ asked <= 1
  /\ at = "idle" => asked = -1
  /\ at = "asleep" => asked <= 0
  /\ asked # -1 => stop_requested

(* The counter has moved on by what this run() made.                       *)
CountInv ==
  /\ at \in {"idle", "head", "asleep", "callback"}
  /\ runs \in Nat /\ violations \in Nat /\ made \in Nat /\ violations_at_start \in Nat
  /\ at # "idle" => runs > 0 /\ violations = violations_at_start + made
  /\ at = "idle" => allocation_violations = made

(* While the report holds less than was seen, a thread still carries the   *)
(* largest size, and what it compares it with is not above the report.     *)
LargestInv ==
  /\ reporting \in [Threads ->
       [at: {"quiet", "load", "exchange"}, bytes: Nat, previous: Nat]]
  /\ largest_bytes \in Nat /\ largest_seen \in Nat
  /\ (clean /\ resetting) => AllQuiet /\ largest_seen = 0
  /\ (clean /\ ~resetting) =>
       /\ largest_bytes <= largest_seen
       /\ \A t \in Threads :
            /\ reporting[t].bytes <= largest_seen
            /\ reporting[t].at = "exchange" => reporting[t].previous <= largest_bytes
       /\ \/ largest_bytes = largest_seen
          \/ \E t \in Threads : /\ reporting[t].at # "quiet"
                                /\ reporting[t].bytes = largest_seen
-----------------------------------------------------------------------------
(* The end of the period a late cycle ends in lies ahead of it.            *)
LEMMA FirstAfter ==
  ASSUME NEW late \in Nat
  PROVE  /\ late \div Period \in Nat
         /\ late < Period * (late \div Period + 1)
BY ExecutorAssumption

(* Products, in the forms the deadlines need them.                         *)
LEMMA Spread ==
  ASSUME NEW p \in Int, NEW m \in Int, NEW n \in Int
  PROVE  /\ p * (m + n) = p * m + p * n
         /\ p * m = m * p /\ p * m \in Int
OBVIOUS

(* The steps of the guard and of the callers leave the loop where it is.   *)
LEMMA OutsideLoop ==
  ASSUME \/ \E request \in Requests, kernel \in KernelAnswers :
              ConfigureCallingThread(request, kernel)
         \/ \E t \in Threads, bytes \in Sizes : Allocate(t, bytes)
         \/ \E t \in Threads : FinishReport(t) \/ OtherSection(t)
         \/ Exemption \/ PrepareGuard
         \/ UNCHANGED vars
  PROVE  UNCHANGED <<at, clock, deadline_ns, origin, base, cycles_executed,
                     skipped_cycles, overrun_policy, asked, stop_requested, runs,
                     violations_at_start, allocation_violations>>
BY DEF ConfigureCallingThread, Allocate, FinishReport, OtherSection, Exemption,
       PrepareGuard, vars, executor, config, locals, counters, history

(* What a cycle that ends at finished_ns does to the next deadline.        *)
LEMMA DeadlineAfter ==
  ASSUME CadenceInv, NEW finished_ns \in Nat
  PROVE  /\ Missed(finished_ns) \in Nat
         /\ NextDeadline(finished_ns)
              = deadline_ns + Period * (1 + Missed(finished_ns))
         /\ NextDeadline(finished_ns) \in Nat
         /\ overrun_policy = "SkipMissed" => NextDeadline(finished_ns) > finished_ns
<1> DEFINE late == finished_ns - deadline_ns - Period
<1>1. Period \in Nat \ {0} /\ deadline_ns \in Nat
  BY ExecutorAssumption DEF CadenceInv
<1>2. CASE finished_ns >= deadline_ns + Period /\ overrun_policy = "SkipMissed"
  <2>1. late \in Nat
    BY <1>1, <1>2
  <2>2. late \div Period \in Nat /\ late < Period * (late \div Period + 1)
    BY <2>1, FirstAfter
  <2>3. Missed(finished_ns) = late \div Period + 1
    BY <1>2 DEF Missed
  <2> QED
    BY <1>1, <2>1, <2>2, <2>3 DEF NextDeadline
<1>3. CASE ~(finished_ns >= deadline_ns + Period /\ overrun_policy = "SkipMissed")
  <2>1. Missed(finished_ns) = 0
    BY <1>3 DEF Missed
  <2> QED
    BY <1>1, <1>3, <2>1 DEF NextDeadline
<1> QED
  BY <1>2, <1>3
-----------------------------------------------------------------------------
(* Every step of the executor keeps the cadence.                           *)
LEMMA CadenceStep == CadenceInv /\ [Next]_vars => CadenceInv'
<1> SUFFICES ASSUME CadenceInv, [Next]_vars PROVE CadenceInv'
  OBVIOUS
<1> USE ExecutorAssumption
<1>1. CASE \E limit \in CycleLimits : Run(limit)
  <2>1. /\ at' = "head" /\ deadline_ns' = clock + Period /\ origin' = clock
        /\ base' = cycles_executed + skipped_cycles
        /\ UNCHANGED <<clock, cycles_executed, skipped_cycles, overrun_policy>>
    BY <1>1 DEF Run, config, counters
  <2>2. 1 + cycles_executed' + skipped_cycles' - base' = 1
    BY <2>1 DEF CadenceInv
  <2>3. deadline_ns' = origin' + Period * 1
    BY <2>1 DEF CadenceInv
  <2> QED
    BY <2>1, <2>2, <2>3 DEF CadenceInv
<1>2. CASE Sleep
  BY <1>2 DEF Sleep, CadenceInv, config, locals, counters, history
<1>3. CASE Return
  BY <1>3 DEF Return, CadenceInv, config, locals
<1>4. ASSUME NEW d \in Delays, Wake(d) PROVE CadenceInv'
  BY <1>4 DEF Wake, sleepUntil, CadenceInv, config, counters
<1>5. ASSUME NEW d \in Delays, CallbackEnd(d) PROVE CadenceInv'
  <2> DEFINE finished_ns == clock + d
             k == 1 + cycles_executed + skipped_cycles - base
  <2>1. finished_ns \in Nat /\ k \in Int /\ Period \in Int
    BY DEF CadenceInv
  <2>2. /\ at = "callback" /\ at' = "head" /\ clock' = finished_ns
        /\ cycles_executed' = cycles_executed + 1
        /\ skipped_cycles' = skipped_cycles + Missed(finished_ns)
        /\ deadline_ns' = NextDeadline(finished_ns)
        /\ UNCHANGED <<overrun_policy, origin, base>>
    BY <1>5 DEF CallbackEnd, config, history
  <2>3. /\ Missed(finished_ns) \in Nat
        /\ NextDeadline(finished_ns) = deadline_ns + Period * (1 + Missed(finished_ns))
        /\ NextDeadline(finished_ns) \in Nat
        /\ overrun_policy = "SkipMissed" => NextDeadline(finished_ns) > finished_ns
    BY <2>1, DeadlineAfter
  <2>4. Period * (k + (1 + Missed(finished_ns)))
          = Period * k + Period * (1 + Missed(finished_ns))
    BY <2>1, <2>3, Spread
  <2>5. deadline_ns = origin + Period * k
    BY <2>2 DEF CadenceInv
  <2>6. 1 + cycles_executed' + skipped_cycles' - base' = k + (1 + Missed(finished_ns))
    <3>1. cycles_executed \in Nat /\ skipped_cycles \in Nat /\ base \in Nat
      BY DEF CadenceInv
    <3> QED
      BY <2>2, <2>3, <3>1
  <2>7. deadline_ns' = origin' + Period * (1 + cycles_executed' + skipped_cycles' - base')
    <3>1. Period * k \in Int /\ Period * (1 + Missed(finished_ns)) \in Int /\ origin \in Int
      BY <2>1, <2>3, Spread DEF CadenceInv
    <3> HIDE DEF k, finished_ns
    <3> QED
      BY <2>2, <2>3, <2>4, <2>5, <2>6, <3>1
  <2> HIDE DEF k, finished_ns
  <2> QED
    BY <2>1, <2>2, <2>3, <2>7 DEF CadenceInv
<1>6. CASE RequestStop
  BY <1>6 DEF RequestStop, CadenceInv, config, locals, counters
<1>7. CASE ResetStats
  BY <1>7 DEF ResetStats, CadenceInv, config, locals
<1>8. CASE ~(\/ \E limit \in CycleLimits : Run(limit)
             \/ Loop \/ RequestStop \/ ResetStats)
  <2>1. UNCHANGED <<at, clock, deadline_ns, origin, base, cycles_executed,
                    skipped_cycles, overrun_policy>>
    BY <1>8, OutsideLoop DEF Next
  <2> QED
    BY <2>1 DEF CadenceInv
<1> QED
  BY <1>1, <1>2, <1>3, <1>4, <1>5, <1>6, <1>7, <1>8 DEF Loop

(* For every period, however late the loop wakes and however long its      *)
(* callbacks take, cycles run and cycles skipped add up to the deadlines   *)
(* passed, and under kSkipMissed the next one lies ahead.                  *)
THEOREM CadenceHolds == Spec => []Cadence
<1>1. Init => CadenceInv
  BY DEF Init, CadenceInv
<1>2. CadenceInv => Cadence
  BY DEF CadenceInv, Cadence
<1> QED
  BY <1>1, <1>2, CadenceStep, PTL DEF Spec
-----------------------------------------------------------------------------
(* Every step keeps the request to stop.                                   *)
LEMMA StopStep == StopInv /\ [Next]_vars => StopInv'
<1> SUFFICES ASSUME StopInv, [Next]_vars PROVE StopInv'
  OBVIOUS
<1>1. CASE \E limit \in CycleLimits : Run(limit)
  BY <1>1 DEF Run, StopInv
<1>2. CASE Sleep
  BY <1>2 DEF Sleep, StopInv, history
<1>3. CASE Return
  BY <1>3 DEF Return, StopInv
<1>4. CASE \E d \in Delays : Wake(d)
  BY <1>4 DEF Wake, StopInv
<1>5. CASE \E d \in Delays : CallbackEnd(d)
  BY <1>5 DEF CallbackEnd, StopInv, history
<1>6. CASE RequestStop
  BY <1>6 DEF RequestStop, StopInv
<1>7. CASE ResetStats
  BY <1>7 DEF ResetStats, StopInv
<1>8. CASE ~(\/ \E limit \in CycleLimits : Run(limit)
             \/ Loop \/ RequestStop \/ ResetStats)
  <2>1. UNCHANGED <<at, asked, stop_requested>>
    BY <1>8, OutsideLoop DEF Next
  <2> QED
    BY <2>1 DEF StopInv
<1> QED
  BY <1>1, <1>2, <1>3, <1>4, <1>5, <1>6, <1>7, <1>8 DEF Loop

(* A run() asked to stop begins at most one more callback, whoever asks    *)
(* and whenever.                                                           *)
THEOREM StopHolds == Spec => []StopWithinOneCycle
<1>1. Init => StopInv
  BY DEF Init, StopInv
<1>2. StopInv => StopWithinOneCycle
  BY DEF StopInv, StopWithinOneCycle
<1> QED
  BY <1>1, <1>2, StopStep, PTL DEF Spec
-----------------------------------------------------------------------------
(* Every step keeps the count of this run().                               *)
LEMMA CountStep == CountInv /\ [Next]_vars => CountInv'
<1> SUFFICES ASSUME CountInv, [Next]_vars PROVE CountInv'
  OBVIOUS
<1>1. CASE \E limit \in CycleLimits : Run(limit)
  BY <1>1 DEF Run, CountInv, counters, guard, atomics
<1>2. CASE Sleep
  BY <1>2 DEF Sleep, CountInv, history, locals, counters, guard, atomics
<1>3. CASE Return
  BY <1>3 DEF Return, CountInv, locals, guard, atomics
<1>4. CASE \E d \in Delays : Wake(d)
  BY <1>4 DEF Wake, CountInv, counters, atomics
<1>5. CASE \E d \in Delays : CallbackEnd(d)
  BY <1>5 DEF CallbackEnd, CountInv, history, atomics
<1>6. CASE RequestStop
  BY <1>6 DEF RequestStop, CountInv, locals, counters, guard, atomics
<1>7. CASE ResetStats
  BY <1>7 DEF ResetStats, CountInv, locals, guard, atomics
<1>8. CASE ~(\/ \E limit \in CycleLimits : Run(limit)
             \/ Loop \/ RequestStop \/ ResetStats)
  <2>1. UNCHANGED <<at, runs, violations_at_start, allocation_violations>>
    BY <1>8, OutsideLoop DEF Next
  <2>2. CASE \E t \in Threads, bytes \in Sizes : Allocate(t, bytes)
    BY <2>1, <2>2 DEF Allocate, NoteAllocation, CountInv
  <2>3. CASE PrepareGuard
    <3>1. at = "idle" /\ made' = made /\ (violations' = violations \/ violations' = 0)
      BY <2>3 DEF PrepareGuard, SetAllocationPolicy, ResetViolations, ResetLargest
    <3> QED
      BY <2>1, <3>1 DEF CountInv
  <2>4. CASE ~(PrepareGuard \/ \E t \in Threads, bytes \in Sizes : Allocate(t, bytes))
    <3>1. UNCHANGED <<made, violations>>
      BY <1>8, <2>4 DEF Next, ConfigureCallingThread, FinishReport, LoadLargest,
         ExchangeLargest, OtherSection, Exemption, vars, history, guard, atomics
    <3> QED
      BY <2>1, <3>1 DEF CountInv
  <2> QED
    BY <2>2, <2>3, <2>4
<1> QED
  BY <1>1, <1>2, <1>3, <1>4, <1>5, <1>6, <1>7, <1>8 DEF Loop
-----------------------------------------------------------------------------
(* A thread that counts a violation carries its size into the report.      *)
LEMMA NoteKeepsLargest ==
  ASSUME LargestInv, NEW t \in Threads, NEW bytes \in Sizes, NoteAllocation(t, bytes)
  PROVE  LargestInv'
<1>1. bytes \in Nat
  BY GuardAssumption
<1>2. largest_seen' = IF largest_seen >= bytes THEN largest_seen ELSE bytes
  BY <1>1, OfTwo DEF NoteAllocation, LargestInv
<1>3. /\ reporting' = [reporting EXCEPT ![t] =
                        [at |-> "load", bytes |-> bytes, previous |-> 0]]
      /\ clean' = (clean /\ ~resetting)
      /\ reporting[t] = Quiet
      /\ UNCHANGED <<largest_bytes, resetting>>
  BY DEF NoteAllocation
<1>4. reporting' \in [Threads ->
         [at: {"quiet", "load", "exchange"}, bytes: Nat, previous: Nat]]
  BY <1>1, <1>3 DEF LargestInv
<1>5. ASSUME clean', ~resetting'
      PROVE  /\ largest_bytes' <= largest_seen'
             /\ \A s \in Threads :
                  /\ reporting'[s].bytes <= largest_seen'
                  /\ reporting'[s].at = "exchange"
                       => reporting'[s].previous <= largest_bytes'
             /\ \/ largest_bytes' = largest_seen'
                \/ \E s \in Threads : /\ reporting'[s].at # "quiet"
                                      /\ reporting'[s].bytes = largest_seen'
  <2>1. clean /\ ~resetting
    BY <1>3, <1>5
  <2>2. /\ largest_seen \in Nat /\ largest_bytes \in Nat /\ largest_bytes <= largest_seen
        /\ largest_seen <= largest_seen' /\ bytes <= largest_seen' /\ largest_seen' \in Nat
    BY <1>1, <1>2, <2>1 DEF LargestInv
  <2>3. /\ reporting'[t] = [at |-> "load", bytes |-> bytes, previous |-> 0]
        /\ \A s \in Threads : s # t => reporting'[s] = reporting[s]
    BY <1>3 DEF LargestInv
  <2>4. ASSUME NEW s \in Threads
        PROVE  /\ reporting'[s].bytes <= largest_seen'
               /\ reporting'[s].at = "exchange" => reporting'[s].previous <= largest_bytes'
    <3>1. CASE s = t
      BY <2>2, <2>3, <3>1
    <3>2. CASE s # t
      BY <1>3, <2>1, <2>2, <2>3, <3>2 DEF LargestInv
    <3> QED
      BY <3>1, <3>2
  <2>5. CASE largest_seen >= bytes
    <3>1. \A s \in Threads : reporting[s].at # "quiet" => s # t
      BY <1>3 DEF Quiet
    <3> QED
      BY <1>2, <1>3, <2>1, <2>2, <2>3, <2>4, <2>5, <3>1 DEF LargestInv
  <2>6. CASE ~(largest_seen >= bytes)
    BY <1>2, <1>3, <2>2, <2>3, <2>4, <2>6
  <2> QED
    BY <2>5, <2>6
<1> QED
  BY <1>1, <1>2, <1>3, <1>4, <1>5 DEF LargestInv

(* The load before the loop.                                               *)
LEMMA LoadKeepsLargest ==
  ASSUME LargestInv, NEW t \in Threads, LoadLargest(t)
  PROVE  LargestInv'
<1>1. /\ reporting[t].at = "load"
      /\ reporting' = [reporting EXCEPT ![t].at = "exchange", ![t].previous = largest_bytes]
      /\ UNCHANGED <<largest_bytes, largest_seen, clean, resetting>>
  BY DEF LoadLargest, atomics
<1>2. ~AllQuiet
  BY <1>1 DEF AllQuiet, Quiet
<1>3. \A s \in Threads : /\ reporting'[s].bytes = reporting[s].bytes
                         /\ reporting'[s].at = "quiet" <=> reporting[s].at = "quiet"
  BY <1>1 DEF LargestInv
<1>4. \A s \in Threads : reporting'[s].at = "exchange" =>
        \/ s = t /\ reporting'[s].previous = largest_bytes
        \/ reporting[s].at = "exchange" /\ reporting'[s].previous = reporting[s].previous
  BY <1>1 DEF LargestInv
<1>5. reporting' \in [Threads ->
         [at: {"quiet", "load", "exchange"}, bytes: Nat, previous: Nat]]
  BY <1>1 DEF LargestInv
<1>6. ASSUME clean, ~resetting
      PROVE  \A s \in Threads : reporting'[s].at = "exchange"
                                => reporting'[s].previous <= largest_bytes
  BY <1>4, <1>6 DEF LargestInv
<1> QED
  BY <1>1, <1>2, <1>3, <1>5, <1>6 DEF LargestInv

(* One turn of the loop: a report that ends leaves the report of the       *)
(* process at its own size or above.                                       *)
LEMMA ExchangeKeepsLargest ==
  ASSUME LargestInv, NEW t \in Threads, ExchangeLargest(t)
  PROVE  LargestInv'
<1> DEFINE bytes == reporting[t].bytes
           previous == reporting[t].previous
<1>1. /\ reporting[t].at = "exchange"
      /\ UNCHANGED <<largest_seen, clean, resetting>>
      /\ bytes \in Nat /\ previous \in Nat
  BY DEF ExchangeLargest, LargestInv
<1>2. ~AllQuiet
  BY <1>1 DEF AllQuiet, Quiet
<1>3. CASE /\ reporting' = [reporting EXCEPT ![t] = Quiet]
           /\ \/ bytes <= previous /\ largest_bytes' = largest_bytes
              \/ bytes > previous /\ largest_bytes = previous /\ largest_bytes' = bytes
  <2>1. reporting' \in [Threads ->
           [at: {"quiet", "load", "exchange"}, bytes: Nat, previous: Nat]]
    BY <1>3 DEF LargestInv, Quiet
  <2>2. \A s \in Threads : s # t => reporting'[s] = reporting[s]
    BY <1>3 DEF LargestInv
  <2>3. reporting'[t] = Quiet
    BY <1>3 DEF LargestInv
  <2>4. largest_bytes' \in Nat
    BY <1>1, <1>3 DEF LargestInv
  <2>5. ASSUME clean, ~resetting
        PROVE  /\ largest_bytes <= largest_bytes' /\ bytes <= largest_bytes'
               /\ largest_bytes' <= largest_seen
    BY <1>1, <1>3, <2>5 DEF LargestInv
  <2>6. ASSUME clean, ~resetting
        PROVE  \/ largest_bytes' = largest_seen
               \/ \E s \in Threads : /\ reporting'[s].at # "quiet"
                                     /\ reporting'[s].bytes = largest_seen
    BY <1>1, <2>2, <2>4, <2>5, <2>6 DEF LargestInv
  <2>7. ASSUME clean, ~resetting, NEW s \in Threads
        PROVE  /\ reporting'[s].bytes <= largest_seen
               /\ reporting'[s].at = "exchange" => reporting'[s].previous <= largest_bytes'
    <3>0. largest_seen \in Nat
      BY DEF LargestInv
    <3>1. CASE s = t
      <4>1. reporting'[s].bytes = 0 /\ reporting'[s].at = "quiet"
        BY <2>3, <3>1 DEF Quiet
      <4> QED
        BY <3>0, <4>1
    <3>2. CASE s # t
      BY <2>2, <2>4, <2>5, <2>7, <3>2 DEF LargestInv
    <3> QED
      BY <3>1, <3>2
  <2> QED
    BY <1>1, <1>2, <2>1, <2>4, <2>5, <2>6, <2>7 DEF LargestInv
<1>4. CASE /\ reporting' = [reporting EXCEPT ![t].previous = largest_bytes]
           /\ largest_bytes' = largest_bytes
  <2>1. \A s \in Threads : /\ reporting'[s].bytes = reporting[s].bytes
                           /\ reporting'[s].at = reporting[s].at
    BY <1>4 DEF LargestInv
  <2> QED
    BY <1>1, <1>2, <1>4, <2>1 DEF LargestInv
<1> QED
  BY <1>3, <1>4 DEF ExchangeLargest, EndReport

(* Every step keeps the largest size, in the report or on its way there.   *)
LEMMA LargestStep == LargestInv /\ [Next]_vars => LargestInv'
<1> SUFFICES ASSUME LargestInv, [Next]_vars PROVE LargestInv'
  OBVIOUS
<1>1. CASE \E t \in Threads, bytes \in Sizes : Allocate(t, bytes)
  BY <1>1, NoteKeepsLargest DEF Allocate
<1>2. CASE \E t \in Threads : FinishReport(t)
  BY <1>2, LoadKeepsLargest, ExchangeKeepsLargest DEF FinishReport
<1>3. CASE PrepareGuard
  <2>1. CASE \E p \in Policies : SetAllocationPolicy(p)
    BY <2>1 DEF SetAllocationPolicy, LargestInv, AllQuiet
  <2>2. CASE ResetViolations
    BY <2>2 DEF ResetViolations, LargestInv, AllQuiet
  <2>3. CASE ResetLargest
    BY <2>3 DEF ResetLargest, LargestInv, AllQuiet, Quiet
  <2> QED
    BY <1>3, <2>1, <2>2, <2>3 DEF PrepareGuard, Policies
<1>4. CASE ~(\/ \E t \in Threads, bytes \in Sizes : Allocate(t, bytes)
             \/ \E t \in Threads : FinishReport(t)
             \/ PrepareGuard)
  <2>1. UNCHANGED <<reporting, largest_bytes, largest_seen, clean, resetting>>
    BY <1>4 DEF Next, ConfigureCallingThread, Run, Loop, Sleep, Return, Wake,
       CallbackEnd, RequestStop, ResetStats, OtherSection, Exemption, vars, guard, atomics
  <2> QED
    BY <2>1 DEF LargestInv, AllQuiet
<1> QED
  BY <1>1, <1>2, <1>3, <1>4

(* For any number of threads that allocate at once: a run() counts the     *)
(* violations made during it, and the report keeps the largest of them.    *)
THEOREM AllocationReportHolds == Spec => []AllocationReportIsExact
<1>1. Init => CountInv /\ LargestInv
  BY DEF Init, GuardInit, CountInv, LargestInv, Quiet
<1>2. CountInv /\ LargestInv => AllocationReportIsExact
  BY DEF CountInv, LargestInv, AllocationReportIsExact, LargestIsKept, AllQuiet, Quiet
<1> QED
  BY <1>1, <1>2, CountStep, LargestStep, PTL DEF Spec
-----------------------------------------------------------------------------
(* The text of diagnostics is empty exactly when all four steps succeeded. *)
LEMMA DiagnosticsAreComplete ==
  ASSUME NEW request \in ThreadConfigs, NEW kernel \in KernelAnswers,
         NEW in_force \in ThreadStates
  PROVE  Diagnostics(request, kernel, in_force) = {} <=>
           /\ SchedulingApplied(request, kernel, in_force)
           /\ AffinityApplied(request, kernel, in_force)
           /\ MemoryLocked(request, kernel)
           /\ StackPrefaulted(request)
<1> DEFINE
      given ==
        [pthread_setschedparam  |-> request.policy # "OTHER" /\ kernel.schedule = "denied",
         policy_not_in_force    |-> /\ request.policy # "OTHER" /\ kernel.schedule # "denied"
                                    /\ in_force.policy # request.policy,
         pthread_setaffinity_np |-> request.cpu # "none" /\ kernel.pin = "denied",
         affinity_not_in_force  |-> /\ request.cpu # "none" /\ kernel.pin # "denied"
                                    /\ ~in_force.pinned,
         mlockall               |-> request.lock_memory /\ ~kernel.lock,
         prefault_bytes         |-> request.prefault_stack /\ ~PrefaultInRange(request)]
      reasons == {"pthread_setschedparam", "policy_not_in_force", "pthread_setaffinity_np",
                  "affinity_not_in_force", "mlockall", "prefault_bytes"}
<1>1. Diagnostics(request, kernel, in_force) = {reason \in DOMAIN given : given[reason]}
  BY Zenon DEF Diagnostics
<1>2. DOMAIN given = reasons
  OBVIOUS
<1>3. /\ SchedulingApplied(request, kernel, in_force) <=>
           ~given["pthread_setschedparam"] /\ ~given["policy_not_in_force"]
      /\ AffinityApplied(request, kernel, in_force) <=>
           ~given["pthread_setaffinity_np"] /\ ~given["affinity_not_in_force"]
  BY DEF SchedulingApplied, AffinityApplied
<1>4. /\ MemoryLocked(request, kernel) <=> ~given["mlockall"]
      /\ StackPrefaulted(request) <=> ~given["prefault_bytes"]
  BY DEF MemoryLocked, StackPrefaulted
<1> HIDE DEF given
<1> QED
  BY <1>1, <1>2, <1>3, <1>4

(* What the calls leave in force is a thread again.                        *)
LEMMA InForceType ==
  ASSUME NEW request \in ThreadConfigs, NEW kernel \in KernelAnswers,
         thread \in ThreadStates
  PROVE  InForce(request, kernel, thread) \in ThreadStates
BY DEF InForce, ScratchPages, ThreadConfigs, KernelAnswers, ThreadStates

(* configureCallingThread() tells the truth about the thread it leaves.    *)
LEMMA ConfigureIsTrue ==
  ASSUME NEW request \in ThreadConfigs, NEW kernel \in KernelAnswers,
         thread \in ThreadStates, ConfigureCallingThread(request, kernel)
  PROVE  ThreadReportIsTrue' /\ thread' \in ThreadStates
<1> DEFINE in_force == InForce(request, kernel, thread)
           report == Report(request, kernel, in_force)
<1>1. /\ thread' = in_force /\ in_force \in ThreadStates
      /\ thread_report' = [request |-> request, report |-> report]
  BY InForceType DEF ConfigureCallingThread
<1>2. /\ (report.scheduling_applied /\ request.policy # "OTHER")
            => in_force.policy = request.policy
      /\ report.effective_policy = in_force.policy
      /\ report.effective_priority = in_force.priority
      /\ (report.affinity_applied /\ request.cpu # "none") => in_force.pinned
  BY DEF Report, SchedulingApplied, AffinityApplied
<1>3. (report.memory_locked /\ request.lock_memory) => in_force.locked
  BY DEF Report, MemoryLocked, InForce
<1>4. (report.stack_prefaulted /\ request.prefault_stack) =>
        /\ in_force.touched > 0
        /\ \/ in_force.touched = request.pages
           \/ in_force.touched = ScratchPages /\ ScratchPages < request.pages
  <2>1. (report.stack_prefaulted /\ request.prefault_stack) => PrefaultInRange(request)
    BY DEF Report, StackPrefaulted
  <2>2. ASSUME request.prefault_stack, PrefaultInRange(request)
        PROVE  in_force.touched = IF request.pages < 16 THEN request.pages ELSE 16
    BY <2>2 DEF InForce, ScratchPages
  <2>3. PrefaultInRange(request) => request.pages > 0
    BY DEF PrefaultInRange
  <2>4. request.pages \in Nat
    BY DEF ThreadConfigs
  <2>5. \/ request.pages \in 1 .. 15 /\ request.pages < 16
        \/ request.pages = 16
        \/ 16 < request.pages /\ ~(request.pages < 16)
        \/ request.pages = 0
    BY <2>4
  <2> HIDE DEF in_force, report
  <2> QED
    BY <2>1, <2>2, <2>3, <2>4, <2>5 DEF ScratchPages
<1>5. fullyApplied(report) <=> /\ report.scheduling_applied /\ report.affinity_applied
                               /\ report.memory_locked /\ report.stack_prefaulted
  BY <1>1, DiagnosticsAreComplete DEF fullyApplied, Report
<1> HIDE DEF in_force, report
<1> QED
  BY <1>1, <1>2, <1>3, <1>4, <1>5 DEF ThreadReportIsTrue

(* For every configuration and whatever the kernel answers: a policy, a    *)
(* cpu and a lock that configureCallingThread() reports as applied are in  *)
(* force, the effective policy and priority are those of the thread, and   *)
(* of the stack the smaller of what was asked for and scratch[] is touched.*)
THEOREM ThreadReportHolds == Spec => []ThreadReportIsTrue
<1> DEFINE Inv == ThreadReportIsTrue /\ thread \in ThreadStates
<1>0. NewThread \in ThreadStates
  BY DEF NewThread, ThreadStates, SchedulingPolicies
<1>1. Init => Inv
  BY <1>0 DEF Init, ThreadReportIsTrue
<1>2. Inv /\ [Next]_vars => Inv'
  <2> SUFFICES ASSUME Inv, [Next]_vars PROVE Inv'
    OBVIOUS
  <2>1. CASE \E request \in Requests, kernel \in KernelAnswers :
               ConfigureCallingThread(request, kernel)
    BY <2>1, ConfigureIsTrue, ExecutorAssumption
  <2>2. CASE \E limit \in CycleLimits : Run(limit)
    BY <1>0, <2>2 DEF Run, ThreadReportIsTrue
  <2>3. CASE ~(\/ \E request \in Requests, kernel \in KernelAnswers :
                    ConfigureCallingThread(request, kernel)
               \/ \E limit \in CycleLimits : Run(limit))
    <3>1. UNCHANGED <<thread_report, thread>>
      BY <2>3 DEF Next, Loop, Sleep, Return, Wake, CallbackEnd, RequestStop, ResetStats,
         Allocate, FinishReport, OtherSection, Exemption, PrepareGuard, vars, executor,
         caller
    <3> QED
      BY <3>1 DEF ThreadReportIsTrue
  <2> QED
    BY <2>1, <2>2, <2>3
<1>3. Inv => ThreadReportIsTrue
  OBVIOUS
<1> QED
  BY <1>1, <1>2, <1>3, PTL DEF Spec
-----------------------------------------------------------------------------
(* Each histogram follows its samples, and a callback in progress began    *)
(* no earlier than its deadline, so that both samples are at least 0.      *)
MeasureInv ==
  /\ histograms \in [Histograms -> HistogramType]
  /\ samples \in [Histograms -> [0 .. MaxClock -> Nat]]
  /\ at = "callback" => woke_ns \in Nat /\ woke_ns <= clock /\ deadline_ns <= clock
  /\ \A h \in Histograms : Follows(histograms[h], samples[h])

(* The steps that neither record nor forget a sample.                      *)
LEMMA NothingMeasured ==
  ASSUME \/ \E request \in Requests, kernel \in KernelAnswers :
              ConfigureCallingThread(request, kernel)
         \/ \E t \in Threads, bytes \in Sizes : Allocate(t, bytes)
         \/ \E t \in Threads : FinishReport(t) \/ OtherSection(t)
         \/ Exemption \/ PrepareGuard \/ RequestStop
         \/ UNCHANGED vars
  PROVE  UNCHANGED <<histograms, samples, at, clock, deadline_ns, woke_ns>>
BY DEF ConfigureCallingThread, Allocate, FinishReport, OtherSection, Exemption,
       PrepareGuard, RequestStop, vars, executor, measured, locals

(* Every step of the executor keeps each histogram with its samples.       *)
LEMMA MeasureStep == CadenceInv /\ MeasureInv /\ [Next]_vars => MeasureInv'
<1> SUFFICES ASSUME CadenceInv, MeasureInv, [Next]_vars PROVE MeasureInv'
  OBVIOUS
<1>1. /\ clock \in Nat /\ deadline_ns \in Nat /\ Horizon \in 0 .. MaxClock
      /\ \A d \in Delays : d \in Nat
  BY ExecutorAssumption, ClockFits DEF CadenceInv, Horizon
<1>2. /\ histograms \in [Histograms -> HistogramType]
      /\ samples \in [Histograms -> [0 .. MaxClock -> Nat]]
      /\ \A h \in Histograms : Follows(histograms[h], samples[h])
  BY DEF MeasureInv
<1>3. ASSUME NEW h \in Histograms, NEW x \in 0 .. MaxClock
      PROVE  /\ Recorded(h, x) \in HistogramType /\ Sampled(h, x) \in [0 .. MaxClock -> Nat]
             /\ Follows(Recorded(h, x), Sampled(h, x))
  <2>1. /\ histograms[h] \in HistogramType /\ samples[h] \in [0 .. MaxClock -> Nat]
        /\ Follows(histograms[h], samples[h])
    BY <1>2
  <2>2. record(histograms[h], x) \in HistogramType
    BY <2>1, RecordedFields
  <2>3. /\ [samples[h] EXCEPT ![x] = @ + 1] \in [0 .. MaxClock -> Nat]
        /\ Follows(record(histograms[h], x), [samples[h] EXCEPT ![x] = @ + 1])
    BY <2>1, RecordFollows
  <2> QED
    BY <2>2, <2>3 DEF Recorded, Sampled
<1>4. CASE \E limit \in CycleLimits : Run(limit)
  BY <1>2, <1>4 DEF Run, MeasureInv, measured
<1>5. CASE Sleep \/ Return
  BY <1>2, <1>5 DEF Sleep, Return, MeasureInv, measured
<1>6. ASSUME NEW d \in Delays, Wake(d) PROVE MeasureInv'
  <2> DEFINE x == sleepUntil(d) - deadline_ns
             R == Recorded("wakeup_jitter", x)
             C == Sampled("wakeup_jitter", x)
  <2>1. /\ sleepUntil(d) \in Nat /\ deadline_ns <= sleepUntil(d)
        /\ sleepUntil(d) <= MaxClock
    <3>1. sleepUntil(d) <= Horizon
      BY <1>6 DEF Wake
    <3>2. d \in Nat /\ clock \in Nat /\ deadline_ns \in Nat
      BY <1>1
    <3>3. sleepUntil(d) \in Nat /\ deadline_ns <= sleepUntil(d)
      BY ONLY <3>2 DEF sleepUntil
    <3>4. Horizon \in Nat /\ Horizon <= MaxClock /\ MaxClock \in Nat
      BY <1>1, ClockFits
    <3> QED
      BY ONLY <3>1, <3>3, <3>4
  <2>2. x \in 0 .. MaxClock /\ "wakeup_jitter" \in Histograms
    <3>1. deadline_ns \in Nat /\ MaxClock \in Nat
      BY <1>1, ClockFits
    <3>2. x \in 0 .. MaxClock
      BY ONLY <2>1, <3>1
    <3> QED
      BY <3>2 DEF Histograms
  <2>3. /\ at' = "callback" /\ clock' = sleepUntil(d) /\ woke_ns' = sleepUntil(d)
        /\ deadline_ns' = deadline_ns
        /\ histograms' = [histograms EXCEPT !["wakeup_jitter"] = R]
        /\ samples' = [samples EXCEPT !["wakeup_jitter"] = C]
    BY <1>6 DEF Wake
  <2>4. R \in HistogramType /\ C \in [0 .. MaxClock -> Nat] /\ Follows(R, C)
    BY <1>3, <2>2
  <2> HIDE DEF x, R, C
  <2>5. /\ histograms' \in [Histograms -> HistogramType]
        /\ samples' \in [Histograms -> [0 .. MaxClock -> Nat]]
    BY <1>2, <2>3, <2>4
  <2>6. \A h \in Histograms : Follows(histograms'[h], samples'[h])
    BY <1>2, <2>3, <2>4
  <2> QED
    BY <2>1, <2>3, <2>5, <2>6 DEF MeasureInv
<1>7. ASSUME NEW d \in Delays, CallbackEnd(d) PROVE MeasureInv'
  <2> DEFINE x == (clock + d) - woke_ns
             y == (clock + d) - deadline_ns
             RX == Recorded("execution_time", x)
             CX == Sampled("execution_time", x)
             RY == Recorded("cycle_total", y)
             CY == Sampled("cycle_total", y)
  <2>1. clock + d <= MaxClock /\ woke_ns \in Nat /\ woke_ns <= clock /\ deadline_ns <= clock
    <3>1. at = "callback" /\ clock + d <= Horizon
      BY <1>7 DEF CallbackEnd
    <3>2. woke_ns \in Nat /\ woke_ns <= clock /\ deadline_ns <= clock
      BY <3>1 DEF MeasureInv
    <3>3. d \in Nat /\ clock \in Nat /\ Horizon \in Nat /\ Horizon <= MaxClock /\ MaxClock \in Nat
      BY <1>1, ClockFits
    <3>4. clock + d <= MaxClock
      BY ONLY <3>1, <3>3
    <3> QED
      BY <3>2, <3>4
  <2>2. /\ x \in 0 .. MaxClock /\ "execution_time" \in Histograms
        /\ y \in 0 .. MaxClock /\ "cycle_total" \in Histograms
    <3>1. clock \in Nat /\ d \in Nat /\ deadline_ns \in Nat /\ MaxClock \in Nat
      BY <1>1, ClockFits
    <3>2. x \in 0 .. MaxClock /\ y \in 0 .. MaxClock
      BY ONLY <2>1, <3>1
    <3> QED
      BY <3>2 DEF Histograms
  <2>3. /\ at' = "head"
        /\ histograms' = [histograms EXCEPT !["execution_time"] = RX, !["cycle_total"] = RY]
        /\ samples' = [samples EXCEPT !["execution_time"] = CX, !["cycle_total"] = CY]
    BY <1>7 DEF CallbackEnd
  <2>4. /\ RX \in HistogramType /\ CX \in [0 .. MaxClock -> Nat] /\ Follows(RX, CX)
        /\ RY \in HistogramType /\ CY \in [0 .. MaxClock -> Nat] /\ Follows(RY, CY)
    BY <1>3, <2>2
  <2> HIDE DEF x, y, RX, CX, RY, CY
  <2>5. /\ histograms' \in [Histograms -> HistogramType]
        /\ samples' \in [Histograms -> [0 .. MaxClock -> Nat]]
    BY <1>2, <2>3, <2>4
  <2>6. \A h \in Histograms : Follows(histograms'[h], samples'[h])
    BY <1>2, <2>3, <2>4
  <2> QED
    BY <2>3, <2>5, <2>6 DEF MeasureInv
<1>8. CASE ResetStats
  <2>1. /\ at' = "idle" /\ histograms' = [h \in Histograms |-> Empty]
        /\ samples' = [h \in Histograms |-> [v \in 0 .. MaxClock |-> 0]]
    BY <1>8 DEF ResetStats, NoSamples
  <2> QED
    BY <2>1, EmptyFollows DEF MeasureInv
<1>9. CASE ~(\/ \E limit \in CycleLimits : Run(limit)
             \/ Loop \/ ResetStats)
  <2>1. UNCHANGED <<histograms, samples, at, clock, deadline_ns, woke_ns>>
    BY <1>9, NothingMeasured DEF Next
  <2> QED
    BY <2>1 DEF MeasureInv
<1> QED
  BY <1>4, <1>5, <1>6, <1>7, <1>8, <1>9 DEF Loop

(* For every width of the buckets, every number of octaves, every clock    *)
(* that fits them, every set of quantiles and any number of cycles, the    *)
(* percentiles of stats() and of the merge of two of its histograms are    *)
(* never below the true ones, above them by at most one part in            *)
(* kSubBucketCount, and never above the largest sample.                    *)
THEOREM PercentilesAreConservative == Spec => []PercentileIsConservative
<1>1. Init => CadenceInv
  BY DEF Init, CadenceInv
<1>2. Init => MeasureInv
  BY EmptyFollows DEF Init, NoSamples, MeasureInv
<1>3. MeasureInv => PercentileIsConservative
  <2> SUFFICES ASSUME MeasureInv PROVE PercentileIsConservative
    OBVIOUS
  <2>1. \A h \in Histograms : /\ histograms[h] \in HistogramType
                              /\ samples[h] \in [0 .. MaxClock -> Nat]
                              /\ Follows(histograms[h], samples[h])
    BY DEF MeasureInv
  <2>2. \A h \in Histograms : Describes(histograms[h], samples[h])
    BY <2>1, FollowsDescribes
  <2>3. "wakeup_jitter" \in Histograms /\ "execution_time" \in Histograms
    BY DEF Histograms
  <2> DEFINE merged == merge(histograms["wakeup_jitter"], histograms["execution_time"])
             both == [v \in 0 .. MaxClock |-> samples["wakeup_jitter"][v]
                                                + samples["execution_time"][v]]
  <2>4. /\ merged \in HistogramType /\ both \in [0 .. MaxClock -> Nat]
        /\ Follows(merged, both)
    <3> DEFINE h == histograms["wakeup_jitter"]
               k == histograms["execution_time"]
               a == samples["wakeup_jitter"]
               b == samples["execution_time"]
    <3>1. h \in HistogramType /\ a \in [0 .. MaxClock -> Nat] /\ Follows(h, a)
      BY <2>1, <2>3
    <3>2. k \in HistogramType /\ b \in [0 .. MaxClock -> Nat] /\ Follows(k, b)
      BY <2>1, <2>3
    <3> HIDE DEF h, k, a, b
    <3>3. /\ merge(h, k) \in HistogramType
          /\ [v \in 0 .. MaxClock |-> a[v] + b[v]] \in [0 .. MaxClock -> Nat]
          /\ Follows(merge(h, k), [v \in 0 .. MaxClock |-> a[v] + b[v]])
      BY ONLY <3>1, <3>2, MergeFollows, Zenon
    <3> QED
      BY ONLY <3>3 DEF h, k, a, b
  <2>5. Describes(merged, both)
    <3> HIDE DEF merged, both
    <3> QED
      BY <2>4, FollowsDescribes
  <2> QED
    BY <2>2, <2>5 DEF PercentileIsConservative
<1> QED
  BY <1>1, <1>2, <1>3, CadenceStep, MeasureStep, PTL DEF Spec
=============================================================================
