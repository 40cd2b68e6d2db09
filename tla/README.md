# safeedge in TLA+

TLA+ models of the safeedge runtime, the TLC configurations that check them on
small instances, and TLAPS proofs of the properties that matter most. Paths are
relative to the repository; `REQ-...` numbers are those of
`docs/safety-requirements.md`.

## 1. The system and its hard behaviours

| Part | State | Operations | What is hard |
|---|---|---|---|
| Safety state machine (`src/safety/safety_state_machine.cpp`) | state, latched fault, stop start, standstill reference, limits | `evaluate`, `forceFault`, `setLimits`, `reset` | sequences of demands, acknowledgements and requests; monitors run before requests |
| Dual channel (`dual_channel.cpp`) | two channels, disagreement timer, latch | `evaluate`, `reset` | the channels move in different cycles and are acknowledged one at a time |
| Black channel (`black_channel.cpp`) | sender number; receiver synchronisation, watchdog, safe state, counters | `encode`, `receive`, `poll`, `acknowledgeAndReset` | lost, repeated, delayed, reordered, damaged, foreign telegrams; the wrap that skips zero |
| CRC-32 (`crc32.cpp`) | running remainder | `update`, `value`, `compute` | a table against the polynomial it stands for |
| Seqlock slot (`ipc/seqlock_slot.hpp`) | sequence, words | `store`, `tryLoad` | torn copies, a writer that dies inside a store |
| SPSC ring (`concurrent/spsc_ring.hpp`) | slots, positions, cached positions | `tryPush`, `tryPop` | stale caches, wrap of the positions |
| Shared memory (`ipc/shared_memory.cpp`) | name, object sizes, mappings | `create`, `openExisting`, `unlinkName`, `close`, move | another process between two system calls, failures, death |
| Cyclic executor (`rt/cyclic_executor.cpp`) | deadline, statistics, stop flag | `configureCallingThread`, `run`, `requestStop`, `resetStats` | overruns, stop races, drift |
| Latency histogram (`rt/latency_histogram.cpp`) | buckets, count, min, max | `record`, `merge`, `reset`, `percentile` | buckets wider than their values, ranks |
| No-allocation guard (`rt/no_alloc_guard.cpp`) | per-thread depths, process-wide report, policy | scopes, `operator new`, reset | several threads update one maximum |
| Thread configuration (`rt/thread_config.cpp`) | how the thread runs | `applyThreadConfig` | calls that fail, or succeed without effect |
| Runtime `apps/safeedged.cpp` | two file watchers, loop, published snapshot | start-up, the cycle, the operator's files, signals, shutdown | the operator acts between passes of two watchers; a signal during start-up |
| HTTP server and routes (`edge/http_server.cpp`) | listening socket, current connection | `start`, `stop`, accept loop, `/healthz`, `/readyz`, `/safety`, `/metrics` | silent and leaving clients, `stop()` anywhere in the loop |
| OPC UA server `apps/safeedge_opcua.cpp` | last sequence, node values | start-up, publisher loop, teardown | several transitions per poll, restart of the runtime |
| OPC UA security (`opcua/security.cpp`) | the server's configuration and posture | `configureSecurity`, `configureServerVerification` | files missing in part, refusals |
| OPC UA probe `apps/safeedge_opcua_probe.cpp` | last transition, counters | connect, subscribe, two callbacks | opening reports, repeats, full queues |

The control thread of `safeedged` runs the executor. Each cycle sends a
telegram to itself over the black channel, evaluates the dual-channel
supervisor and stores a snapshot in a seqlock slot, which may lie in shared
memory. The HTTP thread and the OPC UA process read the slot, and the probe is a
client of the OPC UA process.

## 2. Modules

| Module | Models | Role |
|---|---|---|
| `SupervisorLogic` | `SafetyStateMachine` as operators on a record | shared by the next two |
| `SafetyStateMachine` | one channel and its operations | component |
| `DualChannel` | `DualChannelSupervisor` on two `SupervisorLogic` channels | composition |
| `BlackChannel` | sender, transport, receiver | component |
| `Crc32` | `Crc32` as operators, and division by the polynomial | algorithm and its reference |
| `TelegramCrc` | what `computeTelegramCrc` covers, and damage to it | what the CRC of `BlackChannel` stands on |
| `LatestValue` | an atomic register | abstract specification |
| `SeqlockSlot` | `store` and `tryLoad`, one word a step | implements `LatestValue` |
| `BoundedQueue` | a FIFO queue | abstract specification |
| `SpscRing` | `tryPush` and `tryPop`, one access a step | implements `BoundedQueue` |
| `SharedMemory` | regions, one system call a step | component |
| `LatencyHistogram` | the histogram as operators on a record, and true percentiles | part of the executor |
| `ThreadConfig` | `applyThreadConfig` as a function of the kernel's answers | part of the executor |
| `NoAllocGuard` | the guard, one atomic access a step | part of the executor |
| `CyclicExecutor` | the executor with the three above and other threads | composition |
| `Safeedged` | the runtime process; INSTANCE of `DualChannel` | composition |
| `HttpServer` | the server with the four routes of `safeedged` | component |
| `OpcUaSecurity` | both configuration functions, and who can connect | part of the next two |
| `OpcUaPublisher` | the OPC UA process beside a runtime | component |
| `OpcUaProbe` | that process with the probe as its client | composition |
| `MC...` | constants for TLC; `MCBlackChannel` also brings in `TelegramCrc`, whose assumptions TLC evaluates | |
| `SupervisorProofs` | theorems on `SafetyStateMachine` and `DualChannel` | |
| `CounterProofs` | theorems on `BlackChannel` and `SpscRing`, the two with counters that wrap | |
| `IpcProofs` | theorems on `SeqlockSlot` and `SharedMemory` | |
| `Crc32Proofs` | theorems on `Crc32` and `TelegramCrc` | |
| `LatencyHistogramProofs` | theorems on the histogram | |
| `CyclicExecutorProofs` | theorems on the executor with its parts | |
| `SafeedgedProofs` | theorems on `Safeedged` and `HttpServer` | |
| `OpcUaProbeProofs` | theorems on `OpcUaPublisher` and `OpcUaProbe` | |

Variables keep the names of the members they stand for, without the trailing
underscore. A variable marked "history" records something for a property and is
never read by a guard of the code's actions. Operators named `M_...` are
deliberately wrong variants of the definition that follows them. They are used
to confirm that each property can fail. A component that shares a proof module with
another has names of its own for its specification: `ChannelSpec`, `RingSpec`,
`MemorySpec`, `ServerSpec`.

How state and actions correspond to the code:

- **SupervisorLogic.** A channel is a record of the members of
  `SafetyStateMachine`. `evaluate` has the four phases of the code in their order:
  demands, latch, monitors, requests. Quantities are integers because the code
  only compares and subtracts them.
- **SafetyStateMachine.** `ChannelCycle` is a call of `evaluate()` at `timestamp` whose
  outputs the caller keeps in `returned`; `ChannelReset` is `reset()`.
- **DualChannel.** `evaluateBoth` is the whole of `evaluate()`: both channels, the
  timer, the latch with `forceFault` on both, the release and `combine`.
- **BlackChannel.** `wire` holds telegrams that can be delivered any number of
  times, late, or never. The CRC is ideal: a damaged or foreign telegram has a
  different one. `MaxLag` bounds how far behind a delivery can be. In a cycle,
  `poll()` is called once per time step, and `encode()` at most once.
- **Crc32.** A word is the set of its one bits, so that exclusive or is the
  symmetric difference. `compute` follows the table of the code; `Divided` is the
  definition that the parameters in `crc32.hpp` name.
- **TelegramCrc.** `Covered` is the bytes `computeTelegramCrc` feeds, in its order. A place
  is a bit of a telegram: of a byte sent, by the number of covered bytes after it, or
  of the CRC. `DamagedBytes` and `DamagedCrc` flip the bits at a set of places; the
  address is not sent and cannot be damaged.
- **SeqlockSlot.** Each access to `sequence_` or to a word is a step. The code has
  one writer, its stores are release or seq_cst, and the loads of `tryLoad` are
  seq_cst. A load therefore sees memory no older than the load before it did.
  That is a reader running behind the writer in an interleaving. A writer that
  died does not come back to the same slot: `safeedged` unlinks the region and
  creates a new one.
- **SpscRing.** Refreshing a cached position, accessing the slot and publishing a
  position are separate steps. `PosModulus` stands for 2^64.
- **SharedMemory.** `create` is `CreateOpen`, `Truncate`, `CreateMap` and, after a
  failure, `Remove`. `openExisting` is `OpenExisting`, `Stat`, `Attach`.
- **CyclicExecutor.** `head`, `asleep` and `callback` are the places where another
  thread or the clock can move. `Wake` and `CallbackEnd` record in the histograms and
  open and close the guard's scope, as the code does between those places.
  `ConfigureCallingThread` is `applyThreadConfig()` on the thread that will call
  `run()`.
- **LatencyHistogram.** `Octaves` and `SubBucketBits` narrow the values; the index and
  bound computations are those of the code, and `Totals` is the running sum that
  `percentile` scans. Quantiles are thousandths. `Describes` is the reference: it ranks the
  samples themselves.
- **NoAllocGuard.** The `fetch_add`, the load and the compare-and-exchange of
  `reportViolation()` are separate steps, and so are the two stores of
  `resetAllocationReport()`. `kAbort` ends the process.
- **ThreadConfig.** The kernel grants a call, denies it, or accepts and ignores it.
  The diagnostics are the set of reasons given.
- **Safeedged.** Each watcher looks at its file, then acts on what it saw, in
  separate steps. The cycle makes its telegram round trip, reads the stop, takes the
  acknowledgement, evaluates, numbers the transition, publishes, and looks at the
  signal. The supervisor's time is left at zero, which `TimersNeverRun` justifies.
  `main()` begins after its signal handlers are installed; it may give up before
  there are threads.
- **HttpServer.** The accept thread serves one connection at a time. Requests are
  lengths until they are parsed. A response is its status and whether it says
  that no fault is latched. Its head and its body are two writes, and a client may
  leave before either: the write then succeeds, fails, or raises SIGPIPE
  (`BrokenPipe`). Nothing in the process handles that signal, so it ends the process.
  Time is left out: a `poll()` gives up at some moment, which for a request is after
  2 s without a byte.
- **OpcUaSecurity.** A certificate is the name of its owner, a directory the set of
  certificates that can be read from it. The protocol stack is external; `Connects`
  says which channels it opens for a configuration.
- **OpcUaPublisher.** `PublishSnapshot` is the writes of `publishSnapshot()` as one step,
  which succeeds. A snapshot is its region, its sequence number and whether it has
  the time of a transition. A restart of the runtime binds the name to a new region, at
  any point of the start-up or of the life of the server. The new slot holds zeros
  until the first cycle, which stores the start of the runtime as that time if
  there was no transition in it.
- **OpcUaProbe.** Extends the publisher. The stack samples the transition variable
  into a queue of one and events into a queue of `QueueSize`, and hands both to the
  callbacks `DeliverData` and `DeliverEvent`. Times of transitions are numbered in
  their order (`Stamp`), 0 for none; two of one runtime are never equal, as it makes
  at most one in a cycle.

## 3. Runs that pass

Each block of rows is one run; the name is that of its configuration.

| Run | Property | What it says | Distinct states |
|---|---|---|---|
| `SafetyStateMachine` | `EnergisedWithinLimits` | a channel energised by its last cycle was given inputs that its state tolerates | 18,488 |
| | `AcknowledgeNeverEnergises` | no step leads from a latched fault to torque |
| | `MotionKeptInBand` | a cycle that keeps motion was inside the band |
| | `StopEnds` | SS1 ends, whatever is requested meanwhile |
| `DualChannel` | `PermittedByBoth` | only what both channels permit is permitted | 36,671 |
| | `LatchHoldsMachineOff` | a latched discrepancy means no torque |
| | `NoTorqueBeyondTolerance` | no torque outlasts a disagreement beyond the tolerance |
| | `ReleaseNeedsBoth` | the latch is released after both acknowledgements, without torque |
| `BlackChannel` | `SilenceIsBounded` | a synchronised receiver is in its safe state once the watchdog period has passed in silence | 424,420 |
| | `DeliveredInOrder` | what is accepted is ours and in order, across the wrap |
| | `SequenceVerdictIsTrue` | a repetition, gap or reordering is called what it is, and the loss count is the number passed over, with one more exactly when the gap spans the zero the sender skips |
| `SeqlockSlot` | `ImplementsLatestValue` | refinement: loads return whole values that were stored | 1,064,994 |
| | `FailureMeansCollision` | a load gives up only if a store was in its way |
| | `LoadReturns` | loads return, also when the writer has died in a store |
| `SpscRing` | `NoSlotRace` | the two sides are never at the same slot | 1,726 |
| | `ImplementsQueue` | refinement: a bounded FIFO queue |
| | `FalseIsGenuine` | full and empty are reported only if true |
| | `EverythingIsPopped` | what was pushed is popped |
| `CyclicExecutor` | `Cadence` | deadlines stay on the grid of the first, cycles run and skipped add up to those passed, and no burst follows an overrun | 626,996 |
| | `StopWithinOneCycle` | at most one callback begins after a stop |
| | `AllocationReportIsExact` | `run()` counts the violations made during it, by any thread, and the report keeps the largest |
| | `PercentileIsConservative` | percentiles, also of merged histograms, are not below the true ones and not above by more than a bucket |
| | `ThreadReportIsTrue` | a policy, cpu or lock reported as applied is in force; the effective policy and priority reported are the thread's; a stack reported as prefaulted has the pages asked for touched, up to the 16 of `scratch[]`; `fullyApplied()` agrees with the flags |
| `Safeedged` | `TimersNeverRun` | both channels agree and no supervisor timer starts | 352,074 |
| | `RestartsNeedTouches` | every restart after a fault uses up a touch of its own, or a failed `unlink()`, and none follows a loss of communication |
| | `PressTakesEffect` | a press that stays removes torque |
| | `TouchIsDelivered` | every touch reaches the loop |
| | `ShutdownCompletes` | a signal ends the process, also during start-up |
| `OpcUaProbe` | `ProbeAccounts` | events received, coalesced, queued, lost and not fired account for each transition once, across the wrap | 548,704 |
| | `GoodWasPublished` | a Good value was published, is no older than the last event and, after `publishSnapshot()`, is what the last load read: after a failed load nothing is Good |
| | `MeasuredOnce` | a latency is measured once per transition, in order, and never for the opening report |
| | `ServedAsAsked` | a server that serves has the endpoints and checks the clients its operator asked for; its identity is the one asked for exactly if certificate and key can be read, and the posture says when another took its place |
| | `TransitionsReachClient` | the last transition of the runtime reaches the probe |
| `SharedMemory` | `MappedInside` | no mapping is longer than its object | 1,587,116 |
| | `OwnedOnce` | every mapping has exactly one owner |
| | `NoZeroLengthTrap` | a failed `create()` leaves no empty object under the name |
| `HttpServer` | `SocketOutlivesThread` | the thread never uses a closed socket | 155,104 |
| | `FaultIsNotDenied` | no route denies a fault that was latched before the client connected |
| | `EveryClientIsServed` | every client is answered or dropped, unless SIGPIPE ends the process |
| | `StopReturns` | `stop()` returns, with the same exception |

Some of these are narrower than the hazard they are about. `AcknowledgeNeverEnergises`
does not see an acknowledgement given while a monitored cause is still there (section 4).
`ProbeAccounts` books what a full queue or a failed event loses (`lost`, `unsent`); it
catches any other loss. `NoZeroLengthTrap` exempts a creator that dies between two system
calls (`orphaned`), which does leave an empty object. `OwnedOnce` does not move a region
onto itself, which the code returns from at once. `EveryClientIsServed` and `StopReturns` are
about what happens in the end and not when.

Every one of these has a mutant in `PROJECT.json`: a plausible slip in the code that
TLC finds to break it. The modules' type invariants record the domains of their
variables.

The `BlackChannel` run also evaluates the assumptions of `Crc32` and `TelegramCrc`. They have
no parameters, so that evaluating them once settles them: the two polynomials of
`crc32.hpp` are reflections of each other (`PolynomialsReflect`), the CRC of its example is
its check value (`CheckValueMatches`), and, for the longest payload, each bit of a telegram
changes an odd number of bits of the CRC (`EffectsAreOdd`), no two change the same
(`EffectsAreApart`) and no two pairs change the same (`PairsAreApart`). `DamageIsDetected` in
section 5 draws the conclusion: up to five damaged bits never leave a CRC valid. The
ideal CRC of `BlackChannel` stands on that, for so much damage.

### Bounds

- `SafetyStateMachine`: two sets of limits (with and without a band), speeds below,
  at and above the SLS limit, positions inside, at the edge of and outside the
  band, four instants. A stop time of 1 expires inside them.
- `DualChannel`: eight input classes for each channel, tolerance 1, five instants:
  a disagreement can begin, exceed the tolerance, be latched and be released.
- `BlackChannel`: numbers modulo 16, starting two below the wrap, so that every
  kind of verdict falls before, on and after it. Lag 3 allows gaps, repetitions and
  reordering.
- `SeqlockSlot`: two words are the least that can be torn; two stores and two
  attempts let a store begin and end inside one copy.
- `SpscRing`: capacity 4, positions modulo 8, 11 pushes: the positions wrap.
- `CyclicExecutor`: period 2 and delays of 0 or 5, so that one cycle is on time and the
  next skips two. The clock goes to 9, and to 4 (`GuardClock`) once a second thread is in
  a section or a violation was made. One sub-bucket bit and two octaves put values
  below and above the linear part, in buckets wider than one. The quantiles include 0
  and one above 1, which `percentile` clamps. Of the thread's requests one
  asks for more pages than `scratch[]` has, one for fewer, one for none, and two for the
  same policy with different priorities. Two threads report two sizes; two runs separate what a run counts from what was there before.
- `Safeedged`: two presses, two touches and one failed `unlink()`: a fault can be
  latched, acknowledged and latched again. Of the periods 1 and 60 one is below and
  one above the watchdog of 50.
- `OpcUaProbe`: sequences modulo 4 from 3, two transitions: the wrap is crossed. A
  queue of one overflows on the second event. One restart and one failed load; every
  combination of options, files and answers of the stack.
- `SharedMemory`: two processes with two handles each, two objects, three
  mappings. Only processes are permuted by the symmetry set.
- `HttpServer`: two clients, a request limit that one read can overshoot.

Deadlock is not checked in `Safeedged`, `OpcUaProbe` and `DeadRuntime`, whose process
exits, nor in `HttpServer`, whose process may be ended by a signal, nor in
`CyclicExecutor`, whose process may be aborted by the guard and whose clock ends.

### Fairness

Weak fairness is assumed only of threads inside the code: the watchers, the
control and main threads, the publisher, the accept thread and a `stop()` in
progress, a reader inside `tryLoad`, and, in `SafetyStateMachine`, the cycle with
advancing time. In `SpscRing` both sides keep calling. In `OpcUaProbe` the publisher is
scheduled, the stack samples at the interval agreed on and the probe keeps iterating
its client; loads are assumed to succeed in the end only in that a bounded number
collide. Nothing is assumed of operators, clients, transports, or of the seqlock's
writer, which may be dead. `CyclicExecutor` and `SharedMemory` check safety alone and
assume none. In `Safeedged` the fairness of the control thread is stated on its place
alone (`ControlMoves`): once started, it has a step in every place but the last.

## 4. Where the code and its documents disagree

Two runs are expected to end in a violation. Each checks one sentence of the
repository against what the code does.

- `SelfTestBypass` (`TorqueOnlyAfterSelfTest`). A demand during the self test takes the
  channel to STO with a latched fault. Once the demand is gone and acknowledged, a
  request is honoured from STO, and torque is permitted although
  `self_test_passed` was never true. `docs/safety-requirements.md:119` excludes this.
- `DeadRuntime` (`DeadRuntimeNotServed`), on `OpcUaPublisher` alone with both threads fair.
  The OPC UA server opens the region once. When the runtime starts again, the server
  keeps reading the old region, and its last values stay Good.
  `docs/safety-requirements.md:351` excludes this.

The models have the following behaviours too, as the code does. No run is kept for
them, and the passing properties are stated so that they hold with them.

| Code | Behaviour | Document |
|---|---|---|
| `safety_state_machine.cpp:123` | an acknowledgement looks only at the three unconditional demands: a position fault is cleared with the axis still outside the band | `safety-requirements.md:187`; `fmea.md:69` describes the code |
| `safety_state_machine.cpp:203` | the cycle that grants motion does not compare the band; the next one does | `safety_state_machine.hpp:87`, `safety-requirements.md:181` |
| `black_channel.cpp:232` | a gap across the wrap counts exactly one telegram too many, the number zero (`SpansZero` in `SequenceVerdictIsTrue`, which asks for the exact count of every other gap) | `safety-requirements.md:42` |
| `black_channel.cpp:117` | after an acknowledgement the watchdog does not run until something arrives | comment at `black_channel.cpp:106`, `safety-requirements.md:47` |
| `black_channel.cpp:201` | a delayed telegram can be accepted a second time after resynchronisation | `safety-requirements.md:32`; line 84 pulls the other way |
| `black_channel.cpp:247` | a constant delay of the transport never trips the watchdog | `black_channel.hpp:35`, `fmea.md:39` |
| `seqlock_slot.hpp:160` | with `max_attempts` 0, `tryLoad` fails without a collision (the assumption of `FailedLoadsCollided`) | `seqlock_slot.hpp:150` |
| `cyclic_executor.cpp:84` | a stop requested before `run()` begins is forgotten | `cyclic_executor.hpp:115` |
| `cyclic_executor.cpp:148` | `allocation_violations` is written only after the loop, and read in every cycle | `cyclic_executor.hpp:44` |
| `no_alloc_guard.cpp:81` | violations are counted under `kIgnore` too | `no_alloc_guard.hpp:11`; the tests and ADR 0004 agree with the code |
| `thread_config.cpp:135` | only the policy is compared with what was asked for: a priority ignored on a thread that has the policy already is reported as applied, and shows in `effective_priority` | comment at `thread_config.cpp:120` |
| `thread_config.cpp:191` | at most 64 KiB of the stack is touched, and `stack_prefaulted` is true, though `prefault_bytes` is 512 KiB by default (`ScratchPages` in `ThreadReportIsTrue`) | `thread_config.hpp:31` |
| `http_server.cpp:48` | `write()` is called without MSG_NOSIGNAL and nothing handles SIGPIPE: a client that leaves before its answer is written can end the process for all others (`at = "killed"` in `EveryClientIsServed`) | `safety-requirements.md:366` names silent clients and unbounded requests only |
| `http_server.cpp:167` | the 2 s are a bound on each `poll()`: a client that sends a byte at a time holds the thread, and `stop()`, until its request has 8192 bytes | comment at `http_server.cpp:20`, `fmea.md:136`: "per connection"; `http_server.cpp:132`: "within one interval" |
| `safeedged.cpp:505` | an acknowledge file touched before the release can restart the machine on the release | `safeedged.cpp:440`, `safety-requirements.md:391` |
| `safeedged.cpp:239` | where `unlink()` fails, one touch is delivered on every pass (`kept` in `RestartsNeedTouches`) | `safeedged.cpp:190` |
| `safeedge_opcua.cpp:244` | after an event that could not be fired, the next one reports nothing missed (`unsent` in `ProbeAccounts`) | `opcua/events.hpp:48` |
| `events.cpp:170` | `fireSafetyTransition` returns false for an event that was triggered without all of its fields | `opcua/events.hpp:65` |
| `security.cpp:240` | a configured certificate or key that cannot be read, or one without the other, is replaced by a self-signed one; the posture says so (`ServedAsAsked`) | `opcua/security.hpp:93`: "if both are set"; line 47: "Both must be set, or neither" |
| `security.cpp:118` | `dropUnencryptedEndpoints` removes endpoints, and leaves the policy | comment at `security.cpp:111` |
| `safeedge_opcua_probe.cpp:113` | when the opening report is 0, the first real transition is discarded as the initial value | comment at `safeedge_opcua_probe.cpp:80` |
| `safeedge_opcua_probe.cpp:153` | the event that marks an overflow of the queue has too few fields and is ignored | comment at `safeedge_opcua_probe.cpp:523` |

Below 20 Hz the period of `safeedged` exceeds the 50 ms watchdog of its receiver. The
receiver then latches in the second cycle, and nothing in the process acknowledges
it. `Safeedged.cfg` checks such a period too: the machine stays off.

## 5. What is proved

The theorems hold for every value of the constants that satisfies the named
assumptions of the modules: any limits, inputs, tolerance, times, quantiles, octaves and sub-buckets, any number of
readers, words, attempts, threads, runs and stores, of processes, regions and mappings,
of clients and requests, of presses, touches, restarts and events, any capacity and
any width of the counters. Three assumptions are worth a look. `BlackChannelAssumption` asks for
2(`MaxLag` + `Watchdog` + 1) <= `Modulus`: together, the time a telegram is held back and
the time a receiver may be silent stay below half of the 2^32 numbers. The ring's asks that
its capacity divides the width of its positions, as the code's power of two does.
`PublisherAssumption` asks for less than one turn of the sequence number, 2^64 transitions
in the code: beyond it an old value cannot be told from a new one. The theorems on the CRC
are about the code's own polynomial and widths, and hold for messages of every length
or telegrams of every size and content.

| Module | Theorem | Statement |
|---|---|---|
| `SupervisorProofs` | `ChannelInvariant`, `TypeCorrect` | `ChannelInv`, `ChannelTypeOK` |
| | `LatchedChannelIsOff` | a latched fault means STO |
| | `EnergisedChannelWithinLimits` | `EnergisedWithinLimits` |
| | `ChannelKeepsFirstCause` | a latched fault keeps its first cause |
| | `ChannelNeverRestartsOnAcknowledge` | `AcknowledgeNeverEnergises` |
| | `ChannelStopIsNotInterrupted` | SS1 is left only for STO or by `reset` |
| | `ChannelKeepsBand` | `MotionKeptInBand` |
| | `DualInvariant` | `DualInv` |
| | `OneOutOfTwo` | `PermittedByBoth` |
| | `LatchIsSafe` | `LatchHoldsMachineOff` |
| | `ToleranceIsBound` | `NoTorqueBeyondTolerance` |
| | `BothAreDriven` | the cycle that latches leaves both channels in STO |
| | `ReleaseIsSafe` | `ReleaseNeedsBoth` |
| `CounterProofs` | `RelationInvariant` | `RelationInv` |
| | `SilenceIsNoticed` | `SilenceIsBounded` |
| | `AcceptedInOrder` | `DeliveredInOrder` |
| | `VerdictsAreTrue` | `SequenceVerdictIsTrue` |
| | `RingInvariant` | `RingInv` |
| | `SlotsNeverRaced` | `NoSlotRace` |
| | `FalseAnswersAreGenuine` | `FalseIsGenuine` |
| | `RingImplementsQueue` | `ImplementsQueue`, the refinement |
| `IpcProofs` | `SeqlockInvariant` | `SeqlockInv` |
| | `SeqlockImplementsRegister` | `ImplementsLatestValue`, the refinement |
| | `FailedLoadsCollided` | `FailureMeansCollision`, with at least one attempt |
| | `RegionsStayInside` | `MappedInside` |
| | `MappingsHaveOneOwner` | `OwnedOnce` |
| | `NoLengthOnlyInCreation` | `NoZeroLengthTrap` |
| `Crc32Proofs` | `CrcIsLinear` | flipped bits change the CRC by what they alone come to, whatever the message |
| | `TableIsDivision` | the table computes division by the polynomial, for a message of every length |
| | `DamageIsDetected` | one to five flipped bits of a telegram, CRC included, leave a CRC that is not valid ("HD=6" of `crc32.hpp`, REQ-SAF-002) |
| `LatencyHistogramProofs` | `BucketsAreTight` | a value lies in the bucket `bucketIndexFor` gives it, which is narrow |
| `CyclicExecutorProofs` | `CadenceHolds` | `Cadence` |
| | `StopHolds` | `StopWithinOneCycle` |
| | `AllocationReportHolds` | `AllocationReportIsExact` |
| | `ThreadReportHolds` | `ThreadReportIsTrue` |
| | `PercentilesAreConservative` | `PercentileIsConservative` |
| `SafeedgedProofs` | `SocketIsOpenForThread` | `SocketOutlivesThread` |
| | `FaultsAreNotDenied` | `FaultIsNotDenied` |
| | `NoTimerRuns` | `TimersNeverRun` |
| | `EveryRestartIsAcknowledged` | `RestartsNeedTouches` |
| `OpcUaProbeProofs` | `GoodIsPublished`, `GoodIsPublishedToProbes` | `GoodWasPublished`, of the server alone and with a probe |
| | `ProbeAccountsForEveryTransition` | `ProbeAccounts` |
| | `LatenciesAreMeasuredOnce` | `MeasuredOnce` |
| | `ServerIsAsAsked` | `ServedAsAsked` |

`SupervisorProofs` begins with lemmas on `evaluate` and its phases. `EvaluateEffect` says in one place what a cycle does to a channel, so
that neither proof expands `evaluate` again. `CounterProofs` begins with the arithmetic
of counters that wrap: numbers less than a turn apart with the same remainder are
equal, and the remainder of a difference is the difference.

The inductive invariants:

- `ChannelInv` is the type invariant with "a fault means STO" and
  `EnergisedWithinLimits`. The second is not inductive alone: a latched channel is
  left alone by the monitors, and only its being in STO excuses that.
- `DualInv` adds to the properties that each channel is in STO while it has a fault
  (`ChannelsOff`), and that a channel not acknowledged since the latch still has one
  (`UnacknowledgedHolds`). Without the latter a release could not be traced to two
  acknowledgements.
- `RelationInv` (of the black channel) has three parts. `CountInv`: one count lies behind
  the sender's number, the number of each telegram in transit and the receiver's last
  number, each reduced by the turn that skips zero. `WireInv`: what is in transit is ours
  and recent. `LagInv`: a receiver that is synchronised and not in its safe state has not
  fallen far behind, because it would have met its watchdog. Numbers tell payloads apart
  only within half a turn, so the order of acceptance rests on all three, and the
  watchdog is part of the argument. `RelationInv` was checked with TLC before it was
  proved.
- `SeqlockInv` says what the words hold by the state of the store (`SlotInv`), and that
  a copy whose first sample is still the current sequence holds words of the
  current value (`CopyInv`). The second sample of `tryLoad` tests exactly that
  premise. The abstract register is `generation`: the last step of a
  store is the abstract write, the return of a load is the abstract read, and all
  others are stuttering steps. `CollisionInv` adds, for `FailureMeansCollision`, that a
  reader past its first attempt has seen a store move.
- `RingInv` relates the wrapped positions to counts (`PositionInv`: each cached position
  lies between the position it copies and the other side's) and says that the slots
  between the counts hold consecutive elements, with the exceptions of the slot being
  written and the slot being read (`ContentsInv`). The refinement is the identity on
  the counts and the element taken.
- `CadenceInv` extends the equation of `Cadence` from the head of the loop to all of
  `run()`. `StopInv` says that a run asked to stop and asleep has begun no callback since.
  `CountInv` of the executor relates the guard's counter to what the run made.
  `LargestInv` says that while the report holds less than was seen, some thread still
  carries the largest size, and no thread compares it with a value above the report:
  that is what a compare-and-exchange keeps and a plain store would not.
- `MeasureInv` says of each histogram of the executor that it follows the samples recorded
  in it (`Follows`): at the border of every bucket, the sum of the buckets below is the
  number of samples below, and least, largest and total are those of the samples.
  `record` and `merge` keep this. A rank that falls between two sums then falls among the
  samples of one bucket, and by `BucketsAreTight` the upper end of that bucket is not far
  from any of them.
- `MemoryInv` adds two parts to the types, `MappedInside` and `NoZeroLengthTrap`.
  `SizesInv`: an object has no size until its one creator has given it one, and none
  shrinks, so that the size `openExisting()` checked is still there when it maps. `OwnersInv`: mappings are numbered once, and the
  region a call is about to fill is empty, so that no mapping is overwritten.
- The invariant of the process has five parts. `SupervisorInv`: the channels are equal,
  in STO, SelfTest or LimitedSpeed, and in STO while they have a fault. `TouchInv`:
  restarts and everything that can still lead to one (the file, the flag on its way to
  the loop, the flag, a fault acknowledged but not left) are covered by touches and
  failed removals, one each. It is the second half that makes the count inductive.
  `WatcherInv`: what the watcher has seen is still there, since nobody else removes it.
  `StartupInv` and `ReceiverInv`: the loop is started last, and a receiver in its safe
  state has had the torque taken away by the end of the cycle.
- The invariant of the HTTP server: the accept thread lives inside the life of the
  socket, and neither outlives the process (`ThreadInv`); each client is in the queue once or is being served
  (`QueueInv`), so that an answer belongs to one client; and an answer that denies a
  fault goes to a client that did not come under one (`AnswerInv`).
- The invariant of the OPC UA server measures every sequence number by its age, the
  transitions since the region's first. `OrderInv`: in age, the last number announced, the
  values shown, the load and the slot follow one another, what is Good between two loads
  is the last of them, and what was told or could not be sent is the difference to the
  seed. `StampInv`: a time that is there is not taken
  back on that way. `MeasureInv`: no time the probe holds is ahead of what it was
  shown, and what waits for it is not behind. `QueueInv`: what was announced to
  the probe and has not reached it is in its queue. `ServedAsAsked` is inductive,
  since only `configureSecurity()` leads to the place it speaks of; its proof goes
  through the outcomes of that function one by one.

The proofs about the histogram and the CRC go through their data by induction: over the
buckets, the octaves, the bytes of a message and the number of damaged bits. The
library's induction theorems take an operator, which the provers cannot instantiate.
`Ascend`, stated on a set instead, is proved from the least element of a set of natural
numbers (`WFMin`) and takes their place. A sum or a fold is a recursive function; that it
satisfies its equation is proved by building one that does (`RunExists`).

`DamageIsDetected` follows the flipped bits. By `CrcIsLinear` they alone decide, and each adds
the effect of its place, which depends on the distance to the end and not on the size of
the payload (`FlipIsSyndrome`): the longest payload has the places of all others. Odd numbers
of odd effects leave an odd number of bits, and so not nothing. Two leave nothing only if
they are the same, four only if two pairs are, which the evaluated assumptions exclude.

Only model-checked are the liveness properties, as the prover does not handle ENABLED and
fairness: `StopEnds`, `LoadReturns`, `EverythingIsPopped`, `PressTakesEffect`,
`TouchIsDelivered`, `ShutdownCompletes`, `TransitionsReachClient`, `EveryClientIsServed`,
`StopReturns`. Every other property of the passing runs is proved.

## 6. What is not modelled

- `realTimeSchedulingAvailable()`, which only tests call. Where it probes, it restores
  the policy with priority 0, which a real-time policy refuses, so that a thread that
  already had one keeps SCHED_FIFO at priority 1; the comment at `thread_config.cpp:74`
  says "put it back".
- `mean()` of the histogram, the quotient of two members.
- The OPC UA build without encryption, and the creation of the address space and of the
  event type, which succeed or fail as a whole in `OpcUaPublisher`.
- A write of `publishSnapshot()` that fails, and a client that reads between two of them.
  `address_space.cpp:100` discards the status: a variable whose write failed would keep its
  previous value, Good or not, until the next poll.
- The end of the process by SIGPIPE outside `HttpServer`: `Safeedged` has no clients.
- Time in `HttpServer`: how long a client waits and how long `stop()` takes.
- The probe's own identity files, its statistics and exit codes.
- `runHealthcheck`, a client of the server in the same binary; the parsing of settings.
- NaN and floating-point rounding: quantities are integers. Every comparison of the
  monitors with a NaN is false, so that `EnergisedWithinLimits` and `MotionKeptInBand`
  would not hold of one; no document says what a NaN means.
- Damage of more than five bits: `BlackChannel` takes the CRC as ideal, and residual error
  rates are outside the model.
- The C++ memory model beyond what section 2 says of `SeqlockSlot`. `SpscRing` and
  `NoAllocGuard` take the atomic accesses for what they order.
- Texts of responses, diagnostics and logs, and the name tables.
- Diagnostics counters of `DualChannelSupervisor`, which nothing reads back.

## 7. Further work

1. Compose the publisher of `OpcUaPublisher` with `SharedMemory`, so that a restart is the
   code's `unlinkName` and `create`, one call at a time.
2. State damage to a telegram's length, which the receiver takes from the transport, beside
   damage to its bits.
3. Widen, while the runs stay short: three words in `SeqlockSlot`, two acknowledgements in
   `BlackChannel`, a queue of two in `OpcUaProbe`.
