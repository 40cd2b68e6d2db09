--------------------------- MODULE OpcUaPublisher ----------------------------
(***************************************************************************)
(* The process of src/apps/safeedge_opcua.cpp: the publisher thread, which *)
(* polls the runtime's snapshot and turns transitions into events, and     *)
(* main(), which opens the region, sets the OPC UA server up and runs it   *)
(* until a signal, beside a runtime that may start again.  The runtime and *)
(* the protocol stack are external: the runtime numbers its transitions    *)
(* (Safeedged.tla), its slot is read as a whole or not at all              *)
(* (SeqlockSlot.tla), and after a restart it publishes in a new region.    *)
(*                                                                         *)
(* A snapshot is its region and its safety_sequence.                       *)
(***************************************************************************)
EXTENDS Integers, OpcUaSecurity

CONSTANTS
  SeqModulus,      \* 2^64 in the code: safety_sequence wraps here
  FirstSequence,   \* safety_sequence of the runtime when the process begins
  MaxTransitions,  \* bound on the transitions of the runtime
  MaxRestarts,     \* bound on its restarts
  MaxCollisions    \* bound on the loads that give up

ASSUME PublisherAssumption ==
  /\ SeqModulus \in Nat /\ FirstSequence \in 0 .. SeqModulus - 1
  /\ MaxTransitions \in 0 .. SeqModulus - 1
  /\ MaxRestarts \in Nat /\ MaxCollisions \in Nat

VARIABLES
  region,          \* the region the runtime publishes in now
  slots,           \* the safety_sequence in each region's slot
  stamped,         \* and whether its safety_transition_monotonic_ns is there
  mapped,          \* the region the server opened
  at,              \* where the publisher is
  snapshot, fresh, \* its last load
  have_sequence, last_sequence,
  nodes,           \* the variables of the address space, and their StatusCode
  server_running,  \* g_server_running
  running,
  main,            \* where main() is
  security,        \* what configureSecurity() was asked, and did, while main() logs it
  transitions, collisions,
  seed,            \* history: the sequence the publisher started from
  told, unsent     \* history: the transitions its events account for, and those
                   \* whose events could not be fired

runtime   == <<region, slots, stamped, transitions>>
publisher == <<snapshot, fresh, have_sequence, last_sequence>>
process   == <<server_running, running, main, security>>
history   == <<seed, told, unsent>>
vars == <<runtime, mapped, at, publisher, nodes, process, collisions, history>>

Sequences == 0 .. SeqModulus - 1
Snapshots == [region: 0 .. MaxRestarts, sequence: Sequences, stamped: BOOLEAN]
NoSnapshot == [region |-> 0, sequence |-> 0, stamped |-> FALSE]

TypeOK ==
  /\ region \in 0 .. MaxRestarts
  /\ slots \in [0 .. MaxRestarts -> Sequences]
  /\ stamped \in [0 .. MaxRestarts -> BOOLEAN]
  /\ mapped \in 0 .. MaxRestarts
  /\ at \in {"none", "head", "loaded", "compare", "ended"}
  /\ snapshot \in Snapshots /\ fresh \in BOOLEAN
  /\ have_sequence \in BOOLEAN /\ last_sequence \in Sequences
  /\ nodes \in [status: {"Unwritten", "Good", "BadNoData"}, value: Snapshots]
  /\ server_running \in BOOLEAN /\ running \in BOOLEAN
  /\ main \in {"starting", "opened", "configured", "serving", "joining", "deleted", "failed"}
  /\ transitions \in Nat /\ collisions \in Nat
  /\ seed \in Sequences /\ told \in Nat /\ unsent \in Nat

NotConfigured == [config |-> BareConfig]

(* The first sequence number of each region's runtime.                     *)
First(r) == IF r = 0 THEN FirstSequence ELSE 0

(* main() has installed its signal handlers.                               *)
Init ==
  /\ region = 0 /\ mapped = 0
  /\ slots = [r \in 0 .. MaxRestarts |-> First(r)]
  /\ stamped = [r \in 0 .. MaxRestarts |-> First(r) > 0]
  /\ at = "none"
  /\ snapshot = NoSnapshot /\ fresh = FALSE
  /\ have_sequence = FALSE /\ last_sequence = 0
  /\ nodes = [status |-> "Unwritten", value |-> NoSnapshot]
  /\ server_running = TRUE /\ running = TRUE /\ main = "starting"
  /\ security = NotConfigured
  /\ transitions = 0 /\ collisions = 0
  /\ seed = 0 /\ told = 0 /\ unsent = 0
-----------------------------------------------------------------------------
(* The first cycle of a runtime that stays as it is: the stamp it stores   *)
(* is the time at which the runtime was started.                           *)
FirstCycle ==
  /\ ~stamped[region]
  /\ stamped' = [stamped EXCEPT ![region] = TRUE]
  /\ UNCHANGED <<region, slots, transitions, mapped, at, publisher, nodes, process,
                 collisions, history>>

(* The runtime changes its decision.                                       *)
Transition ==
  /\ transitions < MaxTransitions
  /\ transitions' = transitions + 1
  /\ slots' = [slots EXCEPT ![region] = (@ + 1) % SeqModulus]
  /\ stamped' = [stamped EXCEPT ![region] = TRUE]
  /\ UNCHANGED <<region, mapped, at, publisher, nodes, process, collisions, history>>

(* The runtime starts again: the name is unlinked and a new region made.   *)
Restart ==
  /\ region < MaxRestarts
  /\ region' = region + 1
  /\ UNCHANGED <<slots, stamped, transitions, mapped, at, publisher, nodes, process,
                 collisions, history>>

Signal ==
  /\ server_running
  /\ server_running' = FALSE
  /\ UNCHANGED <<runtime, mapped, at, publisher, nodes, running, main, security, collisions,
                 history>>
-----------------------------------------------------------------------------
(* What the mapped slot holds: zeros before the first cycle.               *)
Current == [region |-> mapped, sequence |-> slots[mapped], stamped |-> stamped[mapped]]

(* The head of the publisher's loop, and a load that succeeds.             *)
LoadFresh ==
  /\ at = "head" /\ running
  /\ snapshot' = Current
  /\ fresh' = TRUE
  /\ at' = "loaded"
  /\ UNCHANGED <<runtime, mapped, have_sequence, last_sequence, nodes, process,
                 collisions, history>>

(* A load that gives up: the snapshot stays default-constructed.           *)
LoadCollides ==
  /\ at = "head" /\ running /\ collisions < MaxCollisions
  /\ snapshot' = NoSnapshot
  /\ fresh' = FALSE
  /\ at' = "loaded"
  /\ collisions' = collisions + 1
  /\ UNCHANGED <<runtime, mapped, have_sequence, last_sequence, nodes, process, history>>

Status == IF fresh THEN "Good" ELSE "BadNoData"

M_PublishOnlyFresh ==
  /\ at = "loaded"
  /\ nodes' = IF fresh THEN [status |-> Status, value |-> snapshot] ELSE nodes
  /\ at' = "compare"
  /\ UNCHANGED <<runtime, mapped, publisher, process, collisions, history>>

(* publishSnapshot(): its writes, one for each variable, as one step.      *)
(* They are taken to succeed: writeValue() discards the status, and a      *)
(* variable whose write failed would keep its value and its status.        *)
PublishSnapshot ==
  /\ at = "loaded"
  /\ nodes' = [status |-> Status, value |-> snapshot]
  /\ at' = "compare"
  /\ UNCHANGED <<runtime, mapped, publisher, process, collisions, history>>

(* describeTransition(): the transitions an event stands for besides its   *)
(* own, by unsigned subtraction.                                           *)
missedTransitions(sequence, previous_sequence) ==
  LET advanced == (sequence - previous_sequence) % SeqModulus IN
  IF advanced > 1 THEN advanced - 1 ELSE 0

Changed == snapshot.sequence # last_sequence

Seed ==
  /\ at = "compare" /\ fresh /\ ~have_sequence
  /\ last_sequence' = snapshot.sequence
  /\ have_sequence' = TRUE
  /\ seed' = snapshot.sequence
  /\ at' = "head"
  /\ UNCHANGED <<runtime, mapped, snapshot, fresh, nodes, process, collisions, told,
                 unsent>>

(* fireSafetyTransition() of an event that stands for so many transitions: *)
(* it is not created or not triggered, it is triggered though its fields   *)
(* could not all be written and stands for itself alone, or all is well.   *)
fireSafetyTransition(count) ==
  \E sent \in {0, 1, count} :
    told' = told + sent /\ unsent' = unsent + count - sent

(* last_sequence moves on before fireSafetyTransition() has succeeded; a   *)
(* failure is only logged.                                                 *)
Fire ==
  /\ at = "compare" /\ fresh /\ have_sequence
  /\ Changed
  /\ last_sequence' = snapshot.sequence
  /\ fireSafetyTransition(1 + missedTransitions(snapshot.sequence, last_sequence))
  /\ at' = "head"
  /\ UNCHANGED <<runtime, mapped, snapshot, fresh, have_sequence, nodes, process,
                 collisions, seed>>

M_QuietEnds ==
  /\ at = "compare"
  /\ ~fresh \/ (have_sequence /\ ~Changed)
  /\ at' = IF fresh THEN "head" ELSE "ended"
  /\ UNCHANGED <<runtime, mapped, publisher, nodes, process, collisions, history>>

(* Nothing to announce.                                                    *)
Quiet ==
  /\ at = "compare"
  /\ ~fresh \/ (have_sequence /\ ~Changed)
  /\ at' = "head"
  /\ UNCHANGED <<runtime, mapped, publisher, nodes, process, collisions, history>>

EndPublisher ==
  /\ at = "head" /\ ~running
  /\ at' = "ended"
  /\ UNCHANGED <<runtime, mapped, publisher, nodes, process, collisions, history>>
-----------------------------------------------------------------------------
(* openExisting() maps the region that has the name now.                   *)
OpenRegion ==
  /\ main = "starting"
  /\ mapped' = region
  /\ main' = "opened"
  /\ UNCHANGED <<runtime, at, publisher, nodes, server_running, running, security,
                 collisions, history>>

(* The server is made and gets its security configuration; with no policy  *)
(* main() gives up.                                                        *)
ConfigureSecurity ==
  /\ main = "opened"
  /\ \E options \in SecurityOptions, stack \in StackAnswers :
       LET outcome == configureSecurity(options, stack) IN
       IF outcome.posture.policy_count = 0
       THEN main' = "failed" /\ UNCHANGED security
       ELSE /\ main' = "configured"
            /\ security' = [options |-> options, config |-> outcome.config,
                            posture |-> outcome.posture]
  /\ UNCHANGED <<runtime, mapped, at, publisher, nodes, server_running, running,
                 collisions, history>>

(* main() logs the posture, which it does not use again; the address space *)
(* and the event type are built, and the publisher is started.             *)
StartPublisher ==
  /\ main = "configured"
  /\ at' = "head"
  /\ main' = "serving"
  /\ security' = NotConfigured
  /\ UNCHANGED <<runtime, mapped, publisher, nodes, server_running, running, collisions,
                 history>>

(* There is no region, no server, or no complete address space, and main() *)
(* returns before there is a publisher.                                    *)
StartFails ==
  /\ main \in {"starting", "opened", "configured"}
  /\ main' = "failed"
  /\ security' = NotConfigured
  /\ UNCHANGED <<runtime, mapped, at, publisher, nodes, server_running, running,
                 collisions, history>>

(* UA_Server_run() returns, because of the signal or with a fault of its   *)
(* own, and the publisher is told to stop.                                 *)
EndService ==
  /\ main = "serving"
  /\ running' = FALSE
  /\ main' = "joining"
  /\ UNCHANGED <<runtime, mapped, at, publisher, nodes, server_running, security,
                 collisions, history>>

MainStops   == ~server_running /\ EndService
ServerFault == server_running /\ EndService

(* publisher.join(), and only then UA_Server_delete().                     *)
MainDeletes ==
  /\ main = "joining" /\ at = "ended"
  /\ main' = "deleted"
  /\ UNCHANGED <<runtime, mapped, at, publisher, nodes, server_running, running, security,
                 collisions, history>>

Publisher ==
  LoadFresh \/ LoadCollides \/ PublishSnapshot \/ Seed \/ Fire \/ Quiet \/ EndPublisher
Main == OpenRegion \/ StartPublisher \/ StartFails \/ MainStops \/ MainDeletes

Next ==
  \/ FirstCycle \/ Transition \/ Restart \/ Signal \/ ServerFault
  \/ Publisher \/ Main
  \/ ConfigureSecurity

Spec == Init /\ [][Next]_vars

(* Both threads are scheduled.  Where main() configures the security it    *)
(* may also fail, so that it leaves that place as well.                    *)
FairSpec == Spec /\ WF_vars(Publisher) /\ WF_vars(Main)
-----------------------------------------------------------------------------
(* How many transitions the runtime of a region, and that of the region    *)
(* opened, had made when a sequence was current.                           *)
Since(r, sequence) == (sequence - First(r)) % SeqModulus
Age(sequence)      == Since(mapped, sequence)

(* The header comment of the process and REQ-EDGE-004: a value shown as    *)
(* Good is one the runtime has published, and not one from before the last *)
(* transition announced; and once publishSnapshot() is done it is what the *)
(* last load read, so that after a load that gave up nothing is Good.      *)
GoodWasPublished ==
  nodes.status = "Good" =>
    /\ Age(nodes.value.sequence) <= Age(slots[mapped])
    /\ have_sequence => Age(last_sequence) <= Age(nodes.value.sequence)
    /\ at # "loaded" => fresh /\ nodes.value = snapshot

(* REQ-EDGE-004: previous values are not served "as though they were       *)
(* current": once the runtime has started again, its variables are current *)
(* or are not Good, unless the server is stopped.                          *)
DeadRuntimeNotServed ==
  region = 1 ~> (nodes.status # "Good" \/ nodes.value.region = region \/ main # "serving")
=============================================================================
