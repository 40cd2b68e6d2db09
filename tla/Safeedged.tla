----------------------------- MODULE Safeedged -------------------------------
(***************************************************************************)
(* The runtime process of src/apps/safeedged.cpp: the control thread, the  *)
(* two FileFlagWatcher threads, main() and the signal handler, against an  *)
(* operator who creates and removes the emergency stop file and touches    *)
(* the acknowledge file, and an orchestrator that sends SIGTERM.           *)
(*                                                                         *)
(* The supervisor is the one of DualChannel.tla.  Its time stands still at *)
(* 0: now_ns is the same for both channels, they are given the same        *)
(* inputs, and no stop is ever requested, so that neither the discrepancy  *)
(* timer nor the stop timer runs (TimersNeverRun).  The published snapshot *)
(* is written and read as a whole, which is what SeqlockSlot.tla shows.    *)
(* Sender and receiver sit in the same cycle, so that every telegram       *)
(* arrives, in order, one period after the one before.                     *)
(***************************************************************************)
EXTENDS Integers

CONSTANTS
  Periods,        \* the executor_config.period a configuration can ask for
  Watchdog,       \* the watchdog_ns of the receiver
  MaxPresses,     \* bound on the creations of the emergency stop file
  MaxTouches,     \* bound on the touches of the acknowledge file
  MaxKept         \* bound on the calls of unlink() that fail

ASSUME SafeedgedAssumption ==
  /\ Periods \subseteq Nat \ {0} /\ Watchdog \in Nat
  /\ MaxPresses \in Nat /\ MaxTouches \in Nat /\ MaxKept \in Nat

VARIABLES
  estop_file, ack_file,      \* the two files are present
  estop, acknowledge,        \* the two watchers: [at, present, asserted, running]
  control,                   \* where the control thread is
  period,                    \* executor_config.period
  synchronised, safe_state,  \* of the receiver
  sampled,                   \* inputs.emergency_stop_asserted, until it is used
  a, b, disagreement_since_ns, discrepancy_latched, outputs, acked,  \* supervisor
  last,                      \* last_safety_state, last_torque_permitted
  safety_sequence,
  published,                 \* the snapshot in the slot
  shutdown_requested,        \* g_shutdown_requested
  stop_requested,            \* of the executor
  main,                      \* where main() is
  presses, touches,
  restarts,                  \* history: times torque came back after a latched fault
  faulted,                   \* history: a fault has been latched since torque was last on
  kept,                      \* history: how often unlink() has failed
  waiting                    \* history: a touch no takeOnce() has answered yet

files      == <<estop_file, ack_file>>
receiver   == <<period, synchronised, safe_state>>
supervisor == <<a, b, disagreement_since_ns, discrepancy_latched, outputs, acked>>
decision   == <<last, safety_sequence>>
lifetime   == <<shutdown_requested, stop_requested, main>>
operator   == <<presses, touches>>
history    == <<restarts, faulted, kept, waiting>>
vars == <<files, estop, acknowledge, control, receiver, sampled, supervisor, decision,
          published, lifetime, operator, history>>

(* supervisor_config, scaled to integers.                                  *)
Limits ==
  [limited_speed |-> 10, position_min |-> 0, position_max |-> 0,
   position_monitoring_enabled |-> FALSE, standstill_window |-> 0,
   standstill_speed |-> 0, stop_time_limit_ns |-> 500]

(* What a cycle presents to both channels.                                 *)
CycleInputs(emergency, ack, communication) ==
  [speed_magnitude |-> 5, position |-> 0, emergency_stop_asserted |-> emergency,
   communication_ok |-> communication, heartbeat_ok |-> TRUE, self_test_passed |-> TRUE,
   request |-> "SafelyLimitedSpeed", acknowledge |-> ack]

Supervisor ==
  INSTANCE DualChannel WITH
    LimitsSet <- {Limits}, Infinity <- 1000, Tolerance <- 5, MaxTime <- 0, MaxStep <- 1,
    Inputs <- {CycleInputs(e, k, c) : e \in BOOLEAN, k \in BOOLEAN, c \in BOOLEAN},
    now <- 0

Snapshot ==
  [state: Supervisor!SafetyState, torque_permitted: BOOLEAN, fault_latched: BOOLEAN,
   safety_sequence: Nat]

ControlPlaces == {"none", "start", "head", "sampled", "decided", "published", "done"}

Watcher == [at: {"none", "look", "seen", "removed", "ended"}, present: BOOLEAN,
            asserted: BOOLEAN, running: BOOLEAN]

TypeOK ==
  /\ estop_file \in BOOLEAN /\ ack_file \in BOOLEAN
  /\ estop \in Watcher /\ acknowledge \in Watcher
  /\ control \in ControlPlaces
  /\ period \in Periods
  /\ synchronised \in BOOLEAN /\ safe_state \in BOOLEAN /\ sampled \in BOOLEAN
  /\ a \in Supervisor!Channel /\ b \in Supervisor!Channel
  /\ disagreement_since_ns \in Int /\ discrepancy_latched \in BOOLEAN
  /\ outputs \in Supervisor!SafetyOutputs /\ acked \subseteq {"a", "b"}
  /\ last \in [state: Supervisor!SafetyState, torque_permitted: BOOLEAN]
  /\ safety_sequence \in Nat
  /\ published \in Snapshot
  /\ shutdown_requested \in BOOLEAN /\ stop_requested \in BOOLEAN
  /\ main \in {"starting", "slot ready", "server running", "estop watched",
               "both watched", "waiting", "joining", "stopping acknowledge",
               "stopping estop", "exited"}
  /\ presses \in Nat /\ touches \in Nat /\ restarts \in Nat /\ kept \in Nat
  /\ faulted \in BOOLEAN /\ waiting \in BOOLEAN

NoThread   == [at |-> "none", present |-> FALSE, asserted |-> FALSE, running |-> TRUE]
NewWatcher == [NoThread EXCEPT !.at = "look"]

(* RuntimeSnapshot{}: no torque, and no fault either.                      *)
NoSnapshot ==
  [state |-> Supervisor!SafeTorqueOff, torque_permitted |-> FALSE, fault_latched |-> FALSE,
   safety_sequence |-> 0]

(* main() has installed its signal handlers.  Either file may be there     *)
(* from before.                                                            *)
Init ==
  /\ estop_file \in BOOLEAN /\ ack_file \in BOOLEAN
  /\ estop = NoThread /\ acknowledge = NoThread
  /\ control = "none"
  /\ period \in Periods
  /\ synchronised = FALSE /\ safe_state = FALSE /\ sampled = FALSE
  /\ Supervisor!Init
  /\ last = [state |-> Supervisor!SafeTorqueOff, torque_permitted |-> FALSE]
  /\ safety_sequence = 0
  /\ published = NoSnapshot
  /\ shutdown_requested = FALSE /\ stop_requested = FALSE /\ main = "starting"
  /\ presses = (IF estop_file THEN 1 ELSE 0) /\ touches = (IF ack_file THEN 1 ELSE 0)
  /\ restarts = 0 /\ kept = 0 /\ faulted = FALSE
  /\ waiting = ack_file
-----------------------------------------------------------------------------
(* The operator, and the orchestrator.                                     *)
Press ==
  /\ ~estop_file /\ presses < MaxPresses
  /\ estop_file' = TRUE
  /\ presses' = presses + 1
  /\ UNCHANGED <<ack_file, estop, acknowledge, control, receiver, sampled, supervisor,
                 decision, published, lifetime, touches, history>>

Release ==
  /\ estop_file
  /\ estop_file' = FALSE
  /\ UNCHANGED <<ack_file, estop, acknowledge, control, receiver, sampled, supervisor,
                 decision, published, lifetime, operator, history>>

Touch ==
  /\ touches < MaxTouches
  /\ ack_file' = TRUE
  /\ touches' = touches + 1
  /\ waiting' = TRUE
  /\ UNCHANGED <<estop_file, estop, acknowledge, control, receiver, sampled, supervisor,
                 decision, published, lifetime, presses, restarts, faulted, kept>>

Signal ==
  /\ ~shutdown_requested
  /\ shutdown_requested' = TRUE
  /\ UNCHANGED <<files, estop, acknowledge, control, receiver, sampled, supervisor,
                 decision, published, stop_requested, main, operator, history>>
-----------------------------------------------------------------------------
(* FileFlagWatcher::run(): the head of the loop and access().              *)
Looked(w, file) ==
  IF w.running THEN [w EXCEPT !.at = "seen", !.present = file]
  ELSE [w EXCEPT !.at = "ended"]

EstopLook ==
  /\ estop.at = "look"
  /\ estop' = Looked(estop, estop_file)
  /\ UNCHANGED <<files, acknowledge, control, receiver, sampled, supervisor, decision,
                 published, lifetime, operator, history>>

M_EstopComparesWrongly ==
  /\ estop.at = "seen"
  /\ estop' = [estop EXCEPT !.at = "look", !.present = FALSE]
  /\ UNCHANGED <<files, acknowledge, control, receiver, sampled, supervisor, decision,
                 published, lifetime, operator, history>>

(* kLevel: the flag follows what access() found.                           *)
EstopStore ==
  /\ estop.at = "seen"
  /\ estop' = [estop EXCEPT !.at = "look", !.present = FALSE,
                           !.asserted = estop.present]
  /\ UNCHANGED <<files, acknowledge, control, receiver, sampled, supervisor, decision,
                 published, lifetime, operator, history>>

AckLook ==
  /\ acknowledge.at = "look"
  /\ acknowledge' = Looked(acknowledge, ack_file)
  /\ UNCHANGED <<files, estop, control, receiver, sampled, supervisor, decision,
                 published, lifetime, operator, history>>

(* unlink() of the acknowledge file, which may not be permitted.           *)
unlink ==
  \/ ack_file' = FALSE /\ UNCHANGED kept
  \/ kept < MaxKept /\ kept' = kept + 1 /\ UNCHANGED ack_file

M_AckFollowsFile ==
  /\ acknowledge.at = "seen"
  /\ \/ /\ acknowledge.present
        /\ unlink
        /\ acknowledge' = [acknowledge EXCEPT !.at = "removed", !.present = FALSE]
     \/ /\ ~acknowledge.present
        /\ acknowledge' = [acknowledge EXCEPT !.at = "look", !.asserted = FALSE]
        /\ UNCHANGED <<ack_file, kept>>
  /\ UNCHANGED <<estop_file, estop, control, receiver, sampled, supervisor, decision,
                 published, lifetime, operator, restarts, faulted, waiting>>

(* kLatchOnce: unlink(), whose result nobody looks at.                     *)
AckUnlink ==
  /\ acknowledge.at = "seen"
  /\ \/ /\ acknowledge.present
        /\ unlink
        /\ acknowledge' = [acknowledge EXCEPT !.at = "removed", !.present = FALSE]
     \/ /\ ~acknowledge.present
        /\ acknowledge' = [acknowledge EXCEPT !.at = "look"]
        /\ UNCHANGED <<ack_file, kept>>
  /\ UNCHANGED <<estop_file, estop, control, receiver, sampled, supervisor, decision,
                 published, lifetime, operator, restarts, faulted, waiting>>

(* kLatchOnce: the flag is set once the file is gone.                      *)
AckStore ==
  /\ acknowledge.at = "removed"
  /\ acknowledge' = [acknowledge EXCEPT !.at = "look", !.asserted = TRUE]
  /\ UNCHANGED <<files, estop, control, receiver, sampled, supervisor, decision,
                 published, lifetime, operator, history>>
-----------------------------------------------------------------------------
(* The control thread enters run(), which clears the stop flag.            *)
EnterRun ==
  /\ control = "start"
  /\ control' = "head"
  /\ stop_requested' = FALSE
  /\ UNCHANGED <<files, estop, acknowledge, receiver, sampled, supervisor, decision,
                 published, shutdown_requested, main, operator, history>>

(* The executor lets another cycle begin: the telegram round trip, and the *)
(* emergency stop flag is read.  A receiver that has latched stays so.     *)
Sample ==
  /\ control = "head" /\ ~stop_requested
  /\ safe_state' = (safe_state \/ (synchronised /\ period > Watchdog))
  /\ synchronised' = TRUE
  /\ sampled' = estop.asserted
  /\ control' = "sampled"
  /\ UNCHANGED <<files, estop, acknowledge, period, supervisor, decision, published, lifetime,
                 operator, history>>

(* A transition is a change of state or of the torque permission.          *)
Transition ==
  [state |-> outputs'.state, torque_permitted |-> outputs'.torque_permitted] # last

Numbered == IF Transition THEN safety_sequence + 1 ELSE safety_sequence

M_takeLevel(w) == w

(* takeOnce(): the flag is delivered and cleared in one exchange.          *)
takeOnce(w) == [w EXCEPT !.asserted = FALSE]

M_separateReads(ack) ==
  Supervisor!evaluateBoth(CycleInputs(sampled, ack, ~safe_state),
                          CycleInputs(estop.asserted, ack, ~safe_state), 0)

(* supervisor.evaluate(inputs, inputs, now_ns).                            *)
Evaluated(ack) ==
  Supervisor!evaluateBoth(CycleInputs(sampled, ack, ~safe_state),
                          CycleInputs(sampled, ack, ~safe_state), 0)

Decide ==
  LET ack == acknowledge.asserted IN
  /\ control = "sampled"
  /\ Evaluated(ack)
  /\ acknowledge' = takeOnce(acknowledge)
  /\ sampled' = FALSE
  /\ last' = [state |-> outputs'.state, torque_permitted |-> outputs'.torque_permitted]
  /\ safety_sequence' = Numbered
  /\ control' = "decided"
  /\ waiting' = (waiting /\ ~ack)
  /\ restarts' = IF faulted /\ outputs'.torque_permitted THEN restarts + 1 ELSE restarts
  /\ faulted' = (~outputs'.torque_permitted /\ (faulted \/ outputs'.fault_latched))
  /\ UNCHANGED <<files, estop, receiver, published, lifetime, operator, kept>>

(* The snapshot is filled in and stored.                                   *)
Publish ==
  /\ control = "decided"
  /\ published' = [state            |-> outputs.state,
                   torque_permitted |-> outputs.torque_permitted,
                   fault_latched    |-> outputs.fault_latched,
                   safety_sequence  |-> safety_sequence]
  /\ control' = "published"
  /\ UNCHANGED <<files, estop, acknowledge, receiver, sampled, supervisor, decision,
                 lifetime, operator, history>>

M_StopNotForwarded ==
  /\ control = "published"
  /\ control' = "head"
  /\ UNCHANGED <<files, estop, acknowledge, receiver, sampled, supervisor, decision,
                 published, lifetime, operator, history>>

(* The end of the callback: requestStop() once a signal has arrived.       *)
CheckShutdown ==
  /\ control = "published"
  /\ stop_requested' = (stop_requested \/ shutdown_requested)
  /\ control' = "head"
  /\ UNCHANGED <<files, estop, acknowledge, receiver, sampled, supervisor, decision,
                 published, shutdown_requested, main, operator, history>>

(* run() returns and the control thread ends.                              *)
Stop ==
  /\ control = "head" /\ stop_requested
  /\ control' = "done"
  /\ UNCHANGED <<files, estop, acknowledge, receiver, sampled, supervisor, decision,
                 published, lifetime, operator, history>>
-----------------------------------------------------------------------------
(* The settings are read and checked, and a new slot is made, in shared    *)
(* memory or not, with an empty snapshot in it.                            *)
MainMakesSlot ==
  /\ main = "starting"
  /\ published' = NoSnapshot
  /\ main' = "slot ready"
  /\ UNCHANGED <<files, estop, acknowledge, control, receiver, sampled, supervisor,
                 decision, shutdown_requested, stop_requested, operator, history>>

(* The routes of HttpServer.tla are registered and server.start() succeeds.*)
MainStartsServer ==
  /\ main = "slot ready"
  /\ main' = "server running"
  /\ UNCHANGED <<files, estop, acknowledge, control, receiver, sampled, supervisor,
                 decision, published, shutdown_requested, stop_requested, operator, history>>

(* A setting is out of range, or the port is taken: main() returns.        *)
MainGivesUp ==
  /\ main \in {"starting", "slot ready"}
  /\ main' = "exited"
  /\ UNCHANGED <<files, estop, acknowledge, control, receiver, sampled, supervisor,
                 decision, published, shutdown_requested, stop_requested, operator, history>>

MainStartsEstop ==
  /\ main = "server running"
  /\ estop' = NewWatcher
  /\ main' = "estop watched"
  /\ UNCHANGED <<files, acknowledge, control, receiver, sampled, supervisor, decision,
                 published, shutdown_requested, stop_requested, operator, history>>

MainStartsAcknowledge ==
  /\ main = "estop watched"
  /\ acknowledge' = NewWatcher
  /\ main' = "both watched"
  /\ UNCHANGED <<files, estop, control, receiver, sampled, supervisor, decision,
                 published, shutdown_requested, stop_requested, operator, history>>

MainStartsControl ==
  /\ main = "both watched"
  /\ control' = "start"
  /\ main' = "waiting"
  /\ UNCHANGED <<files, estop, acknowledge, receiver, sampled, supervisor, decision,
                 published, shutdown_requested, stop_requested, operator, history>>

MainSeesSignal ==
  /\ main = "waiting" /\ shutdown_requested
  /\ main' = "joining"
  /\ UNCHANGED <<files, estop, acknowledge, control, receiver, sampled, supervisor,
                 decision, published, shutdown_requested, stop_requested, operator, history>>

(* control.join(), server.stop(), and the destructors in reverse order of  *)
(* construction: each clears running_ and joins its thread.                *)
MainJoinsControl ==
  /\ main = "joining" /\ control = "done"
  /\ main' = "stopping acknowledge"
  /\ acknowledge' = [acknowledge EXCEPT !.running = FALSE]
  /\ UNCHANGED <<files, estop, control, receiver, sampled, supervisor, decision,
                 published, shutdown_requested, stop_requested, operator, history>>

MainJoinsAcknowledge ==
  /\ main = "stopping acknowledge" /\ acknowledge.at = "ended"
  /\ main' = "stopping estop"
  /\ estop' = [estop EXCEPT !.running = FALSE]
  /\ UNCHANGED <<files, acknowledge, control, receiver, sampled, supervisor, decision,
                 published, shutdown_requested, stop_requested, operator, history>>

MainJoinsEstop ==
  /\ main = "stopping estop" /\ estop.at = "ended"
  /\ main' = "exited"
  /\ UNCHANGED <<files, estop, acknowledge, control, receiver, sampled, supervisor,
                 decision, published, shutdown_requested, stop_requested, operator, history>>
-----------------------------------------------------------------------------
Environment    == Press \/ Release \/ Touch \/ Signal
EstopWatcher   == EstopLook \/ EstopStore
AckWatcher     == AckLook \/ AckUnlink \/ AckStore
ControlThread  == EnterRun \/ Sample \/ Decide \/ Publish \/ CheckShutdown \/ Stop
MainStartup    ==
  \/ MainMakesSlot \/ MainStartsServer \/ MainGivesUp
  \/ MainStartsEstop \/ MainStartsAcknowledge \/ MainStartsControl
MainThread     ==
  \/ MainStartup
  \/ MainSeesSignal \/ MainJoinsControl \/ MainJoinsAcknowledge \/ MainJoinsEstop

Next == Environment \/ EstopWatcher \/ AckWatcher \/ ControlThread \/ MainThread

Spec == Init /\ [][Next]_vars

(* A step of the control thread, seen from outside: once started, it has   *)
(* one in every place but the last, each taking it to another place.       *)
ControlMoves ==
  control \notin {"none", "done"} /\ control' \in ControlPlaces /\ control' # control

(* Every thread of the process is scheduled again and again; nothing is    *)
(* assumed of the operator or of the orchestrator.                         *)
FairSpec ==
  /\ Spec
  /\ WF_vars(EstopWatcher) /\ WF_vars(AckWatcher)
  /\ WF_control(ControlMoves) /\ WF_vars(MainThread)
-----------------------------------------------------------------------------
(* The composition in the cycle: given one set of inputs, the two channels *)
(* never differ, and no timer of the supervisor is ever started.           *)
TimersNeverRun ==
  /\ a = b
  /\ disagreement_since_ns = -1 /\ ~discrepancy_latched
  /\ a.state \notin {Supervisor!Stopping, Supervisor!OperatingStop}

(* REQ-EDGE-009, takeOnce() and the latch of the supervisor: each return   *)
(* of torque after a fault uses up a touch of its own; one touch of the    *)
(* acknowledge file restarts the machine twice only if the file could not  *)
(* be removed in between.  After a cycle longer than the watchdog of the   *)
(* receiver, which nobody acknowledges, no touch brings torque back.       *)
RestartsNeedTouches ==
  /\ restarts <= touches + kept
  /\ (safe_state /\ control # "sampled") => ~outputs.torque_permitted

(* REQ-EDGE-009: an emergency stop file that stays is followed by a        *)
(* published loss of torque, unless the runtime is shutting down.          *)
PressTakesEffect ==
  estop_file ~> (~estop_file \/ ~published.torque_permitted \/ shutdown_requested)

(* The comment in run(): a touch of the acknowledge file is delivered to   *)
(* the loop, even one made while an earlier touch is being handled or the  *)
(* threads are being started, unless the runtime is ended.                 *)
TouchIsDelivered == waiting ~> (~waiting \/ shutdown_requested \/ main = "exited")

(* REQ-EDGE-001: after SIGTERM the process exits, wherever its threads are *)
(* and even when the signal comes before they have been started.           *)
ShutdownCompletes == shutdown_requested ~> main = "exited"
=============================================================================
