------------------------------ MODULE OpcUaProbe -----------------------------
(***************************************************************************)
(* src/apps/safeedge_opcua_probe.cpp beside the server of OpcUaPublisher:  *)
(* the probe connects as the security of both sides allows, monitors the   *)
(* transition variable and, with --events, the safety events, and measures *)
(* until its deadline.  What the protocol stack does between the two is    *)
(* external: it samples the variable into a queue of one, queues events up *)
(* to the depth asked for, and hands both to the probe's callbacks in      *)
(* order, while the server serves.                                         *)
(***************************************************************************)
EXTENDS OpcUaPublisher, Sequences

CONSTANTS QueueSize  \* of the event item, 64 in the code

ASSUME ProbeAssumption == QueueSize \in Nat \ {0}

VARIABLES
  admitted,          \* whether the two securities let the probe connect
  probe,             \* where the probe is
  sampled,           \* the server's side of the data item: the value last sampled
  pending,           \* and its queue of one
  queue,             \* the queue of the event item: what each event stands for
  g_last_transition, g_had_initial, g_saw_bad_status,
  g_latencies,       \* the transitions measured, in order
  g_events_received, g_events_coalesced_by_server,
  opening,           \* history: the transition the opening report showed
  told_before, lost  \* history: told when the events were subscribed to, and what
                     \* the full queue turned away since

monitored == <<sampled, pending, queue>>
globals   == <<g_last_transition, g_had_initial, g_saw_bad_status, g_latencies,
               g_events_received, g_events_coalesced_by_server>>
noted     == <<opening, told_before, lost>>
client    == <<admitted, probe, monitored, globals, noted>>
all       == <<vars, client>>

(* safety_transition_monotonic_ns, by the order of such times: 0 before    *)
(* the first cycle, then the start, or the last transition before this     *)
(* process, and then the transitions.                                      *)
Stamp(value) == IF value.stamped THEN Age(value.sequence) + 1 ELSE 0

NoValue == [status |-> "none"]

ProbeType ==
  /\ admitted \in BOOLEAN
  /\ probe \in {"away", "connected", "monitoring", "listening", "ended"}
  /\ queue \in Seq(Nat) /\ Len(queue) <= QueueSize
  /\ g_last_transition \in Nat /\ g_had_initial \in BOOLEAN
  /\ g_saw_bad_status \in BOOLEAN /\ g_latencies \in Seq(Nat)
  /\ g_events_received \in Nat /\ g_events_coalesced_by_server \in Nat
  /\ opening \in Nat /\ told_before \in Nat /\ lost \in Nat

ProbeInit ==
  /\ Init
  /\ admitted = FALSE /\ probe = "away"
  /\ sampled = NoValue /\ pending = NoValue /\ queue = <<>>
  /\ g_last_transition = 0 /\ g_had_initial = FALSE /\ g_saw_bad_status = FALSE
  /\ g_latencies = <<>>
  /\ g_events_received = 0 /\ g_events_coalesced_by_server = 0
  /\ opening = 0 /\ told_before = 0 /\ lost = 0
-----------------------------------------------------------------------------
(* The server's steps, with what they mean for the probe.  Whether the two *)
(* can connect is settled when the server starts to serve.                 *)
Serve ==
  /\ StartPublisher
  /\ \E options \in ProbeOptions, stack \in BOOLEAN :
       admitted' = Connects(options, stack, security.config)
  /\ UNCHANGED <<probe, monitored, globals, noted>>

M_discardOldest(count) ==
  IF Len(queue) < QueueSize THEN queue' = Append(queue, count) /\ UNCHANGED lost
  ELSE queue' = Append(Tail(queue), count) /\ UNCHANGED lost

(* An event for the event item: a full queue discards it, and marks the    *)
(* overflow with an event of fewer fields, which onSafetyEvent() ignores.  *)
Enqueue(count) ==
  IF Len(queue) < QueueSize THEN queue' = Append(queue, count) /\ UNCHANGED lost
  ELSE lost' = lost + count /\ UNCHANGED queue

FireTo ==
  /\ Fire
  /\ IF probe = "listening" /\ told' > told THEN Enqueue(told' - told)
     ELSE UNCHANGED <<queue, lost>>
  /\ UNCHANGED <<admitted, probe, sampled, pending, globals, opening, told_before>>

(* The stack samples the transition variable, which may overwrite a value  *)
(* not yet sent.                                                           *)
DataValue == [status |-> nodes.status, stamp |-> Stamp(nodes.value)]

SampleItem ==
  /\ main = "serving" /\ probe \in {"monitoring", "listening"}
  /\ DataValue # sampled
  /\ sampled' = DataValue /\ pending' = DataValue
  /\ UNCHANGED <<vars, admitted, probe, queue, globals, noted>>
-----------------------------------------------------------------------------
(* main() returns: after its report, with 0, or because a step failed,     *)
(* with the number of the step.  What it monitored goes with the session.  *)
Exit ==
  /\ probe # "ended"
  /\ probe' = "ended"
  /\ sampled' = NoValue /\ pending' = NoValue /\ queue' = <<>>
  /\ g_last_transition' = 0 /\ g_had_initial' = FALSE /\ g_saw_bad_status' = FALSE
  /\ g_latencies' = <<>>
  /\ g_events_received' = 0 /\ g_events_coalesced_by_server' = 0
  /\ opening' = 0 /\ told_before' = 0 /\ lost' = 0
  /\ UNCHANGED <<vars, admitted>>

(* The probe has its identity and its verification, and the server lets it *)
(* in on an encrypted channel.                                             *)
Connect ==
  /\ probe = "away" /\ main = "serving" /\ admitted
  /\ probe' = "connected"
  /\ UNCHANGED <<vars, admitted, monitored, globals, noted>>

(* The namespace, the subscription and the data item, which is sampled     *)
(* when it is created.                                                     *)
MonitorData ==
  /\ probe = "connected" /\ main = "serving"
  /\ probe' = "monitoring"
  /\ sampled' = DataValue /\ pending' = DataValue
  /\ opening' = IF nodes.status = "Good" THEN Stamp(nodes.value) ELSE 0
  /\ UNCHANGED <<vars, admitted, queue, globals, told_before, lost>>

(* The event item, with --events.                                          *)
MonitorEvents ==
  /\ probe = "monitoring" /\ main = "serving"
  /\ probe' = "listening"
  /\ told_before' = told
  /\ UNCHANGED <<vars, admitted, monitored, globals, opening, lost>>

M_isRepeat(transition) == transition = 0

(* A transition that is none, or that was the last one heard of.           *)
IsRepeat(transition) == transition = 0 \/ transition = g_last_transition

(* onTransitionChanged().                                                  *)
DeliverData ==
  /\ main = "serving" /\ probe \in {"monitoring", "listening"} /\ pending # NoValue
  /\ pending' = NoValue
  /\ LET bad   == pending.status = "BadNoData"
         fresh_one == pending.status = "Good" /\ ~IsRepeat(pending.stamp)
     IN /\ g_saw_bad_status' = (g_saw_bad_status \/ bad)
        /\ g_last_transition' = IF fresh_one THEN pending.stamp ELSE g_last_transition
        /\ g_had_initial' = (g_had_initial \/ fresh_one)
        /\ g_latencies' = IF fresh_one /\ g_had_initial
                          THEN Append(g_latencies, pending.stamp) ELSE g_latencies
  /\ UNCHANGED <<vars, admitted, probe, sampled, queue, g_events_received,
                 g_events_coalesced_by_server, noted>>

(* onSafetyEvent().                                                        *)
DeliverEvent ==
  /\ main = "serving" /\ probe = "listening" /\ queue # <<>>
  /\ queue' = Tail(queue)
  /\ g_events_received' = g_events_received + 1
  /\ g_events_coalesced_by_server' = g_events_coalesced_by_server + Head(queue) - 1
  /\ UNCHANGED <<vars, admitted, probe, sampled, pending, g_last_transition, g_had_initial,
                 g_saw_bad_status, g_latencies, noted>>

Server ==
  \/ FirstCycle \/ Transition \/ Restart \/ Signal \/ ServerFault
  \/ LoadFresh \/ LoadCollides \/ PublishSnapshot \/ Seed \/ Quiet \/ EndPublisher
  \/ OpenRegion \/ StartFails \/ MainStops \/ MainDeletes
  \/ ConfigureSecurity

Stack == SampleItem \/ DeliverData \/ DeliverEvent

ProbeNext ==
  \/ Server /\ UNCHANGED client
  \/ Serve \/ FireTo
  \/ Stack
  \/ Connect \/ MonitorData \/ MonitorEvents \/ Exit

(* The publisher is scheduled, the stack samples and sends at the          *)
(* intervals agreed on, and the probe keeps calling UA_Client_run_iterate. *)
ProbeSpec ==
  /\ ProbeInit /\ [][ProbeNext]_all
  /\ WF_all((LoadFresh \/ PublishSnapshot \/ Seed \/ Quiet) /\ UNCHANGED client)
  /\ WF_all(FireTo) /\ WF_all(SampleItem) /\ WF_all(DeliverData)
-----------------------------------------------------------------------------
(* The events in the queue stand for this many transitions: what is left   *)
(* of them after each event, down to none after the last.                  *)
QueueHolds(sum) ==
  \E left \in [0 .. Len(queue) -> 0 .. told] :
    /\ left[0] = sum /\ left[Len(queue)] = 0
    /\ \A i \in 1 .. Len(queue) : left[i - 1] = left[i] + queue[i]

(* MissedTransitions, onSafetyEvent() and the queue of 64: from the moment *)
(* the probe listens, the events it received and the transitions they      *)
(* coalesced, with those still queued and those a full queue turned away,  *)
(* are what the server announced, and the announcements account for every  *)
(* transition since the publisher was seeded, once each, but for the       *)
(* events that could not be fired, across collisions and the wrap.         *)
ProbeAccounts ==
  /\ have_sequence => told + unsent = (last_sequence - seed) % SeqModulus
  /\ probe = "listening" =>
       QueueHolds(told - told_before
                    - (g_events_received + g_events_coalesced_by_server + lost))

(* onTransitionChanged(): a latency is measured once for a transition, in  *)
(* the order they happened, and only for transitions after the one the     *)
(* opening report showed, whatever Bad notifications come between.         *)
MeasuredOnce ==
  \A i \in DOMAIN g_latencies :
    /\ opening < g_latencies[i]
    /\ i > 1 => g_latencies[i - 1] < g_latencies[i]

(* What an operator asked for, what came of it, and what is said of it.    *)
AsAsked(asked, config, posture) ==
  LET plain == "None" \in config.endpoints IN
  /\ plain => asked.allow_unencrypted
  /\ plain = posture.allows_unencrypted
  /\ asked.trust_list.named = config.checks /\ config.checks = posture.checks
  /\ config.checks =>
       /\ ~plain /\ config.trusted # {}
       /\ config.trusted \subseteq asked.trust_list.readable
       /\ posture.trusted_certificate_count = Cardinality(config.trusted)
  /\ (config.certificate = "server") =
       (asked.certificate = "readable" /\ asked.key = "readable")
  /\ (posture.origin = "loaded") = (config.certificate = "server")
  /\ (posture.origin = "generated") = (config.certificate = "throwaway")
  /\ \A options \in ProbeOptions, stack \in BOOLEAN :
       Connects(options, stack, config) =>
         /\ asked.trust_list.named => options.certificate \in asked.trust_list.readable
         /\ ~options.insecure_accept_any_certificate =>
              config.certificate \in options.trust_list.readable

(* configureSecurity() and configureServerVerification(), of a server that *)
(* goes on to serve.  An unencrypted endpoint is there only when asked for *)
(* and never beside a trust list.  Clients are checked exactly when asked  *)
(* for, and against certificates that were provided.  The identity is the  *)
(* one asked for exactly when its certificate and its key can both be      *)
(* read: otherwise, named or not, a throwaway one or none takes its place, *)
(* and the posture says which.  A probe that connects is one the server    *)
(* trusts and, unless it was told to accept any, trusts the server.        *)
ServedAsAsked ==
  main = "configured" => AsAsked(security.options, security.config, security.posture)

(* From the runtime's decision to the probe: while the server serves and   *)
(* the probe runs, the transition the runtime made last reaches            *)
(* onTransitionChanged(), unless a later one takes its place.              *)
TransitionsReachClient ==
  \A t \in 0 .. MaxTransitions + 1 :
    (probe \in {"monitoring", "listening"} /\ Stamp(Current) = t)
      ~> \/ g_last_transition = t
         \/ Stamp(Current) # t \/ probe = "ended" \/ main # "serving"
=============================================================================
