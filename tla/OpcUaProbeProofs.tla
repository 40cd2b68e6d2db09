-------------------------- MODULE OpcUaProbeProofs ---------------------------
(***************************************************************************)
(* The OPC UA server and its probe, for every width of the safety sequence *)
(* number, every number of transitions within one turn of it, every number *)
(* of restarts and every length of the event queue.                        *)
(***************************************************************************)
EXTENDS OpcUaProbe, TLAPS

(* What the assumptions on the constants come to.                          *)
LEMMA Constants ==
  /\ SeqModulus \in Nat \ {0} /\ MaxTransitions \in Nat /\ MaxTransitions <= SeqModulus - 1
  /\ MaxRestarts \in Nat /\ MaxCollisions \in Nat
  /\ FirstSequence \in Sequences /\ QueueSize \in Nat
  /\ 0 \in Sequences /\ Sequences \subseteq Nat /\ 0 \in 0 .. MaxRestarts
  /\ \A r \in 0 .. MaxRestarts : First(r) \in Sequences
BY PublisherAssumption, ProbeAssumption DEF Sequences, First

(* The one remainder there is.                                             *)
LEMMA OnlyRemainder ==
  ASSUME NEW m \in Nat \ {0}, NEW q \in Int, NEW r \in 0 .. m - 1
  PROVE  (m * q + r) % m = r
<1> DEFINE n == m * q + r
           p == n \div m
           s == n % m
<1>1. n \in Int
  OBVIOUS
<1>2. s \in 0 .. m - 1 /\ n = m * p + s /\ p \in Int
  BY <1>1
<1>3. m * q + r = m * p + s
  BY <1>2
<1> HIDE DEF n, p, s
<1>4. m * (q - p) = s - r /\ m * (p - q) = r - s
  BY <1>2, <1>3
<1>5. q - p < 1
  <2> SUFFICES ASSUME q - p >= 1 PROVE FALSE
    BY <1>2
  <2>1. m * (q - p) >= m
    BY <1>2
  <2> QED BY <1>2, <1>4, <2>1
<1>6. p - q < 1
  <2> SUFFICES ASSUME p - q >= 1 PROVE FALSE
    BY <1>2
  <2>1. m * (p - q) >= m
    BY <1>2
  <2> QED BY <1>2, <1>4, <2>1
<1>7. p = q
  BY <1>2, <1>5, <1>6
<1>8. s = r
  BY <1>2, <1>3, <1>7
<1> QED BY <1>8 DEF s, n

(* Unsigned subtraction of two sequence numbers, and the next one.         *)
LEMMA Subtract ==
  ASSUME NEW p \in Sequences, NEW q \in Sequences
  PROVE  (p - q) % SeqModulus = IF q <= p THEN p - q ELSE p - q + SeqModulus
<1>1. CASE q <= p
  <2>1. p - q \in 0 .. SeqModulus - 1 /\ p - q = SeqModulus * 0 + (p - q)
    BY <1>1, Constants DEF Sequences
  <2> QED BY <1>1, <2>1, Constants, OnlyRemainder
<1>2. CASE ~(q <= p)
  <2>1. /\ p - q + SeqModulus \in 0 .. SeqModulus - 1
        /\ p - q = SeqModulus * (-1) + (p - q + SeqModulus)
    BY <1>2, Constants DEF Sequences
  <2> QED BY <1>2, <2>1, Constants, OnlyRemainder
<1> QED BY <1>1, <1>2

(* The number after a sequence number is one.                              *)
LEMMA Following ==
  ASSUME NEW p \in Sequences
  PROVE  /\ (p + 1) % SeqModulus \in Sequences
         /\ (p + 1) % SeqModulus = IF p = SeqModulus - 1 THEN 0 ELSE p + 1
<1>1. CASE p = SeqModulus - 1
  <2>1. 0 \in 0 .. SeqModulus - 1 /\ p + 1 = SeqModulus * 1 + 0
    BY <1>1, Constants DEF Sequences
  <2> QED BY <1>1, <2>1, Constants, OnlyRemainder DEF Sequences
<1>2. CASE p # SeqModulus - 1
  <2>1. p + 1 \in 0 .. SeqModulus - 1 /\ p + 1 = SeqModulus * 0 + (p + 1)
    BY <1>2, Constants DEF Sequences
  <2> QED BY <1>2, <2>1, Constants, OnlyRemainder DEF Sequences
<1> QED BY <1>1, <1>2

(* A count of transitions, from a sequence number and back.                *)
LEMMA SinceType ==
  ASSUME NEW r \in 0 .. MaxRestarts, NEW s \in Sequences
  PROVE  Since(r, s) \in Nat /\ Since(r, s) <= SeqModulus - 1
BY Constants, Subtract DEF Since, Sequences

(* No transition has been made at the first number of a region.            *)
LEMMA SinceFirst ==
  ASSUME NEW r \in 0 .. MaxRestarts
  PROVE  Since(r, First(r)) = 0
<1>1. First(r) \in Sequences
  BY Constants
<1>2. (First(r) - First(r)) % SeqModulus = First(r) - First(r)
  BY <1>1, Subtract DEF Sequences
<1> QED BY <1>1, <1>2 DEF Since, Sequences

(* Each transition, short of a whole turn, is one more.                    *)
LEMMA SinceNext ==
  ASSUME NEW r \in 0 .. MaxRestarts, NEW s \in Sequences, Since(r, s) < SeqModulus - 1
  PROVE  Since(r, (s + 1) % SeqModulus) = Since(r, s) + 1
<1> DEFINE t == (s + 1) % SeqModulus
<1>1. First(r) \in Sequences /\ SeqModulus \in Nat
  BY Constants
<1>2. t \in Sequences /\ t = IF s = SeqModulus - 1 THEN 0 ELSE s + 1
  BY Following
<1> HIDE DEF t
<1>3. Since(r, s) = IF First(r) <= s THEN s - First(r) ELSE s - First(r) + SeqModulus
  BY <1>1, Subtract DEF Since
<1>4. Since(r, t) = IF First(r) <= t THEN t - First(r) ELSE t - First(r) + SeqModulus
  BY <1>1, <1>2, Subtract DEF Since
<1>5. Since(r, t) = Since(r, s) + 1
  BY <1>1, <1>2, <1>3, <1>4 DEF Sequences
<1> QED BY <1>5 DEF t

(* The unsigned difference of two sequence numbers counts the transitions  *)
(* between them, when the second is the later one.                         *)
LEMMA SinceDifference ==
  ASSUME NEW r \in 0 .. MaxRestarts, NEW s \in Sequences, NEW t \in Sequences,
         Since(r, t) <= Since(r, s)
  PROVE  (s - t) % SeqModulus = Since(r, s) - Since(r, t)
<1>1. First(r) \in Sequences /\ SeqModulus \in Nat
  BY Constants
<1>2. Since(r, s) = IF First(r) <= s THEN s - First(r) ELSE s - First(r) + SeqModulus
  BY <1>1, Subtract DEF Since
<1>3. Since(r, t) = IF First(r) <= t THEN t - First(r) ELSE t - First(r) + SeqModulus
  BY <1>1, Subtract DEF Since
<1>4. (s - t) % SeqModulus = IF t <= s THEN s - t ELSE s - t + SeqModulus
  BY Subtract
<1> QED BY <1>1, <1>2, <1>3, <1>4 DEF Sequences

(* A slot is no further than the transitions the runtimes have made.       *)
RuntimeInv ==
  /\ transitions <= MaxTransitions
  /\ \A r \in 0 .. MaxRestarts : Since(r, slots[r]) <= transitions

(* Before there is a publisher nothing is known.                           *)
StartInv ==
  /\ main \in {"starting", "opened", "configured", "failed"} <=> at = "none"
  /\ at = "none" =>
       ~have_sequence /\ ~fresh /\ nodes.status = "Unwritten"

(* The safety sequences the publisher holds, by how many transitions the   *)
(* runtime had made: none is ahead of the slot, none is behind one it held *)
(* before, and what was announced or not sent lies between.                *)
OrderInv ==
  /\ have_sequence =>
       /\ Age(seed) <= Age(last_sequence)
       /\ Age(last_sequence) <= Age(slots[mapped])
       /\ told + unsent = Age(last_sequence) - Age(seed)
  /\ fresh =>
       /\ snapshot.region = mapped
       /\ Age(snapshot.sequence) <= Age(slots[mapped])
       /\ have_sequence => Age(last_sequence) <= Age(snapshot.sequence)
  /\ nodes.status = "Good" =>
       /\ nodes.value.region = mapped
       /\ Age(nodes.value.sequence) <= Age(slots[mapped])
       /\ have_sequence => Age(last_sequence) <= Age(nodes.value.sequence)
       /\ (fresh /\ at = "loaded") => Age(nodes.value.sequence) <= Age(snapshot.sequence)
       /\ at # "loaded" => fresh /\ nodes.value = snapshot
  /\ at = "compare" =>
       nodes = [status |-> IF fresh THEN "Good" ELSE "BadNoData", value |-> snapshot]
  /\ ~have_sequence => told = 0 /\ unsent = 0

(* A stamp that is there stays there, from the slot to what is shown.      *)
StampInv ==
  /\ (fresh /\ snapshot.stamped) => stamped[mapped]
  /\ (nodes.status = "Good" /\ nodes.value.stamped) =>
       stamped[mapped] /\ ((fresh /\ at = "loaded") => snapshot.stamped)

(* No stamp the probe holds is ahead of what it could have been shown.     *)
Seen(x) ==
  /\ x <= Stamp(Current)
  /\ (fresh /\ at = "loaded") => x <= Stamp(snapshot)
  /\ nodes.status = "Good" => x <= Stamp(nodes.value)

Monitoring == probe \in {"monitoring", "listening"}

(* What the probe has measured is not ahead of what it was shown last, and *)
(* what waits to be delivered is not behind it.                            *)
MeasureInv ==
  /\ g_last_transition \in Nat /\ opening \in Nat /\ g_latencies \in Seq(Nat)
  /\ g_had_initial \in BOOLEAN
  /\ at = "none" => ~Monitoring
  /\ Seen(g_last_transition) /\ Seen(opening)
  /\ pending.status = "Good" =>
       /\ pending.stamp \in Nat
       /\ Seen(pending.stamp)
       /\ g_last_transition <= pending.stamp /\ opening <= pending.stamp
  /\ g_had_initial => opening <= g_last_transition
  /\ ~g_had_initial => g_last_transition = 0 /\ g_latencies = <<>>
  /\ \A i \in 1 .. Len(g_latencies) : g_latencies[i] <= g_last_transition
  /\ ~Monitoring => pending = NoValue /\ ~g_had_initial /\ opening = 0

(* What was announced to a listening probe and has not reached it is in    *)
(* its queue.                                                              *)
QueueInv ==
  /\ queue \in Seq(Nat \ {0})
  /\ told_before \in Nat /\ lost \in Nat
  /\ g_events_received \in Nat /\ g_events_coalesced_by_server \in Nat
  /\ probe # "listening" =>
       /\ queue = <<>>
       /\ g_events_received = 0 /\ g_events_coalesced_by_server = 0 /\ lost = 0
  /\ probe = "listening" =>
       QueueHolds(told - told_before
                    - (g_events_received + g_events_coalesced_by_server + lost))

(* An event stands for at least one transition.                            *)
LEMMA EventCount ==
  ASSUME TypeOK, Fire
  PROVE  /\ told' \in Nat /\ unsent' \in Nat /\ told <= told'
         /\ told' + unsent' = told + unsent + (1 + missedTransitions(snapshot.sequence, last_sequence))
<1>1. snapshot.sequence \in Sequences /\ last_sequence \in Sequences /\ told \in Nat /\ unsent \in Nat
  BY DEF TypeOK, Snapshots
<1>2. (snapshot.sequence - last_sequence) % SeqModulus \in Nat
  BY <1>1, Subtract, Constants DEF Sequences
<1>3. missedTransitions(snapshot.sequence, last_sequence) \in Nat
  BY <1>2 DEF missedTransitions
<1> DEFINE count == 1 + missedTransitions(snapshot.sequence, last_sequence)
<1>4. PICK sent \in {0, 1, count} : told' = told + sent /\ unsent' = unsent + count - sent
  BY DEF Fire, fireSafetyTransition
<1>5. count \in Nat /\ count >= 1
  BY <1>3
<1> HIDE DEF count
<1>6. told' \in Nat /\ unsent' \in Nat /\ told <= told' /\ told' + unsent' = told + unsent + count
  BY <1>1, <1>4, <1>5
<1> QED BY <1>6 DEF count

(* Every step of the server and of the runtime keeps the types.            *)
LEMMA PublisherType ==
  ASSUME TypeOK, [Next]_vars
  PROVE  TypeOK'
<1> USE DEF TypeOK
<1>1. CASE Transition
  <2>1. (slots[region] + 1) % SeqModulus \in Sequences
    BY Following
  <2>2. /\ slots' \in [0 .. MaxRestarts -> Sequences] /\ transitions' \in Nat
        /\ stamped' \in [0 .. MaxRestarts -> BOOLEAN]
    BY <1>1, <2>1 DEF Transition
  <2> QED BY <1>1, <2>2 DEF Transition, publisher, process, history
<1>2. CASE Restart
  BY <1>2, Constants DEF Restart, publisher, process, history
<1>30. CASE FirstCycle
  BY <1>30 DEF FirstCycle, publisher, process, history
<1>3. CASE Signal
  BY <1>3 DEF Signal, runtime, publisher, history
<1>4. CASE LoadFresh
  <2>1. snapshot' \in Snapshots
    BY <1>4 DEF LoadFresh, Snapshots, Current
  <2> QED BY <1>4, <2>1 DEF LoadFresh, runtime, process, history
<1>5. CASE LoadCollides
  <2>1. snapshot' \in Snapshots /\ collisions' \in Nat
    BY <1>5, Constants DEF LoadCollides, Snapshots, NoSnapshot
  <2> QED BY <1>5, <2>1 DEF LoadCollides, runtime, process, history
<1>6. CASE PublishSnapshot
  BY <1>6 DEF PublishSnapshot, Status, runtime, publisher, process, history
<1>7. CASE Seed
  BY <1>7 DEF Seed, Snapshots, runtime, process
<1>8. CASE Fire
  <2>1. told' \in Nat /\ unsent' \in Nat
    BY <1>8, EventCount
  <2> QED BY <1>8, <2>1 DEF Fire, Snapshots, runtime, process
<1>9. CASE Quiet \/ EndPublisher
  BY <1>9 DEF Quiet, EndPublisher, runtime, publisher, process, history
<1>10. CASE OpenRegion \/ StartPublisher \/ StartFails \/ MainDeletes
  BY <1>10 DEF OpenRegion, StartPublisher, StartFails, MainDeletes, runtime, publisher, history
<1>11. CASE EndService
  BY <1>11 DEF EndService, runtime, publisher, history
<1>12. CASE ConfigureSecurity
  <2>1. main' \in {"failed", "configured"}
    BY <1>12 DEF ConfigureSecurity
  <2> QED BY <1>12, <2>1 DEF ConfigureSecurity, runtime, publisher, history
<1>13. CASE UNCHANGED vars
  BY <1>13 DEF vars, runtime, publisher, process, history
<1> QED BY <1>1, <1>2, <1>3, <1>30, <1>4, <1>5, <1>6, <1>7, <1>8, <1>9, <1>10, <1>11, <1>12, <1>13
        DEF Next, Publisher, Main, MainStops, ServerFault

(* No sequence wraps round to its first within the transitions there are.  *)
LEMMA RuntimeStep ==
  ASSUME TypeOK, RuntimeInv, [Next]_vars
  PROVE  /\ RuntimeInv'
         /\ \A r \in 0 .. MaxRestarts : Since(r, slots[r]) <= Since(r, slots'[r])
<1>0. /\ transitions \in Nat /\ MaxTransitions \in Nat /\ MaxTransitions <= SeqModulus - 1
      /\ SeqModulus \in Nat /\ transitions <= MaxTransitions
      /\ \A r \in 0 .. MaxRestarts : slots[r] \in Sequences /\ Since(r, slots[r]) \in Nat
      /\ \A r \in 0 .. MaxRestarts : Since(r, slots[r]) <= transitions
  BY Constants, SinceType DEF TypeOK, RuntimeInv
<1>1. CASE Transition
  <2>1. /\ transitions < MaxTransitions /\ transitions' = transitions + 1
        /\ region \in 0 .. MaxRestarts
        /\ slots'[region] = (slots[region] + 1) % SeqModulus
        /\ \A r \in 0 .. MaxRestarts : r # region => slots'[r] = slots[r]
    BY <1>1 DEF Transition, TypeOK
  <2>2. Since(region, slots'[region]) = Since(region, slots[region]) + 1
    BY <1>0, <2>1, SinceNext
  <2>3. ASSUME NEW r \in 0 .. MaxRestarts
        PROVE  /\ Since(r, slots'[r]) <= transitions'
               /\ Since(r, slots[r]) <= Since(r, slots'[r])
    <3>1. CASE r = region
      BY <1>0, <2>1, <2>2, <3>1
    <3>2. CASE r # region
      BY <1>0, <2>1, <3>2
    <3> QED BY <3>1, <3>2
  <2>4. transitions' <= MaxTransitions
    BY <1>0, <2>1
  <2> QED BY <2>3, <2>4 DEF RuntimeInv
<1>2. CASE UNCHANGED <<slots, transitions>>
  BY <1>0, <1>2 DEF RuntimeInv
<1> QED BY <1>1, <1>2
        DEF Next, FirstCycle, Restart, Signal, ServerFault, Publisher, Main, LoadFresh, LoadCollides,
            PublishSnapshot, Seed, Fire, Quiet, EndPublisher, OpenRegion, StartPublisher,
            StartFails, MainStops, EndService, MainDeletes, ConfigureSecurity, vars, runtime

(* Nothing is known until the publisher thread is started.                 *)
LEMMA StartStep ==
  ASSUME TypeOK, StartInv, [Next]_vars
  PROVE  StartInv'
<1> USE DEF StartInv
<1>1. CASE FirstCycle \/ Transition \/ Restart \/ Signal \/ Quiet \/ EndPublisher \/ UNCHANGED vars
  BY <1>1 DEF TypeOK, FirstCycle, Transition, Restart, Signal, Quiet, EndPublisher, vars, publisher,
       process
<1>2. CASE LoadFresh \/ LoadCollides \/ PublishSnapshot
  BY <1>2 DEF LoadFresh, LoadCollides, PublishSnapshot, process
<1>3. CASE Seed \/ Fire
  BY <1>3 DEF Seed, Fire, process
<1>4. CASE OpenRegion \/ StartPublisher \/ StartFails \/ EndService \/ MainDeletes
  BY <1>4 DEF OpenRegion, StartPublisher, StartFails, EndService, MainDeletes, publisher
<1>5. CASE ConfigureSecurity
  <2>1. main' \in {"failed", "configured"} /\ main = "opened"
    BY <1>5 DEF ConfigureSecurity
  <2> QED BY <1>5, <2>1 DEF ConfigureSecurity, publisher
<1> QED BY <1>1, <1>2, <1>3, <1>4, <1>5 DEF Next, Publisher, Main, MainStops, ServerFault

(* Every step keeps the order of what was published, loaded, shown and     *)
(* announced.                                                              *)
LEMMA OrderStep ==
  ASSUME TypeOK, RuntimeInv, StartInv, OrderInv, [Next]_vars
  PROVE  OrderInv'
<1>1. /\ mapped \in 0 .. MaxRestarts /\ snapshot.sequence \in Sequences
      /\ slots[mapped] \in Sequences
      /\ last_sequence \in Sequences /\ seed \in Sequences
      /\ nodes.value.sequence \in Sequences /\ nodes.value.region \in Nat
      /\ told \in Nat /\ unsent \in Nat /\ nodes.status \in {"Unwritten", "Good", "BadNoData"}
  BY DEF TypeOK, Snapshots
<1>2. \A s \in Sequences : Age(s) \in Nat
  BY <1>1, SinceType DEF Age
<1>3. Since(mapped, slots[mapped]) <= Since(mapped, slots'[mapped])
  BY <1>1, RuntimeStep
<1>30. slots'[mapped] \in Sequences
  BY <1>1, PublisherType DEF TypeOK
<1>4. CASE FirstCycle \/ Transition \/ Restart \/ Signal \/ UNCHANGED vars
  <2>1. UNCHANGED <<mapped, at, publisher, nodes, history>>
    BY <1>4 DEF FirstCycle, Transition, Restart, Signal, vars
  <2>2. Age(slots[mapped]) <= Age(slots[mapped])' /\ (Age(slots[mapped]))' \in Nat
    BY <1>1, <1>3, <1>30, <2>1, SinceType DEF Age
  <2>3. \A s \in Sequences : Age(s)' = Age(s)
    BY <2>1 DEF Age
  <2> QED BY <1>1, <1>2, <1>3, <2>1, <2>2, <2>3 DEF OrderInv, publisher, history
<1>5. ASSUME UNCHANGED <<mapped, slots>>
      PROVE  /\ \A s \in Sequences : Age(s)' = Age(s)
             /\ Age(slots[mapped])' = Age(slots[mapped]) /\ Age(slots[mapped]) \in Nat
  BY <1>1, <1>2, <1>5 DEF Age
<1>6. CASE LoadFresh
  <2>1. /\ UNCHANGED <<mapped, slots, have_sequence, last_sequence, nodes, seed, told, unsent>>
        /\ fresh' /\ at' = "loaded" /\ snapshot'.region = mapped
        /\ snapshot'.sequence = slots[mapped]
    BY <1>6 DEF LoadFresh, Current, runtime, history
  <2> QED BY <1>1, <1>2, <1>5, <2>1 DEF OrderInv
<1>7. CASE LoadCollides
  <2>1. /\ UNCHANGED <<mapped, slots, have_sequence, last_sequence, nodes, seed, told, unsent>>
        /\ ~fresh' /\ at' = "loaded"
    BY <1>7 DEF LoadCollides, runtime, history
  <2> QED BY <1>1, <1>2, <1>5, <2>1 DEF OrderInv
<1>8. CASE PublishSnapshot
  <2>1. /\ UNCHANGED <<mapped, slots, have_sequence, last_sequence, seed, told, unsent,
                       snapshot, fresh>>
        /\ at = "loaded" /\ at' = "compare"
        /\ nodes' = [status |-> IF fresh THEN "Good" ELSE "BadNoData", value |-> snapshot]
    BY <1>8 DEF PublishSnapshot, Status, runtime, publisher, history
  <2>2. /\ nodes'.status = "Good" => fresh
        /\ nodes'.value = snapshot
    BY <2>1
  <2> QED BY <1>1, <1>2, <1>5, <2>1, <2>2 DEF OrderInv
<1>9. CASE Seed
  <2>1. /\ UNCHANGED <<mapped, slots, nodes, told, unsent, snapshot, fresh>>
        /\ at = "compare" /\ at' = "head" /\ fresh /\ ~have_sequence /\ have_sequence'
        /\ last_sequence' = snapshot.sequence /\ seed' = snapshot.sequence
    BY <1>9 DEF Seed, runtime
  <2>2. nodes.value = snapshot
    <3>1. nodes = [status |-> "Good", value |-> snapshot]
      BY <2>1 DEF OrderInv
    <3> QED BY <3>1
  <2> QED BY <1>1, <1>2, <1>5, <2>1, <2>2 DEF OrderInv
<1>10. CASE Fire
  <2>1. /\ UNCHANGED <<mapped, slots, nodes, seed, snapshot, fresh, have_sequence>>
        /\ at = "compare" /\ at' = "head" /\ fresh /\ have_sequence
        /\ last_sequence' = snapshot.sequence /\ snapshot.sequence # last_sequence
    BY <1>10 DEF Fire, Changed, runtime
  <2>2. nodes.value = snapshot
    BY <2>1 DEF OrderInv
  <2>3. Age(last_sequence) <= Age(snapshot.sequence)
    BY <2>1 DEF OrderInv
  <2>4. (snapshot.sequence - last_sequence) % SeqModulus = Age(snapshot.sequence) - Age(last_sequence)
    BY <1>1, <2>3, SinceDifference DEF Age
  <2>5. (snapshot.sequence - last_sequence) % SeqModulus # 0
    <3> DEFINE p == snapshot.sequence
               q == last_sequence
    <3>1. p \in 0 .. SeqModulus - 1 /\ q \in 0 .. SeqModulus - 1 /\ p # q /\ SeqModulus \in Nat
      BY <1>1, <2>1, Constants DEF Sequences
    <3>2. (p - q) % SeqModulus = IF q <= p THEN p - q ELSE p - q + SeqModulus
      BY <1>1, Subtract
    <3> HIDE DEF p, q
    <3>3. (p - q) % SeqModulus # 0
      BY <3>1, <3>2
    <3> QED BY <3>3 DEF p, q
  <2>6. 1 + missedTransitions(snapshot.sequence, last_sequence) = Age(snapshot.sequence) - Age(last_sequence)
    BY <1>1, <1>2, <2>3, <2>4, <2>5 DEF missedTransitions
  <2>7. /\ told' \in Nat /\ unsent' \in Nat
        /\ told' + unsent' = told + unsent + (Age(snapshot.sequence) - Age(last_sequence))
    BY <1>10, <2>6, EventCount
  <2> QED BY <1>1, <1>2, <1>5, <2>1, <2>2, <2>3, <2>7 DEF OrderInv
<1>11. CASE Quiet \/ EndPublisher
  <2>1. /\ UNCHANGED <<mapped, slots, publisher, nodes, history>>
        /\ at # "loaded" /\ at' \in {"head", "ended"}
    BY <1>11 DEF Quiet, EndPublisher, runtime
  <2> QED BY <1>1, <1>5, <2>1 DEF OrderInv, publisher, history
<1>12. CASE OpenRegion
  <2>1. at = "none" /\ at' = at /\ UNCHANGED <<publisher, nodes, history>>
    BY <1>12 DEF OpenRegion, StartInv
  <2>2. ~have_sequence /\ ~fresh /\ nodes.status # "Good"
    BY <2>1 DEF StartInv
  <2> QED BY <2>1, <2>2 DEF OrderInv, publisher, history
<1>13. CASE StartPublisher \/ StartFails \/ EndService \/ MainDeletes \/ ConfigureSecurity
  <2>1. /\ UNCHANGED <<mapped, slots, publisher, nodes, history>>
        /\ at' = at \/ (at' = "head" /\ main = "configured")
    BY <1>13 DEF StartPublisher, StartFails, EndService, MainDeletes, ConfigureSecurity, runtime
  <2>2. main = "configured" => nodes.status # "Good"
    BY DEF StartInv
  <2> QED BY <1>1, <1>5, <2>1, <2>2 DEF OrderInv, publisher, history
<1> QED BY <1>4, <1>6, <1>7, <1>8, <1>9, <1>10, <1>11, <1>12, <1>13
        DEF Next, Publisher, Main, MainStops, ServerFault

(* The probe changes nothing of the server.                                *)
LEMMA ProbeLeavesServer == [ProbeNext]_all => [Next]_vars
BY DEF ProbeNext, Server, Serve, FireTo, Stack, SampleItem, DeliverData, DeliverEvent, Connect,
       MonitorData, MonitorEvents, Exit, Next, Publisher, Main, all

(* A count that has grown, in the form the event queue needs.              *)
LEMMA Increase ==
  ASSUME NEW m \in Nat, NEW n \in Nat, n > m
  PROVE  n - m \in Nat \ {0} /\ n = m + (n - m)
OBVIOUS

(* Only an event that is fired changes what has been told.                 *)
LEMMA ToldStep ==
  ASSUME TypeOK, QueueInv, [ProbeNext]_all
  PROVE  QueueInv'
<1>0. told \in Nat
  BY DEF TypeOK
<1>1. ASSUME UNCHANGED <<told, queue, told_before, lost, g_events_received,
                         g_events_coalesced_by_server>>,
             (probe = "listening") = (probe' = "listening")
      PROVE  QueueInv'
  BY <1>1 DEF QueueInv, QueueHolds
<1>2. CASE Server /\ UNCHANGED client
  <2>1. told' = told
    BY <1>2 DEF Server, FirstCycle, Transition, Restart, Signal, ServerFault, LoadFresh, LoadCollides,
         PublishSnapshot, Seed, Quiet, EndPublisher, OpenRegion, StartFails, MainStops,
         EndService, MainDeletes, ConfigureSecurity, history
  <2> QED BY <1>1, <1>2, <2>1 DEF client, monitored, globals, noted
<1>3. CASE Serve \/ SampleItem \/ DeliverData \/ Connect \/ MonitorData \/ UNCHANGED all
  BY <1>1, <1>3 DEF Serve, StartPublisher, SampleItem, DeliverData, Connect, MonitorData, all,
       vars, client, monitored, globals, noted, history
<1>4. CASE Exit
  BY <1>4 DEF Exit, QueueInv
<1>5. CASE MonitorEvents
  <2>1. /\ queue' = <<>> /\ told' = told /\ told_before' = told /\ probe' = "listening"
        /\ lost' = 0 /\ g_events_received' = 0 /\ g_events_coalesced_by_server' = 0
    BY <1>5 DEF MonitorEvents, QueueInv, vars, history, monitored, globals
  <2>2. QueueHolds(0)'
    <3> DEFINE left == [i \in 0 .. 0 |-> 0]
    <3>1. left \in [0 .. Len(queue') -> 0 .. told'] /\ left[0] = 0 /\ left[Len(queue')] = 0
      BY <1>0, <2>1
    <3>2. \A i \in 1 .. Len(queue') : left[i - 1] = left[i] + queue'[i]
      BY <2>1
    <3> QED BY <3>1, <3>2 DEF QueueHolds
  <2>3. told' - told_before' - (g_events_received' + g_events_coalesced_by_server' + lost') = 0
    BY <1>0, <2>1
  <2> QED BY <1>0, <2>1, <2>2, <2>3 DEF QueueInv
<1>6. CASE DeliverEvent
  <2>1. /\ queue # <<>> /\ queue' = Tail(queue) /\ probe = "listening" /\ probe' = probe
        /\ g_events_received' = g_events_received + 1
        /\ g_events_coalesced_by_server' = g_events_coalesced_by_server + Head(queue) - 1
        /\ UNCHANGED <<told, told_before, lost>>
    BY <1>6 DEF DeliverEvent, vars, history, noted
  <2>2. /\ queue \in Seq(Nat \ {0}) /\ told_before \in Nat /\ lost \in Nat
        /\ g_events_received \in Nat /\ g_events_coalesced_by_server \in Nat
    BY DEF QueueInv
  <2>3. /\ Len(queue) \in Nat \ {0} /\ Head(queue) \in Nat \ {0} /\ Head(queue) = queue[1]
        /\ queue' \in Seq(Nat \ {0}) /\ Len(queue') = Len(queue) - 1
        /\ \A i \in 1 .. Len(queue') : queue'[i] = queue[i + 1]
    BY <2>1, <2>2
  <2> DEFINE sum == told - told_before
                      - (g_events_received + g_events_coalesced_by_server + lost)
  <2>4. sum \in Int /\ sum' = sum - Head(queue)
    <3>1. /\ sum \in Int
          /\ told - told_before - ((g_events_received + 1)
              + (g_events_coalesced_by_server + Head(queue) - 1) + lost) = sum - Head(queue)
      <4>1. Head(queue) \in Nat
        BY <2>3
      <4>2. /\ told \in Nat /\ told_before \in Nat /\ lost \in Nat
            /\ g_events_received \in Nat /\ g_events_coalesced_by_server \in Nat
        BY <1>0, <2>2
      <4> QED BY <4>1, <4>2
    <3> QED BY <2>1, <3>1
  <2>5. PICK left \in [0 .. Len(queue) -> 0 .. told] :
          /\ left[0] = sum /\ left[Len(queue)] = 0
          /\ \A i \in 1 .. Len(queue) : left[i - 1] = left[i] + queue[i]
    <3>1. QueueHolds(sum)
      BY <2>1 DEF QueueInv
    <3> HIDE DEF sum
    <3> QED BY <3>1, Zenon DEF QueueHolds
  <2>6. \E after \in [0 .. Len(queue') -> 0 .. told'] :
          /\ after[0] = sum - Head(queue) /\ after[Len(queue')] = 0
          /\ \A i \in 1 .. Len(queue') : after[i - 1] = after[i] + queue'[i]
    <3> HIDE DEF sum
    <3> DEFINE after == [i \in 0 .. Len(queue') |-> left[i + 1]]
    <3>1. \A i \in 0 .. Len(queue) : left[i] \in 0 .. told
      BY <2>5
    <3>2. after \in [0 .. Len(queue') -> 0 .. told']
      BY <2>1, <2>3, <3>1
    <3>3. after[0] = left[1] /\ after[Len(queue')] = left[Len(queue)]
      BY <2>3
    <3>4. left[1] = sum - Head(queue)
      BY <1>0, <2>3, <2>5, <2>4, <3>1
    <3>5. ASSUME NEW i \in 1 .. Len(queue') PROVE after[i - 1] = after[i] + queue'[i]
      <4>1. i + 1 \in 1 .. Len(queue) /\ queue'[i] = queue[i + 1] /\ (i + 1) - 1 = i
        BY <2>3
      <4>2. left[i] = left[i + 1] + queue[i + 1]
        BY <2>5, <4>1
      <4>3. after[i - 1] = left[i] /\ after[i] = left[i + 1]
        BY <2>3
      <4> QED BY <4>1, <4>2, <4>3
    <3>6. after[0] = sum - Head(queue) /\ after[Len(queue')] = 0
      BY <2>5, <3>3, <3>4
    <3> HIDE DEF after
    <3>7. \A i \in 1 .. Len(queue') : after[i - 1] = after[i] + queue'[i]
      BY <3>5
    <3> QED BY <3>2, <3>6, <3>7
  <2>7. QueueHolds(sum)'
    BY <2>4, <2>6 DEF QueueHolds
  <2>8. g_events_received' \in Nat /\ g_events_coalesced_by_server' \in Nat
    BY <2>1, <2>2, <2>3
  <2> QED BY <2>1, <2>2, <2>3, <2>7, <2>8 DEF QueueInv
<1>7. CASE FireTo
  <2>1. told' \in Nat /\ told <= told'
    BY <1>7, EventCount DEF FireTo
  <2>2. /\ UNCHANGED <<told_before, g_events_received, g_events_coalesced_by_server, probe>>
        /\ IF probe = "listening" /\ told' > told THEN Enqueue(told' - told)
           ELSE UNCHANGED <<queue, lost>>
    BY <1>7 DEF FireTo, globals
  <2>3. /\ queue \in Seq(Nat \ {0}) /\ told_before \in Nat /\ lost \in Nat
        /\ g_events_received \in Nat /\ g_events_coalesced_by_server \in Nat
    BY DEF QueueInv
  <2>4. CASE ~(probe = "listening" /\ told' > told)
    BY <1>0, <1>1, <2>1, <2>2, <2>4 DEF QueueInv
  <2> DEFINE count == told' - told
             sum == told - told_before
                      - (g_events_received + g_events_coalesced_by_server + lost)
  <2>5. CASE probe = "listening" /\ told' > told
    <3>2. count \in Nat \ {0} /\ told' = told + count /\ sum \in Int
      <4>1. told \in Nat /\ told' \in Nat /\ told' > told
        BY <1>0, <2>1, <2>5
      <4>2. sum \in Int
        BY <1>0, <2>3
      <4>3. told' - told \in Nat \ {0} /\ told' = told + (told' - told)
        BY <4>1, Increase
      <4> QED BY <4>2, <4>3, Zenon
    <3>0. QueueHolds(sum)
      BY <2>5 DEF QueueInv
    <3>1. PICK left \in [0 .. Len(queue) -> 0 .. told] :
            /\ left[0] = sum /\ left[Len(queue)] = 0
            /\ \A i \in 1 .. Len(queue) : left[i - 1] = left[i] + queue[i]
      <4> HIDE DEF sum
      <4> QED BY <3>0 DEF QueueHolds
    <3>3. \A i \in 0 .. Len(queue) : left[i] \in 0 .. told
      BY <3>1
    <3>4. CASE Len(queue) < QueueSize
      <4>1. queue' = Append(queue, count) /\ lost' = lost
        BY <2>2, <2>5, <3>4 DEF Enqueue
      <4>2. sum' = sum + count
        BY <1>0, <2>2, <2>3, <3>2, <4>1
      <4> HIDE DEF count, sum
      <4>3. /\ queue' \in Seq(Nat \ {0}) /\ Len(queue') = Len(queue) + 1 /\ Len(queue) \in Nat
            /\ \A i \in 1 .. Len(queue) : queue'[i] = queue[i]
            /\ queue'[Len(queue) + 1] = count
        BY <2>3, <3>2, <4>1
      <4> DEFINE after == [i \in 0 .. Len(queue') |-> IF i <= Len(queue) THEN left[i] + count ELSE 0]
      <4>4. after \in [0 .. Len(queue') -> 0 .. told']
        BY <1>0, <3>2, <3>3, <4>3
      <4>5. after[0] = sum + count /\ after[Len(queue')] = 0
        BY <3>1, <4>3
      <4>6. ASSUME NEW i \in 1 .. Len(queue') PROVE after[i - 1] = after[i] + queue'[i]
        <5>1. CASE i = Len(queue')
          <6>1. after[i - 1] = left[Len(queue)] + count /\ after[i] = 0 /\ queue'[i] = count
            BY <4>3, <5>1
          <6> QED BY <3>1, <3>2, <6>1
        <5>2. CASE i # Len(queue')
          <6>1. i \in 1 .. Len(queue) /\ i - 1 \in 0 .. Len(queue)
            BY <4>3, <5>2
          <6>2. /\ after[i - 1] = left[i - 1] + count /\ after[i] = left[i] + count
                /\ left[i - 1] = left[i] + queue[i] /\ queue'[i] = queue[i]
            BY <3>1, <4>3, <6>1
          <6>3. left[i] \in Nat /\ queue[i] \in Nat
            BY <1>0, <2>3, <3>3, <6>1
          <6> QED BY <3>2, <6>2, <6>3
        <5> QED BY <5>1, <5>2
      <4> HIDE DEF after
      <4>7. \E f \in [0 .. Len(queue') -> 0 .. told'] :
              /\ f[0] = sum' /\ f[Len(queue')] = 0
              /\ \A i \in 1 .. Len(queue') : f[i - 1] = f[i] + queue'[i]
        BY <4>2, <4>4, <4>5, <4>6
      <4> QED BY <2>2, <2>3, <2>5, <4>1, <4>3, <4>7 DEF QueueInv, QueueHolds, sum
    <3>5. CASE ~(Len(queue) < QueueSize)
      <4>1. queue' = queue /\ lost' = lost + count
        BY <2>2, <2>5, <3>5 DEF Enqueue
      <4>2. sum' = sum /\ lost' \in Nat
        BY <1>0, <2>2, <2>3, <3>2, <4>1
      <4>3. left \in [0 .. Len(queue') -> 0 .. told']
        <5>1. 0 .. told \subseteq 0 .. told'
          BY <1>0, <2>1
        <5> QED BY <4>1, <5>1
      <4>4. QueueHolds(sum)'
        BY <3>1, <4>1, <4>2, <4>3 DEF QueueHolds
      <4> QED BY <2>2, <2>3, <2>5, <4>1, <4>2, <4>4 DEF QueueInv
    <3> QED BY <3>4, <3>5
  <2> QED BY <2>4, <2>5
<1> QED BY <1>2, <1>3, <1>4, <1>5, <1>6, <1>7 DEF ProbeNext, Stack

(* No stamp is taken back.                                                 *)
LEMMA StampStep ==
  ASSUME TypeOK, StartInv, StampInv, [Next]_vars
  PROVE  /\ StampInv'
         /\ \A r \in 0 .. MaxRestarts : stamped[r] => stamped'[r]
<1>1. mapped \in 0 .. MaxRestarts /\ stamped \in [0 .. MaxRestarts -> BOOLEAN]
  BY DEF TypeOK
<1>2. \A r \in 0 .. MaxRestarts : stamped[r] => stamped'[r]
  <2>1. CASE FirstCycle \/ Transition
    BY <1>1, <2>1 DEF FirstCycle, Transition
  <2>2. CASE UNCHANGED stamped
    BY <2>2
  <2> QED BY <2>1, <2>2
        DEF Next, Restart, Signal, ServerFault, Publisher, Main, LoadFresh, LoadCollides,
            PublishSnapshot, Seed, Fire, Quiet, EndPublisher, OpenRegion, StartPublisher,
            StartFails, MainStops, EndService, MainDeletes, ConfigureSecurity, vars, runtime
<1>3. CASE OpenRegion
  <2>1. ~fresh' /\ nodes'.status # "Good"
    BY <1>3 DEF OpenRegion, StartInv, publisher
  <2> QED BY <1>2, <2>1 DEF StampInv
<1>4. CASE UNCHANGED mapped
  <2>1. stamped[mapped] => stamped'[mapped']
    BY <1>1, <1>2, <1>4
  <2>2. CASE LoadFresh
    <3>1. snapshot'.stamped = stamped[mapped] /\ nodes' = nodes
      BY <2>2 DEF LoadFresh, Current
    <3> QED BY <1>2, <2>1, <3>1 DEF StampInv
  <2>3. CASE PublishSnapshot
    <3>1. /\ at' = "compare" /\ nodes'.value = snapshot /\ UNCHANGED <<snapshot, fresh>>
          /\ nodes'.status = "Good" => fresh
      BY <2>3 DEF PublishSnapshot, Status, publisher
    <3> QED BY <1>2, <2>1, <3>1 DEF StampInv
  <2>4. CASE \/ UNCHANGED <<at, fresh, snapshot, nodes>>
             \/ UNCHANGED <<fresh, snapshot, nodes>> /\ at' # "loaded"
             \/ UNCHANGED nodes /\ ~fresh'
    BY <1>2, <2>1, <2>4 DEF StampInv
  <2> QED BY <2>2, <2>3, <2>4
        DEF Next, FirstCycle, Transition, Restart, Signal, ServerFault, Publisher, Main,
            LoadCollides, Seed, Fire, Quiet, EndPublisher, OpenRegion, StartPublisher,
            StartFails, MainStops, EndService, MainDeletes, ConfigureSecurity, vars, publisher
<1> QED BY <1>3, <1>4
      DEF Next, FirstCycle, Transition, Restart, Signal, ServerFault, Publisher, Main, LoadFresh,
          LoadCollides, PublishSnapshot, Seed, Fire, Quiet, EndPublisher, StartPublisher,
          StartFails, MainStops, EndService, MainDeletes, ConfigureSecurity, vars

(* The order of stamps, where the region stays the same.                   *)
LEMMA StampOrder ==
  ASSUME mapped \in 0 .. MaxRestarts, NEW v \in Snapshots, NEW w \in Snapshots,
         Age(v.sequence) <= Age(w.sequence), v.stamped => w.stamped
  PROVE  Stamp(v) \in Nat /\ Stamp(w) \in Nat /\ Stamp(v) <= Stamp(w)
<1>1. v.sequence \in Sequences /\ w.sequence \in Sequences
  BY DEF Snapshots
<1>2. Age(v.sequence) \in Nat /\ Age(w.sequence) \in Nat
  BY <1>1, SinceType DEF Age
<1> QED BY <1>2 DEF Stamp

(* What the probe may have been shown stays below what it can be shown.    *)
LEMMA SeenStep ==
  ASSUME TypeOK, RuntimeInv, StartInv, OrderInv, StampInv, [Next]_vars,
         NEW x \in Nat, Seen(x), at = "none" => x = 0
  PROVE  /\ x <= Stamp(Current)'
         /\ (fresh /\ at = "loaded")' => x <= Stamp(snapshot)'
         /\ (nodes.status = "Good")' => x <= Stamp(nodes.value)'
<1>1. /\ mapped \in 0 .. MaxRestarts /\ snapshot \in Snapshots /\ nodes.value \in Snapshots
      /\ Current \in Snapshots /\ slots[mapped] \in Sequences
      /\ Current.sequence = slots[mapped] /\ Current.stamped = stamped[mapped]
  BY DEF TypeOK, Snapshots, Current
<1>2. /\ mapped' \in 0 .. MaxRestarts /\ Current' \in Snapshots
      /\ Current'.sequence = slots'[mapped'] /\ Current'.stamped = stamped'[mapped']
  BY PublisherType DEF TypeOK, Snapshots, Current
<1>3. CASE UNCHANGED mapped
  <2>1. \A s : Age(s)' = Age(s)
    BY <1>3 DEF Age
  <2>2. Stamp(Current)' = Stamp(Current') /\ Stamp(snapshot)' = Stamp(snapshot')
        /\ Stamp(nodes.value)' = Stamp(nodes'.value)
    BY <2>1 DEF Stamp
  <2>3. x <= Stamp(Current')
    <3>1. Age(Current.sequence) <= Age(Current'.sequence)
      BY <1>1, <1>2, <1>3, RuntimeStep DEF Age
    <3>2. Current.stamped => Current'.stamped
      BY <1>1, <1>2, <1>3, StampStep
    <3>3. Stamp(Current) \in Nat /\ Stamp(Current') \in Nat /\ Stamp(Current) <= Stamp(Current')
      BY <1>1, <1>2, <3>1, <3>2, StampOrder
    <3> QED BY <3>3 DEF Seen
  <2>4. CASE LoadFresh
    <3>1. snapshot' = Current /\ nodes' = nodes
      BY <2>4 DEF LoadFresh
    <3> QED BY <2>2, <2>3, <3>1 DEF Seen
  <2>5. CASE PublishSnapshot
    <3>1. /\ at = "loaded" /\ at' = "compare" /\ nodes'.value = snapshot
          /\ nodes'.status = "Good" => fresh
      BY <2>5 DEF PublishSnapshot, Status
    <3> QED BY <2>2, <2>3, <3>1 DEF Seen
  <2>6. CASE UNCHANGED <<at, fresh, snapshot, nodes>> \/ (UNCHANGED nodes /\ at' # "loaded")
             \/ (UNCHANGED nodes /\ ~fresh')
    BY <2>2, <2>3, <2>6 DEF Seen
  <2> QED BY <2>4, <2>5, <2>6
        DEF Next, FirstCycle, Transition, Restart, Signal, ServerFault, Publisher, Main,
            LoadCollides, Seed, Fire, Quiet, EndPublisher, OpenRegion, StartPublisher,
            StartFails, MainStops, EndService, MainDeletes, ConfigureSecurity, vars, publisher
<1>4. CASE OpenRegion
  <2>1. at = "none" /\ at' = "none" /\ nodes' = nodes
    BY <1>4 DEF OpenRegion, StartInv
  <2>2. x = 0 /\ nodes.status # "Good"
    BY <2>1 DEF StartInv
  <2>3. (Stamp(Current))' \in Nat
    <3>1. Age(Current.sequence)' \in Nat
      BY <1>2, SinceType DEF Age, Snapshots
    <3> QED BY <3>1 DEF Stamp
  <2> QED BY <2>1, <2>2, <2>3
<1> QED BY <1>3, <1>4
      DEF Next, FirstCycle, Transition, Restart, Signal, ServerFault, Publisher, Main, LoadFresh,
          LoadCollides, PublishSnapshot, Seed, Fire, Quiet, EndPublisher, StartPublisher,
          StartFails, MainStops, EndService, MainDeletes, ConfigureSecurity, vars

(* Every step keeps what the probe holds behind what it was shown, and its *)
(* latencies in order.                                                     *)
LEMMA MeasureStep ==
  ASSUME TypeOK, RuntimeInv, StartInv, OrderInv, StampInv, MeasureInv, MeasuredOnce, [ProbeNext]_all
  PROVE  MeasureInv' /\ MeasuredOnce'
<1>0. NoValue.status # "Good"
  BY DEF NoValue
<1>1. /\ mapped \in 0 .. MaxRestarts /\ snapshot \in Snapshots /\ nodes.value \in Snapshots
      /\ Current \in Snapshots /\ Current.region = mapped
      /\ Current.sequence = slots[mapped] /\ Current.stamped = stamped[mapped]
  BY DEF TypeOK, Snapshots, Current
<1>2. \A v \in Snapshots : Stamp(v) \in Nat
  <2>1. \A v \in Snapshots : Age(v.sequence) \in Nat
    BY <1>1, SinceType DEF Age, Snapshots
  <2> QED BY <2>1 DEF Stamp
<1>4. CASE \/ Server /\ UNCHANGED client
           \/ Serve \/ FireTo \/ DeliverEvent \/ Connect \/ MonitorEvents \/ UNCHANGED all
  <2>1. /\ [Next]_vars
        /\ UNCHANGED <<pending, g_last_transition, g_had_initial, g_latencies, opening>>
    BY <1>4, ProbeLeavesServer DEF client, monitored, globals, noted, Serve, FireTo,
         DeliverEvent, Connect, MonitorEvents, all
  <2>2. Monitoring' = Monitoring
    BY <1>4 DEF client, Serve, FireTo, DeliverEvent, Connect, MonitorEvents, all, Monitoring
  <2>3. at' = "none" => at = "none"
    BY <2>1 DEF Next, Publisher, Main, FirstCycle, Transition, Restart, Signal, ServerFault,
         LoadFresh,
         LoadCollides, PublishSnapshot, Seed, Fire, Quiet, EndPublisher, OpenRegion,
         StartPublisher, StartFails, MainStops, EndService, MainDeletes, ConfigureSecurity, vars
  <2>4. at = "none" => g_last_transition = 0 /\ opening = 0 /\ pending.status # "Good"
    BY <1>0 DEF MeasureInv
  <2>5. Seen(g_last_transition)'
    BY <2>1, <2>4, SeenStep DEF MeasureInv, Seen
  <2>6. Seen(opening)'
    BY <2>1, <2>4, SeenStep DEF MeasureInv, Seen
  <2>7. (pending.status = "Good")' => Seen(pending.stamp)'
    BY <2>1, <2>4, SeenStep DEF MeasureInv, Seen
  <2>8. MeasuredOnce'
    BY <2>1 DEF MeasuredOnce
  <2> QED BY <2>1, <2>2, <2>3, <2>5, <2>6, <2>7, <2>8 DEF MeasureInv
<1>5. ASSUME UNCHANGED vars
      PROVE  \A x \in Nat : Seen(x) =>
               /\ x <= Stamp(Current)'
               /\ (fresh /\ at = "loaded")' => x <= Stamp(snapshot)'
               /\ (nodes.status = "Good")' => x <= Stamp(nodes.value)'
  <2>1. UNCHANGED <<slots, stamped, mapped, at, fresh, snapshot, nodes>>
    BY <1>5 DEF vars, runtime, publisher
  <2> QED BY <2>1 DEF Seen, Stamp, Age, Current
<1>6. ASSUME nodes.status = "Good"
      PROVE  Stamp(nodes.value) \in Nat /\ Seen(Stamp(nodes.value))
  <2>1. /\ Age(nodes.value.sequence) <= Age(Current.sequence)
        /\ (fresh /\ at = "loaded") => Age(nodes.value.sequence) <= Age(snapshot.sequence)
    BY <1>1, <1>6 DEF OrderInv
  <2>2. /\ nodes.value.stamped => Current.stamped
        /\ (fresh /\ at = "loaded") => (nodes.value.stamped => snapshot.stamped)
    BY <1>1, <1>6 DEF StampInv
  <2>3. Stamp(nodes.value) <= Stamp(Current)
    BY <1>1, <2>1, <2>2, StampOrder
  <2>4. (fresh /\ at = "loaded") => Stamp(nodes.value) <= Stamp(snapshot)
    BY <1>1, <2>1, <2>2, StampOrder
  <2>5. Stamp(nodes.value) \in Nat
    BY <1>1, <1>2
  <2> QED BY <2>3, <2>4, <2>5 DEF Seen
<1>7. CASE SampleItem
  <2>1. /\ pending' = DataValue /\ UNCHANGED vars /\ probe' = probe /\ Monitoring
        /\ UNCHANGED <<g_last_transition, g_had_initial, g_latencies, opening>>
    BY <1>7 DEF SampleItem, globals, noted, Monitoring
  <2>2. /\ (pending.status = "Good")' <=> nodes.status = "Good"
        /\ pending'.stamp = Stamp(nodes.value)
    BY <2>1 DEF DataValue
  <2>3. Seen(g_last_transition)' /\ Seen(opening)'
    BY <1>5, <2>1 DEF MeasureInv, Seen
  <2>4. (pending.status = "Good")' => Seen(pending.stamp)'
    BY <1>5, <1>6, <2>1, <2>2 DEF MeasureInv, Seen
  <2>5. (pending.status = "Good")' => 
           /\ pending'.stamp \in Nat
           /\ g_last_transition <= pending'.stamp /\ opening <= pending'.stamp
    BY <1>6, <2>2 DEF MeasureInv, Seen
  <2>6. at' = at /\ MeasuredOnce' /\ Monitoring' = Monitoring
    BY <2>1 DEF vars, MeasuredOnce, Monitoring
  <2> QED BY <2>1, <2>3, <2>4, <2>5, <2>6 DEF MeasureInv
<1>8. CASE MonitorData
  <2>1. /\ pending' = DataValue /\ UNCHANGED vars /\ main = "serving"
        /\ opening' = IF nodes.status = "Good" THEN Stamp(nodes.value) ELSE 0
        /\ UNCHANGED <<g_last_transition, g_had_initial, g_latencies>>
        /\ ~Monitoring /\ Monitoring'
    BY <1>8 DEF MonitorData, globals, Monitoring
  <2>2. /\ (pending.status = "Good")' <=> nodes.status = "Good"
        /\ pending'.stamp = Stamp(nodes.value)
    BY <2>1 DEF DataValue
  <2>3. /\ g_last_transition = 0 /\ ~g_had_initial /\ g_latencies = <<>>
        /\ Seen(g_last_transition)
    BY <2>1 DEF MeasureInv
  <2>4. Seen(g_last_transition)'
    BY <1>5, <2>1, <2>3 DEF Seen
  <2>5. opening' \in Nat /\ Seen(opening)'
    BY <1>5, <1>6, <2>1, <2>3 DEF Seen
  <2>6. (pending.status = "Good")' =>
           /\ pending'.stamp \in Nat /\ Seen(pending.stamp)'
           /\ g_last_transition <= pending'.stamp /\ opening' <= pending'.stamp
    BY <1>5, <1>6, <2>1, <2>2, <2>3 DEF Seen
  <2>7. at' = at /\ at # "none"
    BY <2>1 DEF vars, StartInv
  <2>8. /\ g_latencies' \in Seq(Nat) /\ g_latencies' = <<>> /\ g_last_transition' = 0
        /\ g_had_initial' = FALSE
    BY <2>1, <2>3 DEF MeasureInv
  <2>9. (pending.status = "Good")' =>
           /\ g_last_transition' <= pending'.stamp /\ opening' <= pending'.stamp
    BY <2>1, <2>6
  <2>10. MeasuredOnce'
    BY <2>8 DEF MeasuredOnce
  <2> QED BY <2>1, <2>4, <2>5, <2>6, <2>7, <2>8, <2>9, <2>10 DEF MeasureInv
<1>9. CASE Exit
  <2>1. /\ g_last_transition' = 0 /\ g_had_initial' = FALSE /\ g_latencies' = <<>>
        /\ opening' = 0 /\ pending' = NoValue /\ ~Monitoring'
    BY <1>9 DEF Exit, Monitoring
  <2>2. Stamp(Current)' \in Nat /\ Stamp(snapshot)' \in Nat /\ Stamp(nodes.value)' \in Nat
    <3>1. UNCHANGED <<slots, stamped, mapped, snapshot, nodes>>
      BY <1>9 DEF Exit, vars, runtime, publisher
    <3>2. /\ Stamp(Current)' = Stamp(Current) /\ Stamp(snapshot)' = Stamp(snapshot)
          /\ Stamp(nodes.value)' = Stamp(nodes.value)
      BY <3>1 DEF Stamp, Age, Current
    <3> QED BY <1>1, <1>2, <3>2
  <2>3. Seen(g_last_transition)' /\ Seen(opening)'
    BY <2>1, <2>2 DEF Seen
  <2>4. pending'.status # "Good" /\ g_latencies' \in Seq(Nat) /\ Len(g_latencies') = 0
    BY <1>0, <2>1
  <2>5. MeasuredOnce'
    BY <2>1 DEF MeasuredOnce
  <2>6. /\ g_last_transition' \in Nat /\ opening' \in Nat /\ g_had_initial' \in BOOLEAN
        /\ \A i \in 1 .. Len(g_latencies') : g_latencies'[i] <= g_last_transition'
        /\ ~g_had_initial' /\ g_last_transition' = 0 /\ g_latencies' = <<>>
        /\ pending' = NoValue /\ opening' = 0 /\ ~Monitoring'
    <3>1. 1 .. Len(g_latencies') = {}
      BY <2>4
    <3>2. g_last_transition' \in Nat /\ opening' \in Nat /\ g_had_initial' \in BOOLEAN
      BY <2>1
    <3> QED BY <2>1, <3>1, <3>2, Zenon
  <2>7. MeasureInv'
    BY <2>3, <2>4, <2>6, Zenon DEF MeasureInv
  <2> QED BY <2>5, <2>7
<1>10. CASE DeliverData
  <2> DEFINE fresh_one == pending.status = "Good" /\ ~IsRepeat(pending.stamp)
  <2>1. /\ pending' = NoValue /\ UNCHANGED vars /\ probe' = probe /\ Monitoring /\ opening' = opening
        /\ g_last_transition' = IF fresh_one THEN pending.stamp ELSE g_last_transition
        /\ g_had_initial' = (g_had_initial \/ fresh_one)
        /\ g_latencies' = IF fresh_one /\ g_had_initial
                          THEN Append(g_latencies, pending.stamp) ELSE g_latencies
    BY <1>10 DEF DeliverData, noted, Monitoring
  <2>2. at' = at /\ Monitoring'
    BY <2>1 DEF vars, Monitoring
  <2>3. Seen(opening)'
    BY <1>5, <2>1 DEF MeasureInv, Seen
  <2>4. CASE ~fresh_one
    <3>1. UNCHANGED <<g_last_transition, g_had_initial, g_latencies>>
      <4> HIDE DEF fresh_one
      <4>1. g_last_transition' = g_last_transition /\ g_latencies' = g_latencies
        BY <2>1, <2>4
      <4>2. g_had_initial' = g_had_initial
        BY <2>1, <2>4, Zenon DEF MeasureInv
      <4> QED BY <4>1, <4>2
    <3>2. Seen(g_last_transition)'
      BY <1>5, <2>1, <3>1 DEF MeasureInv, Seen
    <3> QED BY <1>0, <2>1, <2>2, <2>3, <3>1, <3>2 DEF MeasureInv, MeasuredOnce
  <2>5. CASE fresh_one
    <3>1. /\ g_last_transition' = pending.stamp /\ pending.stamp \in Nat /\ Seen(pending.stamp)
          /\ g_had_initial' = TRUE
          /\ opening <= pending.stamp /\ g_last_transition < pending.stamp
      <4>1. pending.status = "Good" /\ pending.stamp # g_last_transition
        BY <2>5 DEF IsRepeat
      <4>2. /\ pending.stamp \in Nat /\ Seen(pending.stamp) /\ opening <= pending.stamp
            /\ g_last_transition <= pending.stamp /\ g_last_transition \in Nat
        BY <4>1 DEF MeasureInv
      <4>3. g_last_transition < pending.stamp
        BY <4>1, <4>2
      <4> HIDE DEF fresh_one
      <4>4. g_last_transition' = pending.stamp /\ g_had_initial' = TRUE
        BY <2>1, <2>5
      <4> QED BY <4>2, <4>3, <4>4
    <3>2. Seen(g_last_transition)'
      BY <1>5, <2>1, <3>1 DEF Seen
    <3>3. /\ g_last_transition \in Nat /\ opening \in Nat /\ g_latencies \in Seq(Nat)
          /\ \A i \in 1 .. Len(g_latencies) : g_latencies[i] <= g_last_transition
      BY DEF MeasureInv
    <3>4. CASE g_had_initial
      <4>1. g_latencies' = Append(g_latencies, pending.stamp) /\ opening < pending.stamp
        <5>1. opening <= g_last_transition
          BY <3>4 DEF MeasureInv
        <5>2. opening < pending.stamp
          BY <3>1, <3>3, <5>1
        <5> HIDE DEF fresh_one
        <5> QED BY <2>1, <2>5, <3>4, <5>2
      <4>2. /\ g_latencies' \in Seq(Nat) /\ Len(g_latencies') = Len(g_latencies) + 1
            /\ Len(g_latencies) \in Nat
            /\ \A i \in 1 .. Len(g_latencies) : g_latencies'[i] = g_latencies[i]
            /\ g_latencies'[Len(g_latencies) + 1] = pending.stamp
        <5> DEFINE stamp == pending.stamp
        <5>1. stamp \in Nat /\ g_latencies' = Append(g_latencies, stamp)
          BY <3>1, <4>1
        <5> HIDE DEF stamp
        <5>2. /\ g_latencies' \in Seq(Nat) /\ Len(g_latencies') = Len(g_latencies) + 1
              /\ Len(g_latencies) \in Nat
              /\ \A i \in 1 .. Len(g_latencies) : g_latencies'[i] = g_latencies[i]
              /\ g_latencies'[Len(g_latencies) + 1] = stamp
          BY <3>3, <5>1
        <5> QED BY <5>2 DEF stamp
      <4>3. \A i \in 1 .. Len(g_latencies') : g_latencies'[i] <= pending.stamp
        <5> SUFFICES ASSUME NEW i \in 1 .. Len(g_latencies')
                     PROVE  g_latencies'[i] <= pending.stamp
          OBVIOUS
        <5>1. CASE i = Len(g_latencies) + 1
          BY <3>1, <4>2, <5>1
        <5>2. CASE i # Len(g_latencies) + 1
          <6>1. i \in 1 .. Len(g_latencies)
            BY <4>2, <5>2
          <6>2. g_latencies[i] \in Nat /\ g_latencies[i] <= g_last_transition
            BY <3>3, <6>1
          <6> QED BY <3>1, <3>3, <4>2, <6>1, <6>2
        <5> QED BY <5>1, <5>2
      <4>4. ASSUME NEW i \in 1 .. Len(g_latencies')
            PROVE  /\ opening < g_latencies'[i]
                   /\ i > 1 => g_latencies'[i - 1] < g_latencies'[i]
        <5>1. CASE i = Len(g_latencies) + 1
          BY <3>1, <3>3, <4>1, <4>2, <5>1
        <5>2. CASE i # Len(g_latencies) + 1
          <6>1. i \in 1 .. Len(g_latencies) /\ i \in DOMAIN g_latencies
            BY <3>3, <4>2, <5>2
          <6>2. opening < g_latencies[i] /\ (i > 1 => g_latencies[i - 1] < g_latencies[i])
            BY <6>1 DEF MeasuredOnce
          <6>3. i > 1 => i - 1 \in 1 .. Len(g_latencies)
            BY <4>2, <6>1
          <6> QED BY <4>2, <6>1, <6>2, <6>3
        <5> QED BY <5>1, <5>2
      <4>5. DOMAIN g_latencies' = 1 .. Len(g_latencies')
        BY <4>2
      <4>6. MeasuredOnce'
        BY <2>1, <4>4, <4>5 DEF MeasuredOnce
      <4> QED BY <1>0, <2>1, <2>2, <2>3, <3>1, <3>2, <3>3, <4>2, <4>3, <4>6 DEF MeasureInv
    <3>5. CASE ~g_had_initial
      <4>1. g_latencies' = <<>>
        BY <2>1, <3>5 DEF MeasureInv
      <4>2. /\ 1 .. Len(g_latencies') = {} /\ DOMAIN g_latencies' = {}
            /\ g_latencies' \in Seq(Nat)
        BY <4>1
      <4>3. MeasuredOnce'
        BY <4>2 DEF MeasuredOnce
      <4> QED BY <1>0, <2>1, <2>2, <2>3, <3>1, <3>2, <3>3, <4>2, <4>3 DEF MeasureInv
    <3> QED BY <3>4, <3>5
  <2> QED BY <2>4, <2>5
<1> QED BY <1>4, <1>7, <1>8, <1>9, <1>10 DEF ProbeNext, Stack

(* configureSecurity(), outcome by outcome, unless it refuses.             *)
LEMMA ConfiguredAsAsked ==
  ASSUME NEW options \in SecurityOptions, NEW stack \in StackAnswers,
         configureSecurity(options, stack).posture.policy_count # 0
  PROVE  AsAsked(options, configureSecurity(options, stack).config,
                 configureSecurity(options, stack).posture)
<1> DEFINE outcome == configureSecurity(options, stack)
           named   == options.trust_list.named
           trusted == IF named THEN readTrustList(options.trust_list) ELSE {}
           identity == Identity(options, stack)
           loaded  == IF options.allow_unencrypted THEN 0 ELSE Cardinality(trusted)
<1>0. /\ named \in BOOLEAN /\ options.allow_unencrypted \in BOOLEAN
      /\ trusted \subseteq options.trust_list.readable
  <2>1. options.trust_list \in Directories(ClientCertificates) /\ options.allow_unencrypted \in BOOLEAN
    BY DEF SecurityOptions
  <2>2. trusted \subseteq options.trust_list.readable
    BY DEF readTrustList
  <2>3. Unset.named \in BOOLEAN
    BY DEF Unset
  <2>4. \A d \in [named: {TRUE}, listable: BOOLEAN, der: SUBSET ClientCertificates,
                  readable: SUBSET ClientCertificates] : d.named \in BOOLEAN
    OBVIOUS
  <2>5. named \in BOOLEAN
    BY <2>1, <2>3, <2>4, Zenon DEF Directories
  <2> QED BY <2>1, <2>2, <2>5
<1>1. RefusedPosture(options, loaded).policy_count = 0
  BY DEF RefusedPosture
<1>2. ~RefusedAtOnce(options, trusted)
  BY <1>1 DEF configureSecurity
<1>3. CASE identity = "none"
  <2>1. /\ options.allow_unencrypted
        /\ outcome.config = [BareConfig EXCEPT !.endpoints = {"None"}]
        /\ outcome.posture = [RefusedPosture(options, loaded) EXCEPT
             !.policy_count = 1, !.allows_unencrypted = TRUE]
    BY <1>1, <1>2, <1>3 DEF configureSecurity
  <2>2. named = FALSE /\ options.allow_unencrypted = TRUE
    BY <1>0, <1>2, <2>1 DEF RefusedAtOnce
  <2>3. /\ outcome.config.endpoints = {"None"} /\ outcome.config.checks = FALSE
        /\ outcome.config.certificate = "none"
        /\ outcome.posture.allows_unencrypted = TRUE /\ outcome.posture.checks = named
        /\ outcome.posture.origin = "none"
    BY <2>1 DEF BareConfig, RefusedPosture
  <2> HIDE DEF outcome
  <2>4. \A o, k : ~Connects(o, k, outcome.config)
    BY <2>3 DEF Connects
  <2>5. /\ ("None" \in outcome.config.endpoints) = outcome.posture.allows_unencrypted
        /\ (outcome.posture.origin = "loaded") = (outcome.config.certificate = "server")
    BY <2>3
  <2>50. /\ (outcome.config.certificate = "server") =
              (options.certificate = "readable" /\ options.key = "readable")
         /\ (outcome.posture.origin = "generated") = (outcome.config.certificate = "throwaway")
    BY <1>3, <2>3 DEF Identity
  <2>6. AsAsked(options, outcome.config, outcome.posture)
    BY <2>2, <2>3, <2>4, <2>5, <2>50, Zenon DEF AsAsked
  <2> QED BY <2>6 DEF outcome
<1>4. CASE identity # "none"
  <2>1. outcome =
     [config  |-> [certificate |-> identity,
                     endpoints   |-> IF options.allow_unencrypted THEN {"None", "SignAndEncrypt"}
                                     ELSE dropUnencryptedEndpoints({"None", "SignAndEncrypt"}),
                     checks      |-> named,
                     trusted     |-> trusted],
        posture |-> [origin             |-> IF identity = "server" THEN "loaded"
                                            ELSE "generated",
                     policy_count       |-> Cardinality({"None", "SignAndEncrypt"}),
                     allows_unencrypted |-> options.allow_unencrypted,
                     allows_anonymous   |-> TRUE,
                     checks             |-> named,
                     trusted_certificate_count |-> Cardinality(trusted)]]
    BY <1>1, <1>2, <1>4 DEF configureSecurity
  <2> DEFINE config  == outcome.config
             posture == outcome.posture
  <2> HIDE DEF identity, trusted, outcome
  <2>2. /\ config.certificate = identity /\ config.checks = named /\ config.trusted = trusted
        /\ config.endpoints = IF options.allow_unencrypted THEN {"None", "SignAndEncrypt"}
                              ELSE dropUnencryptedEndpoints({"None", "SignAndEncrypt"})
        /\ posture.origin = (IF identity = "server" THEN "loaded" ELSE "generated")
        /\ posture.allows_unencrypted = options.allow_unencrypted
        /\ posture.checks = named /\ posture.trusted_certificate_count = Cardinality(trusted)
    BY <2>1
  <2>3. named => ~options.allow_unencrypted /\ trusted # {}
    BY <1>2 DEF RefusedAtOnce
  <2> HIDE DEF config, posture
  <2>4. ("None" \in config.endpoints) = options.allow_unencrypted
    <3>1. CASE options.allow_unencrypted
      BY <1>0, <2>2, <3>1
    <3>2. CASE ~options.allow_unencrypted
      <4>1. config.endpoints = {"None", "SignAndEncrypt"} \ {"None"}
        BY <2>2, <3>2 DEF dropUnencryptedEndpoints
      <4>2. "None" \notin config.endpoints
        BY <4>1
      <4> QED BY <1>0, <3>2, <4>2
    <3> QED BY <3>1, <3>2
  <2>5. /\ (posture.origin = "loaded") = (config.certificate = "server")
        /\ (posture.origin = "generated") = (config.certificate = "throwaway")
        /\ (config.certificate = "server") =
             (options.certificate = "readable" /\ options.key = "readable")
    <3>1. /\ identity \in {"server", "throwaway"}
          /\ identity = "server" <=> options.certificate = "readable" /\ options.key = "readable"
      BY <1>4 DEF identity, Identity
    <3> QED BY <2>2, <3>1
  <2>6. ASSUME NEW o \in ProbeOptions, NEW k \in BOOLEAN, Connects(o, k, config)
        PROVE  /\ named => o.certificate \in options.trust_list.readable
               /\ ~o.insecure_accept_any_certificate => config.certificate \in o.trust_list.readable
    <3>1. named => o.certificate \in options.trust_list.readable
      BY <1>0, <2>2, <2>6 DEF Connects
    <3>2. ~o.insecure_accept_any_certificate => config.certificate \in o.trust_list.readable
      BY <2>6 DEF Connects, configureServerVerification, readTrustList
    <3> QED BY <3>1, <3>2
  <2>7. AsAsked(options, config, posture)
    BY <1>0, <2>2, <2>3, <2>4, <2>5, <2>6, Zenon DEF AsAsked
  <2> QED BY <2>7 DEF config, posture, outcome
<1> QED BY <1>3, <1>4

(* Only configureSecurity() takes main() to where it goes on to serve.     *)
LEMMA ServedStep ==
  ASSUME ServedAsAsked, [Next]_vars
  PROVE  ServedAsAsked'
<1>1. CASE ConfigureSecurity
  <2>1. PICK options \in SecurityOptions, stack \in StackAnswers :
          LET outcome == configureSecurity(options, stack) IN
          IF outcome.posture.policy_count = 0
          THEN main' = "failed" /\ UNCHANGED security
          ELSE /\ main' = "configured"
               /\ security' = [options |-> options, config |-> outcome.config,
                               posture |-> outcome.posture]
    BY <1>1, Zenon DEF ConfigureSecurity
  <2> DEFINE outcome == configureSecurity(options, stack)
  <2>2. CASE outcome.posture.policy_count = 0
    BY <2>1, <2>2 DEF ServedAsAsked
  <2>3. CASE outcome.posture.policy_count # 0
    <3>1. AsAsked(options, outcome.config, outcome.posture)
      BY <2>3, ConfiguredAsAsked
    <3>2. security'.options = options /\ security'.config = outcome.config
          /\ security'.posture = outcome.posture
      <4>1. security' = [options |-> options, config |-> outcome.config,
                         posture |-> outcome.posture]
        BY <2>1, <2>3, Zenon
      <4> HIDE DEF outcome
      <4> QED BY <4>1
    <3>3. AsAsked(security'.options, security'.config, security'.posture)
      BY <3>1, <3>2, Zenon
    <3> QED BY <3>3 DEF ServedAsAsked, AsAsked
  <2> QED BY <2>2, <2>3
<1>2. CASE ~ConfigureSecurity
  <2> DEFINE Kept == main' = "configured" => main = "configured" /\ UNCHANGED security
  <2>1. FirstCycle \/ Transition \/ Restart \/ Signal \/ ServerFault \/ UNCHANGED vars => Kept
    BY DEF FirstCycle, Transition, Restart, Signal, ServerFault, EndService, vars, process
  <2>2. Publisher => Kept
    BY DEF Publisher, LoadFresh, LoadCollides, PublishSnapshot, Seed, Quiet, Fire, EndPublisher,
           process
  <2>3. Main => Kept
    BY DEF Main, OpenRegion, StartFails, StartPublisher, MainStops, MainDeletes, EndService
  <2>4. Kept
    BY <1>2, <2>1, <2>2, <2>3 DEF Next
  <2> QED BY <2>4 DEF ServedAsAsked, AsAsked
<1> QED BY <1>1, <1>2

(* What main() of each program starts from.                                *)
LEMMA ServerStarts ==
  ASSUME Init
  PROVE  TypeOK /\ RuntimeInv /\ StartInv /\ OrderInv /\ StampInv /\ ServedAsAsked
<1> USE DEF Init
<1>1. TypeOK
  <2>1. NoSnapshot \in Snapshots
    BY Constants DEF NoSnapshot, Snapshots
  <2>2. stamped \in [0 .. MaxRestarts -> BOOLEAN]
    OBVIOUS
  <2> QED BY <2>1, <2>2, Constants DEF TypeOK
<1>2. RuntimeInv
  BY Constants, SinceFirst DEF RuntimeInv
<1>3. nodes.status = "Unwritten" /\ ~have_sequence /\ ~fresh /\ at = "none" /\ main = "starting"
  OBVIOUS
<1>4. StartInv
  BY <1>3 DEF StartInv
<1>5. OrderInv
  BY <1>3 DEF OrderInv
<1>6. StampInv
  BY <1>3 DEF StampInv
<1>7. ServedAsAsked
  BY <1>3 DEF ServedAsAsked
<1> QED BY <1>1, <1>2, <1>4, <1>5, <1>6, <1>7

(* And what the probe starts from.                                         *)
LEMMA ProbeStarts ==
  ASSUME ProbeInit
  PROVE  QueueInv /\ MeasureInv /\ MeasuredOnce
<1> USE DEF ProbeInit
<1>1. QueueInv
  BY DEF QueueInv
<1>2. TypeOK /\ nodes.status = "Unwritten" /\ at = "none" /\ mapped = 0
  BY ServerStarts DEF Init
<1>3. Stamp(Current) \in Nat
  <2>1. Age(Current.sequence) \in Nat
    BY <1>2, SinceType DEF Age, Current, TypeOK
  <2> QED BY <2>1 DEF Stamp
<1>4. Seen(0)
  BY <1>2, <1>3 DEF Seen
<1>5. /\ 1 .. Len(g_latencies) = {} /\ DOMAIN g_latencies = {} /\ g_latencies \in Seq(Nat)
      /\ pending.status # "Good" /\ ~Monitoring
  BY DEF NoValue, Monitoring
<1>6. MeasureInv
  BY <1>4, <1>5 DEF MeasureInv
<1>7. MeasuredOnce
  BY <1>5 DEF MeasuredOnce
<1> QED BY <1>1, <1>6, <1>7

(* The inductive invariant of the server alone.                            *)
LEMMA ServerInvariant == Spec => [](TypeOK /\ RuntimeInv /\ StartInv /\ OrderInv /\ ServedAsAsked)
<1> DEFINE Inv == TypeOK /\ RuntimeInv /\ StartInv /\ OrderInv /\ ServedAsAsked
<1>1. Init => Inv
  BY ServerStarts
<1>2. Inv /\ [Next]_vars => Inv'
  BY PublisherType, RuntimeStep, StartStep, OrderStep, ServedStep
<1> QED BY <1>1, <1>2, PTL DEF Spec

(* The inductive invariant of the server with its probe.                   *)
LEMMA ProbeInvariant ==
  ProbeSpec => [](/\ TypeOK /\ RuntimeInv /\ StartInv /\ OrderInv /\ StampInv /\ ServedAsAsked
                  /\ QueueInv /\ MeasureInv /\ MeasuredOnce)
<1> DEFINE Inv == /\ TypeOK /\ RuntimeInv /\ StartInv /\ OrderInv /\ StampInv /\ ServedAsAsked
                  /\ QueueInv /\ MeasureInv /\ MeasuredOnce
<1>1. ProbeInit => Inv
  BY ServerStarts, ProbeStarts DEF ProbeInit
<1>2. Inv /\ [ProbeNext]_all => Inv'
  BY ProbeLeavesServer, PublisherType, RuntimeStep, StartStep, OrderStep, StampStep, ServedStep,
     ToldStep, MeasureStep
<1> QED BY <1>1, <1>2, PTL DEF ProbeSpec

(* The publisher never shows as Good a value the runtime has not           *)
(* published, or one older than the last transition it announced, however  *)
(* its loads collide with the runtime and wherever the sequence wraps; and *)
(* it shows as Good only what its last load read.                          *)
THEOREM GoodIsPublished == Spec => []GoodWasPublished
<1>1. OrderInv => GoodWasPublished
  BY DEF OrderInv, GoodWasPublished
<1> QED BY <1>1, ServerInvariant, PTL

(* And the probe beside it changes nothing in that.                        *)
THEOREM GoodIsPublishedToProbes == ProbeSpec => []GoodWasPublished
<1>1. OrderInv => GoodWasPublished
  BY DEF OrderInv, GoodWasPublished
<1> QED BY <1>1, ProbeInvariant, PTL

(* Every transition after the seed is announced once, or was in an event   *)
(* that could not be fired; and every announcement since the probe listens *)
(* is received, coalesced, queued or turned away by a full queue.          *)
THEOREM ProbeAccountsForEveryTransition == ProbeSpec => []ProbeAccounts
<1>1. ASSUME TypeOK, OrderInv, QueueInv
      PROVE  ProbeAccounts
  <2>1. ASSUME have_sequence
        PROVE  told + unsent = (last_sequence - seed) % SeqModulus
    <3> USE <1>1
    <3>1. mapped \in 0 .. MaxRestarts /\ last_sequence \in Sequences /\ seed \in Sequences
      BY DEF TypeOK
    <3>2. Age(seed) <= Age(last_sequence) /\ told + unsent = Age(last_sequence) - Age(seed)
      BY <2>1 DEF OrderInv
    <3> QED BY <3>1, <3>2, SinceDifference DEF Age
  <2> QED BY <1>1, <2>1 DEF ProbeAccounts, QueueInv
<1> QED BY <1>1, ProbeInvariant, PTL

(* The probe measures a transition's latency once, in order, and never the *)
(* one its opening report showed.                                          *)
THEOREM LatenciesAreMeasuredOnce == ProbeSpec => []MeasuredOnce
BY ProbeInvariant, PTL

(* Whatever files, directories and answers of the stack configureSecurity  *)
(* met, the server it lets serve has the endpoints and checks the clients  *)
(* that were asked for, and has the identity asked for if its files can be *)
(* read; if not, the posture tells that another took its place.            *)
THEOREM ServerIsAsAsked == ProbeSpec => []ServedAsAsked
BY ProbeInvariant, PTL
=============================================================================
