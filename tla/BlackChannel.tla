---------------------------- MODULE BlackChannel -----------------------------
(***************************************************************************)
(* The safety communication layer of src/safety/black_channel.cpp: one     *)
(* SafetySender, one SafetyReceiver, and between them a transport that     *)
(* loses, repeats, delays, reorders and damages telegrams and carries      *)
(* foreign ones.                                                           *)
(*                                                                         *)
(* A payload is the serial number of the encode() call that took it, or    *)
(* NotSent for bytes our sender never produced.  The CRC is ideal: the     *)
(* tuple of the fields it covers, so that two telegrams have the same CRC  *)
(* exactly when those fields agree.                                        *)
(***************************************************************************)
EXTENDS Integers

CONSTANTS
  Modulus,    \* 2^32 in the code: consecutive numbers wrap here
  Starts,     \* the values restartSequence() is given
  Watchdog,   \* watchdog_ns_, in ticks
  MaxLag,     \* the transport holds at most the last MaxLag telegrams
  MaxTime,    \* bound on the clock
  MaxAcks     \* bound on the acknowledgements

Numbers == 1 .. Modulus - 1

ASSUME BlackChannelAssumption ==
  /\ Modulus \in Nat /\ Watchdog \in Nat /\ MaxTime \in Nat /\ MaxAcks \in Nat
  /\ MaxLag \in Nat \ {0}
  /\ Starts \subseteq Numbers /\ Starts # {}
  /\ 2 * (MaxLag + Watchdog + 1) <= Modulus

VARIABLES
  consecutive_number,  \* the sender's
  sent,                \* history: how many telegrams encode() has produced
  wire,                \* the telegrams the transport can still deliver
  receiver,            \* the SafetyReceiver object
  now,
  due,                 \* what producer and consumer may still do in this tick
  delivered,           \* history: the payload accepted last since synchronisation
  acks                 \* acknowledgements so far

senderVars == <<consecutive_number, sent>>
history    == <<delivered, acks>>
vars       == <<senderVars, wire, receiver, now, due, history>>

NotSent == 0
Address == "ours"
Foreign == "theirs"

(* The statuses that are counted and latched.                              *)
Rejections ==
  {"Malformed", "CrcMismatch", "Timeout", "Repetition", "OutOfOrder", "SequenceGap"}

TransmissionFault ==
  {"None", "Corruption", "UnintendedRepetition", "IncorrectSequence", "Loss",
   "UnacceptableDelay"}

Telegrams ==
  [sized: BOOLEAN, payload: Nat, cn: 0 .. Modulus - 1,
   crc: {Address, Foreign} \X Nat \X (0 .. Modulus - 1)]

Receiver ==
  [safe_state: BOOLEAN, last_fault: TransmissionFault, synchronised: BOOLEAN,
   last_consecutive_number: 0 .. Modulus - 1, last_valid_ns: Nat,
   rejected: [Rejections -> Nat], telegrams_lost: Nat, accepted: Nat]

TypeOK ==
  /\ consecutive_number \in Numbers
  /\ sent \in Nat
  /\ wire \in SUBSET Telegrams
  /\ receiver \in Receiver
  /\ now \in Nat
  /\ due \in SUBSET {"encode", "poll"}
  /\ delivered \in Nat /\ acks \in Nat
-----------------------------------------------------------------------------
M_crcWithoutAddress(address, payload, cn) == <<Address, payload, cn>>

computeTelegramCrc(address, payload, cn) == <<address, payload, cn>>

(* ++consecutive_number_ and the receiver's mirror of it: zero is skipped. *)
Successor(cn) ==
  LET next == (cn + 1) % Modulus IN IF next = 0 THEN 1 ELSE next

(* static_cast<int32_t>(x - y).                                            *)
SignedDifference(x, y) ==
  LET d == (x - y) % Modulus IN IF 2 * d >= Modulus THEN d - Modulus ELSE d

Telegram(address, payload, cn) ==
  [sized |-> TRUE, payload |-> payload, cn |-> cn,
   crc |-> computeTelegramCrc(address, payload, cn)]

Expected(r) == Successor(r.last_consecutive_number)

M_deltaFromLast(r, t) == SignedDifference(t.cn, r.last_consecutive_number)

(* How far a telegram is from the one expected.                            *)
delta(r, t) == SignedDifference(t.cn, Expected(r))
-----------------------------------------------------------------------------
(* What receive() returns, in the order of its checks.                     *)
ReceiveStatus(r, t, now_ns) ==
  IF r.safe_state THEN "InSafeState"
  ELSE IF ~t.sized THEN "Malformed"
  ELSE IF t.crc # computeTelegramCrc(Address, t.payload, t.cn) THEN "CrcMismatch"
  ELSE IF r.synchronised /\ now_ns - r.last_valid_ns > Watchdog THEN "Timeout"
  ELSE IF ~r.synchronised \/ t.cn = Expected(r) THEN "Valid"
  ELSE IF t.cn = r.last_consecutive_number THEN "Repetition"
  ELSE IF delta(r, t) < 0 THEN "OutOfOrder"
  ELSE "SequenceGap"

FaultFor(status) ==
  CASE status \in {"Malformed", "CrcMismatch"} -> "Corruption"
    [] status = "Timeout"     -> "UnacceptableDelay"
    [] status = "Repetition"  -> "UnintendedRepetition"
    [] status = "OutOfOrder"  -> "IncorrectSequence"
    [] status = "SequenceGap" -> "Loss"

latch(r, status, fault) ==
  [r EXCEPT !.safe_state = TRUE, !.last_fault = fault, !.rejected[status] = @ + 1]

accept(r, t, now_ns) ==
  [r EXCEPT !.synchronised = TRUE, !.last_consecutive_number = t.cn,
            !.last_valid_ns = now_ns, !.accepted = @ + 1]

receive(r, t, now_ns) ==
  LET status == ReceiveStatus(r, t, now_ns) IN
  CASE status = "InSafeState" -> r
    [] status = "Valid"       -> accept(r, t, now_ns)
    [] status = "SequenceGap" ->
         [latch(r, status, FaultFor(status)) EXCEPT
            !.telegrams_lost = @ + delta(r, t)]
    [] OTHER                  -> latch(r, status, FaultFor(status))

M_pollOffByOne(r, now_ns) ==
  IF ~r.safe_state /\ r.synchronised /\ now_ns - r.last_valid_ns > Watchdog + 1
  THEN latch(r, "Timeout", "Loss") ELSE r

poll(r, now_ns) ==
  IF ~r.safe_state /\ r.synchronised /\ now_ns - r.last_valid_ns > Watchdog
  THEN latch(r, "Timeout", "Loss") ELSE r

acknowledgeAndReset(r, now_ns) ==
  [r EXCEPT !.safe_state = FALSE, !.last_fault = "None", !.synchronised = FALSE,
            !.last_consecutive_number = 0, !.last_valid_ns = now_ns]
-----------------------------------------------------------------------------
Init ==
  /\ consecutive_number \in Starts
  /\ sent = 0
  /\ wire = {}
  /\ receiver = [safe_state |-> FALSE, last_fault |-> "None", synchronised |-> FALSE,
                 last_consecutive_number |-> 0, last_valid_ns |-> 0,
                 rejected |-> [s \in Rejections |-> 0], telegrams_lost |-> 0,
                 accepted |-> 0]
  /\ now = 0
  /\ due = {"encode", "poll"}
  /\ delivered = NotSent /\ acks = 0

(* SafetySender::encode(), once per tick, and the transport taking the     *)
(* telegram and giving up those it has held for too long.                  *)
Encode ==
  /\ "encode" \in due
  /\ due' = due \ {"encode"}
  /\ sent' = sent + 1
  /\ wire' = {t \in wire : sent' - t.payload < MaxLag}
               \cup {Telegram(Address, sent', consecutive_number)}
  /\ consecutive_number' = Successor(consecutive_number)
  /\ UNCHANGED <<receiver, now, history>>

(* restartSequence() under the contract of its comment: only as part of a  *)
(* restart of the whole relationship, with nothing left in transit.        *)
RestartSequence(start) ==
  /\ ~receiver.synchronised
  /\ wire = {}
  /\ consecutive_number' = start
  /\ UNCHANGED <<sent, wire, receiver, now, due, history>>

(* SafetyReceiver::receive() of the bytes t.                               *)
Receive(t) ==
  /\ receiver' = receive(receiver, t, now)
  /\ delivered' = IF receiver'.accepted # receiver.accepted THEN t.payload ELSE delivered
  /\ UNCHANGED <<senderVars, wire, now, due, acks>>

(* The transport delivers a telegram and keeps it: it can come again, or   *)
(* after a newer one.                                                      *)
Deliver == \E t \in wire : Receive(t)

(* The transport loses a telegram.                                         *)
Lose ==
  /\ \E t \in wire : wire' = wire \ {t}
  /\ UNCHANGED <<senderVars, receiver, now, due, history>>

(* A telegram arrives with a field changed, or cut short.                  *)
DeliverDamaged ==
  \E t \in wire :
    \/ Receive([t EXCEPT !.payload = NotSent])
    \/ Receive([t EXCEPT !.cn = Successor(t.cn)])
    \/ Receive([t EXCEPT !.sized = FALSE])

(* A telegram of another relationship arrives, with the number our         *)
(* receiver waits for; or the zeroes of a dead transport.                  *)
DeliverForeign ==
  \/ Receive(Telegram(Foreign, NotSent, Expected(receiver)))
  \/ Receive([sized |-> TRUE, payload |-> NotSent, cn |-> 0,
              crc |-> <<Foreign, NotSent, 0>>])

Poll ==
  /\ "poll" \in due
  /\ due' = due \ {"poll"}
  /\ receiver' = poll(receiver, now)
  /\ UNCHANGED <<senderVars, wire, now, history>>

Acknowledge ==
  /\ acks < MaxAcks
  /\ receiver' = acknowledgeAndReset(receiver, now)
  /\ delivered' = NotSent
  /\ acks' = acks + 1
  /\ UNCHANGED <<senderVars, wire, now, due>>

(* "A consumer must call this every cycle": time does not pass a cycle in  *)
(* which poll() has not been called.                                       *)
Tick ==
  /\ now < MaxTime
  /\ "poll" \notin due
  /\ now' = now + 1
  /\ due' = {"encode", "poll"}
  /\ UNCHANGED <<senderVars, wire, receiver, history>>

Next ==
  \/ Encode
  \/ \E start \in Starts : RestartSequence(start)
  \/ Deliver
  \/ Lose
  \/ DeliverDamaged
  \/ DeliverForeign
  \/ Poll
  \/ Acknowledge
  \/ Tick

Spec == Init /\ [][Next]_vars
-----------------------------------------------------------------------------
(* REQ-SAF-001, 003, 004, 008 and 009, receive(): whatever the transport   *)
(* does, an accepted payload is one our sender produced, and within a      *)
(* synchronisation it is the one produced right after the payload accepted *)
(* before it, across the wrap of the consecutive number too.               *)
DeliveredInOrder ==
  [][receiver'.accepted # receiver.accepted =>
       /\ delivered' \in 1 .. sent
       /\ receiver.synchronised => delivered' = delivered + 1]_vars

(* Zero, which no telegram has, lies between the number a receiver waits   *)
(* for and a later one.                                                    *)
SpansZero(r, cn) == cn < Successor(r.last_consecutive_number)

(* REQ-SAF-003 to 005 and the wrap comment in receive(): the sequence      *)
(* checks name what the transport really did.  A loss is reported only     *)
(* when a telegram was skipped, and none is reported at the wrap itself;   *)
(* telegrams_lost grows by exactly what was skipped, but for a gap that    *)
(* spans the wrap, where it grows by exactly one more: receive() counts    *)
(* the zero as lost.                                                       *)
SequenceVerdictIsTrue ==
  [][\A t \in wire :
       receiver' # receiver /\ receiver' = receive(receiver, t, now) =>
         CASE receiver'.last_fault = "UnintendedRepetition" -> t.payload = delivered
           [] receiver'.last_fault = "IncorrectSequence"    -> t.payload < delivered
           [] receiver'.rejected["SequenceGap"] # receiver.rejected["SequenceGap"]
                -> LET skipped == t.payload - delivered - 1 IN
                   /\ skipped > 0
                   /\ receiver'.telegrams_lost - receiver.telegrams_lost =
                        IF SpansZero(receiver, t.cn) THEN skipped + 1 ELSE skipped
           [] OTHER -> TRUE]_vars

(* REQ-SAF-006, poll(): once the cycle's poll() is done, a synchronised    *)
(* receiver outside the safe state has accepted a telegram within the      *)
(* watchdog period.                                                        *)
SilenceIsBounded ==
  (receiver.synchronised /\ ~receiver.safe_state /\ "poll" \notin due)
    => now - receiver.last_valid_ns <= Watchdog
=============================================================================
