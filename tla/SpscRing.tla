------------------------------ MODULE SpscRing -------------------------------
(***************************************************************************)
(* concurrent::SpscRing of include/safeedge/concurrent/spsc_ring.hpp, one  *)
(* step per access to memory the other side can see.  Each side keeps a    *)
(* cached copy of the other's position and refreshes it only when the ring *)
(* looks full, or empty.                                                   *)
(*                                                                         *)
(* The element of a push is its number.  A position is a counter modulo    *)
(* PosModulus, 2^64 in the code.  A slot is accessed in a step of its own, *)
(* after the decision to use it and before its position is published.      *)
(***************************************************************************)
EXTENDS Integers

CONSTANTS
  Capacity,
  PosModulus,  \* positions wrap here; a multiple of Capacity
  MaxPushes    \* bound on the elements pushed

ASSUME SpscAssumption ==
  /\ Capacity \in Nat \ {0, 1}
  /\ PosModulus \in Nat /\ PosModulus > Capacity /\ PosModulus % Capacity = 0
  /\ MaxPushes \in Nat

VARIABLES
  slots,
  write_pos, cached_read_pos,  \* ProducerState
  read_pos, cached_write_pos,  \* ConsumerState
  producer, consumer,          \* where emplaceFrom() and tryPop() are
  taken,                       \* what the tryPop() under way moved out of its slot
  out,                         \* what the last successful tryPop() returned
  pushed, popped               \* history: pushes and pops that returned true

producerVars == <<write_pos, cached_read_pos, producer, pushed>>
consumerVars == <<read_pos, cached_write_pos, consumer, taken, out, popped>>
ring         == <<slots, producerVars, consumerVars>>

Position == 0 .. PosModulus - 1
Index    == 0 .. Capacity - 1

(* What a slot holds once its element has been moved out of it.            *)
MovedFrom == 0

RingType ==
  /\ slots \in [Index -> Nat]
  /\ write_pos \in Position /\ cached_read_pos \in Position
  /\ read_pos \in Position /\ cached_write_pos \in Position
  /\ producer \in {"idle", "refresh", "slot", "publish"}
  /\ consumer \in {"idle", "refresh", "slot", "publish"}
  /\ taken \in Nat /\ out \in Nat /\ pushed \in Nat /\ popped \in Nat

RingInit ==
  /\ slots = [i \in Index |-> MovedFrom]
  /\ write_pos = 0 /\ cached_read_pos = 0
  /\ read_pos = 0 /\ cached_write_pos = 0
  /\ producer = "idle" /\ consumer = "idle"
  /\ taken = 0 /\ out = 0 /\ pushed = 0 /\ popped = 0

Slot(pos) == pos % Capacity

(* write - read >= Capacity, in unsigned arithmetic.                       *)
LooksFull(write, read) == (write - read) % PosModulus >= Capacity
-----------------------------------------------------------------------------
(* emplaceFrom() up to its first decision, which only reads what the       *)
(* producer owns.                                                          *)
PushBegin ==
  /\ producer = "idle" /\ pushed < MaxPushes
  /\ producer' = IF LooksFull(write_pos, cached_read_pos) THEN "refresh" ELSE "slot"
  /\ UNCHANGED <<slots, write_pos, cached_read_pos, pushed, consumerVars>>

M_PushGivesUp ==
  /\ producer = "refresh"
  /\ cached_read_pos' = read_pos
  /\ producer' = "idle"
  /\ UNCHANGED <<slots, write_pos, pushed, consumerVars>>

(* The acquire load of read_pos: still full, tryPush() returns false.      *)
PushRefresh ==
  /\ producer = "refresh"
  /\ cached_read_pos' = read_pos
  /\ producer' = IF LooksFull(write_pos, read_pos) THEN "idle" ELSE "slot"
  /\ UNCHANGED <<slots, write_pos, pushed, consumerVars>>

M_PushNextSlot ==
  /\ producer = "slot"
  /\ slots' = [slots EXCEPT ![Slot(write_pos + 1)] = pushed + 1]
  /\ producer' = "publish"
  /\ UNCHANGED <<write_pos, cached_read_pos, pushed, consumerVars>>

PushSlot ==
  /\ producer = "slot"
  /\ slots' = [slots EXCEPT ![Slot(write_pos)] = pushed + 1]
  /\ producer' = "publish"
  /\ UNCHANGED <<write_pos, cached_read_pos, pushed, consumerVars>>

(* The release store of write_pos: tryPush() returns true.                 *)
PushPublish ==
  /\ producer = "publish"
  /\ write_pos' = (write_pos + 1) % PosModulus
  /\ pushed' = pushed + 1
  /\ producer' = "idle"
  /\ UNCHANGED <<slots, cached_read_pos, consumerVars>>
-----------------------------------------------------------------------------
M_PopTrustsCache ==
  /\ consumer = "idle"
  /\ consumer' = IF read_pos = cached_write_pos THEN "idle" ELSE "slot"
  /\ UNCHANGED <<slots, read_pos, cached_write_pos, taken, out, popped, producerVars>>

(* tryPop() up to its first decision.                                      *)
PopBegin ==
  /\ consumer = "idle"
  /\ consumer' = IF read_pos = cached_write_pos THEN "refresh" ELSE "slot"
  /\ UNCHANGED <<slots, read_pos, cached_write_pos, taken, out, popped, producerVars>>

M_PopUnchecked ==
  /\ consumer = "refresh"
  /\ cached_write_pos' = write_pos
  /\ consumer' = "slot"
  /\ UNCHANGED <<slots, read_pos, taken, out, popped, producerVars>>

(* The acquire load of write_pos: still empty, tryPop() returns false.     *)
PopRefresh ==
  /\ consumer = "refresh"
  /\ cached_write_pos' = write_pos
  /\ consumer' = IF read_pos = write_pos THEN "idle" ELSE "slot"
  /\ UNCHANGED <<slots, read_pos, taken, out, popped, producerVars>>

PopSlot ==
  /\ consumer = "slot"
  /\ taken' = slots[Slot(read_pos)]
  /\ slots' = [slots EXCEPT ![Slot(read_pos)] = MovedFrom]
  /\ consumer' = "publish"
  /\ UNCHANGED <<read_pos, cached_write_pos, out, popped, producerVars>>

(* The release store of read_pos: tryPop() returns true with taken.        *)
PopPublish ==
  /\ consumer = "publish"
  /\ read_pos' = (read_pos + 1) % PosModulus
  /\ out' = taken
  /\ popped' = popped + 1
  /\ consumer' = "idle"
  /\ UNCHANGED <<slots, cached_write_pos, taken, producerVars>>

Push == PushBegin \/ PushRefresh \/ PushSlot \/ PushPublish
Pop  == PopBegin \/ PopRefresh \/ PopSlot \/ PopPublish
RingNext == Push \/ Pop

RingSpec == RingInit /\ [][RingNext]_ring

(* Both threads keep calling: the consumer drains, the producer retries.   *)
FairRing == RingSpec /\ WF_ring(Push) /\ WF_ring(Pop)
-----------------------------------------------------------------------------
(* The contract of SpscRing, a FIFO queue of Capacity elements: with every *)
(* interleaving of the two sides' accesses, stale caches and the wrap of   *)
(* the positions, nothing is lost, repeated, reordered or overwritten.     *)
Queue == INSTANCE BoundedQueue
ImplementsQueue == Queue!Spec

(* The release/acquire comments of tryPop() and emplaceFrom(): the two     *)
(* sides are never at the same slot at once, the access to a slot being a  *)
(* plain one.                                                              *)
NoSlotRace ==
  ~ /\ producer = "slot" /\ consumer = "slot"
    /\ Slot(write_pos) = Slot(read_pos)

(* "genuinely full" and "genuinely empty": when a side returns false, the  *)
(* ring is full, or empty, at the moment it looked.                        *)
FalseIsGenuine ==
  [][/\ (producer = "refresh" /\ producer' = "idle") => pushed - popped = Capacity
     /\ (consumer = "refresh" /\ consumer' = "idle") => pushed = popped]_ring

(* tryPop() and the release store of write_pos: whatever is pushed is      *)
(* popped, neither side waiting for the other for ever.                    *)
EverythingIsPopped == \A n \in 1 .. MaxPushes : pushed >= n ~> popped >= n
=============================================================================
