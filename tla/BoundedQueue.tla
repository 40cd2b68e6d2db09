---------------------------- MODULE BoundedQueue -----------------------------
(***************************************************************************)
(* What SpscRing promises (REQ-RT-004): a first-in first-out queue of at   *)
(* most Capacity elements.  The elements are numbered as they are pushed.  *)
(***************************************************************************)
EXTENDS Naturals

CONSTANT Capacity

VARIABLES
  pushed,  \* the number of elements pushed
  popped,  \* the number of elements popped
  out      \* the element popped last

Init == pushed = 0 /\ popped = 0 /\ out = 0

Push ==
  /\ pushed - popped < Capacity
  /\ pushed' = pushed + 1
  /\ UNCHANGED <<popped, out>>

(* Element number popped + 1 is the oldest one still queued.               *)
Pop ==
  /\ popped < pushed
  /\ popped' = popped + 1
  /\ out' = popped + 1
  /\ UNCHANGED pushed

Next == Push \/ Pop

Spec == Init /\ [][Next]_<<pushed, popped, out>>
=============================================================================
