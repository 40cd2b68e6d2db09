---------------------------- MODULE LatestValue ------------------------------
(***************************************************************************)
(* What SeqlockSlot promises (REQ-IPC-006, 009): a register that holds the *)
(* value of the last completed store().  A load returns, in one atomic     *)
(* step, the whole of the value the register holds at that moment, or      *)
(* nothing.                                                                *)
(***************************************************************************)
EXTENDS Naturals

CONSTANTS Readers, Words, NoValue

VARIABLES
  value,   \* the number of the store whose value the register holds
  result   \* what each reader's last load returned, word by word

Whole(v) == [w \in Words |-> v]

Init == value = 0 /\ result = [r \in Readers |-> NoValue]

Publish == value' = value + 1 /\ UNCHANGED result

Load(r) == result' = [result EXCEPT ![r] = Whole(value)] /\ UNCHANGED value

Fail(r) == result' = [result EXCEPT ![r] = NoValue] /\ UNCHANGED value

Next == Publish \/ \E r \in Readers : Load(r) \/ Fail(r)

Spec == Init /\ [][Next]_<<value, result>>
=============================================================================
