--------------------------- MODULE BoundedCounter ---------------------------
(***************************************************************************)
(* What a row of the bridge promises: an exact amount, in the smallest EVM *)
(* unit, that never leaves 0..Cap.  An operation whose exact result would  *)
(* leave the range does not happen at all (the transaction aborts).        *)
(***************************************************************************)
EXTENDS Integers

CONSTANTS Cap,      \* the largest amount a row can hold
          Amounts   \* the amounts operations are called with

VARIABLE value

Init == value = 0

Add(x) == value + x <= Cap /\ value' = value + x

Subtract(x) == x <= value /\ value' = value - x

Next == \E x \in Amounts : Add(x) \/ Subtract(x)

Spec == Init /\ [][Next]_value
=============================================================================
