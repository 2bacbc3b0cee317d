---------------------------- MODULE MCStateStore ----------------------------
(* Two addresses, two codes and three ids: two live accounts that share a  *)
(* code or not, and a re-creation.  A portion of 3 is one table with a     *)
(* value, its queue row and a part of the next table; 1 is half a table.   *)
EXTENDS StateStore

\* The portions do include part of a table and more than one.
ASSUME PortionsAssumption == \E p, q \in Portions : 0 < p /\ p < q
=============================================================================
