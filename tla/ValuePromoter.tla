--------------------------- MODULE ValuePromoter ----------------------------
(***************************************************************************)
(* value_promoter.hpp: a setting whose new value, written in one EVM       *)
(* block, is used from the next EVM block on.  A promoter is a record: the *)
(* cached value, the pending one and the EVM block it was written in       *)
(* (Unset when there is none).                                             *)
(***************************************************************************)
EXTENDS Integers

Unset == -1

Promoter(v) == [cached |-> v, pending |-> v, since |-> Unset]

\* is_active, written with >= as if a value were used in its own block
IsActiveAtOnce(p, now) == p.since # Unset /\ now >= p.since

\* is_active of the pending value, if there is one
IsActive(p, now) == p.since # Unset /\ now > p.since

\* get_value
GetValue(p, now) == IF IsActive(p, now) THEN p.pending ELSE p.cached

\* get_value_and_maybe_promote, with promote_pending
MaybePromote(p, now) == IF IsActive(p, now) THEN Promoter(p.pending) ELSE p

\* update
Update(p, v, now) == [MaybePromote(p, now) EXCEPT !.pending = v, !.since = now]
=============================================================================
