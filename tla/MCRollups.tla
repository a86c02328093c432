----------------------------- MODULE MCRollups -----------------------------
EXTENDS Rollups

(* What the RRDs hold: rounds of a target the hub does not probe yet, of   *)
(* the first day, of two days apart, and of one the hub probes too.        *)
Rows(target, days) == {[target |-> target, day |-> d] : d \in days}
MCHistories == {Rows("b", {1}), Rows("b", {2, 4}), Rows("a", {1, 3})}

=============================================================================
