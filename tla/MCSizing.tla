------------------------------- MODULE MCSizing -------------------------------
(* Blocking targets large enough to be met within the capacities explored. *)
EXTENDS Sizing

MCTargets == {[num |-> n, den |-> d] : <<n, d>> \in {<<1, 2>>, <<2, 3>>, <<3, 5>>}}
=============================================================================
