--------------------------- MODULE MCFulfillment ---------------------------
(* Small instances of Fulfillment for TLC. *)
EXTENDS Fulfillment, TLC

Symmetry == Permutations(RefundIds) \cup Permutations(OrderIds)
=============================================================================
