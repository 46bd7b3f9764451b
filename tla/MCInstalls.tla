----------------------------- MODULE MCInstalls -----------------------------
(* Small instances of Installs for TLC. *)
EXTENDS Installs, TLC

Symmetry == Permutations(Procs)
=============================================================================
