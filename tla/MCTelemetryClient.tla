-------------------------- MODULE MCTelemetryClient --------------------------
(* Small instances of TelemetryClient for TLC. *)
EXTENDS TelemetryClient, TLC

Symmetry == Permutations(Procs)
=============================================================================
