----------------------------- MODULE MCSimulator -----------------------------
(* Instances of SimulatorRun. *)
EXTENDS SimulatorRun, TLC

Symmetry == Permutations(Loops) \cup Permutations(Callers) \cup Permutations(Merchants)
=============================================================================
