---------------------------- MODULE MCStatsStore ----------------------------
(* Instances of StatsStore for TLC. *)
EXTENDS StatsStore, TLC

Symmetry == Permutations(Visit) \cup Permutations(Worker)
=============================================================================
