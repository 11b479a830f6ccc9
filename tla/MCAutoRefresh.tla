---------------------------- MODULE MCAutoRefresh ----------------------------
(* Instances of AutoRefresh for TLC.                                       *)
EXTENDS AutoRefresh, TLC

Symmetry == Permutations(Callers) \cup Permutations(Tasks)
=============================================================================
