---------------------------- MODULE MCKeysetCache ----------------------------
(* KeysetCache for TLC: the calls of `keyset` are interchangeable, and so   *)
(* are the names.                                                           *)
EXTENDS KeysetCache, TLC

OtherIds == Ids \ {Default}
Symmetry == Permutations(Selections) \cup Permutations(Names)
              \cup Permutations(OtherIds)
=============================================================================
