---- MODULE MCFederation ----
EXTENDS Federation, TLC
\* Calls and JWTs are interchangeable.
Symmetry == Permutations(Calls) \cup Permutations(Jwts)
====
