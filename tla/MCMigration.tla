---- MODULE MCMigration ----
EXTENDS Migration, TLC
\* Workers are interchangeable.
Symmetry == Permutations(Workers)
\* The twin is empty, stale or current throughout; every row has a value.
MCInit ==
  /\ Init
  /\ \A r \in Rows : latest[r] = 1
  /\ \E c \in Columns :
       \/ \A r \in Rows : col[c][r] = 0
       \/ \A r \in Rows : col[c][r] = -1
       \/ col[c] = latest /\ \A e \in Columns : col[e] = latest
MCSpec == MCInit /\ [][Next]_vars
====
