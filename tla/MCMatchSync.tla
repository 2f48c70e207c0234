----------------------------- MODULE MCMatchSync -----------------------------
EXTENDS MatchSyncProperties, TLC

CONSTANTS m1, m2, m3

\* One match on the first day, the others on the second if there is one.
MCDayOf == [m \in Match |-> IF 2 \in Day /\ m # m1 THEN 2 ELSE 1]

Symmetry == Permutations(Worker) \cup Permutations(Job)
=============================================================================
