------------------------- MODULE MCFunctionManager -------------------------
\* FunctionManager on small instances. Every name is its own slug. Goroutine
\* and handler slots are interchangeable, so the safety runs permute them.
EXTENDS FunctionManager, TLC

MCSlug == [n \in Names |-> n]

\* Without its dashes a cluster's name may be the start of another's, as that of
\* "f-123456" is of "f-1-234567": here the cluster of the function's instance 1
\* finds the service of instance 2 too.
MCMatches == {p \in Clusters \X Clusters : p[1] = p[2] \/ (p[1][2] = 1 /\ p[2][2] = 2)}

Symmetry == Permutations(Routines) \cup Permutations(Teardowns)
=============================================================================
