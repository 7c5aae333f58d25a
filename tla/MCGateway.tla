------------------------------ MODULE MCGateway ------------------------------
\* Gateway on small instances: whose function, tenant and name an instance has.
EXTENDS Gateway

CONSTANTS f1, f2, i1, t1

OneFn == [i \in Insts |-> f1]
TwoFns == [i \in Insts |-> IF i = i1 THEN f1 ELSE f2]

TenantsInsts == [i \in Insts |-> t1]

Nameless == [i \in Insts |-> NoModel]

\* Where all instances are alike, they may change places as handlers may.
HandlerSymmetry == Permutations(Requests)
Symmetry == HandlerSymmetry \cup Permutations(Insts)
=============================================================================
