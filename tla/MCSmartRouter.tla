---------------------------- MODULE MCSmartRouter ----------------------------
\* SmartRouter on small instances: an idle distant cluster, a near one with one
\* slot left, and a full one.
EXTENDS SmartRouter, TLC

Load(active, latency, models) ==
  [active |-> active, capacity |-> 2, latency |-> latency, models |-> models]

ThreeReports == {Load(0, 200, {}), Load(1, 0, Models), Load(2, 0, Models)}

Symmetry == Permutations(Clusters) \cup Permutations(Requests)
=============================================================================
