-------------------------- MODULE InstanceLifecycle --------------------------
(***************************************************************************)
(* What the function manager promises about an instance's identifier, and  *)
(* the deployment manager about a deployment's: it is handed out at most   *)
(* once, it is "deploying" until its deployment has an outcome, an outcome *)
(* is never taken back, and what is gone never comes back.                 *)
(***************************************************************************)
CONSTANT Ids        \* identifiers

VARIABLE phase      \* what a client that polls the identifier sees

Phases == {"none", "deploying", "settled", "gone"}
Live == {"deploying", "settled"}

LifecycleTypeOK == phase \in [Ids -> Phases]

LifecycleInit == phase = [i \in Ids |-> "none"]

HandOut(i, p) == /\ phase[i] = "none"
                 /\ phase' = [phase EXCEPT ![i] = p]

Settle(i) == /\ phase[i] = "deploying"
             /\ phase' = [phase EXCEPT ![i] = "settled"]

Remove(i) == /\ phase[i] \in Live
             /\ phase' = [phase EXCEPT ![i] = "gone"]

\* The managers keep what they know in memory only.
Forget == phase' = [i \in Ids |-> IF phase[i] \in Live THEN "gone" ELSE phase[i]]

LifecycleNext ==
  \/ \E i \in Ids : HandOut(i, "deploying") \/ HandOut(i, "settled")
                    \/ Settle(i) \/ Remove(i)
  \/ Forget

LifecycleSpec == LifecycleInit /\ [][LifecycleNext]_phase

\* A deployment ends, one way or another.
Concludes == \A i \in Ids : phase[i] = "deploying" ~> phase[i] # "deploying"
=============================================================================
