----------------------------- MODULE MCServices -----------------------------
\* Four services that share nothing, checked in one run: a behaviour is one of
\* a single service, chosen at the start; the others stay where they start.
EXTENDS ClusterManager, TenantManager, Autoscaler, ConfigStore

VARIABLE service

MCVars == <<service, clusterVars, tenantVars, scalerVars, storeVars>>

\* 30 s and 5 min, in ticks of 30 s; the longer one is cut down to 60 s.
ShortCooldown == [up |-> 1, down |-> 2]

NoTimes == [up |-> 0, down |-> 0]
Past == [up |-> 2, down |-> 2]

\* A policy on queue depth, named as in the policy's comment, whose target does
\* not divide the load; one on latency, with cooldowns and a time to come; and
\* one with neither target nor room.
FewSettings == {
  [min |-> 1, max |-> 3, metric |-> "gpu_util", target |-> 2,
   cooldown |-> NoTimes, since |-> Past],
  [min |-> 2, max |-> 4, metric |-> "latency", target |-> 3,
   cooldown |-> [up |-> 2, down |-> -1], since |-> [up |-> -1, down |-> 2]],
  [min |-> 3, max |-> 2, metric |-> "gpu_utilization", target |-> 0,
   cooldown |-> NoTimes, since |-> Past]}

\* A product of three replicas and the longest queue is beyond the greatest int.
FewSnapshots == {[replicas |-> n, queue |-> load[1], latency |-> load[2], gpu |-> load[3]] :
                   n \in {0, 1, 3}, load \in {<<0, 5, 1>>, <<2, 3, 0>>, <<5, 1, 2>>}}

MCInit ==
  /\ service \in {"cluster-manager", "tenant-manager", "autoscaler", "config-store"}
  /\ ClustersInit /\ TenantsInit /\ ScalerInit /\ StoreInit

MCNext ==
  \/ /\ service = "cluster-manager" /\ ClustersNext
     /\ UNCHANGED <<service, tenantVars, scalerVars, storeVars>>
  \/ /\ service = "tenant-manager" /\ TenantsNext
     /\ UNCHANGED <<service, clusterVars, scalerVars, storeVars>>
  \/ /\ service = "autoscaler" /\ ScalerNext
     /\ UNCHANGED <<service, clusterVars, tenantVars, storeVars>>
  \/ /\ service = "config-store" /\ StoreNext
     /\ UNCHANGED <<service, clusterVars, tenantVars, scalerVars>>

MCSpec == MCInit /\ [][MCNext]_MCVars
=============================================================================
