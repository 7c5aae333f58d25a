--------------------------- MODULE ClusterManager ---------------------------
(***************************************************************************)
(* The cluster manager: clusters are registered under an identifier of     *)
(* their own, agents send heartbeats for them, and a monitor marks those   *)
(* that have fallen silent. One lock guards the map, so that each handler  *)
(* and each round of the monitor is one step; heartbeats come when they    *)
(* come, late, twice, or for clusters that are not there.                  *)
(***************************************************************************)
EXTENDS Naturals, Maps

CONSTANTS
  ClusterIds,     \* identifiers that registrations generate, each once
  DegradedAfter,  \* 30 s
  OfflineAfter,   \* 60 s
  MonitorPeriod,  \* the monitor's ticker, 15 s
  AgeBound        \* bound: up to where the age of a heartbeat is counted

ASSUME ClusterManagerAssumption ==
  /\ DegradedAfter \in Nat /\ OfflineAfter \in Nat
  /\ MonitorPeriod \in Nat /\ AgeBound \in Nat
  /\ DegradedAfter <= OfflineAfter
  /\ OfflineAfter + MonitorPeriod < AgeBound

VARIABLES
  clusters,    \* ClusterStore.clusters: identifier -> status and age of the heartbeat
  registered,  \* identifiers handed out so far
  monitorAge,  \* time since the monitor's last round
  deleted      \* history: identifiers of clusters that were deleted

clusterVars == <<clusters, registered, monitorAge, deleted>>

-----------------------------------------------------------------------------
Statuses == {"pending", "healthy", "degraded", "offline"}
Cluster == [status : Statuses, age : 0 .. AgeBound]

\* Listed is what was registered and not deleted since: no late heartbeat or
\* round of the monitor brings a cluster to the list, or back to it.
ClustersTypeOK ==
  /\ DOMAIN clusters = registered \ deleted
  /\ registered \subseteq ClusterIds
  /\ deleted \subseteq registered
  /\ \A c \in DOMAIN clusters : clusters[c] \in Cluster
  /\ monitorAge \in 0 .. MonitorPeriod

ClustersInit ==
  /\ clusters = EmptyMap
  /\ registered = {}
  /\ monitorAge = 0
  /\ deleted = {}

-----------------------------------------------------------------------------
\* POST /api/clusters/register
Register(c) ==
  /\ c \in ClusterIds \ registered
  /\ clusters' = Put(clusters, c, [status |-> "pending", age |-> 0])
  /\ registered' = registered \cup {c}
  /\ UNCHANGED <<monitorAge, deleted>>

\* Mutant of UpdateHeartbeat: the agent's heartbeat enters the cluster.
HeartbeatUpserts(c) ==
  /\ clusters' = Put(clusters, c, [status |-> "healthy", age |-> 0])
  /\ UNCHANGED <<registered, monitorAge, deleted>>

\* POST /api/clusters/heartbeat; an unknown identifier is a 404.
UpdateHeartbeat(c) ==
  /\ c \in DOMAIN clusters
  /\ clusters' = [clusters EXCEPT ![c] = [status |-> "healthy", age |-> 0]]
  /\ UNCHANGED <<registered, monitorAge, deleted>>

\* DELETE /api/clusters/:id
DeleteCluster(c) ==
  /\ clusters' = Drop(clusters, c)
  /\ deleted' = deleted \cup ({c} \cap DOMAIN clusters)
  /\ UNCHANGED <<registered, monitorAge>>

\* Mutants of Judged: the cases of the switch changed places; a default that
\* takes whoever was heard of for healthy.
JudgedMildly(cluster) ==
  IF cluster.age > DegradedAfter THEN "degraded"
  ELSE IF cluster.age > OfflineAfter THEN "offline" ELSE cluster.status

JudgedWithDefault(cluster) ==
  IF cluster.age > OfflineAfter THEN "offline"
  ELSE IF cluster.age > DegradedAfter THEN "degraded" ELSE "healthy"

\* The status that a round of the monitor leaves a cluster with.
Judged(cluster) ==
  IF cluster.age > OfflineAfter THEN "offline"
  ELSE IF cluster.age > DegradedAfter THEN "degraded" ELSE cluster.status

\* A round of MonitorHealth.
MonitorHealth ==
  /\ monitorAge = MonitorPeriod
  /\ clusters' = [c \in DOMAIN clusters |->
                    [clusters[c] EXCEPT !.status = Judged(clusters[c])]]
  /\ monitorAge' = 0
  /\ UNCHANGED <<registered, deleted>>

\* A tick; a round of the monitor that is due comes first.
ClusterTick ==
  /\ monitorAge < MonitorPeriod
  /\ clusters' = [c \in DOMAIN clusters |->
                    [clusters[c] EXCEPT !.age = IF @ < AgeBound THEN @ + 1 ELSE @]]
  /\ monitorAge' = monitorAge + 1
  /\ UNCHANGED <<registered, deleted>>

ClustersNext ==
  \/ \E c \in ClusterIds : Register(c) \/ UpdateHeartbeat(c) \/ DeleteCluster(c)
  \/ MonitorHealth
  \/ ClusterTick

ClustersSpec == ClustersInit /\ [][ClustersNext]_clusterVars

-----------------------------------------------------------------------------
(* Properties *)

Rank(status) == CASE status = "healthy" -> 3 [] status = "pending" -> 2
                  [] status = "degraded" -> 1 [] status = "offline" -> 0

\* A cluster is called degraded or offline within a round of the monitor after
\* the time to do so, and never earlier; "healthy" does not outlive a silence.
StatusIsTimely ==
  \A c \in DOMAIN clusters :
    LET age == clusters[c].age
    IN CASE clusters[c].status = "offline"  -> age > OfflineAfter
         [] clusters[c].status = "degraded" -> /\ age > DegradedAfter
                                               /\ age <= OfflineAfter + MonitorPeriod
         [] OTHER                           -> age <= DegradedAfter + MonitorPeriod

\* A cluster's status gets better with a heartbeat only, whatever rounds of
\* the monitor and registrations of others come in between.
OnlyHeartbeatsHeal ==
  [][\A c \in DOMAIN clusters \cap DOMAIN clusters' :
       Rank(clusters'[c].status) > Rank(clusters[c].status) => clusters'[c].age = 0]_clusterVars
=============================================================================
