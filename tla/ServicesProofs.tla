---------------------------- MODULE ServicesProofs ----------------------------
(***************************************************************************)
(* Proofs about the four services that share nothing, for every value of   *)
(* their constants: the cluster manager, the tenant manager, the config    *)
(* store and the autoscaler controller. Each has its own inductive         *)
(* invariant.                                                              *)
(***************************************************************************)
EXTENDS ClusterManager, TenantManager, ConfigStore, Autoscaler, TLAPS

-----------------------------------------------------------------------------
(* The cluster manager *)

\* What a status says of the age of the heartbeat, given how long ago the
\* monitor has looked. StatusIsTimely forgets the latter and is not inductive:
\* a tick could take a status over its bound.
Timely(cluster) ==
  /\ cluster.status \in {"healthy", "pending"} => cluster.age <= DegradedAfter + monitorAge
  /\ cluster.status = "degraded" => /\ DegradedAfter < cluster.age
                                    /\ cluster.age <= OfflineAfter + monitorAge
  /\ cluster.status = "offline" => OfflineAfter < cluster.age

ClusterInv == ClustersTypeOK /\ \A c \in DOMAIN clusters : Timely(clusters[c])

LEMMA ClusterInvInit == ClustersInit => ClusterInv
  BY ClusterManagerAssumption DEF ClustersInit, ClusterInv, ClustersTypeOK, EmptyMap

\* One cluster is listed with a heartbeat of this moment.
LEMMA ClusterInvPut ==
  ASSUME ClusterInv, NEW c \in ClusterIds, NEW s \in {"pending", "healthy"},
         clusters' = Put(clusters, c, [status |-> s, age |-> 0]),
         registered' \subseteq ClusterIds, registered' = registered \cup {c},
         c \notin deleted, deleted' = deleted, monitorAge' = monitorAge
  PROVE  ClusterInv'
<1> DEFINE new == [status |-> s, age |-> 0]
<1>1. DOMAIN clusters' = DOMAIN clusters \cup {c}
  BY DEF Put
<1>2. \A d \in DOMAIN clusters' : clusters'[d] = IF d = c THEN new ELSE clusters[d]
  BY <1>1 DEF Put
<1>3. new \in Cluster
  BY ClusterManagerAssumption DEF Cluster, Statuses
<1>4. \A d \in DOMAIN clusters' : clusters'[d] \in Cluster
  BY <1>1, <1>2, <1>3 DEF ClusterInv, ClustersTypeOK
<1>5. ClustersTypeOK'
  BY <1>1, <1>4 DEF ClusterInv, ClustersTypeOK
<1>6. monitorAge \in Nat
  BY ClusterManagerAssumption DEF ClusterInv, ClustersTypeOK
<1>7. Timely(new)'
  BY <1>6, ClusterManagerAssumption DEF Timely
<1>8. ASSUME NEW d \in DOMAIN clusters' PROVE Timely(clusters[d])'
  <2>1. CASE d = c
    BY <2>1, <1>2, <1>7
  <2>2. CASE d # c
    <3>1. d \in DOMAIN clusters /\ clusters'[d] = clusters[d]
      BY <2>2, <1>1, <1>2
    <3> QED
      BY <3>1 DEF ClusterInv, Timely
  <2> QED
    BY <2>1, <2>2
<1> QED
  BY <1>5, <1>8 DEF ClusterInv

\* What a round of the monitor says of a cluster is right at that moment, and
\* is no better than what was said before.
LEMMA JudgedIsTimely ==
  ASSUME NEW cluster \in Cluster, Timely(cluster), monitorAge \in 0 .. MonitorPeriod,
         monitorAge' = 0
  PROVE  LET judged == [cluster EXCEPT !.status = Judged(cluster)]
         IN /\ judged \in Cluster
            /\ Timely(judged)'
            /\ Rank(judged.status) <= Rank(cluster.status)
<1> DEFINE judged == [cluster EXCEPT !.status = Judged(cluster)]
<1>1. cluster.age \in Nat /\ cluster.status \in Statuses
  BY ClusterManagerAssumption DEF Cluster
<1>2. /\ DegradedAfter \in Nat /\ OfflineAfter \in Nat /\ DegradedAfter <= OfflineAfter
      /\ monitorAge \in Nat
  BY ClusterManagerAssumption
<1>3. Judged(cluster) \in Statuses
  BY <1>1 DEF Judged, Statuses
<1>4. judged \in Cluster /\ judged.age = cluster.age /\ judged.status = Judged(cluster)
  BY <1>3 DEF Cluster
<1>5. CASE cluster.age > OfflineAfter
  <2>1. judged.status = "offline"
    BY <1>4, <1>5 DEF Judged
  <2> QED
    BY <2>1, <1>1, <1>2, <1>4, <1>5 DEF Timely, Rank, Statuses
<1>6. CASE cluster.age <= OfflineAfter /\ cluster.age > DegradedAfter
  <2>1. judged.status = "degraded" /\ cluster.status # "offline"
    BY <1>1, <1>2, <1>4, <1>6 DEF Judged, Timely
  <2> QED
    BY <2>1, <1>1, <1>2, <1>4, <1>6 DEF Timely, Rank, Statuses
<1>7. CASE cluster.age <= DegradedAfter
  <2>1. judged.status = cluster.status /\ cluster.status \in {"healthy", "pending"}
    BY <1>1, <1>2, <1>4, <1>7 DEF Judged, Timely, Statuses
  <2> QED
    BY <2>1, <1>1, <1>2, <1>4, <1>7 DEF Timely, Rank, Statuses
<1> QED
  BY <1>1, <1>2, <1>5, <1>6, <1>7

LEMMA ClusterInvMonitor ==
  ASSUME ClusterInv, MonitorHealth
  PROVE  ClusterInv'
<1>1. /\ DOMAIN clusters' = DOMAIN clusters /\ monitorAge' = 0
      /\ registered' = registered /\ deleted' = deleted
  BY DEF MonitorHealth
<1>2. ASSUME NEW c \in DOMAIN clusters'
      PROVE  clusters'[c] \in Cluster /\ Timely(clusters[c])'
  <2>1. clusters'[c] = [clusters[c] EXCEPT !.status = Judged(clusters[c])]
    BY <1>1 DEF MonitorHealth
  <2> QED
    BY <1>1, <2>1, JudgedIsTimely DEF ClusterInv, ClustersTypeOK
<1> QED
  BY <1>1, <1>2, ClusterManagerAssumption DEF ClusterInv, ClustersTypeOK

LEMMA ClusterInvTick ==
  ASSUME ClusterInv, ClusterTick
  PROVE  ClusterInv'
<1>1. /\ DOMAIN clusters' = DOMAIN clusters /\ registered' = registered /\ deleted' = deleted
      /\ monitorAge \in 0 .. MonitorPeriod /\ monitorAge < MonitorPeriod
      /\ monitorAge' = monitorAge + 1
  BY DEF ClusterTick, ClusterInv, ClustersTypeOK
<1>2. /\ DegradedAfter \in Nat /\ OfflineAfter \in Nat /\ MonitorPeriod \in Nat
      /\ AgeBound \in Nat
  BY ClusterManagerAssumption
<1>3. ASSUME NEW c \in DOMAIN clusters
      PROVE  clusters'[c] \in Cluster /\ Timely(clusters[c])'
  <2> DEFINE age == clusters[c].age
             older == IF age < AgeBound THEN age + 1 ELSE age
  <2>1. clusters[c] \in Cluster /\ Timely(clusters[c])
    BY <1>3 DEF ClusterInv, ClustersTypeOK
  <2>2. clusters'[c] = [clusters[c] EXCEPT !.age = older]
    BY <1>3 DEF ClusterTick
  <2>3. age \in 0 .. AgeBound
    BY <2>1 DEF Cluster
  <2>4. older \in 0 .. AgeBound /\ age <= older /\ older <= age + 1
    BY <2>3, <1>2
  <2>5. /\ clusters'[c] \in Cluster /\ clusters'[c].age = older
        /\ clusters'[c].status = clusters[c].status
    BY <2>1, <2>2, <2>4 DEF Cluster
  <2> HIDE DEF older
  <2>6. Timely(clusters[c])'
    BY <1>1, <1>2, <2>1, <2>3, <2>4, <2>5 DEF Timely
  <2> QED
    BY <2>5, <2>6
<1> QED
  BY <1>1, <1>2, <1>3 DEF ClusterInv, ClustersTypeOK

LEMMA ClusterInvNext == ClusterInv /\ [ClustersNext]_clusterVars => ClusterInv'
<1> SUFFICES ASSUME ClusterInv, [ClustersNext]_clusterVars PROVE ClusterInv'
  OBVIOUS
<1>1. ASSUME NEW c \in ClusterIds, Register(c) PROVE ClusterInv'
  BY <1>1, ClusterInvPut DEF Register, ClusterInv, ClustersTypeOK
<1>2. ASSUME NEW c \in ClusterIds, UpdateHeartbeat(c) PROVE ClusterInv'
  <2>1. clusters' = Put(clusters, c, [status |-> "healthy", age |-> 0])
    BY <1>2 DEF UpdateHeartbeat, Put
  <2>2. /\ registered' = registered /\ monitorAge' = monitorAge /\ deleted' = deleted
        /\ c \in registered /\ c \notin deleted /\ registered \subseteq ClusterIds
    BY <1>2 DEF UpdateHeartbeat, ClusterInv, ClustersTypeOK
  <2>3. registered' \subseteq ClusterIds /\ registered' = registered \cup {c}
    BY <2>2
  <2> QED
    BY <2>1, <2>2, <2>3, ClusterInvPut
<1>3. ASSUME NEW c \in ClusterIds, DeleteCluster(c) PROVE ClusterInv'
  <2>1. /\ DOMAIN clusters' = DOMAIN clusters \ {c}
        /\ \A d \in DOMAIN clusters' : clusters'[d] = clusters[d]
        /\ registered' = registered /\ monitorAge' = monitorAge
        /\ deleted' = deleted \cup ({c} \cap DOMAIN clusters)
    BY <1>3 DEF DeleteCluster, Drop, Restrict
  <2>2. \A d \in DOMAIN clusters' : Timely(clusters[d])'
    BY <2>1 DEF ClusterInv, Timely
  <2> QED
    BY <2>1, <2>2 DEF ClusterInv, ClustersTypeOK
<1>4. CASE MonitorHealth
  BY <1>4, ClusterInvMonitor
<1>5. CASE ClusterTick
  BY <1>5, ClusterInvTick
<1>6. CASE UNCHANGED clusterVars
  BY <1>6 DEF clusterVars, ClusterInv, ClustersTypeOK, Timely
<1> QED
  BY <1>1, <1>2, <1>3, <1>4, <1>5, <1>6 DEF ClustersNext

LEMMA ClusterInvariant == ClustersSpec => []ClusterInv
<1>1. ClusterInv /\ [ClustersNext]_clusterVars => ClusterInv'
  BY ClusterInvNext
<1> QED
  BY <1>1, ClusterInvInit, PTL DEF ClustersSpec

-----------------------------------------------------------------------------
\* Every reachable state of the cluster manager is well typed: listed is what
\* was registered and not deleted since, whatever heartbeats come late.
THEOREM ClustersTypeCorrect == ClustersSpec => []ClustersTypeOK
<1>1. ClusterInv => ClustersTypeOK
  BY DEF ClusterInv
<1> QED
  BY <1>1, ClusterInvariant, PTL

\* The monitor calls a cluster degraded or offline within one of its rounds
\* after the time to do so, and never earlier, for all thresholds and periods.
THEOREM StatusIsAlwaysTimely == ClustersSpec => []StatusIsTimely
<1>1. ClusterInv => StatusIsTimely
  <2> SUFFICES ASSUME ClusterInv, NEW c \in DOMAIN clusters
               PROVE  LET age == clusters[c].age
                      IN CASE clusters[c].status = "offline"  -> age > OfflineAfter
                           [] clusters[c].status = "degraded" -> /\ age > DegradedAfter
                                                                 /\ age <= OfflineAfter + MonitorPeriod
                           [] OTHER                           -> age <= DegradedAfter + MonitorPeriod
    BY DEF StatusIsTimely
  <2>1. /\ clusters[c] \in Cluster /\ Timely(clusters[c])
        /\ monitorAge \in 0 .. MonitorPeriod
    BY DEF ClusterInv, ClustersTypeOK
  <2>2. clusters[c].age \in Nat /\ clusters[c].status \in Statuses
    BY <2>1, ClusterManagerAssumption DEF Cluster
  <2> QED
    BY <2>1, <2>2, ClusterManagerAssumption DEF Timely, Statuses
<1> QED
  BY <1>1, ClusterInvariant, PTL

\* A status gets better with a heartbeat only: neither the monitor nor time,
\* nor a registration, turns an offline cluster into a degraded one.
THEOREM StatusHealsByHeartbeat == ClustersSpec => OnlyHeartbeatsHeal
<1> DEFINE Heals == \A c \in DOMAIN clusters \cap DOMAIN clusters' :
              Rank(clusters'[c].status) > Rank(clusters[c].status) => clusters'[c].age = 0
<1>1. ClusterInv /\ [ClustersNext]_clusterVars => [Heals]_clusterVars
  <2> SUFFICES ASSUME ClusterInv, ClustersNext,
                      NEW c \in DOMAIN clusters \cap DOMAIN clusters'
               PROVE  Rank(clusters'[c].status) > Rank(clusters[c].status)
                        => clusters'[c].age = 0
    OBVIOUS
  <2>1. clusters[c] \in Cluster /\ Timely(clusters[c]) /\ monitorAge \in 0 .. MonitorPeriod
    BY DEF ClusterInv, ClustersTypeOK
  <2>2. Rank(clusters[c].status) \in Nat
    BY <2>1 DEF Cluster, Statuses, Rank
  <2>3. ASSUME NEW d \in ClusterIds, Register(d) PROVE clusters'[c] = clusters[c]
    BY <2>3 DEF Register, Put, ClusterInv, ClustersTypeOK
  <2>4. ASSUME NEW d \in ClusterIds, UpdateHeartbeat(d)
        PROVE  clusters'[c] = clusters[c] \/ clusters'[c].age = 0
    BY <2>4 DEF UpdateHeartbeat
  <2>5. ASSUME NEW d \in ClusterIds, DeleteCluster(d) PROVE clusters'[c] = clusters[c]
    BY <2>5 DEF DeleteCluster, Drop, Restrict
  <2>6. CASE MonitorHealth
    <3>1. clusters'[c] = [clusters[c] EXCEPT !.status = Judged(clusters[c])] /\ monitorAge' = 0
      BY <2>6 DEF MonitorHealth
    <3>2. clusters'[c] \in Cluster /\ Rank(clusters'[c].status) <= Rank(clusters[c].status)
      BY <2>1, <3>1, JudgedIsTimely
    <3>3. Rank(clusters'[c].status) \in Nat
      BY <3>2 DEF Cluster, Statuses, Rank
    <3> QED
      BY <2>2, <3>2, <3>3
  <2>7. CASE ClusterTick
    <3>1. clusters'[c].status = clusters[c].status
      BY <2>1, <2>7 DEF ClusterTick, Cluster
    <3> QED
      BY <2>2, <3>1
  <2> QED
    BY <2>2, <2>3, <2>4, <2>5, <2>6, <2>7 DEF ClustersNext
<1>2. ClustersSpec => [][Heals]_clusterVars
  BY <1>1, ClusterInvariant, PTL DEF ClustersSpec
<1> QED
  BY <1>2 DEF OnlyHeartbeatsHeal

-----------------------------------------------------------------------------
(* The tenant manager *)

\* Why a tenant is billed for its own requests only: a request under way has
\* the tenant its key leads to, and no other key than its own leads to a
\* tenant whose identifier was given once.
KeysAreOwn ==
  /\ \A q \in Callers :
       caller[q] # IdleCaller => /\ caller[q].key \in DOMAIN keyIndex
                                 /\ caller[q].tenant = keyIndex[caller[q].key]
  /\ \A k \in DOMAIN keyIndex :
       keyIndex[k] \notin collided => k = tenants[keyIndex[k]].key

TenantInv == TenantsTypeOK /\ KeysAreOwn /\ BilledIsOwn

LEMMA TenantInvInit == TenantsInit => TenantInv
<1> SUFFICES ASSUME TenantsInit PROVE TenantInv
  OBVIOUS
<1>1. DOMAIN tenants = {} /\ DOMAIN keyIndex = {} /\ collided = {}
  BY DEF TenantsInit, EmptyMap
<1>2. \A q \in Callers : caller[q] = IdleCaller
  BY DEF TenantsInit
<1>3. TenantsTypeOK
  BY <1>1 DEF TenantsInit, TenantsTypeOK, IdleCaller
<1> QED
  BY <1>1, <1>2, <1>3 DEF TenantInv, KeysAreOwn, BilledIsOwn

\* A tenant enters: its key is new, so that no request under way came with it,
\* and an identifier that is in use counts as given twice from now on.
LEMMA TenantInvCreate ==
  ASSUME TenantInv, NEW k \in ApiKeys, NEW t \in TenantMillis, CreateTenant(k, t)
  PROVE  TenantInv'
<1> DEFINE new == [key |-> k, billed |-> {}]
<1>1. /\ DOMAIN tenants' = DOMAIN tenants \cup {t}
      /\ \A u \in DOMAIN tenants' : tenants'[u] = IF u = t THEN new ELSE tenants[u]
  BY DEF CreateTenant, Put
<1>2. /\ k \notin DOMAIN keyIndex
      /\ DOMAIN keyIndex' = DOMAIN keyIndex \cup {k}
      /\ \A l \in DOMAIN keyIndex' : keyIndex'[l] = IF l = k THEN t ELSE keyIndex[l]
      /\ caller' = caller
  BY DEF CreateTenant, Put
<1>3. /\ collided \subseteq collided' /\ collided' \subseteq collided \cup {t}
      /\ t \in DOMAIN tenants => t \in collided'
  BY DEF CreateTenant
<1>4. TenantsTypeOK'
  <2>1. new \in Tenant
    BY DEF Tenant
  <2>2. \A u \in DOMAIN tenants' : tenants'[u] \in Tenant
    BY <1>1, <2>1 DEF TenantInv, TenantsTypeOK
  <2>3. \A l \in DOMAIN keyIndex' : keyIndex'[l] \in DOMAIN tenants'
    BY <1>1, <1>2 DEF TenantInv, TenantsTypeOK
  <2> QED
    BY <1>1, <1>2, <1>3, <2>2, <2>3 DEF TenantInv, TenantsTypeOK
<1>5. KeysAreOwn'
  <2>1. ASSUME NEW q \in Callers, caller'[q] # IdleCaller
        PROVE  /\ caller'[q].key \in DOMAIN keyIndex'
               /\ caller'[q].tenant = keyIndex'[caller'[q].key]
    BY <1>2, <2>1 DEF TenantInv, KeysAreOwn
  <2>2. ASSUME NEW l \in DOMAIN keyIndex', keyIndex'[l] \notin collided'
        PROVE  l = tenants'[keyIndex'[l]].key
    <3>1. CASE l = k
      BY <1>1, <1>2, <3>1
    <3>2. CASE l # k
      <4>1. l \in DOMAIN keyIndex /\ keyIndex'[l] = keyIndex[l] /\ keyIndex[l] \in DOMAIN tenants
        BY <1>2, <3>2 DEF TenantInv, TenantsTypeOK
      <4>2. keyIndex[l] # t /\ keyIndex[l] \notin collided
        BY <1>3, <2>2, <4>1
      <4>3. tenants'[keyIndex[l]] = tenants[keyIndex[l]]
        BY <1>1, <4>1, <4>2
      <4> QED
        BY <4>1, <4>2, <4>3 DEF TenantInv, KeysAreOwn
    <3> QED
      BY <3>1, <3>2
  <2> QED
    BY <2>1, <2>2 DEF KeysAreOwn
<1>6. BilledIsOwn'
  <2>1. ASSUME NEW u \in DOMAIN tenants'
        PROVE  /\ tenants'[u].billed \subseteq {l \in DOMAIN keyIndex' : keyIndex'[l] = u}
               /\ u \notin collided' => tenants'[u].billed \subseteq {tenants'[u].key}
    <3>1. CASE u = t
      BY <1>1, <3>1
    <3>2. CASE u # t
      <4>1. u \in DOMAIN tenants /\ tenants'[u] = tenants[u] /\ (u \notin collided' => u \notin collided)
        BY <1>1, <1>3, <2>1, <3>2
      <4>2. tenants[u].billed \subseteq {l \in DOMAIN keyIndex : keyIndex[l] = u}
            /\ (u \notin collided => tenants[u].billed \subseteq {tenants[u].key})
        BY <4>1 DEF TenantInv, BilledIsOwn
      <4>3. \A l \in DOMAIN keyIndex : l \in DOMAIN keyIndex' /\ keyIndex'[l] = keyIndex[l]
        BY <1>2
      <4> QED
        BY <4>1, <4>2, <4>3
    <3> QED
      BY <3>1, <3>2
  <2> QED
    BY <2>1 DEF BilledIsOwn
<1> QED
  BY <1>4, <1>5, <1>6 DEF TenantInv

LEMMA TenantInvVerify ==
  ASSUME TenantInv, NEW q \in Callers, NEW k \in ApiKeys, Verify(q, k)
  PROVE  TenantInv'
<1>1. /\ k \in DOMAIN keyIndex /\ keyIndex[k] \in TenantMillis
      /\ caller' = [caller EXCEPT ![q] = [key |-> k, tenant |-> keyIndex[k]]]
      /\ tenants' = tenants /\ keyIndex' = keyIndex /\ collided' = collided
  BY DEF Verify, TenantInv, TenantsTypeOK
<1>2. TenantsTypeOK'
  BY <1>1 DEF TenantInv, TenantsTypeOK
<1>3. ASSUME NEW p \in Callers, caller'[p] # IdleCaller
      PROVE  /\ caller'[p].key \in DOMAIN keyIndex'
             /\ caller'[p].tenant = keyIndex'[caller'[p].key]
  BY <1>1, <1>3 DEF TenantInv, TenantsTypeOK, KeysAreOwn
<1> QED
  BY <1>1, <1>2, <1>3 DEF TenantInv, KeysAreOwn, BilledIsOwn

LEMMA TenantInvRecord ==
  ASSUME TenantInv, NEW q \in Callers, RecordUsage(q)
  PROVE  TenantInv'
<1> DEFINE t == caller[q].tenant
           k == caller[q].key
<1>1. /\ k \in DOMAIN keyIndex /\ t = keyIndex[k] /\ t \in DOMAIN tenants /\ k \in ApiKeys
      /\ tenants[t] \in Tenant
      /\ keyIndex' = keyIndex /\ collided' = collided
  BY DEF RecordUsage, TenantInv, TenantsTypeOK, KeysAreOwn
<1>2. /\ DOMAIN tenants' = DOMAIN tenants
      /\ \A u \in DOMAIN tenants : tenants'[u].key = tenants[u].key
      /\ \A u \in DOMAIN tenants \ {t} : tenants'[u] = tenants[u]
      /\ tenants'[t] \in Tenant
      /\ tenants'[t].billed = tenants[t].billed \cup {k}
  BY <1>1 DEF RecordUsage, Tenant
<1>3. /\ caller' \in [Callers -> [key : ApiKeys \cup {NoKey}, tenant : TenantMillis \cup {0}]]
      /\ \A p \in Callers : caller'[p] # IdleCaller => caller'[p] = caller[p]
  BY DEF RecordUsage, TenantInv, TenantsTypeOK, IdleCaller
<1>4. TenantsTypeOK'
  BY <1>1, <1>2, <1>3 DEF TenantInv, TenantsTypeOK
<1>5. KeysAreOwn'
  BY <1>1, <1>2, <1>3 DEF TenantInv, TenantsTypeOK, KeysAreOwn
<1>6. ASSUME NEW u \in DOMAIN tenants'
      PROVE  /\ tenants'[u].billed \subseteq {l \in DOMAIN keyIndex' : keyIndex'[l] = u}
             /\ u \notin collided' => tenants'[u].billed \subseteq {tenants'[u].key}
  <2>0. /\ tenants[u].billed \subseteq {l \in DOMAIN keyIndex : keyIndex[l] = u}
        /\ u \notin collided => tenants[u].billed \subseteq {tenants[u].key}
    BY <1>2, <1>6 DEF TenantInv, BilledIsOwn
  <2>1. CASE u = t
    <3>1. t \notin collided => k = tenants[t].key
      BY <1>1 DEF TenantInv, KeysAreOwn
    <3>2. k \in {l \in DOMAIN keyIndex : keyIndex[l] = t}
      BY <1>1
    <3> QED
      BY <1>1, <1>2, <2>0, <2>1, <3>1, <3>2
  <2>2. CASE u # t
    BY <1>1, <1>2, <1>6, <2>0, <2>2
  <2> QED
    BY <2>1, <2>2
<1> QED
  BY <1>4, <1>5, <1>6 DEF TenantInv, BilledIsOwn

LEMMA TenantInvNext == TenantInv /\ [TenantsNext]_tenantVars => TenantInv'
<1> SUFFICES ASSUME TenantInv, [TenantsNext]_tenantVars PROVE TenantInv'
  OBVIOUS
<1>1. CASE UNCHANGED tenantVars
  BY <1>1 DEF tenantVars, TenantInv, TenantsTypeOK, KeysAreOwn, BilledIsOwn
<1> QED
  BY <1>1, TenantInvCreate, TenantInvVerify, TenantInvRecord DEF TenantsNext

LEMMA TenantInvariant == TenantsSpec => []TenantInv
<1>1. TenantInv /\ [TenantsNext]_tenantVars => TenantInv'
  BY TenantInvNext
<1> QED
  BY <1>1, TenantInvInit, PTL DEF TenantsSpec

-----------------------------------------------------------------------------
\* Every reachable state of the tenant manager is well typed: every key leads
\* to a tenant.
THEOREM TenantsTypeCorrect == TenantsSpec => []TenantsTypeOK
<1>1. TenantInv => TenantsTypeOK
  BY DEF TenantInv
<1> QED
  BY <1>1, TenantInvariant, PTL

\* A tenant is billed only for requests with a key of its identifier, and with
\* its own if that was given once, for any number of tenants created, in any
\* order of their identifiers, and requests under way.
THEOREM BillingIsOwn == TenantsSpec => []BilledIsOwn
<1>1. TenantInv => BilledIsOwn
  BY DEF TenantInv
<1> QED
  BY <1>1, TenantInvariant, PTL

-----------------------------------------------------------------------------
(* The config store *)

\* The inode that a POST holds is no other file's.
PostsAreOwn ==
  \A p \in Posts : Writing(p) =>
    \A f \in DOMAIN directory : directory[f] = post[p].inode => f = post[p].file

\* As long as nothing makes a file unsure, one POST at most writes it, into the
\* inode that the directory has, and finds it empty.
WritesAreSingle ==
  \A f \in Files \ unsure :
    /\ \A p, q \in Posts : Writing(p) /\ Writing(q) /\ post[p].file = f /\ post[q].file = f
                             => p = q
    /\ \A p \in Posts :
         Writing(p) /\ post[p].file = f /\ f \in DOMAIN directory
           => post[p].inode = directory[f] /\ content[directory[f]] = Empty

StoreInv == StoreTypeOK /\ PostsAreOwn /\ WritesAreSingle /\ SettledFileIsLast

LEMMA StoreInvInit == StoreInit => StoreInv
  BY DEF StoreInit, StoreInv, StoreTypeOK, PostsAreOwn, WritesAreSingle, SettledFileIsLast,
         EmptyMap, Writing, Contents

\* Only the handler that opens or closes a file changes.
LEMMA OtherPosts ==
  ASSUME StoreTypeOK, NEW p \in Posts, NEW x, post' = [post EXCEPT ![p] = x]
  PROVE  /\ DOMAIN post' = Posts /\ post'[p] = x
         /\ \A q \in Posts \ {p} : post'[q] = post[q] /\ (Writing(q)' <=> Writing(q))
  BY DEF StoreTypeOK, Writing

LEMMA StoreInvOpen ==
  ASSUME StoreInv, NEW p \in Posts, NEW f \in Files, NEW body \in Bodies,
         NEW i \in Inodes, OpenFile(p, f, body, i)
  PROVE  StoreInv'
<1> DEFINE opened == [inode |-> i, file |-> f, body |-> body]
<1> StoreTypeOK /\ PostsAreOwn /\ WritesAreSingle /\ SettledFileIsLast
  BY DEF StoreInv
<1>1. /\ ~ Writing(p) /\ Accepted(f, body)
      /\ f \in DOMAIN directory => i = directory[f]
      /\ f \notin DOMAIN directory => ~ Linked(i) /\ Writers(i) = {}
      /\ directory' = Put(directory, f, i) /\ saved' = saved
      /\ post' = [post EXCEPT ![p] = opened]
      /\ content' = [content EXCEPT ![i] = Empty]
      /\ unsure' = IF \E q \in Posts : Writing(q) /\ post[q].file = f
                   THEN unsure \cup {f} ELSE unsure \ {f}
  BY DEF OpenFile, Opened
<1>2. /\ DOMAIN directory' = DOMAIN directory \cup {f} /\ directory'[f] = i
      /\ \A g \in DOMAIN directory' \ {f} : directory'[g] = directory[g] /\ directory'[g] # i
  BY <1>1 DEF Put, StoreTypeOK, Linked
<1>3. /\ DOMAIN post' = Posts /\ post'[p] = opened
      /\ \A q \in Posts \ {p} : post'[q] = post[q] /\ (Writing(q)' <=> Writing(q))
  BY <1>1, OtherPosts
<1>4. opened.inode = i /\ opened.file = f /\ opened.body = body
  OBVIOUS
<1>5. body = Garbage => f \in Instances
  BY <1>1 DEF Accepted
<1>6. Writing(p)'
  <2>1. opened # IdlePost
    BY <1>4, ConfigStoreAssumption DEF IdlePost
  <2> QED
    BY <1>3, <2>1 DEF Writing
<1> HIDE DEF opened
<1>7. StoreTypeOK'
  <2>1. /\ DOMAIN directory' \subseteq Files
        /\ \A g \in DOMAIN directory' : directory'[g] \in Inodes
        /\ \A g, h \in DOMAIN directory' : directory'[g] = directory'[h] => g = h
    BY <1>2 DEF StoreTypeOK
  <2>2. content' \in [Inodes -> Contents]
    BY <1>1 DEF StoreTypeOK, Contents
  <2>3. ASSUME NEW q \in Posts, Writing(q)'
        PROVE  /\ post'[q].inode \in Inodes /\ post'[q].file \in Files
               /\ post'[q].body \in Bodies
               /\ post'[q].body = Garbage => post'[q].file \in Instances
    <3>1. CASE q = p
      BY <1>3, <1>4, <1>5, <3>1
    <3>2. CASE q # p
      BY <1>3, <2>3, <3>2 DEF StoreTypeOK
    <3> QED
      BY <3>1, <3>2
  <2>4. /\ DOMAIN saved' \subseteq Files /\ unsure' \subseteq Files
        /\ \A g \in DOMAIN saved' : saved'[g] \in Bodies /\ (saved'[g] = Garbage => g \in Instances)
    BY <1>1 DEF StoreTypeOK
  <2> QED
    BY <1>3, <2>1, <2>2, <2>3, <2>4 DEF StoreTypeOK
<1>8. PostsAreOwn'
  <2>1. ASSUME NEW q \in Posts, Writing(q)'
        PROVE  \A g \in DOMAIN directory' : directory'[g] = post'[q].inode => g = post'[q].file
    <3>1. CASE q = p
      BY <1>2, <1>3, <1>4, <3>1
    <3>2. CASE q # p
      <4>1. post'[q] = post[q] /\ Writing(q)
        BY <1>3, <2>1, <3>2
      <4>2. \A g \in DOMAIN directory' \ {f} : directory'[g] = post[q].inode => g = post[q].file
        BY <1>2, <4>1 DEF PostsAreOwn
      <4>3. directory'[f] = post[q].inode => f = post[q].file
        <5>1. CASE f \in DOMAIN directory
          BY <1>1, <1>2, <4>1, <5>1 DEF PostsAreOwn
        <5>2. CASE f \notin DOMAIN directory
          BY <1>1, <1>2, <4>1, <5>2 DEF Writers
        <5> QED
          BY <5>1, <5>2
      <4> QED
        BY <4>1, <4>2, <4>3 DEF PostsAreOwn
    <3> QED
      BY <3>1, <3>2
  <2> QED
    BY <2>1 DEF PostsAreOwn
<1>9. ASSUME NEW g \in Files \ unsure'
      PROVE  /\ \A q, r \in Posts : Writing(q)' /\ Writing(r)' /\ post'[q].file = g
                                      /\ post'[r].file = g => q = r
             /\ \A q \in Posts : Writing(q)' /\ post'[q].file = g /\ g \in DOMAIN directory'
                  => post'[q].inode = directory'[g] /\ content'[directory'[g]] = Empty
             /\ (g \in DOMAIN directory /\ Writers(directory[g]) = {})'
                  => g \in DOMAIN saved' /\ content'[directory'[g]] = Marshalled(saved'[g])
  <2>1. CASE g = f
    <3>1. \A q \in Posts \ {p} : ~ (Writing(q)' /\ post'[q].file = f)
      BY <1>1, <1>3, <1>9, <2>1
    <3>2. content'[i] = Empty
      BY <1>1 DEF StoreTypeOK
    <3>3. p \in Writers(directory[f])'
      BY <1>2, <1>3, <1>4, <1>6 DEF Writers
    <3> QED
      BY <1>2, <1>3, <1>4, <2>1, <3>1, <3>2, <3>3
  <2>2. CASE g # f
    <3>1. g \notin unsure
      BY <1>1, <1>9, <2>2
    <3>2. \A q \in Posts : Writing(q)' /\ post'[q].file = g
                            => q # p /\ Writing(q) /\ post[q].file = g /\ post'[q] = post[q]
      BY <1>3, <1>4, <2>2
    <3>3. g \in DOMAIN directory'
            => /\ g \in DOMAIN directory /\ directory'[g] = directory[g]
               /\ content'[directory'[g]] = content[directory[g]]
      BY <1>1, <1>2, <2>2 DEF StoreTypeOK
    <3>4. ASSUME (g \in DOMAIN directory /\ Writers(directory[g]) = {})'
          PROVE  Writers(directory[g]) = {}
      <4>1. ASSUME NEW q \in Writers(directory[g]) PROVE FALSE
        <5>1. q \in Posts /\ Writing(q) /\ post[q].inode = directory[g] /\ q # p
          BY <1>1, <4>1 DEF Writers
        <5>2. q \in Writers(directory[g])'
          BY <1>3, <3>3, <3>4, <5>1 DEF Writers
        <5> QED
          BY <3>4, <5>2
      <4> QED
        BY <4>1
    <3>5. \A q, r \in Posts : Writing(q)' /\ Writing(r)' /\ post'[q].file = g
                                /\ post'[r].file = g => q = r
      BY <1>1, <1>9, <3>1, <3>2 DEF WritesAreSingle
    <3>6. \A q \in Posts : Writing(q)' /\ post'[q].file = g /\ g \in DOMAIN directory'
                              => post'[q].inode = directory'[g] /\ content'[directory'[g]] = Empty
      BY <1>1, <1>9, <3>1, <3>2, <3>3 DEF WritesAreSingle
    <3>7. (g \in DOMAIN directory /\ Writers(directory[g]) = {})'
            => g \in DOMAIN saved /\ content'[directory'[g]] = Marshalled(saved[g])
      BY <1>1, <3>1, <3>3, <3>4 DEF SettledFileIsLast
    <3>8. saved' = saved
      BY <1>1
    <3> QED
      BY <3>5, <3>6, <3>7, <3>8
  <2> QED
    BY <2>1, <2>2
<1>10. WritesAreSingle' /\ SettledFileIsLast'
  BY <1>7, <1>9 DEF WritesAreSingle, SettledFileIsLast, StoreTypeOK
<1> QED
  BY <1>7, <1>8, <1>10 DEF StoreInv

\* When a handler is done with its file, fewer write than before.
LEMMA FewerPosts ==
  ASSUME StoreInv, NEW p \in Posts, post' = [post EXCEPT ![p] = IdlePost],
         directory' = directory
  PROVE  /\ DOMAIN post' = Posts
         /\ \A q \in Posts : Writing(q)' => q # p /\ Writing(q) /\ post'[q] = post[q]
         /\ \A f \in DOMAIN directory :
              post[p].file # f => (Writers(directory[f])' = {} => Writers(directory[f]) = {})
         /\ PostsAreOwn'
<1>1. /\ DOMAIN post' = Posts /\ post'[p] = IdlePost
      /\ \A q \in Posts \ {p} : post'[q] = post[q] /\ (Writing(q)' <=> Writing(q))
  BY OtherPosts DEF StoreInv
<1>2. \A q \in Posts : Writing(q)' => q # p /\ Writing(q) /\ post'[q] = post[q]
  BY <1>1 DEF Writing
<1>3. ASSUME NEW f \in DOMAIN directory, post[p].file # f, Writers(directory[f])' = {}
      PROVE  Writers(directory[f]) = {}
  <2>1. ASSUME NEW q \in Writers(directory[f]) PROVE FALSE
    <3>1. q \in Posts /\ Writing(q) /\ post[q].inode = directory[f]
      BY <2>1 DEF Writers
    <3>2. q # p
      BY <1>3, <3>1 DEF StoreInv, PostsAreOwn
    <3>3. q \in Writers(directory[f])'
      BY <1>1, <3>1, <3>2 DEF Writers
    <3> QED
      BY <1>3, <3>3
  <2> QED
    BY <2>1
<1>4. PostsAreOwn'
  BY <1>2 DEF StoreInv, PostsAreOwn
<1> QED
  BY <1>1, <1>2, <1>3, <1>4

LEMMA StoreInvWrite ==
  ASSUME StoreInv, NEW p \in Posts, WriteFile(p)
  PROVE  StoreInv'
<1> DEFINE i == post[p].inode
           f == post[p].file
           data == Marshalled(post[p].body)
<1> StoreTypeOK /\ PostsAreOwn /\ WritesAreSingle /\ SettledFileIsLast
  BY DEF StoreInv
<1>1. /\ Writing(p) /\ directory' = directory /\ unsure' = unsure
      /\ saved' = Put(saved, f, post[p].body) /\ post' = [post EXCEPT ![p] = IdlePost]
  BY DEF WriteFile
<1>2. i \in Inodes /\ f \in Files /\ data \in Documents \cup {Null}
      /\ post[p].body \in Bodies /\ (post[p].body = Garbage => f \in Instances)
      /\ \A g \in DOMAIN directory : directory[g] = i => g = f
  BY <1>1 DEF StoreTypeOK, PostsAreOwn, Marshalled, Bodies
<1>3. PICK c \in {data, Mixed} :
        content' = [content EXCEPT ![i] = c] /\ (content[i] = Empty => c = data)
  BY DEF WriteFile
<1>4. /\ DOMAIN post' = Posts
      /\ \A q \in Posts : Writing(q)' => q # p /\ Writing(q) /\ post'[q] = post[q]
      /\ \A g \in DOMAIN directory :
           f # g => (Writers(directory[g])' = {} => Writers(directory[g]) = {})
      /\ PostsAreOwn'
  BY <1>1, FewerPosts
<1>5. /\ DOMAIN saved' = DOMAIN saved \cup {f} /\ saved'[f] = post[p].body
      /\ data = Marshalled(saved'[f])
      /\ \A g \in DOMAIN saved \ {f} : saved'[g] = saved[g]
  BY <1>1 DEF Put
<1> HIDE DEF data
<1>6. StoreTypeOK'
  <2>1. content' \in [Inodes -> Contents]
    BY <1>2, <1>3 DEF StoreTypeOK, Contents
  <2>2. /\ DOMAIN saved' \subseteq Files
        /\ \A g \in DOMAIN saved' : saved'[g] \in Bodies /\ (saved'[g] = Garbage => g \in Instances)
    BY <1>2, <1>5 DEF StoreTypeOK
  <2>3. \A q \in Posts : Writing(q)' => /\ post'[q].inode \in Inodes /\ post'[q].file \in Files
                                        /\ post'[q].body \in Bodies
                                        /\ post'[q].body = Garbage => post'[q].file \in Instances
    BY <1>4 DEF StoreTypeOK
  <2> QED
    BY <1>1, <1>4, <2>1, <2>2, <2>3 DEF StoreTypeOK
<1>7. ASSUME NEW g \in Files \ unsure'
      PROVE  /\ \A q, r \in Posts : Writing(q)' /\ Writing(r)' /\ post'[q].file = g
                                      /\ post'[r].file = g => q = r
             /\ \A q \in Posts : Writing(q)' /\ post'[q].file = g /\ g \in DOMAIN directory'
                  => post'[q].inode = directory'[g] /\ content'[directory'[g]] = Empty
             /\ (g \in DOMAIN directory /\ Writers(directory[g]) = {})'
                  => g \in DOMAIN saved' /\ content'[directory'[g]] = Marshalled(saved'[g])
  <2>1. CASE g = f
    <3>1. \A q \in Posts : ~ (Writing(q)' /\ post'[q].file = f)
      BY <1>1, <1>4, <1>7, <2>1 DEF WritesAreSingle
    <3>2. f \in DOMAIN directory => directory[f] = i /\ content[i] = Empty
      BY <1>1, <1>2, <1>7, <2>1 DEF WritesAreSingle
    <3>3. f \in DOMAIN directory => content'[directory[f]] = data
      BY <1>2, <1>3, <3>2 DEF StoreTypeOK
    <3> QED
      BY <1>1, <1>5, <2>1, <3>1, <3>3
  <2>2. CASE g # f
    <3>1. g \in DOMAIN directory => content'[directory[g]] = content[directory[g]]
      BY <1>2, <1>3, <2>2 DEF StoreTypeOK
    <3> QED
      BY <1>1, <1>4, <1>5, <1>7, <2>2, <3>1 DEF WritesAreSingle, SettledFileIsLast
  <2> QED
    BY <2>1, <2>2
<1>8. WritesAreSingle' /\ SettledFileIsLast'
  BY <1>6, <1>7 DEF WritesAreSingle, SettledFileIsLast, StoreTypeOK
<1> QED
  BY <1>4, <1>6, <1>8 DEF StoreInv

LEMMA StoreInvCutOff ==
  ASSUME StoreInv, NEW p \in Posts, WriteCutOff(p)
  PROVE  StoreInv'
<1> DEFINE f == post[p].file
<1> StoreTypeOK /\ PostsAreOwn /\ WritesAreSingle /\ SettledFileIsLast
  BY DEF StoreInv
<1>1. /\ Writing(p) /\ UNCHANGED <<directory, content, saved>> /\ unsure' = unsure \cup {f}
      /\ post' = [post EXCEPT ![p] = IdlePost]
  BY DEF WriteCutOff
<1>2. /\ DOMAIN post' = Posts
      /\ \A q \in Posts : Writing(q)' => q # p /\ Writing(q) /\ post'[q] = post[q]
      /\ \A g \in DOMAIN directory :
           f # g => (Writers(directory[g])' = {} => Writers(directory[g]) = {})
      /\ PostsAreOwn'
  BY <1>1, FewerPosts
<1>3. StoreTypeOK'
  BY <1>1, <1>2 DEF StoreTypeOK, Contents
<1>4. WritesAreSingle' /\ SettledFileIsLast'
  BY <1>1, <1>2 DEF WritesAreSingle, SettledFileIsLast, StoreTypeOK
<1> QED
  BY <1>2, <1>3, <1>4 DEF StoreInv

LEMMA StoreInvDelete ==
  ASSUME StoreInv, NEW f \in Files, DeleteFile(f)
  PROVE  StoreInv'
<1>1. /\ DOMAIN directory' = DOMAIN directory \ {f}
      /\ \A g \in DOMAIN directory' : directory'[g] = directory[g]
      /\ UNCHANGED <<content, post, saved, unsure>>
  BY DEF DeleteFile, Drop, Restrict
<1>2. \A q \in Posts : Writing(q)' <=> Writing(q)
  BY <1>1 DEF Writing
<1>3. \A g \in DOMAIN directory' : Writers(directory[g])' = Writers(directory[g])
  BY <1>1, <1>2 DEF Writers
<1>4. StoreTypeOK'
  BY <1>1, <1>2 DEF StoreInv, StoreTypeOK, Contents
<1>5. PostsAreOwn' /\ WritesAreSingle'
  BY <1>1, <1>2 DEF StoreInv, PostsAreOwn, WritesAreSingle
<1>6. SettledFileIsLast'
  BY <1>1, <1>3 DEF StoreInv, SettledFileIsLast
<1> QED
  BY <1>4, <1>5, <1>6 DEF StoreInv

LEMMA StoreInvNext == StoreInv /\ [StoreNext]_storeVars => StoreInv'
<1> SUFFICES ASSUME StoreInv, [StoreNext]_storeVars PROVE StoreInv'
  OBVIOUS
<1>1. CASE UNCHANGED storeVars
  BY <1>1 DEF storeVars, StoreInv, StoreTypeOK, PostsAreOwn, WritesAreSingle, SettledFileIsLast,
              Writing, Writers, Contents
<1> QED
  BY <1>1, StoreInvOpen, StoreInvWrite, StoreInvCutOff, StoreInvDelete DEF StoreNext

LEMMA StoreInvariant == StoreSpec => []StoreInv
<1>1. StoreInv /\ [StoreNext]_storeVars => StoreInv'
  BY StoreInvNext
<1> QED
  BY <1>1, StoreInvInit, PTL DEF StoreSpec

-----------------------------------------------------------------------------
\* Every reachable state of the config store is well typed: no two files share
\* an inode, and no function is answered with "saved" for a body that is not JSON.
THEOREM StoreTypeCorrect == StoreSpec => []StoreTypeOK
<1>1. StoreInv => StoreTypeOK
  BY DEF StoreInv
<1> QED
  BY <1>1, StoreInvariant, PTL

\* A file that nobody writes holds what was last answered with "saved", for any
\* number of handlers that open, write and delete without a lock, unless two
\* POSTs of it overlapped or one was cut off.
THEOREM SettledFilesAreLast == StoreSpec => []SettledFileIsLast
<1>1. StoreInv => SettledFileIsLast
  BY DEF StoreInv
<1> QED
  BY <1>1, StoreInvariant, PTL
-----------------------------------------------------------------------------
(* The autoscaler controller *)

LEMMA Quotient == \A a \in Int, b \in Nat \ {0} :
  /\ a \div b \in Int
  /\ b * (a \div b) <= a
  /\ a < b * (a \div b) + b
  OBVIOUS

LEMMA ProductOfNats == \A a, b \in Nat : a * b \in Nat
  OBVIOUS

\* A quotient by b of at least n * b is at least n, and one of less is less.
LEMMA QuotientBounds ==
  ASSUME NEW a \in Int, NEW b \in Nat \ {0}, NEW n \in Int
  PROVE  /\ n * b <= a => n <= a \div b
         /\ a < n * b => a \div b < n
<1> DEFINE q == a \div b
<1>1. q \in Int /\ b * q <= a /\ a < b * q + b
  BY Quotient
<1> HIDE DEF q
<1>2. ASSUME n * b <= a, q < n
      PROVE  FALSE
  <2>1. n - q - 1 \in Nat /\ b \in Nat
    BY <1>1, <1>2
  <2>2. (n - q - 1) * b \in Nat
    BY <2>1, ProductOfNats
  <2>3. (n - q - 1) * b = n * b - b * q - b
    BY <1>1
  <2>4. n * b \in Int /\ b * q \in Int
    BY <1>1
  <2>5. QED
    BY <1>1, <1>2, <2>2, <2>3, <2>4
<1>3. ASSUME a < n * b, n <= q
      PROVE  FALSE
  <2>1. q - n \in Nat /\ b \in Nat
    BY <1>1, <1>3
  <2>2. (q - n) * b \in Nat
    BY <2>1, ProductOfNats
  <2>3. (q - n) * b = b * q - n * b
    BY <1>1
  <2>4. n * b \in Int /\ b * q \in Int
    BY <1>1
  <2>5. QED
    BY <1>1, <1>3, <2>2, <2>3, <2>4
<1>4. QED
  BY <1>1, <1>2, <1>3 DEF q
LEMMA Loads ==
  ASSUME NEW s \in Snapshots, NEW setting \in Settings
  PROVE  /\ s.replicas \in Nat
         /\ Value(setting.metric, s) \in Nat
         /\ setting.min \in Nat /\ setting.max \in Nat /\ setting.target \in Nat
<1>1. s \in [replicas : Nat, queue : Nat, latency : Nat, gpu : Nat] /\ setting \in Setting
  BY AutoscalerAssumption
<1>2. QED
  BY <1>1 DEF Value, Setting

\* The rounded product lies on the load's side of the number of replicas.
LEMMA ProductsFollowLoad ==
  ASSUME NEW s \in Snapshots, NEW setting \in Settings, setting.target # 0,
         NEW product \in Products(s, setting)
  PROVE  /\ product \in Int
         /\ Value(setting.metric, s) >= setting.target => product >= s.replicas
         /\ Value(setting.metric, s) <= setting.target => product <= s.replicas
<1> DEFINE r == s.replicas
           v == Value(setting.metric, s)
           t == setting.target
           low == (r * v + t - 1) \div t
           high == (r * v) \div t
<1>1. r \in Nat /\ v \in Nat /\ t \in Nat \ {0}
  BY Loads
<1>2. \/ v = t /\ product = r
      \/ /\ v # t
         /\ product \in low .. high + (IF r * v = 0 THEN 0 ELSE 1)
  BY DEF Products, CeilDiv
<1> HIDE DEF r, v, t
<1>3. r * v \in Nat /\ r * t \in Nat
  BY <1>1, ProductOfNats
<1>4. low \in Int /\ high \in Int
  <2>1. r * v + t - 1 \in Int /\ r * v \in Int
    BY <1>1, <1>3
  <2>2. QED
    BY <1>1, <2>1, Quotient
<1>5. product \in Int
  BY <1>1, <1>2, <1>4
<1>6. ASSUME v > t PROVE product >= r
  <2>1. r * (v - t) \in Nat
    <3>1. v - t \in Nat
      BY <1>1, <1>6
    <3>2. QED
      BY <1>1, <3>1, ProductOfNats
  <2>2. r * (v - t) = r * v - r * t
    BY <1>1
  <2>3. r * t <= r * v + t - 1 /\ r * v + t - 1 \in Int
    BY <1>1, <1>3, <2>1, <2>2
  <2>4. r <= low
    BY <1>1, <2>3, QuotientBounds
  <2> HIDE DEF low, high
  <2>5. product >= low
    BY <1>1, <1>2, <1>4, <1>6
  <2>6. QED
    BY <1>1, <1>4, <1>5, <2>4, <2>5
<1>7. ASSUME v < t PROVE product <= r
  <2>1. CASE r * v = 0
    <3>1. high = 0
      <4>1. 0 \div t \in Int
        BY <1>1, Quotient
      <4>2. 0 < 1 * t => 0 \div t < 1
        BY <1>1, QuotientBounds
      <4>3. 0 * t <= 0 => 0 <= 0 \div t
        BY <1>1, QuotientBounds
      <4>4. QED
        BY <1>1, <2>1, <4>1, <4>2, <4>3
    <3> HIDE DEF low, high
    <3>2. QED
      BY <1>1, <1>2, <1>4, <1>7, <2>1, <3>1
  <2>2. CASE r * v # 0
    <3>1. r \in Nat \ {0}
      BY <1>1, <2>2
    <3>2. r - 1 \in Nat /\ t - v - 1 \in Nat
      BY <1>1, <1>7, <3>1
    <3>3. r * (t - v - 1) \in Nat
      BY <1>1, <3>2, ProductOfNats
    <3>4. r * (t - v - 1) = r * t - r * v - r
      BY <1>1
    <3>5. r * v < r * t
      BY <1>3, <3>1, <3>3, <3>4
    <3>6. high < r
      BY <1>1, <1>3, <3>5, QuotientBounds
    <3> HIDE DEF low, high
    <3>7. product <= high + 1
      BY <1>1, <1>2, <1>4, <1>7, <2>2
    <3>8. QED
      BY <1>1, <1>4, <1>5, <3>6, <3>7
  <2>3. QED
    BY <2>1, <2>2
<1>8. ASSUME v = t PROVE product >= r /\ product <= r
  BY <1>1, <1>2, <1>8
<1>9. QED
  BY <1>1, <1>5, <1>6, <1>7, <1>8 DEF r, v, t

\* A product that is small enough is converted as it is: no int is too small.
LEMMA SmallIsConverted ==
  ASSUME NEW s \in Snapshots, NEW setting \in Settings, setting.target # 0,
         s.replicas * Value(setting.metric, s) < LargestInt * setting.target,
         NEW x \in Converted(s, setting)
  PROVE  x \in Products(s, setting)
<1> DEFINE r == s.replicas
           v == Value(setting.metric, s)
           t == setting.target
           high == (r * v) \div t
<1>1. r \in Nat /\ v \in Nat /\ t \in Nat \ {0} /\ LargestInt \in Nat
  BY Loads, AutoscalerAssumption
<1>2. r * v < LargestInt * t
  OBVIOUS
<1>3. \A y \in Products(s, setting) :
        (y = r /\ v = t) \/ (y <= high + 1 /\ y \in Int)
  <2>1. high \in Int /\ (r * v + t - 1) \div t \in Int
    <3>1. r * v \in Int /\ r * v + t - 1 \in Int
      BY <1>1
    <3> QED
      BY <1>1, <3>1, Quotient
  <2>2. \A y \in Products(s, setting) :
          \/ y = r /\ v = t
          \/ y \in (r * v + t - 1) \div t .. high + (IF r * v = 0 THEN 0 ELSE 1)
    BY DEF Products, CeilDiv
  <2> DEFINE low == (r * v + t - 1) \div t
             extra == IF r * v = 0 THEN 0 ELSE 1
  <2>3. extra \in {0, 1}
    OBVIOUS
  <2>4. \A y \in low .. high + extra : y \in Int /\ y <= high + 1
    <3>1. low \in Int /\ high \in Int /\ extra \in {0, 1}
      BY <2>1, <2>3
    <3> HIDE DEF low, high, extra
    <3> QED
      BY <3>1
  <2>5. \A y \in Products(s, setting) : (y = r /\ v = t) \/ y \in low .. high + extra
    BY <2>2
  <2> HIDE DEF r, v, t, high, low, extra
  <2>6. ASSUME NEW y \in Products(s, setting)
        PROVE  (y = r /\ v = t) \/ (y <= high + 1 /\ y \in Int)
    <3>1. CASE y = r /\ v = t
      BY <3>1
    <3>2. CASE y \in low .. high + extra
      BY <2>4, <3>2
    <3> QED
      BY <2>5, <3>1, <3>2
  <2> QED
    BY <2>6
<1> HIDE DEF r, v, t
<1>4. high \in Int /\ high < LargestInt
  <2>1. r * v \in Int /\ LargestInt \in Int
    BY <1>1
  <2> QED
    BY <1>1, <1>2, <2>1, Quotient, QuotientBounds
<1>5. v = t => r <= LargestInt
  <2>1. CASE r <= LargestInt
    BY <2>1
  <2>2. CASE LargestInt < r /\ v = t
    <3>1. LargestInt * t <= r * t /\ r * t \in Int /\ LargestInt * t \in Int
      <4>1. r - LargestInt \in Nat
        BY <1>1, <2>2
      <4>2. (r - LargestInt) * t \in Nat
        BY <1>1, <4>1, ProductOfNats
      <4>3. (r - LargestInt) * t = r * t - LargestInt * t /\ r * t \in Int /\ LargestInt * t \in Int
        BY <1>1
      <4> QED
        BY <4>2, <4>3
    <3> QED
      BY <1>2, <2>2, <3>1
  <2> QED
    BY <1>1, <2>1, <2>2
<1> HIDE DEF high
<1>6. \A y \in Products(s, setting) : ~ y > LargestInt
  BY <1>1, <1>3, <1>4, <1>5
<1> QED
  BY <1>6 DEF Converted

LEMMA ConvertedIsInt ==
  ASSUME NEW s \in Snapshots, NEW setting \in Settings, NEW x \in Converted(s, setting)
  PROVE  x \in Int
<1>1. setting.max \in Nat
  BY Loads
<1>2. CASE x \in {-1, setting.max + 1}
  BY <1>1, <1>2
<1>3. CASE setting.target # 0 /\ x \in Products(s, setting)
  BY <1>3, ProductsFollowLoad
<1> QED
  BY <1>2, <1>3 DEF Converted

\* What a decision says of the policy it was made under.
Follows(setting, s, n) ==
  LET load == Value(setting.metric, s)
  IN setting.target > 0 /\ setting.min <= setting.max =>
       /\ n \in setting.min .. setting.max
       /\ s.replicas * load < LargestInt * setting.target =>
            /\ load >= setting.target /\ s.replicas <= setting.max => n >= s.replicas
            /\ load <= setting.target /\ s.replicas >= setting.min => n <= s.replicas

LEMMA ClampFollows ==
  ASSUME NEW s \in Snapshots, NEW setting \in Settings, NEW x \in Converted(s, setting)
  PROVE  Follows(setting, s, Clamp(x, setting))
<1> DEFINE load == Value(setting.metric, s)
           small == s.replicas * load < LargestInt * setting.target
<1>1. /\ s.replicas \in Nat /\ load \in Nat
      /\ setting.min \in Nat /\ setting.max \in Nat /\ setting.target \in Nat
  BY Loads
<1>2. CASE setting.target = 0
  BY <1>2 DEF Follows
<1>3. CASE setting.target # 0
  <2>1. /\ x \in Int
        /\ small => /\ load >= setting.target => x >= s.replicas
                    /\ load <= setting.target => x <= s.replicas
    BY <1>3, ConvertedIsInt, SmallIsConverted, ProductsFollowLoad
  <2> HIDE DEF load, small
  <2>2. setting.min <= setting.max =>
          /\ Clamp(x, setting) \in setting.min .. setting.max
          /\ small =>
               /\ load >= setting.target /\ s.replicas <= setting.max
                    => Clamp(x, setting) >= s.replicas
               /\ load <= setting.target /\ s.replicas >= setting.min
                    => Clamp(x, setting) <= s.replicas
    BY <1>1, <2>1 DEF Clamp
  <2>3. QED
    BY <2>2 DEF Follows, load, small
<1>4. QED
  BY <1>2, <1>3
(***************************************************************************)
(* An evaluation under way holds a decision that follows the load, and     *)
(* that no other of its kind has preceded by less than a cooldown unless   *)
(* it was raced. What is decided is written to the policy, so that its     *)
(* times are never longer ago than the history's.                          *)
(***************************************************************************)
Decision == [policy : PolicyIds, snapshot : Snapshots, desired : Int,
             direction : Directions, raced : BOOLEAN]

Sound(v) ==
  /\ settings[v.policy] \in Settings
  /\ Follows(settings[v.policy], v.snapshot, v.desired)
  /\ ~ v.raced => ago[v.policy][v.direction] >= CooldownOf(settings[v.policy], v.direction)

ScalerInv ==
  /\ ScalerTypeOK
  /\ evaluation \in [Evaluations -> Decision \cup {Idle}]
  /\ \A e \in Evaluations : UnderWay(e) => Sound(evaluation[e])
  /\ \A p \in PolicyIds, d \in Directions : since[p][d] <= ago[p][d]
  /\ \A p \in PolicyIds : settings[p] = NoPolicy => ago[p] = LongAgo

LEMMA CooldownsFit ==
  ASSUME NEW setting \in Settings, NEW d \in Directions
  PROVE  CooldownOf(setting, d) \in Int /\ CooldownOf(setting, d) <= Horizon
<1>1. setting.cooldown[d] \in Int /\ setting.cooldown[d] <= Horizon
  BY AutoscalerAssumption DEF Setting
<1> QED
  BY <1>1, AutoscalerAssumption DEF CooldownOf

\* Times grow with time up to the horizon, and no policy's cooldown is beyond it.
LEMMA OlderAges ==
  ASSUME NEW a \in Ages
  PROVE  /\ Older(a) \in Ages
         /\ \A d \in Directions : a[d] <= Older(a)[d]
         /\ \A d \in Directions, b \in Ages : b[d] <= a[d] => Older(b)[d] <= Older(a)[d]
<1>1. \A b \in Ages : /\ \A d \in Directions : /\ b[d] \in Int /\ b[d] <= Horizon
                                               /\ Older(b)[d] = IF b[d] < Horizon THEN b[d] + 1 ELSE b[d]
                      /\ Older(b) = [d \in Directions |-> Older(b)[d]]
  BY DEF Ages, Older
<1>2. Horizon \in Nat
  BY AutoscalerAssumption
<1>3. \A d \in Directions : /\ Older(a)[d] \in Int /\ Older(a)[d] <= Horizon
                            /\ a[d] <= Older(a)[d]
  BY <1>1, <1>2
<1>4. Older(a) \in Ages
  BY <1>1, <1>3 DEF Ages
<1>5. \A d \in Directions, b \in Ages : b[d] <= a[d] => Older(b)[d] <= Older(a)[d]
  BY <1>1, <1>2
<1> QED
  BY <1>3, <1>4, <1>5

LEMMA ResetAges ==
  ASSUME NEW a \in Ages, NEW d \in Directions
  PROVE  [a EXCEPT ![d] = 0] \in Ages
  BY AutoscalerAssumption DEF Ages

LEMMA LongAgoAges == LongAgo \in Ages
  BY AutoscalerAssumption DEF LongAgo, Ages

LEMMA ScalerInvInit == ScalerInit => ScalerInv
<1> SUFFICES ASSUME ScalerInit PROVE ScalerInv
  OBVIOUS
<1>1. /\ since \in [PolicyIds -> Ages] /\ ago \in [PolicyIds -> Ages]
      /\ \A p \in PolicyIds, d \in Directions : since[p][d] <= ago[p][d]
  BY LongAgoAges, AutoscalerAssumption DEF ScalerInit, LongAgo
<1> QED
  BY <1>1 DEF ScalerInit, ScalerInv, ScalerTypeOK, UnderWay

\* A policy that is registered is not the one of a decision.
LEMMA ScalerInvRegister ==
  ASSUME ScalerInv, NEW p \in PolicyIds, NEW setting \in Settings, RegisterPolicy(p, setting)
  PROVE  ScalerInv'
<1>1. /\ settings[p] = NoPolicy /\ current' = p
      /\ settings' = [settings EXCEPT ![p] = setting]
      /\ since' = [since EXCEPT ![p] = setting.since]
      /\ UNCHANGED <<evaluation, ago>>
  BY DEF RegisterPolicy
<1>2. setting # NoPolicy /\ NoPolicy \notin Settings
  BY AutoscalerAssumption
<1>3. ASSUME NEW e \in Evaluations, UnderWay(e)
      PROVE  Sound(evaluation[e])' /\ settings'[evaluation[e].policy] # NoPolicy
  <2>1. evaluation[e] \in Decision /\ Sound(evaluation[e])
    BY <1>3 DEF ScalerInv, UnderWay
  <2>2. evaluation[e].policy \in PolicyIds /\ evaluation[e].policy # p
    BY <1>1, <1>2, <2>1 DEF Sound, Decision
  <2>3. settings'[evaluation[e].policy] = settings[evaluation[e].policy]
    BY <1>1, <2>2 DEF ScalerInv, ScalerTypeOK
  <2>4. QED
    BY <1>1, <1>2, <2>1, <2>3 DEF Sound
<1>4. setting.since \in Ages
  BY AutoscalerAssumption DEF Setting, Ages
<1>5. ScalerTypeOK'
  BY <1>1, <1>2, <1>3, <1>4 DEF ScalerInv, ScalerTypeOK, UnderWay
<1>6. ASSUME NEW q \in PolicyIds, NEW d \in Directions
      PROVE  since'[q][d] <= ago'[q][d]
  <2>1. CASE q = p
    <3>1. since'[p] = setting.since
      BY <1>1 DEF ScalerInv, ScalerTypeOK
    <3>2. ago[p] = LongAgo
      BY <1>1 DEF ScalerInv
    <3>3. setting.since[d] <= LongAgo[d]
      BY AutoscalerAssumption DEF LongAgo
    <3> QED
      BY <1>1, <2>1, <3>1, <3>2, <3>3
  <2>2. CASE q # p
    BY <1>1, <2>2 DEF ScalerInv, ScalerTypeOK
  <2> QED
    BY <2>1, <2>2
<1>7. \A q \in PolicyIds : settings'[q] = NoPolicy => ago'[q] = LongAgo
  BY <1>1, <1>2 DEF ScalerInv, ScalerTypeOK
<1>8. QED
  BY <1>1, <1>3, <1>5, <1>6, <1>7 DEF ScalerInv, UnderWay

LEMMA ScalerInvDecide ==
  ASSUME ScalerInv, NEW e \in Evaluations, NEW s \in Snapshots, Decide(e, s)
  PROVE  ScalerInv'
<1> DEFINE setting == settings[current]
<1>1. current \in PolicyIds /\ setting \in Settings
  BY DEF Decide, ScalerInv, ScalerTypeOK
<1>2. PICK x \in Converted(s, setting) :
        LET n == Clamp(x, setting)
            d == Direction(s, n)
        IN /\ since[current][d] >= CooldownOf(setting, d)
           /\ evaluation' = [evaluation EXCEPT ![e] = Decided(current, s, n, d)]
  BY DEF Decide
<1> DEFINE n == Clamp(x, setting)
           d == Direction(s, n)
           v == Decided(current, s, n, d)
<1>3. UNCHANGED <<current, settings, since, ago>>
  BY DEF Decide
<1>4. n \in Int /\ d \in Directions
  <2>1. x \in Int
    BY <1>1, ConvertedIsInt
  <2>2. setting.min \in Nat /\ setting.max \in Nat
    BY <1>1, Loads
  <2>3. QED
    BY <2>1, <2>2 DEF Clamp, Direction, Directions
<1>5. Follows(setting, s, n)
  BY <1>1, ClampFollows
<1>6. since[current][d] >= CooldownOf(setting, d) /\ evaluation' = [evaluation EXCEPT ![e] = v]
  BY <1>2
<1> HIDE DEF n, d
<1>7. /\ v \in Decision
      /\ v.policy = current /\ v.snapshot = s /\ v.desired = n /\ v.direction = d
  BY <1>1, <1>4 DEF Decided, Decision
<1>8. Sound(v)
  <2>1. since[current][d] \in Int /\ ago[current][d] \in Int /\ since[current][d] <= ago[current][d]
    BY <1>1, <1>4 DEF ScalerInv, ScalerTypeOK, Ages
  <2>2. ago[current][d] >= CooldownOf(setting, d)
    BY <1>1, <1>4, <1>6, <2>1, CooldownsFit
  <2> QED
    BY <1>1, <1>5, <1>7, <2>2 DEF Sound
<1>9. NoPolicy \notin Settings
  BY AutoscalerAssumption
<1> HIDE DEF v
<1>10. /\ evaluation' \in [Evaluations -> Decision \cup {Idle}]
       /\ evaluation'[e] = v
       /\ \A f \in Evaluations : f # e => evaluation'[f] = evaluation[f]
  BY <1>6, <1>7 DEF ScalerInv
<1>11. ASSUME NEW f \in Evaluations, UnderWay(f)'
       PROVE  Sound(evaluation[f])' /\ settings'[evaluation'[f].policy] # NoPolicy
  <2>1. Sound(evaluation'[f])
    BY <1>8, <1>10, <1>11 DEF ScalerInv, UnderWay
  <2>2. QED
    BY <1>3, <1>9, <2>1 DEF Sound
<1>12. ScalerTypeOK'
  BY <1>3, <1>11 DEF ScalerInv, ScalerTypeOK
<1>13. QED
  BY <1>3, <1>10, <1>11, <1>12 DEF ScalerInv

\* What is written races every other decision under that policy.
LEMMA ScalerInvRecord ==
  ASSUME ScalerInv, NEW e \in Evaluations, Record(e)
  PROVE  ScalerInv'
<1> DEFINE p == evaluation[e].policy
           d == evaluation[e].direction
<1>1. evaluation[e] \in Decision /\ p \in PolicyIds /\ d \in Directions
  BY DEF Record, UnderWay, ScalerInv, Decision
<1>2. /\ since' = [since EXCEPT ![p][d] = 0] /\ ago' = [ago EXCEPT ![p][d] = 0]
      /\ evaluation' = [f \in Evaluations |->
                          IF f = e THEN Idle
                          ELSE IF evaluation[f].policy = p THEN [evaluation[f] EXCEPT !.raced = TRUE]
                          ELSE evaluation[f]]
      /\ UNCHANGED <<current, settings>>
  BY DEF Record, Recorded
<1>3. /\ ago' \in [PolicyIds -> Ages] /\ since' \in [PolicyIds -> Ages]
      /\ \A q \in PolicyIds : q # p => ago'[q] = ago[q] /\ since'[q] = since[q]
      /\ ago'[p] = [ago[p] EXCEPT ![d] = 0] /\ since'[p] = [since[p] EXCEPT ![d] = 0]
  <2>1. /\ ago \in [PolicyIds -> Ages] /\ [ago[p] EXCEPT ![d] = 0] \in Ages
        /\ since \in [PolicyIds -> Ages] /\ [since[p] EXCEPT ![d] = 0] \in Ages
    BY <1>1, ResetAges DEF ScalerInv, ScalerTypeOK
  <2>2. QED
    BY <1>1, <1>2, <2>1
<1>4. /\ \A q \in PolicyIds, x \in Directions : since'[q][x] <= ago'[q][x]
      /\ \A q \in PolicyIds : settings'[q] = NoPolicy => ago'[q] = LongAgo
  <2>1. \A x \in Directions : since'[p][x] <= ago'[p][x]
    <3>1. since[p] \in [Directions -> Int] /\ ago[p] \in [Directions -> Int]
      BY <1>1 DEF ScalerInv, ScalerTypeOK, Ages
    <3>2. \A x \in Directions : since[p][x] <= ago[p][x]
      BY <1>1 DEF ScalerInv
    <3> QED
      BY <1>3, <3>1, <3>2
  <2>2. settings[p] # NoPolicy
    BY DEF Record, ScalerInv, ScalerTypeOK
  <2> QED
    BY <1>2, <1>3, <2>1, <2>2 DEF ScalerInv
<1>5. ASSUME NEW f \in Evaluations
      PROVE  /\ evaluation'[f] \in Decision \cup {Idle}
             /\ UnderWay(f)' => Sound(evaluation[f])' /\ settings'[evaluation'[f].policy] # NoPolicy
  <2>0. NoPolicy \notin Settings /\ p # NoPolicy
    BY <1>1, AutoscalerAssumption
  <2>1. CASE f = e
    BY <1>2, <2>1 DEF UnderWay
  <2>2. CASE f # e /\ ~ UnderWay(f)
    <3>1. evaluation[f].policy = NoPolicy
      BY <2>2 DEF UnderWay, Idle
    <3>2. evaluation'[f] = Idle
      BY <1>2, <2>0, <2>2, <3>1 DEF UnderWay
    <3>3. QED
      BY <3>2 DEF UnderWay
  <2>3. CASE f # e /\ UnderWay(f)
    <3>1. evaluation[f] \in Decision /\ Sound(evaluation[f])
      BY <2>3 DEF ScalerInv, UnderWay
    <3>2. CASE evaluation[f].policy = p
      <4> DEFINE w == [evaluation[f] EXCEPT !.raced = TRUE]
      <4>1. evaluation'[f] = w
        BY <1>2, <2>3, <3>2
      <4>2. /\ w \in Decision /\ w.raced
            /\ w.policy = evaluation[f].policy /\ w.snapshot = evaluation[f].snapshot
            /\ w.desired = evaluation[f].desired
        BY <3>1 DEF Decision
      <4> HIDE DEF w
      <4>3. QED
        BY <1>2, <2>0, <3>1, <4>1, <4>2 DEF Sound
    <3>3. CASE evaluation[f].policy # p
      <4>1. evaluation'[f] = evaluation[f] /\ evaluation[f].policy \in PolicyIds
        BY <1>2, <2>3, <3>1, <3>3 DEF Decision
      <4>2. ago'[evaluation[f].policy] = ago[evaluation[f].policy]
        BY <1>3, <3>3, <4>1
      <4>3. QED
        BY <1>2, <2>0, <3>1, <4>1, <4>2 DEF Sound
    <3>4. QED
      BY <3>2, <3>3
  <2>4. QED
    BY <2>1, <2>2, <2>3
<1>6. evaluation' \in [Evaluations -> Decision \cup {Idle}]
  BY <1>2, <1>5
<1>7. ScalerTypeOK'
  BY <1>2, <1>3, <1>5 DEF ScalerInv, ScalerTypeOK
<1>8. QED
  BY <1>4, <1>5, <1>6, <1>7 DEF ScalerInv

\* Time never takes a cooldown back.
LEMMA ScalerInvTick ==
  ASSUME ScalerInv, ScalerTick
  PROVE  ScalerInv'
<1>1. /\ since' = [p \in PolicyIds |-> Older(since[p])]
      /\ ago' = [p \in PolicyIds |-> Older(ago[p])]
      /\ UNCHANGED <<current, settings, evaluation>>
  BY DEF ScalerTick
<1>2. \A p \in PolicyIds : since[p] \in Ages /\ ago[p] \in Ages
  BY DEF ScalerInv, ScalerTypeOK
<1>3. /\ ago' \in [PolicyIds -> Ages] /\ since' \in [PolicyIds -> Ages]
      /\ \A p \in PolicyIds, d \in Directions : ago[p][d] <= ago'[p][d]
      /\ \A p \in PolicyIds, d \in Directions : since'[p][d] <= ago'[p][d]
  <2>1. \A p \in PolicyIds, d \in Directions : since[p][d] <= ago[p][d]
    BY DEF ScalerInv
  <2> QED
    BY <1>1, <1>2, <2>1, OlderAges
<1>4. ASSUME NEW e \in Evaluations, UnderWay(e)
      PROVE  Sound(evaluation[e])'
  <2> DEFINE p == evaluation[e].policy
             d == evaluation[e].direction
  <2>1. evaluation[e] \in Decision /\ Sound(evaluation[e])
    BY <1>4 DEF ScalerInv, UnderWay
  <2>2. p \in PolicyIds /\ d \in Directions /\ settings[p] \in Settings
    BY <2>1 DEF Decision, Sound
  <2>3. ago[p][d] \in Int /\ ago'[p][d] \in Int /\ ago[p][d] <= ago'[p][d]
    BY <1>2, <1>3, <2>2 DEF Ages
  <2>4. CooldownOf(settings[p], d) \in Int
    BY <2>2, CooldownsFit
  <2>5. ago[p][d] >= CooldownOf(settings[p], d) => ago'[p][d] >= CooldownOf(settings[p], d)
    BY <2>3, <2>4
  <2>6. QED
    BY <1>1, <2>1, <2>5 DEF Sound
<1>5. ScalerTypeOK'
  BY <1>1, <1>3 DEF ScalerInv, ScalerTypeOK, UnderWay
<1>6. ASSUME NEW p \in PolicyIds, settings'[p] = NoPolicy
      PROVE  ago'[p] = LongAgo
  <2>1. ago[p] = LongAgo /\ ago'[p] = Older(LongAgo)
    BY <1>1, <1>6 DEF ScalerInv
  <2>2. Older(LongAgo) = LongAgo
    BY AutoscalerAssumption DEF Older, LongAgo
  <2> QED
    BY <2>1, <2>2
<1>7. QED
  BY <1>1, <1>3, <1>4, <1>5, <1>6 DEF ScalerInv, UnderWay

LEMMA ScalerInvAbort ==
  ASSUME ScalerInv, PolicyRaceAborts
  PROVE  ScalerInv'
  BY DEF PolicyRaceAborts, ScalerInv, ScalerTypeOK, UnderWay

LEMMA ScalerInvNext == ScalerInv /\ [ScalerNext]_scalerVars => ScalerInv'
<1> SUFFICES ASSUME ScalerInv, [ScalerNext]_scalerVars PROVE ScalerInv'
  OBVIOUS
<1>1. CASE UNCHANGED scalerVars
  BY <1>1 DEF scalerVars, ScalerInv, ScalerTypeOK, UnderWay, Sound
<1>2. QED
  BY <1>1, ScalerInvRegister, ScalerInvDecide, ScalerInvRecord, ScalerInvTick, ScalerInvAbort
  DEF ScalerNext

LEMMA ScalerInvariant == ScalerSpec => []ScalerInv
<1>1. ScalerInv /\ [ScalerNext]_scalerVars => ScalerInv'
  BY ScalerInvNext
<1>2. QED
  BY <1>1, ScalerInvInit, PTL DEF ScalerSpec

\* Every reachable state is well typed: the policy in force and the policies of
\* decisions under way were registered.
THEOREM ScalerTypeCorrect == ScalerSpec => []ScalerTypeOK
<1>1. ScalerInv => ScalerTypeOK
  BY DEF ScalerInv
<1>2. QED
  BY <1>1, ScalerInvariant, PTL

\* Every decision stays within its policy's bounds and goes the way of the load,
\* for all bounds, targets and loads, although the quotient is rounded up, as
\* long as an int can hold it.
THEOREM DecisionsFollowLoad == ScalerSpec => []DecisionFollowsLoad
<1>1. ScalerInv => DecisionFollowsLoad
  BY DEF ScalerInv, Sound, Follows, DecisionFollowsLoad
<1>2. QED
  BY <1>1, ScalerInvariant, PTL

\* Two decisions of a kind under one policy are a cooldown apart, whatever times
\* its body came with, unless the later one was decided before the earlier one
\* was written.
THEOREM CooldownsAreKept == ScalerSpec => CooldownsHold
<1> DEFINE Kept ==
      \A e \in Evaluations :
        UnderWay(e) /\ ~ UnderWay(e)' /\ current' # NoPolicy /\ ~ evaluation[e].raced
        => LET p == evaluation[e].policy
               d == evaluation[e].direction
           IN ago[p][d] >= CooldownOf(settings[p], d)
<1>1. ScalerInv => Kept
  BY DEF ScalerInv, Sound
<1> HIDE DEF Kept
<1>2. ScalerSpec => [][Kept]_scalerVars
  BY <1>1, ScalerInvariant, PTL
<1>3. QED
  BY <1>2 DEF Kept, CooldownsHold
=============================================================================
