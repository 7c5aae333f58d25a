------------------------ MODULE FunctionManagerProofs ------------------------
(***************************************************************************)
(* Proofs about FunctionManager, for every number of functions, instances, *)
(* deployments, DELETE handlers and restarts.                              *)
(***************************************************************************)
EXTENDS FunctionManager, FunctionCatalogProofs

(***************************************************************************)
(* TypeOK is not inductive. A goroutine that has not returned works for an *)
(* instance that was handed out; before it names its cluster it holds an   *)
(* allocated function and no cluster, afterwards a cluster whose suffix is *)
(* its instance's; a search under way has an attempt left, and a port in   *)
(* hand goes with a service.                                               *)
(***************************************************************************)
ActivePcs == {"start", "yaml", "launch", "launched", "discover", "forward",
              "found", "gaveup"}

RoutineOK(r) ==
  /\ r.pc \in ActivePcs => r.inst \in InstMillis /\ r.inst \in instIssued
  /\ r.pc = "start" => /\ r.fn \in Objects
                       /\ Allocated(r.fn)
  /\ r.pc \in ActivePcs \ {"start"} =>
       r.cluster \in Clusters /\ r.cluster[2] = r.inst % SuffixMod
  /\ r.pc \notin ActivePcs \ {"start"} => r.cluster = NoCluster
  /\ r.pc \in {"start", "yaml", "launch", "launched"} => r.attempt = 0
  /\ r.pc \in {"discover", "forward"} => r.attempt < MaxRetries
  /\ r.pc = "forward" => r.lbSvc \in Clusters

TeardownOK(r) == /\ r.down = "pending" => r.cluster \in Clusters
                 /\ r.pc = "removing" => r.inst \in InstMillis
                 /\ r.pc = "idle" => r.down = "none"

InstancesOK ==
  /\ instIssued \subseteq InstMillis
  /\ DOMAIN instances \subseteq InstMillis
  /\ \A i \in DOMAIN instances : instances[i] \in Instance /\ i \in instIssued

RoutinesOK == /\ deploy \in [Routines -> Routine]
              /\ \A g \in Routines : RoutineOK(deploy[g])

TeardownsOK == /\ teardown \in [Teardowns -> Teardown]
               /\ \A d \in Teardowns : TeardownOK(teardown[d])

OutsideOK == /\ nextPort \in Nat
             /\ DOMAIN forward \subseteq Nat
             /\ \A p \in DOMAIN forward : forward[p] \in Clusters
             /\ sky \subseteq Clusters

ShapeInv == CatalogInv /\ InstancesOK /\ RoutinesOK /\ TeardownsOK /\ OutsideOK

(***************************************************************************)
(* Who has a claim on a cluster: the instance that names it, the instance  *)
(* whose deployment is at work on it, the instance whose DELETE is tearing *)
(* it down.                                                                *)
(***************************************************************************)
Claims(c, i) ==
  \/ i \in DOMAIN instances /\ instances[i].sky = c
  \/ \E g \in Routines : deploy[g].cluster = c /\ deploy[g].inst = i
  \/ \E d \in Teardowns : /\ teardown[d].down = "pending"
                          /\ teardown[d].cluster = c
                          /\ teardown[d].inst = i

Known(c) == c \in sky \/ \E i \in InstMillis \cup {0} : Claims(c, i)

\* Identifiers whose deployment has not named a cluster yet.
Unnamed(t) == t \notin instIssued \/ \E g \in Routines : deploy[g].pc = "start" /\ deploy[g].inst = t

OneRoutine == \A g, h \in Routines :
  deploy[g].pc \in ActivePcs /\ deploy[h].pc \in ActivePcs /\ deploy[g].inst = deploy[h].inst
    => g = h

\* No cluster bears the suffix of an identifier that has not named one yet,
\* and no cluster is claimed by two identifiers.
UnusedSuffix == \A c \in Clusters, t \in InstMillis :
  Unnamed(t) /\ Known(c) => c[2] # t % SuffixMod

OneOwner == \A c \in Clusters : \A i, j \in InstMillis \cup {0} :
  Claims(c, i) /\ Claims(c, j) => i = j

OwnerInv == UnusedSuffix /\ OneOwner

\* Six digits tell the identifiers apart: true of instances created within
\* 1000 seconds of each other.
SuffixesDistinct == \A s, t \in InstMillis : s % SuffixMod = t % SuffixMod => s = t

-----------------------------------------------------------------------------
(* Types and shapes *)

LEMMA ShapeImpliesType == ShapeInv => TypeOK
  BY DEF ShapeInv, CatalogInv, InstancesOK, RoutinesOK, TeardownsOK, OutsideOK, TypeOK

LEMMA IdleTypes ==
  /\ IdleRoutine \in Routine /\ RoutineOK(IdleRoutine)
  /\ Returned \in Routine /\ RoutineOK(Returned)
  /\ IdleTeardown \in Teardown /\ TeardownOK(IdleTeardown)
<1>1. IdleRoutine \in Routine /\ Returned \in Routine
  <2>1. 0 \in 0 .. MaxRetries
    <3>1. MaxRetries \in Nat
      BY ManagerAssumption
    <3>2. QED
      BY <3>1
  <2>2. IdleRoutine \in Routine
    BY <2>1 DEF IdleRoutine, Routine
  <2>3. Returned = [pc |-> "done", inst |-> 0, fn |-> NoObject,
                    cluster |-> NoCluster, attempt |-> 0, port |-> 0,
                    lbSvc |-> NoCluster]
    BY DEF Returned, IdleRoutine
  <2>4. Returned \in Routine
    BY <2>1, <2>3 DEF Routine
  <2>5. QED
    BY <2>2, <2>4
<1>2. RoutineOK(IdleRoutine) /\ RoutineOK(Returned)
  BY DEF IdleRoutine, Returned, RoutineOK, ActivePcs
<1>3. IdleTeardown \in Teardown /\ TeardownOK(IdleTeardown)
  BY DEF IdleTeardown, Teardown, TeardownOK
<1>4. QED
  BY <1>1, <1>2, <1>3

LEMMA NoClusterIsNone == NoCluster \notin Clusters
  BY ManagerAssumption

LEMMA ShapeInit == Init => ShapeInv
<1> SUFFICES ASSUME Init PROVE ShapeInv
  OBVIOUS
<1>1. CatalogInv
  BY CatalogInvInit DEF Init
<1>2. InstancesOK /\ OutsideOK
  BY EmptyMapEntries DEF Init, InstancesOK, OutsideOK
<1>3. RoutinesOK
  BY IdleTypes DEF Init, RoutinesOK
<1>4. TeardownsOK
  BY IdleTypes DEF Init, TeardownsOK
<1>5. QED
  BY <1>1, <1>2, <1>3, <1>4 DEF ShapeInv

\* A step that writes one goroutine keeps RoutinesOK if the new content is OK.
LEMMA RoutineWrite ==
  ASSUME RoutinesOK, NEW g \in Routines, NEW r \in Routine, RoutineOK(r),
         deploy' = [deploy EXCEPT ![g] = r],
         UNCHANGED <<instIssued, heap>>
  PROVE  /\ RoutinesOK'
         /\ deploy'[g] = r
         /\ \A h \in Routines : h # g => deploy'[h] = deploy[h]
<1>1. /\ deploy' \in [Routines -> Routine]
      /\ deploy'[g] = r
      /\ \A h \in Routines : h # g => deploy'[h] = deploy[h]
  BY DEF RoutinesOK
<1>2. \A x : RoutineOK(x) => RoutineOK(x)'
  BY DEF RoutineOK, Allocated
<1>3. QED
  BY <1>1, <1>2 DEF RoutinesOK

\* A callback changes the record of its own instance, if that is still there.
LEMMA NotifyEffect ==
  ASSUME InstancesOK, UNCHANGED instIssued, NEW g,
         NEW status \in Settled \cup {"deploying"},
         NEW endpoint \in Nat \cup {NoEndpoint, External},
         NEW cluster \in Clusters \cup {NoCluster},
         Notify(g, status, endpoint, cluster)
  PROVE  /\ InstancesOK'
         /\ DOMAIN instances' = DOMAIN instances
         /\ \A i \in DOMAIN instances :
              IF i = deploy[g].inst
              THEN instances'[i] = [status |-> status, endpoint |-> endpoint,
                                    sky |-> cluster, via |-> "skypilot"]
              ELSE instances'[i] = instances[i]
<1> DEFINE r == [status |-> status, endpoint |-> endpoint, sky |-> cluster, via |-> "skypilot"]
<1>1. r \in Instance
  BY DEF Instance, Vias
<1>2. instances' = IF deploy[g].inst \in DOMAIN instances
                   THEN [instances EXCEPT ![deploy[g].inst] = r] ELSE instances
  BY DEF Notify
<1>3. /\ DOMAIN instances' = DOMAIN instances
      /\ \A i \in DOMAIN instances :
           IF i = deploy[g].inst THEN instances'[i] = r ELSE instances'[i] = instances[i]
  BY <1>2
<1>4. QED
  BY <1>1, <1>3 DEF InstancesOK

LEMMA ModRange == \A t \in Nat : t % SuffixMod \in 0 .. SuffixMod - 1
<1>1. SuffixMod \in Nat \ {0}
  BY ManagerAssumption
<1>2. QED
  BY <1>1

\* The part of the state that a deployment does not touch stays OK.
LEMMA OthersKept ==
  /\ CatalogInv /\ UNCHANGED catalogVars => CatalogInv'
  /\ InstancesOK /\ UNCHANGED <<instIssued, instances>> => InstancesOK'
  /\ TeardownsOK /\ UNCHANGED teardown => TeardownsOK'
  /\ OutsideOK /\ UNCHANGED <<nextPort, forward, sky>> => OutsideOK'
<1>1. CatalogInv /\ UNCHANGED catalogVars => CatalogInv'
  BY CatalogInvStep
<1>2. InstancesOK /\ UNCHANGED <<instIssued, instances>> => InstancesOK'
  BY DEF InstancesOK
<1>3. TeardownsOK /\ UNCHANGED teardown => TeardownsOK'
  BY DEF TeardownsOK, TeardownOK
<1>4. OutsideOK /\ UNCHANGED <<nextPort, forward, sky>> => OutsideOK'
  BY DEF OutsideOK
<1>5. QED
  BY <1>1, <1>2, <1>3, <1>4

LEMMA RoutineFacts ==
  ASSUME ShapeInv, NEW g \in Routines
  PROVE  deploy[g] \in Routine /\ RoutineOK(deploy[g])
  BY DEF ShapeInv, RoutinesOK

LEMMA NameClusterShape ==
  ASSUME ShapeInv, NEW g \in Routines, NameCluster(g)
  PROVE  ShapeInv'
<1> DEFINE c == <<Slug[heap[deploy[g].fn]], deploy[g].inst % SuffixMod>>
           r == [deploy[g] EXCEPT !.pc = "yaml", !.cluster = c]
<1>1. deploy[g] \in Routine /\ RoutineOK(deploy[g]) /\ deploy[g].pc = "start"
  BY RoutineFacts DEF NameCluster
<1>2. c \in Clusters /\ c[2] = deploy[g].inst % SuffixMod
  <2>1. deploy[g].inst \in InstMillis /\ deploy[g].fn \in Objects /\ heap[deploy[g].fn] # NoName
    BY <1>1 DEF RoutineOK, ActivePcs, Allocated
  <2>2. heap[deploy[g].fn] \in Names
    BY <2>1 DEF ShapeInv, CatalogInv, CatalogTypeOK
  <2>3. Slug[heap[deploy[g].fn]] \in Names
    BY <2>2, ManagerAssumption
  <2>4. deploy[g].inst \in Nat
    BY <2>1, ManagerAssumption
  <2>5. deploy[g].inst % SuffixMod \in 0 .. SuffixMod - 1
    BY <2>4, ModRange
  <2>6. QED
    BY <2>3, <2>5 DEF Clusters
<1>3. /\ r \in Routine
      /\ r.pc = "yaml" /\ r.cluster = c /\ r.inst = deploy[g].inst
      /\ r.attempt = deploy[g].attempt
  BY <1>1, <1>2 DEF Routine
<1>4. RoutineOK(r)
  BY <1>1, <1>2, <1>3 DEF RoutineOK, ActivePcs
<1>5. deploy' = [deploy EXCEPT ![g] = r]
  BY DEF NameCluster, ShapeInv, RoutinesOK
<1>6. UNCHANGED <<instIssued, heap>>
  BY DEF NameCluster, catalogVars
<1>7. RoutinesOK'
  BY <1>3, <1>4, <1>5, <1>6, RoutineWrite DEF ShapeInv
<1>8. InstancesOK'
  BY <1>2, <1>6, NotifyEffect DEF NameCluster, ShapeInv
<1>9. QED
  BY <1>7, <1>8, OthersKept DEF NameCluster, ShapeInv

\* A goroutine that moves on without a callback: only its place changes.
LEMMA AdvanceShape ==
  ASSUME ShapeInv, NEW g \in Routines,
         WriteTask(g) \/ ClusterComesUp(g) \/ LaunchSucceeds(g) \/ AttemptFails(g)
           \/ AllocatePort(g) \/ StartForward(g)
  PROVE  /\ RoutinesOK'
         /\ \A h \in Routines : h # g => deploy'[h] = deploy[h]
         /\ deploy'[g].cluster = deploy[g].cluster
         /\ deploy'[g].inst = deploy[g].inst
         /\ deploy[g].pc \in ActivePcs \ {"start"}
         /\ deploy'[g].pc \in ActivePcs \ {"start"}
<1> DEFINE old == deploy[g]
           to(p) == [old EXCEPT !.pc = p]
<1>1. old \in Routine /\ RoutineOK(old)
  BY RoutineFacts
<1>2. MaxRetries \in Nat \ {0} /\ old.attempt \in Nat
  <2>1. MaxRetries \in Nat \ {0}
    BY ManagerAssumption
  <2>2. QED
    BY <1>1, <2>1 DEF Routine
<1>3. UNCHANGED <<instIssued, heap>>
  BY DEF WriteTask, ClusterComesUp, LaunchSucceeds, AttemptFails, AllocatePort, StartForward,
         catalogVars
<1>4. SUFFICES \E r \in Routine :
                 /\ RoutineOK(r)
                 /\ deploy' = [deploy EXCEPT ![g] = r]
                 /\ r.cluster = old.cluster /\ r.inst = old.inst
                 /\ old.pc \in ActivePcs \ {"start"} /\ r.pc \in ActivePcs \ {"start"}
  BY <1>3, RoutineWrite DEF ShapeInv
<1>5. CASE WriteTask(g)
  <2> DEFINE r == to("launch")
  <2>1. deploy' = [deploy EXCEPT ![g] = r] /\ old.pc = "yaml"
    BY <1>5 DEF WriteTask, ShapeInv, RoutinesOK
  <2>2. /\ r \in Routine
        /\ r.pc = "launch" /\ r.cluster = old.cluster /\ r.inst = old.inst
        /\ r.attempt = old.attempt
    BY <1>1 DEF Routine
  <2>3. RoutineOK(r)
    BY <1>1, <2>1, <2>2 DEF RoutineOK, ActivePcs
  <2>4. QED
    BY <2>1, <2>2, <2>3 DEF ActivePcs
<1>9. CASE ClusterComesUp(g)
  <2> DEFINE r == to("launched")
  <2>1. deploy' = [deploy EXCEPT ![g] = r] /\ old.pc = "launch"
    BY <1>9 DEF ClusterComesUp, ShapeInv, RoutinesOK
  <2>2. /\ r \in Routine
        /\ r.pc = "launched" /\ r.cluster = old.cluster /\ r.inst = old.inst
        /\ r.attempt = old.attempt
    BY <1>1 DEF Routine
  <2>3. RoutineOK(r)
    BY <1>1, <2>1, <2>2 DEF RoutineOK, ActivePcs
  <2>4. QED
    BY <2>1, <2>2, <2>3 DEF ActivePcs
<1>10. CASE StartForward(g)
  <2> DEFINE r == to("found")
  <2>1. deploy' = [deploy EXCEPT ![g] = r] /\ old.pc = "forward"
    BY <1>10 DEF StartForward, ShapeInv, RoutinesOK
  <2>2. /\ r \in Routine
        /\ r.pc = "found" /\ r.cluster = old.cluster /\ r.inst = old.inst
        /\ r.attempt = old.attempt
    BY <1>1 DEF Routine
  <2>3. RoutineOK(r)
    BY <1>1, <2>1, <2>2 DEF RoutineOK, ActivePcs
  <2>4. QED
    BY <2>1, <2>2, <2>3 DEF ActivePcs
<1>6. CASE LaunchSucceeds(g)
  <2> DEFINE r == to("discover")
  <2>1. deploy' = [deploy EXCEPT ![g] = r] /\ old.pc = "launched"
    BY <1>6 DEF LaunchSucceeds, ShapeInv, RoutinesOK
  <2>2. /\ r \in Routine
        /\ r.pc = "discover" /\ r.cluster = old.cluster /\ r.inst = old.inst
        /\ r.attempt = old.attempt
    BY <1>1 DEF Routine
  <2>3. old.attempt < MaxRetries
    BY <1>1, <1>2, <2>1 DEF RoutineOK
  <2>4. RoutineOK(r)
    BY <1>1, <2>1, <2>2, <2>3 DEF RoutineOK, ActivePcs
  <2>5. QED
    BY <2>1, <2>2, <2>4 DEF ActivePcs
<1>7. CASE AttemptFails(g)
  <2> DEFINE p == IF old.attempt + 1 = MaxRetries THEN "gaveup" ELSE "discover"
             r == [old EXCEPT !.attempt = old.attempt + 1, !.pc = p]
  <2>1. deploy' = [deploy EXCEPT ![g] = r] /\ old.pc \in {"discover", "forward"}
    BY <1>7 DEF AttemptFails, ShapeInv, RoutinesOK
  <2>2. old.attempt < MaxRetries
    BY <1>1, <2>1 DEF RoutineOK
  <2>3. old.attempt + 1 \in 0 .. MaxRetries
    BY <1>2, <2>2
  <2>4. /\ r \in Routine
        /\ r.pc = p /\ r.cluster = old.cluster /\ r.inst = old.inst
        /\ r.attempt = old.attempt + 1
    BY <1>1, <2>3 DEF Routine
  <2>5. p = "discover" => r.attempt < MaxRetries
    BY <1>2, <2>2, <2>4
  <2>6. RoutineOK(r)
    BY <1>1, <2>1, <2>4, <2>5 DEF RoutineOK, ActivePcs
  <2>7. old.pc \in ActivePcs \ {"start"} /\ r.pc \in ActivePcs \ {"start"}
    BY <2>1, <2>4 DEF ActivePcs
  <2> HIDE DEF r, p
  <2>8. QED
    BY <2>1, <2>4, <2>6, <2>7
<1>8. CASE AllocatePort(g)
  <2>0. PICK d \in Clusters :
          deploy' = [deploy EXCEPT ![g].pc = "forward", ![g].port = nextPort, ![g].lbSvc = d]
    BY <1>8 DEF AllocatePort
  <2> DEFINE r == [old EXCEPT !.pc = "forward", !.port = nextPort, !.lbSvc = d]
  <2>1. deploy' = [deploy EXCEPT ![g] = r] /\ old.pc = "discover"
    BY <1>8, <2>0 DEF AllocatePort, ShapeInv, RoutinesOK
  <2>2. /\ r \in Routine
        /\ r.pc = "forward" /\ r.cluster = old.cluster /\ r.inst = old.inst
        /\ r.attempt = old.attempt /\ r.lbSvc = d
    BY <1>1 DEF Routine, ShapeInv, OutsideOK
  <2>3. RoutineOK(r)
    BY <1>1, <2>1, <2>2 DEF RoutineOK, ActivePcs
  <2>4. QED
    BY <2>1, <2>2, <2>3 DEF ActivePcs
<1>11. QED
  BY <1>5, <1>6, <1>7, <1>8, <1>9, <1>10

LEMMA AdvanceInv ==
  ASSUME ShapeInv, NEW g \in Routines,
         WriteTask(g) \/ ClusterComesUp(g) \/ LaunchSucceeds(g) \/ AttemptFails(g)
           \/ AllocatePort(g) \/ StartForward(g)
  PROVE  ShapeInv'
<1>1. RoutinesOK' /\ deploy[g].pc \in ActivePcs \ {"start"}
  BY AdvanceShape
<1>2. deploy[g].cluster \in Clusters /\ deploy[g].port \in Nat
  BY <1>1, RoutineFacts DEF RoutineOK, Routine
<1>3. UNCHANGED <<instIssued, instances, teardown>> /\ UNCHANGED catalogVars
  BY DEF WriteTask, ClusterComesUp, LaunchSucceeds, AttemptFails, AllocatePort, StartForward
<1>4. nextPort \in Nat /\ sky \subseteq Clusters
  BY DEF ShapeInv, OutsideOK
<1>5. OutsideOK'
  <2>1. CASE WriteTask(g) \/ LaunchSucceeds(g) \/ AttemptFails(g)
    BY <2>1, OthersKept DEF ShapeInv, WriteTask, LaunchSucceeds, AttemptFails
  <2>2. CASE ClusterComesUp(g)
    BY <1>2, <2>2 DEF ShapeInv, OutsideOK, ClusterComesUp
  <2>3. CASE AllocatePort(g)
    BY <1>4, <2>3 DEF ShapeInv, OutsideOK, AllocatePort
  <2>4. CASE StartForward(g)
    <3>0. deploy[g].lbSvc \in Clusters
      BY <2>4, RoutineFacts DEF RoutineOK, StartForward
    <3>1. CASE forward' = Put(forward, deploy[g].port, deploy[g].lbSvc)
      <4>1. /\ DOMAIN forward' = DOMAIN forward \cup {deploy[g].port}
            /\ forward'[deploy[g].port] = deploy[g].lbSvc
            /\ \A p \in DOMAIN forward : p # deploy[g].port => forward'[p] = forward[p]
        BY <3>1 DEF Put
      <4>2. QED
        BY <1>2, <2>4, <3>0, <4>1 DEF ShapeInv, OutsideOK, StartForward
    <3>2. CASE UNCHANGED forward
      BY <2>4, <3>2 DEF ShapeInv, OutsideOK, StartForward
    <3>3. QED
      BY <2>4, <3>1, <3>2 DEF StartForward
  <2>5. QED
    BY <2>1, <2>2, <2>3, <2>4
<1>6. QED
  BY <1>1, <1>3, <1>5, OthersKept DEF ShapeInv

\* A goroutine that makes its last callback and returns.
LEMMA ReturnShape ==
  ASSUME ShapeInv, NEW g \in Routines, DeployFails(g) \/ ReportEndpoint(g)
  PROVE  /\ ShapeInv'
         /\ deploy'[g] = Returned
         /\ \A h \in Routines : h # g => deploy'[h] = deploy[h]
         /\ DOMAIN instances' = DOMAIN instances
         /\ \A i \in DOMAIN instances :
              IF i = deploy[g].inst
              THEN /\ instances'[i].sky = deploy[g].cluster
                   /\ instances'[i].via = "skypilot"
                   /\ instances'[i].status \in Settled
                   /\ instances'[i].endpoint \in Nat =>
                        deploy[g].pc = "found" /\ instances'[i].endpoint = deploy[g].port
              ELSE instances'[i] = instances[i]
<1>1. deploy[g].pc \in ActivePcs \ {"start"}
  BY DEF DeployFails, ReportEndpoint, ActivePcs
<1>2. deploy[g].cluster \in Clusters /\ deploy[g].port \in Nat
  BY <1>1, RoutineFacts DEF RoutineOK, Routine
<1>3. /\ deploy' = [deploy EXCEPT ![g] = Returned]
      /\ UNCHANGED <<instIssued, teardown, nextPort, forward, sky>>
      /\ UNCHANGED catalogVars
  BY DEF DeployFails, ReportEndpoint
<1>4. UNCHANGED heap
  BY <1>3 DEF catalogVars
<1>5. /\ RoutinesOK'
      /\ deploy'[g] = Returned
      /\ \A h \in Routines : h # g => deploy'[h] = deploy[h]
  BY <1>3, <1>4, IdleTypes, RoutineWrite DEF ShapeInv
<1>6. PICK status \in Settled, endpoint \in Nat \cup {NoEndpoint} :
        /\ Notify(g, status, endpoint, deploy[g].cluster)
        /\ endpoint \in Nat => deploy[g].pc = "found" /\ endpoint = deploy[g].port
  <2>1. NoEndpoint \notin Nat
    BY ManagerAssumption
  <2>2. QED
    BY <1>2, <2>1 DEF DeployFails, ReportEndpoint, Settled
<1>7. /\ InstancesOK'
      /\ DOMAIN instances' = DOMAIN instances
      /\ \A i \in DOMAIN instances :
           IF i = deploy[g].inst
           THEN instances'[i] = [status |-> status, endpoint |-> endpoint,
                                 sky |-> deploy[g].cluster, via |-> "skypilot"]
           ELSE instances'[i] = instances[i]
  BY <1>2, <1>3, <1>6, NotifyEffect DEF ShapeInv
<1>8. QED
  BY <1>3, <1>5, <1>6, <1>7, OthersKept DEF ShapeInv

\* A new record under an identifier of the current millisecond.
LEMMA NewInstance ==
  ASSUME InstancesOK, NEW t, NEW r \in Instance,
         FreshInstId(t), instIssued' = instIssued \cup {t}, instances' = Put(instances, t, r)
  PROVE  /\ InstancesOK'
         /\ DOMAIN instances' = DOMAIN instances \cup {t}
         /\ instances'[t] = r
         /\ \A i \in DOMAIN instances : i # t => instances'[i] = instances[i]
         /\ t \in InstMillis /\ (DistinctInstIds => t \notin instIssued)
<1>1. t \in InstMillis /\ (DistinctInstIds => t \notin instIssued)
  BY DEF FreshInstId
<1>2. /\ DOMAIN instances' = DOMAIN instances \cup {t}
      /\ instances'[t] = r
      /\ \A i \in DOMAIN instances : i # t => instances'[i] = instances[i]
  BY DEF Put
<1>3. instIssued' \subseteq InstMillis /\ DOMAIN instances' \subseteq InstMillis
  BY <1>1, <1>2 DEF InstancesOK
<1>4. \A i \in DOMAIN instances' : instances'[i] \in Instance /\ i \in instIssued'
  BY <1>2 DEF InstancesOK
<1>5. QED
  BY <1>1, <1>2, <1>3, <1>4 DEF InstancesOK

\* RoutinesOK survives new identifiers and every step of the catalogue:
\* an object once allocated stays so.
LEMMA RoutinesKept ==
  ASSUME RoutinesOK, InstancesOK, UNCHANGED deploy,
         instIssued \subseteq instIssued',
         \A o \in Objects : Allocated(o) => Allocated(o)'
  PROVE  RoutinesOK'
<1> SUFFICES ASSUME NEW g \in Routines PROVE RoutineOK(deploy[g])'
  BY DEF RoutinesOK
<1>1. RoutineOK(deploy[g]) /\ deploy'[g] = deploy[g]
  BY DEF RoutinesOK
<1>2. QED
  BY <1>1 DEF RoutineOK

LEMMA AllocatedKept ==
  ASSUME CatalogInv, [CatalogNext]_catalogVars
  PROVE  \A o \in Objects : Allocated(o) => Allocated(o)'
<1>1. heap \in [Objects -> Names \cup {NoName}] /\ NoName \notin Names /\ UpdateNames \subseteq Names
  BY CatalogAssumption DEF CatalogInv, CatalogTypeOK
<1>2. CASE UNCHANGED heap
  BY <1>2 DEF Allocated
<1>3. CASE \E o \in Objects, t \in FnMillis, n \in Names, s \in Savers : CreateFunction(o, t, n, s)
  BY <1>1, <1>3 DEF CreateFunction, Allocated
<1>4. CASE \E i \in FnMillis, n \in UpdateNames, s \in Savers : UpdateFunction(i, n, s)
  BY <1>1, <1>4 DEF UpdateFunction, Allocated
<1>5. QED
  BY <1>2, <1>3, <1>4
  DEF CatalogNext, CatalogRequest, DeleteFunction, SaverStep, LookupAndSpawnSave,
      MarshalSave, DeliverSave, LoseSave, ProcessDies, Restart, PanicSave, CatalogLost,
      catalogVars

LEMMA DeployFunctionShape ==
  ASSUME ShapeInv, NEW i \in FnMillis, NEW t \in InstMillis, NEW g \in Routines,
         DeployFunction(i, t, g)
  PROVE  ShapeInv'
<1> DEFINE r == [IdleRoutine EXCEPT !.pc = "start", !.inst = t, !.fn = functions[i]]
           n == [status |-> "deploying", endpoint |-> NoEndpoint, sky |-> NoCluster, via |-> ""]
<1>1. n \in Instance
  BY DEF Instance, Vias
<1>2. InstancesOK'
  BY <1>1, NewInstance DEF DeployFunction, ShapeInv
<1>3. functions[i] \in Objects /\ Allocated(functions[i])
  BY DEF DeployFunction, ShapeInv, CatalogInv, CatalogTypeOK, SavesCarryFields
<1>4. /\ r \in Routine
      /\ r.pc = "start" /\ r.inst = t /\ r.fn = functions[i]
      /\ r.cluster = NoCluster /\ r.attempt = 0
  <2>1. IdleRoutine \in Routine
    BY IdleTypes
  <2>2. IdleRoutine.cluster = NoCluster /\ IdleRoutine.attempt = 0
    BY DEF IdleRoutine
  <2>3. QED
    BY <1>3, <2>1, <2>2 DEF Routine
<1>5. deploy' = [deploy EXCEPT ![g] = r]
  BY DEF DeployFunction
<1>6. UNCHANGED <<teardown, nextPort, forward, sky>> /\ UNCHANGED catalogVars /\ instIssued' = instIssued \cup {t}
  BY DEF DeployFunction
<1>7. instIssued \subseteq instIssued' /\ t \in instIssued'
  BY <1>6
<1>8. deploy' \in [Routines -> Routine] /\ deploy'[g] = r
  BY <1>4, <1>5 DEF ShapeInv, RoutinesOK
<1>10. RoutineOK(deploy[g])'
  BY <1>3, <1>4, <1>6, <1>7, <1>8 DEF RoutineOK, ActivePcs, Allocated, catalogVars
<1>9. \A h \in Routines : h # g => deploy'[h] = deploy[h] /\ RoutineOK(deploy[h])'
  <2> SUFFICES ASSUME NEW h \in Routines, h # g
               PROVE  deploy'[h] = deploy[h] /\ RoutineOK(deploy[h])'
    OBVIOUS
  <2>1. deploy'[h] = deploy[h] /\ RoutineOK(deploy[h])
    BY <1>5 DEF ShapeInv, RoutinesOK
  <2>2. QED
    BY <1>6, <1>7, <2>1 DEF RoutineOK, Allocated, catalogVars
<1>11. RoutinesOK'
  BY <1>8, <1>9, <1>10 DEF RoutinesOK
<1>12. QED
  BY <1>2, <1>6, <1>11, OthersKept DEF ShapeInv

\* Requests that change one record, add one, or begin a teardown.
LEMMA PatchShape ==
  ASSUME ShapeInv, NEW i \in InstMillis, PatchInstance(i)
  PROVE  /\ ShapeInv'
         /\ DOMAIN instances' = DOMAIN instances
         /\ \A j \in DOMAIN instances : instances'[j].sky = instances[j].sky
         /\ \A j \in DOMAIN instances : instances'[j].via = instances[j].via
         /\ \A j \in DOMAIN instances : j # i => instances'[j] = instances[j]
         /\ i \in DOMAIN instances
         /\ instances'[i].status \in PatchStatuses \cup {instances[i].status}
         /\ instances'[i].endpoint \in {NoEndpoint, External, instances[i].endpoint}
<1>1. i \in DOMAIN instances /\ instances[i] \in Instance
  BY DEF PatchInstance, MayTouch, ShapeInv, InstancesOK
<1>2. PICK status \in PatchStatuses \cup {instances[i].status},
           endpoint \in PatchEndpoints \cup {instances[i].endpoint} :
        instances' = [instances EXCEPT ![i].status = status, ![i].endpoint = endpoint]
  BY DEF PatchInstance
<1>3. PatchStatuses \subseteq Settled \cup {"deploying"} /\ PatchEndpoints \subseteq {NoEndpoint, External}
  BY ManagerAssumption
<1>4. /\ status \in Settled \cup {"deploying"}
      /\ endpoint \in Nat \cup {NoEndpoint, External}
  BY <1>1, <1>3 DEF Instance
<1> DEFINE r == [instances[i] EXCEPT !.status = status, !.endpoint = endpoint]
<1>5. /\ r \in Instance /\ r.sky = instances[i].sky /\ r.via = instances[i].via
      /\ r.status = status /\ r.endpoint = endpoint
  BY <1>1, <1>4 DEF Instance
<1>6. instances' = [instances EXCEPT ![i] = r]
  BY <1>1, <1>2 DEF Instance
<1> HIDE DEF r
<1>7. /\ DOMAIN instances' = DOMAIN instances
      /\ instances'[i] = r
      /\ \A j \in DOMAIN instances : j # i => instances'[j] = instances[j]
  BY <1>1, <1>6
<1>8. /\ UNCHANGED <<instIssued, deploy, teardown, nextPort, forward, sky>>
      /\ UNCHANGED catalogVars
  BY DEF PatchInstance
<1>9. InstancesOK'
  BY <1>5, <1>7, <1>8 DEF ShapeInv, InstancesOK
<1>10. RoutinesOK'
  BY <1>8, RoutinesKept DEF ShapeInv, Allocated, catalogVars
<1>11. ShapeInv'
  BY <1>8, <1>9, <1>10, OthersKept DEF ShapeInv
<1>12. QED
  BY <1>1, <1>3, <1>5, <1>7, <1>11

LEMMA SeedShape ==
  ASSUME ShapeInv, NEW t \in InstMillis, NEW c \in Clusters \cup {NoCluster},
         NEW via \in SeedVias, SeedInstance(t, c, via)
  PROVE  ShapeInv'
<1> DEFINE r == [status |-> "running", endpoint |-> External, sky |-> c, via |-> via]
<1>1. r \in Instance
  <2>1. via \in Vias
    BY ManagerAssumption
  <2>2. QED
    BY <2>1 DEF Instance, Settled
<1>2. /\ FreshInstId(t) /\ instIssued' = instIssued \cup {t} /\ instances' = Put(instances, t, r)
      /\ UNCHANGED <<deploy, teardown, nextPort, forward, sky>> /\ UNCHANGED catalogVars
  BY DEF SeedInstance
<1>3. InstancesOK'
  BY <1>1, <1>2, NewInstance DEF ShapeInv
<1>4. RoutinesOK'
  <2>1. instIssued \subseteq instIssued'
    BY <1>2
  <2>2. UNCHANGED deploy /\ \A o \in Objects : Allocated(o) => Allocated(o)'
    BY <1>2 DEF Allocated, catalogVars
  <2>3. QED
    BY <2>1, <2>2, RoutinesKept DEF ShapeInv
<1>5. QED
  BY <1>2, <1>3, <1>4, OthersKept DEF ShapeInv

\* A step that writes one teardown slot.
LEMMA TeardownWrite ==
  ASSUME TeardownsOK, NEW d \in Teardowns, NEW r \in Teardown, TeardownOK(r),
         teardown' = [teardown EXCEPT ![d] = r]
  PROVE  /\ TeardownsOK'
         /\ teardown'[d] = r
         /\ \A e \in Teardowns : e # d => teardown'[e] = teardown[e]
<1>1. /\ teardown' \in [Teardowns -> Teardown]
      /\ teardown'[d] = r
      /\ \A e \in Teardowns : e # d => teardown'[e] = teardown[e]
  BY DEF TeardownsOK
<1>2. QED
  BY <1>1 DEF TeardownsOK, TeardownOK

LEMMA BeginDeleteShape ==
  ASSUME ShapeInv, NEW d \in Teardowns, NEW i \in InstMillis, BeginDelete(d, i)
  PROVE  /\ ShapeInv'
         /\ i \in DOMAIN instances
         /\ teardown'[d].inst = i
         /\ teardown'[d].pc = "removing"
         /\ teardown'[d].down = "pending" =>
              i \in DOMAIN instances /\ instances[i].sky = teardown'[d].cluster
         /\ instances[i].via = "skypilot" /\ instances[i].sky # NoCluster =>
              teardown'[d].down = "pending" /\ teardown'[d].cluster = instances[i].sky
         /\ \A e \in Teardowns : e # d => teardown'[e] = teardown[e]
<1> DEFINE down == instances[i].via = "skypilot" /\ instances[i].sky # NoCluster
           r == [pc |-> "removing", inst |-> i,
                 cluster |-> IF down THEN instances[i].sky ELSE NoCluster,
                 down |-> IF down THEN "pending" ELSE "none"]
<1>1. i \in DOMAIN instances /\ instances[i].sky \in Clusters \cup {NoCluster}
  BY DEF BeginDelete, MayTouch, ShapeInv, InstancesOK, Instance
<1>2. r \in Teardown /\ TeardownOK(r)
  BY <1>1 DEF Teardown, TeardownOK
<1>3. /\ teardown' = [teardown EXCEPT ![d] = r]
      /\ UNCHANGED <<instIssued, instances, deploy, nextPort, forward, sky>>
      /\ UNCHANGED catalogVars
  BY DEF BeginDelete
<1>4. /\ TeardownsOK'
      /\ teardown'[d] = r
      /\ \A e \in Teardowns : e # d => teardown'[e] = teardown[e]
  <2>1. TeardownsOK /\ teardown' = [teardown EXCEPT ![d] = r]
    BY <1>3 DEF ShapeInv
  <2> HIDE DEF r
  <2>2. QED
    BY <1>2, <2>1, TeardownWrite
<1>5. RoutinesOK'
  BY <1>3, RoutinesKept DEF ShapeInv, Allocated, catalogVars
<1>6. ShapeInv'
  BY <1>3, <1>4, <1>5, OthersKept DEF ShapeInv
<1>7. QED
  BY <1>1, <1>4, <1>6

\* A teardown that ends, or whose record is removed, names no other cluster.
LEMMA TeardownShape ==
  ASSUME ShapeInv, NEW d \in Teardowns, TeardownStep(d)
  PROVE  /\ ShapeInv'
         /\ DOMAIN instances' \subseteq DOMAIN instances
         /\ \A i \in DOMAIN instances' : instances'[i] = instances[i]
         /\ \A e \in Teardowns : /\ teardown'[e].inst = teardown[e].inst
                                 /\ teardown'[e].cluster = teardown[e].cluster
                                 /\ teardown'[e].down = "pending" => teardown[e].down = "pending"
<1> DEFINE old == teardown[d]
<1>1. old \in Teardown /\ TeardownOK(old)
  BY DEF ShapeInv, TeardownsOK
<1>2. PICK r \in {[old EXCEPT !.pc = "done"], [old EXCEPT !.down = "ok"],
                  [old EXCEPT !.down = "failed"]} :
        /\ teardown' = [teardown EXCEPT ![d] = r]
        /\ r = [old EXCEPT !.pc = "done"] \/ old.down = "pending"
  BY <1>1 DEF TeardownStep, EndDelete, SkyDownSucceeds, SkyDownFails, ShapeInv, TeardownsOK
<1>3. /\ r \in Teardown /\ TeardownOK(r)
      /\ r.inst = old.inst /\ r.cluster = old.cluster
      /\ r.down = "pending" => old.down = "pending"
  BY <1>1, <1>2 DEF Teardown, TeardownOK
<1>4. /\ TeardownsOK'
      /\ teardown'[d] = r
      /\ \A e \in Teardowns : e # d => teardown'[e] = teardown[e]
  BY <1>2, <1>3, TeardownWrite DEF ShapeInv
<1>5. /\ UNCHANGED <<instIssued, deploy, nextPort, forward>> /\ UNCHANGED catalogVars
      /\ sky' \subseteq sky
  BY DEF TeardownStep, EndDelete, SkyDownSucceeds, SkyDownFails
<1>6. /\ DOMAIN instances' \subseteq DOMAIN instances
      /\ \A i \in DOMAIN instances' : instances'[i] = instances[i]
  <2>1. CASE EndDelete(d)
    <3>1. instances' = Drop(instances, old.inst)
      BY <2>1 DEF EndDelete
    <3>2. /\ DOMAIN Drop(instances, old.inst) = DOMAIN instances \ {old.inst}
          /\ \A i \in DOMAIN instances \ {old.inst} : Drop(instances, old.inst)[i] = instances[i]
      BY DropEntries
    <3>3. /\ DOMAIN instances' = DOMAIN instances \ {old.inst}
          /\ \A i \in DOMAIN instances \ {old.inst} : instances'[i] = instances[i]
      BY <3>1, <3>2
    <3>4. QED
      BY <3>3
  <2>2. CASE SkyDownSucceeds(d) \/ SkyDownFails(d)
    BY <2>2 DEF SkyDownSucceeds, SkyDownFails
  <2>3. QED
    BY <2>1, <2>2 DEF TeardownStep
<1>7. InstancesOK' /\ OutsideOK'
  BY <1>5, <1>6 DEF ShapeInv, InstancesOK, OutsideOK
<1>8. RoutinesOK'
  BY <1>5, RoutinesKept DEF ShapeInv, Allocated, catalogVars
<1>9. ShapeInv'
  BY <1>4, <1>5, <1>7, <1>8, OthersKept DEF ShapeInv
<1>10. QED
  BY <1>3, <1>4, <1>6, <1>9

LEMMA LostShape ==
  ASSUME ShapeInv, ProcessDies, ManagerLost
  PROVE  /\ ShapeInv'
         /\ DOMAIN instances' = {}
         /\ ForwardsDie => DOMAIN forward' = {}
         /\ \A g \in Routines : deploy'[g].pc \notin ActivePcs /\ deploy'[g].cluster = NoCluster
         /\ \A d \in Teardowns : teardown'[d].down # "pending"
<1>1. CatalogInv'
  BY CatalogInvStep DEF ShapeInv, CatalogNext
<1>2. /\ instances' = EmptyMap /\ nextPort' = 1
      /\ UNCHANGED <<instIssued, sky>>
  BY DEF ManagerLost
<1>3. DOMAIN instances' = {}
  BY <1>2, EmptyMapEntries
<1>10. PICK kept \in SUBSET DOMAIN forward :
         (ForwardsDie => kept = {}) /\ forward' = Restrict(forward, kept)
  BY DEF ManagerLost
<1>11. /\ DOMAIN forward' = kept
       /\ \A p \in kept : forward'[p] = forward[p]
  BY <1>10 DEF Restrict
<1>12. ForwardsDie => DOMAIN forward' = {}
  BY <1>10, <1>11
<1>4. InstancesOK' /\ OutsideOK'
  BY <1>2, <1>3, <1>11 DEF ShapeInv, InstancesOK, OutsideOK
<1>5. ASSUME NEW g \in Routines
      PROVE  /\ deploy'[g] \in Routine /\ RoutineOK(deploy[g])'
             /\ deploy'[g].pc \notin ActivePcs /\ deploy'[g].cluster = NoCluster
  <2>1. deploy'[g] = IF deploy[g].pc = "idle" THEN deploy[g] ELSE Returned
    BY DEF ManagerLost
  <2>2. /\ deploy[g] \in Routine /\ RoutineOK(deploy[g])
        /\ Returned \in Routine /\ RoutineOK(Returned)
    BY IdleTypes, RoutineFacts
  <2>3. Returned.pc = "done"
    BY DEF Returned, IdleRoutine
  <2>4. deploy'[g] \in Routine /\ deploy'[g].pc \in {"idle", "done"} /\ deploy'[g].cluster = NoCluster
    BY <2>1, <2>2, <2>3 DEF RoutineOK, ActivePcs
  <2>5. QED
    BY <2>4 DEF RoutineOK, ActivePcs
<1>6. RoutinesOK'
  <2>1. deploy' \in [Routines -> Routine]
    BY <1>5 DEF ManagerLost
  <2>2. QED
    BY <1>5, <2>1 DEF RoutinesOK
<1>7. ASSUME NEW d \in Teardowns
      PROVE  /\ teardown'[d] \in Teardown /\ TeardownOK(teardown[d])'
             /\ teardown'[d].down # "pending"
  <2>1. teardown[d] \in Teardown /\ TeardownOK(teardown[d])
    BY DEF ShapeInv, TeardownsOK
  <2> DEFINE r == [teardown[d] EXCEPT !.pc = "done",
                                      !.down = IF @ = "pending" THEN "none" ELSE @]
  <2>2. teardown'[d] = IF teardown[d].pc = "idle" THEN teardown[d] ELSE r
    BY DEF ManagerLost
  <2>3. r \in Teardown /\ r.pc = "done" /\ r.down # "pending"
    BY <2>1 DEF Teardown
  <2>4. TeardownOK(r)
    BY <2>3 DEF TeardownOK
  <2> HIDE DEF r
  <2>5. teardown'[d] \in Teardown /\ TeardownOK(teardown'[d]) /\ teardown'[d].down # "pending"
    BY <2>1, <2>2, <2>3, <2>4 DEF TeardownOK
  <2>6. QED
    BY <2>5 DEF TeardownOK
<1>8. TeardownsOK'
  <2>1. teardown' \in [Teardowns -> Teardown]
    BY <1>7 DEF ManagerLost
  <2>2. QED
    BY <1>7, <2>1 DEF TeardownsOK
<1>9. QED
  BY <1>1, <1>3, <1>4, <1>5, <1>6, <1>7, <1>8, <1>12 DEF ShapeInv

LEMMA ShapeStep == ShapeInv /\ [Next]_vars => ShapeInv'
<1> SUFFICES ASSUME ShapeInv, [Next]_vars PROVE ShapeInv'
  OBVIOUS
<1>1. CASE Request
  BY <1>1, DeployFunctionShape, PatchShape, SeedShape, BeginDeleteShape DEF Request
<1>2. ASSUME NEW g \in Routines, DeployStep(g)
      PROVE  ShapeInv'
  BY <1>2, NameClusterShape, AdvanceInv, ReturnShape DEF DeployStep
<1>3. ASSUME NEW d \in Teardowns, TeardownStep(d)
      PROVE  ShapeInv'
  BY <1>3, TeardownShape
<1>4. CASE [CatalogNext]_catalogVars /\ UNCHANGED managerVars
  <2>1. CatalogInv' /\ \A o \in Objects : Allocated(o) => Allocated(o)'
    BY <1>4, CatalogInvStep, AllocatedKept DEF ShapeInv
  <2>2. RoutinesOK'
    BY <1>4, <2>1, RoutinesKept DEF ShapeInv, managerVars
  <2>3. QED
    BY <1>4, <2>1, <2>2, OthersKept DEF ShapeInv, managerVars
<1>5. CASE ProcessDies /\ ManagerLost
  BY <1>5, LostShape
<1>6. QED
  BY <1>1, <1>2, <1>3, <1>4, <1>5 DEF Next, CatalogNext, vars

\* Every reachable state of the manager is well typed: an identifier, a
\* cluster or a pointer that a handler or a goroutine uses is always a real
\* one, however deployments, requests, teardowns and crashes interleave.
THEOREM ManagerTypeCorrect == Spec => []TypeOK
  BY ShapeInit, ShapeStep, ShapeImpliesType, PTL DEF Spec

-----------------------------------------------------------------------------
(* One deployment per instance *)

\* A step of a deployment starts none, and each keeps to its own instance.
LEMMA RoutinesKeepInstance ==
  ASSUME ShapeInv, NEW g \in Routines, DeployStep(g)
  PROVE  \A h \in Routines : deploy'[h].pc \in ActivePcs =>
           deploy[h].pc \in ActivePcs /\ deploy'[h].inst = deploy[h].inst
<1>1. CASE NameCluster(g)
  <2>1. /\ deploy[g] \in Routine /\ deploy[g].pc = "start"
        /\ deploy' = [deploy EXCEPT ![g].pc = "yaml",
                     ![g].cluster = <<Slug[heap[deploy[g].fn]], deploy[g].inst % SuffixMod>>]
    BY <1>1, RoutineFacts DEF NameCluster
  <2>2. QED
    BY <2>1 DEF ShapeInv, RoutinesOK, Routine, ActivePcs
<1>2. CASE WriteTask(g) \/ ClusterComesUp(g) \/ LaunchSucceeds(g) \/ AttemptFails(g)
             \/ AllocatePort(g) \/ StartForward(g)
  BY <1>2, AdvanceShape
<1>3. CASE DeployFails(g) \/ ReportEndpoint(g)
  <2>1. Returned.pc \notin ActivePcs
    BY DEF Returned, IdleRoutine, ActivePcs
  <2>2. QED
    BY <1>3, <2>1, ReturnShape
<1>4. QED
  BY <1>1, <1>2, <1>3 DEF DeployStep

\* The identifier is nobody's, as one that was never handed out.
NeverUsed(t) ==
  /\ t \notin DOMAIN instances
  /\ \A h \in Routines : deploy[h].pc \in ActivePcs => deploy[h].inst # t

LEMMA UnreachedIsUnused ==
  ASSUME ShapeInv, NEW t \in InstMillis, t \notin instIssued
  PROVE  NeverUsed(t)
<1>1. \A j \in DOMAIN instances : j \in instIssued
  BY DEF ShapeInv, InstancesOK
<1>2. \A h \in Routines : deploy[h].pc \in ActivePcs => deploy[h].inst \in instIssued
  BY RoutineFacts DEF RoutineOK
<1>3. QED
  BY <1>1, <1>2 DEF NeverUsed

\* A new deployment, and its instance.
Deployed(t, g) ==
  /\ DOMAIN instances' = DOMAIN instances \cup {t}
  /\ instances'[t].status = "deploying"
  /\ instances'[t].endpoint = NoEndpoint
  /\ instances'[t].sky = NoCluster
  /\ \A j \in DOMAIN instances : j # t => instances'[j] = instances[j]
  /\ deploy'[g].pc = "start" /\ deploy'[g].inst = t /\ deploy'[g].cluster = NoCluster
  /\ \A h \in Routines : h # g => deploy'[h] = deploy[h]
  /\ instIssued' = instIssued \cup {t}

LEMMA DeployFunctionEffect ==
  ASSUME ShapeInv, NEW i \in FnMillis, NEW t \in InstMillis, NEW g \in Routines,
         DeployFunction(i, t, g)
  PROVE  Deployed(t, g) /\ (DistinctInstIds => t \notin instIssued /\ NeverUsed(t))
<1> DEFINE n == [status |-> "deploying", endpoint |-> NoEndpoint, sky |-> NoCluster, via |-> ""]
           r == [IdleRoutine EXCEPT !.pc = "start", !.inst = t, !.fn = functions[i]]
<1>1. n \in Instance /\ n.status = "deploying" /\ n.endpoint = NoEndpoint /\ n.sky = NoCluster
  BY DEF Instance, Vias
<1>2. /\ FreshInstId(t) /\ instIssued' = instIssued \cup {t} /\ instances' = Put(instances, t, n)
      /\ deploy' = [deploy EXCEPT ![g] = r]
  BY DEF DeployFunction
<1>3. r.pc = "start" /\ r.inst = t /\ r.cluster = NoCluster
  BY DEF IdleRoutine
<1> HIDE DEF n, r
<1>4. /\ DOMAIN instances' = DOMAIN instances \cup {t}
      /\ instances'[t] = n
      /\ \A j \in DOMAIN instances : j # t => instances'[j] = instances[j]
      /\ (DistinctInstIds => t \notin instIssued)
  BY <1>1, <1>2, NewInstance DEF ShapeInv
<1>5. /\ deploy'[g] = r
      /\ \A h \in Routines : h # g => deploy'[h] = deploy[h]
  BY <1>2 DEF ShapeInv, RoutinesOK
<1>6. t \notin instIssued => NeverUsed(t)
  BY UnreachedIsUnused
<1>7. QED
  BY <1>1, <1>2, <1>3, <1>4, <1>5, <1>6 DEF Deployed

LEMMA OneRoutineInit == Init => OneRoutine
  BY DEF Init, OneRoutine, IdleRoutine, ActivePcs

LEMMA OneRoutineStep ==
  ASSUME ShapeInv, OneRoutine, DistinctInstIds, [Next]_vars
  PROVE  OneRoutine'
<1>1. ASSUME NEW i \in FnMillis, NEW t \in InstMillis, NEW g \in Routines,
             DeployFunction(i, t, g)
      PROVE  OneRoutine'
  <2>1. Deployed(t, g) /\ NeverUsed(t)
    BY <1>1, DeployFunctionEffect
  <2>2. QED
    BY <2>1 DEF OneRoutine, Deployed, NeverUsed
<1>2. ASSUME NEW g \in Routines, DeployStep(g)
      PROVE  OneRoutine'
  BY <1>2, RoutinesKeepInstance DEF OneRoutine
<1>3. CASE ProcessDies /\ ManagerLost
  BY <1>3, LostShape DEF OneRoutine
<1>4. CASE UNCHANGED deploy
  BY <1>4 DEF OneRoutine
<1>5. QED
  BY <1>1, <1>2, <1>3, <1>4
  DEF Next, Request, PatchInstance, SeedInstance, BeginDelete, TeardownStep, EndDelete,
      SkyDownSucceeds, SkyDownFails, managerVars, vars

-----------------------------------------------------------------------------
(* What the steps do to instances and teardowns, entry by entry *)

LEMMA NameClusterEffect ==
  ASSUME ShapeInv, NEW g \in Routines, NameCluster(g)
  PROVE  \E c \in Clusters :
           /\ DOMAIN instances' = DOMAIN instances
           /\ \A i \in DOMAIN instances :
                IF i = deploy[g].inst
                THEN instances'[i] = [status |-> "deploying", endpoint |-> NoEndpoint,
                                      sky |-> c, via |-> "skypilot"]
                ELSE instances'[i] = instances[i]
           /\ deploy[g].pc = "start"
           /\ deploy'[g].pc = "yaml" /\ deploy'[g].inst = deploy[g].inst /\ deploy'[g].cluster = c
           /\ \A h \in Routines : h # g => deploy'[h] = deploy[h]
<1> DEFINE c == <<Slug[heap[deploy[g].fn]], deploy[g].inst % SuffixMod>>
<1>1. /\ deploy[g] \in Routine /\ deploy[g].pc = "start"
      /\ deploy' = [deploy EXCEPT ![g].pc = "yaml", ![g].cluster = c]
      /\ Notify(g, "deploying", NoEndpoint, c)
      /\ UNCHANGED instIssued
  BY RoutineFacts DEF NameCluster
<1>2. /\ deploy'[g].pc = "yaml" /\ deploy'[g].inst = deploy[g].inst /\ deploy'[g].cluster = c
      /\ \A h \in Routines : h # g => deploy'[h] = deploy[h]
  BY <1>1 DEF ShapeInv, RoutinesOK, Routine
<1>3. c \in Clusters
  <2>1. ShapeInv'
    BY NameClusterShape
  <2>2. deploy'[g].cluster \in Clusters
    BY <1>2, <2>1 DEF ShapeInv, RoutinesOK, RoutineOK, ActivePcs
  <2>3. QED
    BY <1>2, <2>2
<1> HIDE DEF c
<1>4. /\ DOMAIN instances' = DOMAIN instances
      /\ \A i \in DOMAIN instances :
           IF i = deploy[g].inst
           THEN instances'[i] = [status |-> "deploying", endpoint |-> NoEndpoint,
                                 sky |-> c, via |-> "skypilot"]
           ELSE instances'[i] = instances[i]
  BY <1>1, <1>3, NotifyEffect DEF ShapeInv
<1>5. QED
  BY <1>1, <1>2, <1>3, <1>4

Seeded(t, c, via) ==
  /\ DOMAIN instances' = DOMAIN instances \cup {t}
  /\ instances'[t] = [status |-> "running", endpoint |-> External, sky |-> c, via |-> via]
  /\ \A j \in DOMAIN instances : j # t => instances'[j] = instances[j]
  /\ instIssued' = instIssued \cup {t}

LEMMA SeedEffect ==
  ASSUME ShapeInv, NEW t \in InstMillis, NEW c \in Clusters \cup {NoCluster},
         NEW via \in SeedVias, SeedInstance(t, c, via)
  PROVE  Seeded(t, c, via) /\ (DistinctInstIds => t \notin instIssued /\ NeverUsed(t))
<1> DEFINE r == [status |-> "running", endpoint |-> External, sky |-> c, via |-> via]
<1>1. r \in Instance
  <2>1. via \in Vias
    BY ManagerAssumption
  <2>2. QED
    BY <2>1 DEF Instance, Settled
<1>2. FreshInstId(t) /\ instIssued' = instIssued \cup {t} /\ instances' = Put(instances, t, r)
  BY DEF SeedInstance
<1> HIDE DEF r
<1>3. /\ DOMAIN instances' = DOMAIN instances \cup {t}
      /\ instances'[t] = r
      /\ \A j \in DOMAIN instances : j # t => instances'[j] = instances[j]
      /\ (DistinctInstIds => t \notin instIssued)
  BY <1>1, <1>2, NewInstance DEF ShapeInv
<1>4. t \notin instIssued => NeverUsed(t)
  BY UnreachedIsUnused
<1>5. QED
  BY <1>2, <1>3, <1>4 DEF r, Seeded

LEMMA EndDeleteEffect ==
  ASSUME ShapeInv, NEW d \in Teardowns, EndDelete(d)
  PROVE  /\ DOMAIN instances' = DOMAIN instances \ {teardown[d].inst}
         /\ \A i \in DOMAIN instances' : instances'[i] = instances[i]
         /\ teardown[d].pc = "removing"
         /\ teardown'[d].pc = "done"
         /\ teardown'[d].inst = teardown[d].inst
         /\ teardown'[d].cluster = teardown[d].cluster
         /\ teardown'[d].down = teardown[d].down
         /\ \A e \in Teardowns : e # d => teardown'[e] = teardown[e]
<1>1. teardown[d].pc = "removing" /\ teardown' = [teardown EXCEPT ![d].pc = "done"]
  BY DEF EndDelete
<1>2. /\ DOMAIN instances' = DOMAIN instances \ {teardown[d].inst}
      /\ \A i \in DOMAIN instances \ {teardown[d].inst} : instances'[i] = instances[i]
  <2>1. instances' = Drop(instances, teardown[d].inst)
    BY DEF EndDelete
  <2>2. QED
    BY <2>1, DropEntries
<1>3. teardown \in [Teardowns -> Teardown] /\ teardown[d] \in Teardown
  BY DEF ShapeInv, TeardownsOK
<1>4. /\ teardown'[d].pc = "done"
      /\ teardown'[d].inst = teardown[d].inst
      /\ teardown'[d].cluster = teardown[d].cluster
      /\ teardown'[d].down = teardown[d].down
      /\ \A e \in Teardowns : e # d => teardown'[e] = teardown[e]
  BY <1>1, <1>3 DEF Teardown
<1>5. QED
  BY <1>1, <1>2, <1>4

LEMMA SkyDownEffect ==
  ASSUME ShapeInv, NEW d \in Teardowns, SkyDownSucceeds(d) \/ SkyDownFails(d)
  PROVE  /\ UNCHANGED instances
         /\ teardown[d].down = "pending"
         /\ teardown'[d].pc = teardown[d].pc
         /\ teardown'[d].inst = teardown[d].inst
         /\ teardown'[d].cluster = teardown[d].cluster
         /\ \/ teardown'[d].down = "failed" /\ sky' = sky
            \/ teardown'[d].down = "ok" /\ sky' = sky \ {teardown[d].cluster}
         /\ \A e \in Teardowns : e # d => teardown'[e] = teardown[e]
<1>1. teardown \in [Teardowns -> Teardown] /\ teardown[d] \in Teardown
  BY DEF ShapeInv, TeardownsOK
<1>2. CASE SkyDownFails(d)
  BY <1>1, <1>2 DEF SkyDownFails, Teardown
<1>3. CASE SkyDownSucceeds(d)
  BY <1>1, <1>3 DEF SkyDownSucceeds, Teardown
<1>4. QED
  BY <1>2, <1>3

\* A local endpoint that an instance shows after a step was there before, or
\* it is reported by the deployment that found it.
Reported(g, i) ==
  /\ ReportEndpoint(g) /\ deploy[g].pc = "found" /\ deploy[g].inst = i
  /\ instances'[i].endpoint = deploy[g].port
  /\ instances'[i].sky = deploy[g].cluster

KeptEndpoint(i) ==
  /\ i \in DOMAIN instances
  /\ instances'[i].endpoint = instances[i].endpoint
  /\ instances'[i].sky = instances[i].sky

LEMMA EndpointSource ==
  ASSUME ShapeInv, [Next]_vars, NEW k \in DOMAIN instances', instances'[k].endpoint \in Nat
  PROVE  KeptEndpoint(k) \/ \E g \in Routines : Reported(g, k)
<1>0. NoEndpoint \notin Nat /\ External \notin Nat
  BY ManagerAssumption
<1>1. ASSUME NEW i \in FnMillis, NEW t \in InstMillis, NEW g \in Routines,
             DeployFunction(i, t, g)
      PROVE  KeptEndpoint(k)
  <2>1. Deployed(t, g)
    BY <1>1, DeployFunctionEffect
  <2>2. k # t
    BY <1>0, <2>1 DEF Deployed
  <2>3. QED
    BY <2>1, <2>2 DEF Deployed, KeptEndpoint
<1>2. ASSUME NEW i \in InstMillis, PatchInstance(i)
      PROVE  KeptEndpoint(k)
  <2>1. /\ DOMAIN instances' = DOMAIN instances
        /\ \A j \in DOMAIN instances : instances'[j].sky = instances[j].sky
        /\ \A j \in DOMAIN instances : j # i => instances'[j] = instances[j]
        /\ instances'[i].endpoint \in {NoEndpoint, External, instances[i].endpoint}
    BY <1>2, PatchShape
  <2>2. QED
    BY <1>0, <2>1 DEF KeptEndpoint
<1>3. ASSUME NEW t \in InstMillis, NEW c \in Clusters \cup {NoCluster}, NEW via \in SeedVias,
             SeedInstance(t, c, via)
      PROVE  KeptEndpoint(k)
  <2>1. Seeded(t, c, via)
    BY <1>3, SeedEffect
  <2>2. k # t
    BY <1>0, <2>1 DEF Seeded
  <2>3. QED
    BY <2>1, <2>2 DEF Seeded, KeptEndpoint
<1>4. ASSUME NEW d \in Teardowns, TeardownStep(d)
      PROVE  KeptEndpoint(k)
  BY <1>4, TeardownShape DEF KeptEndpoint
<1>5. ASSUME NEW g \in Routines, NameCluster(g)
      PROVE  KeptEndpoint(k)
  <2>1. PICK c \in Clusters :
          /\ DOMAIN instances' = DOMAIN instances
          /\ \A i \in DOMAIN instances :
               IF i = deploy[g].inst
               THEN instances'[i] = [status |-> "deploying", endpoint |-> NoEndpoint,
                                     sky |-> c, via |-> "skypilot"]
               ELSE instances'[i] = instances[i]
    BY <1>5, NameClusterEffect
  <2>2. QED
    BY <1>0, <2>1 DEF KeptEndpoint
<1>6. ASSUME NEW g \in Routines, DeployFails(g) \/ ReportEndpoint(g)
      PROVE  KeptEndpoint(k) \/ Reported(g, k)
  <2>1. /\ DOMAIN instances' = DOMAIN instances
        /\ \A i \in DOMAIN instances :
             IF i = deploy[g].inst
             THEN /\ instances'[i].sky = deploy[g].cluster
                  /\ instances'[i].endpoint \in Nat =>
                       deploy[g].pc = "found" /\ instances'[i].endpoint = deploy[g].port
             ELSE instances'[i] = instances[i]
    BY <1>6, ReturnShape
  <2>2. deploy[g].pc = "found" => ReportEndpoint(g)
    BY <1>6 DEF DeployFails
  <2>3. QED
    BY <2>1, <2>2 DEF KeptEndpoint, Reported
<1>7. CASE ProcessDies /\ ManagerLost
  BY <1>7, LostShape
<1>8. CASE UNCHANGED instances
  BY <1>8 DEF KeptEndpoint
<1>9. QED
  BY <1>1, <1>2, <1>3, <1>4, <1>5, <1>6, <1>7, <1>8
  DEF Next, Request, DeployStep, WriteTask, ClusterComesUp, LaunchSucceeds, AttemptFails,
      AllocatePort, StartForward, BeginDelete, managerVars, vars

-----------------------------------------------------------------------------
(* Ownership of clusters *)

LEMMA OwnerImpliesTeardown == ShapeInv /\ OwnerInv => TeardownHitsOwn
<1> SUFFICES ASSUME ShapeInv, OwnerInv, NEW d \in Teardowns, teardown[d].down = "pending"
             PROVE  /\ \A i \in DOMAIN instances :
                         instances[i].sky = teardown[d].cluster => i = teardown[d].inst
                    /\ \A g \in Routines : deploy[g].cluster = teardown[d].cluster
                                             => deploy[g].inst = teardown[d].inst
  BY DEF TeardownHitsOwn
<1> DEFINE c == teardown[d].cluster
<1>1. c \in Clusters /\ teardown[d].inst \in InstMillis \cup {0}
  BY DEF ShapeInv, TeardownsOK, TeardownOK, Teardown
<1>2. Claims(c, teardown[d].inst)
  BY DEF Claims
<1>3. \A i \in InstMillis \cup {0} : Claims(c, i) => i = teardown[d].inst
  BY <1>1, <1>2 DEF OwnerInv, OneOwner
<1>4. \A i \in DOMAIN instances : instances[i].sky = c => i \in InstMillis /\ Claims(c, i)
  BY DEF Claims, ShapeInv, InstancesOK
<1>5. \A g \in Routines : deploy[g].cluster = c
        => deploy[g].inst \in InstMillis \cup {0} /\ Claims(c, deploy[g].inst)
  BY DEF Claims, ShapeInv, RoutinesOK, Routine
<1>6. QED
  BY <1>3, <1>4, <1>5

\* A step after which nobody has a claim that he did not have.
LEMMA NoNewClaim ==
  ASSUME OwnerInv,
         \A c \in Clusters, i \in InstMillis \cup {0} : Claims(c, i)' => Claims(c, i),
         \A c \in Clusters : c \in sky' => Known(c),
         \A t \in InstMillis : Unnamed(t)' => Unnamed(t)
  PROVE  OwnerInv'
<1>1. \A c \in Clusters : Known(c)' => Known(c)
  BY DEF Known
<1>2. UnusedSuffix'
  BY <1>1 DEF OwnerInv, UnusedSuffix
<1>3. OneOwner'
  BY DEF OwnerInv, OneOwner
<1>4. QED
  BY <1>2, <1>3 DEF OwnerInv

\* A step after which i has a claim on c, which nobody else had.
LEMMA OneNewClaim ==
  ASSUME OwnerInv, NEW c, NEW i,
         \A x \in Clusters, j \in InstMillis \cup {0} :
           Claims(x, j)' => Claims(x, j) \/ (x = c /\ j = i),
         c \in Clusters => \A j \in InstMillis \cup {0} : ~ Claims(c, j),
         \A x \in Clusters : x \in sky' => x \in sky,
         \A t \in InstMillis : Unnamed(t)' => Unnamed(t),
         \A t \in InstMillis : Unnamed(t)' /\ c \in Clusters => c[2] # t % SuffixMod
  PROVE  OwnerInv'
<1>1. \A x \in Clusters : Known(x)' => Known(x) \/ x = c
  BY DEF Known
<1>2. UnusedSuffix'
  BY <1>1 DEF OwnerInv, UnusedSuffix
<1>3. OneOwner'
  BY DEF OwnerInv, OneOwner
<1>4. QED
  BY <1>2, <1>3 DEF OwnerInv

LEMMA NameClusterOwner ==
  ASSUME ShapeInv, OneRoutine, OwnerInv, SuffixesDistinct, NEW g \in Routines, NameCluster(g)
  PROVE  OwnerInv'
<1> DEFINE i == deploy[g].inst
           c == <<Slug[heap[deploy[g].fn]], i % SuffixMod>>
           r == [deploy[g] EXCEPT !.pc = "yaml", !.cluster = c]
<1>1. /\ deploy[g] \in Routine /\ RoutineOK(deploy[g]) /\ deploy[g].pc = "start"
      /\ i \in InstMillis /\ i \in instIssued
  BY RoutineFacts DEF NameCluster, RoutineOK, ActivePcs
<1>2. /\ r.pc = "yaml" /\ r.cluster = c /\ r.inst = i
      /\ deploy' = [deploy EXCEPT ![g] = r]
  BY <1>1 DEF NameCluster, ShapeInv, RoutinesOK, Routine
<1> HIDE DEF r
<1>3. /\ deploy'[g] = r
      /\ \A h \in Routines : h # g => deploy'[h] = deploy[h]
  BY <1>2 DEF ShapeInv, RoutinesOK
<1>4. /\ UNCHANGED <<instIssued, teardown, sky>>
      /\ Notify(g, "deploying", NoEndpoint, c)
  BY DEF NameCluster
<1>5. /\ DOMAIN instances' = DOMAIN instances
      /\ \A j \in DOMAIN instances : IF j = i THEN instances'[j].sky = c
                                              ELSE instances'[j] = instances[j]
  BY <1>4 DEF Notify
<1>6. c[2] = i % SuffixMod
  OBVIOUS
<1> HIDE DEF c
<1>7. \A x \in Clusters, j \in InstMillis \cup {0} :
        Claims(x, j)' => Claims(x, j) \/ (x = c /\ j = i)
  BY <1>2, <1>3, <1>4, <1>5 DEF Claims
<1>8. Unnamed(i)
  BY <1>1 DEF Unnamed
<1>9. c \in Clusters => \A j \in InstMillis \cup {0} : ~ Claims(c, j)
  BY <1>1, <1>6, <1>8 DEF OwnerInv, UnusedSuffix, Known
<1>11. \A t \in InstMillis : Unnamed(t)' => Unnamed(t) /\ t # i
  <2> SUFFICES ASSUME NEW t \in InstMillis, Unnamed(t)' PROVE Unnamed(t) /\ t # i
    OBVIOUS
  <2>1. CASE t \notin instIssued
    BY <1>1, <2>1 DEF Unnamed
  <2>2. CASE t \in instIssued
    <3>1. PICK h \in Routines : deploy'[h].pc = "start" /\ deploy'[h].inst = t
      BY <1>4, <2>2 DEF Unnamed
    <3>2. h # g /\ deploy[h].pc = "start" /\ deploy[h].inst = t
      BY <1>2, <1>3, <3>1
    <3>3. t # i
      BY <1>1, <3>2 DEF OneRoutine, ActivePcs
    <3>4. QED
      BY <3>2, <3>3 DEF Unnamed
  <2>3. QED
    BY <2>1, <2>2
<1>12. \A t \in InstMillis : Unnamed(t)' => c[2] # t % SuffixMod
  BY <1>1, <1>6, <1>11 DEF SuffixesDistinct
<1>13. QED
  BY <1>4, <1>7, <1>9, <1>11, <1>12, OneNewClaim

LEMMA SeedOwner ==
  ASSUME ShapeInv, OwnerInv, DistinctInstIds, CarefulSeeds, NEW t \in InstMillis,
         NEW c \in Clusters \cup {NoCluster}, NEW via \in SeedVias, SeedInstance(t, c, via)
  PROVE  OwnerInv'
<1> DEFINE r == [status |-> "running", endpoint |-> External, sky |-> c, via |-> via]
<1>1. r \in Instance /\ r.sky = c
  <2>1. via \in Vias
    BY ManagerAssumption
  <2>2. QED
    BY <2>1 DEF Instance, Settled
<1>2. /\ FreshInstId(t) /\ instIssued' = instIssued \cup {t} /\ instances' = Put(instances, t, r)
      /\ UNCHANGED <<deploy, teardown, sky>>
      /\ c # NoCluster => c \in sky /\ ~ Owned(c)
  BY DEF SeedInstance
<1> HIDE DEF r
<1>3. /\ DOMAIN instances' = DOMAIN instances \cup {t}
      /\ instances'[t] = r
      /\ \A j \in DOMAIN instances : j # t => instances'[j] = instances[j]
      /\ t \notin instIssued
  BY <1>1, <1>2, NewInstance DEF ShapeInv
<1>4. \A x \in Clusters, j \in InstMillis \cup {0} :
        Claims(x, j)' => Claims(x, j) \/ (x = c /\ j = t)
  BY <1>1, <1>2, <1>3 DEF Claims
<1>5. c \in Clusters => c \in sky /\ \A j \in InstMillis \cup {0} : ~ Claims(c, j)
  BY <1>2, ManagerAssumption DEF Owned, Claims
<1>6. \A s \in InstMillis : Unnamed(s)' => Unnamed(s)
  BY <1>2 DEF Unnamed
<1>8. \A s \in InstMillis : Unnamed(s)' /\ c \in Clusters => c[2] # s % SuffixMod
  BY <1>5, <1>6 DEF OwnerInv, UnusedSuffix, Known
<1>9. QED
  BY <1>2, <1>4, <1>5, <1>6, <1>8, OneNewClaim

LEMMA DeployFunctionOwner ==
  ASSUME ShapeInv, OwnerInv, DistinctInstIds, NEW i \in FnMillis, NEW t \in InstMillis,
         NEW g \in Routines, DeployFunction(i, t, g)
  PROVE  OwnerInv'
<1>1. Deployed(t, g) /\ NeverUsed(t) /\ t \notin instIssued
  BY DeployFunctionEffect
<1>2. UNCHANGED <<teardown, sky>>
  BY DEF DeployFunction
<1>4. \A x \in Clusters, j \in InstMillis \cup {0} : Claims(x, j)' => Claims(x, j)
  BY <1>1, <1>2, NoClusterIsNone DEF Claims, Deployed
<1>6. \A s \in InstMillis : Unnamed(s)' => Unnamed(s)
  BY <1>1 DEF Unnamed, Deployed
<1>5. QED
  BY <1>2, <1>4, <1>6, NoNewClaim DEF Known

LEMMA AdvanceOwner ==
  ASSUME ShapeInv, OwnerInv, NEW g \in Routines,
         WriteTask(g) \/ ClusterComesUp(g) \/ LaunchSucceeds(g) \/ AttemptFails(g)
           \/ AllocatePort(g) \/ StartForward(g)
  PROVE  OwnerInv'
<1>1. /\ \A h \in Routines : h # g => deploy'[h] = deploy[h]
      /\ deploy'[g].cluster = deploy[g].cluster
      /\ deploy'[g].inst = deploy[g].inst
      /\ deploy[g].pc \in ActivePcs \ {"start"}
      /\ deploy'[g].pc \in ActivePcs \ {"start"}
  BY AdvanceShape
<1>2. /\ UNCHANGED <<instIssued, instances, teardown>>
      /\ sky' \in {sky, sky \cup {deploy[g].cluster}}
  BY DEF WriteTask, ClusterComesUp, LaunchSucceeds, AttemptFails, AllocatePort, StartForward
<1>3. \A h \in Routines : deploy'[h].cluster = deploy[h].cluster /\ deploy'[h].inst = deploy[h].inst
  BY <1>1
<1>4. \A c \in Clusters, i \in InstMillis \cup {0} : Claims(c, i)' => Claims(c, i)
  BY <1>2, <1>3 DEF Claims
<1>5. \A c \in Clusters : c \in sky' => Known(c)
  <2>1. deploy[g].inst \in InstMillis \cup {0}
    BY RoutineFacts DEF Routine
  <2>2. Claims(deploy[g].cluster, deploy[g].inst)
    BY DEF Claims
  <2>3. QED
    BY <1>2, <2>1, <2>2 DEF Known
<1>6. \A t \in InstMillis : Unnamed(t)' => Unnamed(t)
  BY <1>1, <1>2 DEF Unnamed
<1>7. QED
  BY <1>4, <1>5, <1>6, NoNewClaim

LEMMA ReturnOwner ==
  ASSUME ShapeInv, OwnerInv, NEW g \in Routines, DeployFails(g) \/ ReportEndpoint(g)
  PROVE  OwnerInv'
<1>1. /\ deploy'[g] = Returned
      /\ \A h \in Routines : h # g => deploy'[h] = deploy[h]
      /\ DOMAIN instances' = DOMAIN instances
      /\ \A i \in DOMAIN instances :
           IF i = deploy[g].inst THEN instances'[i].sky = deploy[g].cluster
                                 ELSE instances'[i] = instances[i]
  BY ReturnShape
<1>2. UNCHANGED <<instIssued, teardown, sky>>
  BY DEF DeployFails, ReportEndpoint
<1>3. Returned.pc = "done" /\ Returned.cluster = NoCluster
  BY DEF Returned, IdleRoutine
<1>4. \A c \in Clusters, i \in InstMillis \cup {0} : Claims(c, i)' => Claims(c, i)
  BY <1>1, <1>2, <1>3, NoClusterIsNone DEF Claims
<1>5. \A t \in InstMillis : Unnamed(t)' => Unnamed(t)
  BY <1>1, <1>2, <1>3 DEF Unnamed
<1>6. QED
  BY <1>2, <1>4, <1>5, NoNewClaim DEF Known

\* Patches, DELETE handlers and teardowns move claims but make none.
LEMMA ClientOwner ==
  ASSUME ShapeInv, OwnerInv,
         \/ \E i \in InstMillis : PatchInstance(i)
         \/ \E d \in Teardowns, i \in InstMillis : BeginDelete(d, i)
         \/ \E d \in Teardowns : TeardownStep(d)
  PROVE  OwnerInv'
<1>1. UNCHANGED <<instIssued, deploy>> /\ sky' \subseteq sky
  BY DEF PatchInstance, BeginDelete, TeardownStep, EndDelete, SkyDownSucceeds, SkyDownFails
<1>2. \A c \in Clusters, i \in InstMillis \cup {0} : Claims(c, i)' => Claims(c, i)
  <2>1. CASE \E i \in InstMillis : PatchInstance(i)
    <3>1. /\ DOMAIN instances' = DOMAIN instances
          /\ \A j \in DOMAIN instances : instances'[j].sky = instances[j].sky
      BY <2>1, PatchShape
    <3>2. UNCHANGED teardown
      BY <2>1 DEF PatchInstance
    <3>3. QED
      BY <1>1, <3>1, <3>2 DEF Claims
  <2>2. CASE \E d \in Teardowns, i \in InstMillis : BeginDelete(d, i)
    <3>1. PICK d \in Teardowns, i \in InstMillis : BeginDelete(d, i)
      BY <2>2
    <3>2. UNCHANGED instances
      BY <3>1 DEF BeginDelete
    <3>3. /\ teardown'[d].inst = i
          /\ teardown'[d].down = "pending" =>
               i \in DOMAIN instances /\ instances[i].sky = teardown'[d].cluster
          /\ \A e \in Teardowns : e # d => teardown'[e] = teardown[e]
      BY <3>1, BeginDeleteShape
    <3>4. QED
      BY <1>1, <3>2, <3>3 DEF Claims
  <2>3. CASE \E d \in Teardowns : TeardownStep(d)
    <3>1. /\ DOMAIN instances' \subseteq DOMAIN instances
          /\ \A i \in DOMAIN instances' : instances'[i] = instances[i]
          /\ \A e \in Teardowns : /\ teardown'[e].inst = teardown[e].inst
                                  /\ teardown'[e].cluster = teardown[e].cluster
                                  /\ teardown'[e].down = "pending" => teardown[e].down = "pending"
      BY <2>3, TeardownShape
    <3>2. QED
      BY <1>1, <3>1 DEF Claims
  <2>4. QED
    BY <2>1, <2>2, <2>3
<1>3. \A t \in InstMillis : Unnamed(t)' => Unnamed(t)
  BY <1>1 DEF Unnamed
<1>4. \A c \in Clusters : c \in sky' => Known(c)
  BY <1>1 DEF Known
<1>5. QED
  BY <1>2, <1>3, <1>4, NoNewClaim

LEMMA LostOwner ==
  ASSUME ShapeInv, OwnerInv, ProcessDies, ManagerLost
  PROVE  OwnerInv'
<1>1. /\ DOMAIN instances' = {}
      /\ \A g \in Routines : deploy'[g].pc \notin ActivePcs /\ deploy'[g].cluster = NoCluster
      /\ \A d \in Teardowns : teardown'[d].down # "pending"
  BY LostShape
<1>2. UNCHANGED <<instIssued, sky>>
  BY DEF ManagerLost
<1>3. \A c \in Clusters, i \in InstMillis \cup {0} : ~ Claims(c, i)'
  BY <1>1, NoClusterIsNone DEF Claims
<1>4. \A t \in InstMillis : Unnamed(t)' => Unnamed(t)
  BY <1>1, <1>2 DEF Unnamed, ActivePcs
<1>5. QED
  BY <1>2, <1>3, <1>4, NoNewClaim DEF Known

LEMMA OwnerInit == Init => OwnerInv
<1> SUFFICES ASSUME Init PROVE OwnerInv
  OBVIOUS
<1>1. /\ DOMAIN instances = {} /\ sky = {}
      /\ \A g \in Routines : deploy[g].pc = "idle" /\ deploy[g].cluster = NoCluster
      /\ \A d \in Teardowns : teardown[d].down = "none"
  BY EmptyMapEntries DEF Init, IdleRoutine, IdleTeardown
<1>2. \A c \in Clusters : ~ Known(c)
  BY <1>1, NoClusterIsNone DEF Known, Claims
<1>3. QED
  BY <1>2 DEF OwnerInv, UnusedSuffix, OneOwner, Known

LEMMA OwnerStep ==
  ASSUME ShapeInv, OneRoutine, OwnerInv, DistinctInstIds, SuffixesDistinct, CarefulSeeds,
         [Next]_vars
  PROVE  OwnerInv'
<1>1. ASSUME NEW i \in FnMillis, NEW t \in InstMillis, NEW g \in Routines,
             DeployFunction(i, t, g)
      PROVE  OwnerInv'
  BY <1>1, DeployFunctionOwner
<1>2. ASSUME NEW t \in InstMillis, NEW c \in Clusters \cup {NoCluster}, NEW via \in SeedVias,
             SeedInstance(t, c, via)
      PROVE  OwnerInv'
  BY <1>2, SeedOwner
<1>3. ASSUME NEW g \in Routines, DeployStep(g)
      PROVE  OwnerInv'
  BY <1>3, NameClusterOwner, AdvanceOwner, ReturnOwner DEF DeployStep
<1>4. CASE \/ \E i \in InstMillis : PatchInstance(i)
           \/ \E d \in Teardowns, i \in InstMillis : BeginDelete(d, i)
           \/ \E d \in Teardowns : TeardownStep(d)
  BY <1>4, ClientOwner
<1>5. CASE UNCHANGED managerVars
  BY <1>5 DEF managerVars, OwnerInv, UnusedSuffix, OneOwner, Known, Unnamed, Claims
<1>6. CASE ProcessDies /\ ManagerLost
  BY <1>6, LostOwner
<1>7. QED
  BY <1>1, <1>2, <1>3, <1>4, <1>5, <1>6 DEF Next, Request, vars

\* `sky down` never hits another instance's cluster, for any number of
\* concurrent deployments, patches, seeds, DELETEs and crashes, provided that
\* no two instances are created in one millisecond, that six digits tell their
\* identifiers apart, and that clients do not seed a cluster somebody owns.
THEOREM TeardownIsSafe ==
  ASSUME DistinctInstIds, SuffixesDistinct, CarefulSeeds
  PROVE  Spec => []TeardownHitsOwn
<1>1. Init => ShapeInv /\ OneRoutine /\ OwnerInv
  BY ShapeInit, OneRoutineInit, OwnerInit
<1>2. ShapeInv /\ OneRoutine /\ OwnerInv /\ [Next]_vars => (ShapeInv /\ OneRoutine /\ OwnerInv)'
  BY ShapeStep, OneRoutineStep, OwnerStep
<1>3. ShapeInv /\ OwnerInv => TeardownHitsOwn
  BY OwnerImpliesTeardown
<1>4. QED
  BY <1>1, <1>2, <1>3, PTL DEF Spec
-----------------------------------------------------------------------------
(* Ports and forwards *)

\* A port that was given out is below the counter, so the next one is new; a
\* deployment that holds a port holds it alone until its forward is started,
\* and from then on the forward leads to the service it found, unless another
\* process has the port.
PortsTaken ==
  /\ \A p \in DOMAIN forward : p < nextPort
  /\ \A g \in Routines :
       /\ deploy[g].pc \in {"forward", "found"} => deploy[g].port < nextPort
       /\ deploy[g].pc = "forward" =>
            /\ deploy[g].port \notin DOMAIN forward
            /\ <<deploy[g].cluster, deploy[g].lbSvc>> \in Matches
       /\ deploy[g].pc = "found" /\ deploy[g].port \notin BusyPorts =>
            /\ deploy[g].port \in DOMAIN forward
            /\ <<deploy[g].cluster, forward[deploy[g].port]>> \in Matches
  /\ \A g, h \in Routines :
       deploy[g].pc = "forward" /\ deploy[h].pc = "forward" /\ deploy[g].port = deploy[h].port
         => g = h

\* A step that starts no forward and gives out no port.
LEMMA PortsKept ==
  ASSUME PortsTaken, UNCHANGED <<nextPort, forward>>,
         \A h \in Routines : deploy'[h].pc \in {"forward", "found"} =>
           /\ deploy'[h].pc = deploy[h].pc
           /\ deploy'[h].port = deploy[h].port
           /\ deploy'[h].cluster = deploy[h].cluster
           /\ deploy'[h].lbSvc = deploy[h].lbSvc
  PROVE  PortsTaken'
  BY DEF PortsTaken

LEMMA AllocatePortPorts ==
  ASSUME ShapeInv, PortsTaken, NEW g \in Routines, AllocatePort(g)
  PROVE  PortsTaken'
<1>1. /\ deploy[g] \in Routine /\ deploy \in [Routines -> Routine]
      /\ nextPort \in Nat /\ DOMAIN forward \subseteq Nat
  BY DEF ShapeInv, RoutinesOK, OutsideOK
<1>2. PICK d \in Clusters :
        /\ <<deploy[g].cluster, d>> \in Matches
        /\ deploy' = [deploy EXCEPT ![g].pc = "forward", ![g].port = nextPort, ![g].lbSvc = d]
        /\ nextPort' = nextPort + 1
        /\ UNCHANGED forward
  BY DEF AllocatePort, Finds
<1>3. /\ deploy'[g].pc = "forward" /\ deploy'[g].port = nextPort
      /\ deploy'[g].lbSvc = d /\ deploy'[g].cluster = deploy[g].cluster
      /\ \A h \in Routines : h # g => deploy'[h] = deploy[h]
  BY <1>1, <1>2 DEF Routine
<1>4. \A p \in Nat : p < nextPort => p < nextPort' /\ p # nextPort
  BY <1>1, <1>2
<1>5. \A h \in Routines : deploy[h].port \in Nat
  BY <1>1 DEF Routine
<1>6. /\ \A p \in DOMAIN forward' : p < nextPort'
      /\ deploy'[g].port \notin DOMAIN forward'
      /\ deploy'[g].port < nextPort'
  BY <1>1, <1>2, <1>3, <1>4 DEF PortsTaken
<1>7. \A h \in Routines : h # g =>
        /\ deploy'[h] = deploy[h]
        /\ deploy[h].pc \in {"forward", "found"} =>
             deploy[h].port < nextPort' /\ deploy[h].port # deploy'[g].port
  BY <1>3, <1>4, <1>5 DEF PortsTaken
<1>8. ASSUME NEW h \in Routines
      PROVE  /\ deploy'[h].pc \in {"forward", "found"} => deploy'[h].port < nextPort'
             /\ deploy'[h].pc = "forward" =>
                  /\ deploy'[h].port \notin DOMAIN forward'
                  /\ <<deploy'[h].cluster, deploy'[h].lbSvc>> \in Matches
             /\ deploy'[h].pc = "found" /\ deploy'[h].port \notin BusyPorts =>
                  /\ deploy'[h].port \in DOMAIN forward'
                  /\ <<deploy'[h].cluster, forward'[deploy'[h].port]>> \in Matches
  <2>1. CASE h = g
    BY <1>2, <1>3, <1>6, <2>1
  <2>2. CASE h # g
    BY <1>2, <1>7, <2>2 DEF PortsTaken
  <2>3. QED
    BY <2>1, <2>2
<1>9. \A h, k \in Routines :
        deploy'[h].pc = "forward" /\ deploy'[k].pc = "forward" /\ deploy'[h].port = deploy'[k].port
          => h = k
  BY <1>3, <1>7 DEF PortsTaken
<1>10. QED
  BY <1>6, <1>8, <1>9 DEF PortsTaken

LEMMA StartForwardPorts ==
  ASSUME ShapeInv, PortsTaken, NEW g \in Routines, StartForward(g)
  PROVE  /\ PortsTaken'
         /\ \A p \in DOMAIN forward : p \in DOMAIN forward' /\ forward'[p] = forward[p]
<1>1. deploy[g] \in Routine /\ deploy \in [Routines -> Routine]
  BY DEF ShapeInv, RoutinesOK
<1>2. /\ deploy[g].pc = "forward"
      /\ deploy' = [deploy EXCEPT ![g].pc = "found"]
      /\ forward' = IF deploy[g].port \in BusyPorts \cup DOMAIN forward THEN forward
                    ELSE Put(forward, deploy[g].port, deploy[g].lbSvc)
      /\ UNCHANGED nextPort
  BY DEF StartForward
<1>3. /\ deploy'[g].pc = "found"
      /\ deploy'[g].port = deploy[g].port /\ deploy'[g].cluster = deploy[g].cluster
      /\ \A h \in Routines : h # g => deploy'[h] = deploy[h]
  BY <1>1, <1>2 DEF Routine
<1>4. /\ deploy[g].port \notin DOMAIN forward
      /\ <<deploy[g].cluster, deploy[g].lbSvc>> \in Matches
  BY <1>2 DEF PortsTaken
<1>5. /\ DOMAIN forward \subseteq DOMAIN forward'
      /\ DOMAIN forward' \subseteq DOMAIN forward \cup {deploy[g].port}
      /\ \A p \in DOMAIN forward : p # deploy[g].port => forward'[p] = forward[p]
      /\ deploy[g].port \notin BusyPorts =>
           /\ deploy[g].port \in DOMAIN forward'
           /\ forward'[deploy[g].port] = deploy[g].lbSvc
  <2>1. CASE deploy[g].port \in BusyPorts
    BY <1>2, <2>1
  <2>2. CASE deploy[g].port \notin BusyPorts
    <3>1. forward' = Put(forward, deploy[g].port, deploy[g].lbSvc)
      BY <1>2, <1>4, <2>2
    <3>2. QED
      BY <2>2, <3>1 DEF Put
  <2>3. QED
    BY <2>1, <2>2
<1>6. \A h \in Routines : h # g /\ deploy[h].pc = "forward" => deploy[h].port # deploy[g].port
  BY <1>2 DEF PortsTaken
<1>7. \A p \in DOMAIN forward : p \in DOMAIN forward' /\ forward'[p] = forward[p]
  BY <1>5, <1>4
<1>8. \A p \in DOMAIN forward' : p < nextPort'
  BY <1>2, <1>5 DEF PortsTaken
<1>9. ASSUME NEW h \in Routines
      PROVE  /\ deploy'[h].pc \in {"forward", "found"} => deploy'[h].port < nextPort'
             /\ deploy'[h].pc = "forward" =>
                  /\ deploy'[h].port \notin DOMAIN forward'
                  /\ <<deploy'[h].cluster, deploy'[h].lbSvc>> \in Matches
             /\ deploy'[h].pc = "found" /\ deploy'[h].port \notin BusyPorts =>
                  /\ deploy'[h].port \in DOMAIN forward'
                  /\ <<deploy'[h].cluster, forward'[deploy'[h].port]>> \in Matches
  <2>1. CASE h = g
    <3>1. deploy[g].port < nextPort'
      BY <1>2 DEF PortsTaken
    <3>2. deploy[g].port \notin BusyPorts =>
            /\ deploy[g].port \in DOMAIN forward'
            /\ <<deploy[g].cluster, forward'[deploy[g].port]>> \in Matches
      BY <1>4, <1>5
    <3>3. QED
      BY <1>3, <2>1, <3>1, <3>2
  <2>2. CASE h # g
    <3>1. deploy'[h] = deploy[h] /\ nextPort' = nextPort
      BY <1>2, <1>3, <2>2
    <3>2. deploy[h].pc \in {"forward", "found"} => deploy[h].port < nextPort
      BY DEF PortsTaken
    <3>3. ASSUME deploy[h].pc = "forward"
          PROVE  /\ deploy[h].port \notin DOMAIN forward'
                 /\ <<deploy[h].cluster, deploy[h].lbSvc>> \in Matches
      <4>1. /\ deploy[h].port \notin DOMAIN forward
            /\ <<deploy[h].cluster, deploy[h].lbSvc>> \in Matches
        BY <3>3 DEF PortsTaken
      <4>2. deploy[h].port # deploy[g].port
        BY <1>6, <2>2, <3>3
      <4>3. QED
        BY <1>5, <4>1, <4>2
    <3>4. ASSUME deploy[h].pc = "found", deploy[h].port \notin BusyPorts
          PROVE  /\ deploy[h].port \in DOMAIN forward'
                 /\ <<deploy[h].cluster, forward'[deploy[h].port]>> \in Matches
      <4>1. /\ deploy[h].port \in DOMAIN forward
            /\ <<deploy[h].cluster, forward[deploy[h].port]>> \in Matches
        BY <3>4 DEF PortsTaken
      <4>2. QED
        BY <1>7, <4>1
    <3>5. QED
      BY <3>1, <3>2, <3>3, <3>4
  <2>3. QED
    BY <2>1, <2>2
<1>10. \A h, k \in Routines :
         deploy'[h].pc = "forward" /\ deploy'[k].pc = "forward" /\ deploy'[h].port = deploy'[k].port
           => h = k
  BY <1>3 DEF PortsTaken
<1>11. QED
  BY <1>7, <1>8, <1>9, <1>10 DEF PortsTaken

LEMMA PortsInit == Init => PortsTaken /\ EndpointIsOwn
  BY EmptyMapEntries DEF Init, PortsTaken, EndpointIsOwn, IdleRoutine

LEMMA PortsStep ==
  ASSUME ShapeInv, PortsTaken, ForwardsDie, [Next]_vars
  PROVE  PortsTaken'
<1>1. ASSUME NEW i \in FnMillis, NEW t \in InstMillis, NEW g \in Routines,
             DeployFunction(i, t, g)
      PROVE  PortsTaken'
  <2>1. Deployed(t, g)
    BY <1>1, DeployFunctionEffect
  <2>2. UNCHANGED <<nextPort, forward>>
    BY <1>1 DEF DeployFunction
  <2>3. \A h \in Routines : deploy'[h].pc \in {"forward", "found"} => deploy'[h] = deploy[h]
    BY <2>1 DEF Deployed
  <2>4. QED
    BY <2>2, <2>3, PortsKept
<1>2. ASSUME NEW g \in Routines, NameCluster(g)
      PROVE  PortsTaken'
  <2>1. /\ deploy'[g].pc = "yaml"
        /\ \A h \in Routines : h # g => deploy'[h] = deploy[h]
    BY <1>2, NameClusterEffect
  <2>2. UNCHANGED <<nextPort, forward>>
    BY <1>2 DEF NameCluster
  <2>3. QED
    BY <2>1, <2>2, PortsKept
<1>3. ASSUME NEW g \in Routines,
             WriteTask(g) \/ ClusterComesUp(g) \/ LaunchSucceeds(g) \/ AttemptFails(g)
      PROVE  PortsTaken'
  <2>1. deploy[g] \in Routine /\ deploy \in [Routines -> Routine]
    BY DEF ShapeInv, RoutinesOK
  <2>2. /\ deploy'[g].pc \notin {"forward", "found"}
        /\ \A h \in Routines : h # g => deploy'[h] = deploy[h]
    BY <1>3, <2>1 DEF Routine, WriteTask, ClusterComesUp, LaunchSucceeds, AttemptFails
  <2>3. UNCHANGED <<nextPort, forward>>
    BY <1>3 DEF WriteTask, ClusterComesUp, LaunchSucceeds, AttemptFails
  <2>4. QED
    BY <2>2, <2>3, PortsKept
<1>4. ASSUME NEW g \in Routines, DeployFails(g) \/ ReportEndpoint(g)
      PROVE  PortsTaken'
  <2>1. /\ deploy'[g] = Returned
        /\ \A h \in Routines : h # g => deploy'[h] = deploy[h]
    BY <1>4, ReturnShape
  <2>2. UNCHANGED <<nextPort, forward>> /\ Returned.pc = "done"
    BY <1>4 DEF DeployFails, ReportEndpoint, Returned, IdleRoutine
  <2>3. QED
    BY <2>1, <2>2, PortsKept
<1>5. ASSUME NEW g \in Routines, DeployStep(g)
      PROVE  PortsTaken'
  BY <1>2, <1>3, <1>4, <1>5, AllocatePortPorts, StartForwardPorts DEF DeployStep
<1>6. CASE ProcessDies /\ ManagerLost
  <2>1. \A g \in Routines : deploy'[g].pc \notin ActivePcs
    BY <1>6, LostShape
  <2>2. DOMAIN forward' = {}
    BY <1>6, LostShape
  <2>3. QED
    BY <2>1, <2>2 DEF PortsTaken, ActivePcs
<1>7. CASE UNCHANGED <<deploy, nextPort, forward>>
  BY <1>7, PortsKept
<1>8. QED
  BY <1>1, <1>5, <1>6, <1>7
  DEF Next, Request, PatchInstance, SeedInstance, BeginDelete, TeardownStep, EndDelete,
      SkyDownSucceeds, SkyDownFails, managerVars, vars

\* Forwards are only ever added, until the process dies.
LEMMA EndpointsStep ==
  ASSUME ShapeInv, PortsTaken, EndpointIsOwn, [Next]_vars
  PROVE  EndpointIsOwn'
<1> SUFFICES ASSUME NEW k \in DOMAIN instances', instances'[k].endpoint \in Nat \ BusyPorts
             PROVE  /\ instances'[k].endpoint \in DOMAIN forward'
                    /\ <<instances'[k].sky, forward'[instances'[k].endpoint]>> \in Matches
  BY DEF EndpointIsOwn
<1>1. \A p \in DOMAIN forward : p \in DOMAIN forward' /\ forward'[p] = forward[p]
  <2>1. ~ ManagerLost
    BY EmptyMapEntries DEF ManagerLost
  <2>2. \A g \in Routines : StartForward(g) =>
          \A p \in DOMAIN forward : p \in DOMAIN forward' /\ forward'[p] = forward[p]
    BY StartForwardPorts
  <2>3. (\E g \in Routines : StartForward(g)) \/ UNCHANGED forward
    BY <2>1
    DEF Next, Request, DeployFunction, PatchInstance, SeedInstance, BeginDelete, TeardownStep,
        EndDelete, SkyDownSucceeds, SkyDownFails, DeployStep, NameCluster, WriteTask,
        ClusterComesUp, DeployFails, LaunchSucceeds, AttemptFails, AllocatePort,
        ReportEndpoint, managerVars, vars
  <2>4. QED
    BY <2>2, <2>3
<1>2. CASE KeptEndpoint(k)
  BY <1>1, <1>2 DEF KeptEndpoint, EndpointIsOwn
<1>3. ASSUME NEW g \in Routines, Reported(g, k)
      PROVE  /\ instances'[k].endpoint \in DOMAIN forward'
             /\ <<instances'[k].sky, forward'[instances'[k].endpoint]>> \in Matches
  BY <1>1, <1>3 DEF Reported, PortsTaken
<1>4. QED
  BY <1>2, <1>3, EndpointSource

\* However many deployments search for their endpoints at once, and whatever
\* clients patch, seed and delete meanwhile, the local port that an instance
\* shows leads to a service whose name contains its cluster's, unless another
\* process has the port; provided that the forwards die with the process.
\* Nothing is assumed of the identifiers.
THEOREM EndpointsAreOwn ==
  ASSUME ForwardsDie
  PROVE  Spec => []EndpointIsOwn
<1>1. Init => ShapeInv /\ PortsTaken /\ EndpointIsOwn
  BY ShapeInit, PortsInit
<1>2. ShapeInv /\ PortsTaken /\ EndpointIsOwn /\ [Next]_vars
        => (ShapeInv /\ PortsTaken /\ EndpointIsOwn)'
  BY ShapeStep, PortsStep, EndpointsStep
<1>3. QED
  BY <1>1, <1>2, PTL DEF Spec

EndpointLeadsHome ==
  \A i \in DOMAIN instances : instances[i].endpoint \in Nat =>
    /\ instances[i].endpoint \in DOMAIN forward
    /\ forward[instances[i].endpoint] = instances[i].sky

\* If no cluster's name is contained in that of another one's service, and nobody
\* else listens on the ports, every local endpoint leads to the instance's own
\* cluster.
THEOREM EndpointsLeadHome ==
  ASSUME ForwardsDie, BusyPorts = {}, \A p \in Matches : p[1] = p[2]
  PROVE  Spec => []EndpointLeadsHome
<1>1. EndpointIsOwn => EndpointLeadsHome
  BY DEF EndpointIsOwn, EndpointLeadsHome
<1>2. QED
  BY <1>1, EndpointsAreOwn, PTL
-----------------------------------------------------------------------------
(* Clusters behind endpoints *)

\* A DELETE under way, and a `sky down`, are for an instance that existed; and
\* once the DELETE has returned, its record is gone.
RemovalsKnown == \A d \in Teardowns :
  /\ teardown[d].pc = "removing" \/ teardown[d].down = "pending" =>
       teardown[d].inst \in InstMillis /\ teardown[d].inst \in instIssued
  /\ teardown[d].down = "pending" =>
       teardown[d].pc = "removing" \/ teardown[d].inst \notin DOMAIN instances

Leaving(i) == i \notin DOMAIN instances \/ BeingRemoved(i)

\* The cluster of a deployment that got beyond its launch is up, unless a
\* DELETE has met the deployment.
Up == {"launched", "discover", "forward", "found"}

RoutinesBacked == \A g \in Routines :
  deploy[g].pc \in Up => deploy[g].cluster \in sky \/ Leaving(deploy[g].inst)

BackedInv == RemovalsKnown /\ RoutinesBacked /\ EndpointIsBacked

\* No identifier already handed out comes back: new records are new.
LEMMA NoRevival ==
  ASSUME ShapeInv, DistinctInstIds, [Next]_vars
  PROVE  /\ \A i \in DOMAIN instances' : i \in InstMillis /\ i \in instIssued => i \in DOMAIN instances
         /\ instIssued \subseteq instIssued'
<1>1. ASSUME NEW i \in FnMillis, NEW t \in InstMillis, NEW g \in Routines,
             DeployFunction(i, t, g)
      PROVE  /\ \A j \in DOMAIN instances' : j \in instIssued /\ j \in InstMillis => j \in DOMAIN instances
             /\ instIssued \subseteq instIssued'
  <2>1. Deployed(t, g) /\ t \notin instIssued
    BY <1>1, DeployFunctionEffect
  <2>2. DOMAIN instances' = DOMAIN instances \cup {t} /\ instIssued' = instIssued \cup {t}
    BY <2>1 DEF Deployed
  <2>3. QED
    BY <2>1, <2>2
<1>2. ASSUME NEW t \in InstMillis, NEW c \in Clusters \cup {NoCluster}, NEW via \in SeedVias,
             SeedInstance(t, c, via)
      PROVE  /\ \A j \in DOMAIN instances' : j \in instIssued /\ j \in InstMillis => j \in DOMAIN instances
             /\ instIssued \subseteq instIssued'
  <2>1. Seeded(t, c, via) /\ t \notin instIssued
    BY <1>2, SeedEffect
  <2>2. DOMAIN instances' = DOMAIN instances \cup {t} /\ instIssued' = instIssued \cup {t}
    BY <2>1 DEF Seeded
  <2>3. QED
    BY <2>1, <2>2
<1>3. ASSUME NEW g \in Routines, DeployStep(g)
      PROVE  DOMAIN instances' = DOMAIN instances /\ UNCHANGED instIssued
  <2>1. DOMAIN instances' = DOMAIN instances
    BY <1>3, NameClusterEffect, ReturnShape
    DEF DeployStep, WriteTask, ClusterComesUp, LaunchSucceeds, AttemptFails, AllocatePort,
        StartForward
  <2>2. QED
    BY <1>3, <2>1
    DEF DeployStep, NameCluster, WriteTask, ClusterComesUp, DeployFails, LaunchSucceeds,
        AttemptFails, AllocatePort, StartForward, ReportEndpoint
<1>4. ASSUME NEW i \in InstMillis, PatchInstance(i)
      PROVE  DOMAIN instances' = DOMAIN instances /\ UNCHANGED instIssued
  BY <1>4, PatchShape DEF PatchInstance
<1>5. ASSUME NEW d \in Teardowns, TeardownStep(d)
      PROVE  DOMAIN instances' \subseteq DOMAIN instances /\ UNCHANGED instIssued
  BY <1>5, TeardownShape DEF TeardownStep, EndDelete, SkyDownSucceeds, SkyDownFails
<1>6. CASE ProcessDies /\ ManagerLost
  <2>1. DOMAIN instances' = {} /\ UNCHANGED instIssued
    BY <1>6, LostShape DEF ManagerLost
  <2>2. QED
    BY <2>1
<1>7. CASE DOMAIN instances' \subseteq DOMAIN instances /\ UNCHANGED instIssued
  BY <1>7
<1>8. QED
  BY <1>1, <1>2, <1>3, <1>4, <1>5, <1>6, <1>7
  DEF Next, Request, BeginDelete, managerVars, vars

\* A DELETE handler is at work until its record is gone.
Begun(e) ==
  /\ teardown[e].pc = "idle" /\ teardown'[e].pc = "removing"
  /\ teardown'[e].inst \in DOMAIN instances
  /\ PatientClients => instances[teardown'[e].inst].status # "deploying"
  /\ UNCHANGED <<instances, deploy>>

Ongoing(e) ==
  /\ teardown[e].pc = "removing" => \/ teardown'[e].pc = "removing"
                                    \/ teardown[e].inst \notin DOMAIN instances'
  /\ teardown'[e].pc = "removing" => teardown[e].pc = "removing"
  /\ teardown'[e].down = "pending" => teardown[e].down = "pending"
  /\ teardown'[e].inst = teardown[e].inst

LEMMA RemovalsStep ==
  ASSUME ShapeInv, [Next]_vars, NEW e \in Teardowns
  PROVE  Begun(e) \/ Ongoing(e)
<1>1. ASSUME NEW d \in Teardowns, NEW i \in InstMillis, BeginDelete(d, i)
      PROVE  teardown'[e] = teardown[e] \/ Begun(e)
  <2>1. /\ i \in DOMAIN instances
        /\ teardown'[d].inst = i
        /\ teardown'[d].pc = "removing"
        /\ \A x \in Teardowns : x # d => teardown'[x] = teardown[x]
    BY <1>1, BeginDeleteShape
  <2>2. /\ teardown[d].pc = "idle" /\ UNCHANGED <<instances, deploy>>
        /\ PatientClients => instances[i].status # "deploying"
    BY <1>1 DEF BeginDelete, MayTouch
  <2>3. QED
    BY <2>1, <2>2 DEF Begun
<1>2. ASSUME NEW d \in Teardowns, EndDelete(d)
      PROVE  teardown'[e] = teardown[e] \/ Ongoing(e)
  BY <1>2, EndDeleteEffect DEF Ongoing
<1>3. ASSUME NEW d \in Teardowns, SkyDownSucceeds(d) \/ SkyDownFails(d)
      PROVE  teardown'[e] = teardown[e] \/ Ongoing(e)
  BY <1>3, SkyDownEffect DEF Ongoing
<1>4. CASE ProcessDies /\ ManagerLost
  <2>1. DOMAIN instances' = {} /\ teardown'[e].down # "pending"
    BY <1>4, LostShape
  <2>2. teardown'[e].pc # "removing" /\ teardown'[e].inst = teardown[e].inst
    <3>1. teardown[e] \in Teardown
      BY DEF ShapeInv, TeardownsOK
    <3>2. teardown'[e] = IF teardown[e].pc = "idle" THEN teardown[e]
                         ELSE [teardown[e] EXCEPT !.pc = "done",
                                 !.down = IF @ = "pending" THEN "none" ELSE @]
      BY <1>4 DEF ManagerLost
    <3>3. QED
      BY <3>1, <3>2 DEF Teardown
  <2>3. QED
    BY <2>1, <2>2 DEF Ongoing
<1>5. CASE UNCHANGED teardown
  BY <1>5 DEF Ongoing
<1>6. teardown'[e] = teardown[e] => Ongoing(e)
  BY DEF Ongoing
<1>7. QED
  BY <1>1, <1>2, <1>3, <1>4, <1>5, <1>6
  DEF Next, Request, DeployFunction, PatchInstance, SeedInstance, TeardownStep, DeployStep,
      NameCluster, WriteTask, ClusterComesUp, DeployFails, LaunchSucceeds, AttemptFails,
      AllocatePort, StartForward, ReportEndpoint, managerVars, vars

LEMMA LeavingStays ==
  ASSUME ShapeInv, DistinctInstIds, [Next]_vars,
         NEW i \in InstMillis, i \in instIssued, Leaving(i)
  PROVE  Leaving(i)'
<1>1. CASE i \notin DOMAIN instances
  BY <1>1, NoRevival DEF Leaving
<1>2. CASE BeingRemoved(i)
  <2>1. PICK d \in Teardowns : teardown[d].pc = "removing" /\ teardown[d].inst = i
    BY <1>2 DEF BeingRemoved
  <2>2. \/ teardown'[d].pc = "removing" /\ teardown'[d].inst = i
        \/ i \notin DOMAIN instances'
    BY <2>1, RemovalsStep DEF Begun, Ongoing
  <2>3. QED
    BY <2>2 DEF Leaving, BeingRemoved
<1>3. QED
  BY <1>1, <1>2 DEF Leaving

LEMMA RemovalsKnownStep ==
  ASSUME ShapeInv, RemovalsKnown, DistinctInstIds, [Next]_vars
  PROVE  RemovalsKnown'
<1> SUFFICES ASSUME NEW d \in Teardowns
             PROVE  /\ teardown'[d].pc = "removing" \/ teardown'[d].down = "pending" =>
                         teardown'[d].inst \in InstMillis /\ teardown'[d].inst \in instIssued'
                    /\ teardown'[d].down = "pending" =>
                         teardown'[d].pc = "removing" \/ teardown'[d].inst \notin DOMAIN instances'
  BY DEF RemovalsKnown
<1>0. /\ \A i \in InstMillis : i \in instIssued => i \in instIssued'
      /\ \A i \in DOMAIN instances : i \in InstMillis /\ i \in instIssued
      /\ \A i \in InstMillis : i \in instIssued /\ i \notin DOMAIN instances => i \notin DOMAIN instances'
  <2>1. instIssued \subseteq instIssued'
    BY NoRevival
  <2>2. \A i \in InstMillis : i \in instIssued => i \in instIssued'
    BY <2>1
  <2>3. \A i \in DOMAIN instances : i \in InstMillis /\ i \in instIssued
    BY DEF ShapeInv, InstancesOK
  <2>4. QED
    BY <2>2, <2>3, NoRevival
<1>1. CASE Ongoing(d)
  BY <1>0, <1>1 DEF RemovalsKnown, Ongoing
<1>2. CASE Begun(d)
  BY <1>0, <1>2 DEF Begun
<1>3. QED
  BY <1>1, <1>2, RemovalsStep

\* A cluster that goes down takes nobody's cluster but the deleted instance's.
LEMMA LosesOnlyLeaving ==
  ASSUME ShapeInv, TeardownHitsOwn, RemovalsKnown, [Next]_vars
  PROVE  /\ \A g \in Routines : deploy[g].cluster \in sky
                                  => deploy[g].cluster \in sky' \/ Leaving(deploy[g].inst)
         /\ \A i \in DOMAIN instances : instances[i].sky \in sky
                                  => instances[i].sky \in sky' \/ BeingRemoved(i)
<1>1. ASSUME NEW d \in Teardowns, SkyDownSucceeds(d)
      PROVE  /\ \A g \in Routines : deploy[g].cluster \in sky
                                      => deploy[g].cluster \in sky' \/ Leaving(deploy[g].inst)
             /\ \A i \in DOMAIN instances : instances[i].sky \in sky
                                      => instances[i].sky \in sky' \/ BeingRemoved(i)
  <2>1. teardown[d].down = "pending" /\ sky' = sky \ {teardown[d].cluster}
    BY <1>1 DEF SkyDownSucceeds
  <2>2. Leaving(teardown[d].inst)
    BY <2>1 DEF RemovalsKnown, Leaving, BeingRemoved
  <2>3. QED
    BY <2>1, <2>2 DEF TeardownHitsOwn, Leaving
<1>2. CASE sky \subseteq sky'
  BY <1>2
<1>3. QED
  BY <1>1, <1>2
  DEF Next, Request, DeployFunction, PatchInstance, SeedInstance, BeginDelete, TeardownStep,
      EndDelete, SkyDownFails, DeployStep, NameCluster, WriteTask, ClusterComesUp, DeployFails,
      LaunchSucceeds, AttemptFails, AllocatePort, StartForward, ReportEndpoint, ManagerLost,
      managerVars, vars

\* A deployment is beyond its launch because it was, or because its cluster
\* has just come up.
LEMMA UpBefore ==
  ASSUME ShapeInv, [Next]_vars, NEW h \in Routines, deploy'[h].pc \in Up
  PROVE  \/ /\ deploy[h].pc \in Up
            /\ deploy'[h].cluster = deploy[h].cluster
            /\ deploy'[h].inst = deploy[h].inst
         \/ deploy'[h].cluster \in sky'
<1>1. ASSUME NEW i \in FnMillis, NEW t \in InstMillis, NEW g \in Routines,
             DeployFunction(i, t, g)
      PROVE  deploy'[h] = deploy[h]
  <2>1. Deployed(t, g)
    BY <1>1, DeployFunctionEffect
  <2>2. QED
    BY <2>1 DEF Deployed, Up
<1>2. ASSUME NEW g \in Routines, NameCluster(g)
      PROVE  deploy'[h] = deploy[h]
  BY <1>2, NameClusterEffect DEF Up
<1>3. ASSUME NEW g \in Routines,
             WriteTask(g) \/ LaunchSucceeds(g) \/ AttemptFails(g) \/ AllocatePort(g)
               \/ StartForward(g)
      PROVE  /\ deploy[h].pc \in Up
             /\ deploy'[h].cluster = deploy[h].cluster
             /\ deploy'[h].inst = deploy[h].inst
  <2>1. /\ \A k \in Routines : k # g => deploy'[k] = deploy[k]
        /\ deploy'[g].cluster = deploy[g].cluster
        /\ deploy'[g].inst = deploy[g].inst
    BY <1>3, AdvanceShape
  <2>2. deploy[g].pc \in Up \/ deploy'[g].pc = "launch"
    <3>1. deploy[g] \in Routine /\ deploy \in [Routines -> Routine]
      BY DEF ShapeInv, RoutinesOK
    <3>2. QED
      BY <1>3, <3>1
      DEF WriteTask, LaunchSucceeds, AttemptFails, AllocatePort, StartForward, Up, Routine
  <2>3. QED
    BY <2>1, <2>2 DEF Up
<1>4. ASSUME NEW g \in Routines, ClusterComesUp(g)
      PROVE  deploy'[h] = deploy[h] \/ deploy'[h].cluster \in sky'
  <2>1. /\ \A k \in Routines : k # g => deploy'[k] = deploy[k]
        /\ deploy'[g].cluster = deploy[g].cluster
    BY <1>4, AdvanceShape
  <2>2. QED
    BY <1>4, <2>1 DEF ClusterComesUp
<1>5. ASSUME NEW g \in Routines, DeployFails(g) \/ ReportEndpoint(g)
      PROVE  deploy'[h] = deploy[h]
  BY <1>5, ReturnShape DEF Returned, IdleRoutine, Up
<1>6. CASE ProcessDies /\ ManagerLost
  BY <1>6, LostShape DEF Up, ActivePcs
<1>7. CASE UNCHANGED deploy
  BY <1>7
<1>8. QED
  BY <1>1, <1>2, <1>3, <1>4, <1>5, <1>6, <1>7
  DEF Next, Request, PatchInstance, SeedInstance, BeginDelete, TeardownStep, EndDelete,
      SkyDownSucceeds, SkyDownFails, DeployStep, managerVars, vars

LEMMA BackedInit == Init => BackedInv
  BY EmptyMapEntries
  DEF Init, BackedInv, RemovalsKnown, RoutinesBacked, EndpointIsBacked, IdleRoutine,
      IdleTeardown, Up

LEMMA BackedStep ==
  ASSUME ShapeInv, TeardownHitsOwn, BackedInv, DistinctInstIds, [Next]_vars
  PROVE  BackedInv'
<1>1. RemovalsKnown'
  BY RemovalsKnownStep DEF BackedInv
<1>2. RoutinesBacked'
  <2> SUFFICES ASSUME NEW g \in Routines, deploy'[g].pc \in Up
               PROVE  deploy'[g].cluster \in sky' \/ Leaving(deploy[g].inst)'
    BY DEF RoutinesBacked
  <2>1. CASE /\ deploy[g].pc \in Up
             /\ deploy'[g].cluster = deploy[g].cluster
             /\ deploy'[g].inst = deploy[g].inst
    <3>1. deploy[g].inst \in InstMillis /\ deploy[g].inst \in instIssued
      BY <2>1, RoutineFacts DEF RoutineOK, Up, ActivePcs
    <3>2. deploy[g].cluster \in sky' \/ Leaving(deploy[g].inst)
      BY <2>1, LosesOnlyLeaving DEF BackedInv, RoutinesBacked
    <3>3. \A i \in InstMillis : i \in instIssued /\ Leaving(i) => Leaving(i)'
      BY LeavingStays
    <3>4. QED
      BY <2>1, <3>1, <3>2, <3>3 DEF Leaving, BeingRemoved
  <2>2. QED
    BY <2>1, UpBefore
<1>3. EndpointIsBacked'
  <2> SUFFICES ASSUME NEW k \in DOMAIN instances', instances'[k].endpoint \in Nat
               PROVE  BeingRemoved(k)' \/ instances'[k].sky \in sky'
    BY DEF EndpointIsBacked
  <2>1. CASE KeptEndpoint(k)
    <3>1. /\ k \in DOMAIN instances
          /\ instances[k].endpoint \in Nat /\ instances'[k].sky = instances[k].sky
      BY <2>1 DEF KeptEndpoint
    <3>2. k \in InstMillis /\ k \in instIssued
      BY <3>1 DEF ShapeInv, InstancesOK
    <3>3. BeingRemoved(k) \/ instances[k].sky \in sky'
      BY <3>1, LosesOnlyLeaving DEF BackedInv, EndpointIsBacked
    <3>4. BeingRemoved(k) => Leaving(k)'
      BY <3>2, LeavingStays DEF Leaving
    <3>5. QED
      BY <3>1, <3>3, <3>4 DEF Leaving
  <2>2. ASSUME NEW g \in Routines, Reported(g, k)
        PROVE  BeingRemoved(k)' \/ instances'[k].sky \in sky'
    <3>1. /\ deploy[g].pc \in Up /\ deploy[g].inst = k
          /\ instances'[k].sky = deploy[g].cluster
          /\ UNCHANGED <<sky, teardown>>
      BY <2>2 DEF Reported, ReportEndpoint, Up
    <3>2. deploy[g].cluster \in sky \/ Leaving(k)
      BY <3>1 DEF BackedInv, RoutinesBacked
    <3>3. k \in DOMAIN instances
      BY <2>2, ReturnShape DEF Reported
    <3>4. QED
      BY <3>1, <3>2, <3>3 DEF Leaving, BeingRemoved
  <2>3. QED
    BY <2>1, <2>2, EndpointSource
<1>4. QED
  BY <1>1, <1>2, <1>3 DEF BackedInv

\* The cluster behind the local endpoint of an instance that is not being
\* deleted is up: no late `sky down`, whosever it was, has taken it away.
\* Holds under the premises of TeardownIsSafe.
THEOREM EndpointsAreBacked ==
  ASSUME DistinctInstIds, SuffixesDistinct, CarefulSeeds
  PROVE  Spec => []EndpointIsBacked
<1>1. Init => ShapeInv /\ OneRoutine /\ OwnerInv /\ BackedInv
  BY ShapeInit, OneRoutineInit, OwnerInit, BackedInit
<1>2. ShapeInv /\ OneRoutine /\ OwnerInv /\ BackedInv /\ [Next]_vars
        => (ShapeInv /\ OneRoutine /\ OwnerInv /\ BackedInv)'
  BY ShapeStep, OneRoutineStep, OwnerStep, OwnerImpliesTeardown, BackedStep
<1>3. BackedInv => EndpointIsBacked
  BY DEF BackedInv
<1>4. QED
  BY <1>1, <1>2, <1>3, PTL DEF Spec
-----------------------------------------------------------------------------
(* Clusters stay accounted for *)

\* While a deployment runs its instance is listed, deploying, and names the
\* cluster that the deployment works on; no DELETE has met it.
RoutinesRecorded == \A g \in Routines : deploy[g].pc \in ActivePcs =>
  /\ deploy[g].inst \in DOMAIN instances
  /\ instances[deploy[g].inst].status = "deploying"
  /\ instances[deploy[g].inst].sky = deploy[g].cluster

RemovalsSettled == \A d \in Teardowns : teardown[d].pc = "removing" =>
  /\ teardown[d].inst \in InstMillis /\ teardown[d].inst \in instIssued
  /\ \A g \in Routines : deploy[g].pc \in ActivePcs => deploy[g].inst # teardown[d].inst

Logged(c) == \E d \in Teardowns : teardown[d].down = "failed" /\ teardown[d].cluster = c

AtWork(c) == \/ \E g \in Routines : deploy[g].cluster = c
             \/ \E d \in Teardowns : teardown[d].down = "pending" /\ teardown[d].cluster = c

Kept(c) == \E i \in DOMAIN instances : instances[i].sky = c /\ ~ BeingRemoved(i)

\* The DELETE of an instance that was not deployed through SkyPilot drops the
\* name of its cluster, so that must be in the log already.
ManualLogged == \A i \in DOMAIN instances :
  instances[i].sky # NoCluster /\ instances[i].via # "skypilot" => Logged(instances[i].sky)

Accounted == \A c \in sky : Logged(c) \/ AtWork(c) \/ Kept(c)

Alive == restarts = 0 /\ ~ panicked

AccountInv == Alive => ManualLogged /\ Accounted

\* A deployment that runs after a step ran before it, or is of a new instance.
LEMMA ActiveBefore ==
  ASSUME ShapeInv, DistinctInstIds, [Next]_vars, NEW h \in Routines, deploy'[h].pc \in ActivePcs
  PROVE  \/ deploy[h].pc \in ActivePcs /\ deploy'[h].inst = deploy[h].inst
         \/ deploy'[h].inst \notin instIssued
<1>1. ASSUME NEW i \in FnMillis, NEW t \in InstMillis, NEW g \in Routines,
             DeployFunction(i, t, g)
      PROVE  \/ deploy[h].pc \in ActivePcs /\ deploy'[h].inst = deploy[h].inst
             \/ deploy'[h].inst \notin instIssued
  <2>1. Deployed(t, g) /\ t \notin instIssued
    BY <1>1, DeployFunctionEffect
  <2>2. deploy'[h] = deploy[h] \/ deploy'[h].inst = t
    BY <2>1 DEF Deployed
  <2>3. QED
    BY <2>1, <2>2
<1>2. ASSUME NEW g \in Routines, DeployStep(g)
      PROVE  deploy[h].pc \in ActivePcs /\ deploy'[h].inst = deploy[h].inst
  BY <1>2, RoutinesKeepInstance
<1>3. CASE ProcessDies /\ ManagerLost
  BY <1>3, LostShape
<1>4. CASE UNCHANGED deploy
  BY <1>4
<1>5. QED
  BY <1>1, <1>2, <1>3, <1>4
  DEF Next, Request, PatchInstance, SeedInstance, BeginDelete, TeardownStep, EndDelete,
      SkyDownSucceeds, SkyDownFails, managerVars, vars

LEMMA RemovalsSettledStep ==
  ASSUME ShapeInv, RoutinesRecorded, RemovalsSettled, DistinctInstIds, PatientClients, [Next]_vars
  PROVE  RemovalsSettled'
<1> SUFFICES ASSUME NEW d \in Teardowns, teardown'[d].pc = "removing"
             PROVE  /\ teardown'[d].inst \in InstMillis /\ teardown'[d].inst \in instIssued'
                    /\ \A g \in Routines :
                         deploy'[g].pc \in ActivePcs => deploy'[g].inst # teardown'[d].inst
  BY DEF RemovalsSettled
<1>1. instIssued \subseteq instIssued'
  BY NoRevival
<1>2. CASE Ongoing(d)
  <2>1. /\ teardown'[d].inst \in InstMillis /\ teardown'[d].inst \in instIssued
        /\ \A g \in Routines : deploy[g].pc \in ActivePcs => deploy[g].inst # teardown'[d].inst
    BY <1>2 DEF Ongoing, RemovalsSettled
  <2>2. QED
    BY <1>1, <2>1, ActiveBefore
<1>3. CASE Begun(d)
  <2>1. teardown'[d].inst \in InstMillis /\ teardown'[d].inst \in instIssued
    BY <1>3 DEF Begun, ShapeInv, InstancesOK
  <2>2. teardown'[d].inst \in instIssued'
    BY <1>1, <2>1
  <2>3. \A g \in Routines : deploy'[g].pc \in ActivePcs => deploy'[g].inst # teardown'[d].inst
    BY <1>3 DEF Begun, RoutinesRecorded
  <2>4. QED
    BY <2>1, <2>2, <2>3
<1>4. QED
  BY <1>2, <1>3, RemovalsStep

LEMMA RoutinesRecordedStep ==
  ASSUME ShapeInv, OneRoutine, RoutinesRecorded, RemovalsSettled, DistinctInstIds, PatientClients,
         [Next]_vars
  PROVE  RoutinesRecorded'
<1>1. ASSUME NEW i \in FnMillis, NEW t \in InstMillis, NEW g \in Routines,
             DeployFunction(i, t, g)
      PROVE  RoutinesRecorded'
  <2>1. Deployed(t, g) /\ NeverUsed(t)
    BY <1>1, DeployFunctionEffect
  <2>2. QED
    BY <2>1 DEF Deployed, NeverUsed, RoutinesRecorded
<1>2. ASSUME NEW i \in InstMillis, PatchInstance(i)
      PROVE  RoutinesRecorded'
  <2>1. /\ DOMAIN instances' = DOMAIN instances
        /\ \A j \in DOMAIN instances : j # i => instances'[j] = instances[j]
    BY <1>2, PatchShape
  <2>2. instances[i].status # "deploying" /\ UNCHANGED deploy
    BY <1>2 DEF PatchInstance, MayTouch
  <2>3. QED
    BY <2>1, <2>2 DEF RoutinesRecorded
<1>3. ASSUME NEW t \in InstMillis, NEW c \in Clusters \cup {NoCluster}, NEW via \in SeedVias,
             SeedInstance(t, c, via)
      PROVE  RoutinesRecorded'
  <2>1. Seeded(t, c, via) /\ NeverUsed(t)
    BY <1>3, SeedEffect
  <2>2. UNCHANGED deploy
    BY <1>3 DEF SeedInstance
  <2>3. QED
    BY <2>1, <2>2 DEF Seeded, NeverUsed, RoutinesRecorded
<1>4. ASSUME NEW d \in Teardowns, EndDelete(d)
      PROVE  RoutinesRecorded'
  <2>1. /\ DOMAIN instances' = DOMAIN instances \ {teardown[d].inst}
        /\ \A i \in DOMAIN instances' : instances'[i] = instances[i]
        /\ teardown[d].pc = "removing"
    BY <1>4, EndDeleteEffect
  <2>2. UNCHANGED deploy
    BY <1>4 DEF EndDelete
  <2>3. QED
    BY <2>1, <2>2 DEF RoutinesRecorded, RemovalsSettled
<1>5. ASSUME NEW g \in Routines, NameCluster(g)
      PROVE  RoutinesRecorded'
  <2>1. PICK c \in Clusters :
          /\ DOMAIN instances' = DOMAIN instances
          /\ \A i \in DOMAIN instances :
               IF i = deploy[g].inst
               THEN instances'[i] = [status |-> "deploying", endpoint |-> NoEndpoint,
                                     sky |-> c, via |-> "skypilot"]
               ELSE instances'[i] = instances[i]
          /\ deploy[g].pc = "start"
          /\ deploy'[g].pc = "yaml" /\ deploy'[g].inst = deploy[g].inst /\ deploy'[g].cluster = c
          /\ \A h \in Routines : h # g => deploy'[h] = deploy[h]
    BY <1>5, NameClusterEffect
  <2>2. \A h \in Routines : h # g /\ deploy[h].pc \in ActivePcs => deploy[h].inst # deploy[g].inst
    BY <2>1 DEF OneRoutine, ActivePcs
  <2>3. QED
    BY <2>1, <2>2 DEF RoutinesRecorded, ActivePcs
<1>6. ASSUME NEW g \in Routines,
             WriteTask(g) \/ ClusterComesUp(g) \/ LaunchSucceeds(g) \/ AttemptFails(g)
               \/ AllocatePort(g) \/ StartForward(g)
      PROVE  RoutinesRecorded'
  <2>1. UNCHANGED instances
    BY <1>6 DEF WriteTask, ClusterComesUp, LaunchSucceeds, AttemptFails, AllocatePort, StartForward
  <2>2. /\ \A h \in Routines : h # g => deploy'[h] = deploy[h]
        /\ deploy'[g].cluster = deploy[g].cluster
        /\ deploy'[g].inst = deploy[g].inst
        /\ deploy[g].pc \in ActivePcs
    BY <1>6, AdvanceShape
  <2>3. QED
    BY <2>1, <2>2 DEF RoutinesRecorded
<1>7. ASSUME NEW g \in Routines, DeployFails(g) \/ ReportEndpoint(g)
      PROVE  RoutinesRecorded'
  <2>1. /\ deploy'[g] = Returned
        /\ \A h \in Routines : h # g => deploy'[h] = deploy[h]
        /\ DOMAIN instances' = DOMAIN instances
        /\ \A i \in DOMAIN instances :
             IF i = deploy[g].inst THEN instances'[i].sky = deploy[g].cluster
                                   ELSE instances'[i] = instances[i]
    BY <1>7, ReturnShape
  <2>2. deploy[g].pc \in ActivePcs /\ Returned.pc \notin ActivePcs
    BY <1>7 DEF DeployFails, ReportEndpoint, ActivePcs, Returned, IdleRoutine
  <2>3. \A h \in Routines : h # g /\ deploy[h].pc \in ActivePcs => deploy[h].inst # deploy[g].inst
    BY <2>2 DEF OneRoutine
  <2>4. QED
    BY <2>1, <2>2, <2>3 DEF RoutinesRecorded
<1>8. CASE ProcessDies /\ ManagerLost
  BY <1>8, LostShape DEF RoutinesRecorded
<1>9. CASE UNCHANGED <<deploy, instances>>
  BY <1>9 DEF RoutinesRecorded
<1>10. QED
  BY <1>1, <1>2, <1>3, <1>4, <1>5, <1>6, <1>7, <1>8, <1>9
  DEF Next, Request, BeginDelete, TeardownStep, SkyDownSucceeds, SkyDownFails, DeployStep,
      managerVars, vars

LEMMA LoggedStays ==
  ASSUME ShapeInv, [Next]_vars, ~ (ProcessDies /\ ManagerLost), NEW c, Logged(c)
  PROVE  Logged(c)'
<1>1. PICK e \in Teardowns : teardown[e].down = "failed" /\ teardown[e].cluster = c
  BY DEF Logged
<1>2. ASSUME NEW d \in Teardowns, NEW i \in InstMillis, BeginDelete(d, i)
      PROVE  teardown'[e] = teardown[e]
  <2>1. teardown[d].down = "none"
    BY <1>2 DEF BeginDelete, ShapeInv, TeardownsOK, TeardownOK
  <2>2. QED
    BY <1>1, <1>2, <2>1, BeginDeleteShape
<1>3. ASSUME NEW d \in Teardowns, TeardownStep(d)
      PROVE  teardown'[e].down = "failed" /\ teardown'[e].cluster = c
  <2>1. CASE EndDelete(d)
    BY <1>1, <2>1, EndDeleteEffect
  <2>2. CASE SkyDownSucceeds(d) \/ SkyDownFails(d)
    BY <1>1, <2>2, SkyDownEffect
  <2>3. QED
    BY <1>3, <2>1, <2>2 DEF TeardownStep
<1>4. teardown'[e].down = "failed" /\ teardown'[e].cluster = c
  <2>1. CASE UNCHANGED teardown
    BY <1>1, <2>1
  <2>2. QED
    BY <1>1, <1>2, <1>3, <2>1
    DEF Next, Request, DeployFunction, PatchInstance, SeedInstance, DeployStep,
        NameCluster, WriteTask, ClusterComesUp, DeployFails, LaunchSucceeds, AttemptFails,
        AllocatePort, StartForward, ReportEndpoint, managerVars, vars
<1>5. QED
  BY <1>4 DEF Logged

\* A process that has died once is not alive again.
LEMMA AliveBefore ==
  ASSUME ShapeInv, [Next]_vars, Alive'
  PROVE  Alive /\ ~ (ProcessDies /\ ManagerLost)
<1>1. restarts \in Nat
  BY DEF ShapeInv, CatalogInv, CatalogTypeOK
<1>2. ~ ProcessDies
  BY <1>1 DEF ProcessDies, Restart, PanicSave, Alive
<1>3. UNCHANGED <<restarts, panicked>>
  BY <1>2
  DEF Next, Request, DeployFunction, PatchInstance, SeedInstance, BeginDelete, TeardownStep,
      EndDelete, SkyDownSucceeds, SkyDownFails, DeployStep, NameCluster, WriteTask,
      ClusterComesUp, DeployFails, LaunchSucceeds, AttemptFails, AllocatePort, StartForward,
      ReportEndpoint, CatalogRequest, CreateFunction, UpdateFunction, DeleteFunction,
      SaverStep, LookupAndSpawnSave, MarshalSave, DeliverSave, LoseSave, catalogVars, vars
<1>4. QED
  BY <1>2, <1>3 DEF Alive

\* Only a seed names a cluster without SkyPilot's tag, and the cluster it
\* names was nobody's.
LEMMA ManualLoggedStep ==
  ASSUME ShapeInv, CarefulSeeds, ManualLogged, Accounted, [Next]_vars,
         ~ (ProcessDies /\ ManagerLost)
  PROVE  ManualLogged'
<1>0. \A c : Logged(c) => Logged(c)'
  BY LoggedStays
<1>1. ASSUME NEW i \in FnMillis, NEW t \in InstMillis, NEW g \in Routines,
             DeployFunction(i, t, g)
      PROVE  ManualLogged'
  <2>1. Deployed(t, g)
    BY <1>1, DeployFunctionEffect
  <2>2. /\ DOMAIN instances' = DOMAIN instances \cup {t}
        /\ instances'[t].sky = NoCluster
        /\ \A j \in DOMAIN instances : j # t => instances'[j] = instances[j]
    BY <2>1 DEF Deployed
  <2>3. \A j \in DOMAIN instances' : instances'[j].sky # NoCluster
          => j \in DOMAIN instances /\ instances'[j] = instances[j]
    BY <2>2
  <2>4. QED
    BY <1>0, <2>3 DEF ManualLogged, Logged
<1>2. ASSUME NEW i \in InstMillis, PatchInstance(i)
      PROVE  ManualLogged'
  <2>1. /\ DOMAIN instances' = DOMAIN instances
        /\ \A j \in DOMAIN instances : instances'[j].sky = instances[j].sky
        /\ \A j \in DOMAIN instances : instances'[j].via = instances[j].via
    BY <1>2, PatchShape
  <2>2. UNCHANGED teardown
    BY <1>2 DEF PatchInstance
  <2>3. QED
    BY <2>1, <2>2 DEF ManualLogged, Logged
<1>3. ASSUME NEW t \in InstMillis, NEW c \in Clusters \cup {NoCluster}, NEW via \in SeedVias,
             SeedInstance(t, c, via)
      PROVE  ManualLogged'
  <2>1. Seeded(t, c, via)
    BY <1>3, SeedEffect
  <2>2. c # NoCluster => c \in sky /\ ~ Owned(c)
    BY <1>3 DEF SeedInstance
  <2>3. c # NoCluster => Logged(c)
    BY <2>2 DEF Accounted, AtWork, Kept, Owned
  <2>4. UNCHANGED teardown
    BY <1>3 DEF SeedInstance
  <2>5. QED
    BY <2>1, <2>3, <2>4 DEF ManualLogged, Logged, Seeded
<1>4. ASSUME NEW d \in Teardowns, TeardownStep(d)
      PROVE  ManualLogged'
  <2>1. /\ DOMAIN instances' \subseteq DOMAIN instances
        /\ \A i \in DOMAIN instances' : instances'[i] = instances[i]
    BY <1>4, TeardownShape
  <2>2. QED
    BY <1>0, <2>1 DEF ManualLogged, Logged
<1>5. ASSUME NEW g \in Routines, NameCluster(g)
      PROVE  ManualLogged'
  <2>1. PICK c \in Clusters :
          /\ DOMAIN instances' = DOMAIN instances
          /\ \A i \in DOMAIN instances :
               IF i = deploy[g].inst
               THEN instances'[i] = [status |-> "deploying", endpoint |-> NoEndpoint,
                                     sky |-> c, via |-> "skypilot"]
               ELSE instances'[i] = instances[i]
    BY <1>5, NameClusterEffect
  <2>2. \A i \in DOMAIN instances : instances'[i].via = "skypilot" \/ instances'[i] = instances[i]
    BY <2>1
  <2>3. UNCHANGED teardown
    BY <1>5 DEF NameCluster
  <2>4. QED
    BY <2>1, <2>2, <2>3 DEF ManualLogged, Logged
<1>6. ASSUME NEW g \in Routines, DeployFails(g) \/ ReportEndpoint(g)
      PROVE  ManualLogged'
  <2>1. /\ DOMAIN instances' = DOMAIN instances
        /\ \A i \in DOMAIN instances :
             IF i = deploy[g].inst THEN instances'[i].via = "skypilot"
                                   ELSE instances'[i] = instances[i]
    BY <1>6, ReturnShape
  <2>2. UNCHANGED teardown
    BY <1>6 DEF DeployFails, ReportEndpoint
  <2>3. QED
    BY <2>1, <2>2 DEF ManualLogged, Logged
<1>7. CASE UNCHANGED instances
  BY <1>0, <1>7 DEF ManualLogged, Logged
<1>8. QED
  BY <1>1, <1>2, <1>3, <1>4, <1>5, <1>6, <1>7
  DEF Next, Request, BeginDelete, DeployStep, WriteTask, ClusterComesUp, LaunchSucceeds,
      AttemptFails, AllocatePort, StartForward, managerVars, vars

\* An instance keeps a cluster accounted for unless the step removes the
\* instance, begins to, or gives it another cluster.
LEMMA KeptStays ==
  ASSUME NEW c, UNCHANGED teardown,
         \A i \in DOMAIN instances : instances[i].sky = c =>
           i \in DOMAIN instances' /\ instances'[i].sky = c,
         Kept(c)
  PROVE  Kept(c)'
  BY DEF Kept, BeingRemoved

\* A new instance leaves the clusters of the others alone.
LEMMA NewInstanceAccounts ==
  ASSUME ShapeInv, Accounted, DistinctInstIds,
         \/ \E i \in FnMillis, t \in InstMillis, g \in Routines : DeployFunction(i, t, g)
         \/ \E t \in InstMillis, c \in Clusters \cup {NoCluster}, via \in SeedVias :
              SeedInstance(t, c, via)
  PROVE  Accounted'
<1>1. UNCHANGED <<teardown, sky>>
  BY DEF DeployFunction, SeedInstance
<1>2. \A j \in DOMAIN instances : j \in DOMAIN instances' /\ instances'[j] = instances[j]
  <2>1. ASSUME NEW i \in FnMillis, NEW t \in InstMillis, NEW g \in Routines,
               DeployFunction(i, t, g)
        PROVE  \A j \in DOMAIN instances : j \in DOMAIN instances' /\ instances'[j] = instances[j]
    <3>1. Deployed(t, g) /\ NeverUsed(t)
      BY <2>1, DeployFunctionEffect
    <3>2. QED
      BY <3>1 DEF Deployed, NeverUsed
  <2>2. ASSUME NEW t \in InstMillis, NEW c \in Clusters \cup {NoCluster}, NEW via \in SeedVias,
               SeedInstance(t, c, via)
        PROVE  \A j \in DOMAIN instances : j \in DOMAIN instances' /\ instances'[j] = instances[j]
    <3>1. Seeded(t, c, via) /\ NeverUsed(t)
      BY <2>2, SeedEffect
    <3>2. QED
      BY <3>1 DEF Seeded, NeverUsed
  <2>3. QED
    BY <2>1, <2>2
<1>3. \A h \in Routines : deploy[h].cluster \in Clusters => deploy'[h] = deploy[h]
  <2>1. ASSUME NEW i \in FnMillis, NEW t \in InstMillis, NEW g \in Routines,
               DeployFunction(i, t, g)
        PROVE  \A h \in Routines : deploy[h].cluster \in Clusters => deploy'[h] = deploy[h]
    <3>1. Deployed(t, g)
      BY <2>1, DeployFunctionEffect
    <3>2. deploy[g].cluster = NoCluster
      BY <2>1, RoutineFacts DEF DeployFunction, RoutineOK, ActivePcs
    <3>3. QED
      BY <3>1, <3>2, NoClusterIsNone DEF Deployed
  <2>2. QED
    BY <2>1 DEF SeedInstance
<1>4. SUFFICES ASSUME NEW c \in sky PROVE (Logged(c) \/ AtWork(c) \/ Kept(c))'
  BY <1>1 DEF Accounted
<1>5. c \in Clusters
  BY DEF ShapeInv, OutsideOK
<1>6. Logged(c) => Logged(c)'
  BY <1>1 DEF Logged
<1>7. AtWork(c) => AtWork(c)'
  BY <1>1, <1>3, <1>5 DEF AtWork
<1>8. Kept(c) => Kept(c)'
  BY <1>1, <1>2, KeptStays
<1>9. QED
  BY <1>6, <1>7, <1>8 DEF Accounted

\* A deployment that names its cluster had none, and neither had its instance.
LEMMA NameClusterAccounts ==
  ASSUME ShapeInv, RoutinesRecorded, Accounted, NEW g \in Routines, NameCluster(g)
  PROVE  Accounted'
<1>1. PICK n \in Clusters :
        /\ DOMAIN instances' = DOMAIN instances
        /\ \A i \in DOMAIN instances :
             IF i = deploy[g].inst
             THEN instances'[i] = [status |-> "deploying", endpoint |-> NoEndpoint,
                                   sky |-> n, via |-> "skypilot"]
             ELSE instances'[i] = instances[i]
        /\ deploy[g].pc = "start"
        /\ \A h \in Routines : h # g => deploy'[h] = deploy[h]
  BY NameClusterEffect
<1>2. UNCHANGED <<teardown, sky>>
  BY DEF NameCluster
<1>3. deploy[g].cluster = NoCluster /\ instances[deploy[g].inst].sky = NoCluster
  BY <1>1, RoutineFacts DEF RoutineOK, RoutinesRecorded, ActivePcs
<1> SUFFICES ASSUME NEW c \in sky PROVE (Logged(c) \/ AtWork(c) \/ Kept(c))'
  BY <1>2 DEF Accounted
<1>4. c # NoCluster
  BY NoClusterIsNone DEF ShapeInv, OutsideOK
<1>5. Logged(c) => Logged(c)'
  BY <1>2 DEF Logged
<1>6. AtWork(c) => AtWork(c)'
  BY <1>1, <1>2, <1>3, <1>4 DEF AtWork
<1>7. \A i \in DOMAIN instances : instances[i].sky = c =>
        i \in DOMAIN instances' /\ instances'[i].sky = c
  BY <1>1, <1>3, <1>4
<1>8. Kept(c) => Kept(c)'
  BY <1>2, <1>7, KeptStays
<1>9. QED
  BY <1>5, <1>6, <1>8 DEF Accounted

LEMMA AdvanceAccounts ==
  ASSUME ShapeInv, Accounted, NEW g \in Routines,
         WriteTask(g) \/ ClusterComesUp(g) \/ LaunchSucceeds(g) \/ AttemptFails(g)
           \/ AllocatePort(g) \/ StartForward(g)
  PROVE  Accounted'
<1>1. /\ \A h \in Routines : h # g => deploy'[h] = deploy[h]
      /\ deploy'[g].cluster = deploy[g].cluster
  BY AdvanceShape
<1>2. UNCHANGED <<instances, teardown>> /\ sky' \in {sky, sky \cup {deploy[g].cluster}}
  BY DEF WriteTask, ClusterComesUp, LaunchSucceeds, AttemptFails, AllocatePort, StartForward
<1>3. \A c : c \in sky' => c \in sky \/ AtWork(c)'
  BY <1>1, <1>2 DEF AtWork
<1>4. \A c : (Logged(c) => Logged(c)') /\ (AtWork(c) => AtWork(c)') /\ (Kept(c) => Kept(c)')
  BY <1>1, <1>2 DEF Logged, AtWork, Kept, BeingRemoved
<1>5. QED
  BY <1>3, <1>4 DEF Accounted, Logged, AtWork, Kept

\* A deployment that returns leaves its cluster to its instance.
LEMMA ReturnAccounts ==
  ASSUME ShapeInv, RoutinesRecorded, RemovalsSettled, Accounted, NEW g \in Routines,
         DeployFails(g) \/ ReportEndpoint(g)
  PROVE  Accounted'
<1>1. /\ \A h \in Routines : h # g => deploy'[h] = deploy[h]
      /\ DOMAIN instances' = DOMAIN instances
      /\ \A i \in DOMAIN instances :
           IF i = deploy[g].inst THEN instances'[i].sky = deploy[g].cluster
                                 ELSE instances'[i] = instances[i]
  BY ReturnShape
<1>2. UNCHANGED <<teardown, sky>> /\ deploy[g].pc \in ActivePcs
  BY DEF DeployFails, ReportEndpoint, ActivePcs
<1>3. /\ deploy[g].inst \in DOMAIN instances
      /\ instances[deploy[g].inst].sky = deploy[g].cluster
      /\ ~ BeingRemoved(deploy[g].inst)
  BY <1>2 DEF RoutinesRecorded, RemovalsSettled, BeingRemoved
<1> SUFFICES ASSUME NEW c \in sky PROVE (Logged(c) \/ AtWork(c) \/ Kept(c))'
  BY <1>2 DEF Accounted
<1>4. Logged(c) => Logged(c)'
  BY <1>2 DEF Logged
<1>5. \A i \in DOMAIN instances : instances'[i].sky = instances[i].sky
  BY <1>1, <1>3
<1>6. Kept(c) => Kept(c)'
  BY <1>1, <1>2, <1>5, KeptStays
<1>7. AtWork(c) => AtWork(c)' \/ Kept(c)
  BY <1>1, <1>2, <1>3 DEF AtWork, Kept
<1>8. QED
  BY <1>4, <1>6, <1>7 DEF Accounted

\* A DELETE that begins takes the cluster over from the instance, or finds it
\* in the log.
LEMMA BeginDeleteAccounts ==
  ASSUME ShapeInv, ManualLogged, Accounted,
         NEW d \in Teardowns, NEW i \in InstMillis, BeginDelete(d, i)
  PROVE  Accounted'
<1>1. /\ teardown'[d].inst = i
      /\ instances[i].via = "skypilot" /\ instances[i].sky # NoCluster =>
           teardown'[d].down = "pending" /\ teardown'[d].cluster = instances[i].sky
      /\ \A e \in Teardowns : e # d => teardown'[e] = teardown[e]
  BY BeginDeleteShape
<1>2. UNCHANGED <<instances, deploy, sky>> /\ teardown[d].down = "none"
  BY DEF BeginDelete, ShapeInv, TeardownsOK, TeardownOK
<1> SUFFICES ASSUME NEW c \in sky PROVE (Logged(c) \/ AtWork(c) \/ Kept(c))'
  BY <1>2 DEF Accounted
<1>3. c # NoCluster
  BY NoClusterIsNone DEF ShapeInv, OutsideOK
<1>4. Logged(c) => Logged(c)'
  BY <1>1, <1>2 DEF Logged
<1>5. AtWork(c) => AtWork(c)'
  BY <1>1, <1>2 DEF AtWork
<1>6. ASSUME Kept(c)
      PROVE  (Logged(c) \/ AtWork(c) \/ Kept(c))'
  <2>1. PICK j \in DOMAIN instances : instances[j].sky = c /\ ~ BeingRemoved(j)
    BY <1>6 DEF Kept
  <2>2. CASE j # i
    BY <1>1, <1>2, <2>1, <2>2 DEF Kept, BeingRemoved
  <2>3. CASE j = i /\ instances[i].via = "skypilot"
    BY <1>1, <1>3, <2>1, <2>3 DEF AtWork
  <2>4. CASE j = i /\ instances[i].via # "skypilot"
    BY <1>3, <1>4, <2>1, <2>4 DEF ManualLogged
  <2>5. QED
    BY <2>2, <2>3, <2>4
<1>7. QED
  BY <1>4, <1>5, <1>6 DEF Accounted

\* The record that goes was being removed, and did not count.
LEMMA EndDeleteAccounts ==
  ASSUME ShapeInv, Accounted, NEW d \in Teardowns, EndDelete(d)
  PROVE  Accounted'
<1>1. /\ DOMAIN instances' = DOMAIN instances \ {teardown[d].inst}
      /\ \A i \in DOMAIN instances' : instances'[i] = instances[i]
      /\ teardown[d].pc = "removing"
      /\ teardown'[d].pc = "done"
      /\ teardown'[d].inst = teardown[d].inst
      /\ teardown'[d].cluster = teardown[d].cluster
      /\ teardown'[d].down = teardown[d].down
      /\ \A e \in Teardowns : e # d => teardown'[e] = teardown[e]
  BY EndDeleteEffect
<1>2. UNCHANGED <<deploy, sky>>
  BY DEF EndDelete
<1> SUFFICES ASSUME NEW c \in sky PROVE (Logged(c) \/ AtWork(c) \/ Kept(c))'
  BY <1>2 DEF Accounted
<1>3. (Logged(c) => Logged(c)') /\ (AtWork(c) => AtWork(c)')
  BY <1>1, <1>2 DEF Logged, AtWork
<1>4. ASSUME Kept(c)
      PROVE  Kept(c)'
  <2>1. PICK j \in DOMAIN instances : instances[j].sky = c /\ ~ BeingRemoved(j)
    BY <1>4 DEF Kept
  <2>2. j \in DOMAIN instances' /\ instances'[j].sky = c
    BY <1>1, <2>1 DEF BeingRemoved
  <2>3. ~ BeingRemoved(j)'
    BY <1>1, <2>1 DEF BeingRemoved
  <2>4. QED
    BY <2>2, <2>3 DEF Kept
<1>5. QED
  BY <1>3, <1>4 DEF Accounted

\* A `sky down` that ends took its cluster away, or is in the log.
LEMMA SkyDownAccounts ==
  ASSUME ShapeInv, Accounted, NEW d \in Teardowns, SkyDownSucceeds(d) \/ SkyDownFails(d)
  PROVE  Accounted'
<1>1. /\ UNCHANGED instances
      /\ teardown[d].down = "pending"
      /\ teardown'[d].pc = teardown[d].pc
      /\ teardown'[d].inst = teardown[d].inst
      /\ teardown'[d].cluster = teardown[d].cluster
      /\ \/ teardown'[d].down = "failed" /\ sky' = sky
         \/ teardown'[d].down = "ok" /\ sky' = sky \ {teardown[d].cluster}
      /\ \A e \in Teardowns : e # d => teardown'[e] = teardown[e]
  BY SkyDownEffect
<1>2. UNCHANGED deploy
  BY DEF SkyDownSucceeds, SkyDownFails
<1> SUFFICES ASSUME NEW c \in sky, c \in sky' PROVE (Logged(c) \/ AtWork(c) \/ Kept(c))'
  BY <1>1 DEF Accounted
<1>3. Logged(c) => Logged(c)'
  BY <1>1 DEF Logged
<1>4. AtWork(c) => AtWork(c)' \/ Logged(c)'
  BY <1>1, <1>2 DEF AtWork, Logged
<1>5. Kept(c) => Kept(c)'
  BY <1>1 DEF Kept, BeingRemoved
<1>6. QED
  BY <1>3, <1>4, <1>5 DEF Accounted

LEMMA AccountedStep ==
  ASSUME ShapeInv, RoutinesRecorded, RemovalsSettled, ManualLogged, Accounted,
         DistinctInstIds, [Next]_vars, ~ (ProcessDies /\ ManagerLost)
  PROVE  Accounted'
<1>1. ASSUME NEW i \in InstMillis, PatchInstance(i)
      PROVE  Accounted'
  <2>1. /\ DOMAIN instances' = DOMAIN instances
        /\ \A j \in DOMAIN instances : instances'[j].sky = instances[j].sky
    BY <1>1, PatchShape
  <2>2. UNCHANGED <<deploy, teardown, sky>>
    BY <1>1 DEF PatchInstance
  <2>3. QED
    BY <2>1, <2>2 DEF Accounted, Logged, AtWork, Kept, BeingRemoved
<1>2. ASSUME NEW g \in Routines, DeployStep(g)
      PROVE  Accounted'
  BY <1>2, NameClusterAccounts, AdvanceAccounts, ReturnAccounts DEF DeployStep
<1>3. ASSUME NEW d \in Teardowns, TeardownStep(d)
      PROVE  Accounted'
  BY <1>3, EndDeleteAccounts, SkyDownAccounts DEF TeardownStep
<1>4. CASE Request
  BY <1>1, <1>4, NewInstanceAccounts, BeginDeleteAccounts DEF Request
<1>5. CASE UNCHANGED managerVars
  BY <1>5 DEF managerVars, Accounted, Logged, AtWork, Kept, BeingRemoved
<1>6. QED
  BY <1>2, <1>3, <1>4, <1>5 DEF Next, vars

LEMMA AccountInit == Init => RoutinesRecorded /\ RemovalsSettled /\ AccountInv
  BY EmptyMapEntries
  DEF Init, RoutinesRecorded, RemovalsSettled, AccountInv, ManualLogged, Accounted,
      IdleRoutine, IdleTeardown, ActivePcs

LEMMA AccountImplies == AccountInv => NoOrphan
  BY DEF AccountInv, Alive, NoOrphan, Accounted, Logged, AtWork, Kept, Owned

\* As long as the process lives, every cluster SkyPilot has is owned by an
\* instance, a deployment or a teardown, or named in the log by a failed
\* teardown: provided that clients leave deploying instances alone, that no
\* two instances are created in one millisecond, and that nobody seeds a cluster
\* that has an owner already. Names of clusters may collide.
THEOREM NoClusterIsOrphaned ==
  ASSUME DistinctInstIds, PatientClients, CarefulSeeds
  PROVE  Spec => []NoOrphan
<1> DEFINE Inv == ShapeInv /\ OneRoutine /\ RoutinesRecorded /\ RemovalsSettled /\ AccountInv
<1>1. Init => Inv
  BY ShapeInit, OneRoutineInit, AccountInit
<1>2. Inv /\ [Next]_vars => Inv'
  <2> SUFFICES ASSUME Inv, [Next]_vars PROVE Inv'
    OBVIOUS
  <2>1. ShapeInv' /\ OneRoutine' /\ RoutinesRecorded' /\ RemovalsSettled'
    BY ShapeStep, OneRoutineStep, RoutinesRecordedStep, RemovalsSettledStep
  <2>2. ASSUME Alive'
        PROVE  ManualLogged' /\ Accounted'
    <3>1. Alive /\ ~ (ProcessDies /\ ManagerLost)
      BY <2>2, AliveBefore
    <3>2. QED
      BY <3>1, ManualLoggedStep, AccountedStep DEF AccountInv
  <2>3. QED
    BY <2>1, <2>2 DEF AccountInv
<1>3. Inv => NoOrphan
  BY AccountImplies
<1> HIDE DEF Inv
<1>4. QED
  BY <1>1, <1>2, <1>3, PTL DEF Spec
-----------------------------------------------------------------------------
(* The lifecycle of an instance *)

\* An instance that is listed shows "deploying" while its deployment runs.
Deploying == \A g \in Routines :
  deploy[g].pc \in ActivePcs /\ deploy[g].inst \in DOMAIN instances
    => instances[deploy[g].inst].status = "deploying"

\* Nobody patches the status of an instance whose deployment is under way, for a
\* callback would take such an outcome back, and nobody patches an outcome back
\* to "deploying". The PATCH handler accepts both.
OutcomesStand == PatchStatuses = {} \/ (PatientClients /\ "deploying" \notin PatchStatuses)

LEMMA SettledIsNotDeploying == "deploying" \notin Settled
  BY DEF Settled

LEMMA DeployingStep ==
  ASSUME ShapeInv, OneRoutine, Deploying, DistinctInstIds, OutcomesStand, [Next]_vars
  PROVE  Deploying'
<1>1. ASSUME NEW i \in FnMillis, NEW t \in InstMillis, NEW g \in Routines,
             DeployFunction(i, t, g)
      PROVE  Deploying'
  <2>1. Deployed(t, g) /\ NeverUsed(t)
    BY <1>1, DeployFunctionEffect
  <2>2. QED
    BY <2>1 DEF Deployed, NeverUsed, Deploying
<1>2. ASSUME NEW i \in InstMillis, PatchInstance(i)
      PROVE  Deploying'
  <2>1. /\ DOMAIN instances' = DOMAIN instances
        /\ \A j \in DOMAIN instances : j # i => instances'[j] = instances[j]
        /\ instances'[i].status \in PatchStatuses \cup {instances[i].status}
    BY <1>2, PatchShape
  <2>2. UNCHANGED deploy /\ (PatientClients => instances[i].status # "deploying")
    BY <1>2 DEF PatchInstance, MayTouch
  <2>3. QED
    BY <2>1, <2>2 DEF Deploying, OutcomesStand
<1>3. ASSUME NEW t \in InstMillis, NEW c \in Clusters \cup {NoCluster}, NEW via \in SeedVias,
             SeedInstance(t, c, via)
      PROVE  Deploying'
  <2>1. Seeded(t, c, via) /\ NeverUsed(t)
    BY <1>3, SeedEffect
  <2>2. UNCHANGED deploy
    BY <1>3 DEF SeedInstance
  <2>3. QED
    BY <2>1, <2>2 DEF Seeded, NeverUsed, Deploying
<1>4. ASSUME NEW d \in Teardowns, TeardownStep(d)
      PROVE  Deploying'
  <2>1. /\ DOMAIN instances' \subseteq DOMAIN instances
        /\ \A i \in DOMAIN instances' : instances'[i] = instances[i]
    BY <1>4, TeardownShape
  <2>2. UNCHANGED deploy
    BY <1>4 DEF TeardownStep, EndDelete, SkyDownSucceeds, SkyDownFails
  <2>3. QED
    BY <2>1, <2>2 DEF Deploying
<1>5. ASSUME NEW g \in Routines, NameCluster(g)
      PROVE  Deploying'
  <2>1. PICK c \in Clusters :
          /\ DOMAIN instances' = DOMAIN instances
          /\ \A i \in DOMAIN instances :
               IF i = deploy[g].inst
               THEN instances'[i] = [status |-> "deploying", endpoint |-> NoEndpoint,
                                     sky |-> c, via |-> "skypilot"]
               ELSE instances'[i] = instances[i]
          /\ deploy'[g].inst = deploy[g].inst
          /\ \A h \in Routines : h # g => deploy'[h] = deploy[h]
    BY <1>5, NameClusterEffect
  <2>2. \A i \in DOMAIN instances :
          instances'[i].status = "deploying" \/ (instances'[i] = instances[i] /\ i # deploy[g].inst)
    BY <2>1
  <2>3. QED
    BY <2>1, <2>2 DEF Deploying
<1>6. ASSUME NEW g \in Routines,
             WriteTask(g) \/ ClusterComesUp(g) \/ LaunchSucceeds(g) \/ AttemptFails(g)
               \/ AllocatePort(g) \/ StartForward(g)
      PROVE  Deploying'
  <2>1. UNCHANGED instances
    BY <1>6 DEF WriteTask, ClusterComesUp, LaunchSucceeds, AttemptFails, AllocatePort, StartForward
  <2>2. /\ \A h \in Routines : h # g => deploy'[h] = deploy[h]
        /\ deploy'[g].inst = deploy[g].inst
        /\ deploy[g].pc \in ActivePcs
    BY <1>6, AdvanceShape
  <2>3. QED
    BY <2>1, <2>2 DEF Deploying
<1>7. ASSUME NEW g \in Routines, DeployFails(g) \/ ReportEndpoint(g)
      PROVE  Deploying'
  <2>1. /\ deploy'[g] = Returned
        /\ \A h \in Routines : h # g => deploy'[h] = deploy[h]
        /\ DOMAIN instances' = DOMAIN instances
        /\ \A i \in DOMAIN instances :
             IF i = deploy[g].inst THEN instances'[i].sky = deploy[g].cluster
                                   ELSE instances'[i] = instances[i]
    BY <1>7, ReturnShape
  <2>2. deploy[g].pc \in ActivePcs /\ Returned.pc \notin ActivePcs
    BY <1>7 DEF DeployFails, ReportEndpoint, ActivePcs, Returned, IdleRoutine
  <2>3. \A h \in Routines : h # g /\ deploy[h].pc \in ActivePcs => deploy[h].inst # deploy[g].inst
    BY <2>2 DEF OneRoutine
  <2>4. QED
    BY <2>1, <2>2, <2>3 DEF Deploying
<1>8. CASE ProcessDies /\ ManagerLost
  BY <1>8, LostShape DEF Deploying
<1>9. CASE UNCHANGED <<deploy, instances>>
  BY <1>9 DEF Deploying
<1>10. QED
  BY <1>1, <1>2, <1>3, <1>4, <1>5, <1>6, <1>7, <1>8, <1>9
  DEF Next, Request, BeginDelete, DeployStep, managerVars, vars

LEMMA DeployingInit == Init => Deploying
  BY DEF Init, Deploying, IdleRoutine, ActivePcs

LEMMA PhaseInit == Init => Lifecycle!LifecycleInit
<1> SUFFICES ASSUME Init PROVE Phase = [i \in InstMillis |-> "none"]
  BY DEF Lifecycle!LifecycleInit
<1>1. \A i \in InstMillis : i \notin DOMAIN instances
  BY EmptyMapEntries DEF Init
<1>2. \A i \in InstMillis : i \notin instIssued
  BY DEF Init
<1>3. QED
  BY <1>1, <1>2 DEF Phase

\* A step that keeps the records, and which of them are deploying, is invisible.
LEMMA PhaseStays ==
  ASSUME instIssued' = instIssued, DOMAIN instances' = DOMAIN instances,
         \A i \in DOMAIN instances :
           instances'[i].status = "deploying" <=> instances[i].status = "deploying"
  PROVE  Phase' = Phase
  BY DEF Phase

\* A new record takes an identifier that was never handed out.
LEMMA PhaseHandOut ==
  ASSUME ShapeInv, NEW t \in InstMillis, t \notin instIssued, instIssued' = instIssued \cup {t},
         DOMAIN instances' = DOMAIN instances \cup {t},
         \A j \in DOMAIN instances : j # t => instances'[j] = instances[j],
         NEW p, p = IF instances'[t].status = "deploying" THEN "deploying" ELSE "settled"
  PROVE  Lifecycle!HandOut(t, p)
<1>1. t \notin DOMAIN instances
  BY UnreachedIsUnused DEF NeverUsed
<1>2. Phase[t] = "none"
  BY <1>1 DEF Phase
<1>3. Phase'[t] = p
  BY DEF Phase
<1>4. ASSUME NEW j \in InstMillis, j # t
      PROVE  Phase'[j] = Phase[j]
  <2>1. CASE j \in DOMAIN instances
    BY <1>4, <2>1 DEF Phase
  <2>2. CASE j \notin DOMAIN instances
    BY <1>4, <2>2 DEF Phase
  <2>3. QED
    BY <2>1, <2>2
<1>5. Phase' = [Phase EXCEPT ![t] = p]
  <2>1. Phase' = [j \in InstMillis |-> Phase'[j]] /\ Phase = [j \in InstMillis |-> Phase[j]]
    BY DEF Phase
  <2>2. QED
    BY <1>3, <1>4, <2>1
<1>6. QED
  BY <1>2, <1>5 DEF Lifecycle!HandOut

\* The last callback settles the instance, or comes for one that is gone.
LEMMA PhaseReturn ==
  ASSUME ShapeInv, Deploying, NEW g \in Routines, DeployFails(g) \/ ReportEndpoint(g)
  PROVE  (\E i \in InstMillis : Lifecycle!Settle(i)) \/ Phase' = Phase
<1> DEFINE i == deploy[g].inst
<1>1. /\ DOMAIN instances' = DOMAIN instances
      /\ \A j \in DOMAIN instances :
           IF j = i THEN instances'[j].status \in Settled ELSE instances'[j] = instances[j]
  BY ReturnShape
<1>2. /\ instIssued' = instIssued
      /\ i \in DOMAIN instances => instances[i].status = "deploying"
  BY DEF DeployFails, ReportEndpoint, Deploying, ActivePcs
<1>3. CASE i \notin DOMAIN instances
  BY <1>1, <1>2, <1>3, PhaseStays
<1>4. CASE i \in DOMAIN instances
  <2>1. i \in InstMillis /\ instances'[i].status # "deploying"
    BY <1>1, <1>4, SettledIsNotDeploying DEF ShapeInv, InstancesOK
  <2>2. Phase[i] = "deploying" /\ Phase'[i] = "settled"
    BY <1>1, <1>2, <1>4, <2>1 DEF Phase
  <2>3. \A j \in InstMillis : j # i => Phase'[j] = Phase[j]
    BY <1>1, <1>2 DEF Phase
  <2>4. Phase' = [Phase EXCEPT ![i] = "settled"]
    <3>1. Phase' = [j \in InstMillis |-> Phase'[j]] /\ Phase = [j \in InstMillis |-> Phase[j]]
      BY DEF Phase
    <3>2. QED
      BY <2>2, <2>3, <3>1
  <2>5. QED
    BY <2>1, <2>2, <2>4 DEF Lifecycle!Settle
<1>5. QED
  BY <1>3, <1>4

\* The removal of a record, which another DELETE may have removed already.
LEMMA PhaseEndDelete ==
  ASSUME ShapeInv, NEW d \in Teardowns, EndDelete(d)
  PROVE  (\E i \in InstMillis : Lifecycle!Remove(i)) \/ Phase' = Phase
<1> DEFINE i == teardown[d].inst
<1>1. /\ DOMAIN instances' = DOMAIN instances \ {i}
      /\ \A j \in DOMAIN instances' : instances'[j] = instances[j]
  BY EndDeleteEffect
<1>2. instIssued' = instIssued
  BY DEF EndDelete
<1>3. CASE i \notin DOMAIN instances
  <2>1. DOMAIN instances' = DOMAIN instances
    BY <1>1, <1>3
  <2>2. QED
    BY <1>1, <1>2, <2>1, PhaseStays
<1>4. CASE i \in DOMAIN instances
  <2>1. i \in InstMillis /\ i \in instIssued
    BY <1>4 DEF ShapeInv, InstancesOK
  <2>2. i \notin DOMAIN instances'
    BY <1>1
  <2>3. Phase[i] \in Lifecycle!Live /\ Phase'[i] = "gone"
    BY <1>2, <1>4, <2>1, <2>2 DEF Phase, Lifecycle!Live
  <2>4. \A j \in InstMillis : j # i => Phase'[j] = Phase[j]
    BY <1>1, <1>2 DEF Phase
  <2>5. Phase' = [Phase EXCEPT ![i] = "gone"]
    <3>1. Phase' = [j \in InstMillis |-> Phase'[j]] /\ Phase = [j \in InstMillis |-> Phase[j]]
      BY DEF Phase
    <3>2. QED
      BY <2>3, <2>4, <3>1
  <2>6. QED
    BY <2>1, <2>3, <2>5 DEF Lifecycle!Remove
<1>5. QED
  BY <1>3, <1>4

\* The manager forgets its instances when it dies.
LEMMA PhaseLost ==
  ASSUME ShapeInv, ProcessDies, ManagerLost
  PROVE  Lifecycle!Forget
<1>1. DOMAIN instances' = {}
  BY LostShape
<1>2. instIssued' = instIssued
  BY DEF ManagerLost
<1>3. \A i \in DOMAIN instances : i \in instIssued
  BY DEF ShapeInv, InstancesOK
<1>4. ASSUME NEW i \in InstMillis
      PROVE  Phase'[i] = IF Phase[i] \in Lifecycle!Live THEN "gone" ELSE Phase[i]
  BY <1>2, <1>1, <1>3 DEF Phase, Lifecycle!Live
<1>5. Phase' = [i \in InstMillis |-> Phase'[i]]
  BY DEF Phase
<1>6. QED
  BY <1>4, <1>5 DEF Lifecycle!Forget

LEMMA PhaseStep ==
  ASSUME ShapeInv, OneRoutine, Deploying, DistinctInstIds, OutcomesStand, [Next]_vars
  PROVE  Lifecycle!LifecycleNext \/ Phase' = Phase
<1>1. ASSUME NEW i \in FnMillis, NEW t \in InstMillis, NEW g \in Routines,
             DeployFunction(i, t, g)
      PROVE  Lifecycle!HandOut(t, "deploying")
  <2>1. Deployed(t, g) /\ t \notin instIssued
    BY <1>1, DeployFunctionEffect
  <2>2. QED
    BY <2>1, PhaseHandOut DEF Deployed
<1>2. ASSUME NEW i \in InstMillis, PatchInstance(i)
      PROVE  Phase' = Phase
  <2>1. /\ DOMAIN instances' = DOMAIN instances
        /\ \A j \in DOMAIN instances : j # i => instances'[j] = instances[j]
        /\ instances'[i].status \in PatchStatuses \cup {instances[i].status}
    BY <1>2, PatchShape
  <2>2. PatientClients => instances[i].status # "deploying"
    BY <1>2 DEF PatchInstance, MayTouch
  <2>3. instIssued' = instIssued
    BY <1>2 DEF PatchInstance
  <2>4. PatchStatuses = {} \/ (PatientClients /\ "deploying" \notin PatchStatuses)
    BY DEF OutcomesStand
  <2>5. instances'[i].status = "deploying" <=> instances[i].status = "deploying"
    BY <2>1, <2>2, <2>4
  <2>6. QED
    BY <2>1, <2>3, <2>5, PhaseStays
<1>3. ASSUME NEW t \in InstMillis, NEW c \in Clusters \cup {NoCluster}, NEW via \in SeedVias,
             SeedInstance(t, c, via)
      PROVE  Lifecycle!HandOut(t, "settled")
  <2>1. Seeded(t, c, via) /\ t \notin instIssued
    BY <1>3, SeedEffect
  <2>2. QED
    BY <2>1, PhaseHandOut DEF Seeded
<1>4. ASSUME NEW g \in Routines, NameCluster(g)
      PROVE  Phase' = Phase
  <2>1. PICK c \in Clusters :
          /\ DOMAIN instances' = DOMAIN instances
          /\ \A i \in DOMAIN instances :
               IF i = deploy[g].inst
               THEN instances'[i] = [status |-> "deploying", endpoint |-> NoEndpoint,
                                     sky |-> c, via |-> "skypilot"]
               ELSE instances'[i] = instances[i]
          /\ deploy[g].pc = "start"
    BY <1>4, NameClusterEffect
  <2>2. deploy[g].inst \in DOMAIN instances => instances[deploy[g].inst].status = "deploying"
    BY <2>1 DEF Deploying, ActivePcs
  <2>3. \A i \in DOMAIN instances :
          instances'[i].status = "deploying" <=> instances[i].status = "deploying"
    BY <2>1, <2>2
  <2>4. instIssued' = instIssued
    BY <1>4 DEF NameCluster
  <2>5. QED
    BY <2>1, <2>3, <2>4, PhaseStays
<1>5. ASSUME NEW d \in Teardowns, TeardownStep(d)
      PROVE  (\E i \in InstMillis : Lifecycle!Remove(i)) \/ Phase' = Phase
  BY <1>5, PhaseEndDelete, PhaseStays DEF TeardownStep, SkyDownSucceeds, SkyDownFails
<1>6. ASSUME UNCHANGED <<instIssued, instances>>
      PROVE  Phase' = Phase
  BY <1>6, PhaseStays
<1>7. CASE ProcessDies /\ ManagerLost
  BY <1>7, PhaseLost DEF Lifecycle!LifecycleNext
<1>8. CASE Request
  BY <1>1, <1>2, <1>3, <1>6, <1>8 DEF Request, BeginDelete, Lifecycle!LifecycleNext
<1>9. ASSUME NEW g \in Routines, DeployStep(g)
      PROVE  (\E i \in InstMillis : Lifecycle!Settle(i)) \/ Phase' = Phase
  BY <1>4, <1>6, <1>9, PhaseReturn
  DEF DeployStep, WriteTask, ClusterComesUp, LaunchSucceeds, AttemptFails, AllocatePort,
      StartForward
<1>10. CASE UNCHANGED managerVars
  BY <1>6, <1>10 DEF managerVars
<1>11. QED
  BY <1>5, <1>7, <1>8, <1>9, <1>10 DEF Next, vars, Lifecycle!LifecycleNext

\* What a client sees of an instance implements the abstract lifecycle, under
\* all interleavings of callbacks, PATCH, DELETE and crashes: provided that no
\* two instances are created in one millisecond and that no client patches the
\* status of an instance whose deployment is under way, or any back to
\* "deploying".
THEOREM InstancesImplementLifecycle ==
  ASSUME DistinctInstIds, OutcomesStand
  PROVE  Spec => ImplementsLifecycle
<1> DEFINE Inv == ShapeInv /\ OneRoutine /\ Deploying
<1>1. Init => Inv
  BY ShapeInit, OneRoutineInit, DeployingInit
<1>2. Inv /\ [Next]_vars => Inv'
  BY ShapeStep, OneRoutineStep, DeployingStep
<1>3. Inv /\ [Next]_vars => [Lifecycle!LifecycleNext]_Phase
  BY PhaseStep
<1> HIDE DEF Inv
<1>4. QED
  BY <1>1, <1>2, <1>3, PhaseInit, PTL DEF Spec, ImplementsLifecycle, Lifecycle!LifecycleSpec
=============================================================================
