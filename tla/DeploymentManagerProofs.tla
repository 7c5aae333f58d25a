----------------------- MODULE DeploymentManagerProofs -----------------------
(***************************************************************************)
(* Proofs about DeploymentManager, for every set of deployments, tenants   *)
(* and names, whatever names share a file or a service, and whether or not *)
(* two deployments may get one identifier, unless a theorem says so.       *)
(***************************************************************************)
EXTENDS DeploymentManager, TLAPS

\* A file that was written stays.
DeployInv ==
  /\ DeploymentsTypeOK
  /\ \A o \in Known : deployment[o].bridge = "written" => File(o) \in DOMAIN yaml

LEMMA DeployInvInit == DeploymentsInit => DeployInv
  BY DEF DeploymentsInit, DeployInv, DeploymentsTypeOK, EmptyMap, Known

\* A new object is not known yet, and leaves the others alone.
LEMMA Created ==
  ASSUME DeployInv, NEW i \in Ids, NEW t \in Tenants, NEW n \in Names,
         NEW valid \in BOOLEAN, CreateDeployment(i, t, n, valid)
  PROVE  /\ NewObject \in Objects \ Known
         /\ DOMAIN deployment' = Known \cup {NewObject}
         /\ \A p \in Known : deployment'[p] = deployment[p]
         /\ deployment'[NewObject] = [id |-> i, tenant |-> t, name |-> n, valid |-> valid,
                                     status |-> "deploying", bridge |-> "asked",
                                     waiting |-> TRUE]
         /\ deployment'[NewObject] \in Deployment
<1> DEFINE new == [id |-> i, tenant |-> t, name |-> n, valid |-> valid,
                   status |-> "deploying", bridge |-> "asked", waiting |-> TRUE]
<1>1. NewObject \in Objects \ Known
  <2>1. Known \subseteq Objects /\ Known # Objects
    BY DEF DeployInv, DeploymentsTypeOK, CreateDeployment
  <2>2. \E o \in Objects : o \notin Known
    BY <2>1
  <2> QED
    BY <2>2 DEF NewObject
<1>2. new \in Deployment
  BY DEF Deployment, Stages
<1>3. deployment' = Put(deployment, NewObject, new)
  BY DEF CreateDeployment
<1> QED
  BY <1>1, <1>2, <1>3 DEF Put, Known

\* What every step but a creation does to the records: no more than one changes,
\* and not who it is.
SameButOne(o) ==
  /\ DOMAIN deployment' = Known
  /\ \A p \in Known \ {o} : deployment'[p] = deployment[p]
  /\ deployment'[o].id = deployment[o].id
  /\ deployment'[o].tenant = deployment[o].tenant
  /\ deployment'[o].name = deployment[o].name

LEMMA Ended ==
  ASSUME DeployInv, NEW o \in Known, NEW s \in {"running", "failed"}, Ends(o, s)
  PROVE  /\ SameButOne(o)
         /\ deployment'[o] \in Deployment
         /\ deployment'[o].status = s
         /\ deployment'[o].waiting = FALSE
         /\ deployment'[o].bridge = deployment[o].bridge
<1>1. deployment[o] \in Deployment
  BY DEF DeployInv, DeploymentsTypeOK
<1>2. deployment' = [deployment EXCEPT ![o] = [deployment[o] EXCEPT !.status = s, !.waiting = FALSE]]
  BY DEF Ends
<1> QED
  BY <1>1, <1>2 DEF Deployment, SameButOne, Known

LEMMA Said ==
  ASSUME DeployInv, NEW o \in Known, NEW stage \in Stages, BridgeSays(o, stage)
  PROVE  /\ SameButOne(o)
         /\ deployment'[o] \in Deployment
         /\ deployment'[o].status = deployment[o].status
         /\ deployment'[o].waiting = deployment[o].waiting
         /\ deployment'[o].bridge = stage
<1>1. deployment[o] \in Deployment
  BY DEF DeployInv, DeploymentsTypeOK
<1> QED
  BY <1>1 DEF BridgeSays, Deployment, SameButOne, Known

\* Who a record is stays in all records.
LEMMA SameStays ==
  ASSUME NEW o \in Known, SameButOne(o)
  PROVE  /\ Known' = Known
         /\ \A p \in Known : /\ deployment'[p].id = deployment[p].id
                             /\ deployment'[p].tenant = deployment[p].tenant
                             /\ deployment'[p].name = deployment[p].name
                             /\ File(p)' = File(p)
  BY DEF SameButOne, Known, File

DeleteType(objects) ==
  [Deletes -> {NoDelete} \cup [of : objects, stage : {"asked", "answered", "abandoned"}]]

\* A record changes, but not who it is, and its goroutine ends with its outcome.
LEMMA RecordChanges ==
  ASSUME DeployInv, NEW o \in Known, SameButOne(o), deployment'[o] \in Deployment,
         deployment'[o].status = "deploying" <=> deployment'[o].waiting,
         deployment'[o].bridge = "written" => File(o) \in DOMAIN yaml',
         listed' = listed, delete' = delete,
         DOMAIN yaml \subseteq DOMAIN yaml',
         \A f \in DOMAIN yaml' : yaml'[f] \in Known,
         \A s \in DOMAIN services' : services'[s] \in [runs : Known, size : Known]
  PROVE  DeployInv'
<1>1. Known' = Known /\ \A p \in Known : File(p)' = File(p) /\ deployment'[p].id = deployment[p].id
  BY SameStays
<1>2. \A p \in Known : /\ deployment'[p] \in Deployment
                       /\ deployment'[p].status = "deploying" <=> deployment'[p].waiting
                       /\ deployment'[p].bridge = "written" => File(p)' \in DOMAIN yaml'
  <2>1. ASSUME NEW p \in Known \ {o}
        PROVE  /\ deployment'[p] \in Deployment
               /\ deployment'[p].status = "deploying" <=> deployment'[p].waiting
               /\ deployment'[p].bridge = "written" => File(p)' \in DOMAIN yaml'
    <3>1. deployment'[p] = deployment[p]
      BY DEF SameButOne
    <3> QED
      BY <1>1, <3>1 DEF DeployInv, DeploymentsTypeOK
  <2> QED
    BY <1>1, <2>1
<1>3. /\ \A i \in DOMAIN listed' : listed'[i] \in Known' /\ deployment'[listed'[i]].id = i
      /\ Known' \subseteq Objects
      /\ delete' \in DeleteType(Known')
  BY <1>1 DEF DeployInv, DeploymentsTypeOK, DeleteType
<1>4. DeploymentsTypeOK'
  BY <1>1, <1>2, <1>3 DEF DeploymentsTypeOK, DeleteType, NoDelete
<1> QED
  BY <1>1, <1>2, <1>4 DEF DeployInv

LEMMA DeployInvCreate ==
  ASSUME DeployInv, NEW i \in Ids, NEW t \in Tenants, NEW n \in Names,
         NEW valid \in BOOLEAN, CreateDeployment(i, t, n, valid)
  PROVE  DeployInv'
<1> DEFINE o == NewObject
<1>1. /\ o \in Objects \ Known
      /\ DOMAIN deployment' = Known \cup {o}
      /\ \A p \in Known : deployment'[p] = deployment[p]
      /\ deployment'[o] \in Deployment
  BY Created
<1>10. /\ DOMAIN listed' = DOMAIN listed \cup {i} /\ listed'[i] = o
      /\ \A j \in DOMAIN listed \ {i} : listed'[j] = listed[j]
  BY DEF CreateDeployment, Put
<1>2. /\ deployment'[o].id = i /\ deployment'[o].status = "deploying"
      /\ deployment'[o].waiting = TRUE /\ deployment'[o].bridge = "asked"
  <2>1. deployment'[o] = [id |-> i, tenant |-> t, name |-> n, valid |-> valid,
                        status |-> "deploying", bridge |-> "asked",
                        waiting |-> TRUE]
    BY Created
  <2> QED
    BY <2>1
<1> HIDE DEF o
<1>3. Known' = Known \cup {o} /\ Known' \subseteq Objects
  BY <1>1 DEF Known, DeployInv, DeploymentsTypeOK
<1>4. delete' = delete /\ yaml' = yaml /\ services' = services
  BY DEF CreateDeployment
<1>5. \A p \in Known' : /\ deployment'[p] \in Deployment
                        /\ deployment'[p].status = "deploying" <=> deployment'[p].waiting
                        /\ deployment'[p].bridge = "written" => File(p)' \in DOMAIN yaml'
  <2>1. ASSUME NEW p \in Known
        PROVE  /\ deployment'[p] \in Deployment
               /\ deployment'[p].status = "deploying" <=> deployment'[p].waiting
               /\ deployment'[p].bridge = "written" => File(p)' \in DOMAIN yaml'
    BY <1>1, <1>4 DEF DeployInv, DeploymentsTypeOK, File
  <2> QED
    BY <1>1, <1>2, <1>3, <2>1
<1>6. \A j \in DOMAIN listed' : listed'[j] \in Known' /\ deployment'[listed'[j]].id = j
  <2>1. ASSUME NEW j \in DOMAIN listed \ {i}
        PROVE  listed'[j] \in Known' /\ deployment'[listed'[j]].id = j
    <3>1. listed'[j] = listed[j] /\ listed[j] \in Known /\ deployment[listed[j]].id = j
      BY <1>10 DEF DeployInv, DeploymentsTypeOK
    <3> QED
      BY <1>1, <1>3, <3>1
  <2> QED
    BY <1>10, <1>2, <1>3, <2>1
<1>7. delete' \in DeleteType(Known')
  BY <1>3, <1>4 DEF DeployInv, DeploymentsTypeOK, DeleteType
<1>8. /\ \A f \in DOMAIN yaml' : yaml'[f] \in Known'
      /\ \A m \in DOMAIN services' : services'[m] \in [runs : Known', size : Known']
  BY <1>3, <1>4 DEF DeployInv, DeploymentsTypeOK
<1>9. DeploymentsTypeOK'
  BY <1>3, <1>5, <1>6, <1>7, <1>8 DEF DeploymentsTypeOK, DeleteType, NoDelete
<1> QED
  BY <1>5, <1>9 DEF DeployInv

\* The goroutine's outcome.
LEMMA OutcomeEnds ==
  ASSUME NEW o, Outcome(o)
  PROVE  /\ \E s \in {"running", "failed"} :
              /\ Ends(o, s)
              /\ s = "running" => deployment[o].bridge \notin {"asked", "written", "error"}
         /\ deployment[o].waiting
         /\ UNCHANGED <<listed, delete, yaml, services, downed>>
  BY DEF Outcome, Answered, GivesUp

LEMMA DeployInvOutcome ==
  ASSUME DeployInv, NEW o \in Known, Outcome(o)
  PROVE  DeployInv'
<1>1. PICK s \in {"running", "failed"} : Ends(o, s)
  BY OutcomeEnds
<1>2. UNCHANGED <<listed, delete, yaml, services, downed>>
  BY OutcomeEnds
<1>3. /\ SameButOne(o) /\ deployment'[o] \in Deployment
      /\ deployment'[o].status = s /\ deployment'[o].waiting = FALSE
      /\ deployment'[o].bridge = deployment[o].bridge
  BY <1>1, Ended
<1>4. /\ \A f \in DOMAIN yaml : yaml[f] \in Known
      /\ \A m \in DOMAIN services : services[m] \in [runs : Known, size : Known]
      /\ deployment[o].bridge = "written" => File(o) \in DOMAIN yaml
  BY DEF DeployInv, DeploymentsTypeOK
<1> QED
  BY <1>2, <1>3, <1>4, RecordChanges

\* The steps that only tell how far the bridge is.
LEMMA Tells ==
  ASSUME NEW o, Refuse(o) \/ ServeUpFails(o) \/ CutAnswer(o)
  PROVE  /\ \E stage \in {"refused", "error", "cut"} : BridgeSays(o, stage)
         /\ UNCHANGED <<listed, delete, yaml, services, downed>>
  BY DEF Refuse, ServeUpFails, CutAnswer

\* The bridge's steps for a deployment.
LEMMA DeployInvBridge ==
  ASSUME DeployInv, NEW o \in Known, BridgeStep(o)
  PROVE  DeployInv'
<1>1. /\ \A f \in DOMAIN yaml : yaml[f] \in Known
      /\ \A m \in DOMAIN services : services[m] \in [runs : Known, size : Known]
      /\ deployment[o].status = "deploying" <=> deployment[o].waiting
  BY DEF DeployInv, DeploymentsTypeOK
<1>2. CASE Refuse(o) \/ ServeUpFails(o) \/ CutAnswer(o)
  <2>1. PICK stage \in {"refused", "error", "cut"} : BridgeSays(o, stage)
    BY <1>2, Tells
  <2>2. stage \in Stages /\ stage # "written"
    BY DEF Stages
  <2>3. UNCHANGED <<listed, delete, yaml, services, downed>>
    BY <1>2, Tells
  <2>4. /\ SameButOne(o) /\ deployment'[o] \in Deployment
        /\ deployment'[o].status = deployment[o].status
        /\ deployment'[o].waiting = deployment[o].waiting
        /\ deployment'[o].bridge = stage
    BY <2>1, <2>2, Said
  <2> QED
    BY <1>1, <2>2, <2>3, <2>4, RecordChanges
<1>3. CASE WriteYAML(o)
  <2>1. /\ BridgeSays(o, "written") /\ yaml' = Put(yaml, File(o), o)
        /\ UNCHANGED <<listed, delete, services, downed>>
    BY <1>3 DEF WriteYAML
  <2>2. /\ DOMAIN yaml' = DOMAIN yaml \cup {File(o)}
        /\ \A f \in DOMAIN yaml' : yaml'[f] \in Known
    BY <1>1, <2>1 DEF Put
  <2>3. /\ SameButOne(o) /\ deployment'[o] \in Deployment
        /\ deployment'[o].status = deployment[o].status
        /\ deployment'[o].waiting = deployment[o].waiting
    BY <2>1, Said DEF Stages
  <2> QED
    BY <1>1, <2>1, <2>2, <2>3, RecordChanges
<1>4. CASE ServeUp(o)
  <2> DEFINE n == deployment[o].name
             written == yaml[File(o)]
  <2>1. PICK stage \in {"up", "error"} : BridgeSays(o, stage)
    BY <1>4 DEF ServeUp
  <2>2. stage \in Stages /\ stage # "written"
    BY DEF Stages
  <2>3. /\ services' = Put(services, n, [runs |-> written, size |-> written])
        /\ UNCHANGED <<listed, delete, yaml, downed>>
    BY <1>4 DEF ServeUp
  <2>4. written \in Known
    BY <1>1, <1>4 DEF ServeUp, DeployInv
  <2>5. \A m \in DOMAIN services' : services'[m] \in [runs : Known, size : Known]
    <3> HIDE DEF n, written
    <3> QED
      BY <1>1, <2>3, <2>4 DEF Put
  <2>6. /\ SameButOne(o) /\ deployment'[o] \in Deployment
        /\ deployment'[o].status = deployment[o].status
        /\ deployment'[o].waiting = deployment[o].waiting
        /\ deployment'[o].bridge = stage
    BY <2>1, <2>2, Said
  <2> QED
    BY <1>1, <2>2, <2>3, <2>5, <2>6, RecordChanges
<1> QED
  BY <1>2, <1>3, <1>4 DEF BridgeStep

\* DELETE and scale leave the records and the files alone; of SkyPilot's
\* services they take one away, or its size is somebody else's.
ServicesOf(o) ==
  {services, Drop(services, ServiceOf(o)), [services EXCEPT ![ServiceOf(o)].size = o]}

LEMMA ServicesTyped ==
  ASSUME DeployInv, NEW o \in Known, services' \in ServicesOf(o)
  PROVE  \A s \in DOMAIN services' :
           /\ s \in DOMAIN services
           /\ services'[s] \in [runs : Known, size : Known]
           /\ services'[s].runs = services[s].runs
<1> DEFINE r == ServiceOf(o)
<1>1. \A s \in DOMAIN services : services[s] \in [runs : Known, size : Known]
  BY DEF DeployInv, DeploymentsTypeOK
<1>2. CASE services' = services
  BY <1>1, <1>2
<1>3. CASE services' = Drop(services, r)
  BY <1>1, <1>3 DEF Drop, Restrict
<1>4. CASE services' = [services EXCEPT ![r].size = o]
  BY <1>1, <1>4
<1> QED
  BY <1>2, <1>3, <1>4 DEF ServicesOf

RequestStep ==
  \/ \E o \in Known : ScaleDeployment(o)
  \/ \E d \in Deletes, i \in DOMAIN listed : BeginDelete(d, i)
  \/ \E d \in Deletes : ServeDown(d) \/ EndDelete(d) \/ DeleteGivesUp(d)

\* What the requests do to the list.
ListStep ==
  \/ listed' = listed
  \/ \E o \in Known : listed' = Drop(listed, deployment[o].id)

\* And to the services: what goes is noted in downed.
ServicesStep ==
  \/ /\ services' = services /\ downed \subseteq downed'
  \/ \E o \in Known : /\ services' = [services EXCEPT ![ServiceOf(o)].size = o]
                      /\ downed' = downed
  \/ \E o \in Known : /\ services' = Drop(services, ServiceOf(o))
                      /\ downed' = downed \cup {ServiceOf(o)}

LEMMA RequestChanges ==
  ASSUME DeployInv, RequestStep
  PROVE  /\ UNCHANGED <<deployment, yaml>>
         /\ ListStep
         /\ delete' \in DeleteType(Known)
         /\ ServicesStep
<1> DEFINE Goal == /\ UNCHANGED <<deployment, yaml>>
                   /\ ListStep
                   /\ delete' \in DeleteType(Known)
                   /\ ServicesStep
<1>1. /\ \A i \in DOMAIN listed : listed[i] \in Known
      /\ delete \in DeleteType(Known)
  BY DEF DeployInv, DeploymentsTypeOK, DeleteType
<1>2. ASSUME NEW o \in Known, ScaleDeployment(o) PROVE Goal
  BY <1>1, <1>2 DEF ScaleDeployment, ListStep, ServicesStep
<1>3. ASSUME NEW d \in Deletes, NEW i \in DOMAIN listed, BeginDelete(d, i) PROVE Goal
  <2>1. [of |-> listed[i], stage |-> "asked"]
          \in [of : Known, stage : {"asked", "answered", "abandoned"}]
    BY <1>1
  <2>2. delete' \in DeleteType(Known)
    BY <1>1, <1>3, <2>1 DEF BeginDelete, DeleteType
  <2> QED
    BY <1>3, <2>2 DEF BeginDelete, ListStep, ServicesStep
<1>4. ASSUME NEW d \in Deletes, Deleting(d)
      PROVE  /\ delete[d] \in [of : Known, stage : {"asked", "answered", "abandoned"}]
             /\ delete[d].of \in Known
  BY <1>1, <1>4 DEF Deleting, DeleteType
<1>5. ASSUME NEW d \in Deletes, Deleting(d), NEW s \in {"asked", "answered", "abandoned"}
      PROVE  [delete[d] EXCEPT !.stage = s]
               \in [of : Known, stage : {"asked", "answered", "abandoned"}]
  <2>1. delete[d] \in [of : Known, stage : {"asked", "answered", "abandoned"}]
    BY <1>4, <1>5
  <2> QED
    BY <2>1
<1>6. ASSUME NEW d \in Deletes, ServeDown(d) PROVE Goal
  <2> DEFINE o == delete[d].of
  <2>1. Deleting(d) /\ o \in Known
    BY <1>4, <1>6 DEF ServeDown
  <2>2. \/ delete' = [delete EXCEPT ![d] = NoDelete]
        \/ delete' = [delete EXCEPT ![d] = [delete[d] EXCEPT !.stage = "answered"]]
    BY <1>6 DEF ServeDown
  <2>3. delete' \in DeleteType(Known)
    <3>1. [delete[d] EXCEPT !.stage = "answered"]
            \in [of : Known, stage : {"asked", "answered", "abandoned"}]
      BY <1>5, <2>1
    <3> QED
      BY <1>1, <2>2, <3>1 DEF DeleteType
  <2>4. /\ services' \in {services, Drop(services, ServiceOf(o))}
        /\ downed' = downed \cup {ServiceOf(o)}
    BY <1>6 DEF ServeDown
  <2>5. ServicesStep
    <3> HIDE DEF o
    <3> QED
      BY <2>1, <2>4 DEF ServicesStep
  <2> QED
    BY <1>6, <2>3, <2>5 DEF ServeDown, ListStep
<1>7. ASSUME NEW d \in Deletes, EndDelete(d) PROVE Goal
  <2>1. delete[d].of \in Known
    BY <1>4, <1>7 DEF EndDelete
  <2>2. delete' \in DeleteType(Known)
    BY <1>1, <1>7 DEF EndDelete, DeleteType
  <2> QED
    BY <1>7, <2>1, <2>2 DEF EndDelete, ListStep, ServicesStep
<1>8. ASSUME NEW d \in Deletes, DeleteGivesUp(d) PROVE Goal
  <2>1. Deleting(d)
        /\ \/ delete' = [delete EXCEPT ![d] = NoDelete]
           \/ delete' = [delete EXCEPT ![d] = [delete[d] EXCEPT !.stage = "abandoned"]]
    BY <1>8 DEF DeleteGivesUp
  <2>2. [delete[d] EXCEPT !.stage = "abandoned"]
          \in [of : Known, stage : {"asked", "answered", "abandoned"}]
    BY <1>5, <2>1
  <2>3. delete' \in DeleteType(Known)
    BY <1>1, <2>1, <2>2 DEF DeleteType
  <2> QED
    BY <1>8, <2>3 DEF DeleteGivesUp, ListStep, ServicesStep
<1> HIDE DEF Goal
<1>9. Goal
  BY <1>2, <1>3, <1>6, <1>7, <1>8 DEF RequestStep
<1> QED
  BY <1>9 DEF Goal

LEMMA ServicesStepOf ==
  ServicesStep => services' = services \/ \E o \in Known : services' \in ServicesOf(o)
  BY DEF ServicesStep, ServicesOf

LEMMA ListStays ==
  ASSUME ListStep
  PROVE  /\ DOMAIN listed' \subseteq DOMAIN listed
         /\ \A i \in DOMAIN listed' : listed'[i] = listed[i]
  BY DEF ListStep, Drop, Restrict

LEMMA DeployInvRequest == DeployInv /\ RequestStep => DeployInv'
<1> SUFFICES ASSUME DeployInv, RequestStep PROVE DeployInv'
  OBVIOUS
<1>1. /\ UNCHANGED <<deployment, yaml>>
      /\ ListStep
      /\ delete' \in DeleteType(Known)
      /\ ServicesStep
  BY RequestChanges
<1>2. \A s \in DOMAIN services' : services'[s] \in [runs : Known, size : Known]
  BY <1>1, ServicesTyped, ServicesStepOf DEF DeployInv, DeploymentsTypeOK
<1>3. Known' = Known /\ \A o \in Known : File(o)' = File(o)
  BY <1>1 DEF Known, File
<1>4. \A i \in DOMAIN listed' : listed'[i] \in Known /\ deployment[listed'[i]].id = i
  BY <1>1, ListStays DEF DeployInv, DeploymentsTypeOK
<1> QED
  BY <1>1, <1>2, <1>3, <1>4 DEF DeployInv, DeploymentsTypeOK, DeleteType, NoDelete

CreateStep ==
  \E i \in Ids, t \in Tenants, n \in Names, valid \in BOOLEAN : CreateDeployment(i, t, n, valid)

LEMMA Steps ==
  DeploymentsNext <=> \/ CreateStep
                      \/ \E o \in Known : Outcome(o)
                      \/ \E o \in Known : BridgeStep(o)
                      \/ RequestStep
  BY DEF DeploymentsNext, RequestStep, CreateStep

LEMMA DeployInvNext == DeployInv /\ [DeploymentsNext]_deployVars => DeployInv'
<1> SUFFICES ASSUME DeployInv, [DeploymentsNext]_deployVars PROVE DeployInv'
  OBVIOUS
<1>1. CASE UNCHANGED deployVars
  <2>1. UNCHANGED <<listed, deployment, delete, yaml, services>>
    BY <1>1 DEF deployVars
  <2> QED
    BY <2>1 DEF DeployInv, DeploymentsTypeOK, Known, File, NoDelete
<1> QED
  BY <1>1, Steps, DeployInvCreate, DeployInvOutcome, DeployInvBridge, DeployInvRequest
     DEF CreateStep

LEMMA DeployInvariant == DeploymentsInit /\ [][DeploymentsNext]_deployVars => []DeployInv
<1>1. DeployInv /\ [DeploymentsNext]_deployVars => DeployInv'
  BY DeployInvNext
<1> QED
  BY <1>1, DeployInvInit, PTL

-----------------------------------------------------------------------------
\* Every reachable state is well typed: a record is deploying exactly as long as
\* its goroutine waits and is listed under its own identifier, and files and
\* services are those of known deployments.
THEOREM DeploymentsTypeCorrect == DeploymentsSpec => []DeploymentsTypeOK
<1>1. DeployInv => DeploymentsTypeOK
  BY DEF DeployInv
<1> QED
  BY <1>1, DeployInvariant, PTL DEF DeploymentsSpec
-----------------------------------------------------------------------------
(* The lifecycle of a deployment *)

LEMMA IssuedStays ==
  ASSUME NEW o \in Known, SameButOne(o)
  PROVE  Issued' = Issued
<1>1. Known' = Known /\ \A p \in Known : deployment'[p].id = deployment[p].id
  BY SameStays
<1> QED
  BY <1>1 DEF Issued

LEMMA ListedKnown ==
  DeployInv => \A i \in DOMAIN listed : /\ listed[i] \in Known
                                        /\ deployment[listed[i]].id = i
                                        /\ i \in Issued /\ i \in Ids
<1> SUFFICES ASSUME DeployInv, NEW i \in DOMAIN listed
             PROVE  /\ listed[i] \in Known
                    /\ deployment[listed[i]].id = i
                    /\ i \in Issued /\ i \in Ids
  OBVIOUS
<1>1. listed[i] \in Known /\ deployment[listed[i]].id = i
  BY DEF DeployInv, DeploymentsTypeOK
<1>2. deployment[listed[i]] \in Deployment
  BY <1>1 DEF DeployInv, DeploymentsTypeOK
<1> QED
  BY <1>1, <1>2 DEF Issued, Deployment

LEMMA PhaseInit == DeploymentsInit => Lifecycle!LifecycleInit
<1> SUFFICES ASSUME DeploymentsInit PROVE Phase = [i \in Ids |-> "none"]
  BY DEF Lifecycle!LifecycleInit
<1>1. DOMAIN listed = {} /\ Issued = {}
  BY DEF DeploymentsInit, EmptyMap, Issued, Known
<1> QED
  BY <1>1 DEF Phase

\* A new identifier goes from "none" to "deploying".
LEMMA PhaseCreate ==
  ASSUME DeployInv, DistinctDeployIds, NEW i \in Ids, NEW t \in Tenants, NEW n \in Names,
         NEW valid \in BOOLEAN, CreateDeployment(i, t, n, valid)
  PROVE  Lifecycle!HandOut(i, "deploying")
<1> DEFINE o == NewObject
<1>1. /\ o \notin Known
      /\ DOMAIN deployment' = Known \cup {o}
      /\ \A p \in Known : deployment'[p] = deployment[p]
  BY Created
<1>2. deployment'[o].id = i /\ deployment'[o].status = "deploying"
  <2>1. deployment'[o] = [id |-> i, tenant |-> t, name |-> n, valid |-> valid,
                        status |-> "deploying", bridge |-> "asked",
                        waiting |-> TRUE]
    BY Created
  <2> QED
    BY <2>1
<1>3. /\ DOMAIN listed' = DOMAIN listed \cup {i} /\ listed'[i] = o
      /\ \A j \in DOMAIN listed \ {i} : listed'[j] = listed[j]
  BY DEF CreateDeployment, Put
<1> HIDE DEF o
<1>4. i \notin Issued
  BY DEF CreateDeployment
<1>5. Issued' = Issued \cup {i}
  BY <1>1, <1>2 DEF Issued, Known
<1>6. i \notin DOMAIN listed
  BY <1>4, ListedKnown
<1>7. Phase[i] = "none"
  BY <1>4, <1>6 DEF Phase
<1>8. ASSUME NEW j \in Ids
      PROVE  Phase'[j] = IF j = i THEN "deploying" ELSE Phase[j]
  <2>1. CASE j = i
    BY <1>2, <1>3, <2>1 DEF Phase
  <2>2. CASE j # i /\ j \in DOMAIN listed
    <3>1. listed'[j] = listed[j] /\ deployment'[listed[j]] = deployment[listed[j]]
      BY <1>1, <1>3, <2>2, ListedKnown
    <3> QED
      BY <1>3, <2>2, <3>1 DEF Phase
  <2>3. CASE j # i /\ j \notin DOMAIN listed
    BY <1>3, <1>5, <2>3 DEF Phase
  <2> QED
    BY <2>1, <2>2, <2>3
<1>9. Phase' = [j \in Ids |-> IF j = i THEN "deploying" ELSE Phase[j]]
  <2>1. Phase' = [j \in Ids |-> Phase'[j]]
    BY DEF Phase
  <2> QED
    BY <1>8, <2>1
<1>10. Phase = [j \in Ids |-> Phase[j]]
  BY DEF Phase
<1>11. Phase' = [Phase EXCEPT ![i] = "deploying"]
  BY <1>9, <1>10
<1> QED
  BY <1>7, <1>11 DEF Lifecycle!HandOut

\* A step that leaves the listed records and their statuses alone is invisible.
LEMMA PhaseStays ==
  ASSUME DeployInv, NEW o \in Known, SameButOne(o), listed' = listed,
         \A i \in DOMAIN listed : deployment'[listed[i]].status = deployment[listed[i]].status
  PROVE  Phase' = Phase
  BY IssuedStays DEF Phase

\* An outcome settles the record, or comes for one that was deleted.
LEMMA PhaseOutcome ==
  ASSUME DeployInv, NEW o \in Known, Outcome(o)
  PROVE  (\E i \in Ids : Lifecycle!Settle(i)) \/ Phase' = Phase
<1> DEFINE i == deployment[o].id
<1>1. PICK s \in {"running", "failed"} : Ends(o, s)
  BY OutcomeEnds
<1>2. listed' = listed /\ deployment[o].waiting
  BY OutcomeEnds
<1>3. SameButOne(o) /\ deployment'[o].status # "deploying"
  BY <1>1, Ended
<1>4. deployment[o].status = "deploying" /\ deployment[o] \in Deployment
  BY <1>2 DEF DeployInv, DeploymentsTypeOK
<1>5. i \in Ids
  BY <1>4 DEF Deployment
<1>6. \A j \in DOMAIN listed : listed[j] \in Known /\ (listed[j] = o => j = i)
  BY ListedKnown
<1> HIDE DEF i
<1>7. CASE i \in DOMAIN listed /\ listed[i] = o
  <2>1. Phase[i] = "deploying"
    BY <1>4, <1>5, <1>7 DEF Phase
  <2>2. ASSUME NEW j \in Ids
        PROVE  Phase'[j] = IF j = i THEN "settled" ELSE Phase[j]
    <3>1. CASE j = i
      BY <1>2, <1>3, <1>7, <3>1 DEF Phase
    <3>2. CASE j # i /\ j \in DOMAIN listed
      <4>1. deployment'[listed[j]] = deployment[listed[j]]
        BY <1>3, <1>6, <3>2 DEF SameButOne
      <4> QED
        BY <1>2, <3>2, <4>1 DEF Phase
    <3>3. CASE j # i /\ j \notin DOMAIN listed
      BY <1>2, <1>3, <3>3, IssuedStays DEF Phase
    <3> QED
      BY <3>1, <3>2, <3>3
  <2>3. Phase' = [Phase EXCEPT ![i] = "settled"]
    <3>1. Phase' = [j \in Ids |-> Phase'[j]] /\ Phase = [j \in Ids |-> Phase[j]]
      BY DEF Phase
    <3> QED
      BY <2>2, <3>1
  <2> QED
    BY <1>5, <2>1, <2>3 DEF Lifecycle!Settle
<1>8. CASE ~ (i \in DOMAIN listed /\ listed[i] = o)
  <2>1. \A j \in DOMAIN listed : deployment'[listed[j]] = deployment[listed[j]]
    BY <1>3, <1>6, <1>8 DEF SameButOne
  <2> QED
    BY <1>2, <1>3, <2>1, PhaseStays
<1> QED
  BY <1>7, <1>8

LEMMA BridgeTells ==
  ASSUME NEW o, BridgeStep(o)
  PROVE  /\ \E stage \in Stages : BridgeSays(o, stage)
         /\ deployment[o].bridge \in {"asked", "written", "error"}
         /\ deployment[o].bridge = "error" => deployment[o].waiting
         /\ UNCHANGED <<listed, delete, downed>>
  BY DEF BridgeStep, Refuse, WriteYAML, ServeUp, ServeUpFails, CutAnswer, Stages

LEMMA PhaseBridge ==
  ASSUME DeployInv, NEW o \in Known, BridgeStep(o)
  PROVE  Phase' = Phase
<1>1. PICK stage \in Stages : BridgeSays(o, stage)
  BY BridgeTells
<1>2. SameButOne(o) /\ deployment'[o].status = deployment[o].status
  BY <1>1, Said
<1>3. \A p \in Known : deployment'[p].status = deployment[p].status
  BY <1>2 DEF SameButOne
<1>4. listed' = listed /\ \A i \in DOMAIN listed : listed[i] \in Known
  BY BridgeTells, ListedKnown
<1> QED
  BY <1>2, <1>3, <1>4, PhaseStays

\* Of the requests only the end of a DELETE is visible.
LEMMA PhaseRequest ==
  ASSUME DeployInv, RequestStep
  PROVE  (\E i \in Ids : Lifecycle!Remove(i)) \/ Phase' = Phase
<1>1. deployment' = deployment /\ ListStep
  BY RequestChanges
<1>2. Issued' = Issued
  BY <1>1 DEF Issued, Known
<1>3. CASE listed' = listed
  BY <1>1, <1>2, <1>3 DEF Phase
<1>4. ASSUME NEW i, listed' = Drop(listed, i)
      PROVE  (\E j \in Ids : Lifecycle!Remove(j)) \/ Phase' = Phase
  <2>1. /\ DOMAIN listed' = DOMAIN listed \ {i}
        /\ \A j \in DOMAIN listed \ {i} : listed'[j] = listed[j]
    BY <1>4 DEF Drop, Restrict
  <2>2. \A j \in Ids \ {i} : Phase'[j] = Phase[j]
    BY <1>1, <1>2, <2>1 DEF Phase
  <2>3. Phase' = [j \in Ids |-> Phase'[j]] /\ Phase = [j \in Ids |-> Phase[j]]
    BY DEF Phase
  <2>4. CASE i \in DOMAIN listed
    <3>1. i \in Ids /\ i \in Issued
      BY <2>4, ListedKnown
    <3>2. Phase[i] \in {"deploying", "settled"}
      BY <2>4, <3>1 DEF Phase
    <3>3. Phase'[i] = "gone"
      BY <1>2, <2>1, <3>1 DEF Phase
    <3>4. Phase' = [Phase EXCEPT ![i] = "gone"]
      BY <2>2, <2>3, <3>1, <3>3
    <3> QED
      BY <3>1, <3>2, <3>4 DEF Lifecycle!Remove, Lifecycle!Live
  <2>5. CASE i \notin DOMAIN listed
    <3>1. \A j \in Ids : Phase'[j] = Phase[j]
      BY <1>1, <1>2, <2>1, <2>5 DEF Phase
    <3> QED
      BY <2>3, <3>1
  <2> QED
    BY <2>4, <2>5
<1> QED
  BY <1>1, <1>3, <1>4 DEF ListStep

LEMMA PhaseNext ==
  DeployInv /\ DistinctDeployIds /\ [DeploymentsNext]_deployVars
    => [Lifecycle!LifecycleNext]_Phase
<1> SUFFICES ASSUME DeployInv, DistinctDeployIds, [DeploymentsNext]_deployVars
             PROVE  Lifecycle!LifecycleNext \/ Phase' = Phase
  OBVIOUS
<1>1. CASE UNCHANGED deployVars
  BY <1>1 DEF deployVars, Phase, Issued, Known
<1>2. CASE CreateStep
  <2>1. PICK i \in Ids, t \in Tenants, n \in Names, valid \in BOOLEAN :
               CreateDeployment(i, t, n, valid)
    BY <1>2 DEF CreateStep
  <2> QED
    BY <2>1, PhaseCreate DEF Lifecycle!LifecycleNext
<1>3. ASSUME NEW o \in Known, Outcome(o)
      PROVE  Lifecycle!LifecycleNext \/ Phase' = Phase
  BY <1>3, PhaseOutcome DEF Lifecycle!LifecycleNext
<1>4. ASSUME NEW o \in Known, BridgeStep(o) PROVE Phase' = Phase
  BY <1>4, PhaseBridge
<1>5. CASE RequestStep
  BY <1>5, PhaseRequest DEF Lifecycle!LifecycleNext
<1> QED
  BY <1>1, <1>2, <1>3, <1>4, <1>5, Steps

\* A deployment is handed out once, settles at most once and never comes back,
\* whatever the bridge answers and when, for any number of deployments and
\* DELETEs of them; as long as no two are created in one millisecond.
THEOREM DeploymentsImplementLifecycle ==
  ASSUME DistinctDeployIds
  PROVE  DeploymentsSpec => ImplementsLifecycle
<1>1. DeploymentsInit => Lifecycle!LifecycleInit
  BY PhaseInit
<1>2. DeployInv /\ [DeploymentsNext]_deployVars => [Lifecycle!LifecycleNext]_Phase
  BY PhaseNext
<1> QED
  BY <1>1, <1>2, DeployInvariant, PTL
     DEF DeploymentsSpec, ImplementsLifecycle, Lifecycle!LifecycleSpec

-----------------------------------------------------------------------------
(* A running deployment is served *)

\* Only an answer that reads as no error makes a deployment running, and the
\* answer of a deployment that is not waited for stays as it is.
Honest(o) == deployment[o].status = "running"
               => deployment[o].bridge \in {"up", "cut", "refused"}

\* No other deployment's file has the path of o's.
OwnFile(o) == \A p \in Known \ {o} : File(p) # File(o)

\* A file of its own is still as it was written, and what came up is still there.
Kept(o) ==
  /\ deployment[o].bridge = "written" /\ OwnFile(o) => yaml[File(o)] = o
  /\ deployment[o].bridge = "up" => Served(o)

ServedInv ==
  /\ DeployInv
  /\ \A o \in Known : Honest(o) /\ Kept(o)

\* Names never change, so a deployment that has a file of its own after a step
\* had it before.
LEMMA OwnFileBefore ==
  ASSUME NEW o \in Known, Known \subseteq DOMAIN deployment', OwnFile(o)',
         \A p \in Known : deployment'[p].name = deployment[p].name
  PROVE  OwnFile(o)
  BY DEF OwnFile, File, Known

\* What a step has to leave alone for a deployment to be served after it.
LEMMA StillServed ==
  ASSUME NEW o \in Known, Served(o), Known \subseteq DOMAIN deployment',
         \A p \in Known : deployment'[p].name = deployment[p].name,
         downed \subseteq downed',
         deployment[o].name \in DOMAIN services
           => \/ deployment[o].name \in DOMAIN services'
              \/ deployment[o].name \in downed',
         OwnFile(o) /\ deployment[o].name \in DOMAIN services'
           => /\ deployment[o].name \in DOMAIN services
              /\ services'[deployment[o].name].runs = services[deployment[o].name].runs
  PROVE  Served(o)'
<1> DEFINE n == deployment[o].name
<1>1. deployment'[o].name = n
  OBVIOUS
<1>2. n \notin downed' => n \in DOMAIN services'
  BY DEF Served
<1>3. ASSUME n \in DOMAIN services', OwnFile(o)' PROVE services'[n].runs = o
  <2>1. OwnFile(o)
    BY <1>3, OwnFileBefore
  <2> QED
    BY <1>3, <2>1 DEF Served, OwnFile
<1> QED
  BY <1>1, <1>2, <1>3 DEF Served, OwnFile

LEMMA ServedInit == DeploymentsInit => ServedInv
  BY DeployInvInit DEF DeploymentsInit, ServedInv, EmptyMap, Known

LEMMA ServedCreate ==
  ASSUME ServedInv, NEW i \in Ids, NEW t \in Tenants, NEW n \in Names,
         NEW valid \in BOOLEAN, CreateDeployment(i, t, n, valid)
  PROVE  ServedInv'
<1> DeployInv
  BY DEF ServedInv
<1>0. PICK o : o = NewObject
  OBVIOUS
<1>1. /\ DOMAIN deployment' = Known \cup {o}
      /\ \A p \in Known : deployment'[p] = deployment[p]
  BY <1>0, Created
<1>2. deployment'[o].status = "deploying" /\ deployment'[o].bridge = "asked"
  <2>1. deployment'[o] = [id |-> i, tenant |-> t, name |-> n, valid |-> valid,
                        status |-> "deploying", bridge |-> "asked",
                        waiting |-> TRUE]
    BY <1>0, Created
  <2> QED
    BY <2>1
<1>3. UNCHANGED <<yaml, services, downed>>
  BY DEF CreateDeployment
<1>4. ASSUME NEW p \in Known PROVE Honest(p)' /\ Kept(p)'
  <2>1. deployment'[p] = deployment[p] /\ File(p)' = File(p)
    BY <1>1 DEF File
  <2>2. OwnFile(p)' => OwnFile(p)
    BY <1>1, OwnFileBefore
  <2>3. Served(p) => Served(p)'
    BY <1>1, <1>3, StillServed
  <2> QED
    BY <1>3, <2>1, <2>2, <2>3 DEF ServedInv, Honest, Kept
<1>5. Honest(o)' /\ Kept(o)'
  BY <1>2 DEF Honest, Kept
<1>6. Known' = Known \cup {o}
  BY <1>1 DEF Known
<1> QED
  BY <1>4, <1>5, <1>6, DeployInvCreate DEF ServedInv

\* What a step of one deployment has to leave alone for the others.
LEMMA ServedOthers ==
  ASSUME ServedInv, DeployInv', NEW o \in Known, SameButOne(o), downed' = downed,
         \A f \in DOMAIN yaml : f # File(o) => yaml'[f] = yaml[f],
         \A n \in DOMAIN services : n \in DOMAIN services' /\ services'[n] = services[n],
         \A n \in DOMAIN services' : n \in DOMAIN services \/ n = deployment[o].name,
         Honest(o)', Kept(o)'
  PROVE  ServedInv'
<1>1. /\ Known' = Known
      /\ \A p \in Known : deployment'[p].name = deployment[p].name /\ File(p)' = File(p)
  BY SameStays
<1>2. ASSUME NEW p \in Known \ {o} PROVE Honest(p)' /\ Kept(p)'
  <2>1. OwnFile(p)' => OwnFile(p)
    BY <1>1, OwnFileBefore DEF Known
  <2>2. deployment'[p] = deployment[p]
    BY DEF SameButOne
  <2>3. Honest(p) /\ Kept(p)
    BY DEF ServedInv
  <2>4. ASSUME deployment[p].bridge = "written", OwnFile(p) PROVE yaml'[File(p)] = p
    <3>1. File(o) # File(p)
      BY <2>4 DEF OwnFile
    <3>2. File(p) \in DOMAIN yaml
      BY <2>4 DEF ServedInv, DeployInv
    <3> QED
      BY <2>3, <2>4, <3>1, <3>2 DEF Kept
  <2>5. ASSUME Served(p) PROVE Served(p)'
    <3>1. OwnFile(p) /\ deployment[p].name \in DOMAIN services'
            => deployment[p].name \in DOMAIN services
      BY DEF OwnFile, File
    <3> QED
      BY <1>1, <2>5, <3>1, StillServed DEF Known
  <2> QED
    BY <1>1, <2>1, <2>2, <2>3, <2>4, <2>5 DEF Honest, Kept
<1> QED
  BY <1>1, <1>2 DEF ServedInv

LEMMA ServedOutcome ==
  ASSUME ServedInv, NEW o \in Known, Outcome(o)
  PROVE  ServedInv'
<1> DeployInv
  BY DEF ServedInv
<1>1. PICK s \in {"running", "failed"} :
        /\ Ends(o, s)
        /\ s = "running" => deployment[o].bridge \notin {"asked", "written", "error"}
  BY OutcomeEnds
<1>2. UNCHANGED <<yaml, services, downed>>
  BY OutcomeEnds
<1>3. /\ SameButOne(o) /\ deployment'[o].status = s
      /\ deployment'[o].bridge = deployment[o].bridge
  BY <1>1, Ended
<1>4. deployment[o].bridge \in Stages
  BY DEF DeployInv, DeploymentsTypeOK, Deployment
<1>5. Honest(o)'
  BY <1>1, <1>3, <1>4 DEF Honest, Stages
<1>6. Kept(o)'
  <2>1. /\ Known \subseteq DOMAIN deployment' /\ File(o)' = File(o)
        /\ \A p \in Known : deployment'[p].name = deployment[p].name
    BY <1>3, SameStays DEF Known
  <2>2. OwnFile(o)' => OwnFile(o)
    BY <2>1, OwnFileBefore
  <2>3. Served(o) => Served(o)'
    BY <1>2, <2>1, StillServed
  <2> QED
    BY <1>2, <1>3, <2>1, <2>2, <2>3 DEF ServedInv, Kept
<1> QED
  BY <1>2, <1>3, <1>5, <1>6, DeployInvOutcome, ServedOthers

LEMMA ServedBridge ==
  ASSUME ServedInv, NEW o \in Known, BridgeStep(o)
  PROVE  ServedInv'
<1> DEFINE n == deployment[o].name
<1> DeployInv
  BY DEF ServedInv
<1>1. PICK stage \in Stages : BridgeSays(o, stage)
  BY BridgeTells
<1>2. /\ SameButOne(o) /\ deployment'[o].status = deployment[o].status
      /\ deployment'[o].waiting = deployment[o].waiting
      /\ deployment'[o].bridge = stage
  BY <1>1, Said
<1>3. /\ deployment'[o].name = n /\ File(o)' = File(o)
      /\ Known \subseteq DOMAIN deployment'
      /\ \A p \in Known : deployment'[p].name = deployment[p].name
  BY <1>2, SameStays DEF Known
<1>4. deployment[o].status # "running"
  <2>1. deployment[o].bridge \in {"asked", "written", "error"}
    BY BridgeTells
  <2> QED
    BY <2>1 DEF ServedInv, Honest
<1>5. Honest(o)' /\ downed' = downed
  BY <1>2, <1>4, BridgeTells DEF Honest
<1>6. CASE Refuse(o) \/ ServeUpFails(o) \/ CutAnswer(o)
  <2>1. UNCHANGED <<yaml, services>>
        /\ \E x \in {"refused", "error", "cut"} : BridgeSays(o, x)
    BY <1>6, Tells
  <2>2. deployment'[o].bridge \in {"refused", "error", "cut"}
    BY <2>1, Said DEF Stages
  <2>3. Kept(o)'
    BY <2>2 DEF Kept
  <2> QED
    BY <1>2, <1>5, <2>1, <2>3, DeployInvBridge, ServedOthers
<1>7. CASE WriteYAML(o)
  <2>1. BridgeSays(o, "written") /\ services' = services /\ yaml' = Put(yaml, File(o), o)
    BY <1>7 DEF WriteYAML
  <2>2. deployment'[o].bridge = "written"
    BY <2>1, Said DEF Stages
  <2>3. yaml'[File(o)] = o /\ \A f \in DOMAIN yaml : f # File(o) => yaml'[f] = yaml[f]
    BY <2>1 DEF Put
  <2>4. Kept(o)'
    BY <1>3, <2>2, <2>3 DEF Kept
  <2> QED
    BY <1>2, <1>5, <2>1, <2>3, <2>4, DeployInvBridge, ServedOthers
<1>8. CASE ServeUp(o)
  <2> DEFINE written == yaml[File(o)]
  <2>1. /\ yaml' = yaml /\ services' = Put(services, n, [runs |-> written, size |-> written])
        /\ n \notin DOMAIN services /\ deployment[o].bridge = "written"
    BY <1>8 DEF ServeUp
  <2>2. \E x \in {"up", "error"} : BridgeSays(o, x)
    BY <1>8 DEF ServeUp
  <2>3. deployment'[o].bridge \in {"up", "error"}
    BY <2>2, Said DEF Stages
  <2>4. /\ n \in DOMAIN services' /\ services'[n].runs = written
        /\ \A m \in DOMAIN services : m \in DOMAIN services' /\ services'[m] = services[m]
        /\ \A m \in DOMAIN services' : m \in DOMAIN services \/ m = n
    <3> HIDE DEF n, written
    <3> QED
      BY <2>1 DEF Put
  <2>5. OwnFile(o)' => written = o
    BY <1>3, <2>1, OwnFileBefore DEF ServedInv, Kept
  <2>6. Served(o)'
    BY <1>3, <2>4, <2>5 DEF Served, OwnFile
  <2>7. Kept(o)'
    BY <2>3, <2>6 DEF Kept
  <2> QED
    BY <1>2, <1>5, <2>1, <2>4, <2>7, DeployInvBridge, ServedOthers
<1> QED
  BY <1>6, <1>7, <1>8 DEF BridgeStep

\* A DELETE takes down the service of the name that some deployment is deleted
\* under, and that is noted; nothing else goes.
LEMMA ServedRequest ==
  ASSUME ServedInv, RequestStep
  PROVE  ServedInv'
<1> DeployInv
  BY DEF ServedInv
<1>1. UNCHANGED <<deployment, yaml>> /\ ServicesStep
  BY RequestChanges
<1>2. Known' = Known /\ Known \subseteq DOMAIN deployment'
      /\ \A o \in Known : File(o)' = File(o) /\ (OwnFile(o)' <=> OwnFile(o))
  BY <1>1 DEF Known, File, OwnFile
<1>3. \A s \in DOMAIN services' : s \in DOMAIN services /\ services'[s].runs = services[s].runs
  BY <1>1, ServicesStepOf, ServicesTyped
<1>4. downed \subseteq downed' /\ \A s \in DOMAIN services : s \in DOMAIN services' \/ s \in downed'
  BY <1>1 DEF ServicesStep, Drop, Restrict
<1>5. ASSUME NEW o \in Known PROVE Honest(o)' /\ Kept(o)'
  <2>1. Served(o) => Served(o)'
    BY <1>1, <1>2, <1>3, <1>4, StillServed
  <2> QED
    BY <1>1, <1>2, <2>1 DEF ServedInv, Honest, Kept
<1> QED
  BY <1>2, <1>5, DeployInvRequest DEF ServedInv

LEMMA ServedNext == ServedInv /\ [DeploymentsNext]_deployVars => ServedInv'
<1> SUFFICES ASSUME ServedInv, [DeploymentsNext]_deployVars PROVE ServedInv'
  OBVIOUS
<1>1. CASE UNCHANGED deployVars
  <2>1. DeployInv'
    BY DeployInvNext DEF ServedInv
  <2>2. UNCHANGED <<deployment, yaml, services, downed>>
    BY <1>1 DEF deployVars
  <2>3. Known' = Known
        /\ \A o \in Known : (Honest(o)' <=> Honest(o)) /\ (Kept(o)' <=> Kept(o))
    BY <2>2 DEF Honest, Kept, Served, OwnFile, File, Known
  <2> QED
    BY <2>1, <2>3 DEF ServedInv
<1> QED
  BY <1>1, Steps, ServedCreate, ServedOutcome, ServedBridge, ServedRequest DEF CreateStep

\* A running deployment came up and is served until somebody takes a service of
\* its name down, from its own file if no other has that file; or it was refused,
\* or the error cut off. For any number of deployments, names and files.
THEOREM RunningStaysServed == DeploymentsSpec => []RunningIsServed
<1>1. ServedInv => RunningIsServed
  BY DEF ServedInv, Honest, Kept, RunningIsServed
<1>2. ServedInv /\ [DeploymentsNext]_deployVars => ServedInv'
  BY ServedNext
<1> QED
  BY <1>1, <1>2, ServedInit, PTL DEF DeploymentsSpec
-----------------------------------------------------------------------------
(* Services are separate when tenants keep to files of their own *)

\* A file and a service belong to deployments of their path, whoever wrote,
\* started, scaled or deleted them.
FilesNamed ==
  /\ \A f \in DOMAIN yaml : File(yaml[f]) = f
  /\ \A s \in DOMAIN services : File(services[s].runs) = FileOf[s]

\* No two tenants have deployed models whose files have one path.
FilesApart ==
  \A o, p \in Known : File(o) = File(p) => deployment[o].tenant = deployment[p].tenant

LEMMA FilesNamedInit == DeploymentsInit => FilesNamed
  BY DEF DeploymentsInit, FilesNamed, EmptyMap

\* Names never change.
LEMMA FilesStay ==
  ASSUME DeployInv, DeploymentsNext, NEW o \in Known
  PROVE  File(o)' = File(o)
<1>1. ASSUME NEW p \in Known, SameButOne(p) PROVE File(o)' = File(o)
  BY <1>1, SameStays
<1>2. ASSUME NEW p \in Known, Outcome(p) PROVE File(o)' = File(o)
  <2>1. PICK s \in {"running", "failed"} : Ends(p, s)
    BY <1>2, OutcomeEnds
  <2> QED
    BY <1>1, <2>1, Ended
<1>3. ASSUME NEW p \in Known, BridgeStep(p) PROVE File(o)' = File(o)
  <2>1. PICK stage \in Stages : BridgeSays(p, stage)
    BY <1>3, BridgeTells
  <2> QED
    BY <1>1, <2>1, Said
<1>4. CASE RequestStep
  BY <1>4, RequestChanges DEF File
<1>5. CASE CreateStep
  BY <1>5, Created DEF CreateStep, File
<1> QED
  BY <1>2, <1>3, <1>4, <1>5, Steps

LEMMA FilesNamedNext ==
  ASSUME DeployInv, FilesNamed, [DeploymentsNext]_deployVars
  PROVE  FilesNamed'
<1>1. CASE UNCHANGED deployVars
  BY <1>1 DEF deployVars, FilesNamed, File
<1> SUFFICES ASSUME DeploymentsNext PROVE FilesNamed'
  BY <1>1
<1>2. \A o \in Known : File(o)' = File(o)
  BY FilesStay
<1>3. /\ \A f \in DOMAIN yaml : yaml[f] \in Known
      /\ \A s \in DOMAIN services : services[s].runs \in Known
  BY DEF DeployInv, DeploymentsTypeOK
<1>4. /\ \A f \in DOMAIN yaml : FileOf[deployment'[yaml[f]].name] = f
      /\ \A s \in DOMAIN services : FileOf[deployment'[services[s].runs].name] = FileOf[s]
  BY <1>2, <1>3 DEF FilesNamed, File
<1>5. CASE UNCHANGED <<yaml, services>>
  BY <1>4, <1>5 DEF FilesNamed, File
<1>6. CASE CreateStep \/ \E o \in Known : Outcome(o)
  BY <1>5, <1>6, OutcomeEnds DEF CreateStep, CreateDeployment
<1>7. ASSUME NEW o \in Known, BridgeStep(o) PROVE FilesNamed'
  <2> DEFINE n == deployment[o].name
             f == File(o)
             written == yaml[f]
  <2>1. CASE Refuse(o) \/ ServeUpFails(o) \/ CutAnswer(o)
    BY <1>5, <2>1, Tells
  <2>2. CASE WriteYAML(o)
    <3>1. yaml' = Put(yaml, f, o) /\ services' = services
      BY <2>2 DEF WriteYAML
    <3>2. /\ \A g \in DOMAIN yaml' : g = f \/ (g \in DOMAIN yaml /\ yaml'[g] = yaml[g])
          /\ yaml'[f] = o
      BY <3>1 DEF Put
    <3>3. deployment'[o].name = n
      <4>1. BridgeSays(o, "written")
        BY <2>2 DEF WriteYAML
      <4> QED
        BY <4>1, Said DEF Stages, SameButOne
    <3> QED
      BY <1>2, <1>3, <1>4, <3>1, <3>2 DEF FilesNamed, File
  <2>3. CASE ServeUp(o)
    <3>1. /\ services' = Put(services, n, [runs |-> written, size |-> written])
          /\ yaml' = yaml /\ deployment[o].bridge = "written"
      BY <2>3 DEF ServeUp
    <3>2. f \in DOMAIN yaml
      BY <3>1 DEF DeployInv
    <3>3. \A s \in DOMAIN services' :
            \/ s = n /\ services'[s].runs = written
            \/ s \in DOMAIN services /\ services'[s].runs = services[s].runs
      <4> HIDE DEF n, written
      <4> QED
        BY <3>1 DEF Put
    <3>4. FileOf[deployment'[written].name] = FileOf[n]
      BY <1>3, <1>4, <3>1, <3>2 DEF File
    <3> QED
      BY <1>4, <3>1, <3>3, <3>4 DEF FilesNamed, File
  <2> QED
    BY <1>7, <2>1, <2>2, <2>3 DEF BridgeStep
<1>8. CASE RequestStep
  <2>1. UNCHANGED <<deployment, yaml>>
    BY <1>8, RequestChanges
  <2>2. \A s \in DOMAIN services' : s \in DOMAIN services /\ services'[s].runs = services[s].runs
    BY <1>8, RequestChanges, ServicesTyped, ServicesStepOf
  <2> QED
    BY <2>1, <2>2 DEF FilesNamed, File
<1> QED
  BY <1>6, <1>7, <1>8, Steps

\* As long as no two tenants deploy models whose files have one path, no
\* deployment that came up is served from another tenant's file: files that are
\* written late, and DELETE and scale, which act on a service of another name,
\* mix nothing up. Without the premise this is not so: see run deployments_shared.
THEOREM OwnNamesSeparate == DeploymentsSpec /\ []FilesApart => []ServicesAreSeparate
<1>1. DeployInv /\ FilesNamed /\ FilesApart => ServicesAreSeparate
  BY DEF DeployInv, DeploymentsTypeOK, FilesNamed, FilesApart, ServicesAreSeparate, File
<1>2. DeployInv /\ FilesNamed /\ [DeploymentsNext]_deployVars => (DeployInv /\ FilesNamed)'
  BY DeployInvNext, FilesNamedNext
<1> QED
  BY <1>1, <1>2, DeployInvInit, FilesNamedInit, PTL DEF DeploymentsSpec
=============================================================================
