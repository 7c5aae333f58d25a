--------------------------- MODULE FunctionManager ---------------------------
(***************************************************************************)
(* The function manager: deployed instances of the functions of            *)
(* FunctionCatalog, the goroutine that deploys each of them through        *)
(* SkyPilot, and the clusters SkyPilot keeps.                              *)
(*                                                                         *)
(* A deployment runs for minutes beside the API: it reports to its         *)
(* instance through UpdateInstance while clients patch and delete that     *)
(* same instance. Nothing but the instance record says which cluster an    *)
(* instance owns.                                                          *)
(***************************************************************************)
EXTENDS FunctionCatalog

CONSTANTS
  Slug,             \* a function's name -> lower case, spaces as dashes
  InstMillis,       \* the milliseconds at which instances are created
  DistinctInstIds,  \* TRUE: no two instances are created in one millisecond
  SuffixMod,        \* 10^6: a cluster's name ends in six digits of the millisecond
  Routines,         \* deployments, one goroutine each
  Teardowns,        \* DELETE handlers and the SkyDown goroutines they spawn
  MaxRetries,       \* attempts of getSkyPilotEndpoint (12 in the code)
  PatientClients,   \* TRUE: no PATCH or DELETE while the status is "deploying"
  DownMayFail,      \* TRUE: `sky down` may fail and leave the cluster up
  CarefulSeeds,     \* TRUE: clients seed clusters that SkyPilot has and nobody owns
  ForwardsDie,      \* TRUE: the port-forwards die with the process
  Matches,          \* <<c, d>>: the name of d's service contains c's name without dashes
  BusyPorts,        \* ports that other processes of the host listen on
  PatchStatuses,    \* statuses that clients PATCH
  PatchEndpoints,   \* endpoints that clients PATCH
  SeedVias,         \* deployed_via values that clients seed
  NoCluster,        \* the empty cluster name
  NoEndpoint,       \* the empty endpoint
  External          \* an endpoint given by a client

Clusters == Names \X (0 .. SuffixMod - 1)
Settled == {"running", "degraded", "error"}
Vias == {"", "skypilot", "manual"}

ASSUME ManagerAssumption ==
  /\ Slug \in [Names -> Names]
  /\ InstMillis \subseteq Nat \ {0}
  /\ DistinctInstIds \in BOOLEAN
  /\ SuffixMod \in Nat \ {0}
  /\ MaxRetries \in Nat \ {0}
  /\ PatientClients \in BOOLEAN
  /\ DownMayFail \in BOOLEAN
  /\ CarefulSeeds \in BOOLEAN
  /\ ForwardsDie \in BOOLEAN
  /\ Matches \subseteq Clusters \X Clusters
  /\ \A c \in Clusters : <<c, c>> \in Matches
  /\ BusyPorts \subseteq Nat
  /\ PatchStatuses \subseteq Settled \cup {"deploying"}
  /\ PatchEndpoints \subseteq {NoEndpoint, External}
  /\ SeedVias \subseteq Vias \ {""}
  /\ NoCluster \notin Clusters
  /\ NoEndpoint \notin Nat
  /\ External \notin Nat
  /\ NoEndpoint # External

VARIABLES
  instIssued, \* history: the milliseconds that were made identifiers
  instances,  \* Store.instances: identifier -> record
  deploy,     \* goroutine -> its progress through DeploySkyPilot
  teardown,   \* slot -> a DELETE handler and its SkyDown goroutine
  nextPort,   \* portCounter, counted from 9100
  forward,    \* port -> the cluster whose service its kubectl port-forward leads to
  sky         \* the clusters SkyPilot has (external)

managerVars == <<instIssued, instances, deploy, teardown, nextPort, forward, sky>>
vars == <<managerVars, catalogVars>>

-----------------------------------------------------------------------------
Instance == [status : Settled \cup {"deploying"},
             endpoint : Nat \cup {NoEndpoint, External},
             sky : Clusters \cup {NoCluster},
             via : Vias]

\* Where DeploySkyPilot is. "start": spawned; "launch": `sky launch` runs;
\* "launched": it runs, and the cluster is up; "discover": looking for the
\* service; "forward": holds a port, and lbSvc is the cluster whose service was
\* found; "found" / "gaveup": the search is over.
Routine == [pc : {"idle", "start", "yaml", "launch", "launched", "discover",
                  "forward", "found", "gaveup", "done"},
            inst : InstMillis \cup {0},
            fn : Objects \cup {NoObject},
            cluster : Clusters \cup {NoCluster},
            attempt : 0 .. MaxRetries,
            port : Nat,
            lbSvc : Clusters \cup {NoCluster}]

IdleRoutine == [pc |-> "idle", inst |-> 0, fn |-> NoObject, cluster |-> NoCluster,
                attempt |-> 0, port |-> 0, lbSvc |-> NoCluster]

Returned == [IdleRoutine EXCEPT !.pc = "done"]

\* "removing": the DELETE handler between GetInstance and DeleteInstance.
Teardown == [pc : {"idle", "removing", "done"},
             inst : InstMillis \cup {0},
             cluster : Clusters \cup {NoCluster},
             down : {"none", "pending", "ok", "failed"}]

IdleTeardown == [pc |-> "idle", inst |-> 0, cluster |-> NoCluster, down |-> "none"]

TypeOK ==
  /\ CatalogTypeOK
  /\ instIssued \subseteq InstMillis
  /\ DOMAIN instances \subseteq InstMillis
  /\ \A i \in DOMAIN instances : instances[i] \in Instance
  /\ deploy \in [Routines -> Routine]
  /\ teardown \in [Teardowns -> Teardown]
  /\ nextPort \in Nat
  /\ DOMAIN forward \subseteq Nat
  /\ \A p \in DOMAIN forward : forward[p] \in Clusters
  /\ sky \subseteq Clusters

Init ==
  /\ CatalogInit
  /\ instIssued = {}
  /\ instances = EmptyMap
  /\ deploy = [g \in Routines |-> IdleRoutine]
  /\ teardown = [d \in Teardowns |-> IdleTeardown]
  /\ nextPort = 1
  /\ forward = EmptyMap
  /\ sky = {}

-----------------------------------------------------------------------------
\* fmt.Sprintf("inst-%d", time.Now().UnixMilli()), before the store's lock is taken
FreshInstId(t) ==
  /\ t \in InstMillis
  /\ DistinctInstIds => t \notin instIssued

\* POST /api/functions/:id/deploy: the instance is stored as "deploying" and
\* the goroutine spawned with the pointer to the function.
DeployFunction(i, t, g) ==
  /\ i \in DOMAIN functions
  /\ FreshInstId(t)
  /\ deploy[g].pc = "idle"
  /\ instIssued' = instIssued \cup {t}
  /\ instances' = Put(instances, t, [status |-> "deploying", endpoint |-> NoEndpoint,
                                     sky |-> NoCluster, via |-> ""])
  /\ deploy' = [deploy EXCEPT ![g] = [IdleRoutine EXCEPT !.pc = "start", !.inst = t,
                                                         !.fn = functions[i]]]
  /\ UNCHANGED <<teardown, nextPort, forward, sky, catalogVars>>

\* Mutant of Notify: the callback stores the record anew.
NotifyUpserts(g, status, endpoint, cluster) ==
  instances' = Put(instances, deploy[g].inst,
                   [status |-> status, endpoint |-> endpoint, sky |-> cluster,
                    via |-> "skypilot"])

\* The onUpdate callback: UpdateInstance changes nothing when the identifier
\* is no longer in the store.
Notify(g, status, endpoint, cluster) ==
  LET i == deploy[g].inst IN
  instances' = IF i \in DOMAIN instances
               THEN [instances EXCEPT ![i] = [status |-> status, endpoint |-> endpoint,
                                              sky |-> cluster, via |-> "skypilot"]]
               ELSE instances

\* Mutant of NameCluster: the name has no suffix.
NameClusterByFunction(g) ==
  LET c == <<Slug[heap[deploy[g].fn]], 0>> IN
  /\ deploy[g].pc = "start"
  /\ Notify(g, "deploying", NoEndpoint, c)
  /\ deploy' = [deploy EXCEPT ![g].pc = "yaml", ![g].cluster = c]
  /\ UNCHANGED <<instIssued, teardown, nextPort, forward, sky, catalogVars>>

\* The first lines of DeploySkyPilot: the cluster is named after the function
\* as it is called now and the last six digits of the instance's identifier.
NameCluster(g) ==
  LET c == <<Slug[heap[deploy[g].fn]], deploy[g].inst % SuffixMod>> IN
  /\ deploy[g].pc = "start"
  /\ Notify(g, "deploying", NoEndpoint, c)
  /\ deploy' = [deploy EXCEPT ![g].pc = "yaml", ![g].cluster = c]
  /\ UNCHANGED <<instIssued, teardown, nextPort, forward, sky, catalogVars>>

\* The task file is written, and `sky launch` started.
WriteTask(g) ==
  /\ deploy[g].pc = "yaml"
  /\ deploy' = [deploy EXCEPT ![g].pc = "launch"]
  /\ UNCHANGED <<instIssued, instances, teardown, nextPort, forward, sky, catalogVars>>

\* SkyPilot brings the cluster up while `sky launch` is still running.
ClusterComesUp(g) ==
  /\ deploy[g].pc = "launch"
  /\ sky' = sky \cup {deploy[g].cluster}
  /\ deploy' = [deploy EXCEPT ![g].pc = "launched"]
  /\ UNCHANGED <<instIssued, instances, teardown, nextPort, forward, catalogVars>>

\* Mutant of DeployFails: the error is reported without the cluster's name.
FailNamelessly(g) ==
  /\ deploy[g].pc \in {"yaml", "launch", "launched"}
  /\ Notify(g, "error", NoEndpoint, NoCluster)
  /\ deploy' = [deploy EXCEPT ![g] = Returned]
  /\ UNCHANGED <<instIssued, teardown, nextPort, forward, sky, catalogVars>>

\* The task file cannot be written, or `sky launch` exits with an error: it
\* may have brought the cluster up all the same.
DeployFails(g) ==
  /\ deploy[g].pc \in {"yaml", "launch", "launched"}
  /\ Notify(g, "error", NoEndpoint, deploy[g].cluster)
  /\ deploy' = [deploy EXCEPT ![g] = Returned]
  /\ UNCHANGED <<instIssued, teardown, nextPort, forward, sky, catalogVars>>

LaunchSucceeds(g) ==
  /\ deploy[g].pc = "launched"
  /\ deploy' = [deploy EXCEPT ![g].pc = "discover"]
  /\ UNCHANGED <<instIssued, instances, teardown, nextPort, forward, sky, catalogVars>>

-----------------------------------------------------------------------------
\* Mutant of AttemptFails: one attempt too many.
AttemptFailsLate(g) ==
  /\ deploy[g].pc \in {"discover", "forward"}
  /\ deploy' = [deploy EXCEPT ![g].attempt = @ + 1,
                              ![g].pc = IF deploy[g].attempt = MaxRetries
                                        THEN "gaveup" ELSE "discover"]
  /\ UNCHANGED <<instIssued, instances, teardown, nextPort, forward, sky, catalogVars>>

\* getSkyPilotEndpoint: one attempt that ends in a `continue`, because kubectl
\* fails or lists no service of the cluster yet, or, with a port in hand,
\* because the port-forward does not start.
AttemptFails(g) ==
  /\ deploy[g].pc \in {"discover", "forward"}
  /\ deploy' = [deploy EXCEPT ![g].attempt = @ + 1,
                              ![g].pc = IF deploy[g].attempt + 1 = MaxRetries
                                        THEN "gaveup" ELSE "discover"]
  /\ UNCHANGED <<instIssued, instances, teardown, nextPort, forward, sky, catalogVars>>

\* The load balancer's service that kubectl lists first of those whose name
\* contains the cluster's: its own, or another cluster's.
Finds(g, d) == d \in sky /\ <<deploy[g].cluster, d>> \in Matches

\* Mutant of AllocatePort: the counter is read without being advanced.
AllocateSamePort(g) ==
  /\ deploy[g].pc = "discover"
  /\ \E d \in Clusters :
       /\ Finds(g, d)
       /\ deploy' = [deploy EXCEPT ![g].pc = "forward", ![g].port = nextPort, ![g].lbSvc = d]
  /\ UNCHANGED <<instIssued, instances, teardown, nextPort, forward, sky, catalogVars>>

\* An attempt that finds a service takes the next port, under portCounterMu.
AllocatePort(g) ==
  /\ deploy[g].pc = "discover"
  /\ \E d \in Clusters :
       /\ Finds(g, d)
       /\ deploy' = [deploy EXCEPT ![g].pc = "forward", ![g].port = nextPort, ![g].lbSvc = d]
  /\ nextPort' = nextPort + 1
  /\ UNCHANGED <<instIssued, instances, teardown, forward, sky, catalogVars>>

\* The port-forward is started; it is left running and never looked at again,
\* not even when it ends at once because somebody has the port.
StartForward(g) ==
  LET p == deploy[g].port IN
  /\ deploy[g].pc = "forward"
  /\ forward' = IF p \in BusyPorts \cup DOMAIN forward THEN forward
                ELSE Put(forward, p, deploy[g].lbSvc)
  /\ deploy' = [deploy EXCEPT ![g].pc = "found"]
  /\ UNCHANGED <<instIssued, instances, teardown, nextPort, sky, catalogVars>>

\* Mutant of ReportEndpoint: giving up is not reported.
ReportSuccessOnly(g) ==
  /\ \/ /\ deploy[g].pc = "found"
        /\ Notify(g, "running", deploy[g].port, deploy[g].cluster)
     \/ deploy[g].pc = "gaveup" /\ UNCHANGED instances
  /\ deploy' = [deploy EXCEPT ![g] = Returned]
  /\ UNCHANGED <<instIssued, teardown, nextPort, forward, sky, catalogVars>>

\* The last callback.
ReportEndpoint(g) ==
  /\ \/ /\ deploy[g].pc = "found"
        /\ Notify(g, "running", deploy[g].port, deploy[g].cluster)
     \/ /\ deploy[g].pc = "gaveup"
        /\ Notify(g, "degraded", NoEndpoint, deploy[g].cluster)
  /\ deploy' = [deploy EXCEPT ![g] = Returned]
  /\ UNCHANGED <<instIssued, teardown, nextPort, forward, sky, catalogVars>>

-----------------------------------------------------------------------------
\* What clients agree not to touch. PatientClients is their discipline, not
\* the code's: no handler looks at the status.
MayTouch(i) ==
  /\ i \in DOMAIN instances
  /\ PatientClients => instances[i].status # "deploying"

\* PATCH /api/instances/:id: a field that the body leaves out is kept.
PatchInstance(i) ==
  /\ MayTouch(i)
  /\ \E status \in PatchStatuses \cup {instances[i].status},
        endpoint \in PatchEndpoints \cup {instances[i].endpoint} :
       instances' = [instances EXCEPT ![i].status = status, ![i].endpoint = endpoint]
  /\ UNCHANGED <<instIssued, deploy, teardown, nextPort, forward, sky, catalogVars>>

\* POST /api/instances/seed registers an instance that runs already, with the
\* SkyPilot cluster it runs on, if any. No handler looks at the name; clients
\* that are careful give that of a cluster nobody owns.
Owned(c) == \/ \E i \in DOMAIN instances : instances[i].sky = c
            \/ \E g \in Routines : deploy[g].cluster = c
            \/ \E d \in Teardowns : teardown[d].down = "pending" /\ teardown[d].cluster = c

SeedInstance(t, c, via) ==
  /\ FreshInstId(t)
  /\ c \in Clusters \cup {NoCluster}
  /\ CarefulSeeds /\ c # NoCluster => c \in sky /\ ~ Owned(c)
  /\ instIssued' = instIssued \cup {t}
  /\ instances' = Put(instances, t, [status |-> "running", endpoint |-> External,
                                     sky |-> c, via |-> via])
  /\ UNCHANGED <<deploy, teardown, nextPort, forward, sky, catalogVars>>

\* DELETE /api/instances/:id up to the spawn of SkyDown: only an instance that
\* already knows its SkyPilot cluster has it torn down.
BeginDelete(d, i) ==
  LET down == instances[i].via = "skypilot" /\ instances[i].sky # NoCluster IN
  /\ MayTouch(i)
  /\ teardown[d].pc = "idle"
  /\ teardown' = [teardown EXCEPT ![d] =
                    [pc |-> "removing", inst |-> i,
                     cluster |-> IF down THEN instances[i].sky ELSE NoCluster,
                     down |-> IF down THEN "pending" ELSE "none"]]
  /\ UNCHANGED <<instIssued, instances, deploy, nextPort, forward, sky, catalogVars>>

\* Mutant of EndDelete: the record stays.
EndDeleteKeepsRecord(d) ==
  /\ teardown[d].pc = "removing"
  /\ teardown' = [teardown EXCEPT ![d].pc = "done"]
  /\ UNCHANGED <<instIssued, instances, deploy, nextPort, forward, sky, catalogVars>>

\* ... and the removal of the record.
EndDelete(d) ==
  /\ teardown[d].pc = "removing"
  /\ instances' = Drop(instances, teardown[d].inst)
  /\ teardown' = [teardown EXCEPT ![d].pc = "done"]
  /\ UNCHANGED <<instIssued, deploy, nextPort, forward, sky, catalogVars>>

\* Mutant of SkyDownSucceeds: it is run for the instance's identifier.
SkyDownMisses(d) ==
  /\ teardown[d].down = "pending"
  /\ teardown' = [teardown EXCEPT ![d].down = "ok"]
  /\ UNCHANGED <<instIssued, instances, deploy, nextPort, forward, sky, catalogVars>>

\* `sky down` ends: nothing to do for a cluster that is not (yet) there.
SkyDownSucceeds(d) ==
  /\ teardown[d].down = "pending"
  /\ sky' = sky \ {teardown[d].cluster}
  /\ teardown' = [teardown EXCEPT ![d].down = "ok"]
  /\ UNCHANGED <<instIssued, instances, deploy, nextPort, forward, catalogVars>>

\* It fails: logged, and the cluster's name is in no other place any more.
SkyDownFails(d) ==
  /\ DownMayFail
  /\ teardown[d].down = "pending"
  /\ teardown' = [teardown EXCEPT ![d].down = "failed"]
  /\ UNCHANGED <<instIssued, instances, deploy, nextPort, forward, sky, catalogVars>>

-----------------------------------------------------------------------------
\* The process dies: instances, goroutines and the port counter go with it. The
\* clusters stay, and so may the port-forwards, which are processes of their own.
ManagerLost ==
  /\ instances' = EmptyMap
  /\ deploy' = [g \in Routines |-> IF deploy[g].pc = "idle" THEN deploy[g]
                                   ELSE Returned]
  /\ teardown' = [d \in Teardowns |->
                    IF teardown[d].pc = "idle" THEN teardown[d]
                    ELSE [teardown[d] EXCEPT !.pc = "done",
                                             !.down = IF @ = "pending" THEN "none" ELSE @]]
  /\ nextPort' = 1
  /\ \E kept \in SUBSET DOMAIN forward :
       /\ ForwardsDie => kept = {}
       /\ forward' = Restrict(forward, kept)
  /\ UNCHANGED <<instIssued, sky>>

DeployStep(g) ==
  \/ NameCluster(g) \/ WriteTask(g) \/ ClusterComesUp(g) \/ DeployFails(g)
  \/ LaunchSucceeds(g) \/ AttemptFails(g) \/ AllocatePort(g) \/ StartForward(g)
  \/ ReportEndpoint(g)

TeardownStep(d) == EndDelete(d) \/ SkyDownSucceeds(d) \/ SkyDownFails(d)

Request ==
  \/ \E i \in FnMillis, t \in InstMillis, g \in Routines : DeployFunction(i, t, g)
  \/ \E i \in InstMillis : PatchInstance(i)
  \/ \E t \in InstMillis, c \in Clusters \cup {NoCluster}, via \in SeedVias :
       SeedInstance(t, c, via)
  \/ \E d \in Teardowns, i \in InstMillis : BeginDelete(d, i)

Next ==
  \/ Request
  \/ \E g \in Routines : DeployStep(g)
  \/ \E d \in Teardowns : TeardownStep(d)
  \/ CatalogRequest /\ UNCHANGED managerVars
  \/ \E s \in Savers : SaverStep(s) /\ UNCHANGED managerVars
  \/ ProcessDies /\ ManagerLost

Spec == Init /\ [][Next]_vars

\* A goroutine that can run is run, and the external commands return: `sky
\* launch` and `sky down` have no deadline in the code.
FairSpec ==
  /\ Spec
  /\ \A g \in Routines : WF_vars(DeployStep(g))
  /\ \A d \in Teardowns : WF_vars(EndDelete(d)) /\ WF_vars(SkyDownSucceeds(d) \/ SkyDownFails(d))

-----------------------------------------------------------------------------
(* Properties *)

BeingRemoved(i) == \E d \in Teardowns : teardown[d].pc = "removing" /\ teardown[d].inst = i

\* Every cluster that SkyPilot has, and somebody pays for, can still be found:
\* an instance names it, or a deployment or a teardown is at work on it, or
\* the log names it in a failed teardown; as long as the process has not died.
\* A DELETE that meets a deployment under way would break it.
NoOrphan ==
  restarts = 0 /\ ~ panicked =>
    \A c \in sky :
      \/ Owned(c)
      \/ \E d \in Teardowns : teardown[d].down = "failed" /\ teardown[d].cluster = c

\* `sky down` only ever hits the cluster of the instance that was deleted: no
\* other instance, and no deployment of another instance, is on it.
TeardownHitsOwn ==
  \A d \in Teardowns : teardown[d].down = "pending" =>
    /\ \A i \in DOMAIN instances : instances[i].sky = teardown[d].cluster => i = teardown[d].inst
    /\ \A g \in Routines : deploy[g].cluster = teardown[d].cluster
                          => deploy[g].inst = teardown[d].inst

\* An endpoint that is a local port leads to the service that was found for the
\* instance's own cluster: the port counter and the forwards of concurrent
\* deployments do not get mixed up. That service is the cluster's own if no other
\* name contains it. Ports that others listen on lead anywhere, and after a
\* restart so do those whose forwards did not die.
EndpointIsOwn ==
  \A i \in DOMAIN instances : instances[i].endpoint \in Nat \ BusyPorts =>
    /\ instances[i].endpoint \in DOMAIN forward
    /\ <<instances[i].sky, forward[instances[i].endpoint]>> \in Matches

\* The cluster behind a local endpoint is up, unless the instance is being
\* deleted: no late teardown or failed launch takes it away.
EndpointIsBacked ==
  \A i \in DOMAIN instances :
    instances[i].endpoint \in Nat /\ ~ BeingRemoved(i) => instances[i].sky \in sky

\* The lifecycle that the manager shows to a client implements the abstract
\* one, though callbacks of a deployment arrive after a DELETE.
Phase == [i \in InstMillis |->
            IF i \in DOMAIN instances
            THEN IF instances[i].status = "deploying" THEN "deploying" ELSE "settled"
            ELSE IF i \in instIssued THEN "gone" ELSE "none"]

Lifecycle == INSTANCE InstanceLifecycle WITH Ids <- InstMillis, phase <- Phase

ImplementsLifecycle == Lifecycle!LifecycleSpec

\* No instance is left "deploying" for ever.
DeploymentsSettle == Lifecycle!Concludes

\* A DELETE gives the cluster back for good, unless `sky down` fails.
DeleteReclaims ==
  \A d \in Teardowns, c \in Clusters :
    (teardown[d].pc = "removing" /\ teardown[d].cluster = c)
      ~> ([](c \notin sky) \/ teardown[d].down = "failed")
=============================================================================
