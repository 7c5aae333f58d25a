-------------------------- MODULE DeploymentManager --------------------------
(***************************************************************************)
(* The deployment manager and the bridge's services API behind it. Each    *)
(* POST of a deployment starts a goroutine that asks the bridge for a      *)
(* service and writes the outcome through its pointer to the record. The   *)
(* bridge works on for up to 600 s while its client gives up after 120 s.  *)
(*                                                                         *)
(* The record names the service <tenant>-<name>, and DELETE and scale use  *)
(* that; the goroutine asks for a service called <name>.                   *)
(***************************************************************************)
EXTENDS Naturals, Maps

CONSTANTS
  Objects,       \* *ModelDeployment: a POST makes one
  Ids,           \* deploy-<milliseconds>
  Tenants, Names,
  Joined,        \* <<tenant, name>> -> <tenant>-<name>, which may be another deployment's name
  FileOf,        \* name -> the path of <name>.yaml, cleaned: two names may share it
  Deletes,       \* DELETE handlers
  DistinctDeployIds,  \* TRUE: no two deployments are created in one millisecond
  None           \* no object

ASSUME DeploymentAssumption ==
  /\ Ids \subseteq Nat
  /\ DOMAIN FileOf = Names
  /\ DistinctDeployIds \in BOOLEAN
  /\ None \notin Objects

VARIABLES
  listed,      \* DeploymentStore.deployments: identifier -> object
  deployment,  \* object -> the record, listed or not, with its goroutine
  delete,      \* handler -> the DELETE it works on
  yaml,        \* servicesDir: file -> the object it was written for last
  services,    \* SkyPilot's: name -> whose file it runs, and who scaled it last
  downed       \* history: the names that `sky serve down` was run for

deployVars == <<listed, deployment, delete, yaml, services, downed>>

-----------------------------------------------------------------------------
\* bridge: how far POST /api/services has come. "refused": 400 or 500, an answer
\* without a status. "cut": an "error" whose body did not arrive whole. waiting:
\* the goroutine is in client.Post. valid: there are a name and a model_uri, and
\* the bridge knows the runtime.
Stages == {"asked", "written", "up", "error", "cut", "refused"}
Deployment == [id : Ids, tenant : Tenants, name : Names, valid : BOOLEAN,
               status : {"deploying", "running", "failed"},
               bridge : Stages, waiting : BOOLEAN]
NoDelete == [of |-> None]
Deleting(d) == delete[d] # NoDelete

ServiceOf(o) == Joined[<<deployment[o].tenant, deployment[o].name>>]
File(o) == FileOf[deployment[o].name]
Known == DOMAIN deployment
Issued == {deployment[o].id : o \in Known}
NewObject == CHOOSE o \in Objects : o \notin Known

\* A record is "deploying" exactly as long as its goroutine waits, and is listed
\* under its own identifier.
DeploymentsTypeOK ==
  /\ Known \subseteq Objects
  /\ \A o \in Known : /\ deployment[o] \in Deployment
                      /\ deployment[o].status = "deploying" <=> deployment[o].waiting
  /\ \A i \in DOMAIN listed : listed[i] \in Known /\ deployment[listed[i]].id = i
  /\ delete \in [Deletes -> {NoDelete}
                    \cup [of : Known, stage : {"asked", "answered", "abandoned"}]]
  /\ \A f \in DOMAIN yaml : yaml[f] \in Known
  /\ \A n \in DOMAIN services : services[n] \in [runs : Known, size : Known]

DeploymentsInit ==
  /\ listed = EmptyMap
  /\ deployment = EmptyMap
  /\ delete = [d \in Deletes |-> NoDelete]
  /\ yaml = EmptyMap
  /\ services = EmptyMap
  /\ downed = {}

-----------------------------------------------------------------------------
(* The deployment manager *)

\* POST /api/deployments. Neither name nor model nor runtime is looked at
\* (valid), and a record of the same millisecond is replaced.
CreateDeployment(i, t, n, valid) ==
  /\ Known # Objects
  /\ DistinctDeployIds => i \notin Issued
  /\ listed' = Put(listed, i, NewObject)
  /\ deployment' = Put(deployment, NewObject,
       [id |-> i, tenant |-> t, name |-> n, valid |-> valid,
        status |-> "deploying", bridge |-> "asked", waiting |-> TRUE])
  /\ UNCHANGED <<delete, yaml, services, downed>>

Ends(o, status) ==
  deployment' = [deployment EXCEPT ![o].status = status, ![o].waiting = FALSE]

\* Mutant of Answered: the outcome is stored anew.
AnsweredAnew(o) ==
  /\ deployment[o].waiting
  /\ deployment[o].bridge \notin {"asked", "written"}
  /\ Ends(o, IF deployment[o].bridge = "error" THEN "failed" ELSE "running")
  /\ listed' = Put(listed, deployment[o].id, o)
  /\ UNCHANGED <<delete, yaml, services, downed>>

\* The bridge answers in time: whatever does not read as an "error" counts as running.
Answered(o) ==
  /\ deployment[o].waiting
  /\ deployment[o].bridge \notin {"asked", "written"}
  /\ Ends(o, IF deployment[o].bridge = "error" THEN "failed" ELSE "running")
  /\ UNCHANGED <<listed, delete, yaml, services, downed>>

\* Mutant of GivesUp: the goroutine ends without an outcome.
GivesUpSilently(o) ==
  /\ deployment[o].waiting
  /\ deployment' = [deployment EXCEPT ![o].waiting = FALSE]
  /\ UNCHANGED <<listed, delete, yaml, services, downed>>

\* The bridge cannot be reached, or 120 s are over; the bridge works on.
GivesUp(o) ==
  /\ deployment[o].waiting
  /\ Ends(o, "failed")
  /\ UNCHANGED <<listed, delete, yaml, services, downed>>

\* DELETE /api/deployments/:id, up to the bridge.
BeginDelete(d, i) ==
  /\ ~ Deleting(d)
  /\ delete' = [delete EXCEPT ![d] = [of |-> listed[i], stage |-> "asked"]]
  /\ UNCHANGED <<listed, deployment, yaml, services, downed>>

\* The bridge has answered, with whatever status: what is listed under the
\* identifier goes.
EndDelete(d) ==
  /\ Deleting(d) /\ delete[d].stage = "answered"
  /\ listed' = Drop(listed, deployment[delete[d].of].id)
  /\ delete' = [delete EXCEPT ![d] = NoDelete]
  /\ UNCHANGED <<deployment, yaml, services, downed>>

\* No answer in 120 s, or the bridge cannot be reached: 502, and the record
\* stays. The bridge may still be at `sky serve down`.
DeleteGivesUp(d) ==
  /\ Deleting(d) /\ delete[d].stage = "asked"
  /\ \E later \in {NoDelete, [delete[d] EXCEPT !.stage = "abandoned"]} :
       delete' = [delete EXCEPT ![d] = later]
  /\ UNCHANGED <<listed, deployment, yaml, services, downed>>

\* PATCH /api/deployments/:id/scale, through to `sky serve update`, which may
\* come when the record is no longer listed.
ScaleDeployment(o) ==
  /\ ServiceOf(o) \in DOMAIN services
  /\ services' = [services EXCEPT ![ServiceOf(o)].size = o]
  /\ UNCHANGED <<listed, deployment, delete, yaml, downed>>

-----------------------------------------------------------------------------
(* The bridge *)

BridgeSays(o, stage) == deployment' = [deployment EXCEPT ![o].bridge = stage]

\* An unknown runtime, or a name or model missing, is a 400; a file that cannot
\* be written a 500.
Refuse(o) ==
  /\ deployment[o].bridge = "asked"
  /\ BridgeSays(o, "refused")
  /\ UNCHANGED <<listed, delete, yaml, services, downed>>

\* Mutant of WriteYAML: all services share a file.
WriteSharedYAML(o) ==
  /\ deployment[o].bridge = "asked"
  /\ deployment[o].valid
  /\ yaml' = [f \in {FileOf[n] : n \in Names} |-> o]
  /\ BridgeSays(o, "written")
  /\ UNCHANGED <<listed, delete, services, downed>>

\* POST /api/services writes <name>.yaml, over another deployment's if there is one.
WriteYAML(o) ==
  /\ deployment[o].bridge = "asked"
  /\ deployment[o].valid
  /\ yaml' = Put(yaml, File(o), o)
  /\ BridgeSays(o, "written")
  /\ UNCHANGED <<listed, delete, services, downed>>

\* `sky serve up` reads the file as it is by now.
ServeUp(o) ==
  LET n == deployment[o].name
      written == yaml[File(o)]
  IN
  /\ deployment[o].bridge = "written"
  /\ n \notin DOMAIN services
  /\ services' = Put(services, n, [runs |-> written, size |-> written])
  /\ \E stage \in {"up", "error"} : BridgeSays(o, stage)
  /\ UNCHANGED <<listed, delete, yaml, downed>>

\* It fails, for one because a service of that name is up; or it is killed after
\* 600 s, when nobody waits for the answer any more, perhaps with the service up
\* (the "error" of ServeUp).
ServeUpFails(o) ==
  /\ deployment[o].bridge = "written"
  /\ BridgeSays(o, "error")
  /\ UNCHANGED <<listed, delete, yaml, services, downed>>

\* The answer's body is cut off on its way.
CutAnswer(o) ==
  /\ deployment[o].waiting /\ deployment[o].bridge = "error"
  /\ BridgeSays(o, "cut")
  /\ UNCHANGED <<listed, delete, yaml, services, downed>>

\* DELETE /api/services/:name: `sky serve down` does its work or fails; the
\* answer is 200 in both cases, if anybody waits for it.
ServeDown(d) ==
  /\ Deleting(d) /\ delete[d].stage # "answered"
  /\ LET n == ServiceOf(delete[d].of)
     IN /\ \E s \in {services, Drop(services, n)} : services' = s
        /\ downed' = downed \cup {n}
  /\ delete' = [delete EXCEPT ![d] = IF delete[d].stage = "abandoned" THEN NoDelete
                                     ELSE [delete[d] EXCEPT !.stage = "answered"]]
  /\ UNCHANGED <<listed, deployment, yaml>>

-----------------------------------------------------------------------------
BridgeStep(o) == Refuse(o) \/ WriteYAML(o) \/ ServeUp(o) \/ ServeUpFails(o) \/ CutAnswer(o)
Outcome(o) == Answered(o) \/ GivesUp(o)

DeploymentsNext ==
  \/ \E i \in Ids, t \in Tenants, n \in Names, valid \in BOOLEAN :
       CreateDeployment(i, t, n, valid)
  \/ \E o \in Known : Outcome(o) \/ BridgeStep(o) \/ ScaleDeployment(o)
  \/ \E d \in Deletes, i \in DOMAIN listed : BeginDelete(d, i)
  \/ \E d \in Deletes : ServeDown(d) \/ EndDelete(d) \/ DeleteGivesUp(d)

\* The goroutine's HTTP client returns, by its timeout at the latest.
DeploymentsSpec ==
  /\ DeploymentsInit /\ [][DeploymentsNext]_deployVars
  /\ \A o \in Objects : WF_deployVars(o \in Known /\ Outcome(o))

-----------------------------------------------------------------------------
(* Properties *)

\* What a client sees of an identifier.
Phase == [i \in Ids |->
            IF i \in DOMAIN listed
            THEN IF deployment[listed[i]].status = "deploying" THEN "deploying" ELSE "settled"
            ELSE IF i \in Issued THEN "gone" ELSE "none"]

Lifecycle == INSTANCE InstanceLifecycle WITH phase <- Phase

\* A deployment goes through the abstract lifecycle once: an outcome that comes
\* after a DELETE does not bring it back. DistinctDeployIds is needed: a second
\* deployment of the millisecond has a settled identifier deploying again.
ImplementsLifecycle == Lifecycle!LifecycleSpec

\* No deployment stays "deploying": the bridge's client gives up in the end.
DeploymentsSettle == Lifecycle!Concludes

\* The service of a deployment that came up is there until some `sky serve down`
\* for its name, and runs its own file if no other deployment has that file.
Served(o) ==
  LET n == deployment[o].name
  IN /\ n \notin downed => n \in DOMAIN services
     /\ n \in DOMAIN services /\ (\A p \in Known \ {o} : File(p) # File(o))
          => services[n].runs = o

\* A running deployment came up and is served, though files are written and
\* read in separate steps, answers come late and other deployments come and go;
\* or its answer did not read as an error: it was refused or cut off.
RunningIsServed ==
  \A o \in Known : deployment[o].status = "running" =>
    \/ deployment[o].bridge \in {"refused", "cut"}
    \/ deployment[o].bridge = "up" /\ Served(o)

\* A deployment that has come up is not served from another tenant's file:
\* tenants have services of their own.
ServicesAreSeparate ==
  \A o \in Known :
    LET n == deployment[o].name
    IN deployment[o].status = "running" /\ deployment[o].bridge = "up" /\ n \in DOMAIN services
         => deployment[services[n].runs].tenant = deployment[o].tenant
=============================================================================
