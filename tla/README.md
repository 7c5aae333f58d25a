# DetoServe in TLA+

DetoServe is a control plane for GPU inference: a *function* is a blueprint (model, runtime, resources), an
*instance* a deployment of it on a SkyPilot cluster, and the traffic of all instances of a model enters at one
gateway. The services are Go programs under `src/control-plane` and `src/cluster-agent`. They keep their state in
memory behind a mutex each, talk JSON over HTTP, and hand slow work to goroutines that outlive the request. The
repository has no tests of them. This project models what those programs do, checks it with TLC on small instances
and proves much of it with TLAPS for all instances.

Contents: [inventory](#inventory), [plan](#plan), [modules](#modules), [runs](#runs), [properties](#properties),
[fairness](#fairness), [mutants](#mutants), [proofs](#proofs), [findings](#findings), [abstractions](#abstractions),
[not modelled](#not-modelled).

To check a run: `tlc -workers 2 -config manager_patient.cfg MCFunctionManager`; to check the proofs:
`tlapm FunctionManagerProofs.tla`. `PROJECT.json` maps every definition to source lines and lists the runs, the
mutants, the hazards and the theorems.

## Inventory

What each part keeps, what changes it, and what makes it correct.

| part | state | operations | what is hard, and what must hold |
|---|---|---|---|
| **function-manager**, functions (`main.go`) | map id → `*Function`; save goroutines | create, update, delete, list; a save goroutine per create and update | The map holds pointers, and saves and deployments read the objects later, outside the lock. A saved file should settle on the current fields; an identifier (a millisecond) should name one object; no request may take the process down. |
| **function-manager**, instances (`main.go`, `skypilot.go`) | map id → `*Instance`; deployment goroutines; the port counter; port-forward processes; SkyPilot's clusters | deploy, patch, seed, delete; `DeploySkyPilot`, `getSkyPilotEndpoint`, `SkyDown` | A deployment runs for minutes while clients patch and delete its instance. No cluster may be forgotten, torn down by the wrong DELETE, or served under the wrong endpoint; every deployment must have an outcome. |
| **config-store** | JSON files `functions/<id>.json`, `instances/<id>.json`, a git repository | write, read, list, delete, commit | Handlers open, truncate and write without a lock. A file at rest should hold the last document that was answered with "saved". The routes `POST commit` and `GET instances` are registered after `:id` and shadowed by it. |
| **api-gateway** | routing table model → backends; round-robin counters per model and per tenant; time of the last refresh | refresh every 5 s, `selectBackend`, proxy, `/v1/models` | The table is joined from two fetches; a failed fetch keeps the old table; a refresh resets the counters; counters are advanced under a read lock. Traffic should be spread evenly, a tenant with its own pool should stay on it, a deleted instance should leave the table. |
| **smart-router** | map of clusters with capacity and heartbeat time; Redis: sessions, prefix caches | heartbeat, cache report, route, health check every 10 s | A decision mixes the map, under the lock, with Redis, which is not. A request should go where its prompt's prefix is cached, else to its session's cluster, and never to one that has long been silent. |
| **cluster-manager** | map of clusters with status and heartbeat time | register, heartbeat, delete, monitor every 15 s | The status follows the age of the heartbeat in rounds; it must only improve by a heartbeat. |
| **deployment-manager** | map of deployments with status | create (spawns a goroutine that calls the bridge), scale, delete | The goroutine writes the record without the lock, HTTP status codes are not looked at, the client gives up (120 s) before the bridge does (600 s). A deployment shown as running should exist. |
| **skypilot-bridge** | registry of agent clusters with heartbeat time; YAML files of services | heartbeat, list, remove; services up, scale and down; provision and teardown | Stale after 60 s by the reader's clock. A service's file is written in one step and read by `sky serve up` in another. |
| **cluster-agent** | last discovered nodes | discovery, heartbeat loop | A failed discovery keeps the old nodes and still reports healthy; a heartbeat that was given up may arrive late. |
| **tenant-manager** | tenants, API key → tenant | create, verify, usage | Keys must lead to their own tenant; identifiers are milliseconds. |
| **autoscaler-controller** | policies with the time of the last scaling | register, evaluate | Decisions within bounds and outside the cooldown; nothing is locked. |
| Python twins, frontend, charts, manifests, dev | — | — | See [not modelled](#not-modelled). |

Interactions: clients call the function manager's API; it posts files to the config store, runs `sky` and `kubectl`,
and is polled by the gateway. The deployment manager calls the bridge, which runs `sky serve` and receives the
agents' heartbeats. The smart router is told of clusters by reports that the repository's agent does not send; the
gateway's external processor asks the tenant manager for a key's tenant. No service persists its state and reads
it back.

## Plan

All Go services have a module. What is done, in the order in which it was written:

1. `FunctionCatalog`, `FunctionManager` with the abstract `InstanceLifecycle` it implements, and their proofs.
2. `Gateway` with its proofs.
3. `SmartRouter`, `ClusterManager`, `TenantManager`, `ConfigStore` with their proofs.
4. `Fleet` (agents and the bridge's registry), `Autoscaler`, with their proofs.
5. `DeploymentManager` with the bridge's services API, a second implementation of `InstanceLifecycle`, with its proofs.

Every safety and every action property that a passing run checks is also proved. What is left, most valuable first:

* the composition of the gateway with the function manager's instances, so that a request reaches a backend whose
  endpoint was backed by a cluster when it was listed;
* `TenantSpread` for any number of handlers under the weaker premise that no two of them add a counter at once;
* `ConfigStore` as the store that `FunctionCatalog` saves to, in place of files that are written in one step.

## Modules

The modules that model code, and those that prove about them:

| module | models | proofs |
|---|---|---|
| `Maps` | Go's maps: `Put`, `Drop` | |
| `FunctionCatalog` | function-manager: functions, saves, crashes | `FunctionCatalogProofs`, `SavedConfigProofs` |
| `FunctionManager` | function-manager: instances, deployments, teardowns; extends `FunctionCatalog` | `FunctionManagerProofs` |
| `InstanceLifecycle` | abstract: what the two managers promise of an identifier | |
| `Gateway` | api-gateway, with what it sees of the manager | `GatewayProofs` |
| `SmartRouter` | smart-router with its Redis | `SmartRouterProofs` |
| `ClusterManager` | cluster-manager | `ServicesProofs` |
| `TenantManager` | tenant-manager and the requests that use it | `ServicesProofs` |
| `Autoscaler` | autoscaler-controller, one deployment | `ServicesProofs` |
| `ConfigStore` | config-store and its file system | `ServicesProofs` |
| `Fleet` | cluster agents, their heartbeats, the bridge's registry | `FleetProofs` |
| `DeploymentManager` | deployment-manager and the bridge's services API | `DeploymentManagerProofs` |

`MCFunctionCatalog`, `MCFunctionManager`, `MCGateway`, `MCSmartRouter`, `MCServices` and `MCDeploymentManager` fix the
constants of small instances. `Fleet` is checked as it is.

### FunctionCatalog

| state | in the code |
|---|---|
| `functions` | `Store.functions`, identifier → pointer |
| `heap` | the `Function` structs pointed to; one value stands for the mutable fields of a struct |
| `saver` | slots: a PUT handler between its two critical sections, or a `saveToConfigStore` goroutine |
| `configs` | the config store's `functions/` directory (the files survive everything) |
| `fnIssued` | history: the milliseconds that were made identifiers, in any order, as they are read before the lock is taken |
| `restarts`, `panicked` | that the process restarted, or died of a nil pointer |

An action is what a handler does under one acquisition of the store's lock, or one external step of a goroutine.
`UpdateFunction` and `LookupAndSpawnSave` are one PUT: the code takes the lock twice. `MarshalSave` reads the object
when the goroutine runs. `DeliverSave` is the config store's handler, which writes the file. `PanicSave` is
`saveToConfigStore(nil)`: nothing recovers, so it ends the process, as `Restart` does. `MCFunctionCatalog` adds the
history `unsure`, the identifiers of which two saves overlapped or one was lost.

### FunctionManager

Extends `FunctionCatalog`: the two share a process, so a crash takes both.

| state | in the code |
|---|---|
| `instances` | `Store.instances`; the record's `sky` is `SkyClusterName`, `via` is `DeployedVia` |
| `deploy` | the goroutines in `DeploySkyPilot`; `pc` says how far each is |
| `teardown` | a DELETE handler between `GetInstance` and `DeleteInstance`, and its `SkyDown` goroutine |
| `nextPort`, `forward` | `portCounter`, and the `kubectl port-forward` processes it was used for: port → the cluster whose service each leads to |
| `sky` | the clusters SkyPilot has: external, changed by `sky launch` and `sky down` |

A deployment goes `start → yaml → launch → launched → discover ⇄ forward → found → done`, may give up after
`MaxRetries` attempts (`gaveup → done`) and may fail from `yaml`, `launch` or `launched`. `launched` is `launch` with
the cluster already up: `sky launch` creates the cluster long before it returns, and may create it and still fail.
Every report to the record is `Notify`, the code's `onUpdate` callback, which changes nothing when the record is gone.

The search takes the first load balancer's service whose name, without dashes, contains the cluster's. `Matches` says
whose services those are: a cluster's own, and perhaps others', as "f-1-234567" without its dashes contains
"f123456". `MCMatches` has the first instance's cluster find the second one's service too. `StartForward` never looks
at the port-forward again: on a port of `BusyPorts`, where another process listens, it ends at once and unseen.

Some constants describe what the environment does, not the code, and every run and theorem names the ones it needs:

* `PatientClients`: clients leave an instance alone while its status is `deploying`;
* `CarefulSeeds`: clients seed an instance on no cluster but one that SkyPilot has and nobody owns;
* `PatchStatuses`: the statuses that clients PATCH, `deploying` among them if they like;
* `DistinctInstIds`, `DistinctFnIds`: no two of a kind are created in one millisecond;
* `ForwardsDie`: the port-forwards die with the process. They do in the image, where the manager is PID 1; a manager
  that is started by hand may leave them running, with its ports, which the next one counts from 9100 again.

The code enforces none of them, and without each the module has the behaviours that the code has.

### InstanceLifecycle

The abstract specification of one identifier as a client sees it: `none → deploying → settled → gone`, or directly
`none → settled` for a seeded one; never back. `FunctionManager` and `DeploymentManager` implement it, each through
the mapping in its `Lifecycle`, if identifiers are distinct. The function manager does so as long as clients patch no
status of a deploying instance, which the deployment's next callback would overwrite, and none back to `deploying`:
the handler accepts both, and a settled instance is then seen deploying again.

### Gateway

| state | in the code |
|---|---|
| `names`, `running` | the function manager as its two lists show it: functions' names, and the instances that have status `running` and an endpoint (external) |
| `table`, `shared`, `tenantRR` | `registry.backends`, `.roundRobin`, `.tenantRR`; a counter is the number of times it was advanced |
| `age` | `time.Since(lastRefresh)`, in ticks, up to `RefreshInterval` |
| `fetch` | a `doRefresh` under way: who runs it, how far it is, what it has been told. While there is one, the lock is held for writing |
| `request` | handlers: where each is, its model, tenant and instance |
| `served`, `hits`, `downFor` | history: requests that got an instance, how often each counter led to each instance since the last refresh, how long an instance has been down |

A refresh, by the loop or by `ensureRefreshed`, is `functions → instances → install`; `Install` replaces the table and
the counters, `FetchFails` changes neither. The lists come in any order, as the manager iterates over Go maps, and an
instance may start or stop between the list and the installation. A handler goes
`arrived → (refreshing) → checked → proxying`. Selection by the shared counter is one step, as the counter is atomic.
Selection from a tenant's own instances is `lookup → (insert) → advance`: the lock is held for reading, which keeps
refreshes out but not other selections. Two of them at the map of counters are a data race: all orders of the steps
are modelled, and so is the runtime's abort (`MapRaceAborts`).

### SmartRouter

| state | in the code |
|---|---|
| `info`, `healthy`, `age` | `router.clusters`: the last report of each, `Healthy`, and the time since `LastHeartbeat` |
| `slept` | how far the health check's sleep is; at `HealthPeriod` it waits for the lock |
| `overtaken`, `admitting` | heartbeats that got the lock before the waiting check; whether one has just let go of it |
| `sessions`, `cached`, `ttl` | Redis: `SESSION:<id>`, `PREFIX:<hash>` and that key's time to live, 0 if it has none |
| `pipe`, `lost` | a cache report between its two commands; history: keys that have lost an EXPIRE |
| `request` | handlers: what is asked, the candidates, those not scored yet, what Redis said of the others, the decision |

`BeginRoute` takes the lock for reading, `ScoreCluster` asks Redis about one candidate, `Decide` picks a best one,
pins the session and lets go, `Answer` is the second look-up, without the lock. Reports, cache reports, expiries and
other requests come in between as the lock allows; Redis is not under it. A cache report is a pipeline and no
transaction, and its error is ignored: `AddClaim` is the SADD, `RenewKey` the EXPIRE, `LoseRenewal` an EXPIRE that
never comes. A waiting health check keeps new readers out, as a waiting writer of `sync.RWMutex` does; but heartbeats
are writers too, may have the lock before it, and each of them lets the readers in that have queued meanwhile.
`Score` is `scoreCluster` times 2000 times the capacity, which makes the weights 0.5, 0.2, 0.2 and 0.1 and the ratios
integers; `AtLeast` compares two scores crosswise. An unanswered look-up counts as no signal, as in the code.

### ClusterManager, TenantManager, Autoscaler, ConfigStore

Four services that share nothing with each other. `MCServices` puts them into one run: each behaviour picks a service
and leaves the others where they start.

* `ClusterManager`: `clusters` is `ClusterStore.clusters` (status and age of the heartbeat), `registered` the
  identifiers handed out, `deleted` those of them that were deleted, `monitorAge` the time since the monitor's last
  round. One action per handler, `MonitorHealth` for a round, `ClusterTick` for time. Heartbeats come when they come.
* `TenantManager`: `tenants` and `keyIndex` are the two maps of `TenantStore`; a tenant's usage is the set of keys whose
  requests ran it up. `caller` is an inference request between `Verify` and `RecordUsage`. Two tenants may be created in
  one millisecond; `collided` remembers it. Identifiers enter in any order.
* `Autoscaler`: `current` is the policy of one deployment, `settings` and `since` what each policy object says and when
  it last scaled. `evaluation` is a handler between the check of the times (`Decide`) and their writing (`Record`),
  which nothing makes one step. `Products`, `Converted` and `Clamp` are the arithmetic of the replicas. A policy's body
  may give cooldowns and times of its own. `ago` and the flag `raced` are history.
* `ConfigStore`: `directory` and `content` are the file system, `post` a handler between `os.WriteFile`'s open, which
  truncates, and its write, with the body as it was sent: a function's must be JSON, be it `null`, an instance's need
  not, and is then written as `null` (`Marshalled`). A DELETE unlinks a file that a handler may have open; its inode is
  then reused only when that handler is done. `saved` and `unsure` are history.

### Fleet

| state | in the code |
|---|---|
| `agent` | each agent's process: whether it runs, waits in `client.Do`, how old its `state.Nodes` are, when it last reported |
| `underWay` | heartbeats on the network, awaited by their agent or given up |
| `registry` | the bridge's `clusters`: the age of what the last heartbeat said and of its arrival |

`Report` is a round of `HeartbeatLoop`: a discovery that finds nodes, finds none, or fails, and `sendHeartbeat`.
`GiveUp`, `Lose` and `Receive` are the ends of a heartbeat; one that was given up may still arrive. `Start` and `Stop`
are the pod's. `Fresh` is the list's judgement.

### DeploymentManager

| state | in the code |
|---|---|
| `deployment` | the `ModelDeployment` records, listed or not, each with its goroutine (`waiting`) and how far its POST is at the bridge (`bridge`) |
| `listed` | `DeploymentStore.deployments`, identifier → record |
| `delete` | DELETE handlers between the look-up and the removal, and the bridge's `sky serve down` that outlasts one (`abandoned`) |
| `yaml`, `services` | the bridge's `servicesDir` and SkyPilot's services: whose file each has or runs |
| `downed` | history: the names that `sky serve down` was run for |

`CreateDeployment` lists the record, over one of the same millisecond, and asks the bridge for `<name>`; `Refuse`
(400 for a missing name or model or an unknown runtime, 500 for a file that cannot be written), `WriteYAML`, `ServeUp`
and `ServeUpFails` are the bridge's handler, `CutAnswer` an error whose body does not arrive whole; `Answered` and
`GivesUp` are the ways the goroutine ends, the latter while the bridge works on. The file's path is `FileOf` the name:
`filepath.Join` cleans it, so that two spellings may share a file (`MCFileOf`). DELETE and scale use the service's other
name, `<tenant>-<name>` (`ServiceOf`), which may be another deployment's (`MCJoined`). That no two deployments are
created in one millisecond is a constant, `DistinctDeployIds`.

## Runs

Passing runs. All are exhaustive within their bounds; the constants are in the `.cfg` files.

| run | question | size |
|---|---|---|
| `catalog` | Overlapping handlers, lost POSTs, a restart, panics: does a file settle on the current fields, does every function reach the config store, does an identifier ever name a second object? | two slots, two objects, two field values |
| `manager_patient` | Patient clients, failing launches and teardowns, patches and seeds: is any cluster forgotten, does every deployment have an outcome and every DELETE give its cluster back? | two deployments, one DELETE |
| `manager_impatient` | Clients delete at any time and the process restarts: does a teardown hit a foreign cluster, does a reported endpoint lead to a service found for its own cluster, which is up, does each identifier follow the lifecycle? | two deployments, two DELETEs, one restart |
| `gateway_spread` | One handler: is a model's load even between refreshes, and a tenant's over its own instances? | two functions that may share a name, two instances, two selections |
| `gateway_recent` | Two handlers, fetches that take time and fail, crashes: how old is what a request trusts, and does the table follow the manager? | one instance, interval and timeout of one tick |
| `router` | Two requests of one session among heartbeats, expiries and failing look-ups: where do they go, and how lately was that heard of? | two clusters; idle and distant, near and half loaded, full; one cache report |
| `services` | The four small services: does the monitor judge in time, who is billed, are decisions within bounds and cooldowns, what does a file hold? | two clusters; three keys, two requests; two policies, two evaluations; two files, two POSTs |
| `fleet` | One agent and the bridge: does a late heartbeat undo a newer one, does the list notice silence and life? | one cluster, intervals of one tick, staleness after three |
| `deployments` | Deployments and DELETEs while the bridge is slower than its client: does each deployment have one outcome, and is what runs served? | two deployments, one DELETE, three names, of which two share a file and one is deleted under another |

Runs that expect a violation are under [findings](#findings).

Why the bounds suffice. Two of everything is where the properties can first fail: each relates a pair (two saves of
one function, two deployments, a deployment and a DELETE, two requests of a session, two evaluations, two POSTs of a
file). One cluster suffices in `fleet`, as the handlers of different clusters share a lock and nothing else. Three
milliseconds in `services` let two tenants collide and two differ, in any order; three inodes let both handlers hold
an unlinked file while a third is opened. One DELETE in `deployments` takes down either deployment's service, or the
other one's under a joined name. One cache report in `router` adds its claim before, between and after the steps of
the requests, and the next one renews or completes what it lost.

* Times keep their order and, where they are compared with each other, their ratio: the cluster manager's 30 s, 60 s
  and 15 s are 6, 12 and 3 ticks of 5 s; the router's period of 10 s is one tick and its timeout of 30 s is cut down to
  none, as it only adds to the others; the agent's 10 s are one tick, and 60 s are cut down to three, one more than
  a heartbeat may be under way; the autoscaler's 30 s are one tick, and 5 min are cut down to two. What is cut down is
  proved for all values.
* `MaxOvertakes` is how many heartbeats may have the lock before a health check that waits for it. It is finite: the
  writers queue for a `sync.Mutex`, whose queue is first in, first out, and which hands over to the first waiter when
  that one has been passed over for a millisecond. One overtaking heartbeat, with the readers it lets in, is checked;
  any number is proved.
* Ages saturate beyond every value they are compared with: `AgeCap = 4` is one more than `ChosenIsRecent`'s bound, and
  `AgeBound` one more than `StatusIsTimely`'s in `ClusterManager` and beyond `StaleAfter` in `Fleet`. `DownCap` bounds
  the history of downtimes: 0 where no property reads it, and `RefreshInterval + HttpTimeout`, which `PassedIsRecent`
  states, where it does.
* `SuffixMod = 3` keeps the suffixes of the identifiers 1 and 2 distinct, as six digits do for instances created
  within 1000 s; `MaxRetries = 1` or `2` instead of 12 reaches the same branches. `Routines` and `Teardowns` bound how
  many deployments and DELETEs a behaviour has, `MaxRestarts` the restarts, `MaxServed` the selections.
* The autoscaler's settings have a target that does not divide the load, under the metric's name from the policy's
  comment; one on latency, with cooldowns of its own and a scaling still to come; and one with neither target nor
  room. The snapshots lie below, within and above them; the product of the largest is beyond `LargestInt = 6`.

`CHECK_DEADLOCK FALSE` is used where identifiers and slots run out, or where nothing needs to happen (`fleet`,
`router`, `services`). Symmetry is used for safety only.

## Properties

* `SureConfigIsCurrent`: when no save of a listed function is under way, its file holds its current fields, unless two
  saves of it overlapped or one was lost.
* `IdentifiersNeverReused`: an identifier names one object for ever.
* `EventuallySaved`: an accepted function reaches the store, even if it is deleted first, unless a save is lost or the
  process dies.
* `NoOrphan`: every cluster is named by an instance, a goroutine at work, or the log of a failed teardown, until the
  process dies.
* `TeardownHitsOwn`: no other instance and no other instance's deployment is on the cluster a teardown is to remove.
* `EndpointIsOwn`: a reported local endpoint leads to the service that was found for the instance's cluster, unless
  another process has the port. That the search finds the cluster's own is not promised: it matches a part of the name.
* `EndpointIsBacked`: behind a reported local endpoint, the instance's own cluster is up.
* `ImplementsLifecycle`, `DeploymentsSettle` (of both managers): the abstract lifecycle, its safety and its liveness
  part.
* `DeleteReclaims`: after a DELETE the cluster is eventually gone for good, or `sky down` has failed.
* `SharedSpread`, `TenantSpread`: between refreshes two instances of a model, or of a tenant's part of it, differ by
  at most one selection. `TenantSpread` holds for one request at a time only (`gateway_race`).
* `PassedIsRecent`: unless its own fetch failed, a request leaves `ensureRefreshed` with a table of instances that were
  running less than a refresh interval and an HTTP timeout ago.
* `TableFollows`: an instance that stays down leaves the table; one that stays up, under a function with a name, gets
  into it.
* `CacheHitWins`: a decision for a request whose prefix was found at some candidate goes to such a one; load, latency
  and session together do not outweigh it.
* `SessionSticks`: a session stays on its cluster while that is a candidate and less than half loaded, unless the
  prefix draws it elsewhere.
* `ChosenIsRecent`: the cluster chosen was heard of within the timeout, a round of the health check and the time that
  is held up by readers: those that have the lock, and those that each overtaking heartbeat lets in.
* `ChosenIsKnown`: it is still in the map when the handler looks it up without the lock.
* `StatusIsTimely`: a cluster's status says what its silence is, to within a round of the monitor.
* `OnlyHeartbeatsHeal`: a status gets better with a heartbeat only.
* `BilledIsOwn`: a tenant is billed for requests with its own key only, and after its identifier was given twice with
  one of the keys of that identifier, never another tenant's.
* `DecisionFollowsLoad`: a decision lies within the policy's bounds and goes the way of the load.
* `CooldownsHold`: two decisions of a kind under one policy are a cooldown apart, unless they raced.
* `SettledFileIsLast`: a file that nobody writes holds, whole, what was last answered with "saved", unless two POSTs of
  it overlapped or one was cut off.
* `AwaitedIsNewest`: a heartbeat its agent waits for never replaces something newer.
* `SilentGoesStale`, `LiveIsFresh`: a cluster whose agent is gone is not listed as fresh for ever; one whose agent is up
  and knows its nodes is listed as fresh again and again, unless heartbeats are lost.
* `RunningIsServed`: a running deployment came up and is served, from its own file unless another deployment has that
  path, until a `sky serve down` for its name; or the bridge refused it, or the error was cut off on its way.
* `ServicesAreSeparate`: a deployment that came up is not served from another tenant's file. It does not hold.

`DeploymentsSettle` of the function manager is about what its deployments report. A client's PATCH of a settled
instance back to `deploying`, which the handler accepts (`main.go:305`) and which nothing would ever settle, is left out
of its run by `PatchStatuses = {"running"}`.

The type invariants say, besides types, what each module's shape relies on: a goroutine's content at each place, a
prefix key without a time to live that awaits an EXPIRE or has lost one, a cluster in the map that was registered and
not deleted since, a key that leads to a tenant, a registered policy that can be read, no POST of a function answered
with "saved" whose body is not JSON, one awaited heartbeat per agent that waits, a record that is deploying exactly as
long as its goroutine waits.

## Fairness

* `MCSpec` of `MCFunctionCatalog` and `FairSpec` of the manager assume weak fairness of each goroutine: the Go scheduler
  runs a goroutine that can run, and the HTTP client gives up after 10 s. For `sky launch` and `sky down` it is an
  assumption on SkyPilot that they return: the code gives them no deadline. `sky launch` may return with an error, and
  the search for the endpoint may fail at every attempt; nothing is assumed about success. Requests are not fair:
  clients owe nothing.
* The gateway's `FairSpec` lets time pass, runs every handler that can run, and does not starve a writer that waits for
  the lock, which `sync.RWMutex` guarantees (strong fairness of `TickerRefreshes`). That the manager answers infinitely
  often is an assumption on the network (strong fairness of `ListFunctions`, `ListInstances` and `Install`): fetches
  may fail again and again, but not for ever.
* `DeploymentsSpec` assumes that a goroutine that waits in `client.Post` returns: the client has a timeout of 120 s.
  Nothing is assumed of the bridge.
* `FleetSpec` lets time pass and bounds how long a heartbeat is under way (`MaxDelay`), and assumes that an agent that
  is due reports: that its discovery, a call of the Kubernetes API, returns. That heartbeats are not lost is a premise
  of `LiveIsFresh`, not of the specification.

## Mutants

Each property of a passing run has a mutant, an operator in the module that changes one definition as a plausible bug
would and violates the property in that run: a PUT that is not saved, a PUT that creates, a marshalling error that is
ignored, a callback or an outcome that stores the record anew, a cluster name without the suffix, a failure reported
without the cluster's name, one attempt too many, a port read without being advanced, giving up silently (in both
managers), a DELETE that keeps the record, a counter that is read and not advanced, one that is made anew for each
request, a failed fetch that counts as a refresh, a refresh loop that returns at once when the table is old, weights
that changed places, a health check that forgets clusters or spares the last, a pipeline without its EXPIRE, a heartbeat
that enters an unknown cluster, thresholds in the wrong order, a key taken for any tenant's, a policy registered
undecoded, bounds or times that changed places, a file that is not truncated, a body that is not checked, heartbeats in
the background or with news only, a list that judges by the sender's time, one YAML file for all services.

## Proofs

TLAPS proves, for every value of the constants that satisfies the modules' named assumptions:

* **Catalogue.** `CatalogTypeCorrect`: `CatalogSpec => []CatalogTypeOK`. The type invariant is not inductive: that a
  delivered save carries fields needs `SavesCarryFields` (an object that is listed or held by a save is allocated, and
  what a request carries has been read from one). `CatalogIdentifiers`: `IdentifiersNeverReused`, if identifiers are
  distinct. Only a creation adds an entry, and it takes an identifier that was never issued. `SureConfigsAreCurrent`:
  `MCSpec => []SureConfigIsCurrent`, by `SureInv`: no object is listed under two identifiers (`OwnObjects`), and of an
  identifier that is not unsure at most one save is under way (`Single`), which is going to bring the file up to date,
  or there is none and the file is (`Current`). A creation that takes an identifier again comes with a save of its own,
  so that identifiers need not be distinct.
* **Function manager.** `ManagerTypeCorrect`: `Spec => []TypeOK`, by `ShapeInv`: what each place in a deployment implies
  for the goroutine's content (`RoutineOK`), the same for a teardown (`TeardownOK`), and that every identifier in use
  was issued. `TeardownIsSafe`: `Spec => []TeardownHitsOwn`, if identifiers are distinct, their suffixes are, and seeds
  are careful.
  `OwnerInv` is the argument: `Claims(c, i)` says that `i` is on cluster `c`, through its record, its goroutine or its
  teardown; no cluster is claimed by two identifiers (`OneOwner`). It is inductive only with `UnusedSuffix` (an
  identifier whose deployment has not named its cluster yet shares its suffix with no known cluster) and `OneRoutine`
  (one goroutine per identifier). Every step but two makes no new claim (`NoNewClaim`); naming a cluster and seeding an
  instance make one on a cluster that nobody has (`OneNewClaim`). All premises are needed: without the second,
  deployments of one function share a cluster; without the third, two instances are seeded on one; without the first,
  an instance can be seeded on a cluster left over from an identifier whose second deployment is about to give its own
  cluster the same name.
  * `EndpointsAreOwn`: `Spec => []EndpointIsOwn`, if port-forwards die with the process (`ForwardsDie`), for all names
    that contain others and all busy ports. `PortsTaken` says that a port that was given out is below the counter, and
    one deployment's alone until its port-forward, which leads to a service found for its cluster, is started.
    `EndpointsLeadHome` draws the conclusion for names that contain no other and ports that nobody else listens on:
    then every local endpoint leads to the instance's own cluster. With the code's names and ports neither is sure.
  * `EndpointsAreBacked`: `Spec => []EndpointIsBacked`, under the premises of `TeardownIsSafe`. `BackedInv` follows the
    cluster from the launch to the report; that no teardown removes it meanwhile is `OneOwner`.
  * `NoClusterIsOrphaned`: `Spec => []NoOrphan`, for patient clients, careful seeds and distinct identifiers, but
    whether or not suffixes are distinct. `AccountInv` says who accounts for each cluster while the process lives: the
    log, somebody at work, or a record. It needs that the record of a deployment that runs is there and names its
    cluster (`RoutinesRecorded`, where patience comes in), that no removal meets such a record (`RemovalsSettled`), and
    that an instance whose DELETE will not tear its cluster down has it in the log (`ManualLogged`).
  * `InstancesImplementLifecycle`: `Spec => ImplementsLifecycle`, for distinct identifiers and `OutcomesStand`: clients
    patch no status, or are patient and patch none to `deploying`. The invariant is that a deployment under way has its
    record at `deploying`, or none (`Deploying`). Both premises are needed: two creations in one millisecond, a PATCH
    that a callback overwrites, or a PATCH to `deploying` let a client see a settled identifier deploying again.
* **Gateway.** `GatewayTypeCorrect`: `Spec => []TypeOK`, with `ReadersOK`: who selects for a tenant has a model and a
  tenant. `PassesRecent`: `Spec => PassedIsRecent`. `RecentInv` bounds the downtime of what is in a list by the time
  the list has been on its way, and of what is in a fresh table by the table's age and the timeout; `PassesFresh` is
  the rest: every way out of `ensureRefreshed` but a failed fetch leaves a fresh table. `SharedIsEven`:
  `Spec => []SharedSpread`. `SpreadInv` says who is ahead: the positions after the first one up to the one that the
  counter points at. That counting modulo the length goes round (`NextTurn`) is proved from division. `TenantIsEven`:
  `Spec => []TenantSpread`, if requests come one at a time (`OneAtATime`). `TenantInv` is the same count by places in a
  pool (`Rank`, a cardinality; `Ranks` proves that places differ and lie below the pool's size), and `SelectsAlone` says
  what a handler still knows when it adds and advances the counter: the table has not been replaced, and the counter is
  there or not as it was looked up. The second is what another handler breaks in `gateway_race`.
* **Smart router.** `RouterTypeCorrect`, `PrefixDecides` (`CacheHitWins`), `ChosenStaysKnown` (`ChosenIsKnown`),
  `SessionsStick` (`SessionSticks`), `ChosenWasHeardOf` (`ChosenIsRecent`). `RouterInv` is the type invariant with what
  the lock keeps while a request is scored (`ScoredUnderLock`: candidates are healthy and have room), what remains of it
  afterwards (`DecidedWell`), and `HealthyIsRecent`, which follows the age of a healthy cluster's heartbeat through the
  health check's sleep and through its wait, one batch of readers after the other: the bound is that of `ChosenIsRecent`
  with the overtakes so far, and grows by one `RedisTimeout` with each. It holds for every `MaxOvertakes`. That a key
  without a time to live awaits or has lost its EXPIRE is part of the types, and holds although each of the pipeline's
  commands may fail. The scores need arithmetic with products (`TimesMonotone`, `TimesStrict`, `PointsBeat`,
  `ScoreBounds`): the bounds hold for every load below every capacity, and every latency.
* **Cluster manager.** `ClustersTypeCorrect`, `StatusIsAlwaysTimely`, `StatusHealsByHeartbeat`. `ClusterInv` strengthens
  `StatusIsTimely` by the time since the monitor's last round (`Timely`); without it a tick could take a status over
  its bound.
* **Tenant manager.** `TenantsTypeCorrect`, `BillingIsOwn`. `KeysAreOwn`: a request under way has the tenant its key
  leads to, and no key but its own leads to a tenant whose identifier was given once.
* **Config store.** `StoreTypeCorrect`, `SettledFilesAreLast`. `StoreInv` adds that a handler's inode is no other file's
  (`PostsAreOwn`) and that a file that nothing makes unsure has one writer at most, which found it empty
  (`WritesAreSingle`).
* **Autoscaler.** `ScalerTypeCorrect`, `DecisionsFollowLoad` (`DecisionFollowsLoad`), `CooldownsAreKept`
  (`CooldownsHold`). `ScalerInv` says of each evaluation under way that its decision is sound (`Sound`) and that the
  cooldown was over when it was taken. That the rounded product goes the way of the load is proved from bounds of the
  quotient (`QuotientBounds`, `ProductsFollowLoad`), that clamping keeps the way and the bounds by `ClampFollows`.
* **Fleet.** `FleetTypeCorrect` and `AwaitedHeartbeatsAreNewest` (`AwaitedIsNewest`). `FleetInv` adds to the types that a
  waiting agent has exactly one awaited heartbeat (`OneAwaited`), that this one carries the agent's nodes, and that
  neither the registry nor any heartbeat on its way tells of newer ones (`NewsInOrder`). The module assumes that
  `ClientTimeout` is not beyond `MaxDelay`: a request that its client still waits for may still be under way.
* **Deployment manager.** `DeploymentsTypeCorrect`, by `DeployInv` (the types, and that a written file stays).
  `DeploymentsImplementLifecycle`: `DeploymentsSpec => ImplementsLifecycle`, if no two deployments are created in one
  millisecond; every step maps to a step of `InstanceLifecycle` or to a stutter. Without the premise the second creation
  shows a settled identifier deploying again. `RunningStaysServed`: `RunningIsServed`, whether or not identifiers are
  distinct, by `ServedInv`: what the bridge has started for a deployment is there until its name is taken down, and its
  file is its own if no other deployment has that path (`Kept`, `OwnFile`), and "running" means that it came up, or that
  the bridge refused it or its error was cut off (`Honest`). `OwnNamesSeparate`: `DeploymentsSpec /\ []FilesApart =>
  []ServicesAreSeparate`: the property that `deployments_shared` refutes holds as long as no two tenants' models have
  files of one path (`FilesApart`), since files and services always belong to deployments of their path (`FilesNamed`),
  however writes, `serve up`, scale and DELETE interleave.

The strengthenings were model-checked as invariants of small instances before they were proved.

Premises belong to the theorems that need them and not to the modules: `DistinctInstIds`, `DistinctFnIds`,
`DistinctDeployIds`, `SuffixesDistinct`, `PatientClients` or `OutcomesStand`, `CarefulSeeds`, `ForwardsDie`, exact
`Matches` and no `BusyPorts`, `OneAtATime`, `FilesApart`. All can be met: passing runs have instances that meet each of
them but the last and the exact `Matches`; `FilesApart` holds in every behaviour whose tenants choose other names. What
goes wrong without most of them is said above, or shown by a run that expects a violation. The named assumptions in the
modules say what kind of value a constant is, and relate times where the code's own constants do.

Only model-checked, as they are out of the prover's reach: the liveness properties `EventuallySaved`,
`DeploymentsSettle` (twice), `DeleteReclaims`, `TableFollows`, `SilentGoesStale` and `LiveIsFresh`.

## Findings

Runs that expect a violation show where the code does not do what the repository's documents say.

* `manager_orphan`: an instance is deleted while its deployment runs; its cluster comes up and nothing names it, though
  the API's description says that a DELETE tears it down.
* `gateway_race`: two requests of one tenant both find no counter and both add one; both go to the same instance. (The
  runtime may notice the race and abort the process instead.)
* `deployments_shared`: two tenants deploy models of one name. The bridge is asked for `<name>`, so that the second
  one's file may be in place when `sky serve up` reads it for the first; the first tenant's deployment runs the second
  one's file, though `ARCHITECTURE.md` promises separate services per tenant and model.

Also visible in the modules, and listed under the hazards: a DELETE between the two lookups of a PUT makes the save
goroutine dereference nil (`PanicSave`); nothing reads the config store's files back (`Restart`); an answer with an HTTP
error and a body without the field `error`, or one that is cut off, counts as running (`Answered` after `Refuse` and
`CutAnswer`); a cluster's endpoint may lead to the service of another one whose name contains its own (`AllocatePort`,
`StartForward`); the claims of a cache report whose EXPIRE is lost outlive their 60 s (`LoseRenewal`).

## Abstractions

* The mutable fields of a function are one value, also the name that a cluster's name is made of. A torn read of
  several fields (the code assigns them one by one while others read) is not represented.
* A cluster's name is the pair of the function's slug and the identifier modulo `SuffixMod`.
* Which services a cluster's name finds is given by `Matches`; how a name is stripped of its dashes and compared is left
  to the constant.
* The instance fields that no decision reads (tenant, region, model, the displayed cluster) are left out; so are the
  task file's text, logs, and the reads that change nothing (lists, gets, statistics).
* A port-forward is never seen to end, as in the code; that its process ends with the cluster is not modelled.
* A client that PATCHes an endpoint writes an external one or none (`PatchEndpoints`), not a local port of the manager.
* Slots (`Savers`) free themselves and are reused.
* For `FunctionCatalog` the config store is a directory whose files are written in one step; `ConfigStore` models the
  store itself. The two are not composed.
* The gateway's requests are their model and tenant. What is proxied, the answers' contents, and which of the routes
  was taken are left out, but for the catch-all route's guess of the model; `/v1/completions` is forwarded to the
  backend's `/v1/chat/completions`, and a model may be asked for by any route.
* A tenant's counter is identified by the pair of model and tenant; the code joins them with a colon, so that pairs
  with colons inside may share a counter. Counters do not wrap: they are made anew at each refresh, long before 2^64.
* An instance runs or not; its endpoint is fixed. A tenant without instances of its own is served by all instances of
  the model, as in the code.
* The router's scores are exact; the code's are floats, so that two scores within a rounding error of each other may
  swap. A cluster without a free slot, or without capacity, is no candidate, as in the code, so that no score divides
  by zero. The time a reader keeps the lock is bounded by `RedisTimeout`, as the client's own timeouts bound it.
* The autoscaler's bounds, targets and metrics are natural numbers, and its product of a float quotient is an interval:
  the exact ceiling, or one more where the product is a whole number. A product beyond `LargestInt` is left open as Go
  leaves its conversion. With a target of zero Go's conversion is left open; the model takes a value below and one above
  all bounds. One deployment has the policies; evaluations of different deployments share no policy.
* The bridge's answer after its own 600 s never reaches a client that gave up at 120 s, and is one of its errors.
* A service is whose YAML file it runs and who scaled it last. `sky serve` does its work, or fails, or does it and
  reports a failure.
* Heartbeats carry the age of the nodes they tell of; the rest of their body is left out. An agent has a `CLUSTER_ID`:
  one without draws a new name at each start, and is a new cluster. There is one process per cluster, and when a pod is
  back, heartbeats of the old process are over: the overlap of two pods in a rolling update, which the chart's
  Deployment has by default (`charts/detoserve-agent/templates/deployment.yaml`), is not modelled.
* In the config store `POST commit` and `GET instances` are what Fiber makes of them, a POST of the function "commit" and
  a GET of the function "instances". A write of one document over another that arrived since the open may leave the
  end of the other (`Mixed`).
* Tenants' quotas are stored and never looked at; nothing suspends a tenant.

## Not modelled

* The bridge's `POST` and `DELETE` of `/api/clusters/provision` hand a command to SkyPilot and keep nothing; the listings
  of resources and GPUs read the registry and `sky`'s output. No property of this system depends on them.
* The Python twins (`server.py` of the function manager and the gateway, the bridge's `main.py`, `agent.py`) are earlier
  implementations of the Go services and not what the images build.
* The frontend is a client that polls the APIs; charts, manifests, CRDs, sample services and development scripts are
  configuration.
