-------------------------------- MODULE Gateway --------------------------------
(***************************************************************************)
(* The API gateway: a table from models to running instances, joined from  *)
(* two lists fetched from the function manager, and the selection of an    *)
(* instance for each request.                                              *)
(*                                                                         *)
(* One read-write lock guards the table. A refresh holds it for writing    *)
(* during both fetches. A selection holds it for reading only, although it *)
(* advances counters, and adds them for tenants.                           *)
(***************************************************************************)
EXTENDS Naturals, SequencesExt, Maps

CONSTANTS
  Fns,              \* functions of the manager
  Insts,            \* instances of the manager
  FnOf,             \* instance -> its function
  TenantOf,         \* instance -> its tenant or NoTenant
  OwnName,          \* instance -> the function name it was deployed under
  Models,           \* names of functions
  Tenants,          \* tenants that send requests
  Requests,         \* request handlers
  RefreshInterval,  \* 5 s, in ticks
  HttpTimeout,      \* 5 s, in ticks
  FetchMayFail,     \* TRUE: a fetch may fail
  MaxServed,        \* bound: requests that get an instance
  DownCap,          \* bound: up to where the history counts ticks of downtime
  Absent,           \* the name of a function that is not listed
  NoModel,          \* the empty name
  NoTenant,         \* no X-Tenant-ID header, or an instance without a tenant
  NoInst,
  Ticker            \* the refresh loop, and the refresh before it starts

ASSUME GatewayAssumption ==
  /\ FnOf \in [Insts -> Fns]
  /\ TenantOf \in [Insts -> Tenants \cup {NoTenant}]
  /\ OwnName \in [Insts -> Models \cup {NoModel}]
  /\ RefreshInterval \in Nat \ {0}
  /\ HttpTimeout \in Nat \ {0}
  /\ FetchMayFail \in BOOLEAN
  /\ MaxServed \in Nat /\ DownCap \in Nat
  /\ {Absent, NoModel} \cap Models = {} /\ Absent # NoModel
  /\ NoTenant \notin Tenants
  /\ NoInst \notin Insts
  /\ Ticker \notin Requests
  /\ IsFiniteSet(Insts)

VARIABLES
  names,      \* the manager's functions: function -> name (external)
  running,    \* its instances that run and have an endpoint (external)
  table,      \* registry.backends
  age,        \* ticks since registry.lastRefresh, up to RefreshInterval
  shared,     \* registry.roundRobin: model -> selections made with it
  tenantRR,   \* registry.tenantRR: <<model, tenant>> -> selections made with it
  fetch,      \* the refresh under way, which holds the lock
  request,    \* handler -> the request it works on
  served,     \* requests that got an instance so far
  hits,       \* history: counter -> instance -> its share since the last refresh
  downFor     \* history: ticks since the instance was last running

managerVars == <<names, running>>
registryVars == <<table, age, shared, tenantRR>>
historyVars == <<served, hits>>
vars == <<managerVars, registryVars, fetch, request, historyVars, downFor>>

-----------------------------------------------------------------------------
Keys == Models \X (Tenants \cup {NoTenant})

\* doRefresh: "functions" and "instances" await the two answers, "install"
\* has both.
NoFetch == [by |-> Ticker, stage |-> "none", waited |-> 0,
            names |-> [f \in Fns |-> Absent], up |-> {}]

Fetch == [by : Requests \cup {Ticker},
          stage : {"none", "functions", "instances", "install"},
          waited : 0 .. HttpTimeout,
          names : [Fns -> Models \cup {Absent, NoModel}],
          up : SUBSET Insts]

\* "arrived": before ensureRefreshed. "refreshing": in it, fetching.
\* "checked": behind it. "lookup", "insert", "advance": in selectBackend, on
\* a counter of its tenant. "proxying": waiting for the instance's answer.
Request == [pc : {"idle", "arrived", "refreshing", "checked", "lookup", "insert",
                  "advance", "proxying"},
            model : Models \cup {NoModel},
            tenant : Tenants \cup {NoTenant},
            inst : Insts \cup {NoInst}]

IdleRequest == [pc |-> "idle", model |-> NoModel, tenant |-> NoTenant, inst |-> NoInst]

TypeOK ==
  /\ names \in [Fns -> Models \cup {Absent, NoModel}]
  /\ running \subseteq Insts
  /\ DOMAIN table = Models
  /\ \A m \in Models : table[m] \in Seq(Insts)
  /\ age \in 0 .. RefreshInterval
  /\ shared \in [Models -> Nat]
  /\ DOMAIN tenantRR \subseteq Models \X Tenants
  /\ \A k \in DOMAIN tenantRR : tenantRR[k] \in Nat
  /\ fetch \in Fetch
  /\ request \in [Requests -> Request]
  /\ served \in Nat
  /\ hits \in [Keys -> [Insts -> Nat]]
  /\ downFor \in [Insts -> 0 .. DownCap]

Init ==
  /\ names \in [Fns -> Models \cup {Absent, NoModel}]
  /\ running \in SUBSET Insts
  /\ table = [m \in Models |-> << >>]
  /\ age = RefreshInterval
  /\ shared = [m \in Models |-> 0]
  /\ tenantRR = EmptyMap
  /\ fetch = NoFetch
  /\ request = [q \in Requests |-> IdleRequest]
  /\ served = 0
  /\ hits = [k \in Keys |-> [i \in Insts |-> 0]]
  /\ downFor = [i \in Insts |-> IF i \in running THEN 0 ELSE DownCap]

-----------------------------------------------------------------------------
(* The function manager, as its two lists show it *)

\* A function is created, renamed or deleted. A POST accepts an empty name, a
\* PUT does not.
ChangeFunction(f, n) ==
  /\ n = NoModel => names[f] = Absent
  /\ names' = [names EXCEPT ![f] = n]
  /\ UNCHANGED <<running, registryVars, fetch, request, historyVars, downFor>>

InstanceRuns(i) ==
  /\ i \notin running
  /\ running' = running \cup {i}
  /\ downFor' = [downFor EXCEPT ![i] = 0]
  /\ UNCHANGED <<names, registryVars, fetch, request, historyVars>>

\* An instance is deleted, or patched out of "running".
InstanceStops(i) ==
  /\ i \in running
  /\ running' = running \ {i}
  /\ UNCHANGED <<names, registryVars, fetch, request, historyVars, downFor>>

\* The HTTP client gives each exchange HttpTimeout.
Tick ==
  /\ fetch.stage # "none" => fetch.waited < HttpTimeout
  /\ age' = IF age < RefreshInterval THEN age + 1 ELSE age
  /\ fetch' = IF fetch.stage = "none" THEN fetch ELSE [fetch EXCEPT !.waited = @ + 1]
  /\ downFor' = [i \in Insts |-> IF i \in running THEN 0
                                 ELSE IF downFor[i] < DownCap THEN downFor[i] + 1
                                 ELSE downFor[i]]
  /\ UNCHANGED <<managerVars, table, shared, tenantRR, request, historyVars>>

-----------------------------------------------------------------------------
(* The lock, and the refresh that holds it *)

Reading(q) == request[q].pc \in {"lookup", "insert", "advance"}
WriteFree == fetch.stage = "none" /\ \A q \in Requests : ~ Reading(q)
ReadFree == fetch.stage = "none"

BeginRefresh(p) ==
  fetch' = [NoFetch EXCEPT !.by = p, !.stage = "functions"]

\* Mutant of TickerRefreshes: the loop returns at once when the table is old.
RefreshWhenFresh ==
  /\ WriteFree
  /\ age < RefreshInterval
  /\ BeginRefresh(Ticker)
  /\ UNCHANGED <<managerVars, registryVars, request, historyVars, downFor>>

\* registry.refresh, from the loop's ticker; when the table is fresh it
\* returns at once. The refresh before the server listens is one of these.
TickerRefreshes ==
  /\ WriteFree
  /\ age = RefreshInterval
  /\ BeginRefresh(Ticker)
  /\ UNCHANGED <<managerVars, registryVars, request, historyVars, downFor>>

\* The manager lists its functions; the gateway asks for the instances.
ListFunctions ==
  /\ fetch.stage = "functions"
  /\ fetch' = [fetch EXCEPT !.stage = "instances", !.waited = 0, !.names = names]
  /\ UNCHANGED <<managerVars, registryVars, request, historyVars, downFor>>

\* The manager lists its instances; the answer is on its way.
ListInstances ==
  /\ fetch.stage = "instances"
  /\ fetch' = [fetch EXCEPT !.stage = "install", !.up = running]
  /\ UNCHANGED <<managerVars, registryVars, request, historyVars, downFor>>

\* The refresher leaves ensureRefreshed, and the lock is free again.
EndRefresh ==
  /\ fetch' = NoFetch
  /\ request' = IF fetch.by = Ticker THEN request
                ELSE [request EXCEPT ![fetch.by].pc = "checked"]

\* The name under which an instance is listed: its function's, or, when that
\* is empty, its own.
Label(i) == LET n == fetch.names[FnOf[i]] IN IF n = NoModel THEN OwnName[i] ELSE n

\* Mutant of Install: unnamed instances are listed, too.
InstallUnnamed ==
  /\ fetch.stage = "install"
  /\ table' \in [Models \cup {NoModel} -> SetToSeqs(fetch.up)]
  /\ \A m \in Models \cup {NoModel} : Range(table'[m]) = {i \in fetch.up : Label(i) = m}
  /\ age' = 0
  /\ shared' = [m \in Models |-> 0]
  /\ tenantRR' = EmptyMap
  /\ hits' = [k \in Keys |-> [i \in Insts |-> 0]]
  /\ EndRefresh
  /\ UNCHANGED <<managerVars, served, downFor>>

\* Both lists are there: the table is replaced, in the order in which the
\* manager listed the instances, and every counter starts anew.
Install ==
  /\ fetch.stage = "install"
  /\ table' \in [Models -> UNION {SetToSeqs(s) : s \in SUBSET fetch.up}]
  /\ \A m \in Models : Range(table'[m]) = {i \in fetch.up : Label(i) = m}
  /\ age' = 0
  /\ shared' = [m \in Models |-> 0]
  /\ tenantRR' = EmptyMap
  /\ hits' = [k \in Keys |-> [i \in Insts |-> 0]]
  /\ EndRefresh
  /\ UNCHANGED <<managerVars, served, downFor>>

\* Mutant of FetchFails: the attempt counts as a refresh.
FailureRefreshes ==
  /\ FetchMayFail
  /\ fetch.stage # "none"
  /\ EndRefresh
  /\ age' = 0
  /\ UNCHANGED <<managerVars, table, shared, tenantRR, historyVars, downFor>>

\* A refused connection, a timeout, a status that is not 200, or a body that
\* does not parse: the old table and its age stay.
FetchFails ==
  /\ FetchMayFail
  /\ fetch.stage # "none"
  /\ EndRefresh
  /\ UNCHANGED <<managerVars, registryVars, historyVars, downFor>>

-----------------------------------------------------------------------------
(* Requests *)

Arrive(q, m, t) ==
  /\ request[q].pc = "idle"
  /\ served < MaxServed
  /\ request' = [request EXCEPT ![q] = [pc |-> "arrived", model |-> m, tenant |-> t,
                                        inst |-> NoInst]]
  /\ UNCHANGED <<managerVars, registryVars, fetch, historyVars, downFor>>

EnsureRefreshed(q) ==
  /\ request[q].pc = "arrived"
  /\ WriteFree
  /\ IF age = RefreshInterval
     THEN /\ BeginRefresh(q)
          /\ request' = [request EXCEPT ![q].pc = "refreshing"]
     ELSE /\ request' = [request EXCEPT ![q].pc = "checked"]
          /\ UNCHANGED fetch
  /\ UNCHANGED <<managerVars, registryVars, historyVars, downFor>>

\* Answered from the table, or with an error: a list, a health check, a
\* request that names no model, or one that names a model nobody serves.
AnswerAtOnce(q) ==
  /\ request[q].pc = "checked"
  /\ ReadFree
  /\ \/ request[q].model = NoModel
     \/ request[q].model # NoModel /\ table[request[q].model] = << >>
  /\ request' = [request EXCEPT ![q] = IdleRequest]
  /\ UNCHANGED <<managerVars, registryVars, fetch, historyVars, downFor>>

\* The catch-all route: a request that names no model means the only one.
ResolveModel(q) ==
  LET listed == {m \in Models : table[m] # << >>} IN
  /\ request[q].pc = "checked"
  /\ ReadFree
  /\ request[q].model = NoModel
  /\ \E m \in Models : /\ listed = {m}
                       /\ request' = [request EXCEPT ![q].model = m]
  /\ UNCHANGED <<managerVars, registryVars, fetch, historyVars, downFor>>

\* The tenant's own instances of the model, as positions in the table.
Pool(m, t) == {p \in DOMAIN table[m] : t # NoTenant /\ TenantOf[table[m][p]] = t}

\* What counter.Add(1) % len(...) leads to, in the table and in a pool.
SharedTurn(m) == table[m][((shared[m] + 1) % Len(table[m])) + 1]
IsTurn(p, pool, count) ==
  Cardinality({o \in pool : o < p}) = (count + 1) % Cardinality(pool)

Take(q, k, i) ==
  /\ request' = [request EXCEPT ![q].pc = "proxying", ![q].inst = i]
  /\ served' = served + 1
  /\ hits' = [hits EXCEPT ![k][i] = @ + 1]

\* Mutant of SelectShared: the counter is read, not advanced.
SelectUncounted(q) ==
  LET m == request[q].model IN
  /\ request[q].pc = "checked"
  /\ ReadFree
  /\ m # NoModel /\ table[m] # << >>
  /\ Pool(m, request[q].tenant) = {}
  /\ Take(q, <<m, NoTenant>>, SharedTurn(m))
  /\ UNCHANGED <<managerVars, registryVars, fetch, downFor>>

\* selectBackend for a tenant without instances of its own, or no tenant: all
\* instances of the model take turns. The counter is atomic.
SelectShared(q) ==
  LET m == request[q].model IN
  /\ request[q].pc = "checked"
  /\ ReadFree
  /\ m # NoModel /\ table[m] # << >>
  /\ Pool(m, request[q].tenant) = {}
  /\ Take(q, <<m, NoTenant>>, SharedTurn(m))
  /\ shared' = [shared EXCEPT ![m] = @ + 1]
  /\ UNCHANGED <<managerVars, table, age, tenantRR, fetch, downFor>>

\* ... for a tenant that has some: they take turns by a counter of their own,
\* which is looked up, added if need be, and looked up again to be advanced,
\* all with the lock held for reading, which does not keep other selections out.
SelectTenant(q) ==
  LET m == request[q].model IN
  /\ request[q].pc = "checked"
  /\ ReadFree
  /\ m # NoModel
  /\ Pool(m, request[q].tenant) # {}
  /\ request' = [request EXCEPT ![q].pc = "lookup"]
  /\ UNCHANGED <<managerVars, registryVars, fetch, historyVars, downFor>>

\* Mutant of LookUpCounter: the counter is made anew every time.
LookUpNothing(q) ==
  /\ request[q].pc = "lookup"
  /\ request' = [request EXCEPT ![q].pc = "insert"]
  /\ UNCHANGED <<managerVars, registryVars, fetch, historyVars, downFor>>

LookUpCounter(q) ==
  /\ request[q].pc = "lookup"
  /\ request' = [request EXCEPT ![q].pc =
                   IF <<request[q].model, request[q].tenant>> \in DOMAIN tenantRR
                   THEN "advance" ELSE "insert"]
  /\ UNCHANGED <<managerVars, registryVars, fetch, historyVars, downFor>>

InsertCounter(q) ==
  /\ request[q].pc = "insert"
  /\ tenantRR' = Put(tenantRR, <<request[q].model, request[q].tenant>>, 0)
  /\ request' = [request EXCEPT ![q].pc = "advance"]
  /\ UNCHANGED <<managerVars, table, age, shared, fetch, historyVars, downFor>>

AdvanceCounter(q) ==
  LET m == request[q].model
      k == <<m, request[q].tenant>>
      pool == Pool(m, request[q].tenant) IN
  /\ request[q].pc = "advance"
  /\ \E p \in pool : IsTurn(p, pool, tenantRR[k]) /\ Take(q, k, table[m][p])
  /\ tenantRR' = [tenantRR EXCEPT ![k] = @ + 1]
  /\ UNCHANGED <<managerVars, table, age, shared, fetch, downFor>>

\* The instance answers, or the gateway does with 502.
Answer(q) ==
  /\ request[q].pc = "proxying"
  /\ request' = [request EXCEPT ![q] = IdleRequest]
  /\ UNCHANGED <<managerVars, registryVars, fetch, historyVars, downFor>>

\* The Go runtime may find a selection writing the map of counters while
\* another one uses it, and abort the process. It is started again.
MapRaceAborts ==
  /\ \E q, p \in Requests : q # p /\ request[q].pc = "insert" /\ Reading(p)
  /\ table' = [m \in Models |-> << >>]
  /\ age' = RefreshInterval
  /\ shared' = [m \in Models |-> 0]
  /\ tenantRR' = EmptyMap
  /\ fetch' = NoFetch
  /\ request' = [q \in Requests |-> IdleRequest]
  /\ hits' = [k \in Keys |-> [i \in Insts |-> 0]]
  /\ UNCHANGED <<managerVars, served, downFor>>

-----------------------------------------------------------------------------
RefreshStep == ListFunctions \/ ListInstances \/ Install \/ FetchFails

RequestStep(q) ==
  \/ EnsureRefreshed(q) \/ AnswerAtOnce(q) \/ ResolveModel(q)
  \/ SelectShared(q) \/ SelectTenant(q)
  \/ LookUpCounter(q) \/ InsertCounter(q) \/ AdvanceCounter(q) \/ Answer(q)

ManagerStep ==
  \/ \E f \in Fns, n \in Models \cup {Absent, NoModel} : ChangeFunction(f, n)
  \/ \E i \in Insts : InstanceRuns(i) \/ InstanceStops(i)

Next ==
  \/ ManagerStep
  \/ Tick
  \/ TickerRefreshes
  \/ RefreshStep
  \/ \E q \in Requests, m \in Models \cup {NoModel}, t \in Tenants \cup {NoTenant} :
       Arrive(q, m, t)
  \/ \E q \in Requests : RequestStep(q)
  \/ MapRaceAborts

Spec == Init /\ [][Next]_vars

\* Time passes, goroutines that can run are run, a writer waiting for the lock
\* is not starved (sync.RWMutex), and the manager answers from time to time.
FairSpec ==
  /\ Spec
  /\ WF_vars(Tick) /\ SF_vars(TickerRefreshes)
  /\ WF_vars(RefreshStep)
  /\ SF_vars(ListFunctions) /\ SF_vars(ListInstances) /\ SF_vars(Install)
  /\ \A q \in Requests : WF_vars(RequestStep(q))

-----------------------------------------------------------------------------
(* Properties *)

Listed == UNION {Range(table[m]) : m \in Models}

Even(k, insts) == \A i, j \in insts : hits[k][i] <= hits[k][j] + 1

\* Between two refreshes the requests without an instance of their tenant are
\* spread evenly, however handlers interleave.
SharedSpread == \A m \in Models : Even(<<m, NoTenant>>, Range(table[m]))

\* The same of a tenant's requests over the tenant's own instances. Two
\* handlers that both find no counter for the tenant would break it.
TenantSpread ==
  \A m \in Models, t \in Tenants : Even(<<m, t>>, {table[m][p] : p \in Pool(m, t)})

\* A request that leaves ensureRefreshed, other than after a failed fetch of
\* its own, leaves it with a table of instances that were running within the
\* last refresh interval and the time a fetch may take: a step that lets it
\* pass with an older entry would break this.
PassedIsRecent ==
  [][\A q \in Requests :
       request'[q].pc = "checked" /\ request[q].pc \in {"arrived", "refreshing"}
         => \/ FetchFails
            \/ \A i \in Listed' : downFor'[i] < RefreshInterval + HttpTimeout]_vars

\* An instance that stays down leaves the table, and one that stays up and
\* keeps a named function gets into it.
TableFollows ==
  \A i \in Insts :
    /\ i \notin running ~> i \in running \/ i \notin Listed
    /\ i \in running /\ names[FnOf[i]] \in Models
         ~> i \notin running \/ names[FnOf[i]] \notin Models \/ i \in Listed
=============================================================================
