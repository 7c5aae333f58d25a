---------------------------- MODULE GatewayProofs ----------------------------
(***************************************************************************)
(* Proofs about Gateway, for every number of functions, instances,         *)
(* tenants and handlers, and all intervals.                                *)
(***************************************************************************)
EXTENDS Gateway, FiniteSetTheorems, TLAPS

(***************************************************************************)
(* TypeOK is inductive together with what a selection of an instance of a  *)
(* tenant knows: its model and its tenant are not empty.                   *)
(***************************************************************************)
ReadersOK ==
  \A q \in Requests : Reading(q) => request[q].model \in Models /\ request[q].tenant \in Tenants

ShapeInv == TypeOK /\ ReadersOK

(***************************************************************************)
(* Staleness. An instance that runs is not down. One that has just been    *)
(* listed has been down for no longer than its list is on its way. One in  *)
(* a fresh table has been down for no longer than the table is old, and    *)
(* the fetch before.                                                       *)
(***************************************************************************)
RecentInv ==
  /\ \A i \in running : downFor[i] = 0
  /\ fetch.stage = "install" => \A i \in fetch.up : downFor[i] <= fetch.waited
  /\ age < RefreshInterval => \A i \in Listed : downFor[i] <= age + HttpTimeout

(***************************************************************************)
(* Spread. The instances up to the position that the counter points at are *)
(* one selection ahead of the others; the first is never ahead, as a new   *)
(* turn starts with it.                                                    *)
(***************************************************************************)
Ahead(m, p) == 1 < p /\ p <= (shared[m] % Len(table[m])) + 1

SpreadInv ==
  \A m \in Models :
    /\ \A p, o \in DOMAIN table[m] : table[m][p] = table[m][o] => p = o
    /\ \E b \in Nat : \A p \in DOMAIN table[m] :
         hits[<<m, NoTenant>>][table[m][p]] = IF Ahead(m, p) THEN b + 1 ELSE b

-----------------------------------------------------------------------------
(* Sequences and counters *)

\* What is listed once is a sequence without repetitions.
LEMMA SeqsOf ==
  ASSUME NEW S \in SUBSET Insts, NEW f \in SetToSeqs(S)
  PROVE  /\ f \in Seq(Insts)
         /\ Range(f) \subseteq S
         /\ \A p, o \in DOMAIN f : f[p] = f[o] => p = o
<1>1. Cardinality(S) \in Nat
  BY GatewayAssumption, FS_Subset, FS_CardinalityType
<1>2. f \in [1 .. Cardinality(S) -> S]
  BY DEF SetToSeqs
<1>3. \A p, o \in DOMAIN f : f[p] = f[o] => p = o
  BY <1>2 DEF SetToSeqs
<1>4. QED
  BY <1>1, <1>2, <1>3 DEF Range

LEMMA Division ==
  ASSUME NEW c \in Nat, NEW n \in Nat, n > 0
  PROVE  c % n \in 0 .. n - 1 /\ c \div n \in Nat /\ c = n * (c \div n) + (c % n)
  OBVIOUS

LEMMA Remainder ==
  ASSUME NEW n \in Nat, n > 0, NEW q \in Nat, NEW r \in 0 .. n - 1
  PROVE  (n * q + r) % n = r
  OBVIOUS

\* A counter that is advanced points at the next position, or at the first.
LEMMA NextTurn ==
  ASSUME NEW c \in Nat, NEW n \in Nat, n > 0
  PROVE  (c + 1) % n = IF (c % n) + 1 = n THEN 0 ELSE (c % n) + 1
<1> DEFINE q == c \div n
           r == c % n
<1>1. r \in 0 .. n - 1 /\ q \in Nat /\ c = n * q + r
  BY Division
<1> HIDE DEF q, r
<1>2. CASE r + 1 = n
  <2>1. n * (q + 1) + 0 = n * q + n /\ q + 1 \in Nat
    BY <1>1
  <2>2. c + 1 = n * (q + 1) + 0
    BY <1>1, <1>2, <2>1
  <2>3. (n * (q + 1) + 0) % n = 0
    BY <2>1, Remainder
  <2>4. QED
    BY <1>2, <2>2, <2>3 DEF r
<1>3. CASE r + 1 # n
  <2>1. r + 1 \in 0 .. n - 1
    BY <1>1, <1>3
  <2>2. c + 1 = n * q + (r + 1)
    BY <1>1
  <2>3. (n * q + (r + 1)) % n = r + 1
    BY <1>1, <2>1, Remainder
  <2>4. QED
    BY <1>3, <2>2, <2>3 DEF r
<1>4. QED
  BY <1>2, <1>3

-----------------------------------------------------------------------------
(* Types *)

LEMMA Numbers ==
  RefreshInterval \in Nat \ {0} /\ HttpTimeout \in Nat \ {0} /\ DownCap \in Nat
BY GatewayAssumption

LEMMA NoFetchType == NoFetch \in Fetch
BY Numbers DEF NoFetch, Fetch

LEMMA ShapeInit == Init => ShapeInv
<1> SUFFICES ASSUME Init PROVE ShapeInv
  OBVIOUS
<1>1. NoFetch \in Fetch
  BY NoFetchType
<1>2. IdleRequest \in Request /\ IdleRequest.pc = "idle"
  BY DEF IdleRequest, Request
<1>3. downFor \in [Insts -> 0 .. DownCap]
  BY Numbers DEF Init
<1>4. /\ age \in 0 .. RefreshInterval
      /\ shared \in [Models -> Nat]
      /\ hits \in [Keys -> [Insts -> Nat]]
  BY Numbers DEF Init
<1>5. /\ DOMAIN table = Models
      /\ \A m \in Models : table[m] \in Seq(Insts)
      /\ DOMAIN tenantRR = {}
  BY DEF Init, EmptyMap
<1>6. TypeOK
  BY <1>1, <1>2, <1>3, <1>4, <1>5 DEF Init, TypeOK
<1>7. ReadersOK
  BY <1>2 DEF Init, ReadersOK, Reading
<1>8. QED
  BY <1>6, <1>7 DEF ShapeInv

\* The environment, and the passing of time.
LEMMA ManagerShape ==
  ASSUME ShapeInv, ManagerStep \/ Tick
  PROVE  ShapeInv'
<1> USE DEF ShapeInv
<1>1. ASSUME NEW f \in Fns, NEW n \in Models \cup {Absent, NoModel}, ChangeFunction(f, n)
      PROVE  ShapeInv'
  BY <1>1 DEF ChangeFunction, TypeOK, ReadersOK, Reading, registryVars, historyVars
<1>2. ASSUME NEW i \in Insts, InstanceRuns(i) \/ InstanceStops(i)
      PROVE  ShapeInv'
  <2>1. running' \subseteq Insts
    BY <1>2 DEF InstanceRuns, InstanceStops, TypeOK
  <2>2. downFor' \in [Insts -> 0 .. DownCap]
    <3>1. 0 \in 0 .. DownCap
      BY Numbers
    <3>2. downFor' = downFor \/ downFor' = [downFor EXCEPT ![i] = 0]
      BY <1>2 DEF InstanceRuns, InstanceStops
    <3>3. QED
      BY <3>1, <3>2 DEF TypeOK
  <2>3. UNCHANGED <<names, registryVars, fetch, request, historyVars>>
    BY <1>2 DEF InstanceRuns, InstanceStops
  <2>4. QED
    BY <2>1, <2>2, <2>3 DEF TypeOK, ReadersOK, Reading, registryVars, historyVars
<1>3. CASE Tick
  <2>1. fetch' \in Fetch
    <3>1. CASE fetch.stage = "none"
      BY <1>3, <3>1 DEF Tick, TypeOK
    <3>2. CASE fetch.stage # "none"
      <4>1. fetch \in Fetch /\ fetch.waited < HttpTimeout
        BY <1>3, <3>2 DEF Tick, TypeOK
      <4>2. fetch.waited + 1 \in 0 .. HttpTimeout
        BY <4>1, GatewayAssumption DEF Fetch
      <4>3. fetch' = [fetch EXCEPT !.waited = fetch.waited + 1]
        BY <1>3, <3>2 DEF Tick
      <4>4. QED
        BY <4>1, <4>2, <4>3 DEF Fetch
    <3>3. QED
      BY <3>1, <3>2
  <2>2. age' \in 0 .. RefreshInterval
    BY <1>3, GatewayAssumption DEF Tick, TypeOK
  <2>3. downFor' \in [Insts -> 0 .. DownCap]
    BY <1>3, GatewayAssumption DEF Tick, TypeOK
  <2>4. QED
    BY <1>3, <2>1, <2>2, <2>3
       DEF Tick, TypeOK, ReadersOK, Reading, managerVars, historyVars
<1>4. QED
  BY <1>1, <1>2, <1>3 DEF ManagerStep

\* A step that changes only where one handler is, and does not make it select.
LEMMA OnlyPc ==
  ASSUME ShapeInv, NEW q, NEW pc \in {"idle", "arrived", "refreshing", "checked", "proxying"},
         request' = [request EXCEPT ![q].pc = pc]
  PROVE  request' \in [Requests -> Request] /\ ReadersOK'
<1>1. request \in [Requests -> Request]
  BY DEF ShapeInv, TypeOK
<1>2. \A p \in Requests : request'[p] = request[p] \/ request'[p] = [request[p] EXCEPT !.pc = pc]
  BY <1>1
<1>3. ASSUME NEW p \in Requests
      PROVE  /\ request'[p] \in Request
             /\ Reading(p)' => Reading(p) /\ request'[p] = request[p]
  BY <1>1, <1>2 DEF Request, Reading
<1>4. DOMAIN request' = Requests /\ request' = [p \in Requests |-> request'[p]]
  BY <1>1
<1>5. QED
  BY <1>3, <1>4 DEF ShapeInv, ReadersOK

LEMMA BeginFetch ==
  ASSUME NEW p \in Requests \cup {Ticker}
  PROVE  BeginRefresh(p) => fetch' \in Fetch
<1>1. [NoFetch EXCEPT !.by = p, !.stage = "functions"] \in Fetch
  BY NoFetchType DEF Fetch
<1>2. QED
  BY <1>1 DEF BeginRefresh

\* The handler that refreshed goes on, or the ticker has nobody to wake.
LEMMA EndFetch ==
  ASSUME ShapeInv, EndRefresh
  PROVE  fetch' \in Fetch /\ request' \in [Requests -> Request] /\ ReadersOK'
<1>1. fetch' \in Fetch
  BY NoFetchType DEF EndRefresh
<1>2. CASE fetch.by = Ticker
  BY <1>1, <1>2 DEF EndRefresh, ShapeInv, TypeOK, ReadersOK, Reading
<1>3. CASE fetch.by # Ticker
  BY <1>1, <1>3, OnlyPc DEF EndRefresh
<1>4. QED
  BY <1>2, <1>3

\* What a refresh puts into the table: sequences of instances that were listed,
\* each at one place.
LEMMA Installed ==
  ASSUME ShapeInv, Install, NEW m \in Models
  PROVE  /\ table'[m] \in Seq(Insts)
         /\ Range(table'[m]) \subseteq fetch.up
         /\ \A p, o \in DOMAIN table'[m] : table'[m][p] = table'[m][o] => p = o
<1>1. PICK S \in SUBSET fetch.up : table'[m] \in SetToSeqs(S)
  BY DEF Install
<1>2. fetch.up \subseteq Insts
  BY DEF ShapeInv, TypeOK, Fetch
<1>3. QED
  BY <1>1, <1>2, SeqsOf

LEMMA RefreshShape ==
  ASSUME ShapeInv, TickerRefreshes \/ RefreshStep
  PROVE  ShapeInv'
<1>1. CASE TickerRefreshes
  BY <1>1, BeginFetch
     DEF TickerRefreshes, ShapeInv, TypeOK, ReadersOK, Reading, managerVars, registryVars, historyVars
<1>2. CASE ListFunctions \/ ListInstances
  <2>1. fetch' \in Fetch
    <3>1. /\ fetch \in Fetch /\ running \in SUBSET Insts /\ 0 \in 0 .. HttpTimeout
          /\ names \in [Fns -> Models \cup {Absent, NoModel}]
      BY Numbers DEF ShapeInv, TypeOK
    <3>2. CASE ListFunctions
      BY <3>1, <3>2 DEF ListFunctions, Fetch
    <3>3. CASE ListInstances
      BY <3>1, <3>3 DEF ListInstances, Fetch
    <3>4. QED
      BY <1>2, <3>2, <3>3
  <2>2. UNCHANGED <<managerVars, registryVars, request, historyVars, downFor>>
    BY <1>2 DEF ListFunctions, ListInstances
  <2>3. QED
    BY <2>1, <2>2
       DEF ShapeInv, TypeOK, ReadersOK, Reading, managerVars, registryVars, historyVars
<1>3. CASE Install
  <2>1. DOMAIN table' = Models /\ \A m \in Models : table'[m] \in Seq(Insts)
    BY <1>3, Installed DEF Install
  <2>2. /\ age' \in 0 .. RefreshInterval
        /\ shared' \in [Models -> Nat]
        /\ DOMAIN tenantRR' = {}
        /\ hits' \in [Keys -> [Insts -> Nat]]
    BY <1>3, Numbers DEF Install, EmptyMap
  <2>3. EndRefresh /\ UNCHANGED <<managerVars, served, downFor>>
    BY <1>3 DEF Install
  <2>4. QED
    BY <2>1, <2>2, <2>3, EndFetch DEF ShapeInv, TypeOK, managerVars
<1>4. CASE FetchFails
  <2>1. EndRefresh /\ UNCHANGED <<managerVars, registryVars, historyVars, downFor>>
    BY <1>4 DEF FetchFails
  <2>2. QED
    BY <2>1, EndFetch DEF ShapeInv, TypeOK, managerVars, registryVars, historyVars
<1>5. QED
  BY <1>1, <1>2, <1>3, <1>4 DEF RefreshStep

\* Handlers outside selectBackend.
LEMMA HandlerShape ==
  ASSUME ShapeInv, NEW q \in Requests, NEW m \in Models \cup {NoModel},
         NEW t \in Tenants \cup {NoTenant},
         Arrive(q, m, t) \/ EnsureRefreshed(q) \/ AnswerAtOnce(q) \/ ResolveModel(q) \/ Answer(q)
  PROVE  ShapeInv'
<1> USE DEF managerVars, registryVars, historyVars
<1>1. /\ IdleRequest \in Request /\ IdleRequest.pc = "idle"
      /\ request \in [Requests -> Request]
  BY DEF IdleRequest, Request, ShapeInv, TypeOK
<1>2. CASE EnsureRefreshed(q)
  <2>1. fetch' \in Fetch
    BY <1>2, BeginFetch DEF EnsureRefreshed, ShapeInv, TypeOK
  <2>2. request' \in [Requests -> Request] /\ ReadersOK'
    BY <1>2, OnlyPc DEF EnsureRefreshed
  <2>3. UNCHANGED <<managerVars, registryVars, historyVars, downFor>>
    BY <1>2 DEF EnsureRefreshed
  <2>4. QED
    BY <2>1, <2>2, <2>3 DEF ShapeInv, TypeOK
<1>3. CASE Arrive(q, m, t) \/ AnswerAtOnce(q) \/ ResolveModel(q) \/ Answer(q)
  <2>1. PICK r \in Request : /\ r.pc \notin {"lookup", "insert", "advance"}
                             /\ request' = [request EXCEPT ![q] = r]
    <3>1. CASE Arrive(q, m, t)
      <4>1. [pc |-> "arrived", model |-> m, tenant |-> t, inst |-> NoInst] \in Request
        BY DEF Request
      <4>2. QED
        BY <3>1, <4>1 DEF Arrive
    <3>2. CASE AnswerAtOnce(q) \/ Answer(q)
      BY <1>1, <3>2 DEF AnswerAtOnce, Answer
    <3>3. CASE ResolveModel(q)
      <4>1. PICK n \in Models : request' = [request EXCEPT ![q].model = n]
        BY <3>3 DEF ResolveModel
      <4>2. /\ [request[q] EXCEPT !.model = n] \in Request
            /\ [request[q] EXCEPT !.model = n].pc = "checked"
        BY <1>1, <3>3 DEF ResolveModel, Request
      <4>3. request' = [request EXCEPT ![q] = [request[q] EXCEPT !.model = n]]
        BY <1>1, <4>1
      <4>4. QED
        BY <4>2, <4>3
    <3>4. QED
      BY <1>3, <3>1, <3>2, <3>3
  <2>2. UNCHANGED <<managerVars, registryVars, fetch, historyVars, downFor>>
    BY <1>3 DEF Arrive, AnswerAtOnce, ResolveModel, Answer
  <2>3. request' \in [Requests -> Request] /\ ReadersOK'
    BY <1>1, <2>1 DEF ShapeInv, ReadersOK, Reading
  <2>4. QED
    BY <2>2, <2>3 DEF ShapeInv, TypeOK
<1>4. QED
  BY <1>2, <1>3

\* A handler that has its instance counts it.
LEMMA TakeShape ==
  ASSUME ShapeInv, NEW q \in Requests, NEW k, NEW i \in Insts, Take(q, k, i)
  PROVE  /\ request' \in [Requests -> Request] /\ ReadersOK'
         /\ served' \in Nat
         /\ hits' \in [Keys -> [Insts -> Nat]]
<1>1. /\ request \in [Requests -> Request] /\ served \in Nat
      /\ hits \in [Keys -> [Insts -> Nat]]
  BY DEF ShapeInv, TypeOK
<1>2. [request[q] EXCEPT !.pc = "proxying", !.inst = i] \in Request
  BY <1>1 DEF Request
<1>3. request' = [request EXCEPT ![q] = [request[q] EXCEPT !.pc = "proxying", !.inst = i]]
  BY <1>1 DEF Take
<1>4. [request[q] EXCEPT !.pc = "proxying", !.inst = i].pc = "proxying"
  BY <1>1 DEF Request
<1>5. request' \in [Requests -> Request] /\ ReadersOK'
  BY <1>1, <1>2, <1>3, <1>4 DEF ShapeInv, ReadersOK, Reading
<1>6. hits' \in [Keys -> [Insts -> Nat]]
  <2>1. hits' = [hits EXCEPT ![k][i] = @ + 1]
    BY DEF Take
  <2>2. CASE k \in Keys
    <3>1. [hits[k] EXCEPT ![i] = @ + 1] \in [Insts -> Nat]
      BY <1>1, <2>2
    <3>2. QED
      BY <1>1, <2>1, <3>1
  <2>3. CASE k \notin Keys
    BY <1>1, <2>1, <2>3
  <2>4. QED
    BY <2>2, <2>3
<1>7. QED
  BY <1>1, <1>5, <1>6 DEF Take

\* The turn of the shared counter is a position of the table.
LEMMA SharedTurnType ==
  ASSUME ShapeInv, NEW m \in Models, table[m] # << >>
  PROVE  /\ Len(table[m]) \in Nat /\ Len(table[m]) > 0
         /\ ((shared[m] + 1) % Len(table[m])) + 1 \in DOMAIN table[m]
         /\ SharedTurn(m) \in Insts
<1>1. table[m] \in Seq(Insts) /\ shared[m] \in Nat
  BY DEF ShapeInv, TypeOK
<1>2. Len(table[m]) \in Nat /\ Len(table[m]) > 0 /\ shared[m] + 1 \in Nat
  BY <1>1
<1>3. (shared[m] + 1) % Len(table[m]) \in 0 .. Len(table[m]) - 1
  BY <1>2, Division
<1>4. ((shared[m] + 1) % Len(table[m])) + 1 \in DOMAIN table[m]
  BY <1>1, <1>2, <1>3
<1>5. QED
  BY <1>1, <1>2, <1>4 DEF SharedTurn

LEMMA SharedShape ==
  ASSUME ShapeInv, NEW q \in Requests, SelectShared(q)
  PROVE  ShapeInv'
<1> DEFINE m == request[q].model
<1>1. m \in Models /\ table[m] # << >>
  BY DEF SelectShared, ShapeInv, TypeOK, Request
<1>2. SharedTurn(m) \in Insts
  BY <1>1, SharedTurnType
<1>3. Take(q, <<m, NoTenant>>, SharedTurn(m))
  BY DEF SelectShared
<1>4. /\ request' \in [Requests -> Request] /\ ReadersOK'
      /\ served' \in Nat
      /\ hits' \in [Keys -> [Insts -> Nat]]
  BY <1>2, <1>3, TakeShape
<1>5. shared' \in [Models -> Nat]
  BY <1>1, <1>2 DEF SelectShared, ShapeInv, TypeOK
<1>6. UNCHANGED <<managerVars, table, age, tenantRR, fetch, downFor>>
  BY DEF SelectShared
<1>7. QED
  BY <1>4, <1>5, <1>6 DEF ShapeInv, TypeOK, managerVars

\* Handlers at a counter of their tenant.
LEMMA TenantShape ==
  ASSUME ShapeInv, NEW q \in Requests,
         SelectTenant(q) \/ LookUpCounter(q) \/ InsertCounter(q) \/ AdvanceCounter(q)
  PROVE  ShapeInv'
<1> DEFINE m == request[q].model
           t == request[q].tenant
<1>1. request \in [Requests -> Request]
  BY DEF ShapeInv, TypeOK
<1>2. m \in Models /\ t \in Tenants
  BY <1>1 DEF SelectTenant, LookUpCounter, InsertCounter, AdvanceCounter, Pool, Reading,
              ShapeInv, ReadersOK, Request
<1>3. CASE SelectTenant(q) \/ LookUpCounter(q) \/ InsertCounter(q)
  <2>1. PICK pc \in {"lookup", "insert", "advance"} : request' = [request EXCEPT ![q].pc = pc]
    BY <1>3 DEF SelectTenant, LookUpCounter, InsertCounter
  <2>2. \A p \in Requests :
          request'[p] = IF p = q THEN [request[p] EXCEPT !.pc = pc] ELSE request[p]
    BY <1>1, <2>1
  <2>3. ASSUME NEW p \in Requests
        PROVE  /\ request'[p] \in Request
               /\ request'[p].model = request[p].model
               /\ request'[p].tenant = request[p].tenant
               /\ p # q => request'[p].pc = request[p].pc
    BY <1>1, <2>2 DEF Request
  <2>4. request' \in [Requests -> Request]
    BY <1>1, <2>1, <2>3
  <2>5. ReadersOK'
    BY <1>2, <2>3 DEF ShapeInv, ReadersOK, Reading
  <2>6. /\ DOMAIN tenantRR' \subseteq Models \X Tenants
        /\ \A k \in DOMAIN tenantRR' : tenantRR'[k] \in Nat
    <3>1. CASE InsertCounter(q)
      <4>1. <<m, t>> \in Models \X Tenants /\ tenantRR' = Put(tenantRR, <<m, t>>, 0)
        BY <1>2, <3>1 DEF InsertCounter
      <4>2. QED
        BY <4>1 DEF Put, ShapeInv, TypeOK
    <3>2. CASE SelectTenant(q) \/ LookUpCounter(q)
      BY <3>2 DEF SelectTenant, LookUpCounter, registryVars, ShapeInv, TypeOK
    <3>3. QED
      BY <1>3, <3>1, <3>2
  <2>7. UNCHANGED <<managerVars, table, age, shared, fetch, historyVars, downFor>>
    BY <1>3 DEF SelectTenant, LookUpCounter, InsertCounter, registryVars
  <2>8. QED
    BY <2>4, <2>5, <2>6, <2>7 DEF ShapeInv, TypeOK, managerVars, historyVars
<1>4. CASE AdvanceCounter(q)
  <2>1. PICK p \in Pool(m, t) : Take(q, <<m, t>>, table[m][p])
    BY <1>4 DEF AdvanceCounter
  <2>2. table[m][p] \in Insts
    BY <1>2, <2>1 DEF Pool, ShapeInv, TypeOK
  <2>3. /\ request' \in [Requests -> Request] /\ ReadersOK'
        /\ served' \in Nat
        /\ hits' \in [Keys -> [Insts -> Nat]]
    BY <2>1, <2>2, TakeShape
  <2>4. /\ DOMAIN tenantRR' \subseteq Models \X Tenants
        /\ \A k \in DOMAIN tenantRR' : tenantRR'[k] \in Nat
    <3>1. tenantRR' = [tenantRR EXCEPT ![<<m, t>>] = @ + 1]
      BY <1>4 DEF AdvanceCounter
    <3>2. /\ DOMAIN tenantRR \subseteq Models \X Tenants
          /\ \A k \in DOMAIN tenantRR : tenantRR[k] \in Nat
      BY DEF ShapeInv, TypeOK
    <3>3. DOMAIN tenantRR' = DOMAIN tenantRR
      BY <3>1
    <3>4. \A k \in DOMAIN tenantRR :
            tenantRR'[k] = IF k = <<m, t>> THEN tenantRR[k] + 1 ELSE tenantRR[k]
      BY <3>1
    <3>5. QED
      BY <3>2, <3>3, <3>4
  <2>5. UNCHANGED <<managerVars, table, age, shared, fetch, downFor>>
    BY <1>4 DEF AdvanceCounter
  <2>6. QED
    BY <2>3, <2>4, <2>5 DEF ShapeInv, TypeOK, managerVars
<1>5. QED
  BY <1>3, <1>4

LEMMA AbortShape == ShapeInv /\ MapRaceAborts => ShapeInv'
<1> SUFFICES ASSUME ShapeInv, MapRaceAborts PROVE ShapeInv'
  OBVIOUS
<1>1. IdleRequest \in Request /\ IdleRequest.pc = "idle"
  BY DEF IdleRequest, Request
<1>2. request' \in [Requests -> Request] /\ ReadersOK'
  BY <1>1 DEF MapRaceAborts, ReadersOK, Reading
<1>3. /\ age' \in 0 .. RefreshInterval
      /\ shared' \in [Models -> Nat]
      /\ hits' \in [Keys -> [Insts -> Nat]]
  BY Numbers DEF MapRaceAborts
<1>4. /\ DOMAIN table' = Models /\ \A m \in Models : table'[m] \in Seq(Insts)
      /\ DOMAIN tenantRR' = {}
      /\ fetch' \in Fetch
  BY NoFetchType DEF MapRaceAborts, EmptyMap
<1>5. UNCHANGED <<managerVars, served, downFor>>
  BY DEF MapRaceAborts
<1>6. QED
  BY <1>2, <1>3, <1>4, <1>5 DEF ShapeInv, TypeOK, managerVars

LEMMA ShapeStep == ShapeInv /\ [Next]_vars => ShapeInv'
<1> SUFFICES ASSUME ShapeInv, [Next]_vars PROVE ShapeInv'
  OBVIOUS
<1>1. CASE ManagerStep \/ Tick
  BY <1>1, ManagerShape
<1>2. CASE TickerRefreshes \/ RefreshStep
  BY <1>2, RefreshShape
<1>3. ASSUME NEW q \in Requests, NEW m \in Models \cup {NoModel},
             NEW t \in Tenants \cup {NoTenant}, Arrive(q, m, t)
      PROVE  ShapeInv'
  BY <1>3, HandlerShape
<1>4. ASSUME NEW q \in Requests, RequestStep(q)
      PROVE  ShapeInv'
  BY <1>4, HandlerShape, SharedShape, TenantShape DEF RequestStep
<1>5. CASE MapRaceAborts
  BY <1>5, AbortShape
<1>6. CASE UNCHANGED vars
  BY <1>6 DEF vars, managerVars, registryVars, historyVars, ShapeInv, TypeOK, ReadersOK, Reading
<1>7. QED
  BY <1>1, <1>2, <1>3, <1>4, <1>5, <1>6 DEF Next

\* Every reachable state of the gateway is well typed: the table lists
\* instances only, under models that have a name, and an unnamed model is never
\* selected from.
THEOREM GatewayTypeCorrect == Spec => []TypeOK
<1>1. ShapeInv => TypeOK
  BY DEF ShapeInv
<1>2. QED
  BY <1>1, ShapeInit, ShapeStep, PTL DEF Spec

-----------------------------------------------------------------------------
(* Staleness *)

LEMMA RecentInit == Init => RecentInv
<1> SUFFICES ASSUME Init PROVE RecentInv
  OBVIOUS
<1>1. \A i \in running : downFor[i] = 0
  BY DEF Init
<1>2. fetch.stage = "none" /\ age = RefreshInterval
  BY DEF Init, NoFetch
<1>3. QED
  BY <1>1, <1>2, Numbers DEF RecentInv

\* Time makes lists and tables older as it does what they hold.
LEMMA TickRecent == ShapeInv /\ RecentInv /\ Tick => RecentInv'
<1> SUFFICES ASSUME ShapeInv, RecentInv, Tick PROVE RecentInv'
  OBVIOUS
<1>1. /\ age \in Nat /\ fetch \in Fetch /\ fetch.up \subseteq Insts /\ fetch.waited \in Nat
      /\ running \subseteq Insts
      /\ \A i \in Insts : downFor[i] \in Nat
      /\ \A m \in Models : table[m] \in Seq(Insts)
  BY Numbers DEF ShapeInv, TypeOK, Fetch
<1>2. Listed \subseteq Insts /\ Listed' = Listed /\ running' = running
  BY <1>1 DEF Listed, Range, Tick, managerVars
<1>3. /\ \A i \in running : downFor'[i] = 0
      /\ \A i \in Insts : downFor'[i] <= downFor[i] + 1
  BY <1>1 DEF Tick
<1>4. fetch'.stage = "install" => \A i \in fetch'.up : downFor'[i] <= fetch'.waited
  <2>1. SUFFICES ASSUME fetch'.stage = "install", NEW i \in fetch'.up
                 PROVE  downFor'[i] <= fetch'.waited
    OBVIOUS
  <2>2. /\ fetch.stage = "install" /\ i \in fetch.up
        /\ fetch'.waited = fetch.waited + 1
    BY <1>1, <2>1 DEF Tick, Fetch
  <2>3. downFor[i] <= fetch.waited /\ downFor'[i] <= downFor[i] + 1 /\ downFor[i] \in Nat
    BY <1>1, <1>3, <2>2 DEF RecentInv
  <2>4. downFor'[i] \in Nat
    BY <1>1, <2>2, Numbers DEF Tick
  <2>5. QED
    BY <1>1, <2>2, <2>3, <2>4
<1>5. age' < RefreshInterval => \A i \in Listed : downFor'[i] <= age' + HttpTimeout
  <2>1. SUFFICES ASSUME age' < RefreshInterval, NEW i \in Listed
                 PROVE  downFor'[i] <= age' + HttpTimeout
    OBVIOUS
  <2>2. age < RefreshInterval /\ age' = age + 1
    BY <1>1, <2>1, Numbers DEF Tick
  <2>3. downFor[i] <= age + HttpTimeout /\ downFor'[i] <= downFor[i] + 1 /\ downFor[i] \in Nat
    BY <1>1, <1>2, <1>3, <2>2 DEF RecentInv
  <2>4. downFor'[i] \in Nat
    BY <1>1, <1>2, Numbers DEF Tick
  <2>5. QED
    BY <1>1, <2>2, <2>3, <2>4, Numbers
<1>6. QED
  BY <1>2, <1>3, <1>4, <1>5 DEF RecentInv

\* A list is new when it is made, and at most HttpTimeout old when it arrives.
LEMMA RefreshRecent ==
  ASSUME ShapeInv, RecentInv, ListFunctions \/ ListInstances \/ Install
  PROVE  RecentInv'
<1>1. /\ fetch \in Fetch /\ fetch.waited \in 0 .. HttpTimeout /\ fetch.up \subseteq Insts
      /\ DOMAIN table = Models
  BY DEF ShapeInv, TypeOK, Fetch
<1>2. CASE ListFunctions
  <2>1. fetch'.stage = "instances"
    BY <1>1, <1>2 DEF ListFunctions, Fetch
  <2>2. UNCHANGED <<running, downFor, age, table>>
    BY <1>2 DEF ListFunctions, managerVars, registryVars
  <2>3. QED
    BY <2>1, <2>2 DEF RecentInv, Listed
<1>3. CASE ListInstances
  <2>1. fetch'.stage = "install" /\ fetch'.up = running /\ fetch'.waited = fetch.waited
    BY <1>1, <1>3 DEF ListInstances, Fetch
  <2>2. UNCHANGED <<running, downFor, age, table>>
    BY <1>3 DEF ListInstances, managerVars, registryVars
  <2>3. QED
    BY <1>1, <2>1, <2>2 DEF RecentInv, Listed
<1>4. CASE Install
  <2>1. fetch.stage = "install" /\ fetch'.stage = "none" /\ age' = 0
    BY <1>4 DEF Install, EndRefresh, NoFetch
  <2>2. UNCHANGED <<running, downFor>>
    BY <1>4 DEF Install, managerVars
  <2>3. Listed' \subseteq fetch.up
    BY <1>4, Installed DEF Listed
  <2>4. \A i \in Listed' : downFor'[i] <= HttpTimeout
    <3>1. SUFFICES ASSUME NEW i \in Listed' PROVE downFor'[i] <= HttpTimeout
      OBVIOUS
    <3>2. downFor[i] <= fetch.waited /\ downFor'[i] = downFor[i]
      BY <2>1, <2>2, <2>3 DEF RecentInv
    <3>3. downFor[i] \in 0 .. DownCap
      BY <1>1, <2>3 DEF ShapeInv, TypeOK
    <3>4. QED
      BY <1>1, <3>2, <3>3, Numbers
  <2>5. QED
    BY <2>1, <2>2, <2>4, Numbers DEF RecentInv
<1>5. QED
  BY <1>2, <1>3, <1>4

LEMMA RecentStep == ShapeInv /\ RecentInv /\ [Next]_vars => RecentInv'
<1> SUFFICES ASSUME ShapeInv, RecentInv, [Next]_vars PROVE RecentInv'
  OBVIOUS
<1> USE DEF managerVars, registryVars, historyVars
<1>1. CASE \E f \in Fns, n \in Models \cup {Absent, NoModel} : ChangeFunction(f, n)
  BY <1>1 DEF ChangeFunction, RecentInv, Listed
<1>2. ASSUME NEW i \in Insts, InstanceRuns(i) \/ InstanceStops(i)
      PROVE  RecentInv'
  <2>1. UNCHANGED <<fetch, age, table>>
    BY <1>2 DEF InstanceRuns, InstanceStops
  <2>2. /\ downFor \in [Insts -> 0 .. DownCap] /\ running \subseteq Insts
        /\ fetch.up \subseteq Insts /\ Listed \subseteq Insts
        /\ age \in Nat /\ fetch.waited \in Nat
    BY Numbers DEF ShapeInv, TypeOK, Fetch, Listed, Range
  <2>3. \A j \in Insts : downFor'[j] = downFor[j] \/ downFor'[j] = 0
    BY <1>2, <2>2 DEF InstanceRuns, InstanceStops
  <2>4. \A j \in running' : downFor'[j] = 0
    BY <1>2, <2>2, <2>3 DEF InstanceRuns, InstanceStops, RecentInv
  <2>5. \A j \in Insts, n \in Nat : downFor[j] <= n => downFor'[j] <= n
    BY <2>3
  <2>6. QED
    BY <2>1, <2>2, <2>4, <2>5, Numbers DEF RecentInv, Listed
<1>3. CASE Tick
  BY <1>3, TickRecent
<1>4. CASE ListFunctions \/ ListInstances \/ Install
  BY <1>4, RefreshRecent
<1>5. CASE TickerRefreshes \/ FetchFails \/ MapRaceAborts \/ \E q \in Requests : EnsureRefreshed(q)
  <2>1. UNCHANGED <<running, downFor>>
    BY <1>5 DEF TickerRefreshes, FetchFails, MapRaceAborts, EnsureRefreshed
  <2>2. fetch' = fetch \/ fetch'.stage \in {"none", "functions"}
    <3>1. NoFetch.stage = "none"
      BY DEF NoFetch
    <3>2. ASSUME NEW p, BeginRefresh(p) PROVE fetch'.stage = "functions"
      BY <3>2 DEF BeginRefresh, NoFetch
    <3>3. QED
      BY <1>5, <3>1, <3>2 DEF TickerRefreshes, FetchFails, MapRaceAborts, EnsureRefreshed, EndRefresh
  <2>3. UNCHANGED <<age, table>> \/ age' = RefreshInterval
    BY <1>5 DEF TickerRefreshes, FetchFails, MapRaceAborts, EnsureRefreshed
  <2>4. QED
    BY <2>1, <2>2, <2>3, Numbers DEF RecentInv, Listed
<1>6. CASE \/ \E q \in Requests, m \in Models \cup {NoModel}, t \in Tenants \cup {NoTenant} :
                Arrive(q, m, t)
           \/ \E q \in Requests :
                \/ AnswerAtOnce(q) \/ ResolveModel(q) \/ SelectShared(q) \/ SelectTenant(q)
                \/ LookUpCounter(q) \/ InsertCounter(q) \/ AdvanceCounter(q) \/ Answer(q)
           \/ UNCHANGED vars
  <2>1. UNCHANGED <<running, downFor, fetch, age, table>>
    BY <1>6 DEF Arrive, AnswerAtOnce, ResolveModel, SelectShared, SelectTenant, LookUpCounter,
                InsertCounter, AdvanceCounter, Answer, vars
  <2>2. QED
    BY <2>1 DEF RecentInv, Listed
<1>7. QED
  BY <1>1, <1>2, <1>3, <1>4, <1>5, <1>6 DEF Next, ManagerStep, RefreshStep, RequestStep

\* Other than a failed fetch, the steps that lead out of ensureRefreshed leave a
\* fresh table.
LEMMA PassesFresh ==
  ASSUME ShapeInv, [Next]_vars, ~ FetchFails, NEW q \in Requests,
         request'[q].pc = "checked", request[q].pc \in {"arrived", "refreshing"}
  PROVE  age' < RefreshInterval
<1>1. /\ request \in [Requests -> Request] /\ age \in 0 .. RefreshInterval
      /\ RefreshInterval \in Nat \ {0}
  BY Numbers DEF ShapeInv, TypeOK
<1>2. request' # request
  OBVIOUS
<1>3. CASE Install
  BY <1>1, <1>3 DEF Install
<1>4. ASSUME NEW p \in Requests, EnsureRefreshed(p)
      PROVE  age' < RefreshInterval
  <2>1. CASE age = RefreshInterval
    <3>1. request' = [request EXCEPT ![p].pc = "refreshing"]
      BY <1>4, <2>1 DEF EnsureRefreshed
    <3>2. QED
      BY <1>1, <3>1
  <2>2. CASE age # RefreshInterval
    BY <1>1, <1>4, <2>2 DEF EnsureRefreshed, registryVars
  <2>3. QED
    BY <2>1, <2>2
<1>5. ASSUME NEW p \in Requests, NEW m \in Models \cup {NoModel},
             NEW t \in Tenants \cup {NoTenant},
             Arrive(p, m, t) \/ AnswerAtOnce(p) \/ Answer(p)
      PROVE  FALSE
  <2>1. PICK r \in {IdleRequest, [pc |-> "arrived", model |-> m, tenant |-> t, inst |-> NoInst]} :
          request' = [request EXCEPT ![p] = r]
    BY <1>5 DEF Arrive, AnswerAtOnce, Answer
  <2>2. r.pc # "checked"
    BY DEF IdleRequest
  <2>3. QED
    BY <1>1, <2>1, <2>2
<1>6. ASSUME NEW p \in Requests,
             \/ ResolveModel(p) \/ SelectShared(p) \/ SelectTenant(p)
             \/ LookUpCounter(p) \/ InsertCounter(p) \/ AdvanceCounter(p)
      PROVE  FALSE
  <2>1. request[p].pc \notin {"arrived", "refreshing"}
    BY <1>6 DEF ResolveModel, SelectShared, SelectTenant, LookUpCounter, InsertCounter, AdvanceCounter
  <2>2. \A o \in Requests : o # p => request'[o] = request[o]
    BY <1>1, <1>6 DEF ResolveModel, SelectShared, SelectTenant, LookUpCounter, InsertCounter,
                      AdvanceCounter, Take
  <2>3. QED
    BY <2>1, <2>2
<1>7. CASE MapRaceAborts
  BY <1>7 DEF MapRaceAborts, IdleRequest
<1>8. CASE ManagerStep \/ Tick \/ TickerRefreshes \/ ListFunctions \/ ListInstances \/ UNCHANGED vars
  BY <1>2, <1>8 DEF ManagerStep, ChangeFunction, InstanceRuns, InstanceStops, Tick, TickerRefreshes,
                    ListFunctions, ListInstances, vars
<1>9. QED
  BY <1>3, <1>4, <1>5, <1>6, <1>7, <1>8 DEF Next, RefreshStep, RequestStep

\* Whatever fails, and however handlers, the refresh loop and the manager
\* interleave, a request that ensureRefreshed lets pass other than after a
\* failed fetch finds instances in the table only that were running within the
\* last refresh interval and HTTP timeout.
THEOREM PassesRecent == Spec => PassedIsRecent
<1>1. ASSUME ShapeInv, RecentInv, RecentInv', ShapeInv', [Next]_vars,
             NEW q \in Requests,
             request'[q].pc = "checked", request[q].pc \in {"arrived", "refreshing"}
      PROVE  \/ FetchFails
             \/ \A i \in Listed' : downFor'[i] < RefreshInterval + HttpTimeout
  <2>1. SUFFICES ASSUME ~ FetchFails, NEW i \in Listed'
                 PROVE  downFor'[i] < RefreshInterval + HttpTimeout
    OBVIOUS
  <2>2. age' < RefreshInterval
    BY <1>1, <2>1, PassesFresh
  <2>3. downFor'[i] <= age' + HttpTimeout
    BY <1>1, <2>2 DEF RecentInv
  <2>4. Listed' \subseteq Insts
    BY <1>1 DEF ShapeInv, TypeOK, Listed, Range
  <2>5. downFor'[i] \in 0 .. DownCap /\ age' \in 0 .. RefreshInterval
    BY <1>1, <2>4 DEF ShapeInv, TypeOK
  <2>6. QED
    BY <2>2, <2>3, <2>5, Numbers
<1>2. ShapeInv /\ RecentInv /\ ShapeInv' /\ RecentInv' /\ [Next]_vars
        => [\A q \in Requests :
              request'[q].pc = "checked" /\ request[q].pc \in {"arrived", "refreshing"}
                => \/ FetchFails
                   \/ \A i \in Listed' : downFor'[i] < RefreshInterval + HttpTimeout]_vars
  BY <1>1
<1>3. QED
  BY <1>2, ShapeInit, ShapeStep, RecentInit, RecentStep, PTL DEF Spec, PassedIsRecent

-----------------------------------------------------------------------------
(* Spread *)

LEMMA NobodyAhead ==
  ASSUME NEW n \in Nat, n > 0, NEW p \in Nat
  PROVE  ~ (1 < p /\ p <= (0 % n) + 1)
<1>1. n * 0 + 0 = 0 /\ 0 \in 0 .. n - 1
  OBVIOUS
<1>2. (n * 0 + 0) % n = 0
  BY <1>1, Remainder
<1>3. QED
  BY <1>1, <1>2

\* Counters that start anew: nothing has been selected, and nobody is ahead.
LEMMA SpreadAnew ==
  ASSUME \A m \in Models :
           /\ table'[m] \in Seq(Insts)
           /\ \A p, o \in DOMAIN table'[m] : table'[m][p] = table'[m][o] => p = o,
         shared' = [m \in Models |-> 0],
         hits' = [k \in Keys |-> [i \in Insts |-> 0]]
  PROVE  SpreadInv'
<1>1. ASSUME NEW m \in Models, NEW p \in DOMAIN table'[m]
      PROVE  hits'[<<m, NoTenant>>][table'[m][p]] = 0 /\ ~ Ahead(m, p)'
  <2>1. /\ p \in Nat /\ table'[m][p] \in Insts
        /\ Len(table'[m]) \in Nat /\ Len(table'[m]) > 0
    BY <1>1
  <2>2. shared'[m] = 0 /\ <<m, NoTenant>> \in Keys
    BY DEF Keys
  <2>3. ~ (1 < p /\ p <= (shared'[m] % Len(table'[m])) + 1)
    BY <2>1, <2>2, NobodyAhead
  <2>4. QED
    BY <2>1, <2>2, <2>3 DEF Ahead
<1>2. ASSUME NEW m \in Models
      PROVE  \A p \in DOMAIN table'[m] :
               hits'[<<m, NoTenant>>][table'[m][p]] = IF Ahead(m, p)' THEN 0 + 1 ELSE 0
  BY <1>1
<1>3. QED
  BY <1>2 DEF SpreadInv

LEMMA SpreadInit == Init => SpreadInv
<1>1. Init => \A m \in Models : DOMAIN table[m] = {}
  BY DEF Init
<1>2. 0 \in Nat
  OBVIOUS
<1>3. QED
  BY <1>1, <1>2 DEF SpreadInv

\* The instance whose turn it is catches up with the ones ahead; when it is the
\* first, all the others were.
LEMMA SharedSpreads ==
  ASSUME ShapeInv, SpreadInv, NEW q \in Requests, SelectShared(q)
  PROVE  SpreadInv'
<1> DEFINE n == request[q].model
           L == Len(table[n])
           c == shared[n] % L
           turn == ((shared[n] + 1) % L) + 1
<1>1. n \in Models /\ table[n] # << >>
  BY DEF SelectShared, ShapeInv, TypeOK, Request
<1>2. /\ table[n] \in Seq(Insts) /\ DOMAIN table[n] = 1 .. L
      /\ L \in Nat /\ L > 0 /\ shared[n] \in Nat
  BY <1>1, SharedTurnType DEF ShapeInv, TypeOK
<1>3. /\ c \in 0 .. L - 1
      /\ turn = IF c + 1 = L THEN 1 ELSE c + 2
  <2>1. (shared[n] + 1) % L = IF c + 1 = L THEN 0 ELSE c + 1
    BY <1>2, NextTurn
  <2>2. c \in 0 .. L - 1
    BY <1>2, Division
  <2>3. QED
    BY <1>2, <2>1, <2>2
<1>4. turn \in DOMAIN table[n] /\ table[n][turn] \in Insts /\ SharedTurn(n) = table[n][turn]
  BY <1>1, SharedTurnType DEF SharedTurn
<1>5. /\ table' = table
      /\ shared' = [shared EXCEPT ![n] = @ + 1]
      /\ hits' = [hits EXCEPT ![<<n, NoTenant>>][table[n][turn]] = @ + 1]
  BY <1>4 DEF SelectShared, Take
<1>6. /\ hits \in [Keys -> [Insts -> Nat]] /\ shared \in [Models -> Nat]
      /\ \A m \in Models : <<m, NoTenant>> \in Keys
  BY DEF ShapeInv, TypeOK, Keys
<1>7. shared'[n] % L = IF c + 1 = L THEN 0 ELSE c + 1
  BY <1>1, <1>2, <1>5, <1>6, NextTurn
<1>8. ASSUME NEW m \in Models, m # n
      PROVE  /\ shared'[m] = shared[m]
             /\ hits'[<<m, NoTenant>>] = hits[<<m, NoTenant>>]
  BY <1>5, <1>6, <1>8
<1>9. \A i \in Insts : hits'[<<n, NoTenant>>][i] =
        IF i = table[n][turn] THEN hits[<<n, NoTenant>>][i] + 1 ELSE hits[<<n, NoTenant>>][i]
  BY <1>1, <1>5, <1>6
<1>10. \A p, o \in DOMAIN table[n] : table[n][p] = table[n][o] => p = o
  BY <1>1 DEF SpreadInv
<1>11. PICK b \in Nat : \A p \in 1 .. L :
         hits[<<n, NoTenant>>][table[n][p]] = IF 1 < p /\ p <= c + 1 THEN b + 1 ELSE b
  BY <1>1, <1>2 DEF SpreadInv, Ahead
<1> HIDE DEF c, turn
<1>12. \A p \in 1 .. L : hits'[<<n, NoTenant>>][table[n][p]] =
         IF p = turn \/ (1 < p /\ p <= c + 1) THEN b + 1 ELSE b
  <2>1. SUFFICES ASSUME NEW p \in 1 .. L
                 PROVE  hits'[<<n, NoTenant>>][table[n][p]] =
                          IF p = turn \/ (1 < p /\ p <= c + 1) THEN b + 1 ELSE b
    OBVIOUS
  <2>2. ~ (1 < turn /\ turn <= c + 1)
    BY <1>2, <1>3
  <2>3. table[n][p] \in Insts /\ (table[n][p] = table[n][turn] <=> p = turn)
    BY <1>2, <1>4, <1>10
  <2>4. QED
    BY <1>9, <1>11, <2>2, <2>3
<1>13. \E d \in Nat : \A p \in 1 .. L : hits'[<<n, NoTenant>>][table[n][p]] =
         IF 1 < p /\ p <= (shared'[n] % L) + 1 THEN d + 1 ELSE d
  <2>1. CASE c + 1 = L
    <3>1. \A p \in 1 .. L : p = turn \/ (1 < p /\ p <= c + 1)
      BY <1>2, <1>3, <2>1
    <3>2. \A p \in 1 .. L : hits'[<<n, NoTenant>>][table[n][p]] = b + 1
      BY <1>12, <3>1
    <3>3. \A p \in 1 .. L : ~ (1 < p /\ p <= (shared'[n] % L) + 1)
      BY <1>7, <2>1
    <3>4. b + 1 \in Nat
      OBVIOUS
    <3>5. QED
      BY <3>2, <3>3, <3>4
  <2>2. CASE c + 1 # L
    <3>1. \A p \in 1 .. L :
            (p = turn \/ (1 < p /\ p <= c + 1)) <=> (1 < p /\ p <= (shared'[n] % L) + 1)
      BY <1>2, <1>3, <1>7, <2>2
    <3>2. \A p \in 1 .. L : hits'[<<n, NoTenant>>][table[n][p]] =
            IF 1 < p /\ p <= (shared'[n] % L) + 1 THEN b + 1 ELSE b
      BY <1>12, <3>1
    <3>3. QED
      BY <3>2
  <2>3. QED
    BY <2>1, <2>2
<1>14. ASSUME NEW m \in Models
       PROVE  \E d \in Nat : \A p \in DOMAIN table'[m] :
                hits'[<<m, NoTenant>>][table'[m][p]] = IF Ahead(m, p)' THEN d + 1 ELSE d
  <2>1. CASE m = n
    BY <1>2, <1>5, <1>13, <2>1 DEF Ahead
  <2>2. CASE m # n
    BY <1>5, <1>8, <2>2 DEF SpreadInv, Ahead
  <2>3. QED
    BY <2>1, <2>2
<1>15. QED
  BY <1>5, <1>14 DEF SpreadInv

LEMMA SpreadStep == ShapeInv /\ SpreadInv /\ [Next]_vars => SpreadInv'
<1> SUFFICES ASSUME ShapeInv, SpreadInv, [Next]_vars PROVE SpreadInv'
  OBVIOUS
<1> USE DEF managerVars, registryVars, historyVars
<1>1. ASSUME NEW q \in Requests, SelectShared(q)
      PROVE  SpreadInv'
  BY <1>1, SharedSpreads
<1>2. ASSUME NEW q \in Requests, AdvanceCounter(q)
      PROVE  SpreadInv'
  <2>1. PICK i : Take(q, <<request[q].model, request[q].tenant>>, i)
    BY <1>2 DEF AdvanceCounter
  <2>2. request[q].tenant # NoTenant
    BY <1>2 DEF AdvanceCounter, Pool
  <2>3. hits \in [Keys -> [Insts -> Nat]] /\ \A m \in Models : <<m, NoTenant>> \in Keys
    BY DEF ShapeInv, TypeOK, Keys
  <2>4. \A m \in Models : hits'[<<m, NoTenant>>] = hits[<<m, NoTenant>>]
    BY <2>1, <2>2, <2>3 DEF Take
  <2>5. UNCHANGED <<table, shared>>
    BY <1>2 DEF AdvanceCounter
  <2>6. \A m \in Models : \A p \in DOMAIN table[m] : Ahead(m, p)' <=> Ahead(m, p)
    BY <2>5 DEF Ahead
  <2>7. ASSUME NEW m \in Models
        PROVE  \E b \in Nat : \A p \in DOMAIN table'[m] :
                 hits'[<<m, NoTenant>>][table'[m][p]] = IF Ahead(m, p)' THEN b + 1 ELSE b
    <3>1. PICK b \in Nat : \A p \in DOMAIN table[m] :
            hits[<<m, NoTenant>>][table[m][p]] = IF Ahead(m, p) THEN b + 1 ELSE b
      BY DEF SpreadInv
    <3>2. QED
      BY <2>4, <2>5, <2>6, <3>1
  <2>8. QED
    BY <2>5, <2>7 DEF SpreadInv
<1>3. CASE Install
  <2>1. /\ shared' = [m \in Models |-> 0]
        /\ hits' = [k \in Keys |-> [i \in Insts |-> 0]]
    BY <1>3 DEF Install
  <2>2. \A m \in Models :
          /\ table'[m] \in Seq(Insts)
          /\ \A p, o \in DOMAIN table'[m] : table'[m][p] = table'[m][o] => p = o
    BY <1>3, Installed
  <2>3. QED
    BY <2>1, <2>2, SpreadAnew
<1>4. CASE MapRaceAborts
  <2>1. /\ \A m \in Models : table'[m] = << >>
        /\ shared' = [m \in Models |-> 0]
        /\ hits' = [k \in Keys |-> [i \in Insts |-> 0]]
    BY <1>4 DEF MapRaceAborts
  <2>2. << >> \in Seq(Insts) /\ DOMAIN << >> = {}
    OBVIOUS
  <2>3. \A m \in Models :
          /\ table'[m] \in Seq(Insts)
          /\ \A p, o \in DOMAIN table'[m] : table'[m][p] = table'[m][o] => p = o
    BY <2>1, <2>2
  <2>4. QED
    BY <2>1, <2>3, SpreadAnew
<1>5. CASE UNCHANGED <<table, shared, hits>>
  BY <1>5 DEF SpreadInv, Ahead
<1>6. CASE ManagerStep \/ Tick \/ TickerRefreshes \/ ListFunctions \/ ListInstances \/ FetchFails
           \/ UNCHANGED vars
  BY <1>5, <1>6 DEF ManagerStep, ChangeFunction, InstanceRuns, InstanceStops, Tick,
                    TickerRefreshes, ListFunctions, ListInstances, FetchFails, vars
<1>7. CASE \/ \E q \in Requests, m \in Models \cup {NoModel}, t \in Tenants \cup {NoTenant} :
                Arrive(q, m, t)
           \/ \E q \in Requests :
                \/ EnsureRefreshed(q) \/ AnswerAtOnce(q) \/ ResolveModel(q) \/ SelectTenant(q)
                \/ LookUpCounter(q) \/ InsertCounter(q) \/ Answer(q)
  BY <1>5, <1>7 DEF Arrive, EnsureRefreshed, AnswerAtOnce, ResolveModel, SelectTenant,
                    LookUpCounter, InsertCounter, Answer
<1>8. QED
  BY <1>1, <1>2, <1>3, <1>4, <1>6, <1>7 DEF Next, RefreshStep, RequestStep

\* Whatever handlers do at once, and whatever the tenants' own pools do, between
\* two refreshes the instances of a model are selected by the shared counter
\* equally often, up to one.
THEOREM SharedIsEven == Spec => []SharedSpread
<1>1. ShapeInv /\ SpreadInv => SharedSpread
  <2>1. SUFFICES ASSUME ShapeInv, SpreadInv, NEW m \in Models,
                        NEW i \in Range(table[m]), NEW j \in Range(table[m])
                 PROVE  hits[<<m, NoTenant>>][i] <= hits[<<m, NoTenant>>][j] + 1
    BY DEF SharedSpread, Even
  <2>2. PICK b \in Nat : \A p \in DOMAIN table[m] :
          hits[<<m, NoTenant>>][table[m][p]] = IF Ahead(m, p) THEN b + 1 ELSE b
    BY <2>1 DEF SpreadInv
  <2>3. PICK p \in DOMAIN table[m], o \in DOMAIN table[m] : i = table[m][p] /\ j = table[m][o]
    BY <2>1 DEF Range
  <2>4. hits[<<m, NoTenant>>][i] \in {b, b + 1} /\ hits[<<m, NoTenant>>][j] \in {b, b + 1}
    BY <2>2, <2>3
  <2>5. QED
    BY <2>4
<1>2. QED
  BY <1>1, ShapeInit, ShapeStep, SpreadInit, SpreadStep, PTL DEF Spec
-----------------------------------------------------------------------------
(* Spread over a tenant's own instances, when there is one handler *)

(***************************************************************************)
(* One request at a time: no second handler can find the tenant's counter  *)
(* missing before the first has added it.                                  *)
(***************************************************************************)
OneAtATime == \A q, p \in Requests : q = p

\* What a selection knows between its steps: nothing refreshes meanwhile, and
\* the counter is there or not, as it was when the selection looked.
SelectsAlone ==
  \A q \in Requests : Reading(q) =>
    /\ fetch.stage = "none"
    /\ request[q].pc = "insert" => <<request[q].model, request[q].tenant>> \notin DOMAIN tenantRR
    /\ request[q].pc = "advance" => <<request[q].model, request[q].tenant>> \in DOMAIN tenantRR

\* The place of a position in a pool, from 0, and the selections from the pool.
Rank(p, pool) == Cardinality({o \in pool : o < p})
Count(k) == IF k \in DOMAIN tenantRR THEN tenantRR[k] ELSE 0

\* In a pool, too, the instances up to the one that the counter points at are
\* one selection ahead, and the first never is.
InFront(p, pool, count) == 0 < Rank(p, pool) /\ Rank(p, pool) <= count % Cardinality(pool)

TurnsOf(m, t) ==
  \E b \in Nat : \A p \in Pool(m, t) :
    hits[<<m, t>>][table[m][p]] = IF InFront(p, Pool(m, t), Count(<<m, t>>)) THEN b + 1 ELSE b

TenantInv == \A m \in Models, t \in Tenants : TurnsOf(m, t)

\* Places are different, and below the size of the pool.
LEMMA Ranks ==
  ASSUME NEW pool, IsFiniteSet(pool), pool \subseteq Nat
  PROVE  /\ Cardinality(pool) \in Nat
         /\ \A p \in pool : Rank(p, pool) \in 0 .. Cardinality(pool) - 1
         /\ \A p, o \in pool : Rank(p, pool) = Rank(o, pool) => p = o
<1> DEFINE Below(p) == {o \in pool : o < p}
<1>1. Cardinality(pool) \in Nat
  BY FS_CardinalityType
<1>2. \A p \in pool : IsFiniteSet(Below(p)) /\ Cardinality(Below(p)) \in Nat
  <2>1. \A p \in pool : Below(p) \in SUBSET pool
    OBVIOUS
  <2>2. QED
    BY <2>1, FS_Subset, FS_CardinalityType
<1>3. ASSUME NEW S \in SUBSET pool, NEW p \in S
      PROVE  (Below(p) \subseteq S) => Cardinality(Below(p)) < Cardinality(S)
  <2>1. SUFFICES ASSUME Below(p) \subseteq S PROVE Cardinality(Below(p)) < Cardinality(S)
    OBVIOUS
  <2>2. IsFiniteSet(S) /\ Cardinality(S) \in Nat
    BY FS_Subset, FS_CardinalityType
  <2>3. Below(p) \in SUBSET S /\ p \notin Below(p)
    BY <2>1
  <2>4. /\ Cardinality(Below(p)) <= Cardinality(S)
        /\ Cardinality(S) = Cardinality(Below(p)) => S = Below(p)
    BY <2>2, <2>3, FS_Subset
  <2>5. QED
    BY <1>2, <2>2, <2>3, <2>4
<1>4. \A p \in pool : Cardinality(Below(p)) < Cardinality(pool)
  BY <1>3
<1>5. \A p, o \in pool : p < o => Cardinality(Below(p)) < Cardinality(Below(o))
  <2>1. SUFFICES ASSUME NEW p \in pool, NEW o \in pool, p < o
                 PROVE  Cardinality(Below(p)) < Cardinality(Below(o))
    OBVIOUS
  <2>2. Below(o) \in SUBSET pool /\ p \in Below(o)
    BY <2>1
  <2>3. Below(p) \subseteq Below(o)
    <3>1. \A x \in pool : x < p => x < o
      BY <2>1
    <3>2. QED
      BY <3>1
  <2>4. QED
    BY <1>3, <2>2, <2>3
<1>6. \A p, o \in pool : p < o \/ o < p \/ p = o
  OBVIOUS
<1> HIDE DEF Below
<1>7. \A p \in pool : Cardinality(Below(p)) \in 0 .. Cardinality(pool) - 1
  BY <1>1, <1>2, <1>4
<1>8. \A p, o \in pool : Cardinality(Below(p)) = Cardinality(Below(o)) => p = o
  BY <1>2, <1>5, <1>6
<1>9. QED
  BY <1>1, <1>7, <1>8 DEF Rank, Below

LEMMA Positions ==
  ASSUME NEW s \in Seq(Insts), NEW pool \in SUBSET DOMAIN s
  PROVE  IsFiniteSet(pool) /\ pool \subseteq Nat
<1>1. DOMAIN s = 1 .. Len(s) /\ 1 \in Int /\ Len(s) \in Int
  OBVIOUS
<1>2. IsFiniteSet(1 .. Len(s))
  BY <1>1, FS_Interval
<1>3. QED
  BY <1>1, <1>2, FS_Subset

LEMMA AloneInit == Init => SelectsAlone /\ TenantInv
<1> SUFFICES ASSUME Init PROVE SelectsAlone /\ TenantInv
  OBVIOUS
<1>1. SelectsAlone
  BY DEF Init, SelectsAlone, Reading, IdleRequest
<1>2. \A m \in Models, t \in Tenants : Pool(m, t) = {}
  BY DEF Init, Pool
<1>3. 0 \in Nat
  OBVIOUS
<1>4. QED
  BY <1>1, <1>2, <1>3 DEF TenantInv, TurnsOf

LEMMA AloneStep ==
  ASSUME OneAtATime, ShapeInv, SelectsAlone, [Next]_vars
  PROVE  SelectsAlone'
<1> SUFFICES ASSUME NEW q \in Requests, Reading(q)'
             PROVE  (/\ fetch.stage = "none"
                     /\ request[q].pc = "insert" => <<request[q].model, request[q].tenant>> \notin DOMAIN tenantRR
                     /\ request[q].pc = "advance" => <<request[q].model, request[q].tenant>> \in DOMAIN tenantRR)'
  BY DEF SelectsAlone
<1> USE DEF managerVars, registryVars, historyVars
<1>1. request \in [Requests -> Request] /\ \A p \in Requests : p = q
  BY DEF ShapeInv, TypeOK, OneAtATime
<1>2. CASE UNCHANGED <<request, tenantRR>> /\ (fetch.stage = "none" => fetch' = fetch)
  BY <1>2 DEF SelectsAlone, Reading
<1>3. CASE ManagerStep \/ Tick \/ UNCHANGED vars
  BY <1>2, <1>3 DEF ManagerStep, ChangeFunction, InstanceRuns, InstanceStops, Tick, vars
<1>4. CASE TickerRefreshes \/ RefreshStep
  <2>1. ~ Reading(q)
    BY <1>4 DEF TickerRefreshes, WriteFree, RefreshStep, ListFunctions, ListInstances, Install,
                FetchFails, SelectsAlone
  <2>2. CASE request' = request
    BY <2>1, <2>2 DEF Reading
  <2>3. CASE request' = [request EXCEPT ![fetch.by].pc = "checked"]
    BY <1>1, <2>1, <2>3 DEF Reading, Request
  <2>4. QED
    BY <1>4, <2>2, <2>3 DEF TickerRefreshes, RefreshStep, ListFunctions, ListInstances, Install,
                            FetchFails, EndRefresh
<1>5. ASSUME NEW p \in Requests, NEW m \in Models \cup {NoModel}, NEW t \in Tenants \cup {NoTenant},
             \/ Arrive(p, m, t) \/ EnsureRefreshed(p) \/ AnswerAtOnce(p) \/ ResolveModel(p)
             \/ SelectShared(p) \/ AdvanceCounter(p) \/ Answer(p)
      PROVE  FALSE
  <2>1. p = q /\ request[q] \in Request
    BY <1>1
  <2>2. CASE Arrive(p, m, t) \/ AnswerAtOnce(p) \/ Answer(p)
    BY <1>1, <2>1, <2>2 DEF Arrive, AnswerAtOnce, Answer, IdleRequest, Reading
  <2>3. CASE EnsureRefreshed(p)
    BY <1>1, <2>1, <2>3 DEF EnsureRefreshed, Reading, Request
  <2>4. CASE ResolveModel(p)
    BY <1>1, <2>1, <2>4 DEF ResolveModel, Reading, Request
  <2>5. CASE SelectShared(p) \/ AdvanceCounter(p)
    <3>1. PICK i : request' = [request EXCEPT ![p].pc = "proxying", ![p].inst = i]
      BY <2>5 DEF SelectShared, AdvanceCounter, Take
    <3>2. QED
      BY <1>1, <2>1, <3>1 DEF Reading, Request
  <2>6. QED
    BY <1>5, <2>2, <2>3, <2>4, <2>5
<1>6. ASSUME NEW p \in Requests, SelectTenant(p)
      PROVE  fetch'.stage = "none" /\ request'[q].pc = "lookup"
  BY <1>1, <1>6 DEF SelectTenant, ReadFree, Request
<1>7. CASE \E p \in Requests : LookUpCounter(p)
  <2>1. Reading(q) /\ UNCHANGED <<fetch, tenantRR>>
    BY <1>1, <1>7 DEF LookUpCounter, Reading
  <2>2. request' = [request EXCEPT ![q].pc =
                      IF <<request[q].model, request[q].tenant>> \in DOMAIN tenantRR
                      THEN "advance" ELSE "insert"]
    BY <1>1, <1>7 DEF LookUpCounter
  <2>3. /\ request'[q].model = request[q].model /\ request'[q].tenant = request[q].tenant
        /\ request'[q].pc = IF <<request[q].model, request[q].tenant>> \in DOMAIN tenantRR
                            THEN "advance" ELSE "insert"
    BY <1>1, <2>2 DEF Request
  <2>4. QED
    BY <2>1, <2>3 DEF SelectsAlone
<1>8. CASE \E p \in Requests : InsertCounter(p)
  <2>1. Reading(q) /\ UNCHANGED fetch
    BY <1>1, <1>8 DEF InsertCounter, Reading
  <2>2. /\ request' = [request EXCEPT ![q].pc = "advance"]
        /\ tenantRR' = Put(tenantRR, <<request[q].model, request[q].tenant>>, 0)
    BY <1>1, <1>8 DEF InsertCounter
  <2>3. /\ request'[q].model = request[q].model /\ request'[q].tenant = request[q].tenant
        /\ request'[q].pc = "advance"
    BY <1>1, <2>2 DEF Request
  <2>4. <<request[q].model, request[q].tenant>> \in DOMAIN tenantRR'
    BY <2>2 DEF Put
  <2>5. QED
    BY <2>1, <2>3, <2>4 DEF SelectsAlone
<1>9. ~ MapRaceAborts
  BY <1>1 DEF MapRaceAborts
<1>10. QED
  BY <1>3, <1>4, <1>5, <1>6, <1>7, <1>8, <1>9 DEF Next, RequestStep
\* Counters that start anew: nobody has been selected, nobody is in front.
LEMMA TurnsAnew ==
  ASSUME ShapeInv', tenantRR' = EmptyMap,
         hits' = [k \in Keys |-> [i \in Insts |-> 0]]
  PROVE  TenantInv'
<1>1. ASSUME NEW m \in Models, NEW t \in Tenants, NEW p \in Pool(m, t)'
      PROVE  /\ hits'[<<m, t>>][table'[m][p]] = 0
             /\ ~ InFront(p, Pool(m, t), Count(<<m, t>>))'
  <2> DEFINE pool == Pool(m, t)'
             N == Cardinality(pool)
  <2>1. table'[m] \in Seq(Insts) /\ p \in DOMAIN table'[m]
    BY <1>1 DEF ShapeInv, TypeOK, Pool
  <2>2. hits'[<<m, t>>][table'[m][p]] = 0
    BY <2>1 DEF Keys
  <2>3. Count(<<m, t>>)' = 0
    BY DEF Count, EmptyMap
  <2>4. IsFiniteSet(pool) /\ pool \subseteq Nat
    <3>1. pool \in SUBSET DOMAIN table'[m]
      BY DEF Pool
    <3>2. QED
      BY <2>1, <3>1, Positions
  <2>5. N \in Nat /\ Rank(p, pool) \in 0 .. N - 1
    BY <1>1, <2>4, Ranks
  <2> HIDE DEF N
  <2>6. N > 0 /\ ~ (0 < Rank(p, pool) /\ Rank(p, pool) <= 0 % N)
    <3>1. N > 0
      BY <2>5
    <3>2. N * 0 + 0 = 0 /\ 0 \in 0 .. N - 1 /\ (N * 0 + 0) % N = 0
      BY <2>5, <3>1, Remainder
    <3>3. 0 % N = 0
      BY <3>2
    <3>4. QED
      BY <2>5, <3>1, <3>3
  <2>7. QED
    BY <2>2, <2>3, <2>6 DEF InFront, N
<1>2. 0 \in Nat
  OBVIOUS
<1>3. QED
  BY <1>1, <1>2 DEF TenantInv, TurnsOf

\* What a selection of another counter leaves alone.
LEMMA OtherTurns ==
  ASSUME NEW m \in Models, NEW t \in Tenants, TurnsOf(m, t), table' = table,
         hits'[<<m, t>>] = hits[<<m, t>>], Count(<<m, t>>)' = Count(<<m, t>>)
  PROVE  TurnsOf(m, t)'
<1>1. Pool(m, t)' = Pool(m, t)
  BY DEF Pool
<1>2. \A p \in Pool(m, t) :
        InFront(p, Pool(m, t), Count(<<m, t>>))' <=> InFront(p, Pool(m, t), Count(<<m, t>>))
  BY <1>1 DEF InFront, Rank
<1>3. QED
  BY <1>1, <1>2 DEF TurnsOf

\* The next instance of the pool catches up with the ones in front; when it is
\* the first, all the others were.
LEMMA TenantTurns ==
  ASSUME ShapeInv, SpreadInv, SelectsAlone, NEW q \in Requests, AdvanceCounter(q),
         NEW m, NEW t, m = request[q].model, t = request[q].tenant, TurnsOf(m, t)
  PROVE  TurnsOf(m, t)'
<1> DEFINE k == <<m, t>>
           pool == Pool(m, t)
           N == Cardinality(pool)
           R(p) == Rank(p, pool)
           c == Count(k)
<1>1. Reading(q)
  BY DEF AdvanceCounter, Reading
<1>2. m \in Models /\ t \in Tenants /\ k \in DOMAIN tenantRR /\ k \in Keys
  BY <1>1 DEF ShapeInv, ReadersOK, SelectsAlone, AdvanceCounter, Keys
<1>3. c = tenantRR[k] /\ c \in Nat
  BY <1>2 DEF Count, ShapeInv, TypeOK
<1>4. PICK turn \in pool : IsTurn(turn, pool, tenantRR[k]) /\ Take(q, k, table[m][turn])
  BY DEF AdvanceCounter
<1>5. /\ table' = table /\ Count(k)' = c + 1
      /\ hits' = [hits EXCEPT ![k][table[m][turn]] = @ + 1]
  <2>1. tenantRR' = [tenantRR EXCEPT ![k] = @ + 1]
    BY DEF AdvanceCounter
  <2>2. k \in DOMAIN tenantRR' /\ tenantRR'[k] = tenantRR[k] + 1
    BY <1>2, <2>1
  <2>3. Count(k)' = c + 1
    BY <1>3, <2>2 DEF Count
  <2>4. QED
    BY <1>4, <2>3 DEF AdvanceCounter, Take
<1>6. /\ pool \subseteq DOMAIN table[m] /\ Pool(m, t)' = pool
      /\ \A p \in pool : table[m][p] \in Insts
  <2>1. pool \subseteq DOMAIN table[m]
    BY DEF Pool
  <2>2. table[m] \in Seq(Insts)
    BY <1>2 DEF ShapeInv, TypeOK
  <2>3. table' = table
    BY <1>5
  <2>4. Pool(m, t)' = pool
    BY <2>3 DEF Pool
  <2>5. \A p \in DOMAIN table[m] : table[m][p] \in Insts
    BY <2>2
  <2>6. QED
    BY <2>1, <2>4, <2>5
<1>7. /\ N \in Nat /\ \A p \in pool : R(p) \in 0 .. N - 1
      /\ \A p, o \in pool : R(p) = R(o) => p = o
  <2>1. IsFiniteSet(pool) /\ pool \subseteq Nat
    <3>1. table[m] \in Seq(Insts)
      BY <1>2 DEF ShapeInv, TypeOK
    <3>2. QED
      BY <1>6, <3>1, Positions
  <2>2. QED
    BY <2>1, Ranks
<1>8. R(turn) = (c + 1) % N
  BY <1>3, <1>4 DEF IsTurn, Rank
<1>9. \A p, o \in pool : table[m][p] = table[m][o] => p = o
  BY <1>2, <1>6 DEF SpreadInv
<1>10. PICK b \in Nat : \A p \in pool :
         hits[k][table[m][p]] = IF 0 < R(p) /\ R(p) <= c % N THEN b + 1 ELSE b
  BY DEF TurnsOf, InFront
<1>11. \A i \in Insts :
         hits'[k][i] = IF i = table[m][turn] THEN hits[k][i] + 1 ELSE hits[k][i]
  <2>1. hits \in [Keys -> [Insts -> Nat]]
    BY DEF ShapeInv, TypeOK
  <2>2. QED
    BY <1>2, <1>5, <2>1
<1>12. \A p \in pool :
         hits'[k][table[m][p]] = IF p = turn THEN hits[k][table[m][p]] + 1 ELSE hits[k][table[m][p]]
  BY <1>4, <1>6, <1>9, <1>11
<1> HIDE DEF N, R, c, k, pool
<1>13. N > 0 /\ c % N \in 0 .. N - 1
       /\ (c + 1) % N = IF (c % N) + 1 = N THEN 0 ELSE (c % N) + 1
  <2>1. N > 0
    BY <1>4, <1>7
  <2>2. QED
    BY <1>3, <1>7, <2>1, Division, NextTurn
<1>14. \A p \in pool : p = turn <=> R(p) = R(turn)
  BY <1>4, <1>7
<1>15. \E d \in Nat : \A p \in pool :
         hits'[k][table[m][p]] = IF 0 < R(p) /\ R(p) <= (c + 1) % N THEN d + 1 ELSE d
  <2> DEFINE r == c % N
  <2>1. r \in 0 .. N - 1 /\ R(turn) = IF r + 1 = N THEN 0 ELSE r + 1
    BY <1>8, <1>13
  <2> HIDE DEF r
  <2>2. \A p \in pool : hits'[k][table[m][p]] =
          IF R(p) = R(turn) \/ (0 < R(p) /\ R(p) <= r) THEN b + 1 ELSE b
    <3>1. ~ (0 < R(turn) /\ R(turn) <= r)
      BY <1>7, <2>1
    <3>2. \A p \in pool : hits[k][table[m][p]] = IF 0 < R(p) /\ R(p) <= r THEN b + 1 ELSE b
      BY <1>10 DEF r
    <3>3. QED
      BY <1>4, <1>12, <1>14, <3>1, <3>2
  <2>3. CASE r + 1 = N
    <3>1. \A p \in pool : R(p) = R(turn) \/ (0 < R(p) /\ R(p) <= r)
      BY <1>7, <2>1, <2>3
    <3>2. \A p \in pool : hits'[k][table[m][p]] = b + 1
      BY <2>2, <3>1
    <3>3. \A p \in pool : ~ (0 < R(p) /\ R(p) <= (c + 1) % N)
      BY <1>7, <1>8, <2>1, <2>3
    <3>4. b + 1 \in Nat
      OBVIOUS
    <3>5. QED
      BY <3>2, <3>3, <3>4
  <2>4. CASE r + 1 # N
    <3>1. \A p \in pool : (R(p) = R(turn) \/ (0 < R(p) /\ R(p) <= r))
                            <=> (0 < R(p) /\ R(p) <= (c + 1) % N)
      BY <1>7, <1>8, <2>1, <2>4
    <3>2. \A p \in pool : hits'[k][table[m][p]] =
            IF 0 < R(p) /\ R(p) <= (c + 1) % N THEN b + 1 ELSE b
      BY <2>2, <3>1
    <3>3. QED
      BY <3>2
  <2>5. QED
    BY <2>3, <2>4
<1>16. \A p \in pool : InFront(p, Pool(m, t), Count(k))' <=> (0 < R(p) /\ R(p) <= (c + 1) % N)
  BY <1>5, <1>6 DEF InFront, Rank, N, R, pool
<1>17. QED
  BY <1>5, <1>6, <1>15, <1>16 DEF TurnsOf, k

LEMMA TenantStep ==
  ASSUME OneAtATime, ShapeInv, ShapeInv', SpreadInv, SelectsAlone, TenantInv, [Next]_vars
  PROVE  TenantInv'
<1> USE DEF managerVars, registryVars, historyVars
<1>1. hits \in [Keys -> [Insts -> Nat]] /\ \A m \in Models, t \in Tenants : <<m, t>> \in Keys
  BY DEF ShapeInv, TypeOK, Keys
<1>2. CASE UNCHANGED <<table, hits, tenantRR>>
  <2>1. \A k : Count(k)' = Count(k)
    BY <1>2 DEF Count
  <2>2. QED
    BY <1>2, <2>1, OtherTurns DEF TenantInv
<1>3. CASE Install \/ MapRaceAborts
  BY <1>3, TurnsAnew DEF Install, MapRaceAborts
<1>4. ASSUME NEW q \in Requests, SelectShared(q)
      PROVE  TenantInv'
  <2>1. PICK i : Take(q, <<request[q].model, NoTenant>>, i)
    BY <1>4 DEF SelectShared
  <2>2. UNCHANGED <<table, tenantRR>>
    BY <1>4 DEF SelectShared
  <2>3. \A m \in Models, t \in Tenants : hits'[<<m, t>>] = hits[<<m, t>>]
    BY <1>1, <2>1, GatewayAssumption DEF Take
  <2>4. \A k : Count(k)' = Count(k)
    BY <2>2 DEF Count
  <2>5. QED
    BY <2>2, <2>3, <2>4, OtherTurns DEF TenantInv
<1>5. ASSUME NEW q \in Requests, InsertCounter(q)
      PROVE  TenantInv'
  <2>1. <<request[q].model, request[q].tenant>> \notin DOMAIN tenantRR
    BY <1>5 DEF InsertCounter, SelectsAlone, Reading
  <2>2. tenantRR' = Put(tenantRR, <<request[q].model, request[q].tenant>>, 0)
    BY <1>5 DEF InsertCounter
  <2>3. \A k : Count(k)' = Count(k)
    BY <2>1, <2>2 DEF Count, Put
  <2>4. UNCHANGED <<table, hits>>
    BY <1>5 DEF InsertCounter
  <2>5. QED
    BY <2>3, <2>4, OtherTurns DEF TenantInv
<1>6. ASSUME NEW q \in Requests, AdvanceCounter(q)
      PROVE  TenantInv'
  <2> DEFINE n == request[q].model
             u == request[q].tenant
  <2>1. n \in Models /\ u \in Tenants
    BY <1>6 DEF AdvanceCounter, Reading, ShapeInv, ReadersOK
  <2>2. ASSUME NEW m \in Models, NEW t \in Tenants, m = n, t = u
        PROVE  TurnsOf(m, t)'
    BY <1>6, <2>2, TenantTurns DEF TenantInv
  <2>3. ASSUME NEW m \in Models, NEW t \in Tenants, <<m, t>> # <<n, u>>
        PROVE  TurnsOf(m, t)'
    <3>1. PICK i : Take(q, <<n, u>>, i)
      BY <1>6 DEF AdvanceCounter
    <3>2. hits'[<<m, t>>] = hits[<<m, t>>]
      BY <1>1, <2>3, <3>1 DEF Take
    <3>3. tenantRR' = [tenantRR EXCEPT ![<<n, u>>] = @ + 1] /\ table' = table
      BY <1>6 DEF AdvanceCounter
    <3>4. Count(<<m, t>>)' = Count(<<m, t>>)
      BY <2>3, <3>3 DEF Count
    <3>5. QED
      BY <3>2, <3>3, <3>4, OtherTurns DEF TenantInv
  <2>4. ASSUME NEW m \in Models, NEW t \in Tenants, <<m, t>> = <<n, u>>
        PROVE  TurnsOf(m, t)'
    BY <2>2, <2>4
  <2>5. QED
    BY <2>3, <2>4 DEF TenantInv
<1>7. CASE ManagerStep \/ Tick \/ TickerRefreshes \/ ListFunctions \/ ListInstances \/ FetchFails
           \/ UNCHANGED vars
  BY <1>2, <1>7 DEF ManagerStep, ChangeFunction, InstanceRuns, InstanceStops, Tick,
                    TickerRefreshes, ListFunctions, ListInstances, FetchFails, vars
<1>8. CASE \/ \E q \in Requests, m \in Models \cup {NoModel}, t \in Tenants \cup {NoTenant} :
                Arrive(q, m, t)
           \/ \E q \in Requests :
                \/ EnsureRefreshed(q) \/ AnswerAtOnce(q) \/ ResolveModel(q) \/ SelectTenant(q)
                \/ LookUpCounter(q) \/ Answer(q)
  BY <1>2, <1>8 DEF Arrive, EnsureRefreshed, AnswerAtOnce, ResolveModel, SelectTenant,
                    LookUpCounter, Answer
<1>9. QED
  BY <1>3, <1>4, <1>5, <1>6, <1>7, <1>8 DEF Next, RefreshStep, RequestStep

\* When requests come one at a time, a tenant's own instances of a model are
\* selected equally often, up to one, between two refreshes: the counter that
\* is looked up, added and advanced in steps of its own is neither lost nor
\* made anew, and it points at every place of the pool in turn. With two
\* handlers this is not so: see run gateway_race.
THEOREM TenantIsEven ==
  ASSUME OneAtATime
  PROVE  Spec => []TenantSpread
<1> DEFINE Inv == ShapeInv /\ SpreadInv /\ SelectsAlone /\ TenantInv
<1>1. Init => Inv
  BY ShapeInit, SpreadInit, AloneInit
<1>2. Inv /\ [Next]_vars => Inv'
  <2>1. ASSUME Inv, [Next]_vars PROVE Inv'
    <3>1. ShapeInv' /\ SpreadInv'
      BY <2>1, ShapeStep, SpreadStep
    <3>2. SelectsAlone'
      BY <2>1, AloneStep
    <3>3. TenantInv'
      BY <2>1, <3>1, TenantStep
    <3>4. QED
      BY <3>1, <3>2, <3>3
  <2>2. QED
    BY <2>1
<1>3. Inv => TenantSpread
  <2>1. SUFFICES ASSUME Inv, NEW m \in Models, NEW t \in Tenants,
                        NEW p \in Pool(m, t), NEW o \in Pool(m, t)
                 PROVE  hits[<<m, t>>][table[m][p]] <= hits[<<m, t>>][table[m][o]] + 1
    BY DEF TenantSpread, Even
  <2>2. PICK b \in Nat : \A x \in Pool(m, t) : hits[<<m, t>>][table[m][x]] =
          IF InFront(x, Pool(m, t), Count(<<m, t>>)) THEN b + 1 ELSE b
    BY <2>1 DEF TenantInv, TurnsOf
  <2>3. hits[<<m, t>>][table[m][p]] \in {b, b + 1} /\ hits[<<m, t>>][table[m][o]] \in {b, b + 1}
    BY <2>2
  <2>4. QED
    BY <2>3
<1>4. QED
  BY <1>1, <1>2, <1>3, PTL DEF Spec
=============================================================================
