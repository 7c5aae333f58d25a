----------------------------- MODULE SmartRouter -----------------------------
(***************************************************************************)
(* The smart router: which cluster a request goes to.                      *)
(*                                                                         *)
(* Agents report their clusters, a health check marks the silent ones, and *)
(* a request is scored against every candidate with what Redis knows of    *)
(* its prompt's prefix and its session. One read-write lock guards the map *)
(* of clusters; a request holds it for reading while it is scored, and     *)
(* reads the map once more after it has let go of it. Redis is shared and  *)
(* not guarded: other requests and reports change it in between, command   *)
(* by command, and every command may fail by itself.                       *)
(***************************************************************************)
EXTENDS Naturals, FiniteSets, Maps

CONSTANTS
  Clusters,       \* identifiers that agents report under
  Models,         \* models that requests ask for
  Sessions,       \* X-Session-ID
  Prefixes,       \* hashes of prompt prefixes
  Requests,       \* request handlers
  CacheReports,   \* cache-report handlers
  Reports,        \* what a heartbeat may say of a cluster
  HealthTimeout,  \* 30 s, in ticks of 10 s
  HealthPeriod,   \* the health check's sleep, 10 s
  PrefixTTL,      \* 60 s
  RedisTimeout,   \* how long the look-ups of one request may take
  MaxOvertakes,   \* heartbeats that get the lock before a health check that waits for it
  RedisMayFail,   \* TRUE: a command may fail
  AgeCap,         \* bound: up to where the age of a heartbeat is counted
  NoModel, NoSession, NoPrefix,  \* what a request may leave empty
  NoCluster

Report == [active : Nat, capacity : Nat, latency : Nat, models : SUBSET Models]

ASSUME RouterAssumption ==
  /\ Reports \subseteq Report
  /\ HealthTimeout \in Nat /\ HealthPeriod \in Nat \ {0}
  /\ PrefixTTL \in Nat \ {0} /\ RedisTimeout \in Nat /\ MaxOvertakes \in Nat
  /\ RedisMayFail \in BOOLEAN
  /\ AgeCap \in Nat
  /\ NoModel \notin Models /\ NoSession \notin Sessions /\ NoPrefix \notin Prefixes
  /\ NoCluster \notin Clusters
  /\ IsFiniteSet(Clusters)

VARIABLES
  info,      \* router.clusters: identifier -> the last report
  healthy,   \* ClusterInfo.Healthy, the identifiers that have it
  age,       \* ticks since LastHeartbeat; nobody looks at it of a cluster that is not healthy
  slept,     \* how long the health check has slept; then it waits for the lock
  overtaken, \* heartbeats that got the lock since the health check waits for it
  admitting, \* one of them has just let go of it: readers get in before the next writer
  sessions,  \* Redis, SESSION:<id> -> cluster
  cached,    \* Redis, PREFIX:<hash> -> set of clusters
  ttl,       \* Redis, how long PREFIX:<hash> still lives; 0: it has no time to live
  pipe,      \* cache report -> the prefix whose EXPIRE is still to come
  lost,      \* history: prefixes whose key is there and has lost an EXPIRE since the last
  request    \* handler -> the request it works on

keyVars == <<cached, ttl, pipe, lost>>
redisVars == <<sessions, keyVars>>
tableVars == <<info, healthy, age>>
lockVars == <<slept, overtaken, admitting>>
vars == <<tableVars, lockVars, redisVars, request>>

-----------------------------------------------------------------------------

\* "scoring": in Route, with the lock. "decided": Route has returned.
Request == [pc : {"idle", "scoring", "decided"},
            session : Sessions \cup {NoSession},
            prefix : Prefixes \cup {NoPrefix},
            candidates : SUBSET Clusters,
            todo : SUBSET Clusters,       \* candidates not scored yet
            hits : SUBSET Clusters,       \* those found to have the prefix
            pinned : SUBSET Clusters,     \* those found to be the session's
            waited : 0 .. RedisTimeout,
            chosen : Clusters \cup {NoCluster}]

IdleRequest == [pc |-> "idle", session |-> NoSession, prefix |-> NoPrefix,
                candidates |-> {}, todo |-> {}, hits |-> {}, pinned |-> {},
                waited |-> 0, chosen |-> NoCluster]

\* A key of prefixes that has no time to live, and would keep the clusters'
\* claims for ever, is waiting for the EXPIRE of a report or has lost one.
RouterTypeOK ==
  /\ DOMAIN info \subseteq Clusters
  /\ \A c \in DOMAIN info : info[c] \in Reports
  /\ healthy \subseteq DOMAIN info
  /\ age \in [Clusters -> 0 .. AgeCap]
  /\ slept \in 0 .. HealthPeriod
  /\ overtaken \in 0 .. MaxOvertakes /\ admitting \in BOOLEAN
  /\ sessions \in [Sessions -> Clusters \cup {NoCluster}]
  /\ cached \in [Prefixes -> SUBSET Clusters]
  /\ ttl \in [Prefixes -> 0 .. PrefixTTL]
  /\ pipe \in [CacheReports -> Prefixes \cup {NoPrefix}]
  /\ lost \subseteq Prefixes
  /\ \A p \in Prefixes :
       /\ ttl[p] > 0 => cached[p] # {}
       /\ ttl[p] = 0 /\ cached[p] # {} => p \in lost \/ \E h \in CacheReports : pipe[h] = p
  /\ request \in [Requests -> Request]

RouterInit ==
  /\ info = EmptyMap
  /\ healthy = {}
  /\ age = [c \in Clusters |-> 0]
  /\ slept = 0
  /\ overtaken = 0
  /\ admitting = FALSE
  /\ sessions = [s \in Sessions |-> NoCluster]
  /\ cached = [p \in Prefixes |-> {}]
  /\ ttl = [p \in Prefixes |-> 0]
  /\ pipe = [h \in CacheReports |-> NoPrefix]
  /\ lost = {}
  /\ request = [q \in Requests |-> IdleRequest]

-----------------------------------------------------------------------------
(* Time *)

Scoring == {q \in Requests : request[q].pc = "scoring"}
CheckWaits == slept = HealthPeriod

\* A tick. Whoever can go on does so first: the health check, unless a reader
\* keeps it waiting, and a request whose look-ups have taken long enough. A
\* writer that waits has announced itself by then: it admits no reader.
Tick ==
  /\ CheckWaits => Scoring # {}
  /\ \A q \in Scoring : request[q].waited < RedisTimeout
  /\ age' = [c \in Clusters |-> IF c \in healthy /\ age[c] < AgeCap
                                THEN age[c] + 1 ELSE age[c]]
  /\ slept' = IF CheckWaits THEN slept ELSE slept + 1
  /\ admitting' = FALSE
  /\ ttl' = [p \in Prefixes |-> IF ttl[p] = 0 THEN 0 ELSE ttl[p] - 1]
  /\ cached' = [p \in Prefixes |-> IF ttl[p] = 1 THEN {} ELSE cached[p]]
  /\ lost' = {p \in lost : ttl[p] # 1}
  /\ request' = [q \in Requests |-> IF q \in Scoring
                                    THEN [request[q] EXCEPT !.waited = @ + 1]
                                    ELSE request[q]]
  /\ UNCHANGED <<info, healthy, overtaken, sessions, pipe>>

\* SESSION:<id> lives for 30 minutes after the last SET.
ExpireSession(s) ==
  /\ sessions[s] # NoCluster
  /\ sessions' = [sessions EXCEPT ![s] = NoCluster]
  /\ UNCHANGED <<tableVars, lockVars, keyVars, request>>

-----------------------------------------------------------------------------
(* Agents *)

\* POST /internal/heartbeat: the report replaces the cluster's entry. Writers get
\* the lock in turn: a health check that waits may find heartbeats before it,
\* and each of those, when it lets go of the lock, lets in the readers that wait.
Heartbeat(c, r) ==
  /\ Scoring = {}
  /\ CheckWaits => overtaken < MaxOvertakes
  /\ info' = Put(info, c, r)
  /\ healthy' = healthy \cup {c}
  /\ age' = [age EXCEPT ![c] = 0]
  /\ overtaken' = IF CheckWaits THEN overtaken + 1 ELSE overtaken
  /\ admitting' = CheckWaits
  /\ UNCHANGED <<slept, redisVars, request>>

\* Mutant of AddClaim: the pipeline has no EXPIRE.
AddClaimForEver(h, c, p) ==
  /\ cached' = [cached EXCEPT ![p] = @ \cup {c}]
  /\ UNCHANGED <<tableVars, lockVars, sessions, ttl, pipe, lost, request>>

\* POST /internal/cache-report, for one hash: a pipeline of two commands, which
\* is no transaction and whose error is ignored. No lock is taken. SADD ...
AddClaim(h, c, p) ==
  /\ pipe[h] = NoPrefix
  /\ \/ cached' = [cached EXCEPT ![p] = @ \cup {c}]
     \/ RedisMayFail /\ UNCHANGED cached
  /\ pipe' = [pipe EXCEPT ![h] = p]
  /\ UNCHANGED <<tableVars, lockVars, sessions, ttl, lost, request>>

\* ... and EXPIRE of the whole key, if it is (still) there ...
RenewKey(h) ==
  LET p == pipe[h] IN
  /\ p # NoPrefix
  /\ ttl' = IF cached[p] = {} THEN ttl ELSE [ttl EXCEPT ![p] = PrefixTTL]
  /\ lost' = lost \ {p}
  /\ pipe' = [pipe EXCEPT ![h] = NoPrefix]
  /\ UNCHANGED <<tableVars, lockVars, sessions, cached, request>>

\* ... unless that fails, or the connection breaks after the SADD.
LoseRenewal(h) ==
  LET p == pipe[h] IN
  /\ RedisMayFail
  /\ p # NoPrefix
  /\ lost' = IF cached[p] = {} THEN lost ELSE lost \cup {p}
  /\ pipe' = [pipe EXCEPT ![h] = NoPrefix]
  /\ UNCHANGED <<tableVars, lockVars, sessions, cached, ttl, request>>

\* The health check lets go of the lock and sleeps anew.
LockPasses == slept' = 0 /\ overtaken' = 0 /\ admitting' = FALSE

\* Mutant of HealthCheck: silent clusters are taken out of the map.
HealthCheckForgets ==
  /\ CheckWaits
  /\ Scoring = {}
  /\ LET silent == {c \in DOMAIN info : age[c] > HealthTimeout}
     IN /\ info' = [c \in DOMAIN info \ silent |-> info[c]]
        /\ healthy' = healthy \ silent
  /\ LockPasses
  /\ UNCHANGED <<age, redisVars, request>>

\* Mutant of HealthCheck: nobody is left when all are silent.
HealthCheckSpares ==
  /\ CheckWaits
  /\ Scoring = {}
  /\ LET alive == {c \in healthy : age[c] <= HealthTimeout}
     IN healthy' = IF alive = {} THEN healthy ELSE alive
  /\ LockPasses
  /\ UNCHANGED <<info, age, redisVars, request>>

\* HealthCheck: sleep, take the lock, mark the silent ones.
HealthCheck ==
  /\ CheckWaits
  /\ Scoring = {}
  /\ healthy' = {c \in healthy : age[c] <= HealthTimeout}
  /\ age' = [c \in Clusters |-> IF c \in healthy' THEN age[c] ELSE 0]
  /\ LockPasses
  /\ UNCHANGED <<info, redisVars, request>>

-----------------------------------------------------------------------------
(* Requests *)

Eligible(m) ==
  {c \in healthy : /\ info[c].active < info[c].capacity
                   /\ m = NoModel \/ m \in info[c].models}

\* The score of scoreCluster times 2000 and the cluster's capacity, for which
\* the weights and the ratios become integers.
LatencyPoints(r) == IF r.latency < 200 THEN 200 - r.latency ELSE 0

\* Mutants of Score: the weights of the prefix and the session changed places,
\* or those of the session and the latency.
ScoreSessionFirst(r, hit, pin) ==
  r.capacity * ((IF hit THEN 400 ELSE 0) + (IF pin THEN 1000 ELSE 0) + LatencyPoints(r))
    + 400 * (r.capacity - r.active)

ScoreNearFirst(r, hit, pin) ==
  r.capacity * ((IF hit THEN 1000 ELSE 0) + (IF pin THEN 200 ELSE 0) + 2 * LatencyPoints(r))
    + 400 * (r.capacity - r.active)

Score(r, hit, pin) ==
  r.capacity * ((IF hit THEN 1000 ELSE 0) + (IF pin THEN 400 ELSE 0) + LatencyPoints(r))
    + 400 * (r.capacity - r.active)

\* Cluster c scores at least as much as d, for what request q has found.
AtLeast(q, c, d) ==
  LET points(x) == Score(info[x], x \in request[q].hits, x \in request[q].pinned)
  IN points(c) * info[d].capacity >= points(d) * info[c].capacity

\* A request enters Route: the lock, which a health check that waits keeps
\* readers from but when a heartbeat before it lets go, and the candidates.
\* With none the answer is 503, and nothing has changed.
BeginRoute(q, m, s, p) ==
  /\ request[q].pc = "idle"
  /\ CheckWaits => admitting
  /\ Eligible(m) # {}
  /\ request' = [request EXCEPT ![q] =
                   [IdleRequest EXCEPT !.pc = "scoring", !.session = s, !.prefix = p,
                                       !.candidates = Eligible(m), !.todo = Eligible(m)]]
  /\ UNCHANGED <<tableVars, lockVars, redisVars>>

\* scoreCluster asks Redis for the prefix and the session. The error of a
\* look-up is ignored, and the signal counts as absent.
ScoreCluster(q, c) ==
  /\ c \in request[q].todo
  /\ LET p == request[q].prefix
         s == request[q].session
     IN \E hit \in {p # NoPrefix /\ c \in cached[p]} \cup (IF RedisMayFail THEN {FALSE} ELSE {}),
           pin \in {s # NoSession /\ sessions[s] = c} \cup (IF RedisMayFail THEN {FALSE} ELSE {}) :
          request' = [request EXCEPT ![q].todo = @ \ {c},
                                     ![q].hits = IF hit THEN @ \cup {c} ELSE @,
                                     ![q].pinned = IF pin THEN @ \cup {c} ELSE @]
  /\ UNCHANGED <<tableVars, lockVars, redisVars>>

\* All candidates are scored: a best one is chosen, which of several is open,
\* the session is pinned to it, and the lock released.
Decide(q) ==
  /\ request[q].pc = "scoring"
  /\ request[q].todo = {}
  /\ \E c \in request[q].candidates :
       /\ \A d \in request[q].candidates : AtLeast(q, c, d)
       /\ request' = [request EXCEPT ![q] =
                        [IdleRequest EXCEPT !.pc = "decided", !.chosen = c]]
       /\ LET s == request[q].session
          IN \/ s # NoSession /\ sessions' = [sessions EXCEPT ![s] = c]
             \/ (s = NoSession \/ RedisMayFail) /\ UNCHANGED sessions
  /\ UNCHANGED <<tableVars, lockVars, keyVars>>

\* The handler looks the cluster's endpoint up, without the lock, and answers.
Answer(q) ==
  /\ request[q].pc = "decided"
  /\ request' = [request EXCEPT ![q] = IdleRequest]
  /\ UNCHANGED <<tableVars, lockVars, redisVars>>

\* That look-up and a heartbeat's write are a data race: the runtime may notice
\* it and abort the process. A process that starts anew knows no cluster; Redis
\* keeps what it has.
MapRaceAborts ==
  /\ \E q \in Requests : request[q].pc = "decided"
  /\ info' = EmptyMap
  /\ healthy' = {}
  /\ age' = [c \in Clusters |-> 0]
  /\ LockPasses
  /\ request' = [q \in Requests |-> IdleRequest]
  /\ UNCHANGED redisVars

-----------------------------------------------------------------------------
CacheReportStep(h) ==
  \/ \E c \in Clusters, p \in Prefixes : AddClaim(h, c, p)
  \/ RenewKey(h) \/ LoseRenewal(h)

RouteStep(q) == (\E c \in Clusters : ScoreCluster(q, c)) \/ Decide(q) \/ Answer(q)

RouterNext ==
  \/ Tick
  \/ HealthCheck
  \/ \E c \in Clusters, r \in Reports : Heartbeat(c, r)
  \/ \E h \in CacheReports : CacheReportStep(h)
  \/ \E s \in Sessions : ExpireSession(s)
  \/ \E q \in Requests, m \in Models \cup {NoModel}, s \in Sessions \cup {NoSession},
        p \in Prefixes \cup {NoPrefix} : BeginRoute(q, m, s, p)
  \/ \E q \in Requests : RouteStep(q)
  \/ MapRaceAborts

RouterSpec == RouterInit /\ [][RouterNext]_vars

-----------------------------------------------------------------------------
(* Properties *)

\* A request whose prefix was found with some candidate goes to one that has
\* it: load, latency and the session together never outweigh the prefix.
CacheHitWins ==
  [][\A q \in Requests :
       request[q].pc = "scoring" /\ request'[q].pc = "decided" /\ request[q].hits # {}
       => request'[q].chosen \in request[q].hits]_vars

\* A session stays on its cluster as long as that one is a candidate and less
\* than half loaded, unless the prompt's prefix draws it to another. (Another
\* request of the session may move the pin while this one is scored; this
\* speaks of requests that found one pin.)
SessionSticks ==
  [][\A q \in Requests, c \in Clusters :
       /\ request[q].pc = "scoring" /\ request'[q].pc = "decided"
       /\ request[q].pinned = {c}
       /\ request[q].hits \subseteq {c}
       /\ 2 * info[c].active < info[c].capacity
       => request'[q].chosen = c]_vars

\* A request goes to a cluster that was heard of lately: within the timeout, a
\* round of the health check, and the time that the readers may delay it which
\* have the lock when it asks for it or get in after a heartbeat before it.
CheckedWithin == HealthTimeout + HealthPeriod + (MaxOvertakes + 1) * RedisTimeout

ChosenIsRecent ==
  [][\A q \in Requests :
       request[q].pc = "scoring" /\ request'[q].pc = "decided"
       => age[request'[q].chosen] <= CheckedWithin]_vars

\* The cluster of a decision is in the map when the handler looks it up again
\* without the lock: otherwise it would dereference nil.
ChosenIsKnown ==
  \A q \in Requests : request[q].pc = "decided" => request[q].chosen \in DOMAIN info
=============================================================================
