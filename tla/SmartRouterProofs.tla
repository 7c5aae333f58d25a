-------------------------- MODULE SmartRouterProofs --------------------------
(***************************************************************************)
(* Proofs about SmartRouter, for every number of clusters and requests,    *)
(* every load, latency and capacity, and look-ups that may fail.           *)
(***************************************************************************)
EXTENDS SmartRouter, TLAPS

\* What the lock keeps as it was while a request is scored: its candidates are
\* healthy and have room, and what was found of them is about them.
ScoredUnderLock(q) ==
  LET r == request[q]
  IN /\ r.pc # "scoring" => r.todo = {}
     /\ r.pc = "scoring" => /\ r.candidates \subseteq healthy
                            /\ \A c \in r.candidates : info[c].active < info[c].capacity
                            /\ r.todo \subseteq r.candidates
                            /\ r.hits \subseteq r.candidates
                            /\ r.pinned \subseteq r.candidates

\* What remains of it when the lock is released.
DecidedWell(q) ==
  request[q].pc = "decided"
    => request[q].chosen \in DOMAIN info

\* How old a healthy cluster's heartbeat may be when a reader gets in. The
\* health check comes round every period, and later by as much as the readers
\* held the lock before each heartbeat that overtook it.
WhenAdmitted == HealthTimeout + HealthPeriod + overtaken * RedisTimeout

HealthyIsRecent ==
  \A c \in healthy :
    IF CheckWaits
    THEN /\ age[c] <= WhenAdmitted + RedisTimeout
         /\ admitting => age[c] <= WhenAdmitted
         /\ \A q \in Scoring : age[c] <= WhenAdmitted + request[q].waited
    ELSE age[c] <= HealthTimeout + slept

RouterInv ==
  /\ RouterTypeOK
  /\ \A q \in Requests : ScoredUnderLock(q) /\ DecidedWell(q)
  /\ HealthyIsRecent

-----------------------------------------------------------------------------
(* The score *)

LEMMA TimesMonotone ==
  ASSUME NEW a \in Nat, NEW b \in Nat, NEW k \in Nat, a <= b
  PROVE  a * k <= b * k
<1>1. PICK d \in Nat : b = a + d
  <2>1. b - a \in Nat /\ b = a + (b - a)
    OBVIOUS
  <2> QED
    BY <2>1
<1>2. b * k = a * k + d * k
  BY <1>1
<1>3. d * k \in Nat /\ a * k \in Nat
  OBVIOUS
<1> QED
  BY <1>2, <1>3

LEMMA TimesStrict ==
  ASSUME NEW a \in Nat, NEW b \in Nat, NEW k \in Nat \ {0}, a < b
  PROVE  a * k < b * k
<1>1. (a + 1) * k <= b * k
  BY TimesMonotone
<1>2. (a + 1) * k = a * k + k /\ a * k \in Nat
  OBVIOUS
<1>3. b * k \in Nat
  OBVIOUS
<1> QED
  BY <1>1, <1>2, <1>3

\* Points x beat points y, weighed by the capacities, when x is more than m per
\* capacity and y is not.
LEMMA PointsBeat ==
  ASSUME NEW m \in Nat, NEW x \in Nat, NEW y \in Nat, NEW cx \in Nat, NEW cy \in Nat \ {0},
         m * cx < x, y <= m * cy
  PROVE  ~ (y * cx >= x * cy)
<1>1. y * cx <= (m * cy) * cx /\ y * cx \in Nat
  <2>1. m * cy \in Nat /\ y * cx \in Nat
    OBVIOUS
  <2> QED
    BY <2>1, TimesMonotone
<1>2. (m * cx) * cy < x * cy /\ x * cy \in Nat
  <2>1. m * cx \in Nat /\ x * cy \in Nat
    OBVIOUS
  <2> QED
    BY <2>1, TimesStrict
<1>3. (m * cy) * cx = (m * cx) * cy
  OBVIOUS
<1>4. (m * cx) * cy \in Nat
  OBVIOUS
<1> QED
  BY <1>1, <1>2, <1>3, <1>4

\* What a cluster with room scores per capacity: with the prefix more than 1000,
\* without at most 1000, and without the session at most 600; less than half
\* loaded and with the session more than 600.
LEMMA ScoreBounds ==
  ASSUME NEW r \in Report, r.active < r.capacity, NEW hit \in BOOLEAN, NEW pin \in BOOLEAN
  PROVE  /\ Score(r, hit, pin) \in Nat
         /\ hit => 1000 * r.capacity < Score(r, hit, pin)
         /\ ~ hit => Score(r, hit, pin) <= 1000 * r.capacity
         /\ ~ hit /\ ~ pin => Score(r, hit, pin) <= 600 * r.capacity
         /\ pin /\ 2 * r.active < r.capacity => 600 * r.capacity < Score(r, hit, pin)
<1> DEFINE h == IF hit THEN 1000 ELSE 0
           s == IF pin THEN 400 ELSE 0
           l == LatencyPoints(r)
           cap == r.capacity
           free == r.capacity - r.active
<1>1. r.active \in Nat /\ cap \in Nat /\ r.latency \in Nat
  BY DEF Report
<1>2. l \in Nat /\ l <= 200
  BY <1>1 DEF LatencyPoints
<1>3. Score(r, hit, pin) = cap * (h + s + l) + 400 * free
  BY DEF Score
<1>4. /\ h \in Nat /\ s \in Nat /\ s <= 400
      /\ (hit => h = 1000) /\ (~ hit => h = 0) /\ (pin => s = 400) /\ (~ pin => s = 0)
  OBVIOUS
<1>5. free \in Nat /\ 0 < free /\ free <= cap /\ (2 * r.active < cap => cap < 2 * free)
  BY <1>1
<1> DEFINE w == h + s + l
           points == w * cap
<1>6. w \in Nat /\ points \in Nat /\ cap * w = points
  BY <1>1, <1>2, <1>4
<1>7. Score(r, hit, pin) = points + 400 * free
  BY <1>3, <1>6
<1>8. /\ hit => 1000 <= w
      /\ ~ hit => w <= 600
      /\ ~ hit /\ ~ pin => w <= 200
      /\ pin => 400 <= w
  BY <1>2, <1>4
<1> HIDE DEF l, s, h, w, points, free, cap
<1>9. /\ hit => 1000 * cap <= points
      /\ ~ hit => points <= 600 * cap
      /\ ~ hit /\ ~ pin => points <= 200 * cap
      /\ pin => 400 * cap <= points
  <2>1. \A a, b \in Nat : a <= b => a * cap <= b * cap
    BY <1>1, TimesMonotone
  <2> QED
    BY <1>6, <1>8, <2>1 DEF points
<1>10. /\ Score(r, hit, pin) \in Nat
       /\ hit => 1000 * cap < Score(r, hit, pin)
       /\ ~ hit => Score(r, hit, pin) <= 1000 * cap
       /\ ~ hit /\ ~ pin => Score(r, hit, pin) <= 600 * cap
       /\ pin /\ 2 * r.active < cap => 600 * cap < Score(r, hit, pin)
  BY <1>1, <1>5, <1>6, <1>7, <1>9
<1> QED
  BY <1>10 DEF cap

-----------------------------------------------------------------------------
(* The invariant *)

LEMMA RouterInvInit == RouterInit => RouterInv
<1> SUFFICES ASSUME RouterInit PROVE RouterInv
  OBVIOUS
<1>1. DOMAIN info = {} /\ healthy = {} /\ \A q \in Requests : request[q] = IdleRequest
  BY DEF RouterInit, EmptyMap
<1>2. IdleRequest \in Request /\ IdleRequest.pc = "idle" /\ IdleRequest.todo = {}
  BY RouterAssumption DEF IdleRequest, Request
<1>3. RouterTypeOK
  <2>1. 0 \in 0 .. AgeCap /\ 0 \in 0 .. HealthPeriod /\ 0 \in 0 .. MaxOvertakes
        /\ 0 \in 0 .. PrefixTTL
    BY RouterAssumption
  <2>2. \A p \in Prefixes : ~ ttl[p] > 0 /\ cached[p] = {}
    BY DEF RouterInit
  <2>3. /\ pipe \in [CacheReports -> Prefixes \cup {NoPrefix}]
        /\ ttl \in [Prefixes -> 0 .. PrefixTTL] /\ cached \in [Prefixes -> SUBSET Clusters]
        /\ sessions \in [Sessions -> Clusters \cup {NoCluster}]
        /\ age \in [Clusters -> 0 .. AgeCap] /\ request \in [Requests -> Request]
    BY <1>2, <2>1 DEF RouterInit
  <2>4. /\ slept \in 0 .. HealthPeriod /\ overtaken \in 0 .. MaxOvertakes
        /\ admitting \in BOOLEAN /\ lost \subseteq Prefixes
    BY <2>1 DEF RouterInit
  <2> QED
    BY <1>1, <2>2, <2>3, <2>4 DEF RouterTypeOK
<1>4. \A q \in Requests : ScoredUnderLock(q) /\ DecidedWell(q)
  BY <1>1, <1>2 DEF ScoredUnderLock, DecidedWell
<1> QED
  BY <1>1, <1>3, <1>4 DEF RouterInv, HealthyIsRecent

\* Requests are as they were: what was found under the lock stays true as long
\* as nobody changes the map while a request is scored.
LEMMA RequestsStay ==
  ASSUME RouterInv, request' = request,
         \/ info' = info /\ healthy' = healthy
         \/ Scoring = {} /\ DOMAIN info \subseteq DOMAIN info'
  PROVE  \A q \in Requests : ScoredUnderLock(q)' /\ DecidedWell(q)'
<1> TAKE q \in Requests
<1>1. ScoredUnderLock(q) /\ DecidedWell(q)
  BY DEF RouterInv
<1>2. CASE info' = info /\ healthy' = healthy
  BY <1>1, <1>2 DEF ScoredUnderLock, DecidedWell
<1>3. CASE Scoring = {} /\ DOMAIN info \subseteq DOMAIN info'
  <2>1. request[q].pc # "scoring"
    BY <1>3 DEF Scoring
  <2> QED
    BY <1>1, <1>3, <2>1 DEF ScoredUnderLock, DecidedWell
<1> QED
  BY <1>2, <1>3

LEMMA ConstantTypes ==
  /\ HealthTimeout \in Nat /\ HealthPeriod \in Nat \ {0} /\ PrefixTTL \in Nat \ {0}
  /\ RedisTimeout \in Nat /\ MaxOvertakes \in Nat /\ AgeCap \in Nat
  BY RouterAssumption

LEMMA AgeTypes ==
  RouterTypeOK => /\ \A c \in Clusters : age[c] \in Nat
                  /\ healthy \subseteq Clusters /\ slept \in Nat /\ slept <= HealthPeriod
                  /\ \A q \in Requests : request[q].waited \in Nat
                                          /\ request[q].waited <= RedisTimeout
<1> SUFFICES ASSUME RouterTypeOK
             PROVE  /\ \A c \in Clusters : age[c] \in Nat
                    /\ healthy \subseteq Clusters /\ slept \in Nat /\ slept <= HealthPeriod
                    /\ \A q \in Requests : request[q].waited \in Nat
                                            /\ request[q].waited <= RedisTimeout
  OBVIOUS
<1>1. \A c \in Clusters : age[c] \in 0 .. AgeCap
  BY DEF RouterTypeOK
<1>2. healthy \subseteq Clusters /\ slept \in 0 .. HealthPeriod
  BY DEF RouterTypeOK
<1>3. \A q \in Requests : request[q].waited \in 0 .. RedisTimeout
  BY DEF RouterTypeOK, Request
<1> QED
  BY <1>1, <1>2, <1>3, ConstantTypes

\* The wait for one more heartbeat, and for all of them.
LEMMA WaitTypes ==
  RouterTypeOK => /\ overtaken \in Nat /\ WhenAdmitted \in Nat
                  /\ HealthTimeout + HealthPeriod <= WhenAdmitted
                  /\ WhenAdmitted + RedisTimeout <= CheckedWithin /\ CheckedWithin \in Nat
<1> SUFFICES ASSUME RouterTypeOK
             PROVE  /\ overtaken \in Nat /\ WhenAdmitted \in Nat
                    /\ HealthTimeout + HealthPeriod <= WhenAdmitted
                    /\ WhenAdmitted + RedisTimeout <= CheckedWithin /\ CheckedWithin \in Nat
  OBVIOUS
<1> DEFINE wait == overtaken * RedisTimeout
           most == (MaxOvertakes + 1) * RedisTimeout
<1>1. overtaken \in Nat /\ overtaken <= MaxOvertakes
  BY ConstantTypes DEF RouterTypeOK
<1>2. wait \in Nat /\ most \in Nat
  BY <1>1, ConstantTypes
<1>3. wait + RedisTimeout <= most
  <2>1. (overtaken + 1) * RedisTimeout <= most
    <3>1. overtaken + 1 \in Nat /\ MaxOvertakes + 1 \in Nat /\ overtaken + 1 <= MaxOvertakes + 1
      BY <1>1, ConstantTypes
    <3> QED
      BY <3>1, TimesMonotone, ConstantTypes
  <2>2. (overtaken + 1) * RedisTimeout = wait + RedisTimeout
    BY <1>1, ConstantTypes
  <2> QED
    BY <2>1, <2>2
<1>4. WhenAdmitted = HealthTimeout + HealthPeriod + wait
      /\ CheckedWithin = HealthTimeout + HealthPeriod + most
  BY DEF WhenAdmitted, CheckedWithin
<1> HIDE DEF wait, most
<1> QED
  BY <1>1, <1>2, <1>3, <1>4, ConstantTypes

LEMMA RouterInvTick == RouterInv /\ Tick => RouterInv'
<1> SUFFICES ASSUME RouterInv, Tick PROVE RouterInv'
  OBVIOUS
<1> RouterTypeOK /\ HealthyIsRecent
  BY DEF RouterInv
<1>1. /\ UNCHANGED <<info, healthy, overtaken, sessions, pipe>>
      /\ CheckWaits => Scoring # {}
      /\ admitting' = FALSE
      /\ slept' = IF CheckWaits THEN slept ELSE slept + 1
  BY DEF Tick
<1>2. \A c \in Clusters : /\ age'[c] \in 0 .. AgeCap /\ age'[c] <= age[c] + 1
  <2> TAKE c \in Clusters
  <2>1. age[c] \in 0 .. AgeCap
    BY DEF RouterTypeOK
  <2>2. age'[c] = IF c \in healthy /\ age[c] < AgeCap THEN age[c] + 1 ELSE age[c]
    BY DEF Tick
  <2> QED
    BY <2>1, <2>2, ConstantTypes
<1>3. ASSUME NEW q \in Scoring
      PROVE  /\ q \in Requests
             /\ request[q].waited \in Nat /\ request[q].waited < RedisTimeout
             /\ request'[q].waited = request[q].waited + 1
  <2>1. q \in Requests /\ request[q] \in Request
    BY DEF Scoring, RouterTypeOK
  <2>2. request[q].waited < RedisTimeout
    BY DEF Tick
  <2>3. request'[q] = [request[q] EXCEPT !.waited = @ + 1]
    BY <2>1 DEF Tick
  <2>4. request'[q].waited = request[q].waited + 1
    BY <2>1, <2>3 DEF Request
  <2> QED
    BY <2>1, <2>2, <2>4, AgeTypes
<1>4. ASSUME NEW q \in Requests
      PROVE  /\ request'[q] \in Request
             /\ request'[q].pc = request[q].pc /\ request'[q].todo = request[q].todo
             /\ request'[q].candidates = request[q].candidates
             /\ request'[q].hits = request[q].hits /\ request'[q].pinned = request[q].pinned
             /\ request'[q].chosen = request[q].chosen
  <2>1. request[q] \in Request
    BY DEF RouterTypeOK
  <2>2. CASE q \in Scoring
    <3>1. request[q].waited + 1 \in 0 .. RedisTimeout
      BY <1>3, <2>2, ConstantTypes
    <3>2. request'[q] = [request[q] EXCEPT !.waited = @ + 1]
      BY <2>2 DEF Tick
    <3> QED
      BY <2>1, <3>1, <3>2 DEF Request
  <2>3. CASE q \notin Scoring
    BY <2>1, <2>3 DEF Tick
  <2> QED
    BY <2>2, <2>3
<1>5. Scoring' = Scoring
  BY <1>4 DEF Scoring
<1>6. RouterTypeOK'
  <2>1. request' \in [Requests -> Request]
    <3>1. request' = [q \in Requests |-> request'[q]]
      BY DEF Tick
    <3> QED
      BY <1>4, <3>1
  <2>2. age' \in [Clusters -> 0 .. AgeCap]
    <3>1. age' = [c \in Clusters |-> age'[c]]
      BY DEF Tick
    <3> QED
      BY <1>2, <3>1
  <2>3. slept' \in 0 .. HealthPeriod
    BY <1>1, AgeTypes, ConstantTypes DEF CheckWaits
  <2>4. ASSUME NEW p \in Prefixes
        PROVE  /\ ttl'[p] \in 0 .. PrefixTTL /\ cached'[p] \subseteq Clusters
               /\ ttl'[p] > 0 => cached'[p] # {}
               /\ ttl'[p] = 0 /\ cached'[p] # {} => p \in lost' \/ \E h \in CacheReports : pipe'[h] = p
    <3>1. /\ ttl[p] \in 0 .. PrefixTTL /\ cached[p] \subseteq Clusters
          /\ ttl[p] > 0 => cached[p] # {}
          /\ ttl[p] = 0 /\ cached[p] # {} => p \in lost \/ \E h \in CacheReports : pipe[h] = p
      BY DEF RouterTypeOK
    <3>2. /\ ttl'[p] = IF ttl[p] = 0 THEN 0 ELSE ttl[p] - 1
          /\ cached'[p] = IF ttl[p] = 1 THEN {} ELSE cached[p]
          /\ p \in lost /\ ttl[p] # 1 => p \in lost'
      BY DEF Tick
    <3>3. /\ ttl'[p] \in 0 .. PrefixTTL /\ cached'[p] \subseteq Clusters
          /\ ttl'[p] > 0 => ttl[p] > 0 /\ ttl[p] # 1
          /\ ttl'[p] = 0 => ttl[p] = 1 \/ ttl[p] = 0
      BY <3>1, <3>2, ConstantTypes
    <3>4. ttl[p] = 0 => ttl[p] # 1
      OBVIOUS
    <3> QED
      BY <1>1, <3>1, <3>2, <3>3, <3>4
  <2>5. ttl' \in [Prefixes -> 0 .. PrefixTTL] /\ cached' \in [Prefixes -> SUBSET Clusters]
    <3>1. ttl' = [p \in Prefixes |-> ttl'[p]] /\ cached' = [p \in Prefixes |-> cached'[p]]
      BY DEF Tick
    <3> QED
      BY <2>4, <3>1
  <2>6. lost' \subseteq Prefixes
    BY DEF Tick, RouterTypeOK
  <2> QED
    BY <1>1, <2>1, <2>2, <2>3, <2>4, <2>5, <2>6 DEF RouterTypeOK
<1>7. \A q \in Requests : ScoredUnderLock(q)' /\ DecidedWell(q)'
  <2> TAKE q \in Requests
  <2>1. ScoredUnderLock(q) /\ DecidedWell(q)
    BY DEF RouterInv
  <2>2. ScoredUnderLock(q)'
    BY <1>1, <1>4, <2>1 DEF ScoredUnderLock
  <2>3. DecidedWell(q)'
    BY <1>1, <1>4, <2>1 DEF DecidedWell
  <2> QED
    BY <2>2, <2>3
<1>8. HealthyIsRecent'
  <2>1. WhenAdmitted' = WhenAdmitted /\ WhenAdmitted \in Nat
    BY <1>1, WaitTypes DEF WhenAdmitted
  <2> SUFFICES ASSUME NEW c \in healthy
               PROVE  IF CheckWaits'
                      THEN /\ age'[c] <= WhenAdmitted + RedisTimeout
                           /\ \A q \in Scoring : age'[c] <= WhenAdmitted + request'[q].waited
                      ELSE age'[c] <= HealthTimeout + slept'
    BY <1>1, <1>5, <2>1 DEF HealthyIsRecent
  <2>2. c \in Clusters /\ age[c] \in Nat /\ age'[c] \in Nat /\ age'[c] <= age[c] + 1
    BY <1>2, AgeTypes, ConstantTypes
  <2>3. CASE CheckWaits
    <3>1. CheckWaits'
      BY <1>1, <2>3 DEF CheckWaits
    <3>2. \A q \in Scoring : age[c] <= WhenAdmitted + request[q].waited
      BY <2>3 DEF HealthyIsRecent
    <3>3. \A q \in Scoring : /\ request[q].waited \in Nat /\ request[q].waited < RedisTimeout
                             /\ request'[q].waited = request[q].waited + 1
      BY <1>3
    <3>4. \A q \in Scoring : age'[c] <= WhenAdmitted + request'[q].waited
      BY <2>1, <2>2, <3>2, <3>3, ConstantTypes
    <3>5. age'[c] <= WhenAdmitted + RedisTimeout
      BY <1>1, <2>1, <2>2, <2>3, <3>2, <3>3, ConstantTypes
    <3> QED
      BY <3>1, <3>4, <3>5
  <2>4. CASE ~ CheckWaits
    <3>1. age[c] <= HealthTimeout + slept /\ slept' = slept + 1 /\ slept \in Nat
      BY <1>1, <2>4, AgeTypes DEF HealthyIsRecent
    <3>2. age'[c] <= HealthTimeout + slept' /\ slept' \in Nat
      BY <2>2, <3>1, ConstantTypes
    <3>3. \A q \in Scoring : request'[q].waited \in Nat
      BY <1>3
    <3>4. CheckWaits' => age'[c] <= WhenAdmitted
      BY <2>1, <2>2, <3>2, WaitTypes, ConstantTypes DEF CheckWaits
    <3> QED
      BY <2>1, <2>2, <3>2, <3>3, <3>4, ConstantTypes
  <2> QED
    BY <2>3, <2>4
<1> QED
  BY <1>6, <1>7, <1>8 DEF RouterInv

RedisTypeOK ==
  /\ sessions \in [Sessions -> Clusters \cup {NoCluster}]
  /\ cached \in [Prefixes -> SUBSET Clusters]
  /\ ttl \in [Prefixes -> 0 .. PrefixTTL]
  /\ pipe \in [CacheReports -> Prefixes \cup {NoPrefix}]
  /\ lost \subseteq Prefixes
  /\ \A p \in Prefixes :
       /\ ttl[p] > 0 => cached[p] # {}
       /\ ttl[p] = 0 /\ cached[p] # {} => p \in lost \/ \E h \in CacheReports : pipe[h] = p

LEMMA RecentStays ==
  ASSUME RouterInv, UNCHANGED <<healthy, age, lockVars>>, Scoring' \subseteq Scoring,
         \A q \in Scoring' : request'[q].waited = request[q].waited
  PROVE  HealthyIsRecent'
  BY DEF RouterInv, HealthyIsRecent, CheckWaits, WhenAdmitted, lockVars

\* Steps of Redis alone.
LEMMA RouterInvRedis ==
  ASSUME RouterInv, UNCHANGED <<tableVars, lockVars, request>>, RedisTypeOK'
  PROVE  RouterInv'
<1>1. UNCHANGED <<info, healthy, age, slept, overtaken, admitting, request>>
  BY DEF tableVars, lockVars
<1>2. RouterTypeOK'
  BY <1>1 DEF RouterInv, RouterTypeOK, RedisTypeOK
<1>3. \A q \in Requests : ScoredUnderLock(q)' /\ DecidedWell(q)'
  BY <1>1, RequestsStay
<1>4. HealthyIsRecent'
  BY <1>1, RecentStays DEF Scoring, lockVars
<1> QED
  BY <1>2, <1>3, <1>4 DEF RouterInv

LEMMA RouterInvExpire ==
  ASSUME RouterInv, NEW s \in Sessions, ExpireSession(s)
  PROVE  RouterInv'
<1>1. UNCHANGED <<tableVars, lockVars, request, cached, ttl, pipe, lost>>
      /\ sessions' = [sessions EXCEPT ![s] = NoCluster]
  BY DEF ExpireSession, keyVars
<1>2. RedisTypeOK'
  BY <1>1 DEF RouterInv, RouterTypeOK, RedisTypeOK
<1> QED
  BY <1>1, <1>2, RouterInvRedis

\* A claim that makes a key leaves the report waiting for the key's EXPIRE.
LEMMA RouterInvAddClaim ==
  ASSUME RouterInv, NEW h \in CacheReports, NEW c \in Clusters, NEW p \in Prefixes,
         AddClaim(h, c, p)
  PROVE  RouterInv'
<1>1. /\ UNCHANGED <<tableVars, lockVars, request, sessions, ttl, lost>>
      /\ cached' = [cached EXCEPT ![p] = @ \cup {c}] \/ cached' = cached
      /\ pipe[h] = NoPrefix /\ pipe' = [pipe EXCEPT ![h] = p]
  BY DEF AddClaim
<1>2. /\ cached \in [Prefixes -> SUBSET Clusters]
      /\ pipe \in [CacheReports -> Prefixes \cup {NoPrefix}]
  BY DEF RouterInv, RouterTypeOK
<1>3. ASSUME NEW x \in Prefixes
      PROVE  /\ ttl'[x] > 0 => cached'[x] # {}
             /\ ttl'[x] = 0 /\ cached'[x] # {} => x \in lost' \/ \E k \in CacheReports : pipe'[k] = x
  <2>1. /\ ttl[x] > 0 => cached[x] # {}
        /\ ttl[x] = 0 /\ cached[x] # {} => x \in lost \/ \E k \in CacheReports : pipe[k] = x
    BY DEF RouterInv, RouterTypeOK
  <2>2. cached[x] \subseteq cached'[x] /\ (x # p => cached'[x] = cached[x])
    BY <1>1, <1>2
  <2>3. pipe'[h] = p /\ \A k \in CacheReports : pipe[k] = x => pipe'[k] = x
    BY <1>1, <1>2, RouterAssumption
  <2> QED
    BY <1>1, <2>1, <2>2, <2>3
<1>4. RedisTypeOK'
  BY <1>1, <1>2, <1>3 DEF RouterInv, RouterTypeOK, RedisTypeOK
<1> QED
  BY <1>1, <1>4, RouterInvRedis

\* An EXPIRE that finds the key gives it a time to live ...
LEMMA RouterInvRenew ==
  ASSUME RouterInv, NEW h \in CacheReports, RenewKey(h)
  PROVE  RouterInv'
<1> DEFINE p == pipe[h]
<1>1. /\ UNCHANGED <<tableVars, lockVars, request, sessions, cached>> /\ p # NoPrefix
      /\ ttl' = IF cached[p] = {} THEN ttl ELSE [ttl EXCEPT ![p] = PrefixTTL]
      /\ lost' = lost \ {p} /\ pipe' = [pipe EXCEPT ![h] = NoPrefix]
  BY DEF RenewKey
<1>2. /\ ttl \in [Prefixes -> 0 .. PrefixTTL] /\ p \in Prefixes
      /\ pipe \in [CacheReports -> Prefixes \cup {NoPrefix}]
  BY <1>1 DEF RouterInv, RouterTypeOK
<1> HIDE DEF p
<1>3. PrefixTTL \in 0 .. PrefixTTL /\ PrefixTTL # 0
  BY ConstantTypes
<1>4. ASSUME NEW x \in Prefixes
      PROVE  /\ ttl'[x] > 0 => cached'[x] # {}
             /\ ttl'[x] = 0 /\ cached'[x] # {} => x \in lost' \/ \E k \in CacheReports : pipe'[k] = x
  <2>1. /\ ttl[x] > 0 => cached[x] # {}
        /\ ttl[x] = 0 /\ cached[x] # {} => x \in lost \/ \E k \in CacheReports : pipe[k] = x
    BY DEF RouterInv, RouterTypeOK
  <2>2. CASE x = p
    BY <1>1, <1>2, <1>3, <2>1, <2>2
  <2>3. CASE x # p
    <3>1. ttl'[x] = ttl[x] /\ (x \in lost => x \in lost')
      BY <1>1, <1>2, <2>3
    <3>2. \A k \in CacheReports : pipe[k] = x => pipe'[k] = x
      BY <1>1, <1>2, <2>3 DEF p
    <3> QED
      BY <1>1, <2>1, <3>1, <3>2
  <2> QED
    BY <2>2, <2>3
<1>5. RedisTypeOK'
  BY <1>1, <1>2, <1>3, <1>4 DEF RouterInv, RouterTypeOK, RedisTypeOK
<1> QED
  BY <1>1, <1>5, RouterInvRedis

\* ... and one that is lost leaves it as it is.
LEMMA RouterInvLose ==
  ASSUME RouterInv, NEW h \in CacheReports, LoseRenewal(h)
  PROVE  RouterInv'
<1> DEFINE p == pipe[h]
<1>1. /\ UNCHANGED <<tableVars, lockVars, request, sessions, cached, ttl>> /\ p # NoPrefix
      /\ lost' = IF cached[p] = {} THEN lost ELSE lost \cup {p}
      /\ pipe' = [pipe EXCEPT ![h] = NoPrefix]
  BY DEF LoseRenewal
<1>2. p \in Prefixes /\ pipe \in [CacheReports -> Prefixes \cup {NoPrefix}]
  BY <1>1 DEF RouterInv, RouterTypeOK
<1> HIDE DEF p
<1>3. ASSUME NEW x \in Prefixes, ttl'[x] = 0, cached'[x] # {}
      PROVE  x \in lost' \/ \E k \in CacheReports : pipe'[k] = x
  <2>1. x \in lost \/ \E k \in CacheReports : pipe[k] = x
    BY <1>1, <1>3 DEF RouterInv, RouterTypeOK
  <2>2. CASE x = p
    BY <1>1, <1>3, <2>2
  <2>3. CASE x # p
    <3>1. x \in lost => x \in lost'
      BY <1>1
    <3>2. \A k \in CacheReports : pipe[k] = x => pipe'[k] = x
      BY <1>1, <1>2, <2>3 DEF p
    <3> QED
      BY <2>1, <3>1, <3>2
  <2> QED
    BY <2>2, <2>3
<1>4. RedisTypeOK'
  BY <1>1, <1>2, <1>3 DEF RouterInv, RouterTypeOK, RedisTypeOK
<1> QED
  BY <1>1, <1>4, RouterInvRedis

LEMMA RouterInvHeartbeat ==
  ASSUME RouterInv, NEW c \in Clusters, NEW r \in Reports, Heartbeat(c, r)
  PROVE  RouterInv'
<1> RouterTypeOK /\ HealthyIsRecent
  BY DEF RouterInv
<1>1. /\ Scoring = {} /\ info' = Put(info, c, r) /\ healthy' = healthy \cup {c}
      /\ age' = [age EXCEPT ![c] = 0] /\ UNCHANGED <<slept, redisVars, request>>
      /\ CheckWaits => overtaken < MaxOvertakes
      /\ overtaken' = IF CheckWaits THEN overtaken + 1 ELSE overtaken
      /\ admitting' = CheckWaits
  BY DEF Heartbeat
<1>2. /\ DOMAIN info' = DOMAIN info \cup {c}
      /\ \A d \in DOMAIN info' : info'[d] \in Reports
  BY <1>1 DEF Put, RouterTypeOK
<1>3. RouterTypeOK'
  <2>1. 0 \in 0 .. AgeCap /\ overtaken \in 0 .. MaxOvertakes
    BY ConstantTypes DEF RouterTypeOK
  <2>2. overtaken' \in 0 .. MaxOvertakes /\ admitting' \in BOOLEAN
    BY <1>1, <2>1, ConstantTypes DEF CheckWaits
  <2> QED
    BY <1>1, <1>2, <2>1, <2>2 DEF RouterTypeOK, redisVars, keyVars
<1>4. \A q \in Requests : ScoredUnderLock(q)' /\ DecidedWell(q)'
  BY <1>1, <1>2, RequestsStay
<1>5. HealthyIsRecent'
  <2>1. Scoring' = {} /\ (CheckWaits' <=> CheckWaits)
    BY <1>1 DEF Scoring, CheckWaits
  <2>2. /\ WhenAdmitted \in Nat /\ 0 <= HealthTimeout + slept
        /\ 0 <= WhenAdmitted + RedisTimeout /\ 0 <= WhenAdmitted + RedisTimeout + RedisTimeout
    BY AgeTypes, WaitTypes, ConstantTypes
  <2>3. \A d \in healthy' : age'[d] = 0 \/ (d \in healthy /\ age'[d] = age[d] /\ age[d] \in Nat)
    BY <1>1, AgeTypes DEF RouterTypeOK
  <2>4. CASE CheckWaits
    <3>1. WhenAdmitted' = WhenAdmitted + RedisTimeout
      <4>1. (overtaken + 1) * RedisTimeout = overtaken * RedisTimeout + RedisTimeout
            /\ overtaken * RedisTimeout \in Nat
        BY WaitTypes, ConstantTypes
      <4>2. WhenAdmitted' = HealthTimeout + HealthPeriod + (overtaken + 1) * RedisTimeout
        BY <1>1, <2>4 DEF WhenAdmitted
      <4> QED
        BY <4>1, <4>2, ConstantTypes DEF WhenAdmitted
    <3>2. \A d \in healthy' : age'[d] <= WhenAdmitted + RedisTimeout
      BY <2>2, <2>3, <2>4 DEF HealthyIsRecent
    <3>3. \A d \in healthy' : age'[d] <= WhenAdmitted + RedisTimeout + RedisTimeout
      BY <2>2, <2>3, <3>2, ConstantTypes
    <3> QED
      BY <2>1, <2>4, <3>1, <3>2, <3>3 DEF HealthyIsRecent
  <2>5. CASE ~ CheckWaits
    BY <1>1, <2>1, <2>2, <2>3, <2>5 DEF HealthyIsRecent
  <2> QED
    BY <2>4, <2>5
<1> QED
  BY <1>3, <1>4, <1>5 DEF RouterInv

LEMMA RouterInvHealthCheck == RouterInv /\ HealthCheck => RouterInv'
<1> SUFFICES ASSUME RouterInv, HealthCheck PROVE RouterInv'
  OBVIOUS
<1>1. /\ Scoring = {} /\ healthy' = {c \in healthy : age[c] <= HealthTimeout}
      /\ age' = [c \in Clusters |-> IF c \in healthy' THEN age[c] ELSE 0]
      /\ slept' = 0 /\ overtaken' = 0 /\ admitting' = FALSE
      /\ UNCHANGED <<info, redisVars, request>>
  BY DEF HealthCheck, LockPasses
<1>2. RouterTypeOK'
  <2>1. 0 \in 0 .. HealthPeriod /\ 0 \in 0 .. MaxOvertakes /\ 0 \in 0 .. AgeCap
    BY ConstantTypes
  <2>2. age' \in [Clusters -> 0 .. AgeCap]
    BY <1>1, <2>1 DEF RouterInv, RouterTypeOK
  <2> QED
    BY <1>1, <2>1, <2>2 DEF RouterInv, RouterTypeOK, redisVars, keyVars
<1>3. \A q \in Requests : ScoredUnderLock(q)' /\ DecidedWell(q)'
  <2> TAKE q \in Requests
  <2>1. ScoredUnderLock(q) /\ DecidedWell(q) /\ request[q].pc # "scoring"
    BY <1>1 DEF RouterInv, Scoring
  <2> QED
    BY <1>1, <2>1 DEF ScoredUnderLock, DecidedWell
<1>4. HealthyIsRecent'
  <2>1. ~ CheckWaits'
    BY <1>1, ConstantTypes DEF CheckWaits
  <2>2. HealthTimeout + 0 = HealthTimeout
    BY ConstantTypes
  <2>3. \A c \in healthy' : age'[c] <= HealthTimeout + 0
    BY <1>1, <2>2, AgeTypes DEF RouterInv
  <2> QED
    BY <1>1, <2>1, <2>3 DEF HealthyIsRecent
<1> QED
  BY <1>2, <1>3, <1>4 DEF RouterInv

\* One request goes on.
LEMMA RouterInvRequest ==
  ASSUME RouterInv, NEW q \in Requests, NEW r \in Request, request' = [request EXCEPT ![q] = r],
         UNCHANGED <<tableVars, lockVars>>, RedisTypeOK',
         r.pc = "scoring" => \/ ~ CheckWaits
                             \/ admitting /\ r.waited = 0
                             \/ request[q].pc = "scoring" /\ r.waited = request[q].waited,
         ScoredUnderLock(q)', DecidedWell(q)'
  PROVE  RouterInv'
<1>1. UNCHANGED <<info, healthy, age, slept, overtaken, admitting>>
  BY DEF tableVars, lockVars
<1>2. /\ request' \in [Requests -> Request] /\ request'[q] = r
      /\ \A p \in Requests \ {q} : request'[p] = request[p]
  BY DEF RouterInv, RouterTypeOK
<1>3. RouterTypeOK'
  BY <1>1, <1>2 DEF RouterInv, RouterTypeOK, RedisTypeOK
<1>4. ASSUME NEW p \in Requests PROVE ScoredUnderLock(p)' /\ DecidedWell(p)'
  <2>1. CASE p = q
    BY <2>1
  <2>2. CASE p # q
    BY <1>1, <1>2, <2>2 DEF RouterInv, ScoredUnderLock, DecidedWell
  <2> QED
    BY <2>1, <2>2
<1>5. HealthyIsRecent'
  <2>1. CheckWaits' <=> CheckWaits
    BY <1>1 DEF CheckWaits
  <2>2. CASE ~ CheckWaits
    BY <1>1, <2>1, <2>2 DEF RouterInv, HealthyIsRecent
  <2>3. CASE CheckWaits
    <3>1. WhenAdmitted' = WhenAdmitted /\ WhenAdmitted \in Nat
      BY <1>1, WaitTypes DEF WhenAdmitted, RouterInv
    <3>2. \A p \in Scoring' : \/ p \in Scoring /\ request'[p].waited = request[p].waited
                              \/ admitting /\ request'[p].waited = 0
      BY <1>2, <2>3 DEF Scoring
    <3>3. \A c \in healthy, p \in Scoring' : age[c] <= WhenAdmitted + request'[p].waited
      BY <2>3, <3>1, <3>2 DEF RouterInv, HealthyIsRecent
    <3> QED
      BY <1>1, <2>1, <2>3, <3>1, <3>3 DEF RouterInv, HealthyIsRecent
  <2> QED
    BY <2>2, <2>3
<1> QED
  BY <1>3, <1>4, <1>5 DEF RouterInv

LEMMA IdleIsTyped ==
  /\ IdleRequest \in Request
  /\ IdleRequest.pc = "idle" /\ IdleRequest.todo = {}
  /\ IdleRequest.hits = {} /\ IdleRequest.pinned = {} /\ IdleRequest.waited = 0
  BY ConstantTypes DEF IdleRequest, Request

LEMMA RouterInvBegin ==
  ASSUME RouterInv, NEW q \in Requests, NEW m \in Models \cup {NoModel},
         NEW s \in Sessions \cup {NoSession}, NEW p \in Prefixes \cup {NoPrefix},
         BeginRoute(q, m, s, p)
  PROVE  RouterInv'
<1> DEFINE r == [IdleRequest EXCEPT !.pc = "scoring", !.session = s, !.prefix = p,
                                    !.candidates = Eligible(m), !.todo = Eligible(m)]
<1>1. /\ CheckWaits => admitting
      /\ request' = [request EXCEPT ![q] = r]
      /\ UNCHANGED <<tableVars, lockVars, redisVars>>
  BY DEF BeginRoute
<1>2. Eligible(m) \subseteq healthy /\ healthy \subseteq Clusters
      /\ \A c \in Eligible(m) : info[c].active < info[c].capacity
  BY DEF Eligible, RouterInv, RouterTypeOK
<1>3. /\ r \in Request /\ r.pc = "scoring"
      /\ r.candidates = Eligible(m) /\ r.todo = Eligible(m) /\ r.hits = {} /\ r.pinned = {}
      /\ r.waited = 0
  <2>1. Eligible(m) \subseteq Clusters
    BY <1>2
  <2> QED
    BY <2>1, IdleIsTyped DEF Request
<1> HIDE DEF r
<1>4. request'[q] = r
  BY <1>1 DEF RouterInv, RouterTypeOK
<1>5. ScoredUnderLock(q)' /\ DecidedWell(q)'
  BY <1>1, <1>2, <1>3, <1>4 DEF ScoredUnderLock, DecidedWell, tableVars
<1>6. RedisTypeOK'
  BY <1>1 DEF RouterInv, RouterTypeOK, RedisTypeOK, redisVars, keyVars
<1> QED
  BY <1>1, <1>3, <1>5, <1>6, RouterInvRequest

LEMMA RouterInvScore ==
  ASSUME RouterInv, NEW q \in Requests, NEW c \in Clusters, ScoreCluster(q, c)
  PROVE  RouterInv'
<1>1. PICK hit \in BOOLEAN, pin \in BOOLEAN :
        request' = [request EXCEPT ![q].todo = @ \ {c},
                                   ![q].hits = IF hit THEN @ \cup {c} ELSE @,
                                   ![q].pinned = IF pin THEN @ \cup {c} ELSE @]
  BY DEF ScoreCluster
<1> DEFINE old == request[q]
           r == [old EXCEPT !.todo = @ \ {c}, !.hits = IF hit THEN @ \cup {c} ELSE @,
                            !.pinned = IF pin THEN @ \cup {c} ELSE @]
<1>2. old \in Request /\ c \in old.todo /\ UNCHANGED <<tableVars, lockVars, redisVars>>
  BY DEF ScoreCluster, RouterInv, RouterTypeOK
<1>3. request' = [request EXCEPT ![q] = r]
  BY <1>1
<1>4. old.pc = "scoring" /\ ScoredUnderLock(q)
  BY <1>2 DEF RouterInv, ScoredUnderLock
<1>5. /\ r \in Request /\ r.pc = "scoring" /\ r.waited = old.waited
      /\ r.candidates = old.candidates /\ r.todo = old.todo \ {c}
      /\ r.hits \subseteq old.hits \cup {c} /\ r.pinned \subseteq old.pinned \cup {c}
  BY <1>2, <1>4 DEF Request
<1> HIDE DEF r
<1>6. request'[q] = r
  BY <1>3 DEF RouterInv, RouterTypeOK
<1>7. ScoredUnderLock(q)' /\ DecidedWell(q)'
  BY <1>2, <1>4, <1>5, <1>6 DEF ScoredUnderLock, DecidedWell, tableVars
<1>8. RedisTypeOK'
  BY <1>2 DEF RouterInv, RouterTypeOK, RedisTypeOK, redisVars, keyVars
<1> QED
  BY <1>2, <1>3, <1>4, <1>5, <1>7, <1>8, RouterInvRequest

-----------------------------------------------------------------------------
(* The decision *)

\* What the scores say of two candidates of a request.
LEMMA CandidatesCompare ==
  ASSUME RouterInv, NEW q \in Requests, request[q].pc = "scoring",
         NEW c \in request[q].candidates, NEW d \in request[q].candidates, AtLeast(q, c, d)
  PROVE  /\ d \in request[q].hits => c \in request[q].hits
         /\ d \in request[q].pinned /\ 2 * info[d].active < info[d].capacity
              => c \in request[q].hits \/ c \in request[q].pinned
<1> DEFINE hit(x) == x \in request[q].hits
           pin(x) == x \in request[q].pinned
           points(x) == Score(info[x], hit(x), pin(x))
<1>1. ASSUME NEW x \in request[q].candidates
      PROVE  info[x] \in Report /\ info[x].active < info[x].capacity
  BY RouterAssumption DEF RouterInv, RouterTypeOK, ScoredUnderLock
<1>2. ASSUME NEW x \in request[q].candidates
      PROVE  /\ points(x) \in Nat
             /\ hit(x) => 1000 * info[x].capacity < points(x)
             /\ ~ hit(x) => points(x) <= 1000 * info[x].capacity
             /\ ~ hit(x) /\ ~ pin(x) => points(x) <= 600 * info[x].capacity
             /\ pin(x) /\ 2 * info[x].active < info[x].capacity
                  => 600 * info[x].capacity < points(x)
  <2> DEFINE h == hit(x)
             p == pin(x)
  <2>1. h \in BOOLEAN /\ p \in BOOLEAN /\ info[x] \in Report /\ info[x].active < info[x].capacity
    BY <1>1
  <2> HIDE DEF h, p
  <2>2. /\ Score(info[x], h, p) \in Nat
        /\ h => 1000 * info[x].capacity < Score(info[x], h, p)
        /\ ~ h => Score(info[x], h, p) <= 1000 * info[x].capacity
        /\ ~ h /\ ~ p => Score(info[x], h, p) <= 600 * info[x].capacity
        /\ p /\ 2 * info[x].active < info[x].capacity
             => 600 * info[x].capacity < Score(info[x], h, p)
    BY <2>1, ScoreBounds
  <2> QED
    BY <2>2 DEF h, p
<1>3. \A x \in request[q].candidates : info[x].capacity \in Nat \ {0}
  BY <1>1 DEF Report
<1>4. points(c) * info[d].capacity >= points(d) * info[c].capacity
  BY DEF AtLeast
<1> HIDE DEF points
<1>5. ASSUME NEW m \in Nat, m * info[d].capacity < points(d), points(c) <= m * info[c].capacity
      PROVE  FALSE
  BY <1>2, <1>3, <1>4, <1>5, PointsBeat
<1>6. hit(d) => hit(c)
  <2>1. 1000 \in Nat
    OBVIOUS
  <2> QED
    BY <1>2, <1>5, <2>1
<1>7. pin(d) /\ 2 * info[d].active < info[d].capacity => hit(c) \/ pin(c)
  <2>1. 600 \in Nat
    OBVIOUS
  <2> QED
    BY <1>2, <1>5, <2>1
<1> QED
  BY <1>6, <1>7

LEMMA Decided ==
  ASSUME RouterInv, NEW q \in Requests, Decide(q)
  PROVE  \E c \in request[q].candidates :
           /\ \A d \in request[q].candidates : AtLeast(q, c, d)
           /\ c \in healthy /\ c \in DOMAIN info
           /\ request' = [request EXCEPT ![q] =
                            [IdleRequest EXCEPT !.pc = "decided", !.chosen = c]]
           /\ request'[q].pc = "decided" /\ request'[q].chosen = c
           /\ request'[q].todo = {}
           /\ request'[q] \in Request
<1>1. PICK c \in request[q].candidates :
        /\ \A d \in request[q].candidates : AtLeast(q, c, d)
        /\ request' = [request EXCEPT ![q] =
                         [IdleRequest EXCEPT !.pc = "decided", !.chosen = c]]
  BY DEF Decide
<1> DEFINE r == [IdleRequest EXCEPT !.pc = "decided", !.chosen = c]
<1>2. request[q] \in Request /\ request[q].pc = "scoring" /\ ScoredUnderLock(q)
  BY DEF Decide, RouterInv, RouterTypeOK
<1>3. c \in healthy /\ c \in DOMAIN info /\ c \in Clusters
  BY <1>2 DEF ScoredUnderLock, RouterInv, RouterTypeOK
<1>4. r \in Request /\ r.pc = "decided" /\ r.chosen = c /\ r.todo = {}
  BY <1>3, IdleIsTyped DEF Request
<1>5. request'[q] = r
  BY <1>1 DEF RouterInv, RouterTypeOK
<1> HIDE DEF r
<1> QED
  BY <1>1, <1>3, <1>4, <1>5 DEF r

LEMMA RouterInvDecide ==
  ASSUME RouterInv, NEW q \in Requests, Decide(q)
  PROVE  RouterInv'
<1>1. PICK c \in request[q].candidates :
        /\ \A d \in request[q].candidates : AtLeast(q, c, d)
        /\ c \in healthy /\ c \in DOMAIN info
        /\ request' = [request EXCEPT ![q] = request'[q]]
        /\ request'[q].pc = "decided" /\ request'[q].chosen = c
        /\ request'[q].todo = {} /\ request'[q] \in Request
  <2>1. \A x : request' = [request EXCEPT ![q] = x]
                 => request' = [request EXCEPT ![q] = request'[q]]
    BY DEF RouterInv, RouterTypeOK
  <2> QED
    BY <2>1, Decided
<1>2. request[q].pc = "scoring" /\ UNCHANGED <<tableVars, lockVars, cached, ttl, pipe, lost>>
  BY DEF Decide, keyVars
<1>3. ScoredUnderLock(q)' /\ DecidedWell(q)'
  BY <1>1, <1>2 DEF ScoredUnderLock, DecidedWell, tableVars
<1>4. RedisTypeOK'
  <2>1. c \in Clusters
    BY <1>1 DEF RouterInv, RouterTypeOK
  <2>2. request[q].session \in Sessions \cup {NoSession}
    BY DEF RouterInv, RouterTypeOK, Request
  <2>3. sessions' = sessions
          \/ (request[q].session \in Sessions /\ \E x \in request[q].candidates :
                sessions' = [sessions EXCEPT ![request[q].session] = x])
    BY <2>2 DEF Decide
  <2>4. request[q].candidates \subseteq Clusters
    BY DEF RouterInv, RouterTypeOK, Request
  <2> QED
    BY <1>2, <2>3, <2>4 DEF RouterInv, RouterTypeOK, RedisTypeOK
<1>5. request'[q].pc # "scoring"
  BY <1>1
<1> QED
  BY <1>1, <1>2, <1>3, <1>4, <1>5, RouterInvRequest

LEMMA RouterInvAnswer ==
  ASSUME RouterInv, NEW q \in Requests, Answer(q)
  PROVE  RouterInv'
<1>1. request' = [request EXCEPT ![q] = IdleRequest] /\ UNCHANGED <<tableVars, lockVars, redisVars>>
  BY DEF Answer
<1>2. request'[q] = IdleRequest
  BY <1>1 DEF RouterInv, RouterTypeOK
<1>3. ScoredUnderLock(q)' /\ DecidedWell(q)'
  BY <1>2, IdleIsTyped DEF ScoredUnderLock, DecidedWell
<1>4. RedisTypeOK'
  BY <1>1 DEF RouterInv, RouterTypeOK, RedisTypeOK, redisVars, keyVars
<1> QED
  BY <1>1, <1>3, <1>4, IdleIsTyped, RouterInvRequest

LEMMA RouterInvAborts == RouterInv /\ MapRaceAborts => RouterInv'
<1> SUFFICES ASSUME RouterInv, MapRaceAborts PROVE RouterInv'
  OBVIOUS
<1>1. /\ DOMAIN info' = {} /\ healthy' = {} /\ age' = [c \in Clusters |-> 0]
      /\ slept' = 0 /\ overtaken' = 0 /\ admitting' = FALSE
      /\ request' = [q \in Requests |-> IdleRequest] /\ UNCHANGED redisVars
  BY DEF MapRaceAborts, LockPasses, EmptyMap
<1>2. RouterTypeOK'
  <2>1. 0 \in 0 .. AgeCap /\ 0 \in 0 .. HealthPeriod /\ 0 \in 0 .. MaxOvertakes
    BY ConstantTypes
  <2> QED
    BY <1>1, <2>1, IdleIsTyped DEF RouterInv, RouterTypeOK, redisVars, keyVars
<1>3. \A q \in Requests : ScoredUnderLock(q)' /\ DecidedWell(q)'
  BY <1>1, IdleIsTyped DEF ScoredUnderLock, DecidedWell
<1> QED
  BY <1>1, <1>2, <1>3 DEF RouterInv, HealthyIsRecent

LEMMA RouterInvNext == RouterInv /\ [RouterNext]_vars => RouterInv'
<1> SUFFICES ASSUME RouterInv, [RouterNext]_vars PROVE RouterInv'
  OBVIOUS
<1>1. CASE UNCHANGED vars
  <2>1. UNCHANGED <<tableVars, lockVars, request, sessions, cached, ttl, pipe, lost>>
    BY <1>1 DEF vars, redisVars, keyVars
  <2>2. RedisTypeOK'
    BY <2>1 DEF RouterInv, RouterTypeOK, RedisTypeOK
  <2> QED
    BY <2>1, <2>2, RouterInvRedis
<1>2. CASE Tick \/ HealthCheck \/ MapRaceAborts
  BY <1>2, RouterInvTick, RouterInvHealthCheck, RouterInvAborts
<1>3. CASE \E c \in Clusters, r \in Reports : Heartbeat(c, r)
  BY <1>3, RouterInvHeartbeat
<1>4. CASE \E s \in Sessions : ExpireSession(s)
  BY <1>4, RouterInvExpire
<1>5. CASE \E q \in Requests, m \in Models \cup {NoModel}, s \in Sessions \cup {NoSession},
              p \in Prefixes \cup {NoPrefix} : BeginRoute(q, m, s, p)
  BY <1>5, RouterInvBegin
<1>6. CASE \E q \in Requests : RouteStep(q)
  BY <1>6, RouterInvScore, RouterInvDecide, RouterInvAnswer DEF RouteStep
<1>7. CASE \E h \in CacheReports : CacheReportStep(h)
  BY <1>7, RouterInvAddClaim, RouterInvRenew, RouterInvLose DEF CacheReportStep
<1> QED
  BY <1>1, <1>2, <1>3, <1>4, <1>5, <1>6, <1>7 DEF RouterNext

LEMMA RouterInvariant == RouterSpec => []RouterInv
<1>1. RouterInv /\ [RouterNext]_vars => RouterInv'
  BY RouterInvNext
<1> QED
  BY <1>1, RouterInvInit, PTL DEF RouterSpec

-----------------------------------------------------------------------------
\* Every reachable state of the router is well typed, and Redis with it: a key
\* of prefixes without a time to live waits for an EXPIRE or has lost one.
THEOREM RouterTypeCorrect == RouterSpec => []RouterTypeOK
<1>1. RouterInv => RouterTypeOK
  BY DEF RouterInv
<1> QED
  BY <1>1, RouterInvariant, PTL

\* The second look at the map, without the lock, finds the cluster.
THEOREM ChosenStaysKnown == RouterSpec => []ChosenIsKnown
<1>1. RouterInv => ChosenIsKnown
  BY DEF RouterInv, DecidedWell, ChosenIsKnown
<1> QED
  BY <1>1, RouterInvariant, PTL

-----------------------------------------------------------------------------
(* What a decision is like *)

LEMMA OnlyDecideDecides ==
  ASSUME RouterInv, RouterNext, NEW q \in Requests,
         request[q].pc = "scoring", request'[q].pc = "decided"
  PROVE  Decide(q)
<1>0. request \in [Requests -> Request]
  BY DEF RouterInv, RouterTypeOK
<1>1. CASE Tick
  <2>1. request[q] \in Request
    BY <1>0
  <2>2. request'[q] = [request[q] EXCEPT !.waited = @ + 1] \/ request'[q] = request[q]
    BY <1>1 DEF Tick
  <2> QED
    BY <2>1, <2>2 DEF Request
<1>2. CASE HealthCheck \/ (\E c \in Clusters, r \in Reports : Heartbeat(c, r))
              \/ \E h \in CacheReports : CacheReportStep(h)
  BY <1>2 DEF HealthCheck, Heartbeat, CacheReportStep, AddClaim, RenewKey, LoseRenewal
<1>3. CASE \E s \in Sessions : ExpireSession(s)
  BY <1>3 DEF ExpireSession
<1>4. CASE MapRaceAborts
  BY <1>4, IdleIsTyped DEF MapRaceAborts
<1>5. ASSUME NEW p \in Requests, NEW m \in Models \cup {NoModel},
             NEW s \in Sessions \cup {NoSession}, NEW x \in Prefixes \cup {NoPrefix},
             BeginRoute(p, m, s, x)
      PROVE  FALSE
  <2>1. p # q
    BY <1>5 DEF BeginRoute
  <2>2. request'[q] = request[q]
    BY <1>0, <1>5, <2>1 DEF BeginRoute
  <2> QED
    BY <2>2
<1>6. ASSUME NEW p \in Requests, RouteStep(p) PROVE Decide(q)
  <2>1. CASE \E c \in Clusters : ScoreCluster(p, c)
    <3>1. request'[q].pc = request[q].pc
      BY <1>0, <2>1 DEF ScoreCluster, Request
    <3> QED
      BY <3>1
  <2>2. CASE Decide(p)
    <3>1. p = q \/ request'[q] = request[q]
      BY <1>0, <2>2 DEF Decide
    <3> QED
      BY <2>2, <3>1
  <2>3. CASE Answer(p)
    <3>1. p # q /\ request'[q] = request[q]
      BY <1>0, <2>3 DEF Answer
    <3> QED
      BY <3>1
  <2> QED
    BY <1>6, <2>1, <2>2, <2>3 DEF RouteStep
<1> QED
  BY <1>1, <1>2, <1>3, <1>4, <1>5, <1>6 DEF RouterNext

\* A prefix hit decides, for every load, latency, capacity and session.
THEOREM PrefixDecides == RouterSpec => CacheHitWins
<1> DEFINE Wins == \A q \in Requests :
                     request[q].pc = "scoring" /\ request'[q].pc = "decided"
                     /\ request[q].hits # {}
                     => request'[q].chosen \in request[q].hits
<1>1. RouterInv /\ [RouterNext]_vars => [Wins]_vars
  <2> SUFFICES ASSUME RouterInv, RouterNext, NEW q \in Requests,
                      request[q].pc = "scoring", request'[q].pc = "decided",
                      request[q].hits # {}
               PROVE  request'[q].chosen \in request[q].hits
    OBVIOUS
  <2>1. Decide(q)
    BY OnlyDecideDecides
  <2>2. PICK b \in request[q].candidates :
          /\ \A d \in request[q].candidates : AtLeast(q, b, d)
          /\ request'[q].chosen = b
    BY <2>1, Decided
  <2>3. request[q].hits \subseteq request[q].candidates
    BY DEF RouterInv, ScoredUnderLock
  <2>4. b \in request[q].hits
    BY <2>2, <2>3, CandidatesCompare
  <2> QED
    BY <2>2, <2>4
<1> HIDE DEF Wins
<1>2. RouterSpec => [][Wins]_vars
  BY <1>1, RouterInvariant, PTL DEF RouterSpec
<1> QED
  BY <1>2 DEF CacheHitWins, Wins

\* A session stays on a cluster that is less than half loaded unless the prefix
\* draws it away, for every latency of it and of the others.
THEOREM SessionsStick == RouterSpec => SessionSticks
<1> DEFINE Sticks == \A q \in Requests, c \in Clusters :
                       /\ request[q].pc = "scoring" /\ request'[q].pc = "decided"
                       /\ request[q].pinned = {c}
                       /\ request[q].hits \subseteq {c}
                       /\ 2 * info[c].active < info[c].capacity
                       => request'[q].chosen = c
<1>1. RouterInv /\ [RouterNext]_vars => [Sticks]_vars
  <2> SUFFICES ASSUME RouterInv, RouterNext, NEW q \in Requests, NEW c \in Clusters,
                      request[q].pc = "scoring", request'[q].pc = "decided",
                      request[q].pinned = {c}, request[q].hits \subseteq {c},
                      2 * info[c].active < info[c].capacity
               PROVE  request'[q].chosen = c
    OBVIOUS
  <2>1. Decide(q)
    BY OnlyDecideDecides
  <2>2. PICK b \in request[q].candidates :
          /\ \A d \in request[q].candidates : AtLeast(q, b, d)
          /\ request'[q].chosen = b
    BY <2>1, Decided
  <2>3. c \in request[q].candidates
    BY DEF RouterInv, ScoredUnderLock
  <2>4. b \in request[q].hits \/ b \in request[q].pinned
    BY <2>2, <2>3, CandidatesCompare
  <2> QED
    BY <2>2, <2>4
<1> HIDE DEF Sticks
<1>2. RouterSpec => [][Sticks]_vars
  BY <1>1, RouterInvariant, PTL DEF RouterSpec
<1> QED
  BY <1>2 DEF SessionSticks, Sticks

\* A request goes to a cluster heard of within the timeout, a round of the
\* health check and the time that readers may delay it, however long those are
\* and however many heartbeats overtake it.
THEOREM ChosenWasHeardOf == RouterSpec => ChosenIsRecent
<1> DEFINE Recent == \A q \in Requests :
                       request[q].pc = "scoring" /\ request'[q].pc = "decided"
                       => age[request'[q].chosen] <= CheckedWithin
<1>1. RouterInv /\ [RouterNext]_vars => [Recent]_vars
  <2> SUFFICES ASSUME RouterInv, RouterNext, NEW q \in Requests,
                      request[q].pc = "scoring", request'[q].pc = "decided"
               PROVE  age[request'[q].chosen] <= CheckedWithin
    OBVIOUS
  <2>1. Decide(q)
    BY OnlyDecideDecides
  <2>2. PICK c \in request[q].candidates : c \in healthy /\ request'[q].chosen = c
    BY <2>1, Decided
  <2>3. /\ age[c] \in Nat /\ slept \in Nat /\ slept <= HealthPeriod
        /\ WhenAdmitted \in Nat /\ HealthTimeout + HealthPeriod <= WhenAdmitted
        /\ WhenAdmitted + RedisTimeout <= CheckedWithin /\ CheckedWithin \in Nat
    BY <2>2, AgeTypes, WaitTypes DEF RouterInv
  <2>4. age[c] <= WhenAdmitted + RedisTimeout \/ age[c] <= HealthTimeout + slept
    BY <2>2 DEF RouterInv, HealthyIsRecent
  <2>5. age[c] <= CheckedWithin
    BY <2>3, <2>4, ConstantTypes
  <2> QED
    BY <2>2, <2>5
<1> HIDE DEF Recent
<1>2. RouterSpec => [][Recent]_vars
  BY <1>1, RouterInvariant, PTL DEF RouterSpec
<1> QED
  BY <1>2 DEF ChosenIsRecent, Recent
=============================================================================
