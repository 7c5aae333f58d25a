----------------------------- MODULE Autoscaler -----------------------------
(***************************************************************************)
(* The autoscaler controller: the policy of one deployment, and what is    *)
(* decided for a snapshot of its metrics. net/http serves every request in *)
(* a goroutine of its own and nothing is locked: an evaluation checks the  *)
(* policy's times and writes them in two steps, through a pointer to the   *)
(* policy that was registered when it looked it up.                        *)
(***************************************************************************)
EXTENDS Integers

CONSTANTS
  PolicyIds,    \* policies of the deployment that are registered one after another
  NoPolicy,
  Settings,     \* what the body of a policy may say
  Snapshots,    \* what a snapshot may say: replicas, queue depth, latency, GPU utilisation
  Evaluations,  \* POST /api/evaluate handlers
  Cooldown,     \* [up : 30 s, down : 5 min], where the body says nothing
  LargestInt,   \* the greatest int
  Horizon       \* bound: up to where times are counted

Directions == {"up", "down"}
Metrics == {"queue_depth", "latency", "gpu_utilization", "gpu_util"}

\* The cooldowns and the times of the last decisions have no tag and are decoded
\* like everything else: a cooldown of zero is one that the body leaves out, and
\* a time since a decision is negative if the body says it is still to come.
Setting == [min : Nat, max : Nat, metric : Metrics, target : Nat,
            cooldown : [Directions -> Int], since : [Directions -> Int]]

ASSUME AutoscalerAssumption ==
  /\ NoPolicy \notin PolicyIds \cup Settings
  /\ Settings \subseteq Setting
  /\ Snapshots \subseteq [replicas : Nat, queue : Nat, latency : Nat, gpu : Nat]
  /\ Cooldown \in [Directions -> Nat]
  /\ LargestInt \in Nat /\ Horizon \in Nat
  /\ \A d \in Directions :
       /\ Cooldown[d] <= Horizon
       /\ \A x \in Settings : x.cooldown[d] <= Horizon /\ x.since[d] <= Horizon

VARIABLES
  current,     \* policies[key]
  settings,    \* policy -> what it says
  since,       \* policy -> time since LastScaleUp and LastScaleDown
  evaluation,  \* handler -> the decision it has made and not yet recorded
  ago          \* history: policy -> time since the last decisions under it

scalerVars == <<current, settings, since, evaluation, ago>>

-----------------------------------------------------------------------------
LongAgo == [d \in Directions |-> Horizon]
Idle == [policy |-> NoPolicy]
Decided(p, s, n, d) ==
  [policy |-> p, snapshot |-> s, desired |-> n, direction |-> d, raced |-> FALSE]

UnderWay(e) == evaluation[e] # Idle

Ages == {ages \in [Directions -> Int] : \A d \in Directions : ages[d] <= Horizon}

ScalerTypeOK ==
  /\ current \in PolicyIds \cup {NoPolicy}
  /\ settings \in [PolicyIds -> Settings \cup {NoPolicy}]
  /\ current # NoPolicy => settings[current] # NoPolicy
  /\ since \in [PolicyIds -> Ages] /\ ago \in [PolicyIds -> Ages]
  /\ \A e \in Evaluations : UnderWay(e) => settings[evaluation[e].policy] # NoPolicy

ScalerInit ==
  /\ current = NoPolicy
  /\ settings = [p \in PolicyIds |-> NoPolicy]
  /\ since = [p \in PolicyIds |-> LongAgo]
  /\ ago = [p \in PolicyIds |-> LongAgo]
  /\ evaluation = [e \in Evaluations |-> Idle]

-----------------------------------------------------------------------------
\* Mutant of RegisterPolicy: a body that cannot be decoded is registered all the same.
RegisterUndecoded(p, setting) ==
  /\ settings[p] = NoPolicy
  /\ current' = p
  /\ UNCHANGED <<settings, since, evaluation, ago>>

\* POST /api/policies: a new policy replaces the one that is there, with the
\* times that its body gives; an evaluation under way goes on with the old one.
RegisterPolicy(p, setting) ==
  /\ settings[p] = NoPolicy
  /\ settings' = [settings EXCEPT ![p] = setting]
  /\ since' = [since EXCEPT ![p] = setting.since]
  /\ current' = p
  /\ UNCHANGED <<evaluation, ago>>

CooldownOf(setting, d) ==
  IF setting.cooldown[d] = 0 THEN Cooldown[d] ELSE setting.cooldown[d]

\* "gpu_util", as the policy's comment names it, is not a case of the switch.
Value(metric, s) ==
  CASE metric = "latency" -> s.latency
    [] metric = "gpu_utilization" -> s.gpu
    [] OTHER -> s.queue

CeilDiv(a, b) == (a + b - 1) \div b

\* math.Ceil(replicas * (value / target)), for a target other than zero. The
\* quotient is rounded, so that a product that is an integer may come out one
\* higher.
Products(s, setting) ==
  LET product == s.replicas * Value(setting.metric, s)
  IN IF Value(setting.metric, s) = setting.target THEN {s.replicas}
     ELSE CeilDiv(product, setting.target)
            .. (product \div setting.target) + (IF product = 0 THEN 0 ELSE 1)

\* Its int. Of what no int can hold, and of the infinity or the NaN that a
\* target of zero gives, the conversion is left to the implementation: the
\* least int, zero or the greatest one, the first two of which are clamped alike.
Converted(s, setting) ==
  LET any == {-1, setting.max + 1}
  IN IF setting.target = 0 THEN any
     ELSE {n \in Products(s, setting) : n <= LargestInt}
            \cup {n \in any : \E x \in Products(s, setting) : x > LargestInt}

\* Mutant of Clamp: the bounds changed places.
ClampSwapped(n, setting) ==
  IF n > setting.min THEN setting.min ELSE IF n < setting.max THEN setting.max ELSE n

\* First up to the minimum, then down to the maximum.
Clamp(n, setting) ==
  LET raised == IF n < setting.min THEN setting.min ELSE n
  IN IF raised > setting.max THEN setting.max ELSE raised

Direction(s, n) == IF n > s.replicas THEN "up" ELSE "down"

\* evaluateOne, up to the check of the cooldown. What needs no scaling, or is
\* held back by the cooldown, leaves no trace.
Decide(e, s) ==
  /\ ~ UnderWay(e)
  /\ current # NoPolicy
  /\ \E x \in Converted(s, settings[current]) :
       LET n == Clamp(x, settings[current])
           d == Direction(s, n)
       IN /\ n # s.replicas
          /\ since[current][d] >= CooldownOf(settings[current], d)
          /\ evaluation' = [evaluation EXCEPT ![e] = Decided(current, s, n, d)]
  /\ UNCHANGED <<current, settings, since, ago>>

\* History: the decision is made, and others that were decided meanwhile have
\* not seen it.
Recorded(e) ==
  LET p == evaluation[e].policy
  IN /\ ago' = [ago EXCEPT ![p][evaluation[e].direction] = 0]
     /\ evaluation' = [f \in Evaluations |->
                         IF f = e THEN Idle
                         ELSE IF evaluation[f].policy = p THEN [evaluation[f] EXCEPT !.raced = TRUE]
                         ELSE evaluation[f]]

\* Mutant of Record: the two times changed places.
RecordOther(e) ==
  /\ UnderWay(e)
  /\ LET d == IF evaluation[e].direction = "up" THEN "down" ELSE "up"
     IN since' = [since EXCEPT ![evaluation[e].policy][d] = 0]
  /\ Recorded(e)
  /\ UNCHANGED <<current, settings>>

\* evaluateOne writes LastScaleUp or LastScaleDown and returns.
Record(e) ==
  /\ UnderWay(e)
  /\ since' = [since EXCEPT ![evaluation[e].policy][evaluation[e].direction] = 0]
  /\ Recorded(e)
  /\ UNCHANGED <<current, settings>>

Older(ages) == [d \in Directions |-> IF ages[d] < Horizon THEN ages[d] + 1 ELSE ages[d]]

ScalerTick ==
  /\ since' = [p \in PolicyIds |-> Older(since[p])]
  /\ ago' = [p \in PolicyIds |-> Older(ago[p])]
  /\ UNCHANGED <<current, settings, evaluation>>

\* A registration writes the map that an evaluation goes on reading: the
\* runtime may notice and abort the process. The policies are gone.
PolicyRaceAborts ==
  /\ \E e \in Evaluations : UnderWay(e)
  /\ current' = NoPolicy
  /\ evaluation' = [e \in Evaluations |-> Idle]
  /\ UNCHANGED <<settings, since, ago>>

ScalerNext ==
  \/ \E p \in PolicyIds, setting \in Settings : RegisterPolicy(p, setting)
  \/ \E e \in Evaluations, s \in Snapshots : Decide(e, s)
  \/ \E e \in Evaluations : Record(e)
  \/ ScalerTick
  \/ PolicyRaceAborts

ScalerSpec == ScalerInit /\ [][ScalerNext]_scalerVars

-----------------------------------------------------------------------------
(* Properties *)

\* A decision stays within the policy's bounds and goes the way of the load: a
\* deployment within its bounds is never scaled down over its target, or up
\* under it. A policy without a target, or without room, promises nothing, and
\* the load is lost of a product that no int can hold.
DecisionFollowsLoad ==
  \A e \in Evaluations :
    UnderWay(e) =>
      LET s == evaluation[e].snapshot
          n == evaluation[e].desired
          setting == settings[evaluation[e].policy]
          load == Value(setting.metric, s)
      IN setting.target > 0 /\ setting.min <= setting.max =>
           /\ n \in setting.min .. setting.max
           /\ s.replicas * load < LargestInt * setting.target =>
                /\ load >= setting.target /\ s.replicas <= setting.max => n >= s.replicas
                /\ load <= setting.target /\ s.replicas >= setting.min => n <= s.replicas

\* Under one policy, two decisions of a kind are a cooldown apart, whatever
\* times its body came with, unless the later one was decided before the earlier
\* one was recorded.
CooldownsHold ==
  [][\A e \in Evaluations :
       UnderWay(e) /\ ~ UnderWay(e)' /\ current' # NoPolicy /\ ~ evaluation[e].raced
       => LET p == evaluation[e].policy
              d == evaluation[e].direction
          IN ago[p][d] >= CooldownOf(settings[p], d)]_scalerVars
=============================================================================
