----------------------------- MODULE FleetProofs -----------------------------
(***************************************************************************)
(* Proofs about Fleet, for every number of clusters, all intervals,        *)
(* timeouts and delays.                                                    *)
(***************************************************************************)
EXTENDS Fleet, TLAPS

(***************************************************************************)
(* Why an answer that is awaited never brings old news: while an agent     *)
(* waits, what it waits for is what it knows, and nothing that is under    *)
(* way or in the registry is newer than what the agent knows. An agent     *)
(* that knows nothing, because a process of it has just started or its     *)
(* nodes are gone, learns of nodes that are found at that moment.          *)
(***************************************************************************)
Types ==
  /\ agent \in [Clusters -> Agent]
  /\ underWay \subseteq Heartbeat
  /\ DOMAIN registry \subseteq Clusters
  /\ \A c \in DOMAIN registry : registry[c] \in [nodes : Age, received : Age]

OneAwaited(c) ==
  /\ agent[c].sending <=> \E h \in underWay : h.cluster = c /\ h.awaited
  /\ \A g, h \in underWay :
       g.cluster = c /\ g.awaited /\ h.cluster = c /\ h.awaited => g = h

NewsInOrder(c) ==
  /\ \A h \in underWay : h.cluster = c /\ h.awaited => h.nodes = agent[c].nodes
  /\ agent[c].nodes # NoNodes =>
       /\ \A h \in underWay : h.cluster = c => agent[c].nodes <= h.nodes
       /\ c \in DOMAIN registry => agent[c].nodes <= registry[c].nodes

FleetInv == Types /\ \A c \in Clusters : OneAwaited(c) /\ NewsInOrder(c)

LEMMA FleetInvImpliesType == FleetInv => FleetTypeOK
  BY DEF FleetInv, Types, OneAwaited, FleetTypeOK, Awaited

LEMMA NoMap == DOMAIN EmptyMap = {}
  BY DEF EmptyMap

LEMMA AgeNat == Age \subseteq Nat /\ 0 \in Age /\ NoNodes \notin Age
  BY FleetAssumption DEF Age

LEMMA StoppedAgent ==
  /\ Stopped \in Agent /\ ~ Stopped.sending /\ Stopped.nodes = NoNodes
  /\ [Stopped EXCEPT !.up = TRUE, !.waited = ReportInterval] \in Agent
  /\ ~ [Stopped EXCEPT !.up = TRUE, !.waited = ReportInterval].sending
  /\ [Stopped EXCEPT !.up = TRUE, !.waited = ReportInterval].nodes = NoNodes
<1>1. 0 \in 0 .. ReportInterval /\ ReportInterval \in 0 .. ReportInterval
  BY FleetAssumption
<1>2. QED
  BY <1>1 DEF Stopped, Agent

LEMMA FleetInvInit == FleetInit => FleetInv
  BY NoMap, StoppedAgent DEF FleetInit, FleetInv, Types, OneAwaited, NewsInOrder

\* A cluster that a step does not touch stays in order.
Untouched(c) ==
  /\ agent'[c] = agent[c]
  /\ \A h \in underWay \cup underWay' : h.cluster = c => (h \in underWay <=> h \in underWay')
  /\ c \in DOMAIN registry' => c \in DOMAIN registry /\ registry'[c] = registry[c]

LEMMA UntouchedInOrder ==
  ASSUME FleetInv, NEW c \in Clusters, Untouched(c)
  PROVE  OneAwaited(c)' /\ NewsInOrder(c)'
<1>1. OneAwaited(c)'
  BY DEF FleetInv, OneAwaited, Untouched
<1>2. NewsInOrder(c)'
  BY DEF FleetInv, NewsInOrder, Untouched
<1>3. QED
  BY <1>1, <1>2

LEMMA FleetInvStart ==
  ASSUME FleetInv, NEW c \in Clusters, Start(c)
  PROVE  FleetInv'
<1> DEFINE a == [Stopped EXCEPT !.up = TRUE, !.waited = ReportInterval]
<1>1. /\ agent' = [agent EXCEPT ![c] = a] /\ UNCHANGED <<underWay, registry>>
      /\ \A h \in underWay : h.cluster # c
  BY DEF Start
<1>2. a \in Agent /\ ~ a.sending /\ a.nodes = NoNodes
  BY StoppedAgent
<1> HIDE DEF a
<1>3. /\ Types'
      /\ agent'[c] = a
      /\ \A d \in Clusters : d # c => agent'[d] = agent[d]
  BY <1>1, <1>2 DEF FleetInv, Types
<1>4. OneAwaited(c)' /\ NewsInOrder(c)'
  BY <1>1, <1>2, <1>3 DEF OneAwaited, NewsInOrder
<1>5. \A d \in Clusters : d # c => Untouched(d)
  BY <1>1, <1>3 DEF Untouched
<1>6. QED
  BY <1>3, <1>4, <1>5, UntouchedInOrder DEF FleetInv

LEMMA FleetInvStop ==
  ASSUME FleetInv, NEW c \in Clusters, Stop(c)
  PROVE  FleetInv'
<1> DEFINE after(h) == IF h.cluster = c THEN [h EXCEPT !.awaited = FALSE] ELSE h
<1>1. /\ agent' = [agent EXCEPT ![c] = Stopped]
      /\ underWay' = {after(h) : h \in underWay}
      /\ UNCHANGED registry
  BY DEF Stop
<1>2. \A h \in underWay : /\ after(h) \in Heartbeat /\ after(h).cluster = h.cluster
                          /\ h.cluster = c => ~ after(h).awaited
                          /\ h.cluster # c => after(h) = h
  BY DEF FleetInv, Types, Heartbeat
<1>3. /\ \A h \in underWay : after(h) \in underWay'
      /\ \A g \in underWay' : \E h \in underWay : g = after(h)
  BY <1>1
<1> HIDE DEF after
<1>4. /\ Types'
      /\ agent'[c] = Stopped
      /\ \A d \in Clusters : d # c => agent'[d] = agent[d]
  BY <1>1, <1>2, <1>3, StoppedAgent DEF FleetInv, Types
<1>5. \A g \in underWay' : g.cluster = c => ~ g.awaited
  BY <1>2, <1>3
<1>6. OneAwaited(c)' /\ NewsInOrder(c)'
  BY <1>4, <1>5, StoppedAgent DEF OneAwaited, NewsInOrder
<1>7. ASSUME NEW d \in Clusters, d # c
      PROVE  Untouched(d)
  <2>1. \A h \in underWay : h.cluster = d => h \in underWay'
    BY <1>2, <1>3, <1>7
  <2>2. \A g \in underWay' : g.cluster = d => g \in underWay
    BY <1>2, <1>3, <1>7
  <2>3. QED
    BY <1>1, <1>4, <1>7, <2>1, <2>2 DEF Untouched
<1>8. QED
  BY <1>4, <1>6, <1>7, UntouchedInOrder DEF FleetInv

\* A round: the nodes are found now, or are the ones known, or there are none.
LEMMA FleetInvReport ==
  ASSUME FleetInv, NEW c \in Clusters, Report(c)
  PROVE  FleetInv'
<1>1. PICK nodes \in Discovered(agent[c].nodes) :
        LET sends == nodes # NoNodes
        IN /\ agent' = [agent EXCEPT ![c] = [up |-> TRUE, sending |-> sends,
                                             nodes |-> nodes, waited |-> 0]]
           /\ underWay' = IF sends
                          THEN underWay \cup {[cluster |-> c, nodes |-> nodes, sent |-> 0,
                                               awaited |-> TRUE]}
                          ELSE underWay
  BY DEF Report
<1> DEFINE sends == nodes # NoNodes
           a == [up |-> TRUE, sending |-> sends, nodes |-> nodes, waited |-> 0]
           new == [cluster |-> c, nodes |-> nodes, sent |-> 0, awaited |-> TRUE]
<1>2. UNCHANGED registry /\ \A h \in underWay : h.cluster = c => ~ h.awaited
  BY DEF Report, FleetInv, OneAwaited
<1>3. nodes \in {0, NoNodes, agent[c].nodes} /\ nodes \in Age \cup {NoNodes}
  BY AgeNat DEF Discovered, FleetInv, Types, Agent
<1>4. a \in Agent /\ (a.sending <=> sends) /\ a.nodes = nodes
  <2>1. 0 \in 0 .. ReportInterval
    BY FleetAssumption
  <2>2. QED
    BY <1>3, <2>1 DEF Agent
<1>5. sends => new \in Heartbeat
  <2>1. 0 \in 0 .. MaxDelay
    BY FleetAssumption
  <2>2. QED
    BY <1>3, <2>1 DEF Heartbeat
<1>6. new.cluster = c /\ new.nodes = nodes /\ new.awaited
  OBVIOUS
<1>7. /\ agent' = [agent EXCEPT ![c] = a]
      /\ underWay' = IF sends THEN underWay \cup {new} ELSE underWay
  BY <1>1
<1> HIDE DEF a, new
<1>8. /\ Types'
      /\ agent'[c] = a
      /\ \A d \in Clusters : d # c => agent'[d] = agent[d]
  BY <1>2, <1>4, <1>5, <1>7 DEF FleetInv, Types
<1>9. OneAwaited(c)'
  BY <1>2, <1>4, <1>6, <1>7, <1>8 DEF OneAwaited
<1>10. NewsInOrder(c)'
  <2>1. \A h \in underWay' : h.cluster = c /\ h.awaited => h.nodes = agent'[c].nodes
    BY <1>2, <1>4, <1>6, <1>7, <1>8
  <2>2. CASE nodes = 0
    <3>1. \A h \in underWay' : h.nodes \in Nat
      BY <1>8, AgeNat DEF Types, Heartbeat
    <3>2. \A d \in DOMAIN registry' : registry'[d].nodes \in Nat
      BY <1>8, AgeNat DEF Types
    <3>3. /\ \A h \in underWay' : 0 <= h.nodes
          /\ \A d \in DOMAIN registry' : 0 <= registry'[d].nodes
      BY <3>1, <3>2
    <3>4. QED
      BY <1>4, <1>8, <2>1, <2>2, <3>3 DEF NewsInOrder
  <2>3. CASE nodes = NoNodes
    BY <1>4, <1>8, <2>1, <2>3 DEF NewsInOrder
  <2>4. CASE nodes = agent[c].nodes /\ nodes # NoNodes
    <3>1. nodes <= nodes
      <4>1. nodes \in Nat
        BY <1>3, <2>4, AgeNat
      <4>2. QED
        BY <4>1
    <3>2. \A h \in underWay' : h.cluster = c => nodes <= h.nodes
      BY <1>6, <1>7, <2>4, <3>1 DEF FleetInv, NewsInOrder
    <3>3. c \in DOMAIN registry' => nodes <= registry'[c].nodes
      BY <1>2, <2>4 DEF FleetInv, NewsInOrder
    <3>4. QED
      BY <1>4, <1>8, <2>1, <3>2, <3>3 DEF NewsInOrder
  <2>5. QED
    BY <1>3, <2>2, <2>3, <2>4
<1>11. \A d \in Clusters : d # c => Untouched(d)
  BY <1>2, <1>6, <1>7, <1>8 DEF Untouched
<1>12. QED
  BY <1>8, <1>9, <1>10, <1>11, UntouchedInOrder DEF FleetInv
\* client.Do returns: of the agent only that it is sending changes.
LEMMA ReturnedAgent ==
  ASSUME FleetInv, NEW h \in underWay, agent' = Returned(h)
  PROVE  /\ agent' \in [Clusters -> Agent]
         /\ \A c \in Clusters : /\ agent'[c].nodes = agent[c].nodes
                                /\ c # h.cluster => agent'[c] = agent[c]
         /\ IF h.awaited THEN ~ agent'[h.cluster].sending ELSE agent' = agent
<1>1. h.cluster \in Clusters /\ agent \in [Clusters -> Agent]
  BY DEF FleetInv, Types, Heartbeat
<1>2. CASE h.awaited
  <2> DEFINE a == [agent[h.cluster] EXCEPT !.sending = FALSE]
  <2>1. a \in Agent /\ ~ a.sending /\ a.nodes = agent[h.cluster].nodes
    BY <1>1 DEF Agent
  <2>2. agent' = [agent EXCEPT ![h.cluster] = a]
    BY <1>1, <1>2 DEF Returned
  <2> HIDE DEF a
  <2>3. QED
    BY <1>1, <1>2, <2>1, <2>2
<1>3. CASE ~ h.awaited
  BY <1>1, <1>3 DEF Returned
<1>4. QED
  BY <1>2, <1>3

\* A heartbeat is under way no longer, or is not awaited any more; and nothing
\* but its nodes comes into the registry.
LEMMA HeartbeatEnds ==
  ASSUME FleetInv, NEW h \in underWay, agent' = Returned(h),
         underWay \ {h} \subseteq underWay',
         underWay' \subseteq (underWay \ {h}) \cup {[h EXCEPT !.awaited = FALSE]},
         \A d \in DOMAIN registry' :
           /\ d \in Clusters /\ registry'[d] \in [nodes : Age, received : Age]
           /\ \/ d \in DOMAIN registry /\ registry'[d] = registry[d]
              \/ d = h.cluster /\ registry'[d].nodes = h.nodes
  PROVE  FleetInv'
<1> DEFINE c == h.cluster
           late == [h EXCEPT !.awaited = FALSE]
<1>1. /\ agent' \in [Clusters -> Agent]
      /\ \A d \in Clusters : /\ agent'[d].nodes = agent[d].nodes
                             /\ d # c => agent'[d] = agent[d]
      /\ IF h.awaited THEN ~ agent'[c].sending ELSE agent' = agent
  BY ReturnedAgent
<1>2. h \in Heartbeat /\ c \in Clusters
  BY DEF FleetInv, Types, Heartbeat
<1>3. /\ late \in Heartbeat /\ late.cluster = c /\ late.nodes = h.nodes /\ ~ late.awaited
  BY <1>2 DEF Heartbeat
<1> HIDE DEF late
<1>4. underWay' \subseteq (underWay \ {h}) \cup {late}
  BY DEF late
<1>5. Types'
  BY <1>1, <1>3, <1>4 DEF FleetInv, Types
<1>6. OneAwaited(c)'
  <2>1. CASE h.awaited
    <3>1. \A g \in underWay' : g.cluster = c => ~ g.awaited
      BY <1>2, <1>3, <1>4, <2>1 DEF FleetInv, OneAwaited
    <3>2. QED
      BY <1>1, <2>1, <3>1 DEF OneAwaited
  <2>2. CASE ~ h.awaited
    <3>1. \A g : g \in underWay' /\ g.awaited <=> g \in underWay /\ g.awaited
      BY <1>3, <1>4, <2>2
    <3>2. agent' = agent
      BY <1>1, <2>2
    <3>3. agent[c].sending <=> \E g \in underWay' : g.cluster = c /\ g.awaited
      BY <1>2, <3>1 DEF FleetInv, OneAwaited
    <3>4. \A f, g \in underWay' :
            f.cluster = c /\ f.awaited /\ g.cluster = c /\ g.awaited => f = g
      BY <1>2, <3>1 DEF FleetInv, OneAwaited
    <3>5. QED
      BY <3>2, <3>3, <3>4 DEF OneAwaited
  <2>3. QED
    BY <2>1, <2>2
<1>7. NewsInOrder(c)'
  <2>1. \A g \in underWay' : g.cluster = c /\ g.awaited => g.nodes = agent'[c].nodes
    BY <1>1, <1>2, <1>3, <1>4 DEF FleetInv, NewsInOrder
  <2>2. ASSUME agent[c].nodes # NoNodes
        PROVE  /\ \A g \in underWay' : g.cluster = c => agent[c].nodes <= g.nodes
               /\ c \in DOMAIN registry' => agent[c].nodes <= registry'[c].nodes
    <3>1. /\ \A g \in underWay : g.cluster = c => agent[c].nodes <= g.nodes
          /\ c \in DOMAIN registry => agent[c].nodes <= registry[c].nodes
      BY <1>2, <2>2 DEF FleetInv, NewsInOrder
    <3>2. agent[c].nodes <= h.nodes
      BY <3>1
    <3>3. QED
      BY <1>3, <1>4, <3>1, <3>2
  <2>3. QED
    BY <1>1, <1>2, <2>1, <2>2 DEF NewsInOrder
<1>8. ASSUME NEW d \in Clusters, d # c
      PROVE  Untouched(d)
  <2>1. agent'[d] = agent[d]
    BY <1>1, <1>8
  <2>2. \A g \in underWay \cup underWay' : g.cluster = d => (g \in underWay <=> g \in underWay')
    BY <1>3, <1>4, <1>8
  <2>3. d \in DOMAIN registry' => d \in DOMAIN registry /\ registry'[d] = registry[d]
    BY <1>8
  <2>4. QED
    BY <2>1, <2>2, <2>3 DEF Untouched
<1>9. QED
  BY <1>5, <1>6, <1>7, <1>8, UntouchedInOrder DEF FleetInv

LEMMA FleetInvEnd ==
  ASSUME FleetInv, NEW h \in underWay, GiveUp(h) \/ Lose(h) \/ Receive(h)
  PROVE  FleetInv'
<1>1. CASE GiveUp(h) \/ Lose(h)
  BY <1>1, HeartbeatEnds DEF GiveUp, Lose, FleetInv, Types
<1>2. CASE Receive(h)
  <2> DEFINE known == [nodes |-> h.nodes, received |-> 0]
  <2>1. /\ agent' = Returned(h) /\ underWay' = underWay \ {h}
        /\ registry' = Put(registry, h.cluster, known)
    BY <1>2 DEF Receive
  <2>2. h.cluster \in Clusters /\ known \in [nodes : Age, received : Age]
    BY AgeNat DEF FleetInv, Types, Heartbeat
  <2>3. known.nodes = h.nodes
    OBVIOUS
  <2> HIDE DEF known
  <2>4. /\ DOMAIN registry' = DOMAIN registry \cup {h.cluster}
        /\ registry'[h.cluster] = known
        /\ \A d \in DOMAIN registry : d # h.cluster => registry'[d] = registry[d]
    BY <2>1 DEF Put
  <2>5. \A d \in DOMAIN registry' :
          /\ d \in Clusters /\ registry'[d] \in [nodes : Age, received : Age]
          /\ \/ d \in DOMAIN registry /\ registry'[d] = registry[d]
             \/ d = h.cluster /\ registry'[d].nodes = h.nodes
    BY <2>2, <2>3, <2>4 DEF FleetInv, Types
  <2>6. QED
    BY <2>1, <2>5, HeartbeatEnds
<1>3. QED
  BY <1>1, <1>2

LEMMA FleetInvRemove ==
  ASSUME FleetInv, NEW c \in Clusters, Remove(c)
  PROVE  FleetInv'
<1>1. registry' = Drop(registry, c) /\ UNCHANGED <<agent, underWay>>
  BY DEF Remove
<1>2. /\ DOMAIN registry' = DOMAIN registry \ {c}
      /\ \A d \in DOMAIN registry' : registry'[d] = registry[d]
  BY <1>1 DEF Drop, Restrict
<1>3. Types'
  BY <1>1, <1>2 DEF FleetInv, Types
<1>4. \A d \in Clusters : Untouched(d)
  BY <1>1, <1>2 DEF Untouched
<1>5. QED
  BY <1>3, <1>4, UntouchedInOrder DEF FleetInv

LEMMA OlderAge ==
  /\ \A a \in Age : Older(a) \in Age
  /\ \A a, b \in Age : a <= b => Older(a) <= Older(b)
<1>1. AgeBound \in Nat
  BY FleetAssumption
<1>2. QED
  BY <1>1 DEF Older, Age

\* Everything grows older at the same pace.
LEMMA FleetInvTick ==
  ASSUME FleetInv, FleetTick
  PROVE  FleetInv'
<1> DEFINE aged(h) == [h EXCEPT !.nodes = Older(@), !.sent = @ + 1]
           grown(c) == [agent[c] EXCEPT !.nodes = IF @ = NoNodes THEN NoNodes ELSE Older(@),
                                        !.waited = IF agent[c].up /\ @ < ReportInterval
                                                   THEN @ + 1 ELSE @]
<1>1. /\ \A h \in underWay : h.sent < IF h.awaited THEN ClientTimeout ELSE MaxDelay
      /\ agent' = [c \in Clusters |-> grown(c)]
      /\ underWay' = {aged(h) : h \in underWay}
      /\ registry' = [c \in DOMAIN registry |-> [nodes |-> Older(registry[c].nodes),
                                                 received |-> Older(registry[c].received)]]
  BY DEF FleetTick
<1>2. ASSUME NEW h \in underWay
      PROVE  /\ aged(h) \in Heartbeat
             /\ aged(h).cluster = h.cluster /\ aged(h).nodes = Older(h.nodes)
             /\ aged(h).awaited = h.awaited
  <2>1. h \in Heartbeat
    BY DEF FleetInv, Types
  <2>2. h.sent + 1 \in 0 .. MaxDelay
    <3>1. ClientTimeout \in Nat /\ MaxDelay \in Nat /\ ClientTimeout <= MaxDelay
      BY FleetAssumption
    <3>2. h.sent \in Nat
      BY <2>1, <3>1 DEF Heartbeat
    <3>3. h.sent < IF h.awaited THEN ClientTimeout ELSE MaxDelay
      BY <1>1
    <3>4. QED
      BY <3>1, <3>2, <3>3
  <2>3. Older(h.nodes) \in Age
    BY <2>1, OlderAge DEF Heartbeat
  <2>4. QED
    BY <2>1, <2>2, <2>3 DEF Heartbeat
<1>3. ASSUME NEW c \in Clusters
      PROVE  /\ grown(c) \in Agent
             /\ grown(c).sending = agent[c].sending
             /\ grown(c).nodes = IF agent[c].nodes = NoNodes THEN NoNodes
                                 ELSE Older(agent[c].nodes)
  <2>1. agent[c] \in Agent
    BY DEF FleetInv, Types
  <2>2. (IF agent[c].up /\ agent[c].waited < ReportInterval
         THEN agent[c].waited + 1 ELSE agent[c].waited) \in 0 .. ReportInterval
    <3>1. ReportInterval \in Nat /\ agent[c].waited \in 0 .. ReportInterval
      BY <2>1, FleetAssumption DEF Agent
    <3>2. QED
      BY <3>1
  <2>3. (IF agent[c].nodes = NoNodes THEN NoNodes ELSE Older(agent[c].nodes)) \in Age \cup {NoNodes}
    BY <2>1, OlderAge DEF Agent
  <2>4. QED
    BY <2>1, <2>2, <2>3 DEF Agent
<1>4. ASSUME NEW c \in DOMAIN registry
      PROVE  /\ registry'[c] \in [nodes : Age, received : Age]
             /\ registry'[c].nodes = Older(registry[c].nodes)
  BY <1>1, OlderAge DEF FleetInv, Types
<1>5. /\ \A h \in underWay : aged(h) \in underWay'
      /\ \A g \in underWay' : \E h \in underWay : g = aged(h)
      /\ \A c \in Clusters : agent'[c] = grown(c)
      /\ agent' = [c \in Clusters |-> agent'[c]]
      /\ DOMAIN registry' = DOMAIN registry
  BY <1>1
<1> HIDE DEF aged, grown
<1>6. Types'
  <2>1. agent' \in [Clusters -> Agent]
    BY <1>3, <1>5
  <2>2. underWay' \subseteq Heartbeat
    BY <1>2, <1>5
  <2>3. QED
    BY <1>4, <1>5, <2>1, <2>2 DEF FleetInv, Types
<1>7. ASSUME NEW c \in Clusters
      PROVE  OneAwaited(c)' /\ NewsInOrder(c)'
  <2>1. OneAwaited(c)
    BY DEF FleetInv
  <2>2. agent'[c].sending <=> \E g \in underWay' : g.cluster = c /\ g.awaited
    BY <1>2, <1>3, <1>5, <2>1 DEF OneAwaited
  <2>3. ASSUME NEW f \in underWay', NEW g \in underWay',
               f.cluster = c, f.awaited, g.cluster = c, g.awaited
        PROVE  f = g
    BY <1>2, <1>5, <2>1, <2>3 DEF OneAwaited
  <2>4. OneAwaited(c)'
    BY <2>2, <2>3 DEF OneAwaited
  <2>5. NewsInOrder(c)
    BY DEF FleetInv
  <2>6. agent[c].nodes \in Age \cup {NoNodes} /\ \A h \in underWay : h.nodes \in Age
    BY DEF FleetInv, Types, Agent, Heartbeat
  <2>7. ASSUME NEW g \in underWay', g.cluster = c, g.awaited
        PROVE  g.nodes = agent'[c].nodes
    <3>1. PICK h \in underWay : g = aged(h)
      BY <1>5
    <3>2. h.cluster = c /\ h.awaited /\ g.nodes = Older(h.nodes)
      BY <1>2, <2>7, <3>1
    <3>3. h.nodes = agent[c].nodes /\ h.nodes # NoNodes
      BY <2>5, <2>6, <3>2, AgeNat DEF NewsInOrder
    <3>4. QED
      BY <1>3, <1>5, <3>2, <3>3
  <2>8. ASSUME agent'[c].nodes # NoNodes
        PROVE  /\ \A g \in underWay' : g.cluster = c => agent'[c].nodes <= g.nodes
               /\ c \in DOMAIN registry' => agent'[c].nodes <= registry'[c].nodes
    <3>1. agent[c].nodes \in Age /\ agent[c].nodes # NoNodes
            /\ agent'[c].nodes = Older(agent[c].nodes)
      BY <1>3, <1>5, <2>6, <2>8
    <3>2. ASSUME NEW g \in underWay', g.cluster = c
          PROVE  agent'[c].nodes <= g.nodes
      <4>1. PICK h \in underWay : g = aged(h)
        BY <1>5
      <4>2. h.cluster = c /\ g.nodes = Older(h.nodes) /\ agent[c].nodes <= h.nodes
        BY <1>2, <2>5, <3>1, <3>2, <4>1 DEF NewsInOrder
      <4>3. QED
        BY <2>6, <3>1, <4>2, OlderAge
    <3>3. ASSUME c \in DOMAIN registry'
          PROVE  agent'[c].nodes <= registry'[c].nodes
      <4>1. c \in DOMAIN registry /\ registry[c].nodes \in Age
        BY <1>5, <3>3 DEF FleetInv, Types
      <4>2. agent[c].nodes <= registry[c].nodes /\ registry'[c].nodes = Older(registry[c].nodes)
        BY <1>4, <2>5, <3>1, <4>1 DEF NewsInOrder
      <4>3. QED
        BY <3>1, <4>1, <4>2, OlderAge
    <3>4. QED
      BY <3>2, <3>3
  <2>9. NewsInOrder(c)'
    BY <2>7, <2>8 DEF NewsInOrder
  <2>10. QED
    BY <2>4, <2>9
<1>8. QED
  BY <1>6, <1>7 DEF FleetInv

LEMMA FleetInvNext == FleetInv /\ [FleetNext]_fleetVars => FleetInv'
<1> SUFFICES ASSUME FleetInv, [FleetNext]_fleetVars PROVE FleetInv'
  OBVIOUS
<1>1. CASE UNCHANGED fleetVars
  BY <1>1 DEF fleetVars, FleetInv, Types, OneAwaited, NewsInOrder
<1>2. QED
  BY <1>1, FleetInvStart, FleetInvStop, FleetInvReport, FleetInvRemove, FleetInvEnd, FleetInvTick
  DEF FleetNext

LEMMA FleetInvariant == FleetInit /\ [][FleetNext]_fleetVars => []FleetInv
<1>1. FleetInv /\ [FleetNext]_fleetVars => FleetInv'
  BY FleetInvNext
<1>2. QED
  BY <1>1, FleetInvInit, PTL

-----------------------------------------------------------------------------
\* Every reachable state is well typed, and an agent is in client.Do exactly as
\* long as one heartbeat, and no more, is awaited.
THEOREM FleetTypeCorrect == FleetSpec => []FleetTypeOK
<1>1. FleetInv => FleetTypeOK
  BY FleetInvImpliesType
<1>2. QED
  BY <1>1, FleetInvariant, PTL DEF FleetSpec

\* A heartbeat whose answer the agent waits for never replaces newer nodes,
\* whatever heartbeats of the same cluster arrive late, and however often the
\* agent is restarted or the cluster removed.
THEOREM AwaitedHeartbeatsAreNewest == FleetSpec => AwaitedIsNewest
<1> DEFINE Newest ==
      \A h \in underWay :
        Receive(h) /\ h.awaited /\ h.cluster \in DOMAIN registry
        => h.nodes <= registry[h.cluster].nodes
<1>1. FleetInv => Newest
  <2> SUFFICES ASSUME FleetInv, NEW h \in underWay, h.awaited, h.cluster \in DOMAIN registry
               PROVE  h.nodes <= registry[h.cluster].nodes
    OBVIOUS
  <2>1. h.cluster \in Clusters /\ h.nodes \in Age
    BY DEF FleetInv, Types, Heartbeat
  <2>2. h.nodes = agent[h.cluster].nodes /\ h.nodes # NoNodes
    BY <2>1, AgeNat DEF FleetInv, NewsInOrder
  <2>3. QED
    BY <2>1, <2>2 DEF FleetInv, NewsInOrder
<1> HIDE DEF Newest
<1>2. FleetSpec => [][Newest]_fleetVars
  BY <1>1, FleetInvariant, PTL DEF FleetSpec
<1>3. QED
  BY <1>2 DEF Newest, AwaitedIsNewest
=============================================================================
