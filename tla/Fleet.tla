-------------------------------- MODULE Fleet --------------------------------
(***************************************************************************)
(* Cluster agents and the bridge's registry of clusters. An agent looks    *)
(* its cluster's nodes up and posts what it knows, one heartbeat at a      *)
(* time; the bridge keeps the last one and when it came, and calls a       *)
(* cluster stale in the list when that is too long ago.                    *)
(*                                                                         *)
(* A heartbeat that the agent has given up may still arrive; one may be    *)
(* lost; an agent's process may stop and start anew.                       *)
(***************************************************************************)
EXTENDS Naturals, Maps

CONSTANTS
  Clusters,        \* one agent each, with a CLUSTER_ID of its own
  ReportInterval,  \* 10 s
  ClientTimeout,   \* the agent's HTTP client, 10 s
  MaxDelay,        \* bound: how long a heartbeat may be under way
  StaleAfter,      \* staleThresholdSec, 60 s
  AgeBound,        \* bound: up to where ages are counted
  NoNodes          \* a state whose Nodes are nil

ASSUME FleetAssumption ==
  /\ ReportInterval \in Nat /\ ClientTimeout \in Nat /\ MaxDelay \in Nat
  /\ StaleAfter \in Nat /\ AgeBound \in Nat
  /\ StaleAfter < AgeBound /\ ClientTimeout <= MaxDelay /\ MaxDelay < AgeBound
  /\ NoNodes \notin Nat

VARIABLES
  agent,     \* cluster -> its agent's process
  underWay,  \* heartbeats that have been sent and not arrived
  registry   \* clusters: cluster -> age of what is known, and of its arrival

fleetVars == <<agent, underWay, registry>>

-----------------------------------------------------------------------------
Age == 0 .. AgeBound

\* nodes: how long ago a.state.Nodes were found. sending: in client.Do.
Agent == [up : BOOLEAN, sending : BOOLEAN, nodes : Age \cup {NoNodes},
          waited : 0 .. ReportInterval]
Heartbeat == [cluster : Clusters, nodes : Age, sent : 0 .. MaxDelay, awaited : BOOLEAN]
Stopped == [up |-> FALSE, sending |-> FALSE, nodes |-> NoNodes, waited |-> 0]

Awaited(c) == {h \in underWay : h.cluster = c /\ h.awaited}

\* An agent is in client.Do exactly as long as one heartbeat is awaited.
FleetTypeOK ==
  /\ agent \in [Clusters -> Agent]
  /\ underWay \subseteq Heartbeat
  /\ DOMAIN registry \subseteq Clusters
  /\ \A c \in DOMAIN registry : registry[c] \in [nodes : Age, received : Age]
  /\ \A c \in Clusters : /\ agent[c].sending <=> Awaited(c) # {}
                         /\ \A g, h \in Awaited(c) : g = h

FleetInit ==
  /\ agent = [c \in Clusters |-> Stopped]
  /\ underWay = {}
  /\ registry = EmptyMap

-----------------------------------------------------------------------------
(* Agents *)

\* The loop reports at once. What a former process of the agent has sent is no
\* longer under way when the pod is back.
Start(c) ==
  /\ ~ agent[c].up
  /\ \A h \in underWay : h.cluster # c
  /\ agent' = [agent EXCEPT ![c] = [Stopped EXCEPT !.up = TRUE, !.waited = ReportInterval]]
  /\ UNCHANGED <<underWay, registry>>

Stop(c) ==
  /\ agent[c].up
  /\ agent' = [agent EXCEPT ![c] = Stopped]
  /\ underWay' = {IF h.cluster = c THEN [h EXCEPT !.awaited = FALSE] ELSE h : h \in underWay}
  /\ UNCHANGED registry

\* discover: new nodes, or none at all (the slice stays nil); or it fails, and
\* the state stays what it was.
Discovered(nodes) == {0, NoNodes, nodes}

Due(c) == agent[c].up /\ agent[c].waited = ReportInterval

\* Mutants of Report: what has just been found is all that is sent; the
\* heartbeat is sent in the background.
ReportNewsOnly(c) ==
  /\ Due(c) /\ ~ agent[c].sending
  /\ \E nodes \in Discovered(agent[c].nodes) :
       LET sends == nodes = 0
       IN /\ agent' = [agent EXCEPT ![c] = [up |-> TRUE, sending |-> sends,
                                            nodes |-> nodes, waited |-> 0]]
          /\ underWay' = IF sends
                         THEN underWay \cup {[cluster |-> c, nodes |-> 0, sent |-> 0,
                                              awaited |-> TRUE]}
                         ELSE underWay
  /\ UNCHANGED registry

ReportInBackground(c) ==
  /\ Due(c)
  /\ \E nodes \in Discovered(agent[c].nodes) :
       /\ agent' = [agent EXCEPT ![c] = [up |-> TRUE, sending |-> FALSE,
                                         nodes |-> nodes, waited |-> 0]]
       /\ underWay' = IF nodes # NoNodes
                      THEN underWay \cup {[cluster |-> c, nodes |-> nodes, sent |-> 0,
                                           awaited |-> TRUE]}
                      ELSE underWay
  /\ UNCHANGED registry

\* A round of HeartbeatLoop: discover, and sendHeartbeat, which sends nothing
\* without nodes.
Report(c) ==
  /\ Due(c) /\ ~ agent[c].sending
  /\ \E nodes \in Discovered(agent[c].nodes) :
       LET sends == nodes # NoNodes
       IN /\ agent' = [agent EXCEPT ![c] = [up |-> TRUE, sending |-> sends,
                                            nodes |-> nodes, waited |-> 0]]
          /\ underWay' = IF sends
                         THEN underWay \cup {[cluster |-> c, nodes |-> nodes, sent |-> 0,
                                              awaited |-> TRUE]}
                         ELSE underWay
  /\ UNCHANGED registry

\* client.Do returns, with an answer or an error.
Returned(h) == IF h.awaited THEN [agent EXCEPT ![h.cluster].sending = FALSE] ELSE agent

GiveUp(h) ==
  /\ h.awaited
  /\ h.sent = ClientTimeout
  /\ agent' = Returned(h)
  /\ underWay' = (underWay \ {h}) \cup {[h EXCEPT !.awaited = FALSE]}
  /\ UNCHANGED registry

Lose(h) ==
  /\ agent' = Returned(h)
  /\ underWay' = underWay \ {h}
  /\ UNCHANGED registry

-----------------------------------------------------------------------------
(* The bridge *)

\* POST /api/clusters/heartbeat: the body replaces what was there, if anything.
Receive(h) ==
  /\ agent' = Returned(h)
  /\ underWay' = underWay \ {h}
  /\ registry' = Put(registry, h.cluster, [nodes |-> h.nodes, received |-> 0])

\* DELETE /api/clusters/:cluster_id; the agent is not told.
Remove(c) ==
  /\ c \in DOMAIN registry
  /\ registry' = Drop(registry, c)
  /\ UNCHANGED <<agent, underWay>>

\* Mutant of Fresh: the agent's own word for its status is listed.
FreshAsSent(c) == c \in DOMAIN registry

\* GET /api/clusters lists the cluster, and not as stale.
Fresh(c) == c \in DOMAIN registry /\ registry[c].received <= StaleAfter

-----------------------------------------------------------------------------
Older(age) == IF age < AgeBound THEN age + 1 ELSE age

\* A tick: no request waits longer than its timeout, and none is under way
\* longer than it may be.
FleetTick ==
  /\ \A h \in underWay : h.sent < IF h.awaited THEN ClientTimeout ELSE MaxDelay
  /\ agent' = [c \in Clusters |->
                 [agent[c] EXCEPT !.nodes = IF @ = NoNodes THEN NoNodes ELSE Older(@),
                                  !.waited = IF agent[c].up /\ @ < ReportInterval THEN @ + 1 ELSE @]]
  /\ underWay' = {[h EXCEPT !.nodes = Older(@), !.sent = @ + 1] : h \in underWay}
  /\ registry' = [c \in DOMAIN registry |-> [nodes |-> Older(registry[c].nodes),
                                             received |-> Older(registry[c].received)]]

FleetNext ==
  \/ \E c \in Clusters : Start(c) \/ Stop(c) \/ Report(c) \/ Remove(c)
  \/ \E h \in underWay : GiveUp(h) \/ Lose(h) \/ Receive(h)
  \/ FleetTick

\* Time passes, an agent that is up gets to report, and a heartbeat's end comes
\* with the bounds on time.
FleetSpec ==
  /\ FleetInit /\ [][FleetNext]_fleetVars
  /\ WF_fleetVars(FleetTick)
  /\ WF_fleetVars(\E h \in underWay : GiveUp(h) \/ Receive(h))
  /\ \A c \in Clusters : WF_fleetVars(Report(c))

-----------------------------------------------------------------------------
(* Properties *)

\* A heartbeat that its agent waits for never replaces something newer, though
\* others of that agent, given up earlier, arrive late and failed discoveries
\* send old nodes again.
AwaitedIsNewest ==
  [][\A h \in underWay :
       Receive(h) /\ h.awaited /\ h.cluster \in DOMAIN registry
       => h.nodes <= registry[h.cluster].nodes]_fleetVars

\* A cluster whose agent is gone for good is not listed as fresh for ever.
SilentGoesStale ==
  \A c \in Clusters : <>[](~ agent[c].up) => <>[](~ Fresh(c))

\* A cluster whose agent is up and knows its nodes is listed as fresh again and
\* again, though discovery may fail each time and the cluster may be removed;
\* unless its heartbeats are lost.
LiveIsFresh ==
  \A c \in Clusters :
    /\ <>[](agent[c].nodes # NoNodes)
    /\ <>[][\A h \in underWay : h.cluster = c => ~ Lose(h)]_fleetVars
    => []<>Fresh(c)
=============================================================================
