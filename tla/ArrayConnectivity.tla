-------------------------- MODULE ArrayConnectivity --------------------------
(***************************************************************************)
(* ArrayConnectivityMonitor of the controller podmon, the connectivity     *)
(* cache it samples into, and the table NodeNameToUID that tells it which  *)
(* nodes are still the ones it knows (internal/monitor/controller.go,      *)
(* monitor.go).  Three threads: the monitor's polling passes, the node     *)
(* watch (nodeMonitorHandler), and the pod watch, of which only the two    *)
(* writes that matter here are kept (the node UID and the podInfo).        *)
(*                                                                         *)
(* Abstractions: every pod uses the one array "default"; a node is its     *)
(* name and the UID of its present Node object (0: none); whether that     *)
(* object carries the node ID of the driver is chosen at every read, as    *)
(* kubelet adds it after the node has registered; a cleanup is one step    *)
(* that either removes the pod or leaves it (module Controller has its     *)
(* steps).  A refusal that lasts is a state (no node ID in the node copy,  *)
(* another pod or none under the key, I/O on the volumes); one that does   *)
(* not is a fault.  The driver has the extensions podmon asks for, or main *)
(* does not start the monitor.                                             *)
(***************************************************************************)
EXTENDS Naturals, Sequences, FiniteSets, SequencesExt

CONSTANTS
    PodKeys, Nodes,
    NoNode,
    AffinityOf,    \* [PodKeys -> labels]: getPodAffinityLabels
    NoLabels,      \* no pod affinity
    Threshold,     \* ArrayConnectivityConnectionLossThreshold
    MaxLoss,       \* bound: the loss counts stop here
    MaxNodeUID,    \* bound: Node objects ever registered
    MaxQueue,      \* bound: undelivered node events when kubelet renews a status
    MaxFaults      \* bound: calls to the driver and the API server that fail,
                   \* losses of the node watch

ASSUME ConstantsAssumption ==
    /\ IsFiniteSet(Nodes) /\ NoNode \notin Nodes
    /\ Threshold \in Nat \ {0} /\ MaxLoss \in Nat /\ MaxLoss >= Threshold
    /\ {MaxNodeUID, MaxQueue, MaxFaults} \subseteq Nat
    /\ DOMAIN AffinityOf = PodKeys

VARIABLES
    nodes,      \* API server: node name -> UID of its Node object (0: none)
    lastUID,    \* the last UID given to a Node object
    reachable,  \* the nodes the array reports as connected
    watching,   \* the node watch is established
    nodeQueue,  \* its undelivered events
    nodeUID,    \* NodeNameToUID (0: the empty string, or no entry)
    handler,    \* the pod watch thread, between GetNode and its writes
    info,       \* PodKeyToControllerPodInfo: the node copy (NoInfo: no entry)
    blocked,    \* the recorded pods that are not the API server's any more, or
                \* whose volumes the array sees I/O on
    sampled,    \* nodeArrayConnectivitySampled
    lossCount,  \* nodeArrayConnectivityLossCount
    pass,       \* the monitor's present pass
    tainted,    \* nodes the monitor has tainted in this pass
    faults,     \* calls that failed, watches lost
    lost,       \* history: passes in a row whose poll found the node lost
    counted     \* history: the nodes counted in this pass

cluster == <<nodes, lastUID, reachable>>
watch == <<watching, nodeQueue>>
table == <<info, blocked>>
cache == <<sampled, lossCount>>
counters == <<tainted, faults, lost, counted>>
vars == <<cluster, watch, nodeUID, handler, table, cache, pass, counters>>

-----------------------------------------------------------------------------
NodeUID == 0..MaxNodeUID
NoInfo == [node |-> NoNode, uid |-> 0, csi |-> FALSE]
Info == [node : Nodes \cup {NoNode}, uid : NodeUID, csi : BOOLEAN]
Event == [type : {"Added", "Modified", "Deleted"}, node : Nodes, uid : NodeUID]
Idle == [pc |-> "idle"]
Handler == [pc : {"idle"}] \cup [pc : {"write"}, key : PodKeys, node : Nodes, uid : NodeUID]
Pass == [pc : {"idle"}] \cup
        [pc : {"check", "taint", "clean"},
         todo : SUBSET PodKeys,   \* pods Range has not visited, or left to clean
         nodes : SUBSET Nodes,    \* nodesToTaint
         keys : SUBSET PodKeys]   \* podKeysToClean

Room == Len(nodeQueue) < MaxQueue
EventOf(type, n, uid) == [type |-> type, node |-> n, uid |-> uid]
Send(type, n, uid) ==
    /\ nodeQueue' = IF watching THEN Append(nodeQueue, EventOf(type, n, uid)) ELSE nodeQueue
    /\ UNCHANGED watching
Saturate(x) == IF x < MaxLoss THEN x + 1 ELSE x
Fault == faults < MaxFaults /\ faults' = faults + 1

-----------------------------------------------------------------------------
(* The cluster. *)

\* A node registers: for the first time, or again after it was removed.
Register(n) ==
    /\ nodes[n] = 0 /\ lastUID < MaxNodeUID
    /\ lastUID' = lastUID + 1
    /\ nodes' = [nodes EXCEPT ![n] = lastUID + 1]
    /\ Send("Added", n, lastUID + 1)
    /\ UNCHANGED <<reachable, nodeUID, handler, table, cache, pass, counters>>

Unregister(n) ==
    /\ nodes[n] # 0
    /\ nodes' = [nodes EXCEPT ![n] = 0]
    /\ Send("Deleted", n, nodes[n])
    /\ UNCHANGED <<lastUID, reachable, nodeUID, handler, table, cache, pass, counters>>

\* Kubelet renews the status of its node.
Heartbeat(n) ==
    /\ Room /\ nodes[n] # 0
    /\ Send("Modified", n, nodes[n])
    /\ UNCHANGED <<cluster, nodeUID, handler, table, cache, pass, counters>>

\* The array loses or regains a node.
ChangeReach(n) ==
    /\ reachable' = (reachable \cup {n}) \ (reachable \cap {n})
    /\ UNCHANGED <<nodes, lastUID, watch, nodeUID, handler, table, cache, pass, counters>>

\* The pod under key k is replaced or deleted, or does I/O, or no longer.  (It
\* makes no difference to a record without the node ID.)
ChangeBlock(k) ==
    /\ info[k].csi
    /\ blocked' = (blocked \cup {k}) \ (blocked \cap {k})
    /\ UNCHANGED <<cluster, watch, nodeUID, handler, info, cache, pass, counters>>

-----------------------------------------------------------------------------
(* StartNodeMonitor, nodeMonitorHandler, the writes of controllerModePodHandler. *)

\* The node watch is lost with what it had not delivered; the new one begins
\* with Added events of the nodes there are, and Deleted ones are missing.
DisconnectNodes ==
    /\ watching /\ Fault
    /\ watching' = FALSE /\ nodeQueue' = << >>
    /\ UNCHANGED <<cluster, nodeUID, handler, table, cache, pass, tainted, lost, counted>>

ReconnectNodes ==
    /\ ~watching /\ watching' = TRUE
    /\ nodeQueue' \in SetToSeqs({EventOf("Added", n, nodes[n]) :
                                   n \in {x \in Nodes : nodes[x] # 0}})
    /\ UNCHANGED <<cluster, nodeUID, handler, table, cache, pass, counters>>

\* Mutant of NodeEvent: Modified events are ignored.
NodeEventNotModified ==
    /\ nodeQueue # << >> /\ nodeQueue' = Tail(nodeQueue) /\ UNCHANGED watching
    /\ LET ev == Head(nodeQueue) IN
       nodeUID' = [nodeUID EXCEPT ![ev.node] =
          CASE ev.type = "Added" -> ev.uid
            [] ev.type = "Modified" -> @
            [] OTHER -> IF @ = ev.uid THEN 0 ELSE @]
    /\ UNCHANGED <<cluster, handler, table, cache, pass, counters>>

NodeEvent ==
    /\ nodeQueue # << >> /\ nodeQueue' = Tail(nodeQueue) /\ UNCHANGED watching
    /\ LET ev == Head(nodeQueue) IN
       nodeUID' = [nodeUID EXCEPT ![ev.node] =
          IF ev.type # "Deleted" THEN ev.uid      \* StoreNodeUID
          ELSE IF @ = ev.uid THEN 0 ELSE @]       \* ClearNodeUID
    /\ UNCHANGED <<cluster, handler, table, cache, pass, counters>>

\* A Ready pod is seen: GetNode now, the writes later.
GetNode(k, n) ==
    /\ handler = Idle /\ nodes[n] # 0
    /\ handler' = [pc |-> "write", key |-> k, node |-> n, uid |-> nodes[n]]
    /\ UNCHANGED <<cluster, watch, nodeUID, table, cache, pass, counters>>

\* The node that was read has a CSI node ID or not.
TrackPod ==
    /\ handler.pc = "write"
    /\ nodeUID' = [nodeUID EXCEPT ![handler.node] = handler.uid]
    /\ \E csi \in BOOLEAN :
          info' = [info EXCEPT ![handler.key] =
                      [node |-> handler.node, uid |-> handler.uid, csi |-> csi]]
    /\ blocked' = blocked \ {handler.key}
    /\ handler' = Idle
    /\ UNCHANGED <<cluster, watch, cache, pass, counters>>

\* The Deleted event of a pod.
UntrackPod(k) ==
    /\ handler = Idle /\ info[k] # NoInfo
    /\ info' = [info EXCEPT ![k] = NoInfo] /\ blocked' = blocked \ {k}
    /\ UNCHANGED <<cluster, watch, nodeUID, handler, cache, pass, counters>>

-----------------------------------------------------------------------------
(* ArrayConnectivityMonitor. *)

\* Mutant of StartPass: no ResetSampled.
StartPassNoReset ==
    /\ pass = Idle
    /\ pass' = [pc |-> "check", todo |-> {k \in PodKeys : info[k] # NoInfo},
                nodes |-> {}, keys |-> {}]
    /\ counted' = {}
    /\ UNCHANGED <<cluster, watch, nodeUID, handler, table, cache, tainted, faults, lost>>

StartPass ==
    /\ pass = Idle
    /\ sampled' = {}                              \* ResetSampled
    /\ pass' = [pc |-> "check", todo |-> {k \in PodKeys : info[k] # NoInfo},
                nodes |-> {}, keys |-> {}]
    /\ counted' = {}
    /\ UNCHANGED <<cluster, watch, nodeUID, handler, table, lossCount, tainted,
                   faults, lost>>

\* The podInfo's node copy is not the node NodeNameToUID knows.
StaleUID(i) == nodeUID[i.node] = 0 \/ nodeUID[i.node] # i.uid

\* Mutant of Condemn: the pod key goes where the node name belongs.
CondemnKey(k, i, connected) ==
    pass' = IF connected THEN [pass EXCEPT !.todo = @ \ {k}]
            ELSE [pass EXCEPT !.todo = @ \ {k}, !.nodes = @ \cup {k},
                              !.keys = @ \cup {k}]

Condemn(k, i, connected) ==
    pass' = IF connected THEN [pass EXCEPT !.todo = @ \ {k}]
            ELSE [pass EXCEPT !.todo = @ \ {k}, !.nodes = @ \cup {i.node},
                              !.keys = @ \cup {k}]

\* A stale node, one sampled already in this pass, or one that cannot be polled:
\* its copy has no CSI node ID, or the call fails (assumed connected, and not
\* marked as sampled).
CheckCached(k) ==
    LET i == info[k] IN
    /\ \/ /\ StaleUID(i) /\ Condemn(k, i, TRUE)
          /\ UNCHANGED faults
       \/ /\ ~StaleUID(i) /\ i.node \in sampled
          /\ Condemn(k, i, lossCount[i.node] < Threshold)
          /\ UNCHANGED faults
       \/ /\ ~StaleUID(i) /\ i.node \notin sampled /\ Condemn(k, i, TRUE)
          /\ IF i.csi THEN Fault ELSE UNCHANGED faults
    /\ UNCHANGED <<cache, tainted, lost, counted>>

\* Mutant of CheckPolled: the node is not marked as sampled.
CheckPolledUnmarked(k) ==
    LET i == info[k]
        up == i.node \in reachable IN
    /\ ~StaleUID(i) /\ i.node \notin sampled /\ i.csi
    /\ lossCount' = [lossCount EXCEPT ![i.node] = IF up THEN 0 ELSE Saturate(@)]
    /\ Condemn(k, i, lossCount'[i.node] < Threshold)
    /\ lost' = [lost EXCEPT ![i.node] =
                   IF up THEN 0 ELSE IF i.node \in counted THEN @ ELSE Saturate(@)]
    /\ counted' = counted \cup {i.node}
    /\ UNCHANGED <<sampled, tainted, faults>>

\* The array is asked.
CheckPolled(k) ==
    LET i == info[k]
        up == i.node \in reachable IN
    /\ ~StaleUID(i) /\ i.node \notin sampled /\ i.csi
    /\ sampled' = sampled \cup {i.node}
    /\ lossCount' = [lossCount EXCEPT ![i.node] = IF up THEN 0 ELSE Saturate(@)]
    /\ Condemn(k, i, lossCount'[i.node] < Threshold)
    /\ lost' = [lost EXCEPT ![i.node] =
                   IF up THEN 0 ELSE IF i.node \in counted THEN @ ELSE Saturate(@)]
    /\ counted' = counted \cup {i.node}
    /\ UNCHANGED <<tainted, faults>>

CheckConnectivity(k) ==
    /\ pass.pc = "check" /\ k \in pass.todo
    /\ \/ /\ info[k] = NoInfo /\ pass' = [pass EXCEPT !.todo = @ \ {k}]
          /\ UNCHANGED <<cache, counters>>
       \/ /\ info[k] # NoInfo
          /\ CheckCached(k) \/ CheckPolled(k)
    /\ UNCHANGED <<cluster, watch, nodeUID, handler, table>>

\* Taint the nodes found disconnected, then clean up their pods.  A node that
\* cannot be tainted is only logged.
TaintNodes ==
    /\ pass.pc = "check" /\ pass.todo = {}
    /\ \E done \in SUBSET pass.nodes :
          /\ IF done = pass.nodes THEN UNCHANGED faults ELSE Fault
          /\ tainted' = done
    /\ pass' = [pass EXCEPT !.pc = "clean", !.todo = pass.keys]
    /\ UNCHANGED <<cluster, watch, nodeUID, handler, table, cache, lost, counted>>

\* The pods processed together with pod k.
Group(k) ==
    IF AffinityOf[k] = NoLabels THEN {k}
    ELSE {j \in pass.keys : AffinityOf[j] = AffinityOf[k]}

\* ProcessPodInfoForCleanup of one pod or of its affinity group.  It skips a pod
\* that is not the recorded one; the cleanup itself asks the array once more and
\* leaves a pod whose node is connected or has no CSI node ID, or that does I/O.
CleanPods(k) ==
    /\ pass.pc = "clean" /\ k \in pass.todo
    /\ LET group == IF info[k] = NoInfo THEN {} ELSE Group(k)
           able == {j \in group : /\ info[j].node \notin reachable /\ info[j].csi
                                  /\ j \notin blocked} IN
       \E done \in SUBSET able :
          /\ IF done = able THEN UNCHANGED faults ELSE Fault
          /\ info' = [j \in PodKeys |-> IF j \in done THEN NoInfo ELSE info[j]]
    /\ pass' = [pass EXCEPT !.todo = @ \ {k}]
    /\ UNCHANGED <<cluster, watch, nodeUID, handler, blocked, cache, tainted, lost, counted>>

EndPass ==
    /\ pass.pc = "clean" /\ pass.todo = {}
    /\ pass' = Idle /\ tainted' = {}
    /\ UNCHANGED <<cluster, watch, nodeUID, handler, table, cache, faults, lost, counted>>

-----------------------------------------------------------------------------
Init ==
    /\ nodes = [n \in Nodes |-> 0] /\ lastUID = 0 /\ reachable = Nodes
    /\ watching = TRUE /\ nodeQueue = << >> /\ nodeUID = [n \in Nodes |-> 0]
    /\ handler = Idle /\ info = [k \in PodKeys |-> NoInfo] /\ blocked = {}
    /\ sampled = {} /\ lossCount = [n \in Nodes |-> 0]
    /\ pass = Idle /\ tainted = {} /\ faults = 0
    /\ lost = [n \in Nodes |-> 0] /\ counted = {}

MonitorStep ==
    \/ StartPass \/ TaintNodes \/ EndPass
    \/ \E k \in PodKeys : CheckConnectivity(k) \/ CleanPods(k)

Next ==
    \/ \E n \in Nodes : Register(n) \/ Unregister(n) \/ Heartbeat(n) \/ ChangeReach(n)
    \/ DisconnectNodes \/ ReconnectNodes \/ NodeEvent \/ TrackPod
    \/ \E k \in PodKeys : UntrackPod(k) \/ ChangeBlock(k) \/ \E n \in Nodes : GetNode(k, n)
    \/ MonitorStep

Spec == Init /\ [][Next]_vars

\* The threads keep running, a lost watch is established again; kubelet keeps
\* renewing the node status.
Fairness ==
    /\ WF_vars(ReconnectNodes) /\ WF_vars(NodeEvent) /\ WF_vars(TrackPod) /\ WF_vars(MonitorStep)
    /\ \A n \in Nodes : SF_vars(Heartbeat(n))

FairSpec == Spec /\ Fairness

-----------------------------------------------------------------------------
(* Properties. *)

\* Every variable has its type.
TypeOK ==
    /\ nodes \in [Nodes -> NodeUID] /\ lastUID \in NodeUID
    /\ reachable \subseteq Nodes
    /\ watching \in BOOLEAN /\ nodeQueue \in Seq(Event)
    /\ nodeUID \in [Nodes -> NodeUID] /\ handler \in Handler
    /\ info \in [PodKeys -> Info] /\ blocked \subseteq PodKeys
    /\ sampled \subseteq Nodes /\ lossCount \in [Nodes -> 0..MaxLoss]
    /\ pass \in Pass /\ tainted \subseteq Nodes
    /\ faults \in 0..MaxFaults /\ lost \in [Nodes -> 0..MaxLoss] /\ counted \subseteq Nodes

\* CheckConnectivity declares the loss of a node only after Threshold polls in a
\* row, in as many passes, found it disconnected, however many of its pods a
\* pass looks at and whatever polls failed in between.
LossNeedsThreshold ==
    pass # Idle => \A n \in pass.nodes : lost[n] >= Threshold

\* A pod recorded on a node the array does not reach is not left there for ever,
\* if its record names the node by a CSI node ID, the pod is the recorded one and
\* does no I/O.  (Without the node ID the monitor takes it for connected in every
\* pass.)
DisconnectedCleaned ==
    \A k \in PodKeys :
       ~<>[](/\ info[k] # NoInfo /\ info[k].node \notin reachable
             /\ info[k].csi /\ k \notin blocked
             /\ info[k].uid = nodes[info[k].node] /\ info[k].uid # 0)

\* Whatever order the node watch and the pod watch write NodeNameToUID in, and
\* though the node watch is lost for a while, the UID of a registered node is
\* right in the end.
NodeUIDHeals == \A n \in Nodes : <>[](nodes[n] # 0 => nodeUID[n] = nodes[n])
=============================================================================
