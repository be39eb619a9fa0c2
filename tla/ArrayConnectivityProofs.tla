----------------------- MODULE ArrayConnectivityProofs -----------------------
(***************************************************************************)
(* Proofs for ArrayConnectivity: the monitor acts on a node only after     *)
(* Threshold passes in a row found it lost, for any number of nodes and    *)
(* pods.                                                                   *)
(***************************************************************************)
EXTENDS ArrayConnectivity, FiniteSetTheorems, TLAPS

\* A recorded pod is on a node.
InfoOK == info \in [PodKeys -> {NoInfo} \cup [node : Nodes, uid : NodeUID, csi : BOOLEAN]]

\* The cache counts every node at most once in a pass, and so counts the passes.
CountsPasses == sampled = counted /\ lossCount = lost

\* A node is condemned in a pass that has sampled it, which keeps its count until
\* the pass is over.
CondemnedSampled ==
    pass.pc # "idle" =>
       /\ pass.nodes \subseteq sampled
       /\ \A n \in pass.nodes : lossCount[n] >= Threshold

\* The inductive invariant.
IInv == TypeOK /\ InfoOK /\ CountsPasses /\ CondemnedSampled

-----------------------------------------------------------------------------
(* The operators. *)

\* The pass while it is under way.
Work == [pc : {"check", "taint", "clean"}, todo : SUBSET PodKeys,
         nodes : SUBSET Nodes, keys : SUBSET PodKeys]

\* A pass that is not idle has the fields of one.
LEMMA PassIsWork == ASSUME pass \in Pass, pass.pc # "idle"
                    PROVE  pass \in Work
  BY DEF Pass, Work

\* A loss count stays within its bound, and a saturated one is not lost.
LEMMA SaturateType ==
  ASSUME NEW x \in 0..MaxLoss
  PROVE  Saturate(x) \in 0..MaxLoss /\ Saturate(x) >= x
  BY ConstantsAssumption DEF Saturate

\* A fault counts.
LEMMA FaultType ==
  ASSUME faults \in 0..MaxFaults, Fault \/ UNCHANGED faults
  PROVE  faults' \in 0..MaxFaults
  BY ConstantsAssumption DEF Fault

\* An event of a node is an event.
LEMMA EventType ==
  ASSUME NEW ty \in {"Added", "Modified", "Deleted"}, NEW n \in Nodes, NEW uid \in NodeUID
  PROVE  EventOf(ty, n, uid) \in Event
  BY DEF EventOf, Event

\* What is sent keeps the queue of the node watch a sequence of events.
LEMMA SendType ==
  ASSUME nodeQueue \in Seq(Event), watching \in BOOLEAN,
         NEW ty \in {"Added", "Modified", "Deleted"}, NEW n \in Nodes, NEW uid \in NodeUID,
         Send(ty, n, uid)
  PROVE  nodeQueue' \in Seq(Event) /\ watching' \in BOOLEAN
<1>1. EventOf(ty, n, uid) \in Event
  BY EventType
<1> QED  BY <1>1 DEF Send

\* The list the new node watch begins with is finite, as there are finitely many
\* nodes.
LEMMA SeqsType ==
  ASSUME nodes \in [Nodes -> NodeUID],
         NEW q \in SetToSeqs({EventOf("Added", n, nodes[n]) :
                                n \in {x \in Nodes : nodes[x] # 0}})
  PROVE  q \in Seq(Event)
<1> DEFINE S == {x \in Nodes : nodes[x] # 0}
           T == {EventOf("Added", n, nodes[n]) : n \in S}
           f == [n \in S |-> EventOf("Added", n, nodes[n])]
<1>1. IsFiniteSet(S)
  BY FS_Subset, ConstantsAssumption
<1>2. f \in Surjection(S, T)
  BY DEF Surjection
<1>3. IsFiniteSet(T)
  BY <1>1, <1>2, FS_Surjection
<1>4. Cardinality(T) \in Nat
  BY <1>3, FS_CardinalityType
<1>5. T \subseteq Event
  BY EventType
<1>6. q \in [1..Cardinality(T) -> T]
  BY DEF SetToSeqs
<1> HIDE DEF T
<1> QED  BY <1>4, <1>5, <1>6

\* What a check makes of the pass: the pod is done with and, when its node is not
\* connected, condemned with its node.
LEMMA CondemnFacts ==
  ASSUME pass \in Work, NEW k \in PodKeys, NEW i, i.node \in Nodes,
         NEW connected \in BOOLEAN, Condemn(k, i, connected)
  PROVE  /\ pass' \in Work /\ pass'.pc = pass.pc
         /\ pass'.nodes = IF connected THEN pass.nodes ELSE pass.nodes \cup {i.node}
<1>1. CASE connected
  <2>1. pass' = [pass EXCEPT !.todo = pass.todo \ {k}]
    BY <1>1 DEF Condemn, Work
  <2> QED  BY <1>1, <2>1 DEF Work
<1>2. CASE ~connected
  <2>1. pass' = [pass EXCEPT !.todo = pass.todo \ {k}, !.nodes = pass.nodes \cup {i.node},
                             !.keys = pass.keys \cup {k}]
    BY <1>2 DEF Condemn, Work
  <2> QED  BY <1>2, <2>1 DEF Work
<1> QED  BY <1>1, <1>2

-----------------------------------------------------------------------------
\* At start nothing is recorded, sampled or counted.
LEMMA InitIInv == Init => IInv
<1> SUFFICES ASSUME Init
             PROVE  IInv
  OBVIOUS
<1>1. 0 \in NodeUID /\ 0 \in 0..MaxLoss /\ 0 \in 0..MaxFaults
  BY ConstantsAssumption DEF NodeUID
<1>2. NoInfo \in Info
  BY <1>1 DEF NoInfo, Info
<1>3. handler \in Handler /\ pass \in Pass /\ pass.pc = "idle"
  BY DEF Init, Idle, Handler, Pass
<1>4. TypeOK
  BY <1>1, <1>2, <1>3 DEF Init, TypeOK
<1> QED  BY <1>3, <1>4 DEF Init, IInv, InfoOK, CountsPasses, CondemnedSampled

\* The monitor's own variables are left alone by every other thread.
LEMMA MonitorFrame ==
  ASSUME IInv, UNCHANGED <<cache, pass, counted, lost>>
  PROVE  (CountsPasses /\ CondemnedSampled)'
  BY DEF IInv, CountsPasses, CondemnedSampled, cache

\* The cluster: nodes come and go and lose the array, pods are replaced or do I/O;
\* the node watch is lost and established again.
LEMMA ClusterStep ==
  ASSUME IInv,
         \/ \E n \in Nodes : Register(n) \/ Unregister(n) \/ Heartbeat(n) \/ ChangeReach(n)
         \/ \E k \in PodKeys : ChangeBlock(k)
         \/ DisconnectNodes \/ ReconnectNodes
  PROVE  IInv'
<1> USE DEF IInv, TypeOK, InfoOK, cluster, watch, table, cache, counters
<1>1. ASSUME NEW n \in Nodes, Register(n)
      PROVE  IInv'
  <2>1. lastUID + 1 \in NodeUID
    BY <1>1, ConstantsAssumption DEF Register, NodeUID
  <2>2. nodeQueue' \in Seq(Event) /\ watching' \in BOOLEAN
    BY <1>1, <2>1, SendType DEF Register
  <2>3. TypeOK' /\ InfoOK'
    BY <1>1, <2>1, <2>2 DEF Register
  <2> QED  BY <1>1, <2>3, MonitorFrame DEF Register
<1>2. ASSUME NEW n \in Nodes, Unregister(n)
      PROVE  IInv'
  <2>1. nodeQueue' \in Seq(Event) /\ watching' \in BOOLEAN
    BY <1>2, SendType DEF Unregister
  <2>2. 0 \in NodeUID
    BY ConstantsAssumption DEF NodeUID
  <2>3. TypeOK' /\ InfoOK'
    BY <1>2, <2>1, <2>2 DEF Unregister
  <2> QED  BY <1>2, <2>3, MonitorFrame DEF Unregister
<1>3. ASSUME NEW n \in Nodes, Heartbeat(n)
      PROVE  IInv'
  <2>1. nodeQueue' \in Seq(Event) /\ watching' \in BOOLEAN
    BY <1>3, SendType DEF Heartbeat
  <2>2. TypeOK' /\ InfoOK'
    BY <1>3, <2>1 DEF Heartbeat
  <2> QED  BY <1>3, <2>2, MonitorFrame DEF Heartbeat
<1>4. ASSUME NEW n \in Nodes, ChangeReach(n)
      PROVE  IInv'
  <2>1. TypeOK' /\ InfoOK'
    BY <1>4 DEF ChangeReach
  <2> QED  BY <1>4, <2>1, MonitorFrame DEF ChangeReach
<1>5. ASSUME NEW k \in PodKeys, ChangeBlock(k)
      PROVE  IInv'
  <2>1. TypeOK' /\ InfoOK'
    BY <1>5 DEF ChangeBlock
  <2> QED  BY <1>5, <2>1, MonitorFrame DEF ChangeBlock
<1>6. CASE DisconnectNodes
  <2>1. faults' \in 0..MaxFaults
    BY <1>6, FaultType DEF DisconnectNodes
  <2>2. watching' \in BOOLEAN /\ nodeQueue' \in Seq(Event)
    <3>1. watching' = FALSE /\ nodeQueue' = << >>
      BY <1>6 DEF DisconnectNodes
    <3>2. watching' \in BOOLEAN
      BY <3>1
    <3>3. nodeQueue' \in Seq(Event)
      BY <3>1
    <3> QED  BY <3>2, <3>3
  <2>3. TypeOK' /\ InfoOK'
    <3> HIDE DEF InfoOK
    <3>1. InfoOK'
      BY <1>6 DEF DisconnectNodes, InfoOK
    <3>2. UNCHANGED <<cluster, nodeUID, handler, table, cache, pass, tainted, lost, counted>>
      BY <1>6 DEF DisconnectNodes
    <3> QED  BY <2>1, <2>2, <3>1, <3>2
  <2> QED  BY <1>6, <2>3, MonitorFrame DEF DisconnectNodes
<1>7. CASE ReconnectNodes
  <2>1. nodeQueue' \in Seq(Event)
    BY <1>7, SeqsType DEF ReconnectNodes
  <2>2. TypeOK' /\ InfoOK'
    BY <1>7, <2>1 DEF ReconnectNodes
  <2> QED  BY <1>7, <2>2, MonitorFrame DEF ReconnectNodes
<1> QED  BY <1>1, <1>2, <1>3, <1>4, <1>5, <1>6, <1>7

\* The node watch and the pod watch write NodeNameToUID and the podInfo.
LEMMA WatchStep ==
  ASSUME IInv,
         \/ NodeEvent \/ TrackPod
         \/ \E k \in PodKeys : UntrackPod(k) \/ \E n \in Nodes : GetNode(k, n)
  PROVE  IInv'
<1> USE DEF IInv, TypeOK, InfoOK, cluster, watch, table, cache, counters
<1>1. CASE NodeEvent
  <2> DEFINE ev == Head(nodeQueue)
  <2>1. ev \in Event /\ nodeQueue' \in Seq(Event)
    BY <1>1 DEF NodeEvent
  <2>2. ev.node \in Nodes /\ ev.uid \in NodeUID /\ 0 \in NodeUID
    <3>1. 0 \in NodeUID
      BY ConstantsAssumption DEF NodeUID
    <3> QED  BY <2>1, <3>1 DEF Event
  <2>3. nodeUID' = [nodeUID EXCEPT ![ev.node] =
           IF ev.type # "Deleted" THEN ev.uid
           ELSE IF nodeUID[ev.node] = ev.uid THEN 0 ELSE nodeUID[ev.node]]
    BY <1>1, <2>2 DEF NodeEvent
  <2> HIDE DEF ev
  <2>4. nodeUID' \in [Nodes -> NodeUID]
    BY <2>2, <2>3
  <2>5. TypeOK' /\ InfoOK'
    BY <1>1, <2>1, <2>4 DEF NodeEvent
  <2> QED  BY <1>1, <2>5, MonitorFrame DEF NodeEvent
<1>2. CASE TrackPod
  <2>1. handler.key \in PodKeys /\ handler.node \in Nodes /\ handler.uid \in NodeUID
    BY <1>2 DEF TrackPod, Handler
  <2>2. handler' \in Handler
    BY <1>2 DEF TrackPod, Handler, Idle
  <2>3. TypeOK' /\ InfoOK'
    BY <1>2, <2>1, <2>2 DEF TrackPod, Info
  <2> QED  BY <1>2, <2>3, MonitorFrame DEF TrackPod
<1>3. ASSUME NEW k \in PodKeys, UntrackPod(k)
      PROVE  IInv'
  <2>1. NoInfo \in Info
    BY ConstantsAssumption DEF NoInfo, Info, NodeUID
  <2>2. TypeOK' /\ InfoOK'
    BY <1>3, <2>1 DEF UntrackPod
  <2> QED  BY <1>3, <2>2, MonitorFrame DEF UntrackPod
<1>4. ASSUME NEW k \in PodKeys, NEW n \in Nodes, GetNode(k, n)
      PROVE  IInv'
  <2>1. handler' \in Handler
    BY <1>4 DEF GetNode, Handler
  <2>2. TypeOK' /\ InfoOK'
    BY <1>4, <2>1 DEF GetNode
  <2> QED  BY <1>4, <2>2, MonitorFrame DEF GetNode
<1> QED  BY <1>1, <1>2, <1>3, <1>4

-----------------------------------------------------------------------------
(* ArrayConnectivityMonitor. *)

\* What a step of the monitor leaves alone keeps its type.
LEMMA MonitorTypes ==
  ASSUME IInv, UNCHANGED <<cluster, watch, nodeUID, handler>>,
         pass' \in Pass, InfoOK', blocked' = blocked, sampled' \subseteq Nodes,
         lossCount' \in [Nodes -> 0..MaxLoss], tainted' \subseteq Nodes,
         Fault \/ UNCHANGED faults, CountsPasses'
  PROVE  TypeOK'
<1>1. faults' \in 0..MaxFaults
  BY FaultType DEF IInv, TypeOK
<1>2. info' \in [PodKeys -> Info]
  <2>1. NoInfo \in Info
    <3>1. 0 \in NodeUID
      BY ConstantsAssumption DEF NodeUID
    <3> QED  BY <3>1 DEF NoInfo, Info
  <2>2. [node : Nodes, uid : NodeUID, csi : BOOLEAN] \subseteq Info
    BY DEF Info
  <2> QED  BY <2>1, <2>2 DEF InfoOK
<1>3. counted' \subseteq Nodes /\ lost' \in [Nodes -> 0..MaxLoss]
  BY DEF CountsPasses
<1> QED  BY <1>1, <1>2, <1>3 DEF IInv, TypeOK, cluster, watch

\* A pass begins with nothing sampled and no node condemned.
LEMMA StartPassStep == IInv /\ StartPass => IInv'
<1> SUFFICES ASSUME IInv, StartPass
             PROVE  IInv'
  OBVIOUS
<1>1. pass' = [pc |-> "check", todo |-> {k \in PodKeys : info[k] # NoInfo},
               nodes |-> {}, keys |-> {}]
  BY DEF StartPass
<1>2. pass' \in Pass /\ pass'.nodes = {}
  BY <1>1 DEF Pass
<1>3. CountsPasses' /\ CondemnedSampled'
  BY <1>2 DEF StartPass, IInv, CountsPasses, CondemnedSampled
<1>4. InfoOK'
  BY DEF StartPass, table, IInv, InfoOK
<1>5. sampled' \subseteq Nodes /\ lossCount' = lossCount /\ tainted' = tainted
      /\ UNCHANGED <<cluster, watch, nodeUID, handler, blocked, faults>>
  BY DEF StartPass, table
<1>6. TypeOK'
  BY <1>2, <1>3, <1>4, <1>5, MonitorTypes DEF IInv, TypeOK
<1> QED  BY <1>3, <1>4, <1>6 DEF IInv

\* A pod that is stale, sampled already or not polled leaves the counts alone,
\* and condemns its node only on the count of this pass.
LEMMA CachedStep ==
  ASSUME IInv, NEW k \in PodKeys, pass \in Work, pass.pc = "check",
         info[k] # NoInfo, CheckCached(k),
         UNCHANGED <<cluster, watch, nodeUID, handler, info, blocked>>
  PROVE  IInv'
<1> DEFINE i == info[k]
<1>1. i.node \in Nodes
  BY DEF IInv, InfoOK
<1>2. /\ UNCHANGED <<sampled, lossCount, tainted, lost, counted>>
      /\ Fault \/ UNCHANGED faults
  BY DEF CheckCached, cache
<1>3. \/ Condemn(k, i, TRUE)
      \/ i.node \in sampled /\ Condemn(k, i, lossCount[i.node] < Threshold)
  BY DEF CheckCached
<1>4. /\ pass' \in Work /\ pass'.pc = "check"
      /\ \/ pass'.nodes = pass.nodes
         \/ /\ pass'.nodes = pass.nodes \cup {i.node}
            /\ i.node \in sampled /\ ~(lossCount[i.node] < Threshold)
  <2>1. (lossCount[i.node] < Threshold) \in BOOLEAN
    OBVIOUS
  <2>2. CASE Condemn(k, i, TRUE)
    BY <1>1, <2>2, CondemnFacts
  <2>3. CASE i.node \in sampled /\ Condemn(k, i, lossCount[i.node] < Threshold)
    BY <1>1, <2>1, <2>3, CondemnFacts
  <2> QED  BY <1>3, <2>2, <2>3
<1>5. CountsPasses' /\ InfoOK'
  BY <1>2 DEF IInv, CountsPasses, InfoOK
<1>6. lossCount[i.node] \in Nat /\ Threshold \in Nat
  BY <1>1, ConstantsAssumption DEF IInv, TypeOK
<1> HIDE DEF i
<1>7. CondemnedSampled'
  BY <1>2, <1>4, <1>6 DEF IInv, CondemnedSampled
<1>8. TypeOK'
  BY <1>2, <1>4, <1>5, MonitorTypes DEF IInv, TypeOK, Work, Pass
<1> QED  BY <1>5, <1>7, <1>8 DEF IInv

\* A poll counts a node once: it was not sampled, so not counted, in this pass;
\* a node the pass has condemned is not polled again.
LEMMA PolledStep ==
  ASSUME IInv, NEW k \in PodKeys, pass \in Work, pass.pc = "check",
         info[k] # NoInfo, CheckPolled(k),
         UNCHANGED <<cluster, watch, nodeUID, handler, info, blocked>>
  PROVE  IInv'
<1> DEFINE m == info[k].node
           up == m \in reachable
           count == IF up THEN 0 ELSE Saturate(lossCount[m])
<1>1. m \in Nodes
  BY DEF IInv, InfoOK
<1>2. /\ m \notin sampled /\ sampled' = sampled \cup {m}
      /\ counted' = counted \cup {m} /\ UNCHANGED <<tainted, faults>>
  BY DEF CheckPolled
<1>3. lossCount' = [lossCount EXCEPT ![m] = count]
  BY <1>1 DEF CheckPolled, IInv, TypeOK
<1>4. lost' = [lost EXCEPT ![m] = count]
  <2>1. m \notin counted /\ lost = lossCount
    BY <1>2 DEF IInv, CountsPasses
  <2>2. lost' = [lost EXCEPT ![m] =
           IF up THEN 0 ELSE IF m \in counted THEN lost[m] ELSE Saturate(lost[m])]
    BY <1>1 DEF CheckPolled, IInv, TypeOK
  <2> QED  BY <2>1, <2>2
<1>5. count \in 0..MaxLoss
  BY <1>1, SaturateType, ConstantsAssumption DEF IInv, TypeOK
<1> HIDE DEF count, up
<1>6. lossCount' \in [Nodes -> 0..MaxLoss] /\ lossCount'[m] = count
  BY <1>1, <1>3, <1>5 DEF IInv, TypeOK
<1>7. Condemn(k, info[k], lossCount'[m] < Threshold)
  BY DEF CheckPolled
<1>8. /\ pass' \in Work /\ pass'.pc = "check"
      /\ \/ pass'.nodes = pass.nodes
         \/ pass'.nodes = pass.nodes \cup {m} /\ ~(lossCount'[m] < Threshold)
  <2>1. (lossCount'[m] < Threshold) \in BOOLEAN
    OBVIOUS
  <2> QED  BY <1>1, <1>7, <2>1, CondemnFacts
<1>9. CountsPasses' /\ InfoOK'
  BY <1>2, <1>3, <1>4 DEF IInv, CountsPasses, InfoOK
<1> HIDE DEF m
<1>10. CondemnedSampled'
  <2>1. pass.nodes \subseteq sampled /\ \A n \in pass.nodes : lossCount[n] >= Threshold
    BY DEF IInv, CondemnedSampled
  <2>2. pass.nodes \subseteq Nodes
    BY DEF Work
  <2>3. \A n \in pass.nodes : lossCount'[n] = lossCount[n]
    BY <1>2, <1>3, <2>1, <2>2 DEF IInv, TypeOK
  <2>4. lossCount'[m] \in Nat /\ Threshold \in Nat
    BY <1>5, <1>6, ConstantsAssumption
  <2> QED  BY <1>2, <1>8, <2>1, <2>3, <2>4 DEF CondemnedSampled
<1>11. sampled' \subseteq Nodes /\ tainted' \subseteq Nodes /\ pass' \in Pass
  BY <1>1, <1>2, <1>8 DEF IInv, TypeOK, Work, Pass
<1>12. TypeOK'
  BY <1>2, <1>6, <1>9, <1>11, MonitorTypes
<1> QED  BY <1>9, <1>10, <1>12 DEF IInv

\* Range looks at a pod.
LEMMA CheckStep ==
  ASSUME IInv, NEW k \in PodKeys, CheckConnectivity(k)
  PROVE  IInv'
<1>1. pass \in Work /\ pass.pc = "check"
  BY PassIsWork DEF CheckConnectivity, IInv, TypeOK
<1>2. UNCHANGED <<cluster, watch, nodeUID, handler, info, blocked>>
  BY DEF CheckConnectivity, table
<1>3. CASE /\ pass' = [pass EXCEPT !.todo = @ \ {k}]
           /\ UNCHANGED <<cache, counters>>
  <2>1. pass' \in Work /\ pass'.pc = "check" /\ pass'.nodes = pass.nodes
    BY <1>1, <1>3 DEF Work
  <2>2. (InfoOK /\ CountsPasses /\ CondemnedSampled)'
    BY <1>1, <1>2, <1>3, <2>1
    DEF IInv, InfoOK, CountsPasses, CondemnedSampled, cache, counters
  <2>3. TypeOK'
    BY <1>2, <1>3, <2>1, <2>2, MonitorTypes DEF IInv, TypeOK, Work, Pass, cache, counters
  <2> QED  BY <2>2, <2>3 DEF IInv
<1> QED  BY <1>1, <1>2, <1>3, CachedStep, PolledStep DEF CheckConnectivity

\* The rest of a pass: nodes are tainted, pods cleaned up, the pass ends.
LEMMA CleanStep ==
  ASSUME IInv, TaintNodes \/ EndPass \/ \E k \in PodKeys : CleanPods(k)
  PROVE  IInv'
<1>1. CASE TaintNodes
  <2>1. pass \in Work /\ pass.pc = "check"
    BY <1>1, PassIsWork DEF TaintNodes, IInv, TypeOK
  <2>2. pass' = [pass EXCEPT !.pc = "clean", !.todo = pass.keys]
    BY <1>1 DEF TaintNodes
  <2>3. pass' \in Work /\ pass'.nodes = pass.nodes
    BY <2>1, <2>2 DEF Work
  <2>4. PICK done \in SUBSET pass.nodes :
           (Fault \/ UNCHANGED faults) /\ tainted' = done
    BY <1>1 DEF TaintNodes
  <2>5. UNCHANGED <<cluster, watch, nodeUID, handler, info, blocked, cache, lost, counted>>
    BY <1>1 DEF TaintNodes, table
  <2>6. (InfoOK /\ CountsPasses /\ CondemnedSampled)'
    BY <2>1, <2>3, <2>5 DEF IInv, InfoOK, CountsPasses, CondemnedSampled, cache
  <2>7. TypeOK'
    BY <2>1, <2>3, <2>4, <2>5, <2>6, MonitorTypes DEF IInv, TypeOK, Work, Pass, cache
  <2> QED  BY <2>6, <2>7 DEF IInv
<1>2. CASE EndPass
  <2>1. pass' \in Pass /\ pass'.pc = "idle"
    BY <1>2 DEF EndPass, Idle, Pass
  <2>2. (InfoOK /\ CountsPasses /\ CondemnedSampled)'
    BY <1>2, <2>1 DEF EndPass, IInv, InfoOK, CountsPasses, CondemnedSampled, table, cache
  <2>3. TypeOK'
    BY <1>2, <2>1, <2>2, MonitorTypes DEF EndPass, IInv, TypeOK, table, cache
  <2> QED  BY <2>2, <2>3 DEF IInv
<1>3. ASSUME NEW k \in PodKeys, CleanPods(k)
      PROVE  IInv'
  <2>1. pass \in Work /\ pass.pc = "clean"
    BY <1>3, PassIsWork DEF CleanPods, IInv, TypeOK
  <2>2. pass' \in Work /\ pass'.nodes = pass.nodes
    BY <1>3, <2>1 DEF CleanPods, Work
  <2>3. PICK done : /\ Fault \/ UNCHANGED faults
                    /\ info' = [j \in PodKeys |-> IF j \in done THEN NoInfo ELSE info[j]]
    BY <1>3 DEF CleanPods
  <2>4. InfoOK'
    BY <2>3 DEF IInv, InfoOK
  <2>5. UNCHANGED <<cluster, watch, nodeUID, handler, blocked, cache, tainted, lost, counted>>
    BY <1>3 DEF CleanPods
  <2>6. (CountsPasses /\ CondemnedSampled)'
    BY <2>1, <2>2, <2>5 DEF IInv, CountsPasses, CondemnedSampled, cache
  <2>7. TypeOK'
    BY <2>2, <2>3, <2>4, <2>5, <2>6, MonitorTypes DEF IInv, TypeOK, Work, Pass, cache
  <2> QED  BY <2>4, <2>6, <2>7 DEF IInv
<1> QED  BY <1>1, <1>2, <1>3

\* The invariant holds in every state.
LEMMA IInvHolds == Spec => []IInv
<1>1. ASSUME IInv, [Next]_vars
      PROVE  IInv'
  <2>1. CASE UNCHANGED vars
    BY <1>1, <2>1 DEF vars, cluster, watch, table, cache, counters, IInv, TypeOK, InfoOK,
                      CountsPasses, CondemnedSampled
  <2>2. CASE MonitorStep
    BY <1>1, <2>2, StartPassStep, CheckStep, CleanStep DEF MonitorStep
  <2> QED  BY <1>1, <2>1, <2>2, ClusterStep, WatchStep DEF Next
<1> QED  BY InitIInv, <1>1, PTL DEF Spec

-----------------------------------------------------------------------------
\* Every variable of the array monitor, its cache and the node watch has its type.
THEOREM TypeCorrect == Spec => []TypeOK
<1>1. IInv => TypeOK
  BY DEF IInv
<1> QED  BY IInvHolds, <1>1, PTL

\* Whatever the interleaving of passes, node events and pod events, and whichever
\* polls fail, a node is condemned only after Threshold passes in a row found it
\* lost, for every threshold and number of pods.
THEOREM LossIsCounted == Spec => []LossNeedsThreshold
<1>1. ASSUME IInv
      PROVE  LossNeedsThreshold
  <2>1. pass # Idle => pass.pc # "idle"
    BY <1>1 DEF IInv, TypeOK, Pass, Idle
  <2> QED  BY <1>1, <2>1 DEF IInv, CondemnedSampled, CountsPasses, LossNeedsThreshold
<1> QED  BY IInvHolds, <1>1, PTL
=============================================================================
