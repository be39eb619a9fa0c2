--------------------------- MODULE TakeoverProofs ----------------------------
(***************************************************************************)
(* Proofs about Controller, for every value of its constants: no volume is *)
(* exported to two nodes by a takeover, and every behaviour of Controller  *)
(* is one of Takeover.                                                     *)
(***************************************************************************)
EXTENDS ControllerProofs

\* The watch thread goes on only with a pod that is bound to a node, the podInfo
\* table records only such pods, and a cleanup works on a node, with attachments
\* of the pod's own volumes.
HandlerKnows == h.pc \in {"getnode", "crash"} => h.pod.node \in Nodes
InfoKnows == \A k \in PodKeys : info[k].uid # 0 => info[k].node \in Nodes
JobKnows(j) == j.pc # "idle" => j.node \in Nodes /\ j.vas \subseteq VolsOf[j.key]
JobsKnow == \A t \in Threads : JobKnows(job[t])
Known == HandlerKnows /\ InfoKnows /\ JobsKnow

-----------------------------------------------------------------------------
(* The nodes and attachments a cleanup works on. *)

\* Every step of controllerCleanupPod keeps its node, and the attachments it
\* looks up are of the pod's volumes.
LEMMA CleanupKeepsKnown ==
    ASSUME TypeOK, JobsKnow, NEW t \in Threads, JobLock(t) \/ JobStep(t)
    PROVE  JobsKnow'
<1>1. ASSUME \A u \in Threads \ {t} : job'[u] = job[u], JobKnows(job'[t])
      PROVE  JobsKnow'
  BY <1>1 DEF JobsKnow, JobKnows
<1>2. job \in [Threads -> Job]
  BY DEF TypeOK
<1>3. CASE JobLock(t)
  <2>1. job[t].pc = "wait"
    BY <1>3 DEF JobLock
  <2>2. CASE job' = [job EXCEPT ![t] = NoJob]
    BY <1>1, <1>2, <2>2 DEF NoJob, JobKnows
  <2>3. CASE job' = [job EXCEPT ![t].pc = "pvs"]
    <3>1. /\ job'[t].key = job[t].key /\ job'[t].node = job[t].node
          /\ job'[t].vas = job[t].vas
          /\ \A u \in Threads \ {t} : job'[u] = job[u]
      BY <1>2, <2>1, <2>3 DEF Job
    <3> QED
      BY <1>1, <2>1, <3>1 DEF JobsKnow, JobKnows
  <2> QED
    BY <1>3, <2>2, <2>3 DEF JobLock
<1>4. CASE JobStep(t)
  <2>1. job[t].pc \in Busy /\ job[t].pc # "idle"
    BY <1>4, JobMoves DEF Busy, PastFence
  <2>2. CASE Return(t)
    BY <1>1, <1>2, <2>1, <2>2, ReturnFreesTheThread DEF JobKnows
  <2>3. ASSUME NEW pc \in Busy, Goto(t, pc) PROVE JobsKnow'
    BY <1>1, <1>2, <2>1, <2>3, GotoKeepsTheRest DEF JobsKnow, JobKnows
  <2>4. CASE JobGetVolumes(t) /\ ~Return(t)
    <3>1. VolumeAttachments(job[t].key, job[t].node) \subseteq VolsOf[job[t].key]
      BY DEF VolumeAttachments, PersistentVolumesInPod
    <3> QED
      BY <1>1, <2>1, <2>4, <3>1, LookupKeepsTheRest DEF JobsKnow, JobKnows
  <2> QED
    BY <1>4, <2>2, <2>3, <2>4, JobMoves
<1> QED
  BY <1>3, <1>4

\* The handler records a pod only once it is bound, and starts its cleanup on the
\* node of that record or on the one just read.
LEMMA HandlerKeepsKnown ==
    ASSUME TypeOK, Known, TakeEvent \/ HandlerStep
    PROVE  Known'
<1> USE DEF Known, HandlerKnows, InfoKnows
<1>1. CASE TakeEvent
  <2> DEFINE ev == Head(queue)
  <2>1. ev \in Event /\ info \in [PodKeys -> Info]
    BY <1>1 DEF TakeEvent, TypeOK
  <2>2. HandlerKnows' /\ job' = job
    BY <1>1 DEF TakeEvent, Idle
  <2>3. info' = [info EXCEPT ![ev.key] = NoInfo] \/ info' = info
    BY <1>1, Zenon DEF TakeEvent
  <2>4. InfoKnows'
    <3> HIDE DEF ev
    <3> QED
      BY <2>1, <2>3 DEF NoInfo, Event
  <2> QED
    BY <2>2, <2>4 DEF JobsKnow
<1>2. CASE HandlerLock
  BY <1>2 DEF HandlerLock, JobsKnow
<1>3. CASE HandlerGetPod
  <2>1. h.ev.key \in PodKeys /\ pods[h.ev.key].node \in Nodes \cup {NoNode}
    BY <1>3, HandlerFields DEF HandlerGetPod, TypeOK, Pod
  <2>2. HandlerKnows'
    BY <1>3, <2>1 DEF HandlerGetPod, HandlerReturn, Idle
  <2> QED
    BY <1>3, <2>2 DEF HandlerGetPod, JobsKnow
<1>4. CASE HandlerGetNode
  <2> DEFINE k == h.ev.key
  <2>1. k \in PodKeys /\ h.ev \in Event /\ h.pod \in Pod /\ h.pod.node \in Nodes
    BY <1>4, HandlerFields DEF HandlerGetNode, TypeOK
  <2>2. ASSUME info' = Tracked(h.ev, h.pod) PROVE InfoKnows'
    <3>1. \/ info' = [info EXCEPT ![k] = [uid |-> h.pod.uid, node |-> h.pod.node,
                                          csi |-> HasCSINodeID(h.pod.node)]]
          \/ info' = info
      BY <2>2, Zenon DEF Tracked
    <3> QED
      BY <2>1, <3>1 DEF TypeOK
  <2>3. ASSUME HandlerReturn PROVE HandlerKnows'
    BY <2>3 DEF HandlerReturn, Idle
  <2>4. CASE HandlerReturn /\ UNCHANGED <<info, job>>
    BY <2>3, <2>4 DEF JobsKnow
  <2>5. CASE info' = Tracked(h.ev, h.pod) /\ HandlerReturn /\ UNCHANGED job
    BY <2>2, <2>3, <2>5 DEF JobsKnow
  <2>6. CASE /\ info' = Tracked(h.ev, h.pod) /\ UNCHANGED job
             /\ h' = [h EXCEPT !.pc = "crash"]
    <3>1. h'.pod = h.pod
      BY <1>4, <2>6 DEF HandlerGetNode, TypeOK, Handler
    <3> QED
      BY <2>1, <2>2, <2>6, <3>1 DEF JobsKnow
  <2>7. CASE /\ info' = Tracked(h.ev, h.pod) /\ HandlerReturn
             /\ SpawnCleanup(k, h.pod, info'[k])
    <3> DEFINE use == info'[k].uid # 0 /\ info'[k].csi
               node == IF use THEN info'[k].node ELSE h.pod.node
    <3>1. node \in Nodes
      BY <2>1, <2>2, <2>7
    <3> DEFINE new == [pc |-> "wait", key |-> k, uid |-> h.pod.uid, node |-> node,
                       csi |-> use \/ HasCSINodeID(h.pod.node),
                       noexec |-> NodeHasTaint(h.pod.node, {"noexec"}),
                       podmon |-> NodeHasTaint(h.pod.node, {"podmon", "driver"}),
                       vas |-> {}]
    <3>2. PICK w \in Workers : job' = [job EXCEPT ![w] = new]
      BY <2>7 DEF SpawnCleanup
    <3>3. JobsKnow'
      <4>1. new.node \in Nodes /\ new.vas = {}
        BY <3>1
      <4> HIDE DEF new
      <4> QED
        BY <3>2, <4>1 DEF JobsKnow, JobKnows, TypeOK, Threads
    <3> QED
      BY <2>2, <2>3, <2>7, <3>3
  <2> QED
    BY <1>4, <2>4, <2>5, <2>6, <2>7, Zenon DEF HandlerGetNode
<1>5. CASE HandlerCrashDelete
  BY <1>5 DEF HandlerCrashDelete, HandlerReturn, Idle, JobsKnow
<1> QED
  BY <1>1, <1>2, <1>3, <1>4, <1>5 DEF HandlerStep

\* So does every step of the specification.
LEMMA NextKeepsKnown ==
    ASSUME TypeOK, Known, [Next]_vars
    PROVE  Known'
<1> USE DEF Known
<1>1. ASSUME UNCHANGED <<h, info, job>> PROVE Known'
  BY <1>1 DEF HandlerKnows, InfoKnows, JobsKnow
<1>2. CASE Environment \/ UNCHANGED vars
  <2>1. UNCHANGED podmon
    BY <1>2, Zenon
       DEF Environment, Create, GoAway, Bind, SetStatus, SetAnnotation, SetTaint,
           Attach, Detach, vars
  <2> QED
    BY <1>1, <2>1 DEF podmon
<1>3. CASE Disconnect \/ Reconnect
  BY <1>1, <1>3 DEF Disconnect, Reconnect, podmon
<1>4. CASE Restart
  BY <1>4 DEF Restart, HandlerKnows, InfoKnows, JobsKnow, JobKnows, Idle, NoInfo, NoJob
<1>5. CASE TakeEvent \/ HandlerStep
  BY <1>5, HandlerKeepsKnown
<1>6. ASSUME NEW t \in Threads, JobLock(t) \/ JobStep(t) PROVE Known'
  <2>1. JobsKnow'
    BY <1>6, CleanupKeepsKnown
  <2>2. h' = h
    BY <1>6 DEF JobLock, JobStep, JobGetVolumes, JobValidate, JobFence, JobTaint,
                JobDeleteVAs, JobDeletePod, JobForget
  <2>3. info' = info \/ info' = [info EXCEPT ![job[t].key] = NoInfo]
    BY <1>6 DEF JobLock, JobStep, JobGetVolumes, JobValidate, JobFence, JobTaint,
                JobDeleteVAs, JobDeletePod, JobForget
  <2>4. InfoKnows'
    <3>1. CASE info' = info
      BY <3>1 DEF InfoKnows
    <3>2. CASE info' = [info EXCEPT ![job[t].key] = NoInfo]
      <4>1. \A k \in PodKeys : info'[k] = info[k] \/ info'[k] = NoInfo
        BY <3>2 DEF TypeOK
      <4> QED
        BY <4>1 DEF InfoKnows, NoInfo
    <3> QED
      BY <2>3, <3>1, <3>2
  <2> QED
    BY <2>1, <2>2, <2>4 DEF HandlerKnows
<1>7. CASE MonitorScan \/ \E n \in Nodes : MonitorTaint(n)
  BY <1>1, <1>7 DEF MonitorScan, MonitorTaint
<1>8. ASSUME NEW k \in PodKeys, MonitorCleanup(k) PROVE Known'
  <2>1. CASE UNCHANGED job
    BY <1>1, <1>8, <2>1 DEF MonitorCleanup
  <2>2. CASE job' # job
    <3> DEFINE new == [pc |-> "wait", key |-> k, uid |-> pods[k].uid,
                       node |-> info[k].node, csi |-> info[k].csi, noexec |-> FALSE,
                       podmon |-> FALSE, vas |-> {}]
    <3>1. job' = [job EXCEPT ![ArrayMonitor] = new] /\ info[k].uid # 0
      BY <1>8, <2>2 DEF MonitorCleanup, SameAsInfo
    <3>2. JobsKnow'
      <4>1. new.node \in Nodes /\ new.vas = {}
        BY <3>1 DEF InfoKnows
      <4> HIDE DEF new
      <4> QED
        BY <3>1, <4>1 DEF JobsKnow, JobKnows, TypeOK, Threads
    <3> QED
      BY <1>8, <3>2 DEF MonitorCleanup, HandlerKnows, InfoKnows
  <2> QED
    BY <2>1, <2>2
<1> QED
  BY <1>2, <1>3, <1>4, <1>5, <1>6, <1>7, <1>8 DEF Next, ArrayMonitorStep

\* Cleanups work on nodes, with attachments of their pod's volumes.
LEMMA KnownCorrect == Spec => []Known
<1>1. Init => Known
  BY DEF Init, Known, HandlerKnows, InfoKnows, JobsKnow, JobKnows, Idle, NoInfo, NoJob
<1>2. TypeOK /\ Known /\ [Next]_vars => Known'
  BY NextKeepsKnown
<1> QED
  BY <1>1, <1>2, TypeCorrect, PTL DEF Spec

-----------------------------------------------------------------------------
(* One writer. *)

\* What makes SingleWriter inductive: whatever the array exports is attached, or
\* was attached again after a fencing, and only one node is attached at a time.
ExportsAttached ==
    \A v \in CSIVols, n \in Nodes :
       <<v, n>> \in published => <<v, n>> \in vas \/ <<v, n>> \in reattached
OneAttachment ==
    \A v \in Volumes \ RWXVols : \A a, b \in Nodes :
       <<v, a>> \in vas /\ <<v, b>> \in vas => a = b
Writers == ExportsAttached /\ OneAttachment

\* The attach/detach controller keeps both.
LEMMA StorageKeepsWriters ==
    ASSUME Writers, NEW v \in Volumes, NEW n \in Nodes, Attach(v, n) \/ Detach(v, n)
    PROVE  Writers'
<1> USE DEF Writers, ExportsAttached, OneAttachment
<1>1. CASE Attach(v, n)
  <2>1. /\ vas' = vas \cup {<<v, n>>} /\ published' = published \cup {<<v, n>>}
        /\ reattached \subseteq reattached'
        /\ v \in RWXVols \/ \A m \in Nodes : <<v, m>> \notin vas
    BY <1>1 DEF Attach
  <2> QED
    BY <2>1
<1>2. CASE Detach(v, n)
  BY <1>2 DEF Detach
<1> QED
  BY <1>1, <1>2

\* A cleanup deletes an attachment only once the export it stands for is gone.
LEMMA DeleteKeepsWriters ==
    ASSUME TypeOK, Fenced, JobsKnow, Writers, NEW t \in Threads, JobDeleteVAs(t)
    PROVE  Writers'
<1>1. PICK done \in SUBSET job[t].vas : vas' = vas \ (done \X {job[t].node})
  BY DEF JobDeleteVAs
<1>2. UNCHANGED <<published, reattached>> /\ job[t].pc = "vas"
  BY DEF JobDeleteVAs
<1>3. job[t].vas \subseteq VolsOf[job[t].key]
  BY <1>2 DEF JobsKnow, JobKnows
<1>4. OneAttachment'
  BY <1>1 DEF Writers, OneAttachment
<1>5. ASSUME NEW v \in CSIVols, NEW n \in Nodes, <<v, n>> \in published
      PROVE  <<v, n>> \in vas' \/ <<v, n>> \in reattached
  <2>1. CASE v \in done /\ n = job[t].node
    <3>1. <<v, n>> \in Exports(job[t].key, job[t].node)
      BY <1>3, <2>1 DEF Exports, VolIDs, PersistentVolumesInPod
    <3> QED
      BY <1>2, <1>5, <3>1 DEF Fenced, PastFence
  <2>2. CASE ~(v \in done /\ n = job[t].node)
    BY <1>1, <1>5, <2>2 DEF Writers, ExportsAttached
  <2> QED
    BY <2>1, <2>2
<1> QED
  BY <1>2, <1>4, <1>5 DEF Writers, ExportsAttached

\* Every step of the specification keeps both.
LEMMA NextKeepsWriters ==
    ASSUME TypeOK, Fenced, Known, Writers, [Next]_vars
    PROVE  Writers'
<1>1. ASSUME UNCHANGED storage PROVE Writers'
  BY <1>1 DEF storage, Writers, ExportsAttached, OneAttachment
<1>2. CASE Environment
  <2>1. ASSUME NEW n \in Nodes, NEW v \in Volumes, Attach(v, n) \/ Detach(v, n)
        PROVE  Writers'
    BY <2>1, StorageKeepsWriters
  <2> QED
    BY <1>1, <1>2, <2>1, Zenon
       DEF Environment, Create, GoAway, Bind, SetStatus, SetAnnotation, SetTaint
<1>3. CASE Disconnect \/ Reconnect \/ Restart \/ UNCHANGED vars
  BY <1>1, <1>3, Zenon DEF Disconnect, Reconnect, Restart, vars
<1>4. CASE TakeEvent \/ HandlerStep
  BY <1>1, <1>4, Zenon DEF TakeEvent, HandlerStep, HandlerLock, HandlerGetPod, HandlerGetNode,
                           HandlerCrashDelete
<1>5. CASE ArrayMonitorStep
  BY <1>1, <1>5, Zenon DEF ArrayMonitorStep, MonitorScan, MonitorTaint, MonitorCleanup
<1>6. ASSUME NEW t \in Threads, JobLock(t) \/ JobStep(t) PROVE Writers'
  <2>1. CASE JobDeleteVAs(t)
    BY <2>1, DeleteKeepsWriters DEF Known
  <2>2. CASE JobFence(t)
    <3>1. PICK done : published' = published \ done /\ reattached' = reattached \ done
      BY <2>2 DEF JobFence
    <3> QED
      BY <2>2, <3>1 DEF JobFence, Writers, ExportsAttached, OneAttachment
  <2>3. CASE ~JobDeleteVAs(t) /\ ~JobFence(t)
    BY <1>1, <1>6, <2>3, Zenon
       DEF JobLock, JobStep, JobGetVolumes, JobValidate, JobTaint, JobDeletePod, JobForget
  <2> QED
    BY <2>1, <2>2, <2>3
<1> QED
  BY <1>2, <1>3, <1>4, <1>5, <1>6 DEF Next

\* controllerCleanupPod never makes the array export a volume that is not
\* ReadWriteMany to a second node: it deletes the VolumeAttachment that keeps
\* other nodes away only after ControllerUnpublishVolume has taken the volume from
\* the first, for any number of nodes, pods, volumes and threads, across restarts,
\* lost watches and calls that fail.
THEOREM OneWriter == Spec => []SingleWriter
<1>1. Init => Writers
  BY DEF Init, Writers, ExportsAttached, OneAttachment
<1>2. TypeOK /\ Fenced /\ Known /\ Writers /\ [Next]_vars => Writers'
  BY NextKeepsWriters
<1>3. Writers => SingleWriter
  <2> SUFFICES ASSUME Writers, NEW v \in CSIVols \ RWXVols, NEW a \in Nodes, NEW b \in Nodes,
                      <<v, a>> \in published, <<v, b>> \in published,
                      <<v, a>> \notin reattached, <<v, b>> \notin reattached
               PROVE  a = b
    BY DEF SingleWriter
  <2>1. v \in Volumes
    BY ConstantsAssumption
  <2> QED
    BY <2>1 DEF Writers, ExportsAttached, OneAttachment
<1> QED
  BY <1>1, <1>2, <1>3, TypeCorrect, FencedCorrect, KnownCorrect, PTL DEF Spec

-----------------------------------------------------------------------------
(* Controller implements Takeover. *)

\* The variables of Takeover.
UIDOf == [k \in PodKeys |-> pods[k].uid]
Tainted == {n \in Nodes : "podmon" \in taints[n]}
Takeovers == [t \in Threads |-> Abstract(t)]

\* The stages of a cleanup.
LEMMA Stages ==
    /\ \A pc \in {"pvs", "validate", "fence"} : Stage(pc) = "begun"
    /\ Stage("taint") = "fenced"
    /\ \A pc \in {"vas", "delete"} : Stage(pc) = "tainted"
    /\ Stage("forget") = "deleted"
    /\ \A pc \in Busy : Stage(pc) # "none"
BY DEF Stage, Busy, PastFence

\* The takeover a busy thread runs.
LEMMA BusyTakeover ==
    ASSUME NEW t \in Threads, job[t].pc \in Busy
    PROVE  /\ Takeovers[t] = [stage |-> Stage(job[t].pc), key |-> job[t].key,
                              node |-> job[t].node, uid |-> job[t].uid]
           /\ Takeovers[t].stage = Stage(job[t].pc)
           /\ Takeovers[t].key = job[t].key /\ Takeovers[t].node = job[t].node
           /\ Takeovers[t].uid = job[t].uid
           /\ Takeovers[t] # [stage |-> "none"]
<1>1. Takeovers[t] = [stage |-> Stage(job[t].pc), key |-> job[t].key,
                      node |-> job[t].node, uid |-> job[t].uid]
  BY DEF Takeovers, Abstract
<1>2. Stage(job[t].pc) # "none"
  BY Stages
<1>3. Takeovers[t].stage = Stage(job[t].pc)
  BY <1>1
<1>4. ASSUME Takeovers[t] = [stage |-> "none"] PROVE FALSE
  BY <1>2, <1>3, <1>4
<1> QED
  BY <1>1, <1>4

\* Other threads run none.
LEMMA NoTakeover ==
    ASSUME NEW t \in Threads, job[t].pc \notin Busy
    PROVE  Takeovers[t] = [stage |-> "none"]
BY DEF Takeovers, Abstract

\* While no cleanup takes or leaves a lock, or moves, the takeovers stay.
LEMMA SameTakeovers ==
    ASSUME \A t \in Threads : \/ job'[t] = job[t]
                              \/ job[t].pc \notin Busy /\ job'[t].pc \notin Busy
    PROVE  Takeovers' = Takeovers
<1>1. \A t \in Threads : Abstract(t)' = Abstract(t)
  BY DEF Abstract
<1> QED
  BY <1>1 DEF Takeovers

\* A cleanup that moves on moves its takeover to the stage of its new place.
LEMMA GotoMovesStage ==
    ASSUME TypeOK, NEW t \in Threads, job[t].pc \in Busy, NEW pc \in Busy,
           job'[t].pc = pc, job'[t].key = job[t].key,
           job'[t].node = job[t].node, job'[t].uid = job[t].uid,
           \A u \in Threads \ {t} : job'[u] = job[u]
    PROVE  /\ Takeovers' = [Takeovers EXCEPT ![t].stage = Stage(pc)]
           /\ Stage(pc) = Stage(job[t].pc) => Takeovers' = Takeovers
<1> DEFINE R(st) == [stage |-> st, key |-> job[t].key, node |-> job[t].node,
                     uid |-> job[t].uid]
<1>1. Takeovers[t] = R(Stage(job[t].pc))
  BY BusyTakeover
<1>2. Takeovers'[t] = R(Stage(pc))
  BY DEF Takeovers, Abstract
<1>3. \A u \in Threads \ {t} : Takeovers'[u] = Takeovers[u]
  BY DEF Takeovers, Abstract
<1>4. [Takeovers[t] EXCEPT !.stage = Stage(pc)] = R(Stage(pc))
  BY <1>1
<1>5. /\ Takeovers = [u \in Threads |-> Takeovers[u]]
      /\ Takeovers' = [u \in Threads |-> Takeovers'[u]]
  BY DEF Takeovers
<1> HIDE DEF R
<1> QED
  BY <1>1, <1>2, <1>3, <1>4, <1>5

\* A cleanup that returns ends its takeover.
LEMMA ReturnEndsTakeover ==
    ASSUME TypeOK, NEW t \in Threads, job[t].pc \in Busy, Return(t)
    PROVE  Takeovers' = [Takeovers EXCEPT ![t] = [stage |-> "none"]]
<1>1. job'[t].pc = "idle" /\ \A u \in Threads \ {t} : job'[u] = job[u]
  BY ReturnFreesTheThread DEF TypeOK
<1>2. Takeovers'[t] = [stage |-> "none"]
  BY <1>1 DEF Takeovers, Abstract, Busy, PastFence
<1>3. \A u \in Threads \ {t} : Takeovers'[u] = Takeovers[u]
  BY <1>1 DEF Takeovers, Abstract
<1>4. /\ Takeovers = [u \in Threads |-> Takeovers[u]]
      /\ Takeovers' = [u \in Threads |-> Takeovers'[u]]
  BY DEF Takeovers
<1> QED
  BY <1>2, <1>3, <1>4

\* A step that changes one of the pods, the exports and the taints, and no
\* takeover, is one of the cluster.
LEMMA ClusterSteps ==
    ASSUME UNCHANGED Takeovers,
           \/ UNCHANGED <<published, taints>>
           \/ UNCHANGED <<pods, taints>>
           \/ UNCHANGED <<pods, published>>
    PROVE  Promise!Next
BY DEF Promise!Next, Promise!Cluster, Takeovers

\* A cleanup that returns, having taken away at most exports it was to end.
LEMMA EndSteps ==
    ASSUME TypeOK, NEW t \in Threads, job[t].pc \in Busy, Return(t),
           UNCHANGED <<pods, taints>>,
           published' \subseteq published,
           published \ published' \subseteq Exports(job[t].key, job[t].node)
    PROVE  Promise!Next
<1>1. Takeovers' = [Takeovers EXCEPT ![t] = [stage |-> "none"]]
  BY ReturnEndsTakeover
<1>2. /\ Takeovers[t] # [stage |-> "none"]
      /\ Takeovers[t].key = job[t].key /\ Takeovers[t].node = job[t].node
  BY BusyTakeover
<1>3. Promise!End(t)
  BY <1>1, <1>2 DEF Promise!End, Promise!None, Promise!Doomed, Takeovers, Exports
<1> QED
  BY <1>3 DEF Promise!Next

\* The lock gives a pod key to one takeover at a time.
LEMMA LockBegins ==
    ASSUME TypeOK, LockOwnership, NEW t \in Threads, JobLock(t)
    PROVE  Promise!Next
<1> DEFINE k == job[t].key
<1>1. job[t].pc = "wait" /\ job \in [Threads -> Job] /\ UNCHANGED <<pods, taints, published>>
  BY DEF JobLock, TypeOK, cluster, storage
<1>2. k \in PodKeys /\ job[t].uid \in 0..MaxUID /\ job[t].node \in Nodes \cup {NoNode}
  BY <1>1, JobFields
<1>3. job[t].pc \notin Busy
  BY <1>1 DEF Busy, PastFence
<1>4. CASE job' = [job EXCEPT ![t] = NoJob]
  <2>1. UNCHANGED Takeovers
    BY <1>1, <1>3, <1>4, SameTakeovers DEF NoJob, Busy, PastFence
  <2> QED
    BY <1>1, <2>1, ClusterSteps
<1>5. CASE job' = [job EXCEPT ![t].pc = "pvs"] /\ k \notin locks
  <2> DEFINE new == [stage |-> "begun", key |-> k, node |-> job[t].node, uid |-> job[t].uid]
  <2>1. /\ job'[t].pc = "pvs" /\ job'[t].key = k /\ job'[t].node = job[t].node
        /\ job'[t].uid = job[t].uid /\ \A u \in Threads \ {t} : job'[u] = job[u]
    BY <1>1, <1>5 DEF Job
  <2>2. Takeovers'[t] = new
    BY <2>1, Stages DEF Takeovers, Abstract, Busy
  <2>3. \A u \in Threads \ {t} : Takeovers'[u] = Takeovers[u]
    BY <2>1 DEF Takeovers, Abstract
  <2>4. Takeovers' = [Takeovers EXCEPT ![t] = new]
    <3>1. /\ Takeovers = [u \in Threads |-> Takeovers[u]]
          /\ Takeovers' = [u \in Threads |-> Takeovers'[u]]
      BY DEF Takeovers
    <3> HIDE DEF new
    <3> QED
      BY <2>2, <2>3, <3>1
  <2>5. ASSUME NEW u \in Threads, Takeovers[u] # [stage |-> "none"]
        PROVE  Takeovers[u].key # k
    <3>1. job[u].pc \in Busy /\ Takeovers[u].key = job[u].key
      BY <2>5, NoTakeover, BusyTakeover
    <3>2. ~JobHolds(u, k)
      BY <1>2, <1>5 DEF LockOwnership
    <3> QED
      BY <3>1, <3>2 DEF JobHolds
  <2>6. Takeovers[t] = [stage |-> "none"]
    BY <1>3, NoTakeover
  <2>7. Promise!Begin(t, k, job[t].node, job[t].uid)
    BY <1>1, <2>4, <2>5, <2>6 DEF Promise!Begin, Promise!None, Takeovers
  <2> QED
    BY <1>2, <2>7 DEF Promise!Next
<1> QED
  BY <1>4, <1>5 DEF JobLock

\* ControllerUnpublishVolume of every volume is the fencing; of some, the end.
LEMMA FenceFences ==
    ASSUME TypeOK, NEW t \in Threads, JobFence(t)
    PROVE  Promise!Next
<1> DEFINE E == Exports(job[t].key, job[t].node)
<1>1. job[t].pc = "fence" /\ job[t].pc \in Busy /\ UNCHANGED <<pods, taints>>
  BY DEF JobFence, Busy, cluster
<1>2. PICK done \in SUBSET E : /\ published' = published \ done
                               /\ IF done = E THEN Goto(t, "taint") ELSE Return(t)
  BY DEF JobFence
<1>3. CASE done = E
  <2>1. Goto(t, "taint") /\ "taint" \in Busy
    BY <1>2, <1>3, Zenon DEF Busy, PastFence
  <2>2. Takeovers' = [Takeovers EXCEPT ![t].stage = "fenced"]
    <3>1. job \in [Threads -> Job] /\ Stage("taint") = "fenced"
      BY Stages DEF TypeOK
    <3>2. /\ job'[t].pc = "taint" /\ job'[t].key = job[t].key
          /\ job'[t].node = job[t].node /\ job'[t].uid = job[t].uid
          /\ \A u \in Threads \ {t} : job'[u] = job[u]
      BY <1>1, <2>1, <3>1, GotoKeepsTheRest
    <3>3. Takeovers' = [Takeovers EXCEPT ![t].stage = Stage("taint")]
      BY <1>1, <2>1, <3>2, GotoMovesStage
    <3> QED
      BY <3>1, <3>3
  <2>3. /\ Takeovers[t].stage = "begun"
        /\ Takeovers[t].key = job[t].key /\ Takeovers[t].node = job[t].node
    BY <1>1, BusyTakeover, Stages
  <2>4. published' = published \ E
    BY <1>2, <1>3
  <2>5. Promise!Fence(t)
    BY <1>1, <2>2, <2>3, <2>4
       DEF Promise!Fence, Promise!Step, Promise!Doomed, Takeovers, Exports
  <2> QED
    BY <2>5 DEF Promise!Next
<1>4. CASE done # E
  <2>1. Return(t)
    BY <1>2, <1>4, Zenon
  <2>2. published' \subseteq published /\ published \ published' \subseteq E
    <3> HIDE DEF E
    <3> QED
      BY <1>2
  <2> QED
    BY <1>1, <2>1, <2>2, EndSteps
<1> QED
  BY <1>3, <1>4

\* The taint.
LEMMA TaintTaints ==
    ASSUME TypeOK, JobsKnow, NEW t \in Threads, JobTaint(t)
    PROVE  Promise!Next
<1>1. /\ job[t].pc = "taint" /\ job[t].pc \in Busy /\ UNCHANGED <<pods, published>>
      /\ job[t].node \in Nodes
  BY DEF JobTaint, Busy, PastFence, storage, JobsKnow, JobKnows
<1>2. CASE TaintNode(job[t].node) /\ Goto(t, "vas")
  <2>1. Takeovers' = [Takeovers EXCEPT ![t].stage = "tainted"]
    BY <1>1, <1>2, GotoKeepsTheRest, GotoMovesStage, Stages DEF TypeOK, Busy, PastFence
  <2>2. Takeovers[t].stage = "fenced" /\ Takeovers[t].node = job[t].node
    BY <1>1, BusyTakeover, Stages
  <2>3. Tainted' = Tainted \cup {job[t].node}
    BY <1>1, <1>2 DEF Tainted, TaintNode, TypeOK
  <2>4. Promise!Taint(t)
    BY <1>1, <2>1, <2>2, <2>3 DEF Promise!Taint, Promise!Step, Takeovers, Tainted
  <2> QED
    BY <2>4 DEF Promise!Next
<1>3. CASE Return(t) /\ UNCHANGED taints
  BY <1>1, <1>3, EndSteps
<1> QED
  BY <1>2, <1>3 DEF JobTaint

\* The force delete, whether the cleanup hears of it or not.
LEMMA DeleteForceDeletes ==
    ASSUME TypeOK, NEW t \in Threads, JobDeletePod(t)
    PROVE  Promise!Next
<1> DEFINE k == job[t].key
<1>1. job[t].pc = "delete" /\ job[t].pc \in Busy /\ UNCHANGED <<taints, published>>
  BY DEF JobDeletePod, Busy, PastFence, storage
<1>2. CASE /\ SameUID(k, job[t].uid) /\ pods' = [pods EXCEPT ![k] = NoPod]
           /\ Goto(t, "forget") \/ Return(t)
  <2>1. k \in PodKeys
    BY <1>1, JobFields DEF TypeOK
  <2>2. UIDOf' = [UIDOf EXCEPT ![k] = 0] /\ UIDOf[k] = job[t].uid
    BY <1>2, <2>1 DEF UIDOf, NoPod, SameUID, TypeOK
  <2>3. /\ Takeovers[t].stage = "tainted"
        /\ Takeovers[t].key = k /\ Takeovers[t].uid = job[t].uid
    BY <1>1, BusyTakeover, Stages
  <2>4. \/ Takeovers' = [Takeovers EXCEPT ![t].stage = "deleted"]
        \/ Takeovers' = [Takeovers EXCEPT ![t] = [stage |-> "none"]]
    <3>1. CASE Goto(t, "forget")
      BY <1>1, <3>1, GotoKeepsTheRest, GotoMovesStage, Stages DEF TypeOK, Busy
    <3>2. CASE Return(t)
      BY <1>1, <3>2, ReturnEndsTakeover
    <3> QED
      BY <1>2, <3>1, <3>2
  <2>5. Promise!ForceDelete(t)
    BY <1>1, <2>2, <2>3, <2>4 DEF Promise!ForceDelete, Promise!None, Takeovers, UIDOf
  <2> QED
    BY <2>5 DEF Promise!Next
<1>3. CASE Return(t) /\ UNCHANGED <<pods, watch>>
  BY <1>1, <1>3, EndSteps
<1> QED
  BY <1>2, <1>3 DEF JobDeletePod

\* The other steps of a cleanup stay in their stage or end the takeover.
LEMMA QuietSteps ==
    ASSUME TypeOK, NEW t \in Threads,
           \/ JobGetVolumes(t) \/ JobValidate(t) \/ JobDeleteVAs(t) \/ JobForget(t)
    PROVE  Promise!Next
<1>1. job[t].pc \in Busy /\ UNCHANGED <<pods, taints, published>>
  BY DEF JobGetVolumes, JobValidate, JobDeleteVAs, JobForget, Busy, PastFence,
         cluster, storage
<1>2. CASE Return(t)
  BY <1>1, <1>2, EndSteps
<1>3. ASSUME NEW pc \in Busy, Goto(t, pc), Stage(pc) = Stage(job[t].pc)
      PROVE  Promise!Next
  <2>1. UNCHANGED Takeovers
    BY <1>1, <1>3, GotoKeepsTheRest, GotoMovesStage DEF TypeOK
  <2> QED
    BY <1>1, <2>1, ClusterSteps
<1>4. CASE JobGetVolumes(t) /\ ~Return(t)
  <2>1. Stage("validate") = Stage(job[t].pc) /\ "validate" \in Busy
    BY <1>4, Stages DEF JobGetVolumes, Busy
  <2>2. UNCHANGED Takeovers
    BY <1>1, <1>4, <2>1, LookupKeepsTheRest, GotoMovesStage
  <2> QED
    BY <1>1, <2>2, ClusterSteps
<1>5. CASE JobValidate(t) /\ ~Return(t)
  <2>1. Goto(t, "fence") /\ job[t].pc = "validate"
    BY <1>5, Zenon DEF JobValidate
  <2>2. Stage("fence") = Stage(job[t].pc) /\ "fence" \in Busy
    BY <2>1, Stages DEF Busy
  <2> QED
    BY <1>3, <2>1, <2>2
<1>6. CASE JobDeleteVAs(t) /\ ~Return(t)
  <2>1. Goto(t, "delete") /\ job[t].pc = "vas"
    BY <1>6, Zenon DEF JobDeleteVAs
  <2>2. Stage("delete") = Stage(job[t].pc) /\ "delete" \in Busy
    BY <2>1, Stages DEF Busy, PastFence
  <2> QED
    BY <1>3, <2>1, <2>2
<1> QED
  BY <1>2, <1>4, <1>5, <1>6 DEF JobForget

\* What the cluster does, and the steps of podmon outside of its cleanups.
LEMMA OtherSteps ==
    ASSUME TypeOK,
           \/ Environment \/ Disconnect \/ Reconnect \/ TakeEvent \/ HandlerStep
           \/ ArrayMonitorStep
    PROVE  Promise!Next
<1>1. ASSUME UNCHANGED job PROVE UNCHANGED Takeovers
  BY <1>1, SameTakeovers
<1>2. ASSUME NEW w \in Threads, NEW new, job[w] = NoJob, new.pc = "wait",
             job' = [job EXCEPT ![w] = new]
      PROVE  UNCHANGED Takeovers
  <2>1. /\ job[w].pc \notin Busy /\ job'[w].pc \notin Busy
        /\ \A t \in Threads \ {w} : job'[t] = job[t]
    BY <1>2 DEF TypeOK, NoJob, Busy, PastFence
  <2> QED
    BY <2>1, SameTakeovers
<1>3. CASE Environment
  <2>1. UNCHANGED job
    BY <1>3, Zenon DEF Environment, Create, GoAway, Bind, SetStatus, SetAnnotation,
                       SetTaint, Attach, Detach, podmon
  <2>2. \/ UNCHANGED <<published, taints>> \/ UNCHANGED <<pods, taints>>
        \/ UNCHANGED <<pods, published>>
    BY <1>3, Zenon DEF Environment, Create, GoAway, Bind, SetStatus, SetAnnotation,
                       SetTaint, Attach, Detach, cluster, storage
  <2> QED
    BY <1>1, <2>1, <2>2, ClusterSteps
<1>4. CASE Disconnect \/ Reconnect
  BY <1>1, <1>4, ClusterSteps DEF Disconnect, Reconnect, cluster, storage, podmon
<1>5. CASE TakeEvent \/ HandlerStep
  <2>1. UNCHANGED <<pods, taints, published>>
    BY <1>5 DEF TakeEvent, HandlerStep, HandlerLock, HandlerGetPod, HandlerGetNode,
                HandlerCrashDelete, cluster, storage
  <2>2. CASE HandlerGetNode /\ job' # job
    <3>1. PICK w \in Workers : \E j : /\ job[w] = NoJob /\ j.pc = "wait"
                                      /\ job' = [job EXCEPT ![w] = j]
      BY <2>2, Zenon DEF HandlerGetNode, SpawnCleanup
    <3> QED
      BY <1>2, <2>1, <3>1, ClusterSteps DEF Threads
  <2>3. CASE UNCHANGED job
    BY <1>1, <2>1, <2>3, ClusterSteps
  <2> QED
    BY <1>5, <2>2, <2>3 DEF TakeEvent, HandlerStep, HandlerLock, HandlerGetPod,
                            HandlerCrashDelete
<1>6. CASE MonitorScan \/ \E n \in Nodes : MonitorTaint(n)
  BY <1>1, <1>6, ClusterSteps DEF MonitorScan, MonitorTaint, cluster, storage
<1>7. ASSUME NEW k \in PodKeys, MonitorCleanup(k) PROVE Promise!Next
  <2>1. UNCHANGED <<pods, taints, published>>
    BY <1>7 DEF MonitorCleanup, cluster, storage
  <2>2. CASE job' # job
    <3>1. \E j : /\ job[ArrayMonitor] = NoJob /\ j.pc = "wait"
                 /\ job' = [job EXCEPT ![ArrayMonitor] = j]
      BY <1>7, <2>2, Zenon DEF MonitorCleanup
    <3> QED
      BY <1>2, <2>1, <3>1, ClusterSteps DEF Threads
  <2>3. CASE UNCHANGED job
    BY <1>1, <2>1, <2>3, ClusterSteps
  <2> QED
    BY <2>2, <2>3
<1> QED
  BY <1>3, <1>4, <1>5, <1>6, <1>7 DEF ArrayMonitorStep

\* A restart drops every takeover at once.
LEMMA RestartCrashes ==
    ASSUME Restart
    PROVE  Promise!Next
<1>1. UNCHANGED <<pods, published, taints>>
  BY DEF Restart, cluster, storage
<1>2. \A t \in Threads : job'[t].pc \notin Busy
  BY DEF Restart, NoJob, Busy, PastFence
<1>3. Takeovers' = [t \in Threads |-> [stage |-> "none"]]
  BY <1>2 DEF Takeovers, Abstract
<1>4. Promise!Crash
  BY <1>1, <1>3 DEF Promise!Crash, Promise!None, Takeovers
<1> QED
  BY <1>4 DEF Promise!Next

\* Every step of the specification is a step of Takeover or changes nothing of it.
LEMMA StepsImplement ==
    ASSUME TypeOK, LockOwnership, Known, [Next]_vars
    PROVE  [Promise!Next]_Promise!vars
<1>1. CASE UNCHANGED vars
  <2>1. UNCHANGED <<pods, published, taints, job>>
    BY <1>1 DEF vars, cluster, storage, podmon
  <2>2. UNCHANGED Takeovers
    BY <2>1, SameTakeovers
  <2> QED
    BY <2>1, <2>2 DEF Promise!vars, Takeovers
<1>2. ASSUME NEW t \in Threads, JobLock(t) \/ JobStep(t) PROVE Promise!Next
  BY <1>2, LockBegins, FenceFences, TaintTaints, DeleteForceDeletes, QuietSteps
     DEF JobStep, Known
<1>3. CASE Restart
  BY <1>3, RestartCrashes
<1> QED
  BY <1>1, <1>2, <1>3, OtherSteps DEF Next

\* controllerCleanupPod takes pods over as Takeover promises, for any number of
\* pods, nodes, volumes and threads, whatever calls fail and however often podmon
\* restarts or loses its watch: one takeover of a pod key at a time, every export
\* ended before the taint, the taint before the force delete, and the force delete
\* only of the pod the takeover began with.
THEOREM TakeoverImplemented == Spec => ImplementsTakeover
<1>1. Init => Promise!Init
  <2> SUFFICES ASSUME Init PROVE Promise!Init
    OBVIOUS
  <2>1. Takeovers = [t \in Threads |-> [stage |-> "none"]]
    BY DEF Init, Takeovers, Abstract, NoJob, Busy, PastFence
  <2>2. UIDOf = [k \in PodKeys |-> 0]
    BY DEF Init, UIDOf, NoPod
  <2>3. Tainted = {} /\ published = {}
    BY DEF Init, Tainted
  <2> QED
    BY <2>1, <2>2, <2>3 DEF Promise!Init, Promise!None, Takeovers, UIDOf, Tainted
<1>2. TypeOK /\ LockOwnership /\ Known /\ [Next]_vars => [Promise!Next]_Promise!vars
  BY StepsImplement
<1> QED
  BY <1>1, <1>2, TypeCorrect, LocksCorrect, KnownCorrect, PTL
     DEF Spec, ImplementsTakeover, Promise!Spec
=============================================================================
