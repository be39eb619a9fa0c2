----------------------------- MODULE Controller -----------------------------
(***************************************************************************)
(* The controller podmon (internal/monitor/controller.go, monitor.go): the *)
(* pod watch and its handler thread, the cleanup goroutines the handler    *)
(* spawns, and the cleanups ArrayConnectivityMonitor runs in its own       *)
(* thread.  They share the per-pod-key lock (PodKeyMap), the table of      *)
(* protected pods (PodKeyToControllerPodInfo) and the CrashLoopBackOff     *)
(* counters, and act on a Kubernetes API server and a storage array that   *)
(* change under them.                                                      *)
(*                                                                         *)
(* One action is one stretch of a thread between two calls another thread  *)
(* can interleave with.  Abstractions:                                     *)
(*  - a pod is its incarnation (UID), its node and what podStatus and the  *)
(*    container statuses yield (Ready, CrashLoopBackOff);                  *)
(*  - a node is its taints and whether its csi.volume.kubernetes.io/nodeid *)
(*    annotation names the driver; the CSI node ID names the node itself;  *)
(*  - what ValidateVolumeHostConnectivity answers is arbitrary; the CSI    *)
(*    client is connected, as NewCSIClient returns only when it is;        *)
(*  - ArrayConnectivityMonitor's verdict on a node is arbitrary here (its  *)
(*    counting is module ArrayConnectivity);                               *)
(*  - events (CreateEvent) and logging are left out, and the context       *)
(*    deadlines are API calls that fail.                                   *)
(***************************************************************************)
EXTENDS Naturals, Sequences, FiniteSets, SequencesExt

CONSTANTS
    PodKeys,        \* namespace/name of the labelled pods
    Nodes,
    NoNode,         \* Spec.NodeName of a pod that is not bound yet
    Volumes,        \* persistent volumes
    VolsOf,         \* [PodKeys -> SUBSET Volumes]: the bound claims of a pod
    CSIVols,        \* the volumes with a CSI source, hence a volume handle
    RWXVols,        \* the volumes with access mode ReadWriteMany
    Workers,        \* goroutines running controllerCleanupPod (bound)
    ArrayMonitor,   \* the thread of ArrayConnectivityMonitor
    FailingNodes,   \* bound: the nodes whose taints and annotation change
    EnvTaints,      \* taints set and removed by others than this module
    MaxUID,         \* bound: pod incarnations ever created
    MaxQueue,       \* bound: undelivered watch events
    MaxDisruptions, \* bound: losses of the watch and restarts of podmon
    APIFaults,      \* TRUE iff Kubernetes and CSI calls may fail
    MaxCrashLoopBackOffRetry,
    CSIExtensionsPresent,
    SkipArrayConnectionValidation,
    IgnoreVolumelessPods

Taints == {"nosched", "noexec", "podmon", "driver"}
Threads == Workers \cup {ArrayMonitor}

ASSUME ConstantsAssumption ==
    /\ IsFiniteSet(PodKeys)
    /\ NoNode \notin Nodes
    /\ VolsOf \in [PodKeys -> SUBSET Volumes]
    /\ CSIVols \subseteq Volumes /\ RWXVols \subseteq Volumes
    /\ ArrayMonitor \notin Workers
    /\ FailingNodes \subseteq Nodes /\ EnvTaints \subseteq Taints
    /\ {MaxUID, MaxQueue, MaxDisruptions, MaxCrashLoopBackOffRetry} \subseteq Nat
    /\ {APIFaults, CSIExtensionsPresent, SkipArrayConnectionValidation,
        IgnoreVolumelessPods} \subseteq BOOLEAN

VARIABLES
    \* The API server and the array.
    pods,       \* pod key -> pod object (NoPod: none)
    lastUID,    \* the last UID given to a pod
    taints,     \* node -> its taints
    annotated,  \* the nodes with a CSI node ID annotation for the driver
    published,  \* <<v, n>>: volume v is exported to node n by the array
    vas,        \* <<v, n>>: there is a VolumeAttachment of v to n
    reattached, \* history: published while a cleanup past its fencing covers it
    \* The pod watch.
    watching, queue, disruptions,
    \* podmon.
    h,          \* the watch thread, running controllerModePodHandler
    locks,      \* PodKeyMap: the locked pod keys
    info,       \* PodKeyToControllerPodInfo (NoInfo: no entry)
    crashCount, \* PodKeyToCrashLoopBackOffCount (0: no entry)
    job,        \* thread -> its run of controllerCleanupPod
    pass        \* ArrayConnectivityMonitor: what this pass found disconnected

cluster == <<pods, lastUID, taints, annotated>>
storage == <<published, vas, reattached>>
watch == <<watching, queue, disruptions>>
podmon == <<h, locks, info, crashCount, job, pass>>
vars == <<cluster, storage, watch, podmon>>

-----------------------------------------------------------------------------
(* Data. *)

NoPod == [uid |-> 0, node |-> NoNode, ready |-> FALSE, crash |-> FALSE]
Pod == [uid : 0..MaxUID, node : Nodes \cup {NoNode}, ready : BOOLEAN,
        crash : BOOLEAN]

\* ControllerPodInfo: the pod's UID and a copy of its node (name, annotation).
NoInfo == [uid |-> 0, node |-> NoNode, csi |-> FALSE]
Info == [uid : 0..MaxUID, node : Nodes \cup {NoNode}, csi : BOOLEAN]

Event == [type : {"Added", "Modified", "Deleted"}, key : PodKeys]

\* The watch thread: the event at hand and the pod GetPod returned.
Idle == [pc |-> "idle"]
Handler == [pc : {"idle"}]
           \cup [pc : {"lock", "getpod"}, ev : Event]
           \cup [pc : {"getnode", "crash"}, ev : Event, pod : Pod]

\* A run of controllerCleanupPod: its arguments and the attachments it found.
PastFence == {"taint", "vas", "delete"}
Busy == {"pvs", "validate", "fence", "forget"} \cup PastFence
NoJob == [pc |-> "idle"]
Job == [pc : {"idle"}]
       \cup [pc : {"wait"} \cup Busy, key : PodKeys, uid : 0..MaxUID,
             node : Nodes \cup {NoNode}, csi : BOOLEAN, noexec : BOOLEAN,
             podmon : BOOLEAN, vas : SUBSET Volumes]

\* nodesToTaint and podKeysToClean of a pass.
NoPass == [nodes |-> {}, keys |-> {}]
Pass == [nodes : SUBSET (Nodes \cup {NoNode}), keys : SUBSET PodKeys]

\* GetPersistentVolumesInPod, the volume handles among them, isRWXVolume.
PersistentVolumesInPod(k) == VolsOf[k]
VolIDs(k) == PersistentVolumesInPod(k) \cap CSIVols
IsRWXVolume(k) == PersistentVolumesInPod(k) \cap RWXVols # {}

\* GetCachedVolumeAttachment of every volume of pod key k, on node n.
VolumeAttachments(k, n) == {v \in PersistentVolumesInPod(k) : <<v, n>> \in vas}

\* getCSINodeIDAnnotation is not empty; nodeHasTaint; a taint is added.
HasCSINodeID(n) == n \in annotated
NodeHasTaint(n, keys) == taints[n] \cap keys # {}
TaintNode(n) == taints' = [taints EXCEPT ![n] = @ \cup {"podmon"}]

\* Mutant of SameUID: any pod of that name will do.
AnyUID(k, uid) == pods[k].uid # 0

\* The precondition of DeletePod.
SameUID(k, uid) == pods[k].uid = uid

\* The pairs a cleanup of pod key k on node n has to fence.
Exports(k, n) == VolIDs(k) \X {n}

\* The threads that are inside Lock(k) ... Unlock(k).
HandlerHolds(k) == h.pc \in {"getpod", "getnode", "crash"} /\ h.ev.key = k
JobHolds(t, k) == job[t].pc \in Busy /\ job[t].key = k

-----------------------------------------------------------------------------
(* The cluster around podmon. *)

\* Bound: nobody changes a pod while MaxQueue events wait.
Room == Len(queue) < MaxQueue

\* A change of pod k reaches the watch only while it is up.
Emit(type, k) ==
    /\ queue' = IF watching THEN Append(queue, [type |-> type, key |-> k])
                            ELSE queue
    /\ UNCHANGED <<watching, disruptions>>

Create(k) ==
    /\ Room /\ pods[k] = NoPod /\ lastUID < MaxUID
    /\ lastUID' = lastUID + 1
    /\ pods' = [pods EXCEPT ![k] = [uid |-> lastUID + 1, node |-> NoNode,
                                    ready |-> FALSE, crash |-> FALSE]]
    /\ Emit("Added", k)
    /\ UNCHANGED <<taints, annotated, storage, podmon>>

\* The scheduler: NoSchedule and NoExecute taints keep pods away.
Bind(k, n) ==
    /\ Room /\ pods[k].uid # 0 /\ pods[k].node = NoNode /\ taints[n] = {}
    /\ pods' = [pods EXCEPT ![k].node = n]
    /\ Emit("Modified", k)
    /\ UNCHANGED <<lastUID, taints, annotated, storage, podmon>>

Uses(k, v, n) == pods[k].node = n /\ v \in VolsOf[k]

\* The attach/detach controller and the CSI attacher.
Attach(v, n) ==
    /\ \E k \in PodKeys : Uses(k, v, n)
    /\ <<v, n>> \notin vas
    /\ v \in RWXVols \/ \A m \in Nodes : <<v, m>> \notin vas
    /\ vas' = vas \cup {<<v, n>>}
    /\ published' = published \cup {<<v, n>>}
    /\ reattached' =
          IF \E t \in Threads : /\ job[t].pc \in PastFence
                                /\ <<v, n>> \in Exports(job[t].key, job[t].node)
          THEN reattached \cup {<<v, n>>} ELSE reattached
    /\ UNCHANGED <<cluster, watch, podmon>>

\* Also finishes the detach of a VolumeAttachment somebody deleted.
Detach(v, n) ==
    /\ <<v, n>> \in published \cup vas
    /\ <<v, n>> \notin vas \/ ~\E k \in PodKeys : Uses(k, v, n)
    /\ vas' = vas \ {<<v, n>>}
    /\ published' = published \ {<<v, n>>}
    /\ reattached' = reattached \ {<<v, n>>}
    /\ UNCHANGED <<cluster, watch, podmon>>

\* Kubelet and node controller report a bound pod Ready, not Ready or crashing.
SetStatus(k, ready, crash) ==
    /\ Room /\ pods[k].node # NoNode
    /\ <<pods[k].ready, pods[k].crash>> # <<ready, crash>>
    /\ ready => ~crash /\ \A v \in VolsOf[k] : <<v, pods[k].node>> \in published
    /\ pods' = [pods EXCEPT ![k].ready = ready, ![k].crash = crash]
    /\ Emit("Modified", k)
    /\ UNCHANGED <<lastUID, taints, annotated, storage, podmon>>

\* The pod object goes away: evicted, deleted by a user, or the end of a
\* graceful delete.
GoAway(k) ==
    /\ Room /\ pods[k] # NoPod
    /\ pods' = [pods EXCEPT ![k] = NoPod]
    /\ Emit("Deleted", k)
    /\ UNCHANGED <<lastUID, taints, annotated, storage, podmon>>

\* The node lifecycle controller, the driver-pod handler, the node podmon.
SetTaint(n, t) ==
    /\ n \in FailingNodes /\ t \in EnvTaints
    /\ taints' = [taints EXCEPT ![n] = (@ \cup {t}) \ (@ \cap {t})]
    /\ UNCHANGED <<pods, lastUID, annotated, storage, watch, podmon>>

\* Kubelet adds and removes the annotation as the driver registers with it.
SetAnnotation(n) ==
    /\ n \in FailingNodes
    /\ annotated' = (annotated \cup {n}) \ (annotated \cap {n})
    /\ UNCHANGED <<pods, lastUID, taints, storage, watch, podmon>>

-----------------------------------------------------------------------------
(* The watch: Watch and StartPodMonitor. *)

\* The watch channel closes; what was not delivered is lost.
Disconnect ==
    /\ watching /\ h = Idle /\ disruptions < MaxDisruptions
    /\ watching' = FALSE /\ queue' = << >> /\ disruptions' = disruptions + 1
    /\ UNCHANGED <<cluster, storage, podmon>>

\* SetupPodWatch after restartDelay: every existing pod is sent as Added.
Reconnect ==
    /\ ~watching
    /\ watching' = TRUE
    /\ queue' \in SetToSeqs({[type |-> "Added", key |-> k] :
                             k \in {x \in PodKeys : pods[x] # NoPod}})
    /\ UNCHANGED <<cluster, storage, disruptions, podmon>>

\* podmon dies (or loses the leader election) and a new one starts.
Restart ==
    /\ disruptions < MaxDisruptions
    /\ watching' = FALSE /\ queue' = << >> /\ disruptions' = disruptions + 1
    /\ h' = Idle /\ locks' = {}
    /\ info' = [k \in PodKeys |-> NoInfo]
    /\ crashCount' = [k \in PodKeys |-> 0]
    /\ job' = [t \in Threads |-> NoJob]
    /\ pass' = NoPass
    /\ UNCHANGED <<cluster, storage>>

-----------------------------------------------------------------------------
(* controllerModePodHandler. *)

\* Mutant of TakeEvent: a Deleted event resets the counter only.
TakeEventKeepsInfo ==
    /\ h = Idle /\ queue # << >>
    /\ Head(queue).type = "Deleted" \/ \E w \in Workers : job[w] = NoJob
    /\ queue' = Tail(queue)
    /\ LET ev == Head(queue) IN
       IF ev.type = "Deleted"
       THEN crashCount' = [crashCount EXCEPT ![ev.key] = 0] /\ UNCHANGED h
       ELSE h' = [pc |-> "lock", ev |-> ev] /\ UNCHANGED crashCount
    /\ UNCHANGED <<cluster, storage, watching, disruptions, info, locks, job, pass>>

\* A Deleted event forgets the pod, without taking the lock.  (Bound: any
\* other event is taken only while a worker is left for the goroutine it may
\* need.)
TakeEvent ==
    /\ h = Idle /\ queue # << >>
    /\ Head(queue).type = "Deleted" \/ \E w \in Workers : job[w] = NoJob
    /\ queue' = Tail(queue)
    /\ LET ev == Head(queue) IN
       IF ev.type = "Deleted"
       THEN /\ info' = [info EXCEPT ![ev.key] = NoInfo]
            /\ crashCount' = [crashCount EXCEPT ![ev.key] = 0]
            /\ UNCHANGED h
       ELSE /\ h' = [pc |-> "lock", ev |-> ev]
            /\ UNCHANGED <<info, crashCount>>
    /\ UNCHANGED <<cluster, storage, watching, disruptions, locks, job, pass>>

HandlerLock ==
    /\ h.pc = "lock" /\ h.ev.key \notin locks
    /\ locks' = locks \cup {h.ev.key}
    /\ h' = [pc |-> "getpod", ev |-> h.ev]
    /\ UNCHANGED <<cluster, storage, watch, info, crashCount, job, pass>>

HandlerReturn ==
    /\ h' = Idle
    /\ locks' = locks \ {h.ev.key}

\* GetPod failed or found no pod, or the pod has no node yet.
HandlerGetPod ==
    /\ h.pc = "getpod"
    /\ LET pod == pods[h.ev.key] IN
       \/ /\ pod.node # NoNode
          /\ h' = [pc |-> "getnode", ev |-> h.ev, pod |-> pod]
          /\ UNCHANGED locks
       \/ /\ pod.node = NoNode \/ APIFaults
          /\ HandlerReturn
    /\ UNCHANGED <<cluster, storage, watch, info, crashCount, job, pass>>

\* podToArrayIDs counts the volumes it can look up; an error counts none.
SeenVolumeless(k) ==
    IF PersistentVolumesInPod(k) = {} THEN {TRUE} ELSE {FALSE} \cup {APIFaults}

\* Mutant of Tracked: only Modified events record the pod.
TrackedIfModified(ev, pod) ==
    IF ev.type = "Modified"
    THEN [info EXCEPT ![ev.key] = [uid |-> pod.uid, node |-> pod.node,
                                   csi |-> HasCSINodeID(pod.node)]]
    ELSE info

\* The podInfo table after the handler has seen pod on a node.
Tracked(ev, pod) ==
    IF pod.ready \/ ev.type = "Modified"
    THEN [info EXCEPT ![ev.key] = [uid |-> pod.uid, node |-> pod.node,
                                   csi |-> HasCSINodeID(pod.node)]]
    ELSE info

\* go controllerCleanupPod: on the node of the last podInfo if it has a CSI
\* node ID annotation, else on the node just read.
SpawnCleanup(k, pod, last) ==
    \E w \in Workers :
       /\ job[w] = NoJob
       /\ LET use == last.uid # 0 /\ last.csi IN
          job' = [job EXCEPT ![w] =
             [pc |-> "wait", key |-> k, uid |-> pod.uid,
              node |-> IF use THEN last.node ELSE pod.node,
              csi |-> use \/ HasCSINodeID(pod.node),
              noexec |-> NodeHasTaint(pod.node, {"noexec"}),
              podmon |-> NodeHasTaint(pod.node, {"podmon", "driver"}),
              vas |-> {}]]

\* The pod is not Ready on a tainted node.
Failed(pod) == NodeHasTaint(pod.node, Taints) /\ ~pod.ready

\* Mutant of CrashRetry: one retry too many.
CrashRetryOnceMore(k, pod) ==
    ~pod.ready /\ pod.crash /\ crashCount[k] <= MaxCrashLoopBackOffRetry

\* The pod crashes and its retries are not used up.
CrashRetry(k, pod) ==
    ~pod.ready /\ pod.crash /\ crashCount[k] < MaxCrashLoopBackOffRetry

HandlerGetNode ==
    /\ h.pc = "getnode"
    /\ LET k == h.ev.key
           pod == h.pod
           track == pod.ready \/ h.ev.type = "Modified" IN
       \/ \* GetNode failed, or a volumeless pod is ignored
          /\ \/ APIFaults
             \/ track /\ IgnoreVolumelessPods /\ TRUE \in SeenVolumeless(k)
          /\ HandlerReturn
          /\ UNCHANGED <<info, crashCount, job>>
       \/ /\ ~track \/ ~IgnoreVolumelessPods \/ FALSE \in SeenVolumeless(k)
          /\ info' = Tracked(h.ev, pod)
          /\ crashCount' = IF pod.ready THEN [crashCount EXCEPT ![k] = 0]
                                        ELSE crashCount
          /\ \/ /\ Failed(pod)
                /\ SpawnCleanup(k, pod, info'[k])
                /\ HandlerReturn
             \/ /\ ~Failed(pod) /\ CrashRetry(k, pod)
                /\ h' = [h EXCEPT !.pc = "crash"]
                /\ UNCHANGED <<locks, job>>
             \/ /\ ~Failed(pod) /\ ~CrashRetry(k, pod)
                /\ HandlerReturn
                /\ UNCHANGED job
    /\ UNCHANGED <<cluster, storage, watch, pass>>

\* DeletePod(force = false): the API server marks the pod and the graceful
\* delete ends in GoAway.  The result of the call is not looked at.
HandlerCrashDelete ==
    /\ h.pc = "crash"
    /\ crashCount' = [crashCount EXCEPT ![h.ev.key] = @ + 1]
    /\ HandlerReturn
    /\ \/ SameUID(h.ev.key, h.pod.uid) /\ Emit("Modified", h.ev.key)
       \/ (~SameUID(h.ev.key, h.pod.uid) \/ APIFaults) /\ UNCHANGED watch
    /\ UNCHANGED <<cluster, storage, info, job, pass>>

-----------------------------------------------------------------------------
(* controllerCleanupPod, run by thread t. *)

Goto(t, pc) == /\ job' = [job EXCEPT ![t].pc = pc]
               /\ UNCHANGED locks

\* Mutant of Return: an early return without Unlock.
ReturnLocked(t) == job' = [job EXCEPT ![t] = NoJob] /\ UNCHANGED locks

Return(t) == /\ job' = [job EXCEPT ![t] = NoJob]
             /\ locks' = locks \ {job[t].key}

\* Mutant of JobLock: the cleanup does not wait for the lock.
JobLockNoWait(t) ==
    /\ job[t].pc = "wait"
    /\ LET k == job[t].key IN
       IF info[k].uid \in {0, job[t].uid}
       THEN locks' = locks \cup {k} /\ job' = [job EXCEPT ![t].pc = "pvs"]
       ELSE job' = [job EXCEPT ![t] = NoJob] /\ UNCHANGED locks
    /\ UNCHANGED <<cluster, storage, watch, h, info, crashCount, pass>>

\* Lock, then abort if the podInfo table knows another incarnation.
JobLock(t) ==
    /\ job[t].pc = "wait"
    /\ LET k == job[t].key IN
       /\ k \notin locks
       /\ IF info[k].uid \in {0, job[t].uid}
          THEN /\ locks' = locks \cup {k}
               /\ job' = [job EXCEPT ![t].pc = "pvs"]
          ELSE /\ job' = [job EXCEPT ![t] = NoJob]
               /\ UNCHANGED locks
    /\ UNCHANGED <<cluster, storage, watch, h, info, crashCount, pass>>

\* The PVs of the pod and their VolumeAttachments to the node.
JobGetVolumes(t) ==
    /\ job[t].pc = "pvs"
    /\ LET ignored == IgnoreVolumelessPods
                      /\ PersistentVolumesInPod(job[t].key) = {} IN
       \/ (ignored \/ APIFaults) /\ Return(t)
       \/ /\ ~ignored
          /\ job' = [job EXCEPT ![t] =
                [@ EXCEPT !.pc = "validate",
                          !.vas = VolumeAttachments(job[t].key, job[t].node)]]
          /\ UNCHANGED locks
    /\ UNCHANGED <<cluster, storage, watch, h, info, crashCount, pass>>

\* May the cleanup go on, given what the array answered?
MayProceed(t, connected, ios, err) ==
    \/ ~CSIExtensionsPresent
    \/ SkipArrayConnectionValidation /\ job[t].noexec
    \/ /\ ~(connected /\ ~job[t].podmon)
       /\ ~(ios /\ ~IsRWXVolume(job[t].key))
       /\ ~err

\* callValidateVolumeHostConnectivity's (connected, iosInProgress, err): an
\* error of the call comes with both booleans set, a missing CSI node ID with
\* both unset.
Answers(t) ==
    IF ~job[t].csi
    THEN {<<FALSE, FALSE, TRUE>>}
    ELSE {a \in BOOLEAN \X BOOLEAN \X {FALSE, APIFaults} : a[3] => a[1] /\ a[2]}

JobValidate(t) ==
    /\ job[t].pc = "validate"
    /\ \E a \in Answers(t) :
          IF MayProceed(t, a[1], a[2], a[3]) THEN Goto(t, "fence") ELSE Return(t)
    /\ UNCHANGED <<cluster, storage, watch, h, info, crashCount, pass>>

\* Mutant of JobFence: errors are counted but do not abort the cleanup.
JobFenceGoesOn(t) ==
    /\ job[t].pc = "fence"
    /\ \E done \in SUBSET Exports(job[t].key, job[t].node) :
          /\ job[t].csi \/ done = {}
          /\ done = Exports(job[t].key, job[t].node) \/ APIFaults \/ ~job[t].csi
          /\ published' = published \ done
          /\ reattached' = reattached \ done
          /\ Goto(t, "taint")
    /\ UNCHANGED <<cluster, vas, watch, h, info, crashCount, pass>>

\* ControllerUnpublishVolume for every volume handle; any error aborts, the
\* volumes already fenced stay fenced.  Without a CSI node ID each call fails.
JobFence(t) ==
    /\ job[t].pc = "fence"
    /\ \E done \in SUBSET Exports(job[t].key, job[t].node) :
          LET all == done = Exports(job[t].key, job[t].node) IN
          /\ job[t].csi \/ done = {}
          /\ all \/ APIFaults \/ ~job[t].csi
          /\ published' = published \ done
          /\ reattached' = reattached \ done
          /\ IF all THEN Goto(t, "taint") ELSE Return(t)
    /\ UNCHANGED <<cluster, vas, watch, h, info, crashCount, pass>>

JobTaint(t) ==
    /\ job[t].pc = "taint"
    /\ \/ /\ TaintNode(job[t].node)
          /\ Goto(t, "vas")
       \/ /\ APIFaults
          /\ Return(t)
          /\ UNCHANGED taints
    /\ UNCHANGED <<pods, lastUID, annotated, storage, watch, h, info, crashCount, pass>>

\* DeleteVolumeAttachment for each one found, each with one retry; one that is
\* not found is fine, any other second failure aborts.
JobDeleteVAs(t) ==
    /\ job[t].pc = "vas"
    /\ \E done \in SUBSET job[t].vas :
          /\ done = job[t].vas \/ APIFaults
          /\ vas' = vas \ (done \X {job[t].node})
          /\ IF done = job[t].vas THEN Goto(t, "delete") ELSE Return(t)
    /\ UNCHANGED <<cluster, published, reattached, watch, h, info, crashCount, pass>>

\* DeletePod(force = true) with the UID as precondition.  A call that fails may
\* have deleted the pod all the same.
JobDeletePod(t) ==
    /\ job[t].pc = "delete"
    /\ LET k == job[t].key IN
       \/ /\ SameUID(k, job[t].uid)
          /\ pods' = [pods EXCEPT ![k] = NoPod]
          /\ Emit("Deleted", k)
          /\ Goto(t, "forget") \/ (APIFaults /\ Return(t))
       \/ /\ ~SameUID(k, job[t].uid) \/ APIFaults
          /\ Return(t)
          /\ UNCHANGED <<pods, watch>>
    /\ UNCHANGED <<lastUID, taints, annotated, storage, h, info, crashCount, pass>>

JobForget(t) ==
    /\ job[t].pc = "forget"
    /\ info' = [info EXCEPT ![job[t].key] = NoInfo]
    /\ Return(t)
    /\ UNCHANGED <<cluster, storage, watch, h, crashCount, pass>>

-----------------------------------------------------------------------------
(* ArrayConnectivityMonitor.  A pass looks at every podInfo, taints the nodes *)
(* of the pods it found disconnected and cleans those pods up, in its own     *)
(* thread.  Its verdicts are arbitrary here, and so is the order of cleanups. *)

MonitorScan ==
    /\ CSIExtensionsPresent /\ job[ArrayMonitor] = NoJob /\ pass = NoPass
    /\ \E keys \in SUBSET {k \in PodKeys : info[k].uid # 0} :
          pass' = [nodes |-> {info[k].node : k \in keys}, keys |-> keys]
    /\ UNCHANGED <<cluster, storage, watch, h, locks, info, crashCount, job>>

\* A node that cannot be tainted is logged.
MonitorTaint(n) ==
    /\ n \in pass.nodes
    /\ pass' = [pass EXCEPT !.nodes = @ \ {n}]
    /\ \/ TaintNode(n)
       \/ APIFaults /\ UNCHANGED taints
    /\ UNCHANGED <<pods, lastUID, annotated, storage, watch, h, locks, info,
                   crashCount, job>>

\* Mutant of SameAsInfo: any pod of that name will do.
SameNameAsInfo(k) == info[k].uid # 0 /\ pods[k].uid # 0

\* ProcessPodInfoForCleanup: the pod must still be the one recorded.  (The
\* podInfo is loaded and GetPod called in one step: a pod that passes existed,
\* on this node, all the time between the two.)
SameAsInfo(k) ==
    /\ info[k].uid # 0
    /\ pods[k].uid = info[k].uid /\ pods[k].node = info[k].node

MonitorCleanup(k) ==
    /\ pass.nodes = {} /\ k \in pass.keys /\ job[ArrayMonitor] = NoJob
    /\ pass' = [pass EXCEPT !.keys = @ \ {k}]
    /\ \/ /\ SameAsInfo(k)
          /\ job' = [job EXCEPT ![ArrayMonitor] =
                [pc |-> "wait", key |-> k, uid |-> pods[k].uid,
                 node |-> info[k].node, csi |-> info[k].csi, noexec |-> FALSE,
                 podmon |-> FALSE, vas |-> {}]]
       \/ (~SameAsInfo(k) \/ APIFaults) /\ UNCHANGED job
    /\ UNCHANGED <<cluster, storage, watch, h, locks, info, crashCount>>

-----------------------------------------------------------------------------
Init ==
    /\ pods = [k \in PodKeys |-> NoPod] /\ lastUID = 0
    /\ taints = [n \in Nodes |-> {}]
    /\ annotated = Nodes
    /\ published = {} /\ vas = {} /\ reattached = {}
    /\ watching = TRUE /\ queue = << >> /\ disruptions = 0
    /\ h = Idle /\ locks = {}
    /\ info = [k \in PodKeys |-> NoInfo]
    /\ crashCount = [k \in PodKeys |-> 0]
    /\ job = [t \in Threads |-> NoJob]
    /\ pass = NoPass

Environment ==
    \/ \E k \in PodKeys :
          \/ Create(k)
          \/ GoAway(k)
          \/ \E n \in Nodes : Bind(k, n)
          \/ \E ready, crash \in BOOLEAN : SetStatus(k, ready, crash)
    \/ \E n \in Nodes :
          \/ SetAnnotation(n)
          \/ \E t \in Taints : SetTaint(n, t)
          \/ \E v \in Volumes : Attach(v, n) \/ Detach(v, n)

HandlerStep ==
    HandlerLock \/ HandlerGetPod \/ HandlerGetNode \/ HandlerCrashDelete

\* A cleanup's steps once it holds the lock.
JobStep(t) ==
    \/ JobGetVolumes(t) \/ JobValidate(t) \/ JobFence(t) \/ JobTaint(t)
    \/ JobDeleteVAs(t) \/ JobDeletePod(t) \/ JobForget(t)

ArrayMonitorStep ==
    \/ MonitorScan
    \/ \E n \in Nodes : MonitorTaint(n)
    \/ \E k \in PodKeys : MonitorCleanup(k)

Next ==
    \/ Environment
    \/ Disconnect \/ Reconnect \/ Restart
    \/ TakeEvent \/ HandlerStep
    \/ \E t \in Threads : JobLock(t) \/ JobStep(t)
    \/ ArrayMonitorStep

Spec == Init /\ [][Next]_vars
\* Every API and CSI call returns, so a thread that holds a lock goes on.
\* Nothing is assumed of the polls for a lock another thread holds.
Fairness ==
    /\ WF_vars(HandlerGetPod \/ HandlerGetNode \/ HandlerCrashDelete)
    /\ \A t \in Threads : WF_vars(JobStep(t))

FairSpec == Spec /\ Fairness

-----------------------------------------------------------------------------
(* Properties. *)

\* Every variable has its type.
TypeOK ==
    /\ pods \in [PodKeys -> Pod] /\ lastUID \in 0..MaxUID
    /\ taints \in [Nodes -> SUBSET Taints]
    /\ annotated \subseteq Nodes
    /\ published \subseteq Volumes \X Nodes
    /\ vas \subseteq Volumes \X Nodes
    /\ reattached \subseteq published
    /\ watching \in BOOLEAN /\ queue \in Seq(Event)
    /\ disruptions \in 0..MaxDisruptions
    /\ h \in Handler /\ locks \subseteq PodKeys
    /\ info \in [PodKeys -> Info]
    /\ crashCount \in [PodKeys -> 0..MaxCrashLoopBackOffRetry]
    /\ job \in [Threads -> Job] /\ pass \in Pass

\* Lock and Unlock give each pod key one holder at a time: a key is in
\* PodKeyMap exactly while one thread (the watch thread, a cleanup goroutine,
\* the array monitor) is between its Lock and its Unlock, on every path out of
\* the handler and of controllerCleanupPod.
LockOwnership ==
    \A k \in PodKeys :
       /\ k \in locks <=> HandlerHolds(k) \/ \E t \in Threads : JobHolds(t, k)
       /\ HandlerHolds(k) => \A t \in Threads : ~JobHolds(t, k)
       /\ \A t, u \in Threads : JobHolds(t, k) /\ JobHolds(u, k) => t = u

\* When controllerCleanupPod is about to force-delete the pod, the array no
\* longer exports any of its CSI volumes to the node being cleaned, unless the
\* attach/detach controller attached it again after the fencing.
DeleteOnlyFenced ==
    \A t \in Threads :
       job[t].pc = "delete" =>
          published \cap Exports(job[t].key, job[t].node) \subseteq reattached

\* A cleanup that got past its UID check and whose pod still exists works on
\* the node that pod runs on: as long as no event was lost (no watch broke and
\* podmon was not restarted), the node copy taken from an older podInfo does not
\* make it fence one node and force-delete a pod running on another.
RightNode ==
    \A t \in Threads :
       job[t].pc \in Busy /\ pods[job[t].key].uid = job[t].uid =>
          job[t].node = pods[job[t].key].node

\* The same said of the pod: when it is about to be force-deleted and is still
\* the one to clean, the node it runs on is fenced.
FencedBeforeForceDelete ==
    \A t \in Threads :
       LET k == job[t].key IN
       job[t].pc = "delete" /\ pods[k].uid = job[t].uid =>
          published \cap Exports(k, pods[k].node) \subseteq reattached

\* The watch is up, every event is handled and no cleanup is under way.
Quiet ==
    /\ watching /\ queue = << >> /\ h = Idle
    /\ \A t \in Threads : job[t] = NoJob

\* When podmon has caught up with the API server and no call failed, every
\* Ready pod is recorded with its current UID and node, which is what makes
\* ArrayConnectivityMonitor protect it: neither the Deleted event of an earlier
\* incarnation nor the end of an earlier cleanup wipes the present record.
ReadyTracked ==
    Quiet /\ ~APIFaults => \A k \in PodKeys :
       pods[k].ready /\ ~(IgnoreVolumelessPods /\ VolsOf[k] = {}) =>
          info[k].uid = pods[k].uid /\ info[k].node = pods[k].node

\* When podmon has caught up and no watch event was ever lost, the podInfo
\* table holds no entry of a pod that is gone.
NoStaleInfo ==
    Quiet /\ disruptions = 0 => \A k \in PodKeys :
       info[k].uid \in {0, pods[k].uid}

\* The array exports a volume that is not ReadWriteMany to two nodes only if
\* the attach/detach controller attached it to one of them again after a
\* cleanup had fenced it: deleting the VolumeAttachments of a node that failed
\* never lets the pod's next incarnation write beside the old one.
SingleWriter ==
    \A v \in CSIVols \ RWXVols : \A a, b \in Nodes :
       {<<v, a>>, <<v, b>>} \subseteq published =>
          a = b \/ <<v, a>> \in reattached \/ <<v, b>> \in reattached

\* How far a cleanup has got, in the terms of Takeover.
Stage(pc) == CASE pc \in {"pvs", "validate", "fence"} -> "begun"
               [] pc = "taint" -> "fenced"
               [] pc \in {"vas", "delete"} -> "tainted"
               [] pc = "forget" -> "deleted"

Abstract(t) ==
    IF job[t].pc \in Busy
    THEN [stage |-> Stage(job[t].pc), key |-> job[t].key,
          node |-> job[t].node, uid |-> job[t].uid]
    ELSE [stage |-> "none"]

Promise == INSTANCE Takeover WITH
    VolumesOf <- VolIDs,
    Nodes <- Nodes \cup {NoNode},
    UIDs <- 0..MaxUID,
    uid <- [k \in PodKeys |-> pods[k].uid],
    exports <- published,
    tainted <- {n \in Nodes : "podmon" \in taints[n]},
    takeover <- [t \in Threads |-> Abstract(t)]

\* controllerCleanupPod takes pods over as Takeover says: one thread per pod
\* key, the exports of all its volumes ended before the taint, the taint before
\* the force delete, the force delete only of the pod it was started for, for
\* the cleanups of the handler and of the array monitor together.
ImplementsTakeover == Promise!Spec

\* A lock taken on a pod key is given back.
LockReleased == \A k \in PodKeys : k \in locks ~> k \notin locks
=============================================================================
