----------------------------- MODULE NodePodmon -----------------------------
(***************************************************************************)
(* The node podmon (internal/monitor/node.go) on one node: the pod watch   *)
(* thread, which records the mounts of the node's labelled pods            *)
(* (nodeModePodHandler), and the API monitor thread, which counts the loop *)
(* iterations that see the podmon taint and then cleans up the pods that   *)
(* are gone and removes the taint (apiMonitorLoop, nodeModeCleanupPods,    *)
(* nodeModeCleanupPod).  Around them: kubelet, which mounts, runs, stops   *)
(* and unmounts pods; the controller podmon, which taints the node and     *)
(* then force-deletes a pod; an API server the node loses for a while.     *)
(*                                                                         *)
(* Abstractions: a mount and a block device are the same thing, a volume   *)
(* mounted for a pod incarnation (UID); unpublish, unstage, unmount and    *)
(* the removal of the private target of one volume succeed or fail as one; *)
(* pods bound to other nodes never reach the handler.                      *)
(***************************************************************************)
EXTENDS Naturals, Sequences, FiniteSets, SequencesExt

CONSTANTS
    PodKeys,
    Volumes,         \* the volumes of every pod
    MaxUID,          \* bound: pod incarnations ever created
    MaxQueue,        \* bound: undelivered watch events
    MaxOutages,      \* bound: losses of the API server
    MaxTaints,       \* bound: times the controller podmon taints the node
    MaxFaults,       \* bound: calls to API server, CRI and file system that
                     \* fail, and restarts of podmon
    CSIFaults,       \* TRUE iff a clean up of a volume may fail
    ScanFaults,      \* TRUE iff the read of a single PV may fail in a scan
    ManualUntaint,   \* TRUE iff an operator may remove the taint
    TaintCountDelay,
    IgnoreVolumelessPods

ASSUME ConstantsAssumption ==
    /\ IsFiniteSet(PodKeys) /\ IsFiniteSet(Volumes)
    /\ {MaxUID, MaxQueue, MaxOutages, MaxTaints, MaxFaults} \subseteq Nat
    /\ TaintCountDelay \in Nat \ {0}
    /\ {CSIFaults, ScanFaults, ManualUntaint, IgnoreVolumelessPods} \subseteq BOOLEAN

VARIABLES
    pods,       \* API server: pod key -> pod object (NoPod: none)
    lastUID,    \* the last UID given to a pod
    taint,      \* the node carries the podmon taint
    taintings,  \* times the controller podmon has tainted it
    doomed,     \* <<k, uid>>: the controller podmon tainted the node for this
                \* pod and is about to force-delete it
    forced,     \* history: the UIDs it has force-deleted
    mounts,     \* <<uid, v>>: volume v is mounted for pod uid
    running,    \* the UIDs with running containers
    apiUp, outages, queue,
    faults,     \* calls that failed while the API server could be reached, restarts
    h,          \* the watch thread: nodeModePodHandler
    keymap,     \* PodKeyMap: pod key -> NodePodInfo (NoEntry: none)
    taintCount, APIConnected,
    m           \* the API monitor thread: a run of nodeModeCleanupPods

api == <<pods, lastUID, taint, taintings, doomed, forced>>
kubelet == <<mounts, running>>
link == <<apiUp, outages, queue>>
loop == <<taintCount, APIConnected, m>>
vars == <<api, kubelet, link, faults, h, keymap, loop>>

-----------------------------------------------------------------------------
UIDs == 1..MaxUID

\* st: bound (no HostIP, no container yet), active (phase Pending or Running
\* with this node's HostIP), done (Failed, Succeeded or Unknown).
NoPod == [uid |-> 0, here |-> FALSE, st |-> "none"]
Pod == {NoPod} \cup
       [uid : UIDs, here : BOOLEAN, st : {"bound", "active", "done"}]

\* NodePodInfo; cs: the copy of the pod has container statuses.
NoEntry == [uid |-> 0, mounts |-> {}, cs |-> FALSE]
Entry == [uid : 0..MaxUID, mounts : SUBSET Volumes, cs : BOOLEAN]

Event == [type : {"Modified", "Deleted"}, key : PodKeys, uid : UIDs, cs : BOOLEAN]

Idle == [pc |-> "idle"]
Handler == [pc : {"idle"}] \cup [pc : {"store"}, key : PodKeys, entry : Entry,
                                 existing : 0..Cardinality(Volumes)]

Monitor == [pc : {"idle"}] \cup
    [pc : {"scan", "recheck", "clean", "untaint"},
     containers : SUBSET UIDs,  \* getContainers: what CRI said at the start
     todo : SUBSET PodKeys,     \* keys Range has not visited
     key : PodKeys \cup {""},   \* the key being categorised
     entry : Entry,
     chosen : [PodKeys -> Entry], \* podKeys, podInfos
     blocked : BOOLEAN,         \* a pod was skipped or not cleaned up
     due : SUBSET (UIDs \X Volumes)] \* history: what the pass owes, see Due

MountsOf(uid) == {v \in Volumes : <<uid, v>> \in mounts}
\* A call fails, which costs one of the MaxFaults failures unless ok: then the
\* outcome needs none.
FailsUnless(ok) ==
    /\ ok \/ faults < MaxFaults
    /\ faults' = IF ok THEN faults ELSE faults + 1

Alive(uid) == \E k \in PodKeys : pods[k].uid = uid

-----------------------------------------------------------------------------
(* API server, scheduler, controller podmon. *)

Room == Len(queue) < MaxQueue

EventOf(type, k, pod) == [type |-> type, key |-> k, uid |-> pod.uid,
                          cs |-> pod.st # "bound"]

\* The watch delivers the pods of this node.
Emit(type, k, pod) ==
    queue' = IF apiUp /\ pod.here
             THEN Append(queue, EventOf(type, k, pod)) ELSE queue

\* A pod is scheduled here (not while tainted) or elsewhere.
Schedule(k, here) ==
    /\ Room /\ pods[k] = NoPod /\ lastUID < MaxUID
    /\ here => ~taint
    /\ lastUID' = lastUID + 1
    /\ LET pod == [uid |-> lastUID + 1, here |-> here, st |-> "bound"] IN
       /\ pods' = [pods EXCEPT ![k] = pod]
       /\ Emit("Modified", k, pod)
    /\ UNCHANGED <<taint, taintings, doomed, forced, kubelet, apiUp, outages, h,
                   keymap, loop, faults>>

\* The pod of this node ends: Failed, Succeeded, or Unknown to the API server.
Finish(k) ==
    /\ Room /\ pods[k].here /\ pods[k].st = "active"
    /\ pods' = [pods EXCEPT ![k].st = "done"]
    /\ Emit("Modified", k, pods'[k])
    /\ UNCHANGED <<lastUID, taint, taintings, doomed, forced, kubelet, apiUp,
                   outages, h, keymap, loop, faults>>

\* Somebody other than podmon deletes the pod object.
Delete(k) ==
    /\ Room /\ pods[k] # NoPod
    /\ pods' = [pods EXCEPT ![k] = NoPod]
    /\ Emit("Deleted", k, pods[k])
    /\ UNCHANGED <<lastUID, taint, taintings, doomed, forced, kubelet, apiUp,
                   outages, h, keymap, loop, faults>>

\* controllerCleanupPod: the taint first, the force delete some time later.
ControllerTaint(k) ==
    /\ pods[k].here /\ taintings < MaxTaints
    /\ taint' = TRUE /\ taintings' = taintings + 1
    /\ doomed' = doomed \cup {<<k, pods[k].uid>>}
    /\ UNCHANGED <<pods, lastUID, forced, kubelet, link, h, keymap, loop, faults>>

ControllerDelete(k, uid) ==
    /\ <<k, uid>> \in doomed
    /\ doomed' = doomed \ {<<k, uid>>}
    /\ IF pods[k].uid = uid
       THEN /\ pods' = [pods EXCEPT ![k] = NoPod]
            /\ forced' = forced \cup {uid}
            /\ Emit("Deleted", k, pods[k])
       ELSE UNCHANGED <<pods, forced, queue>>
    /\ UNCHANGED <<lastUID, taint, taintings, kubelet, apiUp, outages, h, keymap,
                   loop, faults>>

\* With the taint goes what a pass under way owes.
OperatorUntaint ==
    /\ ManualUntaint /\ taint /\ taint' = FALSE
    /\ m' = IF m.pc = "idle" THEN m ELSE [m EXCEPT !.due = {}]
    /\ UNCHANGED <<pods, lastUID, taintings, doomed, forced, kubelet, link, h,
                   keymap, taintCount, APIConnected, faults>>

\* A new watch sends every pod of this node.
Relists == SetToSeqs({EventOf("Modified", k, pods[k]) :
                      k \in {x \in PodKeys : pods[x].here}})

\* The node loses the API server, with the events that have not reached podmon;
\* those that have are still handled.  Later a new watch lists the node's pods.
LinkDown ==
    /\ apiUp /\ outages < MaxOutages
    /\ apiUp' = FALSE /\ outages' = outages + 1
    /\ \E n \in 0..Len(queue) : queue' = SubSeq(queue, 1, n)
    /\ UNCHANGED <<api, kubelet, h, keymap, loop, faults>>

LinkUp ==
    /\ ~apiUp /\ apiUp' = TRUE
    /\ \E list \in Relists : queue' = queue \o list
    /\ UNCHANGED <<api, kubelet, outages, h, keymap, loop, faults>>

\* The node podmon starts anew: what it recorded and counted is gone, the taint
\* and the mounts are not.
Restart ==
    /\ FailsUnless(FALSE)
    /\ queue' \in IF apiUp THEN Relists ELSE {<< >>}
    /\ h' = Idle /\ keymap' = [k \in PodKeys |-> NoEntry]
    /\ taintCount' = 0 /\ APIConnected' = TRUE /\ m' = Idle
    /\ UNCHANGED <<api, kubelet, apiUp, outages>>

-----------------------------------------------------------------------------
(* kubelet. *)

Mount(k, v) ==
    /\ apiUp /\ pods[k].here /\ pods[k].st # "done"
    /\ <<pods[k].uid, v>> \notin mounts
    /\ mounts' = mounts \cup {<<pods[k].uid, v>>}
    /\ UNCHANGED <<api, running, link, h, keymap, loop, faults>>

\* All mounted: the containers start and the status is reported.
Start(k) ==
    /\ apiUp /\ Room /\ pods[k].here /\ pods[k].st = "bound"
    /\ MountsOf(pods[k].uid) = Volumes
    /\ running' = running \cup {pods[k].uid}
    /\ pods' = [pods EXCEPT ![k].st = "active"]
    /\ Emit("Modified", k, pods'[k])
    /\ UNCHANGED <<lastUID, taint, taintings, doomed, forced, mounts, apiUp,
                   outages, h, keymap, loop, faults>>

\* The containers of a pod that ended or is gone are stopped.
Stop(uid) ==
    /\ uid \in running
    /\ ~\E k \in PodKeys : pods[k].uid = uid /\ pods[k].st = "active"
    /\ running' = running \ {uid}
    /\ UNCHANGED <<api, mounts, link, h, keymap, loop, faults>>

\* kubelet itself unmounts a pod that is gone.
Unmount(uid, v) ==
    /\ <<uid, v>> \in mounts /\ uid \notin running /\ ~Alive(uid)
    /\ mounts' = mounts \ {<<uid, v>>}
    /\ UNCHANGED <<api, running, link, h, keymap, loop, faults>>

-----------------------------------------------------------------------------
(* nodeModePodHandler. *)

\* Mutant of Scan: the pod's key is recorded where its UID belongs.
ScanKeyForUID(ev, found) == [uid |-> ev.key, mounts |-> found, cs |-> ev.cs]

\* The copy of the pod to record, with the volumes whose PV could be read.
Scan(ev, found) == [uid |-> ev.uid, mounts |-> found, cs |-> ev.cs]

\* The pod's directories are scanned, or one of them cannot be read.  Without
\* the API server no PV can be read.
HandlePod ==
    /\ h = Idle /\ queue # << >> /\ Head(queue).type = "Modified"
    /\ LET ev == Head(queue)
           readable == IF apiUp THEN MountsOf(ev.uid) ELSE {} IN
       \/ \E found \in SUBSET readable :
             /\ found = readable \/ ScanFaults
             /\ FailsUnless(found = readable)
             /\ h' = [pc |-> "store", key |-> ev.key, entry |-> Scan(ev, found),
                      existing |-> Cardinality(keymap[ev.key].mounts)]
       \/ FailsUnless(FALSE) /\ UNCHANGED h
    /\ queue' = Tail(queue)
    /\ UNCHANGED <<api, kubelet, apiUp, outages, keymap, loop>>

\* An entry with fewer mounts than the one found at the start is not stored.
StoreEntry ==
    /\ h.pc = "store"
    /\ keymap' = IF Cardinality(h.entry.mounts) >= h.existing
                 THEN [keymap EXCEPT ![h.key] = h.entry] ELSE keymap
    /\ h' = Idle
    /\ UNCHANGED <<api, kubelet, link, loop, faults>>

\* The entry of a deleted pod is dropped unless the node is tainted.
HandleDeleted ==
    /\ h = Idle /\ queue # << >> /\ Head(queue).type = "Deleted"
    /\ \/ /\ apiUp /\ ~taint
          /\ keymap' = [keymap EXCEPT ![Head(queue).key] = NoEntry]
          /\ UNCHANGED faults
       \/ /\ FailsUnless(taint)
          /\ UNCHANGED keymap
    /\ queue' = Tail(queue)
    /\ UNCHANGED <<api, kubelet, apiUp, outages, h, loop>>

-----------------------------------------------------------------------------
(* apiMonitorLoop and nodeModeCleanupPods. *)

\* GetNodeWithTimeout failed four times in a row.  (When a retry succeeds, or
\* the loss is known already, the iteration changes nothing.)
LoopError ==
    /\ m = Idle /\ APIConnected /\ FailsUnless(~apiUp)
    /\ APIConnected' = FALSE /\ taintCount' = 0
    /\ UNCHANGED <<api, kubelet, link, h, keymap, m>>

\* History: a newer incarnation of the recorded pod k has come to this node, so
\* that its record, kept by name, replaces or will replace that of the old one.
Superseded(k) ==
    LET newer(uid) == uid # keymap[k].uid IN
    \/ pods[k].here /\ newer(pods[k].uid)
    \/ \E i \in DOMAIN queue : /\ queue[i].type = "Modified" /\ queue[i].key = k
                               /\ newer(queue[i].uid)
    \/ h.pc = "store" /\ h.key = k /\ newer(h.entry.uid)

\* History: the recorded mounts a pass that begins now owes to the pods that were
\* force-deleted before it.
Due == UNION {{keymap[k].uid} \X keymap[k].mounts :
              k \in {x \in PodKeys : keymap[x].uid \in forced /\ ~Superseded(x)}}

\* The node was read: count an iteration that sees the taint (bound: the model
\* counts no further than TaintCountDelay); from the TaintCountDelay-th on clean up.
LoopIterate ==
    /\ m = Idle /\ apiUp
    /\ APIConnected' = TRUE
    /\ taintCount' = IF taint /\ taintCount < TaintCountDelay
                     THEN taintCount + 1 ELSE taintCount
    /\ IF taint /\ taintCount' >= TaintCountDelay
       THEN \E containers \in {running, {}} :
               /\ FailsUnless(containers = running)
               /\ m' = [pc |-> "scan", containers |-> containers,
                        todo |-> PodKeys,
                        key |-> "", entry |-> NoEntry,
                        chosen |-> [k \in PodKeys |-> NoEntry], blocked |-> FALSE,
                        due |-> Due]
       ELSE UNCHANGED <<m, faults>>
    /\ UNCHANGED <<api, kubelet, link, h, keymap>>

\* GetPod returned the pod: it should be running on this node.
ShouldRunHere(k) == apiUp /\ pods[k].here /\ pods[k].st = "active"

\* Range visits the entries as they are when it comes to them.  Categorise one
\* registered pod, up to the second GetPod.
ScanPod(k) ==
    /\ m.pc = "scan" /\ k \in m.todo
    /\ LET e == keymap[k]
           rest == [m EXCEPT !.todo = @ \ {k}]
           volumeless == IgnoreVolumelessPods /\ e.mounts = {}
           executing == e.cs /\ e.uid \in m.containers IN
       \/ /\ e = NoEntry \/ volumeless \/ ShouldRunHere(k)
          /\ m' = rest
          /\ UNCHANGED faults
       \/ /\ e # NoEntry /\ ~volumeless /\ FailsUnless(~ShouldRunHere(k))
          /\ m' = IF executing THEN [rest EXCEPT !.blocked = TRUE]
                  ELSE [rest EXCEPT !.pc = "recheck", !.key = k, !.entry = e]
    /\ UNCHANGED <<api, kubelet, link, h, keymap, taintCount, APIConnected>>

\* Mutants of RecheckPod: the second GetPod is not made; the UIDs are not compared.
RecheckNothing ==
    /\ m.pc = "recheck"
    /\ m' = [m EXCEPT !.pc = "scan", !.key = "", !.entry = NoEntry,
                      !.chosen[m.key] = m.entry]
    /\ UNCHANGED <<api, kubelet, link, h, keymap, taintCount, APIConnected, faults>>

RecheckNameOnly ==
    /\ m.pc = "recheck"
    /\ LET back == [m EXCEPT !.pc = "scan", !.key = "", !.entry = NoEntry] IN
       \/ /\ apiUp /\ pods[m.key] # NoPod /\ m' = [back EXCEPT !.blocked = TRUE]
          /\ UNCHANGED faults
       \/ /\ FailsUnless(~apiUp \/ pods[m.key] = NoPod)
          /\ m' = [back EXCEPT !.chosen[m.key] = m.entry]
    /\ UNCHANGED <<api, kubelet, link, h, keymap, taintCount, APIConnected>>

\* Skip the pod if the same incarnation still exists, else choose it.
RecheckPod ==
    /\ m.pc = "recheck"
    /\ LET back == [m EXCEPT !.pc = "scan", !.key = "", !.entry = NoEntry] IN
       \/ /\ apiUp /\ pods[m.key].uid = m.entry.uid
          /\ m' = [back EXCEPT !.blocked = TRUE]
          /\ UNCHANGED faults
       \/ /\ FailsUnless(~apiUp \/ pods[m.key].uid # m.entry.uid)
          /\ m' = [back EXCEPT !.chosen[m.key] = m.entry]
    /\ UNCHANGED <<api, kubelet, link, h, keymap, taintCount, APIConnected>>

ScanDone ==
    /\ m.pc = "scan" /\ m.todo = {}
    /\ m' = [m EXCEPT !.pc = "clean"]
    /\ UNCHANGED <<api, kubelet, link, h, keymap, taintCount, APIConnected, faults>>

\* Mutant of CleanPod: errors are not remembered.
CleanPodForgetsErrors(k) ==
    /\ m.pc = "clean" /\ m.chosen[k] # NoEntry
    /\ \E done \in SUBSET m.chosen[k].mounts :
          /\ done = m.chosen[k].mounts \/ CSIFaults
          /\ mounts' = mounts \ ({m.chosen[k].uid} \X done)
          /\ keymap' = [keymap EXCEPT ![k] = NoEntry]
          /\ m' = [m EXCEPT !.chosen[k] = NoEntry]
    /\ UNCHANGED <<api, running, link, h, taintCount, APIConnected, faults>>

\* nodeModeCleanupPod: unpublish and unmount what the entry lists.
CleanPod(k) ==
    /\ m.pc = "clean" /\ m.chosen[k] # NoEntry
    /\ \E done \in SUBSET m.chosen[k].mounts :
          LET all == done = m.chosen[k].mounts IN
          /\ all \/ CSIFaults
          /\ mounts' = mounts \ ({m.chosen[k].uid} \X done)
          /\ keymap' = IF all THEN [keymap EXCEPT ![k] = NoEntry] ELSE keymap
          /\ m' = [m EXCEPT !.chosen[k] = NoEntry, !.blocked = @ \/ ~all]
    /\ UNCHANGED <<api, running, link, h, taintCount, APIConnected, faults>>

\* Mutant of CleanDone: skipped pods do not keep the taint.
CleanDoneAlways ==
    /\ m.pc = "clean" /\ \A k \in PodKeys : m.chosen[k] = NoEntry
    /\ m' = [m EXCEPT !.pc = "untaint"]
    /\ UNCHANGED <<api, kubelet, link, h, keymap, taintCount, APIConnected, faults>>

CleanDone ==
    /\ m.pc = "clean" /\ \A k \in PodKeys : m.chosen[k] = NoEntry
    /\ m' = IF m.blocked THEN Idle ELSE [m EXCEPT !.pc = "untaint"]
    /\ UNCHANGED <<api, kubelet, link, h, keymap, taintCount, APIConnected, faults>>

Untaint ==
    /\ m.pc = "untaint"
    /\ \/ /\ apiUp
          /\ taint' = FALSE /\ taintCount' = 0
          /\ UNCHANGED faults
       \/ /\ FailsUnless(~apiUp)
          /\ UNCHANGED <<taint, taintCount>>
    /\ m' = Idle
    /\ UNCHANGED <<pods, lastUID, taintings, doomed, forced, kubelet, link, h,
                   keymap, APIConnected>>

-----------------------------------------------------------------------------
Init ==
    /\ pods = [k \in PodKeys |-> NoPod] /\ lastUID = 0
    /\ taint = FALSE /\ taintings = 0 /\ doomed = {} /\ forced = {}
    /\ mounts = {} /\ running = {}
    /\ apiUp = TRUE /\ outages = 0 /\ queue = << >> /\ faults = 0
    /\ h = Idle /\ keymap = [k \in PodKeys |-> NoEntry]
    /\ taintCount = 0 /\ APIConnected = TRUE /\ m = Idle

Cluster ==
    \/ \E k \in PodKeys :
          \/ \E here \in BOOLEAN : Schedule(k, here)
          \/ Finish(k) \/ Delete(k) \/ ControllerTaint(k)
          \/ \E uid \in UIDs : ControllerDelete(k, uid)
    \/ OperatorUntaint \/ LinkDown \/ LinkUp \/ Restart

Kubelet ==
    \/ \E k \in PodKeys : Start(k) \/ \E v \in Volumes : Mount(k, v)
    \/ \E uid \in UIDs : Stop(uid) \/ \E v \in Volumes : Unmount(uid, v)

HandlerStep == HandlePod \/ StoreEntry \/ HandleDeleted

MonitorStep ==
    \/ LoopError \/ LoopIterate
    \/ \E k \in PodKeys : ScanPod(k) \/ CleanPod(k)
    \/ RecheckPod \/ ScanDone \/ CleanDone \/ Untaint

Next == Cluster \/ Kubelet \/ HandlerStep \/ MonitorStep

Spec == Init /\ [][Next]_vars

\* Threads keep running, calls return, kubelet starts the pods it can start and
\* stops those it must, the controller podmon finishes what it began.
Fairness ==
    /\ WF_vars(HandlerStep) /\ WF_vars(MonitorStep) /\ WF_vars(LinkUp)
    /\ \A uid \in UIDs : WF_vars(Stop(uid))
    /\ \A k \in PodKeys :
          /\ WF_vars(Start(k)) /\ \A v \in Volumes : WF_vars(Mount(k, v))
          /\ \A uid \in UIDs : WF_vars(ControllerDelete(k, uid))

FairSpec == Spec /\ Fairness

-----------------------------------------------------------------------------
(* Properties. *)

\* Every variable has its type.
TypeOK ==
    /\ pods \in [PodKeys -> Pod] /\ lastUID \in 0..MaxUID
    /\ taint \in BOOLEAN /\ taintings \in 0..MaxTaints
    /\ doomed \subseteq PodKeys \X UIDs /\ forced \subseteq UIDs
    /\ mounts \subseteq UIDs \X Volumes /\ running \subseteq UIDs
    /\ apiUp \in BOOLEAN /\ outages \in 0..MaxOutages /\ queue \in Seq(Event)
    /\ faults \in 0..MaxFaults
    /\ h \in Handler /\ keymap \in [PodKeys -> Entry]
    /\ taintCount \in Nat /\ APIConnected \in BOOLEAN
    /\ m \in Monitor

\* nodeModeCleanupPods never unpublishes the volumes of a pod incarnation that
\* still exists, whatever the watch thread, kubelet and the controller podmon
\* do between its two looks at the pod and the clean up.
NeverCleanLive ==
    m # Idle => \A k \in PodKeys :
       m.chosen[k] # NoEntry => ~Alive(m.chosen[k].uid)

\* When nodeModeCleanupPods removes the taint, nothing is left mounted of what
\* was recorded for the pods the controller podmon had force-deleted when the
\* pass began, unless a newer incarnation of the same name has come to the node
\* or somebody else removed the taint during the pass.
TaintRemovalClean == m.pc = "untaint" => m.due \cap mounts = {}

\* The taint of a node is eventually removed, unless a pod that ended is still
\* registered on it.  It is so for a driver whose clean up of a volume succeeds
\* (~CSIFaults): the taint stays as long as one does not.
TaintRemoved ==
    taint ~> ~taint \/ \E k \in PodKeys : pods[k].here /\ pods[k].st = "done"
=============================================================================
