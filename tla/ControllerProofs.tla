-------------------------- MODULE ControllerProofs ---------------------------
(***************************************************************************)
(* Proofs about Controller, for every value of its constants: the types,   *)
(* the mutual exclusion of the pod-key locks, that a cleanup reaches its   *)
(* force delete only with the node fenced, and that what podmon knows of   *)
(* the pods is right: the node it cleans, the entries it keeps, the Ready  *)
(* pods it has recorded.                                                   *)
(***************************************************************************)
EXTENDS Controller, FiniteSetTheorems, TLAPS

\* What makes the bound of crashCount inductive: between the look at the counter
\* and its increment nobody else counts.
CrashRoom == h.pc = "crash" => crashCount[h.ev.key] < MaxCrashLoopBackOffRetry

\* What makes DeleteOnlyFenced inductive: it holds from the fencing on.
Fenced ==
    \A t \in Threads :
       job[t].pc \in PastFence =>
          published \cap Exports(job[t].key, job[t].node) \subseteq reattached

-----------------------------------------------------------------------------
(* The bounds are numbers. *)
LEMMA Bounds ==
    /\ MaxUID \in Nat /\ MaxQueue \in Nat
    /\ MaxDisruptions \in Nat /\ MaxCrashLoopBackOffRetry \in Nat
BY ConstantsAssumption

(* The list of pods a new watch sends is a sequence of events. *)
LEMMA ListIsSequence ==
    ASSUME NEW S, S \subseteq PodKeys,
           NEW q \in SetToSeqs({[type |-> "Added", key |-> k] : k \in S})
    PROVE  q \in Seq(Event)
<1> DEFINE E == {[type |-> "Added", key |-> k] : k \in S}
<1>1. IsFiniteSet(S)
  BY ConstantsAssumption, FS_Subset
<1>2. IsFiniteSet(E)
  <2> DEFINE f == [k \in S |-> [type |-> "Added", key |-> k]]
  <2>1. f \in Surjection(S, E)
    BY DEF Surjection
  <2> QED
    BY <1>1, <2>1, FS_Surjection
<1>3. Cardinality(E) \in Nat
  BY <1>2, FS_CardinalityType
<1>4. q \in [1..Cardinality(E) -> E]
  BY DEF SetToSeqs
<1>5. E \subseteq Event
  BY DEF Event
<1> HIDE DEF E
<1> QED
  BY <1>3, <1>4, <1>5

(* What Goto and Return do to the table of cleanups. *)
LEMMA GotoKeepsTheRest ==
    ASSUME job \in [Threads -> Job], NEW t \in Threads, job[t].pc \in Busy,
           NEW pc \in Busy, Goto(t, pc)
    PROVE  /\ job' \in [Threads -> Job]
           /\ job'[t].pc = pc /\ job'[t].key = job[t].key
           /\ job'[t].node = job[t].node
           /\ job'[t].uid = job[t].uid /\ job'[t].vas = job[t].vas
           /\ \A u \in Threads \ {t} : job'[u] = job[u]
           /\ locks' = locks
BY DEF Goto, Job, Busy, PastFence

\* A cleanup that returns frees its thread and gives back its key, and no other.
LEMMA ReturnFreesTheThread ==
    ASSUME job \in [Threads -> Job], NEW t \in Threads, job[t].pc \in Busy,
           Return(t)
    PROVE  /\ job' \in [Threads -> Job]
           /\ job'[t].pc = "idle"
           /\ \A u \in Threads \ {t} : job'[u] = job[u]
           /\ locks' = locks \ {job[t].key}
           /\ job[t].key \in PodKeys
BY DEF Return, Job, NoJob, Busy, PastFence

-----------------------------------------------------------------------------
(* Types. *)

\* The inductive invariant of the types.
TypeInv == TypeOK /\ CrashRoom

\* podmon starts with every variable of its type and no delete of a crashing pod under way.
LEMMA InitTypeInv == Init => TypeInv
BY ConstantsAssumption
   DEF Init, TypeInv, TypeOK, CrashRoom, NoPod, Pod, NoInfo, Info, Idle, Handler,
       NoJob, Job, NoPass, Pass

\* A change of pod k by the cluster, and the event it sends.
LEMMA EmitKeepsType ==
    ASSUME queue \in Seq(Event), watching \in BOOLEAN,
           NEW type \in {"Added", "Modified", "Deleted"}, NEW k \in PodKeys,
           Emit(type, k)
    PROVE  queue' \in Seq(Event) /\ watching' = watching /\ disruptions' = disruptions
<1> DEFINE e == [type |-> type, key |-> k]
<1>1. queue' = Append(queue, e) \/ queue' = queue
  BY Zenon DEF Emit
<1>2. e \in Event
  BY DEF Event
<1>3. queue' \in Seq(Event)
  <2> HIDE DEF e
  <2> QED
    BY <1>1, <1>2
<1> QED
  BY <1>3 DEF Emit

\* What Kubernetes, kubelet and the array do keeps the types.
LEMMA EnvironmentKeepsType == TypeInv /\ Environment => TypeInv'
<1> SUFFICES ASSUME TypeInv, Environment PROVE TypeInv'
  OBVIOUS
<1> USE DEF TypeInv, TypeOK, CrashRoom
<1>1. ASSUME NEW k \in PodKeys, Create(k) PROVE TypeInv'
  <2>1. queue' \in Seq(Event) /\ watching' = watching /\ disruptions' = disruptions
    BY <1>1, EmitKeepsType DEF Create
  <2>2. lastUID' \in 0..MaxUID
    BY <1>1, Bounds DEF Create
  <2>3. pods' \in [PodKeys -> Pod]
    BY <1>1, Bounds DEF Create, Pod
  <2> QED
    BY <1>1, <2>1, <2>2, <2>3 DEF Create, storage, podmon
<1>2. ASSUME NEW k \in PodKeys, GoAway(k) PROVE TypeInv'
  <2>1. queue' \in Seq(Event) /\ watching' = watching /\ disruptions' = disruptions
    BY <1>2, EmitKeepsType DEF GoAway
  <2>2. pods' \in [PodKeys -> Pod]
    BY <1>2, Bounds DEF GoAway, NoPod, Pod
  <2> QED
    BY <1>2, <2>1, <2>2 DEF GoAway, storage, podmon
<1>3. ASSUME NEW k \in PodKeys, NEW n \in Nodes, Bind(k, n) PROVE TypeInv'
  <2>1. queue' \in Seq(Event) /\ watching' = watching /\ disruptions' = disruptions
    BY <1>3, EmitKeepsType DEF Bind
  <2>2. pods' \in [PodKeys -> Pod]
    BY <1>3 DEF Bind, Pod
  <2> QED
    BY <1>3, <2>1, <2>2 DEF Bind, storage, podmon
<1>4. ASSUME NEW k \in PodKeys, NEW ready \in BOOLEAN, NEW crash \in BOOLEAN,
             SetStatus(k, ready, crash)
      PROVE  TypeInv'
  <2>1. queue' \in Seq(Event) /\ watching' = watching /\ disruptions' = disruptions
    BY <1>4, EmitKeepsType DEF SetStatus
  <2>2. pods' \in [PodKeys -> Pod]
    BY <1>4 DEF SetStatus, Pod
  <2> QED
    BY <1>4, <2>1, <2>2 DEF SetStatus, storage, podmon
<1>5. ASSUME NEW n \in Nodes, SetAnnotation(n) PROVE TypeInv'
  BY <1>5 DEF SetAnnotation, storage, watch, podmon
<1>6. ASSUME NEW n \in Nodes, NEW t \in Taints, SetTaint(n, t) PROVE TypeInv'
  BY <1>6 DEF SetTaint, storage, watch, podmon
<1>7. ASSUME NEW n \in Nodes, NEW v \in Volumes, Attach(v, n) PROVE TypeInv'
  BY <1>7 DEF Attach, cluster, watch, podmon
<1>8. ASSUME NEW n \in Nodes, NEW v \in Volumes, Detach(v, n) PROVE TypeInv'
  BY <1>8 DEF Detach, cluster, watch, podmon
<1> QED
  BY <1>1, <1>2, <1>3, <1>4, <1>5, <1>6, <1>7, <1>8 DEF Environment

\* Losing the watch, setting it up again and a restart keep the types.
LEMMA WatchKeepsType == TypeInv /\ (Disconnect \/ Reconnect \/ Restart) => TypeInv'
<1> SUFFICES ASSUME TypeInv, Disconnect \/ Reconnect \/ Restart PROVE TypeInv'
  OBVIOUS
<1> USE DEF TypeInv, TypeOK, CrashRoom
<1>1. CASE Disconnect
  <2>1. disruptions' \in 0..MaxDisruptions /\ queue' \in Seq(Event)
    BY <1>1, Bounds DEF Disconnect
  <2>2. watching' \in BOOLEAN
    BY <1>1 DEF Disconnect
  <2> QED
    BY <1>1, <2>1, <2>2 DEF Disconnect, cluster, storage, podmon
<1>2. CASE Reconnect
  <2>1. queue' \in Seq(Event)
    BY <1>2, ListIsSequence DEF Reconnect
  <2>2. watching' \in BOOLEAN
    BY <1>2 DEF Reconnect
  <2> QED
    BY <1>2, <2>1, <2>2 DEF Reconnect, cluster, storage, podmon
<1>3. CASE Restart
  <2>1. disruptions' \in 0..MaxDisruptions /\ queue' \in Seq(Event)
    BY <1>3, Bounds DEF Restart
  <2>2. watching' \in BOOLEAN
    BY <1>3 DEF Restart
  <2>3. h' \in Handler /\ h'.pc = "idle" /\ locks' \subseteq PodKeys
    BY <1>3 DEF Restart, Idle, Handler
  <2>4. info' \in [PodKeys -> Info]
    BY <1>3, Bounds DEF Restart, NoInfo, Info
  <2>5. crashCount' \in [PodKeys -> 0..MaxCrashLoopBackOffRetry]
    BY <1>3, Bounds DEF Restart
  <2>6. job' \in [Threads -> Job] /\ pass' \in Pass
    BY <1>3 DEF Restart, NoJob, Job, NoPass, Pass
  <2> QED
    BY <1>3, <2>1, <2>2, <2>3, <2>4, <2>5, <2>6 DEF Restart, cluster, storage
<1> QED
  BY <1>1, <1>2, <1>3

\* What the watch thread carries along in each of its states.
LEMMA HandlerFields ==
    ASSUME h \in Handler
    PROVE  /\ h.pc \in {"lock", "getpod", "getnode", "crash"} =>
                h.ev \in Event /\ h.ev.key \in PodKeys
           /\ h.pc \in {"getnode", "crash"} => h.pod \in Pod
BY DEF Handler, Event

\* The handler's return leaves the watch thread idle and the locks a set of pod keys.
LEMMA ReturnKeepsHandlerType ==
    ASSUME HandlerReturn, locks \subseteq PodKeys
    PROVE  h' \in Handler /\ h'.pc = "idle" /\ locks' \subseteq PodKeys
BY DEF HandlerReturn, Handler, Idle

\* Storing the podInfo of a pod that was read keeps the type of the table.
LEMMA TrackedKeepsType ==
    ASSUME info \in [PodKeys -> Info], NEW ev \in Event, NEW pod \in Pod
    PROVE  Tracked(ev, pod) \in [PodKeys -> Info]
<1> DEFINE new == [uid |-> pod.uid, node |-> pod.node, csi |-> HasCSINodeID(pod.node)]
<1>1. new \in Info
  BY DEF Info, Pod, HasCSINodeID
<1>2. [info EXCEPT ![ev.key] = new] \in [PodKeys -> Info]
  <2> HIDE DEF new
  <2> QED
    BY <1>1 DEF Event
<1> QED
  BY <1>2, Zenon DEF Tracked

\* The goroutine the handler starts has arguments of their types.
LEMMA SpawnKeepsType ==
    ASSUME job \in [Threads -> Job], NEW k \in PodKeys, NEW pod \in Pod,
           NEW last \in Info, SpawnCleanup(k, pod, last)
    PROVE  job' \in [Threads -> Job]
<1> DEFINE use == last.uid # 0 /\ last.csi
           new == [pc |-> "wait", key |-> k, uid |-> pod.uid,
                   node |-> IF use THEN last.node ELSE pod.node,
                   csi |-> use \/ HasCSINodeID(pod.node),
                   noexec |-> NodeHasTaint(pod.node, {"noexec"}),
                   podmon |-> NodeHasTaint(pod.node, {"podmon", "driver"}),
                   vas |-> {}]
<1>1. (IF use THEN last.node ELSE pod.node) \in Nodes \cup {NoNode}
  BY DEF Pod, Info
<1>2. pod.uid \in 0..MaxUID
  BY DEF Pod
<1>3. /\ (use \/ HasCSINodeID(pod.node)) \in BOOLEAN
      /\ NodeHasTaint(pod.node, {"noexec"}) \in BOOLEAN
      /\ NodeHasTaint(pod.node, {"podmon", "driver"}) \in BOOLEAN
  BY Zenon DEF HasCSINodeID, NodeHasTaint
<1>4. new \in Job
  <2> HIDE DEF use
  <2> QED
    BY <1>1, <1>2, <1>3 DEF Job
<1>5. PICK w \in Workers : job' = [job EXCEPT ![w] = new]
  BY DEF SpawnCleanup
<1> HIDE DEF new
<1> QED
  BY <1>4, <1>5 DEF Threads

\* Every step of controllerModePodHandler keeps the types, the counter's bound included.
LEMMA HandlerKeepsType == TypeInv /\ (TakeEvent \/ HandlerStep) => TypeInv'
<1> SUFFICES ASSUME TypeInv, TakeEvent \/ HandlerStep PROVE TypeInv'
  OBVIOUS
<1> USE DEF TypeInv, TypeOK, CrashRoom
<1>1. CASE TakeEvent
  <2> DEFINE ev == Head(queue)
  <2>1. ev \in Event /\ queue' \in Seq(Event)
    BY <1>1 DEF TakeEvent
  <2>2. CASE ev.type = "Deleted"
    <3>1. info' \in [PodKeys -> Info]
      <4>1. NoInfo \in Info
        BY Bounds DEF NoInfo, Info
      <4>2. info' = [info EXCEPT ![ev.key] = NoInfo]
        BY <1>1, <2>2 DEF TakeEvent
      <4> QED
        BY <2>1, <4>1, <4>2
    <3>2. crashCount' \in [PodKeys -> 0..MaxCrashLoopBackOffRetry] /\ h' = h /\ h.pc = "idle"
      <4>1. crashCount' = [crashCount EXCEPT ![ev.key] = 0] /\ h' = h /\ h.pc = "idle"
        BY <1>1, <2>2 DEF TakeEvent, Idle
      <4>2. ev.key \in PodKeys
        BY <2>1 DEF Event
      <4> QED
        BY <4>1, <4>2, Bounds
    <3> QED
      BY <1>1, <2>1, <3>1, <3>2 DEF TakeEvent, cluster, storage
  <2>3. CASE ev.type # "Deleted"
    <3>1. h' \in Handler /\ h'.pc = "lock" /\ info' = info /\ crashCount' = crashCount
      BY <1>1, <2>1, <2>3 DEF TakeEvent, Handler
    <3> QED
      BY <1>1, <2>1, <3>1 DEF TakeEvent, cluster, storage
  <2> QED
    BY <2>2, <2>3
<1>2. CASE HandlerLock
  <2>1. h' \in Handler /\ h'.pc = "getpod" /\ locks' \subseteq PodKeys
    BY <1>2, HandlerFields DEF HandlerLock, Handler
  <2> QED
    BY <1>2, <2>1 DEF HandlerLock, cluster, storage, watch
<1>3. CASE HandlerGetPod
  <2>1. h' \in Handler /\ h'.pc # "crash" /\ locks' \subseteq PodKeys
    <3>1. CASE HandlerReturn
      BY <3>1, ReturnKeepsHandlerType
    <3>2. CASE /\ h' = [pc |-> "getnode", ev |-> h.ev, pod |-> pods[h.ev.key]]
               /\ UNCHANGED locks
      BY <1>3, <3>2, HandlerFields DEF HandlerGetPod, Handler
    <3> QED
      BY <1>3, <3>1, <3>2 DEF HandlerGetPod
  <2> QED
    BY <1>3, <2>1 DEF HandlerGetPod, cluster, storage, watch
<1>4. CASE HandlerGetNode
  <2> DEFINE k == h.ev.key
  <2>1. k \in PodKeys /\ h.ev \in Event /\ h.pod \in Pod
    BY <1>4, HandlerFields DEF HandlerGetNode
  <2>2. Tracked(h.ev, h.pod) \in [PodKeys -> Info]
    BY <2>1, TrackedKeepsType
  <2>3. UNCHANGED <<cluster, storage, watch, pass>>
    BY <1>4 DEF HandlerGetNode
  <2>4. CASE HandlerReturn /\ UNCHANGED <<info, crashCount, job>>
    BY <2>3, <2>4, ReturnKeepsHandlerType DEF cluster, storage, watch
  <2>5. CASE /\ info' = Tracked(h.ev, h.pod)
             /\ crashCount' = IF h.pod.ready THEN [crashCount EXCEPT ![k] = 0]
                                             ELSE crashCount
             /\ \/ SpawnCleanup(k, h.pod, info'[k]) /\ HandlerReturn
                \/ /\ CrashRetry(k, h.pod) /\ h' = [h EXCEPT !.pc = "crash"]
                   /\ UNCHANGED <<locks, job>>
                \/ HandlerReturn /\ UNCHANGED job
    <3>1. info' \in [PodKeys -> Info] /\ info'[k] \in Info
      BY <2>1, <2>2, <2>5
    <3>2. crashCount' \in [PodKeys -> 0..MaxCrashLoopBackOffRetry]
      <4>1. crashCount' = [crashCount EXCEPT ![k] = 0] \/ crashCount' = crashCount
        BY <2>5, Zenon
      <4> QED
        BY <2>1, <4>1, Bounds
    <3>3. CASE SpawnCleanup(k, h.pod, info'[k]) /\ HandlerReturn
      <4>1. job' \in [Threads -> Job]
        BY <2>1, <3>1, <3>3, SpawnKeepsType
      <4> QED
        BY <2>3, <3>1, <3>2, <3>3, <4>1, ReturnKeepsHandlerType DEF cluster, storage, watch
    <3>4. CASE /\ CrashRetry(k, h.pod) /\ h' = [h EXCEPT !.pc = "crash"]
               /\ UNCHANGED <<locks, job>>
      <4>1. h' \in Handler /\ h'.ev = h.ev
        BY <1>4, <2>1, <3>4 DEF HandlerGetNode, Handler
      <4>2. crashCount' = crashCount
        BY <2>5, <3>4, Zenon DEF CrashRetry
      <4>3. crashCount[k] < MaxCrashLoopBackOffRetry
        BY <3>4 DEF CrashRetry
      <4> QED
        BY <2>3, <3>1, <3>4, <4>1, <4>2, <4>3 DEF cluster, storage, watch
    <3>5. CASE HandlerReturn /\ UNCHANGED job
      BY <2>3, <3>1, <3>2, <3>5, ReturnKeepsHandlerType DEF cluster, storage, watch
    <3> QED
      BY <2>5, <3>3, <3>4, <3>5
  <2> QED
    BY <1>4, <2>4, <2>5, Zenon DEF HandlerGetNode
<1>5. CASE HandlerCrashDelete
  <2>1. h.ev.key \in PodKeys
    BY <1>5, HandlerFields DEF HandlerCrashDelete
  <2>2. crashCount' \in [PodKeys -> 0..MaxCrashLoopBackOffRetry]
    BY <1>5, <2>1, Bounds DEF HandlerCrashDelete
  <2>3. queue' \in Seq(Event) /\ watching' = watching /\ disruptions' = disruptions
    <3>1. CASE Emit("Modified", h.ev.key)
      BY <2>1, <3>1, EmitKeepsType
    <3>2. CASE UNCHANGED watch
      BY <3>2 DEF watch
    <3> QED
      BY <1>5, <3>1, <3>2 DEF HandlerCrashDelete
  <2> QED
    BY <1>5, <2>2, <2>3, ReturnKeepsHandlerType DEF HandlerCrashDelete, cluster, storage
<1> QED
  BY <1>1, <1>2, <1>3, <1>4, <1>5 DEF HandlerStep

\* What a cleanup that is under way carries along.
LEMMA JobFields ==
    ASSUME job \in [Threads -> Job], NEW t \in Threads,
           job[t].pc \in {"wait"} \cup Busy
    PROVE  /\ job[t].key \in PodKeys /\ job[t].uid \in 0..MaxUID
           /\ job[t].node \in Nodes \cup {NoNode}
           /\ job[t].vas \subseteq Volumes
BY DEF Job, Busy, PastFence

\* A step that moves on or returns keeps the types of the lock table and the jobs.
LEMMA MoveKeepsType ==
    ASSUME job \in [Threads -> Job], locks \subseteq PodKeys, NEW t \in Threads,
           job[t].pc \in Busy, NEW pc \in Busy, Goto(t, pc) \/ Return(t)
    PROVE  job' \in [Threads -> Job] /\ locks' \subseteq PodKeys
BY GotoKeepsTheRest, ReturnFreesTheThread

\* A cleanup that locks its pod key, or gives up there, keeps the types.
LEMMA LockingKeepsType ==
    ASSUME job \in [Threads -> Job], locks \subseteq PodKeys, NEW t \in Threads,
           JobLock(t)
    PROVE  job' \in [Threads -> Job] /\ locks' \subseteq PodKeys
<1>1. job[t].pc = "wait" /\ job[t].key \in PodKeys
  BY JobFields DEF JobLock
<1>2. CASE /\ locks' = locks \cup {job[t].key}
           /\ job' = [job EXCEPT ![t].pc = "pvs"]
  <2>1. job' \in [Threads -> Job]
    BY <1>1, <1>2 DEF Job, Busy, PastFence
  <2> QED
    BY <1>1, <1>2, <2>1
<1>3. CASE job' = [job EXCEPT ![t] = NoJob] /\ UNCHANGED locks
  BY <1>3 DEF Job, NoJob
<1> QED
  BY <1>2, <1>3 DEF JobLock

\* A cleanup that looks up volumes and attachments keeps the types.
LEMMA GetVolumesKeepsType ==
    ASSUME job \in [Threads -> Job], locks \subseteq PodKeys, NEW t \in Threads,
           JobGetVolumes(t)
    PROVE  job' \in [Threads -> Job] /\ locks' \subseteq PodKeys
<1> DEFINE found == VolumeAttachments(job[t].key, job[t].node)
<1>1. job[t].pc = "pvs" /\ job[t].pc \in Busy
  BY DEF JobGetVolumes, Busy
<1>2. found \subseteq Volumes
  BY <1>1, JobFields, ConstantsAssumption DEF VolumeAttachments, PersistentVolumesInPod
<1>3. CASE Return(t)
  BY <1>1, <1>3, ReturnFreesTheThread
<1>4. CASE /\ job' = [job EXCEPT ![t] = [@ EXCEPT !.pc = "validate", !.vas = found]]
           /\ UNCHANGED locks
  <2> DEFINE Run == [pc : {"wait"} \cup Busy, key : PodKeys, uid : 0..MaxUID,
                     node : Nodes \cup {NoNode}, csi : BOOLEAN, noexec : BOOLEAN,
                     podmon : BOOLEAN, vas : SUBSET Volumes]
  <2> HIDE DEF found
  <2>1. job[t] \in Run /\ "validate" \in Busy
    BY <1>1 DEF Job, Busy, PastFence
  <2>2. [job[t] EXCEPT !.pc = "validate", !.vas = found] \in Run
    BY <1>2, <2>1
  <2>3. Run \subseteq Job
    BY DEF Job
  <2> HIDE DEF Run
  <2> QED
    BY <1>4, <2>2, <2>3
<1> QED
  BY <1>3, <1>4 DEF JobGetVolumes

\* Every step of controllerCleanupPod keeps the types.
LEMMA CleanupKeepsType ==
    ASSUME TypeInv, NEW t \in Threads, JobLock(t) \/ JobStep(t)
    PROVE  TypeInv'
<1> USE DEF TypeInv, TypeOK, CrashRoom
<1> DEFINE Moved == job' \in [Threads -> Job] /\ locks' \subseteq PodKeys
<1>1. CASE JobLock(t)
  <2>1. Moved
    BY <1>1, LockingKeepsType
  <2> QED
    BY <1>1, <2>1 DEF JobLock, cluster, storage, watch
<1>2. CASE JobGetVolumes(t)
  <2>1. Moved
    BY <1>2, GetVolumesKeepsType
  <2> QED
    BY <1>2, <2>1 DEF JobGetVolumes, cluster, storage, watch
<1>3. CASE JobValidate(t)
  <2>1. Moved
    BY <1>3, MoveKeepsType, Zenon DEF JobValidate, Busy
  <2> QED
    BY <1>3, <2>1 DEF JobValidate, cluster, storage, watch
<1>4. CASE JobFence(t)
  <2>1. Moved
    BY <1>4, MoveKeepsType, Zenon DEF JobFence, Busy, PastFence
  <2>2. published' \subseteq Volumes \X Nodes /\ reattached' \subseteq published'
    BY <1>4 DEF JobFence
  <2> QED
    BY <1>4, <2>1, <2>2 DEF JobFence, cluster, watch
<1>5. CASE JobTaint(t)
  <2>1. Moved
    BY <1>5, MoveKeepsType, Zenon DEF JobTaint, Busy, PastFence
  <2>2. taints' \in [Nodes -> SUBSET Taints]
    BY <1>5 DEF JobTaint, TaintNode, Taints
  <2> QED
    BY <1>5, <2>1, <2>2 DEF JobTaint, storage, watch
<1>6. CASE JobDeleteVAs(t)
  <2>1. Moved
    BY <1>6, MoveKeepsType, Zenon DEF JobDeleteVAs, Busy, PastFence
  <2>2. vas' \subseteq Volumes \X Nodes
    BY <1>6 DEF JobDeleteVAs
  <2> QED
    BY <1>6, <2>1, <2>2 DEF JobDeleteVAs, cluster, watch
<1>7. CASE JobDeletePod(t)
  <2>1. job[t].pc \in Busy
    BY <1>7 DEF JobDeletePod, Busy, PastFence
  <2>2. Moved
    BY <1>7, <2>1, MoveKeepsType, Zenon DEF JobDeletePod, Busy
  <2>3. /\ pods' \in [PodKeys -> Pod] /\ queue' \in Seq(Event)
        /\ watching' = watching /\ disruptions' = disruptions
    <3>1. CASE /\ pods' = [pods EXCEPT ![job[t].key] = NoPod]
               /\ Emit("Deleted", job[t].key)
      BY <2>1, <3>1, JobFields, EmitKeepsType, Bounds DEF NoPod, Pod
    <3>2. CASE UNCHANGED <<pods, watch>>
      BY <3>2 DEF watch
    <3> QED
      BY <1>7, <3>1, <3>2 DEF JobDeletePod
  <2> QED
    BY <1>7, <2>2, <2>3 DEF JobDeletePod, storage
<1>8. CASE JobForget(t)
  <2>1. job[t].pc \in Busy
    BY <1>8 DEF JobForget, Busy
  <2>2. Moved
    BY <1>8, <2>1, ReturnFreesTheThread DEF JobForget
  <2>3. NoInfo \in Info
    BY Bounds DEF NoInfo, Info
  <2>4. info' \in [PodKeys -> Info]
    BY <1>8, <2>3 DEF JobForget
  <2> QED
    BY <1>8, <2>2, <2>4 DEF JobForget, cluster, storage, watch
<1> QED
  BY <1>1, <1>2, <1>3, <1>4, <1>5, <1>6, <1>7, <1>8 DEF JobStep

\* Every step of ArrayConnectivityMonitor keeps the types.
LEMMA MonitorKeepsType == TypeInv /\ ArrayMonitorStep => TypeInv'
<1> SUFFICES ASSUME TypeInv, ArrayMonitorStep PROVE TypeInv'
  OBVIOUS
<1> USE DEF TypeInv, TypeOK, CrashRoom
<1>1. CASE MonitorScan
  <2>1. pass' \in Pass
    BY <1>1 DEF MonitorScan, Pass, Info
  <2> QED
    BY <1>1, <2>1 DEF MonitorScan, cluster, storage, watch
<1>2. ASSUME NEW n \in Nodes, MonitorTaint(n) PROVE TypeInv'
  <2>1. pass' \in Pass
    BY <1>2 DEF MonitorTaint, Pass
  <2>2. taints' \in [Nodes -> SUBSET Taints]
    BY <1>2 DEF MonitorTaint, TaintNode, Taints
  <2> QED
    BY <1>2, <2>1, <2>2 DEF MonitorTaint, storage, watch
<1>3. ASSUME NEW k \in PodKeys, MonitorCleanup(k) PROVE TypeInv'
  <2>1. pass' \in Pass
    BY <1>3 DEF MonitorCleanup, Pass
  <2> DEFINE new == [pc |-> "wait", key |-> k, uid |-> pods[k].uid,
                     node |-> info[k].node, csi |-> info[k].csi, noexec |-> FALSE,
                     podmon |-> FALSE, vas |-> {}]
  <2>2. new \in Job
    <3>1. /\ pods[k].uid \in 0..MaxUID /\ info[k].node \in Nodes \cup {NoNode}
          /\ info[k].csi \in BOOLEAN
      BY DEF Pod, Info
    <3> QED
      BY <3>1 DEF Job
  <2>3. job' \in [Threads -> Job]
    <3>1. job' = [job EXCEPT ![ArrayMonitor] = new] \/ job' = job
      BY <1>3 DEF MonitorCleanup
    <3> HIDE DEF new
    <3> QED
      BY <2>2, <3>1
  <2> QED
    BY <1>3, <2>1, <2>3 DEF MonitorCleanup, cluster, storage, watch
<1> QED
  BY <1>1, <1>2, <1>3 DEF ArrayMonitorStep

\* So does every step of the specification.
LEMMA NextKeepsType == TypeInv /\ [Next]_vars => TypeInv'
<1>1. TypeInv /\ Next => TypeInv'
  BY EnvironmentKeepsType, WatchKeepsType, HandlerKeepsType, CleanupKeepsType,
     MonitorKeepsType DEF Next
<1>2. TypeInv /\ UNCHANGED vars => TypeInv'
  BY DEF TypeInv, TypeOK, CrashRoom, vars, cluster, storage, watch, podmon
<1> QED
  BY <1>1, <1>2

\* The type invariant holds for any number of pods, nodes and cleanups; in
\* particular the CrashLoopBackOff counter of controllerModePodHandler never
\* exceeds MaxCrashLoopBackOffRetry.
THEOREM TypeCorrect == Spec => []TypeOK
<1>1. Spec => []TypeInv
  BY InitTypeInv, NextKeepsType, PTL DEF Spec
<1>2. TypeInv => TypeOK
  BY DEF TypeInv
<1> QED
  BY <1>1, <1>2, PTL

-----------------------------------------------------------------------------
(* Mutual exclusion. *)

\* Who holds which lock decides LockOwnership.
LEMMA SameHolders ==
    ASSUME LockOwnership, locks' = locks,
           \A k \in PodKeys : HandlerHolds(k)' <=> HandlerHolds(k),
           \A k \in PodKeys : \A t \in Threads : JobHolds(t, k)' <=> JobHolds(t, k)
    PROVE  LockOwnership'
BY DEF LockOwnership

\* A cleanup that goes on holding its key keeps the ownership of all keys.
LEMMA GotoKeepsLocks ==
    ASSUME TypeOK, LockOwnership, NEW t \in Threads, job[t].pc \in Busy,
           NEW pc \in Busy, Goto(t, pc), h' = h
    PROVE  LockOwnership'
<1>1. \A k \in PodKeys : \A u \in Threads : JobHolds(u, k)' <=> JobHolds(u, k)
  BY GotoKeepsTheRest DEF JobHolds, TypeOK
<1>2. \A k \in PodKeys : HandlerHolds(k)' <=> HandlerHolds(k)
  BY DEF HandlerHolds
<1> QED
  BY <1>1, <1>2, SameHolders DEF Goto

\* A cleanup that returns gives its key back and leaves the others with their holders.
LEMMA ReturnKeepsLocks ==
    ASSUME TypeOK, LockOwnership, NEW t \in Threads, job[t].pc \in Busy, Return(t),
           h' = h
    PROVE  LockOwnership'
<1> DEFINE key == job[t].key
<1>1. /\ key \in PodKeys /\ locks' = locks \ {key}
      /\ job'[t].pc = "idle" /\ \A u \in Threads \ {t} : job'[u] = job[u]
  BY ReturnFreesTheThread DEF TypeOK
<1>2. \A k \in PodKeys : ~JobHolds(t, k)'
  BY <1>1 DEF JobHolds, Busy, PastFence
<1>3. \A k \in PodKeys : \A u \in Threads \ {t} : JobHolds(u, k)' <=> JobHolds(u, k)
  BY <1>1 DEF JobHolds
<1>4. \A k \in PodKeys : HandlerHolds(k)' <=> HandlerHolds(k)
  BY DEF HandlerHolds
<1>5. JobHolds(t, key) /\ \A k \in PodKeys : k # key => ~JobHolds(t, k)
  BY DEF JobHolds
<1> HIDE DEF key
<1> QED
  BY <1>1, <1>2, <1>3, <1>4, <1>5 DEF LockOwnership

\* A cleanup takes a key only when nobody holds it.
LEMMA LockingKeepsLocks ==
    ASSUME TypeOK, LockOwnership, NEW t \in Threads, JobLock(t)
    PROVE  LockOwnership'
<1> DEFINE key == job[t].key
<1>1. job[t].pc = "wait" /\ key \in PodKeys /\ key \notin locks /\ h' = h
  BY JobFields DEF JobLock, TypeOK
<1>2. \A k \in PodKeys : HandlerHolds(k)' <=> HandlerHolds(k)
  BY <1>1 DEF HandlerHolds
<1>3. \A k \in PodKeys : ~JobHolds(t, k)
  BY <1>1 DEF JobHolds, Busy, PastFence
<1>4. \A k \in PodKeys : \A u \in Threads \ {t} : JobHolds(u, k)' <=> JobHolds(u, k)
  BY DEF JobLock, JobHolds, TypeOK
<1>5. CASE locks' = locks \cup {key} /\ job' = [job EXCEPT ![t].pc = "pvs"]
  <2>1. job'[t].pc = "pvs" /\ job'[t].key = key
    BY <1>1, <1>5 DEF TypeOK, Job, Busy, PastFence
  <2>2. \A k \in PodKeys : JobHolds(t, k)' <=> k = key
    BY <2>1 DEF JobHolds, Busy
  <2> HIDE DEF key
  <2> SUFFICES ASSUME NEW k \in PodKeys
               PROVE  /\ k \in locks' <=> \/ HandlerHolds(k)'
                                         \/ \E u \in Threads : JobHolds(u, k)'
                      /\ HandlerHolds(k)' => \A u \in Threads : ~JobHolds(u, k)'
                      /\ \A u, w \in Threads :
                            JobHolds(u, k)' /\ JobHolds(w, k)' => u = w
    BY DEF LockOwnership
  <2>3. CASE k = key
    <3>1. ~HandlerHolds(k) /\ \A u \in Threads : ~JobHolds(u, k)
      BY <1>1, <2>3 DEF LockOwnership
    <3>2. ~HandlerHolds(k)' /\ JobHolds(t, k)'
      BY <1>2, <2>2, <2>3, <3>1
    <3>3. \A u \in Threads \ {t} : ~JobHolds(u, k)'
      BY <1>4, <3>1
    <3>4. k \in locks'
      BY <1>5, <2>3
    <3> QED
      BY <3>2, <3>3, <3>4
  <2>4. CASE k # key
    <3>1. k \in locks' <=> k \in locks
      BY <1>5, <2>4
    <3>2. \A u \in Threads : JobHolds(u, k)' <=> JobHolds(u, k)
      BY <1>3, <1>4, <2>2, <2>4
    <3> QED
      BY <1>2, <3>1, <3>2 DEF LockOwnership
  <2> QED
    BY <2>3, <2>4
<1>6. CASE job' = [job EXCEPT ![t] = NoJob] /\ UNCHANGED locks
  <2>1. \A k \in PodKeys : ~JobHolds(t, k)'
    BY <1>6 DEF JobHolds, NoJob, TypeOK, Busy, PastFence
  <2> QED
    BY <1>2, <1>3, <1>4, <1>6, <2>1, SameHolders
<1> QED
  BY <1>5, <1>6 DEF JobLock

\* The watch thread returns, with or without having started a cleanup.
LEMMA HandlerReturnKeepsLocks ==
    ASSUME TypeOK, LockOwnership, h.pc \in {"getpod", "getnode", "crash"},
           HandlerReturn,
           \A k \in PodKeys : \A t \in Threads : JobHolds(t, k)' <=> JobHolds(t, k)
    PROVE  LockOwnership'
<1> DEFINE key == h.ev.key
<1>1. key \in PodKeys /\ locks' = locks \ {key}
  BY HandlerFields DEF HandlerReturn, TypeOK
<1>2. \A k \in PodKeys : ~HandlerHolds(k)'
  BY DEF HandlerHolds, HandlerReturn, Idle
<1>3. HandlerHolds(key) /\ \A k \in PodKeys : k # key => ~HandlerHolds(k)
  BY DEF HandlerHolds
<1> HIDE DEF key
<1> QED
  BY <1>1, <1>2, <1>3 DEF LockOwnership

\* The watch thread takes a lock nobody holds.
LEMMA HandlerLockKeepsLocks ==
    ASSUME TypeOK, LockOwnership, HandlerLock
    PROVE  LockOwnership'
<1> DEFINE key == h.ev.key
<1>1. key \in PodKeys /\ key \notin locks /\ locks' = locks \cup {key} /\ job' = job
  BY HandlerFields DEF HandlerLock, TypeOK
<1>2. \A k \in PodKeys : ~HandlerHolds(k)
  BY DEF HandlerHolds, HandlerLock
<1>3. \A k \in PodKeys : HandlerHolds(k)' <=> k = key
  BY DEF HandlerHolds, HandlerLock
<1>4. \A k \in PodKeys : \A t \in Threads : JobHolds(t, k)' <=> JobHolds(t, k)
  BY <1>1 DEF JobHolds
<1> HIDE DEF key
<1> QED
  BY <1>1, <1>2, <1>3, <1>4 DEF LockOwnership

\* A cleanup that waits for its lock holds none, nor does a thread without one.
LEMMA SpawnKeepsHolders ==
    ASSUME job \in [Threads -> Job], NEW w \in Threads, job[w] = NoJob,
           NEW new, new.pc = "wait", job' = [job EXCEPT ![w] = new]
    PROVE  \A k \in PodKeys : \A t \in Threads : JobHolds(t, k)' <=> JobHolds(t, k)
<1>1. job'[w].pc = "wait" /\ job[w].pc = "idle" /\ \A t \in Threads \ {w} : job'[t] = job[t]
  BY DEF NoJob
<1> QED
  BY <1>1 DEF JobHolds, Busy, PastFence

\* Steps of other threads.
LEMMA OthersKeepLocks ==
    ASSUME LockOwnership, UNCHANGED <<h, locks, job>>
    PROVE  LockOwnership'
BY DEF LockOwnership, HandlerHolds, JobHolds

\* Every step of controllerModePodHandler keeps the ownership of the keys.
LEMMA HandlerKeepsLocks ==
    ASSUME TypeOK, LockOwnership, TakeEvent \/ HandlerStep
    PROVE  LockOwnership'
<1> DEFINE SameJobs == \A k \in PodKeys : \A t \in Threads :
                          JobHolds(t, k)' <=> JobHolds(t, k)
<1>1. ASSUME UNCHANGED job PROVE SameJobs
  BY <1>1 DEF JobHolds
<1>2. CASE TakeEvent
  <2>1. \A k \in PodKeys : ~HandlerHolds(k) /\ ~HandlerHolds(k)'
    BY <1>2 DEF TakeEvent, HandlerHolds, Idle
  <2> QED
    BY <1>1, <1>2, <2>1, SameHolders DEF TakeEvent
<1>3. CASE HandlerLock
  BY <1>3, HandlerLockKeepsLocks
<1>4. CASE HandlerGetPod
  <2>1. CASE HandlerReturn
    BY <1>1, <1>4, <2>1, HandlerReturnKeepsLocks DEF HandlerGetPod
  <2>2. CASE /\ h' = [pc |-> "getnode", ev |-> h.ev, pod |-> pods[h.ev.key]]
             /\ UNCHANGED locks
    <3>1. \A k \in PodKeys : HandlerHolds(k)' <=> HandlerHolds(k)
      BY <1>4, <2>2 DEF HandlerHolds, HandlerGetPod
    <3> QED
      BY <1>1, <1>4, <2>2, <3>1, SameHolders DEF HandlerGetPod
  <2> QED
    BY <1>4, <2>1, <2>2 DEF HandlerGetPod
<1>5. CASE HandlerGetNode
  <2>1. CASE HandlerReturn /\ UNCHANGED job
    BY <1>1, <1>5, <2>1, HandlerReturnKeepsLocks DEF HandlerGetNode
  <2>2. CASE SpawnCleanup(h.ev.key, h.pod, info'[h.ev.key]) /\ HandlerReturn
    <3>1. PICK w \in Workers : \E j : /\ job[w] = NoJob /\ j.pc = "wait"
                                      /\ job' = [job EXCEPT ![w] = j]
      BY <2>2, Zenon DEF SpawnCleanup
    <3>2. SameJobs
      BY <3>1, SpawnKeepsHolders DEF Threads, TypeOK
    <3> QED
      BY <1>5, <2>2, <3>2, HandlerReturnKeepsLocks DEF HandlerGetNode
  <2>3. CASE h' = [h EXCEPT !.pc = "crash"] /\ UNCHANGED <<locks, job>>
    <3>1. h'.pc = "crash" /\ h'.ev = h.ev /\ h.pc = "getnode"
      BY <1>5, <2>3 DEF HandlerGetNode, TypeOK, Handler
    <3>2. \A k \in PodKeys : HandlerHolds(k)' <=> HandlerHolds(k)
      BY <3>1 DEF HandlerHolds
    <3> QED
      BY <1>1, <2>3, <3>2, SameHolders
  <2> QED
    BY <1>5, <2>1, <2>2, <2>3, Zenon DEF HandlerGetNode
<1>6. CASE HandlerCrashDelete
  BY <1>1, <1>6, HandlerReturnKeepsLocks DEF HandlerCrashDelete
<1> QED
  BY <1>2, <1>3, <1>4, <1>5, <1>6 DEF HandlerStep

\* Every step of a cleanup that holds its lock goes on holding it or returns.
LEMMA CleanupKeepsLocks ==
    ASSUME TypeOK, LockOwnership, NEW t \in Threads, JobStep(t)
    PROVE  LockOwnership'
<1>1. job[t].pc \in Busy /\ h' = h
  BY DEF JobStep, JobGetVolumes, JobValidate, JobFence, JobTaint, JobDeleteVAs,
         JobDeletePod, JobForget, Busy, PastFence
<1>2. CASE Return(t)
  BY <1>1, <1>2, ReturnKeepsLocks
<1>3. CASE \E pc \in Busy : Goto(t, pc)
  BY <1>1, <1>3, GotoKeepsLocks
<1>4. CASE JobGetVolumes(t)
  <2>1. CASE job' = [job EXCEPT ![t] = [@ EXCEPT !.pc = "validate",
                       !.vas = VolumeAttachments(job[t].key, job[t].node)]]
             /\ UNCHANGED locks
    <3> DEFINE found == VolumeAttachments(job[t].key, job[t].node)
    <3>1. job \in [Threads -> Job]
      BY DEF TypeOK
    <3> HIDE DEF found
    <3>2. /\ job'[t].pc = "validate" /\ job'[t].key = job[t].key
          /\ \A u \in Threads \ {t} : job'[u] = job[u]
      BY <1>1, <2>1, <3>1 DEF Job, Busy, PastFence, found
    <3>3. \A k \in PodKeys : \A u \in Threads : JobHolds(u, k)' <=> JobHolds(u, k)
      BY <1>1, <3>2 DEF JobHolds, Busy
    <3>4. \A k \in PodKeys : HandlerHolds(k)' <=> HandlerHolds(k)
      BY <1>1 DEF HandlerHolds
    <3> QED
      BY <2>1, <3>3, <3>4, SameHolders
  <2> QED
    BY <1>2, <1>4, <2>1, Zenon DEF JobGetVolumes
<1>5. CASE JobValidate(t) \/ JobFence(t) \/ JobTaint(t) \/ JobDeleteVAs(t)
  BY <1>2, <1>3, <1>5, Zenon
     DEF JobValidate, JobFence, JobTaint, JobDeleteVAs, Busy, PastFence
<1>6. CASE JobDeletePod(t) \/ JobForget(t)
  BY <1>2, <1>3, <1>6, Zenon DEF JobDeletePod, JobForget, Busy
<1> QED
  BY <1>4, <1>5, <1>6 DEF JobStep

\* So does every step of the specification.
LEMMA NextKeepsLocks ==
    ASSUME TypeOK, LockOwnership, [Next]_vars
    PROVE  LockOwnership'
<1>1. CASE Environment \/ UNCHANGED vars
  <2>1. UNCHANGED podmon
    BY <1>1, Zenon
       DEF Environment, Create, GoAway, Bind, SetStatus, SetAnnotation, SetTaint,
           Attach, Detach, vars
  <2> QED
    BY <2>1, OthersKeepLocks DEF podmon
<1>2. CASE Disconnect \/ Reconnect
  BY <1>2, OthersKeepLocks DEF Disconnect, Reconnect, podmon
<1>3. CASE Restart
  BY <1>3 DEF Restart, LockOwnership, HandlerHolds, JobHolds, Idle, NoJob, Busy, PastFence
<1>4. CASE TakeEvent \/ HandlerStep
  BY <1>4, HandlerKeepsLocks
<1>5. ASSUME NEW t \in Threads, JobLock(t) \/ JobStep(t) PROVE LockOwnership'
  BY <1>5, LockingKeepsLocks, CleanupKeepsLocks
<1>6. CASE ArrayMonitorStep
  <2>1. CASE UNCHANGED <<h, locks, job>>
    BY <2>1, OthersKeepLocks
  <2>2. ASSUME NEW k \in PodKeys, MonitorCleanup(k), job' # job PROVE LockOwnership'
    <3>1. PICK new : /\ job[ArrayMonitor] = NoJob /\ new.pc = "wait"
                     /\ job' = [job EXCEPT ![ArrayMonitor] = new]
      BY <2>2, Zenon DEF MonitorCleanup
    <3>2. \A x \in PodKeys : \A t \in Threads : JobHolds(t, x)' <=> JobHolds(t, x)
      BY <3>1, SpawnKeepsHolders DEF Threads, TypeOK
    <3>3. \A x \in PodKeys : HandlerHolds(x)' <=> HandlerHolds(x)
      BY <2>2 DEF MonitorCleanup, HandlerHolds
    <3> QED
      BY <2>2, <3>2, <3>3, SameHolders DEF MonitorCleanup
  <2> QED
    BY <1>6, <2>1, <2>2 DEF ArrayMonitorStep, MonitorScan, MonitorTaint, MonitorCleanup
<1> QED
  BY <1>1, <1>2, <1>3, <1>4, <1>5, <1>6 DEF Next

\* The per-pod-key lock of PodMonitorType is a mutual exclusion for any number
\* of pods, cleanup goroutines and restarts, and no way out of the handler or of
\* controllerCleanupPod leaves a key in PodKeyMap without a holder.
THEOREM LocksCorrect == Spec => []LockOwnership
<1>1. Init => LockOwnership
  BY DEF Init, LockOwnership, HandlerHolds, JobHolds, Idle, NoJob, Busy, PastFence
<1>2. TypeOK /\ LockOwnership /\ [Next]_vars => LockOwnership'
  BY NextKeepsLocks
<1> QED
  BY <1>1, <1>2, TypeCorrect, PTL DEF Spec

-----------------------------------------------------------------------------
(* Fencing before the force delete. *)

\* No thread gets past the fencing, or changes what it cleans up once past it.
NoneGetsPast ==
    \A t \in Threads :
       job'[t].pc \in PastFence =>
          /\ job[t].pc \in PastFence
          /\ job'[t].key = job[t].key /\ job'[t].node = job[t].node

\* Nothing is lost while the array's exports stay and no thread gets past its fencing.
LEMMA SameFenced ==
    ASSUME Fenced, UNCHANGED <<published, reattached>>, NoneGetsPast
    PROVE  Fenced'
BY DEF Fenced, NoneGetsPast, Exports

\* In particular while no cleanup moves.
LEMMA StillFenced ==
    ASSUME Fenced, UNCHANGED <<published, reattached, job>>
    PROVE  Fenced'
BY DEF Fenced, Exports

\* A cleanup that starts, or moves before its fencing, is not past it.
LEMMA SpawnGetsNobodyPast ==
    ASSUME job \in [Threads -> Job], NEW w \in Threads, NEW new,
           new.pc \notin PastFence, job' = [job EXCEPT ![w] = new]
    PROVE  NoneGetsPast
<1>1. job'[w].pc \notin PastFence /\ \A t \in Threads \ {w} : job'[t] = job[t]
  OBVIOUS
<1> QED
  BY <1>1 DEF NoneGetsPast

\* A cleanup that returns is not past its fencing.
LEMMA ReturnGetsNobodyPast ==
    ASSUME TypeOK, NEW t \in Threads, job[t].pc \in Busy, Return(t)
    PROVE  NoneGetsPast
BY ReturnFreesTheThread DEF NoneGetsPast, PastFence, TypeOK

\* A cleanup that moves on keeps its pod and node, and is past the fencing if it was.
LEMMA GotoGetsNobodyPast ==
    ASSUME TypeOK, NEW t \in Threads, job[t].pc \in Busy, NEW pc \in Busy,
           Goto(t, pc), pc \in PastFence => job[t].pc \in PastFence
    PROVE  NoneGetsPast
BY GotoKeepsTheRest DEF NoneGetsPast, TypeOK

\* The array exports and stops exporting volumes.
LEMMA StorageKeepsFenced ==
    ASSUME TypeOK, Fenced, NEW v \in Volumes, NEW n \in Nodes,
           Attach(v, n) \/ Detach(v, n)
    PROVE  Fenced'
<1> SUFFICES ASSUME NEW t \in Threads, job[t].pc \in PastFence
             PROVE  published' \cap Exports(job[t].key, job[t].node) \subseteq reattached'
  BY DEF Fenced, Exports, Attach, Detach, podmon
<1>1. published \cap Exports(job[t].key, job[t].node) \subseteq reattached
  BY DEF Fenced
<1>2. CASE Attach(v, n)
  <2>1. published' = published \cup {<<v, n>>} /\ reattached \subseteq reattached'
    BY <1>2 DEF Attach
  <2>2. <<v, n>> \in Exports(job[t].key, job[t].node) => <<v, n>> \in reattached'
    BY <1>2 DEF Attach
  <2> HIDE DEF Exports
  <2> QED
    BY <1>1, <2>1, <2>2
<1>3. CASE Detach(v, n)
  BY <1>1, <1>3 DEF Detach
<1> QED
  BY <1>2, <1>3

\* ControllerUnpublishVolume takes every volume away, or the cleanup returns.
LEMMA FencingFences ==
    ASSUME TypeOK, Fenced, NEW t \in Threads, JobFence(t)
    PROVE  Fenced'
<1> DEFINE E(u) == Exports(job[u].key, job[u].node)
<1>1. PICK done \in SUBSET E(t) :
         /\ published' = published \ done /\ reattached' = reattached \ done
         /\ IF done = E(t) THEN Goto(t, "taint") ELSE Return(t)
  BY Zenon DEF JobFence
<1>2. job[t].pc \in Busy /\ job \in [Threads -> Job]
  BY DEF JobFence, Busy, TypeOK
<1>3. ASSUME NEW u \in Threads, job[u].pc \in PastFence
      PROVE  published' \cap E(u) \subseteq reattached'
  <2>1. published \cap E(u) \subseteq reattached
    BY <1>3 DEF Fenced
  <2> HIDE DEF E
  <2> QED
    BY <1>1, <2>1
<1>4. ASSUME NEW u \in Threads, job'[u].pc \in PastFence
      PROVE  published' \cap Exports(job'[u].key, job'[u].node) \subseteq reattached'
  <2>1. CASE Goto(t, "taint") /\ done = E(t)
    <3>1. /\ job'[t].key = job[t].key /\ job'[t].node = job[t].node
          /\ \A x \in Threads \ {t} : job'[x] = job[x]
      BY <1>2, <2>1, GotoKeepsTheRest DEF Busy, PastFence
    <3>2. CASE u = t
      <4>1. published' \cap E(t) = {}
        <5> HIDE DEF E
        <5> QED
          BY <1>1, <2>1
      <4> QED
        BY <3>1, <3>2, <4>1
    <3>3. CASE u # t
      BY <1>3, <1>4, <3>1, <3>3
    <3> QED
      BY <3>2, <3>3
  <2>2. CASE Return(t)
    <3>1. u # t /\ job'[u] = job[u]
      BY <1>2, <1>4, <2>2, ReturnFreesTheThread DEF PastFence
    <3> QED
      BY <1>3, <1>4, <3>1
  <2> QED
    BY <1>1, <2>1, <2>2
<1> QED
  BY <1>4 DEF Fenced, Exports

\* Every step of controllerCleanupPod keeps Fenced; the fencing itself establishes it.
LEMMA CleanupKeepsFenced ==
    ASSUME TypeOK, Fenced, NEW t \in Threads, JobLock(t) \/ JobStep(t)
    PROVE  Fenced'
<1>1. CASE JobFence(t)
  BY <1>1, FencingFences
<1>2. CASE JobLock(t)
  <2>1. job \in [Threads -> Job] /\ job[t].pc = "wait"
    BY <1>2 DEF JobLock, TypeOK
  <2>2. CASE job' = [job EXCEPT ![t] = NoJob]
    <3>1. NoneGetsPast
      BY <2>1, <2>2, SpawnGetsNobodyPast DEF NoJob, PastFence
    <3> QED
      BY <1>2, <3>1, SameFenced DEF JobLock, storage
  <2>3. CASE job' = [job EXCEPT ![t].pc = "pvs"]
    <3>1. job'[t].pc = "pvs" /\ \A u \in Threads \ {t} : job'[u] = job[u]
      BY <2>1, <2>3 DEF Job, Busy, PastFence
    <3>2. NoneGetsPast
      BY <3>1 DEF NoneGetsPast, PastFence
    <3> QED
      BY <1>2, <3>2, SameFenced DEF JobLock, storage
  <2> QED
    BY <1>2, <2>2, <2>3 DEF JobLock
<1>3. CASE JobStep(t) /\ ~JobFence(t)
  <2>1. job[t].pc \in Busy /\ UNCHANGED <<published, reattached>>
    BY <1>3 DEF JobStep, JobGetVolumes, JobValidate, JobTaint, JobDeleteVAs,
                JobDeletePod, JobForget, Busy, PastFence, storage
  <2>2. CASE Return(t)
    BY <2>1, <2>2, ReturnGetsNobodyPast, SameFenced
  <2>3. CASE \E pc \in Busy : Goto(t, pc) /\ (pc \in PastFence => job[t].pc \in PastFence)
    BY <2>1, <2>3, GotoGetsNobodyPast, SameFenced
  <2>4. CASE JobGetVolumes(t) /\ ~Return(t)
    <3> DEFINE new == [job[t] EXCEPT !.pc = "validate",
                          !.vas = VolumeAttachments(job[t].key, job[t].node)]
    <3>1. job' = [job EXCEPT ![t] = new]
      BY <2>4, Zenon DEF JobGetVolumes
    <3>2. job \in [Threads -> Job]
      BY DEF TypeOK
    <3>3. new.pc \notin PastFence
      BY <2>1, <3>2 DEF Job, Busy, PastFence
    <3> HIDE DEF new
    <3> QED
      BY <2>1, <3>1, <3>2, <3>3, SpawnGetsNobodyPast, SameFenced
  <2>5. CASE JobValidate(t)
    <3>1. "fence" \in Busy \ PastFence
      BY DEF Busy, PastFence
    <3> QED
      BY <2>2, <2>3, <2>5, <3>1, Zenon DEF JobValidate
  <2>6. CASE JobTaint(t) \/ JobDeleteVAs(t)
    BY <2>2, <2>3, <2>6, Zenon DEF JobTaint, JobDeleteVAs, Busy, PastFence
  <2>7. CASE JobDeletePod(t) \/ JobForget(t)
    BY <2>2, <2>3, <2>7, Zenon DEF JobDeletePod, JobForget, Busy, PastFence
  <2> QED
    BY <1>3, <2>2, <2>4, <2>5, <2>6, <2>7 DEF JobStep
<1> QED
  BY <1>1, <1>2, <1>3

\* So does every step of the specification.
LEMMA NextKeepsFenced ==
    ASSUME TypeOK, Fenced, [Next]_vars
    PROVE  Fenced'
<1>1. CASE Environment
  <2>1. CASE \E v \in Volumes, n \in Nodes : Attach(v, n) \/ Detach(v, n)
    BY <2>1, StorageKeepsFenced
  <2>2. CASE UNCHANGED <<storage, podmon>>
    BY <2>2, StillFenced DEF storage, podmon
  <2> QED
    BY <1>1, <2>1, <2>2, Zenon
       DEF Environment, Create, GoAway, Bind, SetStatus, SetAnnotation, SetTaint
<1>2. CASE UNCHANGED vars \/ Disconnect \/ Reconnect
  BY <1>2, StillFenced DEF Disconnect, Reconnect, vars, storage, podmon
<1>3. CASE Restart
  BY <1>3 DEF Restart, Fenced, NoJob, PastFence
<1>4. CASE (TakeEvent \/ HandlerStep) /\ UNCHANGED job
  BY <1>4, StillFenced
     DEF TakeEvent, HandlerStep, HandlerLock, HandlerGetPod, HandlerGetNode,
         HandlerCrashDelete, storage
<1>5. CASE HandlerGetNode /\ job' # job
  <2>1. PICK w \in Workers : \E j : /\ j.pc = "wait"
                                    /\ job' = [job EXCEPT ![w] = j]
    BY <1>5, Zenon DEF HandlerGetNode, SpawnCleanup
  <2>2. NoneGetsPast
    BY <2>1, SpawnGetsNobodyPast DEF Threads, TypeOK, PastFence
  <2> QED
    BY <1>5, <2>2, SameFenced DEF HandlerGetNode, storage
<1>6. ASSUME NEW t \in Threads, JobLock(t) \/ JobStep(t) PROVE Fenced'
  BY <1>6, CleanupKeepsFenced
<1>7. CASE ArrayMonitorStep
  <2>1. UNCHANGED <<published, reattached>>
    BY <1>7 DEF ArrayMonitorStep, MonitorScan, MonitorTaint, MonitorCleanup, storage
  <2>2. ASSUME NEW k \in PodKeys, MonitorCleanup(k), job' # job PROVE Fenced'
    <3>1. PICK new : new.pc = "wait" /\ job' = [job EXCEPT ![ArrayMonitor] = new]
      BY <2>2, Zenon DEF MonitorCleanup
    <3>2. NoneGetsPast
      BY <3>1, SpawnGetsNobodyPast DEF Threads, TypeOK, PastFence
    <3> QED
      BY <2>1, <3>2, SameFenced
  <2> QED
    BY <1>7, <2>1, <2>2, StillFenced
       DEF ArrayMonitorStep, MonitorScan, MonitorTaint, MonitorCleanup
<1>8. (TakeEvent \/ HandlerStep) /\ job' # job => HandlerGetNode
  BY DEF TakeEvent, HandlerStep, HandlerLock, HandlerGetPod, HandlerCrashDelete
<1> QED
  BY <1>1, <1>2, <1>3, <1>4, <1>5, <1>6, <1>7, <1>8 DEF Next

\* From its fencing on, a cleanup has its node cut off from the pod's volumes.
LEMMA FencedCorrect == Spec => []Fenced
<1>1. Init => Fenced
  BY DEF Init, Fenced, NoJob, PastFence
<1>2. TypeOK /\ Fenced /\ [Next]_vars => Fenced'
  BY NextKeepsFenced
<1> QED
  BY <1>1, <1>2, TypeCorrect, PTL DEF Spec

\* Fencing comes first for any set of pods, volumes and concurrent cleanups,
\* whatever calls fail: controllerCleanupPod reaches the force delete of a pod
\* only with every CSI volume of that pod fenced from the node it cleans, but for
\* what was attached again since.
THEOREM FencingCorrect == Spec => []DeleteOnlyFenced
<1>1. Fenced => DeleteOnlyFenced
  BY DEF Fenced, DeleteOnlyFenced, PastFence
<1> QED
  BY <1>1, FencedCorrect, PTL

-----------------------------------------------------------------------------
(* What a step does to a cleanup. *)

\* A cleanup under way moves on, looks its volumes up, or returns.
LEMMA JobMoves ==
    ASSUME TypeOK, NEW t \in Threads, JobStep(t)
    PROVE  /\ job[t].pc \in Busy
           /\ \/ Return(t)
              \/ \E pc \in Busy : Goto(t, pc)
              \/ JobGetVolumes(t)
<1>1. job[t].pc \in Busy
  BY DEF JobStep, JobGetVolumes, JobValidate, JobFence, JobTaint, JobDeleteVAs,
         JobDeletePod, JobForget, Busy, PastFence
<1>2. CASE JobGetVolumes(t)
  BY <1>1, <1>2
<1>3. CASE JobValidate(t) \/ JobFence(t) \/ JobTaint(t) \/ JobDeleteVAs(t)
  BY <1>1, <1>3, Zenon
     DEF JobValidate, JobFence, JobTaint, JobDeleteVAs, Busy, PastFence
<1>4. CASE JobDeletePod(t) \/ JobForget(t)
  BY <1>1, <1>4, Zenon DEF JobDeletePod, JobForget, Busy
<1> QED
  BY <1>2, <1>3, <1>4 DEF JobStep

\* The lookup of the attachments changes nothing else of the cleanup.
LEMMA LookupKeepsTheRest ==
    ASSUME TypeOK, NEW t \in Threads, JobGetVolumes(t), ~Return(t)
    PROVE  /\ job'[t].pc = "validate" /\ job'[t].key = job[t].key
           /\ job'[t].node = job[t].node /\ job'[t].uid = job[t].uid
           /\ job'[t].vas = VolumeAttachments(job[t].key, job[t].node)
           /\ \A u \in Threads \ {t} : job'[u] = job[u]
           /\ locks' = locks
<1> DEFINE found == VolumeAttachments(job[t].key, job[t].node)
<1>1. /\ job' = [job EXCEPT ![t] = [@ EXCEPT !.pc = "validate", !.vas = found]]
      /\ locks' = locks
  BY Zenon DEF JobGetVolumes
<1>2. job \in [Threads -> Job] /\ job[t].pc = "pvs"
  BY DEF JobGetVolumes, TypeOK
<1> HIDE DEF found
<1> QED
  BY <1>1, <1>2 DEF Job, Busy, PastFence, found


-----------------------------------------------------------------------------
(* The pods podmon has read. *)

\* What podmon knows of pod uid of key k, that it runs on node n, is true as long
\* as the pod exists.
CopyOf(k, uid, n) ==
    uid # 0 /\ uid <= lastUID /\ n # NoNode /\ (pods[k].uid = uid => pods[k].node = n)

\* UIDs count the pods; a pod is Ready only on a node.
PodsNumbered ==
    \A k \in PodKeys :
       /\ pods[k].uid <= lastUID
       /\ pods[k].uid = 0 => pods[k] = NoPod
       /\ pods[k].ready => pods[k].node # NoNode

\* The pod at hand and the podInfo table are true copies, and a cleanup is of a pod.
HandlerCopy ==
    /\ h.pc # "idle" => h.ev.type # "Deleted"
    /\ h.pc \in {"getnode", "crash"} => CopyOf(h.ev.key, h.pod.uid, h.pod.node)
InfoCopy == \A k \in PodKeys : info[k].uid # 0 => CopyOf(k, info[k].uid, info[k].node)
JobsReal == \A t \in Threads : job[t].pc # "idle" => job[t].uid # 0
Copies == PodsNumbered /\ HandlerCopy /\ InfoCopy /\ JobsReal

\* The cluster changes pod k and the watch sends its event.
PodEvent(k, type) ==
    /\ Emit(type, k) /\ info' = info
    /\ h' = h \/ (h.pc = "crash" /\ h' = Idle)
    /\ \A j \in PodKeys : j # k => pods'[j] = pods[j]
    /\ \/ /\ type = "Added" /\ pods[k].uid = 0 /\ lastUID' = lastUID + 1
          /\ pods'[k].uid = lastUID' /\ ~pods'[k].ready
       \/ /\ type = "Modified" /\ pods[k].uid # 0 /\ lastUID' = lastUID
          /\ pods'[k].uid = pods[k].uid
          /\ pods[k].node # NoNode => pods'[k].node = pods[k].node
          /\ pods'[k].ready => pods'[k].node # NoNode
       \/ /\ type = "Deleted" /\ pods[k].uid # 0 /\ lastUID' = lastUID
          /\ pods'[k] = NoPod

\* What a step of the watch thread, or none of it, does to the event at hand.
HandlerMoves ==
    \/ h' = h
    \/ h.pc = "lock" /\ h.ev.key \notin locks /\ h'.pc = "getpod" /\ h'.ev = h.ev
    \/ /\ h.pc = "getpod" /\ h'.pc = "getnode" /\ h'.ev = h.ev
       /\ h'.pod = pods[h.ev.key] /\ h'.pod.node # NoNode
    \/ h.pc = "getpod" /\ h' = Idle /\ (APIFaults \/ pods[h.ev.key].node = NoNode)
    \/ h.pc = "getnode" /\ h' = Idle
    \/ h.pc = "getnode" /\ h'.pc = "crash" /\ h'.ev = h.ev /\ h'.pod = h.pod
    \/ h.pc = "crash" /\ h' = Idle

\* The podInfo table loses the entry of a pod cleaned up, or gets the pod at hand.
InfoMoves ==
    \A k \in PodKeys :
       \/ info'[k] = info[k]
       \/ /\ h' = h /\ info'[k] = NoInfo
          /\ \E t \in Threads : job[t].pc = "forget" /\ job[t].key = k
       \/ /\ h.pc = "getnode" /\ h'.pc # "getnode" /\ h.ev.key = k
          /\ info'[k].uid = h.pod.uid /\ info'[k].node = h.pod.node

\* A Ready pod with volumes is recorded unless a call fails.
ReadyStored ==
    h.pc = "getnode" /\ h'.pc # "getnode" /\ ~APIFaults /\ h.pod.ready
       /\ ~(IgnoreVolumelessPods /\ VolsOf[h.ev.key] = {}) =>
       info'[h.ev.key].uid = h.pod.uid /\ info'[h.ev.key].node = h.pod.node

\* A step that neither changes pods nor touches the watch.
CalmStep ==
    UNCHANGED <<pods, lastUID, watch>> /\ HandlerMoves /\ InfoMoves /\ ReadyStored

\* Storing the podInfo of a pod.
LEMMA TrackedStores ==
    ASSUME info \in [PodKeys -> Info], NEW ev \in Event, NEW pod \in Pod
    PROVE  /\ \A k \in PodKeys : k # ev.key => Tracked(ev, pod)[k] = info[k]
           /\ pod.ready \/ ev.type = "Modified" =>
                 /\ Tracked(ev, pod)[ev.key].uid = pod.uid
                 /\ Tracked(ev, pod)[ev.key].node = pod.node
           /\ ~(pod.ready \/ ev.type = "Modified") => Tracked(ev, pod) = info
<1> DEFINE new == [uid |-> pod.uid, node |-> pod.node, csi |-> HasCSINodeID(pod.node)]
<1>1. new.uid = pod.uid /\ new.node = pod.node
  OBVIOUS
<1>2. Tracked(ev, pod) = IF pod.ready \/ ev.type = "Modified"
                         THEN [info EXCEPT ![ev.key] = new] ELSE info
  BY DEF Tracked
<1> HIDE DEF new
<1>3. ev.key \in PodKeys
  BY DEF Event
<1> QED
  BY <1>1, <1>2, <1>3

\* What HandlerGetNode does to the event at hand and the podInfo table.
LEMMA GetNodeMoves ==
    ASSUME TypeOK, HandlerGetNode
    PROVE  /\ h.pc = "getnode" /\ h.ev.key \in PodKeys /\ h.ev \in Event /\ h.pod \in Pod
           /\ UNCHANGED <<cluster, storage, watch, pass>>
           /\ h' = Idle \/ (h'.pc = "crash" /\ h'.ev = h.ev /\ h'.pod = h.pod)
           /\ \/ info' = Tracked(h.ev, h.pod)
              \/ /\ UNCHANGED <<info, job>>
                 /\ \/ APIFaults
                    \/ IgnoreVolumelessPods /\ TRUE \in SeenVolumeless(h.ev.key)
           /\ UNCHANGED job \/ SpawnCleanup(h.ev.key, h.pod, info'[h.ev.key])
<1>1. h.pc = "getnode" /\ h.ev.key \in PodKeys /\ h.ev \in Event /\ h.pod \in Pod
  BY HandlerFields DEF HandlerGetNode, TypeOK
<1>2. UNCHANGED <<cluster, storage, watch, pass>>
  BY DEF HandlerGetNode
<1>3. CASE h' = [h EXCEPT !.pc = "crash"]
  <2>1. h'.pc = "crash" /\ h'.ev = h.ev /\ h'.pod = h.pod
    BY <1>1, <1>3 DEF TypeOK, Handler
  <2> QED
    BY <1>1, <1>2, <2>1, Zenon DEF HandlerGetNode
<1>4. CASE HandlerReturn
  BY <1>1, <1>2, <1>4, Zenon DEF HandlerGetNode, HandlerReturn
<1> QED
  BY <1>3, <1>4, Zenon DEF HandlerGetNode

\* HandlerGetNode is a calm step.
LEMMA GetNodeIsCalm ==
    ASSUME TypeOK, HandlerGetNode
    PROVE  CalmStep
<1> DEFINE k == h.ev.key
<1>1. /\ h.pc = "getnode" /\ k \in PodKeys /\ h.ev \in Event /\ h.pod \in Pod
      /\ UNCHANGED <<pods, lastUID, watch>>
      /\ h' = Idle \/ (h'.pc = "crash" /\ h'.ev = h.ev /\ h'.pod = h.pod)
      /\ \/ info' = Tracked(h.ev, h.pod)
         \/ /\ info' = info
            /\ APIFaults \/ (IgnoreVolumelessPods /\ TRUE \in SeenVolumeless(k))
  BY GetNodeMoves DEF cluster
<1>2. HandlerMoves
  BY <1>1 DEF HandlerMoves
<1>3. h'.pc # "getnode"
  BY <1>1 DEF Idle
<1>4. InfoMoves
  <2>1. CASE info' = Tracked(h.ev, h.pod)
    BY <1>1, <1>3, <2>1, TrackedStores DEF InfoMoves, TypeOK
  <2>2. CASE info' = info
    BY <2>2 DEF InfoMoves
  <2> QED
    BY <1>1, <2>1, <2>2
<1>5. ReadyStored
  <2>1. CASE info' = Tracked(h.ev, h.pod)
    BY <1>1, <2>1, TrackedStores DEF ReadyStored, TypeOK
  <2>2. CASE IgnoreVolumelessPods /\ TRUE \in SeenVolumeless(k)
    <3>1. APIFaults \/ VolsOf[k] = {}
      BY <2>2, ConstantsAssumption DEF SeenVolumeless, PersistentVolumesInPod
    <3> QED
      BY <2>2, <3>1 DEF ReadyStored
  <2> QED
    BY <1>1, <2>1, <2>2 DEF ReadyStored
<1> QED
  BY <1>1, <1>2, <1>4, <1>5 DEF CalmStep

\* A step that leaves the watch, the pods, the handler and the table alone is calm.
LEMMA StillIsCalm ==
    ASSUME UNCHANGED <<pods, lastUID, watch, h, info>>
    PROVE  CalmStep
BY DEF CalmStep, HandlerMoves, InfoMoves, ReadyStored

\* Kubernetes and the array change a pod with an event, or nothing podmon watches.
LEMMA EnvironmentKinds ==
    ASSUME TypeOK, PodsNumbered, Environment
    PROVE  \/ CalmStep
           \/ \E k \in PodKeys, type \in {"Added", "Modified", "Deleted"} : PodEvent(k, type)
<1> USE DEF TypeOK
<1>1. ASSUME NEW k \in PodKeys, Create(k) PROVE PodEvent(k, "Added")
  <2>1. /\ pods[k].uid = 0 /\ lastUID' = lastUID + 1 /\ pods'[k].uid = lastUID'
        /\ ~pods'[k].ready /\ \A j \in PodKeys : j # k => pods'[j] = pods[j]
    BY <1>1 DEF Create, NoPod
  <2>2. Emit("Added", k) /\ info' = info /\ h' = h
    BY <1>1 DEF Create, podmon
  <2> QED
    BY <2>1, <2>2 DEF PodEvent
<1>2. ASSUME NEW k \in PodKeys, GoAway(k) PROVE PodEvent(k, "Deleted")
  <2>1. /\ pods[k].uid # 0 /\ lastUID' = lastUID /\ pods'[k] = NoPod
        /\ \A j \in PodKeys : j # k => pods'[j] = pods[j]
    BY <1>2 DEF GoAway, PodsNumbered
  <2>2. Emit("Deleted", k) /\ info' = info /\ h' = h
    BY <1>2 DEF GoAway, podmon
  <2> QED
    BY <2>1, <2>2 DEF PodEvent
<1>3. ASSUME NEW k \in PodKeys, NEW n \in Nodes, Bind(k, n) PROVE PodEvent(k, "Modified")
  <2>1. /\ pods[k].uid # 0 /\ lastUID' = lastUID /\ pods'[k].uid = pods[k].uid
        /\ pods[k].node = NoNode /\ pods'[k].node = n
        /\ \A j \in PodKeys : j # k => pods'[j] = pods[j]
    BY <1>3 DEF Bind, Pod
  <2>2. Emit("Modified", k) /\ info' = info /\ h' = h
    BY <1>3 DEF Bind, podmon
  <2> QED
    BY <2>1, <2>2, ConstantsAssumption DEF PodEvent
<1>4. ASSUME NEW k \in PodKeys, NEW ready \in BOOLEAN, NEW crash \in BOOLEAN,
             SetStatus(k, ready, crash)
      PROVE  PodEvent(k, "Modified")
  <2>1. /\ pods[k].node # NoNode /\ lastUID' = lastUID /\ pods'[k].uid = pods[k].uid
        /\ pods'[k].node = pods[k].node
        /\ \A j \in PodKeys : j # k => pods'[j] = pods[j]
    BY <1>4 DEF SetStatus, Pod
  <2>2. Emit("Modified", k) /\ info' = info /\ h' = h
    BY <1>4 DEF SetStatus, podmon
  <2>3. pods[k].uid # 0
    BY <2>1 DEF PodsNumbered, NoPod
  <2> QED
    BY <2>1, <2>2, <2>3 DEF PodEvent
<1>5. ASSUME NEW n \in Nodes,
             \/ SetAnnotation(n) \/ \E t \in Taints : SetTaint(n, t)
             \/ \E v \in Volumes : Attach(v, n) \/ Detach(v, n)
      PROVE  CalmStep
  <2>1. UNCHANGED <<pods, lastUID, watch, h, info>>
    BY <1>5 DEF SetAnnotation, SetTaint, Attach, Detach, cluster, watch, podmon
  <2> QED
    BY <2>1, StillIsCalm
<1> QED
  BY <1>1, <1>2, <1>3, <1>4, <1>5 DEF Environment

\* The handler's steps are calm but for the update the delete of a crashing pod sends.
LEMMA HandlerKinds ==
    ASSUME TypeOK, Copies, HandlerStep
    PROVE  CalmStep \/ \E k \in PodKeys : PodEvent(k, "Modified")
<1> USE DEF TypeOK
<1>1. CASE HandlerLock
  <2>1. UNCHANGED <<pods, lastUID, watch, info>> /\ h.pc = "lock" /\ h.ev.key \notin locks
    BY <1>1 DEF HandlerLock, cluster
  <2>2. h'.pc = "getpod" /\ h'.ev = h.ev
    BY <1>1 DEF HandlerLock
  <2> QED
    BY <2>1, <2>2 DEF CalmStep, HandlerMoves, InfoMoves, ReadyStored
<1>2. CASE HandlerGetPod
  <2>1. UNCHANGED <<pods, lastUID, watch, info>> /\ h.pc = "getpod"
    BY <1>2 DEF HandlerGetPod, cluster
  <2>2. \/ /\ h'.pc = "getnode" /\ h'.ev = h.ev
           /\ h'.pod = pods[h.ev.key] /\ h'.pod.node # NoNode
        \/ h' = Idle /\ (APIFaults \/ pods[h.ev.key].node = NoNode)
    BY <1>2 DEF HandlerGetPod, HandlerReturn
  <2> QED
    BY <2>1, <2>2 DEF CalmStep, HandlerMoves, InfoMoves, ReadyStored
<1>3. CASE HandlerGetNode
  BY <1>3, GetNodeIsCalm
<1>4. CASE HandlerCrashDelete
  <2> DEFINE k == h.ev.key
  <2>1. UNCHANGED <<pods, lastUID, info>> /\ h.pc = "crash" /\ h' = Idle
    BY <1>4 DEF HandlerCrashDelete, HandlerReturn, cluster
  <2>2. CASE UNCHANGED watch
    BY <2>1, <2>2 DEF CalmStep, HandlerMoves, InfoMoves, ReadyStored
  <2>3. CASE SameUID(k, h.pod.uid) /\ Emit("Modified", k)
    <3>1. k \in PodKeys /\ pods[k].uid # 0 /\ (pods[k].ready => pods[k].node # NoNode)
      BY <2>1, <2>3, HandlerFields DEF SameUID, Copies, HandlerCopy, CopyOf, PodsNumbered
    <3>2. PodEvent(k, "Modified")
      BY <2>1, <2>3, <3>1 DEF PodEvent
    <3> QED
      BY <3>1, <3>2
  <2> QED
    BY <1>4, <2>2, <2>3 DEF HandlerCrashDelete
<1> QED
  BY <1>1, <1>2, <1>3, <1>4 DEF HandlerStep

\* A cleanup's steps are calm but for the force delete of its pod.
LEMMA JobKinds ==
    ASSUME TypeOK, Copies, NEW t \in Threads, JobLock(t) \/ JobStep(t)
    PROVE  CalmStep \/ \E k \in PodKeys : PodEvent(k, "Deleted")
<1> USE DEF TypeOK
<1>1. CASE JobLock(t) \/ JobGetVolumes(t) \/ JobValidate(t) \/ JobFence(t) \/ JobTaint(t)
           \/ JobDeleteVAs(t)
  <2>1. UNCHANGED <<pods, lastUID, watch, h, info>>
    BY <1>1 DEF JobLock, JobGetVolumes, JobValidate, JobFence, JobTaint, JobDeleteVAs, cluster
  <2> QED
    BY <2>1, StillIsCalm
<1>2. CASE JobDeletePod(t)
  <2> DEFINE k == job[t].key
  <2>1. h' = h /\ info' = info /\ lastUID' = lastUID /\ job[t].pc = "delete"
    BY <1>2 DEF JobDeletePod
  <2>2. CASE UNCHANGED <<pods, watch>>
    BY <2>1, <2>2, StillIsCalm
  <2>3. CASE /\ SameUID(k, job[t].uid) /\ Emit("Deleted", k)
             /\ pods' = [pods EXCEPT ![k] = NoPod]
    <3>1. k \in PodKeys /\ pods[k].uid # 0
      BY <2>1, <2>3 DEF SameUID, Copies, JobsReal, Job, Busy, PastFence
    <3>2. PodEvent(k, "Deleted")
      BY <2>1, <2>3, <3>1 DEF PodEvent
    <3> QED
      BY <3>1, <3>2
  <2> QED
    BY <1>2, <2>2, <2>3, Zenon DEF JobDeletePod
<1>3. CASE JobForget(t)
  <2> DEFINE k == job[t].key
  <2>1. /\ UNCHANGED <<pods, lastUID, watch, h>> /\ job[t].pc = "forget"
        /\ info' = [info EXCEPT ![k] = NoInfo]
    BY <1>3 DEF JobForget, cluster
  <2>2. InfoMoves
    BY <2>1 DEF InfoMoves
  <2> QED
    BY <2>1, <2>2 DEF CalmStep, HandlerMoves, ReadyStored
<1> QED
  BY <1>1, <1>2, <1>3 DEF JobStep

\* What a step may do to the pods, the watch, the handler and the podInfo table.
LEMMA StepKinds ==
    ASSUME TypeOK, Copies, [Next]_vars
    PROVE  \/ CalmStep
           \/ \E k \in PodKeys, type \in {"Added", "Modified", "Deleted"} : PodEvent(k, type)
           \/ TakeEvent
           \/ Disconnect \/ Reconnect \/ Restart
<1>1. CASE Environment
  BY <1>1, EnvironmentKinds DEF Copies
<1>2. CASE HandlerStep
  BY <1>2, HandlerKinds
<1>3. CASE \E t \in Threads : JobLock(t) \/ JobStep(t)
  BY <1>3, JobKinds
<1>4. CASE ArrayMonitorStep \/ UNCHANGED vars
  <2>1. UNCHANGED <<pods, lastUID, watch, h, info>>
    BY <1>4 DEF ArrayMonitorStep, MonitorScan, MonitorTaint, MonitorCleanup, vars, cluster,
                watch, podmon
  <2> QED
    BY <2>1, StillIsCalm
<1> QED
  BY <1>1, <1>2, <1>3, <1>4 DEF Next

-----------------------------------------------------------------------------
(* The cleanups under way. *)

\* Thread t starts a cleanup of the pod the handler has at hand: on its node, or on
\* the node of an older podInfo entry.
StartedByHandler(t) ==
    /\ h.pc = "getnode" /\ job'[t].pc = "wait"
    /\ job'[t].key = h.ev.key /\ job'[t].uid = h.pod.uid
    /\ job'[t].node = h.pod.node \/ (h.ev.type # "Modified" /\ info[h.ev.key].uid # 0)

\* The array monitor starts a cleanup of a pod that is the one recorded.
StartedByMonitor(t) ==
    /\ job'[t].pc = "wait" /\ job'[t].key \in PodKeys
    /\ job'[t].uid = info[job'[t].key].uid /\ job'[t].node = info[job'[t].key].node
    /\ info[job'[t].key].uid # 0

\* A cleanup goes on with the same pod; it gets to forget only a pod that is gone.
GoesOn(t) ==
    /\ job[t].pc # "idle" /\ job'[t].key = job[t].key
    /\ job'[t].uid = job[t].uid /\ job'[t].node = job[t].node
    /\ job'[t].pc = "forget" => job[t].pc = "forget" \/ pods'[job[t].key].uid = 0

\* What a step may do to the cleanup of thread t.
JobChange(t) ==
    job'[t].pc = "idle" \/ GoesOn(t) \/ StartedByHandler(t) \/ StartedByMonitor(t)

\* A thread that a step leaves alone goes on as it was.
LEMMA SameGoesOn ==
    ASSUME NEW t, job'[t] = job[t]
    PROVE  JobChange(t)
BY DEF JobChange, GoesOn

\* The cleanup the handler starts.
LEMMA SpawnChanges ==
    ASSUME TypeOK, HandlerGetNode, NEW t \in Threads
    PROVE  JobChange(t)
<1> DEFINE k == h.ev.key
           last == info'[k]
           use == last.uid # 0 /\ last.csi
           new == [pc |-> "wait", key |-> k, uid |-> h.pod.uid,
                   node |-> IF use THEN last.node ELSE h.pod.node,
                   csi |-> use \/ HasCSINodeID(h.pod.node),
                   noexec |-> NodeHasTaint(h.pod.node, {"noexec"}),
                   podmon |-> NodeHasTaint(h.pod.node, {"podmon", "driver"}),
                   vas |-> {}]
<1>1. /\ h.pc = "getnode" /\ k \in PodKeys /\ h.ev \in Event /\ h.pod \in Pod
      /\ UNCHANGED job \/ (info' = Tracked(h.ev, h.pod) /\ SpawnCleanup(k, h.pod, info'[k]))
  BY GetNodeMoves
<1>2. CASE UNCHANGED job
  BY <1>2, SameGoesOn
<1>3. CASE info' = Tracked(h.ev, h.pod) /\ SpawnCleanup(k, h.pod, info'[k])
  <2>1. PICK w \in Workers : job' = [job EXCEPT ![w] = new]
    BY <1>3 DEF SpawnCleanup
  <2>2. /\ new.pc = "wait" /\ new.key = k /\ new.uid = h.pod.uid
        /\ new.node = h.pod.node \/ (new.node = last.node /\ last.uid # 0)
    BY DEF new
  <2>3. \/ last.uid = h.pod.uid /\ last.node = h.pod.node
        \/ h.ev.type # "Modified" /\ last = info[k]
    BY <1>1, <1>3, TrackedStores DEF TypeOK
  <2> HIDE DEF new
  <2>4. job'[t] = IF t = w THEN new ELSE job[t]
    BY <2>1 DEF TypeOK
  <2>5. CASE t = w
    BY <1>1, <2>2, <2>3, <2>4, <2>5 DEF JobChange, StartedByHandler
  <2>6. CASE t # w
    BY <2>4, <2>6, SameGoesOn
  <2> QED
    BY <2>5, <2>6
<1> QED
  BY <1>1, <1>2, <1>3

\* A cleanup goes on or returns; its force delete leaves no pod to forget.
LEMMA CleanupChanges ==
    ASSUME TypeOK, NEW t \in Threads, JobLock(t) \/ JobStep(t), NEW u \in Threads
    PROVE  JobChange(u)
<1> USE DEF TypeOK
<1>1. CASE JobLock(t)
  <2>1. job[t].pc = "wait" /\ job[t] \in Job
    BY <1>1 DEF JobLock
  <2>2. CASE job' = [job EXCEPT ![t] = NoJob]
    <3>1. job'[u] = IF u = t THEN NoJob ELSE job[u]
      BY <2>2
    <3> QED
      BY <3>1, SameGoesOn DEF JobChange, NoJob
  <2>3. CASE job' = [job EXCEPT ![t].pc = "pvs"]
    <3>1. /\ job'[t].pc = "pvs" /\ job'[t].key = job[t].key
          /\ job'[t].uid = job[t].uid /\ job'[t].node = job[t].node
          /\ u # t => job'[u] = job[u]
      BY <2>1, <2>3 DEF Job, Busy, PastFence
    <3> QED
      BY <2>1, <3>1, SameGoesOn DEF JobChange, GoesOn
  <2> QED
    BY <1>1, <2>2, <2>3 DEF JobLock
<1>2. CASE JobStep(t)
  <2>1. /\ job[t].pc \in Busy /\ job[t].pc # "idle"
        /\ Return(t) \/ (\E pc \in Busy : Goto(t, pc)) \/ JobGetVolumes(t)
    BY <1>2, JobMoves DEF Busy, PastFence
  <2>2. CASE Return(t)
    <3>1. job'[t].pc = "idle" /\ (u # t => job'[u] = job[u])
      BY <2>1, <2>2, ReturnFreesTheThread
    <3> QED
      BY <3>1, SameGoesOn DEF JobChange
  <2>3. ASSUME NEW pc \in Busy, Goto(t, pc) PROVE JobChange(u)
    <3>1. /\ job'[t].pc = pc /\ job'[t].key = job[t].key
          /\ job'[t].uid = job[t].uid /\ job'[t].node = job[t].node
          /\ u # t => job'[u] = job[u]
      BY <2>1, <2>3, GotoKeepsTheRest
    <3>2. job[t] \in Job /\ job[t].key \in PodKeys
      BY <2>1 DEF Job, Busy, PastFence
    <3>3. pc = "forget" => JobDeletePod(t) /\ pods' = [pods EXCEPT ![job[t].key] = NoPod]
      <4> SUFFICES ASSUME pc = "forget"
                   PROVE  JobDeletePod(t) /\ pods' = [pods EXCEPT ![job[t].key] = NoPod]
        OBVIOUS
      <4>1. ASSUME NEW q \in Busy, Goto(t, q) PROVE q = "forget"
        <5>1. job'[t].pc = q
          BY <2>1, <4>1, GotoKeepsTheRest
        <5> QED
          BY <3>1, <5>1
      <4>2. ~Return(t)
        BY <2>1, <3>1, ReturnFreesTheThread
      <4>3. ~(JobValidate(t) \/ JobFence(t) \/ JobTaint(t) \/ JobDeleteVAs(t))
        BY <4>1, <4>2, Zenon DEF JobValidate, JobFence, JobTaint, JobDeleteVAs, Busy, PastFence
      <4>4. ~JobGetVolumes(t)
        BY <3>1, <4>2, LookupKeepsTheRest
      <4>5. ~JobForget(t)
        BY <4>2 DEF JobForget
      <4>6. JobDeletePod(t)
        BY <1>2, <4>3, <4>4, <4>5 DEF JobStep
      <4> QED
        BY <4>2, <4>6 DEF JobDeletePod
    <3>4. pc = "forget" => pods'[job[t].key].uid = 0
      BY <3>2, <3>3 DEF NoPod
    <3> QED
      BY <2>1, <3>1, <3>4, SameGoesOn DEF JobChange, GoesOn
  <2>4. CASE JobGetVolumes(t) /\ ~Return(t)
    <3>1. /\ job'[t].pc = "validate" /\ job'[t].key = job[t].key
          /\ job'[t].uid = job[t].uid /\ job'[t].node = job[t].node
          /\ u # t => job'[u] = job[u]
      BY <2>4, LookupKeepsTheRest
    <3> QED
      BY <2>1, <3>1, SameGoesOn DEF JobChange, GoesOn
  <2> QED
    BY <2>1, <2>2, <2>3, <2>4
<1> QED
  BY <1>1, <1>2

\* The cleanup the array monitor starts.
LEMMA MonitorChanges ==
    ASSUME TypeOK, NEW k \in PodKeys, MonitorCleanup(k), NEW t \in Threads
    PROVE  JobChange(t)
<1> DEFINE new == [pc |-> "wait", key |-> k, uid |-> pods[k].uid,
                   node |-> info[k].node, csi |-> info[k].csi, noexec |-> FALSE,
                   podmon |-> FALSE, vas |-> {}]
<1>1. UNCHANGED job \/ (SameAsInfo(k) /\ job' = [job EXCEPT ![ArrayMonitor] = new])
  BY Zenon DEF MonitorCleanup
<1>2. CASE UNCHANGED job
  BY <1>2, SameGoesOn
<1>3. CASE SameAsInfo(k) /\ job' = [job EXCEPT ![ArrayMonitor] = new]
  <2>1. /\ new.pc = "wait" /\ new.key = k /\ new.uid = info[k].uid
        /\ new.node = info[k].node /\ info[k].uid # 0
    BY <1>3 DEF SameAsInfo
  <2> HIDE DEF new
  <2>2. job'[t] = IF t = ArrayMonitor THEN new ELSE job[t]
    BY <1>3 DEF TypeOK
  <2>3. CASE t = ArrayMonitor
    BY <2>1, <2>2, <2>3 DEF JobChange, StartedByMonitor
  <2>4. CASE t # ArrayMonitor
    BY <2>2, <2>4, SameGoesOn
  <2> QED
    BY <2>3, <2>4
<1> QED
  BY <1>1, <1>2, <1>3

\* What any step may do to a cleanup.
LEMMA JobChanges ==
    ASSUME TypeOK, [Next]_vars, NEW t \in Threads
    PROVE  JobChange(t)
<1>1. CASE UNCHANGED job
  BY <1>1, SameGoesOn
<1>2. CASE Restart
  BY <1>2 DEF Restart, JobChange, NoJob
<1>3. CASE HandlerGetNode
  BY <1>3, SpawnChanges
<1>4. CASE \E u \in Threads : JobLock(u) \/ JobStep(u)
  BY <1>4, CleanupChanges
<1>5. CASE \E k \in PodKeys : MonitorCleanup(k)
  BY <1>5, MonitorChanges
<1> QED
  BY <1>1, <1>2, <1>3, <1>4, <1>5, Zenon
     DEF Next, Environment, Create, GoAway, Bind, SetStatus, SetAnnotation, SetTaint, Attach,
         Detach, Disconnect, Reconnect, TakeEvent, HandlerStep, HandlerLock, HandlerGetPod,
         HandlerCrashDelete, ArrayMonitorStep, MonitorScan, MonitorTaint, vars, podmon

-----------------------------------------------------------------------------
(* The copies stay true. *)

\* A UID is never used again and a bound pod never moves.
LEMMA CopyKept ==
    ASSUME TypeOK, Copies, [Next]_vars,
           NEW k \in PodKeys, NEW uid \in Nat, NEW n, CopyOf(k, uid, n)
    PROVE  uid <= lastUID' /\ (pods'[k].uid = uid => pods'[k].node = n)
<1> USE Bounds DEF TypeOK, CopyOf
<1>1. lastUID \in Nat /\ pods[k].uid \in Nat
  BY DEF Pod
<1>2. CASE UNCHANGED <<pods, lastUID>>
  BY <1>2
<1>3. ASSUME NEW j \in PodKeys, NEW type \in {"Added", "Modified", "Deleted"}, PodEvent(j, type)
      PROVE  uid <= lastUID' /\ (pods'[k].uid = uid => pods'[k].node = n)
  <2>1. CASE j # k
    <3>1. pods'[k] = pods[k] /\ (lastUID' = lastUID \/ lastUID' = lastUID + 1)
      BY <1>3, <2>1 DEF PodEvent
    <3> QED
      BY <1>1, <3>1
  <2>2. CASE j = k
    BY <1>1, <1>3, <2>2 DEF PodEvent, NoPod
  <2> QED
    BY <2>1, <2>2
<1>4. CASE CalmStep \/ TakeEvent \/ Disconnect \/ Reconnect \/ Restart
  BY <1>2, <1>4 DEF CalmStep, TakeEvent, Disconnect, Reconnect, Restart, cluster
<1> QED
  BY <1>3, <1>4, StepKinds

\* Pods stay numbered.
LEMMA NumbersKept ==
    ASSUME TypeOK, Copies, [Next]_vars
    PROVE  PodsNumbered'
<1> USE Bounds DEF TypeOK
<1>1. CASE UNCHANGED <<pods, lastUID>>
  BY <1>1 DEF Copies, PodsNumbered
<1>2. ASSUME NEW j \in PodKeys, NEW type \in {"Added", "Modified", "Deleted"},
             PodEvent(j, type), NEW k \in PodKeys
      PROVE  /\ pods'[k].uid <= lastUID'
             /\ pods'[k].uid = 0 => pods'[k] = NoPod
             /\ pods'[k].ready => pods'[k].node # NoNode
  <2>1. /\ lastUID \in Nat /\ pods[k].uid \in Nat /\ pods[k].uid <= lastUID
        /\ pods[k].uid = 0 => pods[k] = NoPod
        /\ pods[k].ready => pods[k].node # NoNode
    BY DEF Pod, Copies, PodsNumbered
  <2>2. CASE j # k
    <3>1. pods'[k] = pods[k] /\ (lastUID' = lastUID \/ lastUID' = lastUID + 1)
      BY <1>2, <2>2 DEF PodEvent
    <3> QED
      BY <2>1, <3>1
  <2>3. CASE j = k /\ type # "Deleted"
    BY <1>2, <2>1, <2>3 DEF PodEvent
  <2>4. CASE j = k /\ type = "Deleted"
    <3>1. pods'[k] = NoPod /\ lastUID' = lastUID
      BY <1>2, <2>4 DEF PodEvent
    <3> QED
      BY <2>1, <3>1 DEF NoPod
  <2> QED
    BY <2>2, <2>3, <2>4
<1>3. CASE CalmStep \/ TakeEvent \/ Disconnect \/ Reconnect \/ Restart
  BY <1>1, <1>3 DEF CalmStep, TakeEvent, Disconnect, Reconnect, Restart, cluster
<1> QED
  BY <1>2, <1>3, StepKinds DEF PodsNumbered

\* The event at hand is one the handler reads the pod for, and the pod it has read
\* stays a true copy.
LEMMA HandlerCopyKept ==
    ASSUME TypeOK, TypeOK', Copies, [Next]_vars
    PROVE  HandlerCopy'
<1>1. CASE h' = h
  <2>1. h.pc # "idle" => h.ev.type # "Deleted"
    BY DEF Copies, HandlerCopy
  <2>2. ASSUME h.pc \in {"getnode", "crash"}
        PROVE  CopyOf(h.ev.key, h.pod.uid, h.pod.node)'
    <3>1. h.ev.key \in PodKeys /\ h.pod.uid \in Nat
      BY <2>2, HandlerFields, Bounds DEF TypeOK, Pod
    <3>2. CopyOf(h.ev.key, h.pod.uid, h.pod.node)
      BY <2>2 DEF Copies, HandlerCopy
    <3>3. /\ h.pod.uid <= lastUID'
          /\ pods'[h.ev.key].uid = h.pod.uid => pods'[h.ev.key].node = h.pod.node
      BY <3>1, <3>2, CopyKept
    <3> QED
      BY <1>1, <3>2, <3>3 DEF CopyOf
  <2> QED
    BY <1>1, <2>1, <2>2 DEF HandlerCopy
<1>2. CASE h' = Idle
  BY <1>2 DEF HandlerCopy, Idle
<1>3. CASE TakeEvent
  <2>1. h' = h \/ (h' = [pc |-> "lock", ev |-> Head(queue)] /\ Head(queue).type # "Deleted")
    BY <1>3 DEF TakeEvent
  <2> QED
    BY <1>1, <2>1 DEF HandlerCopy
<1>4. CASE CalmStep
  <2>1. HandlerMoves /\ UNCHANGED <<pods, lastUID>>
    BY <1>4 DEF CalmStep
  <2>2. CASE h.pc = "lock" /\ h'.pc = "getpod" /\ h'.ev = h.ev
    BY <2>2 DEF HandlerCopy, Copies
  <2>3. CASE /\ h.pc = "getpod" /\ h'.pc = "getnode" /\ h'.ev = h.ev
             /\ h'.pod = pods[h.ev.key] /\ h'.pod.node # NoNode
    <3>1. h.ev.key \in PodKeys
      BY <2>3, HandlerFields DEF TypeOK
    <3>2. pods[h.ev.key].uid <= lastUID /\ pods[h.ev.key].uid # 0
      BY <2>3, <3>1 DEF Copies, PodsNumbered, NoPod
    <3> QED
      BY <2>1, <2>3, <3>2 DEF HandlerCopy, Copies, CopyOf
  <2>4. CASE h.pc = "getnode" /\ h'.pc = "crash" /\ h'.ev = h.ev /\ h'.pod = h.pod
    BY <2>1, <2>4 DEF HandlerCopy, Copies, CopyOf
  <2> QED
    BY <1>1, <1>2, <2>1, <2>2, <2>3, <2>4 DEF HandlerMoves
<1>5. CASE \E k \in PodKeys, type \in {"Added", "Modified", "Deleted"} : PodEvent(k, type)
  BY <1>1, <1>2, <1>5 DEF PodEvent
<1>6. CASE Disconnect \/ Reconnect
  BY <1>1, <1>6 DEF Disconnect, Reconnect, podmon
<1>7. CASE Restart
  BY <1>2, <1>7 DEF Restart
<1> QED
  BY <1>3, <1>4, <1>5, <1>6, <1>7, StepKinds

\* What a step may do to the podInfo entry of k, its copy kept.
LEMMA InfoCopyKept ==
    ASSUME TypeOK, Copies, [Next]_vars
    PROVE  InfoCopy'
<1> SUFFICES ASSUME NEW k \in PodKeys, info'[k].uid # 0
             PROVE  CopyOf(k, info[k].uid, info[k].node)'
  BY DEF InfoCopy
<1>1. CASE info'[k] = info[k]
  <2>1. CopyOf(k, info[k].uid, info[k].node) /\ info[k].uid \in Nat
    BY <1>1, Bounds DEF Copies, InfoCopy, TypeOK, Info
  <2>2. info[k].uid <= lastUID' /\ (pods'[k].uid = info[k].uid => pods'[k].node = info[k].node)
    BY <2>1, CopyKept
  <2> QED
    BY <1>1, <2>1, <2>2 DEF CopyOf
<1>2. CASE info'[k] = NoInfo
  BY <1>2 DEF NoInfo
<1>3. CASE /\ h.pc = "getnode" /\ h.ev.key = k
           /\ info'[k].uid = h.pod.uid /\ info'[k].node = h.pod.node
  <2>1. CopyOf(k, h.pod.uid, h.pod.node) /\ h.pod.uid \in Nat
    BY <1>3, HandlerFields, Bounds DEF Copies, HandlerCopy, TypeOK, Pod
  <2>2. h.pod.uid <= lastUID' /\ (pods'[k].uid = h.pod.uid => pods'[k].node = h.pod.node)
    BY <2>1, CopyKept
  <2> QED
    BY <1>3, <2>1, <2>2 DEF CopyOf
<1>4. CASE TakeEvent
  <2>1. info' = info \/ info' = [info EXCEPT ![Head(queue).key] = NoInfo]
    BY <1>4, Zenon DEF TakeEvent
  <2> QED
    BY <1>1, <1>2, <2>1 DEF TypeOK
<1>5. CASE CalmStep
  BY <1>1, <1>2, <1>3, <1>5 DEF CalmStep, InfoMoves
<1>6. CASE \E j \in PodKeys, type \in {"Added", "Modified", "Deleted"} : PodEvent(j, type)
  BY <1>1, <1>6 DEF PodEvent
<1>7. CASE Disconnect \/ Reconnect
  BY <1>1, <1>7 DEF Disconnect, Reconnect, podmon
<1>8. CASE Restart
  BY <1>2, <1>8 DEF Restart
<1> QED
  BY <1>4, <1>5, <1>6, <1>7, <1>8, StepKinds

\* Every cleanup is of a pod.
LEMMA JobsStayReal ==
    ASSUME TypeOK, Copies, [Next]_vars
    PROVE  JobsReal'
<1> SUFFICES ASSUME NEW t \in Threads, job'[t].pc # "idle" PROVE job'[t].uid # 0
  BY DEF JobsReal
<1>1. CASE GoesOn(t)
  BY <1>1 DEF GoesOn, Copies, JobsReal
<1>2. CASE StartedByHandler(t)
  BY <1>2 DEF StartedByHandler, Copies, HandlerCopy, CopyOf
<1>3. CASE StartedByMonitor(t)
  BY <1>3 DEF StartedByMonitor
<1> QED
  BY <1>1, <1>2, <1>3, JobChanges DEF JobChange

\* Whatever is lost, restarted or fails, what podmon knows of a pod that exists is true.
LEMMA CopiesCorrect == Spec => []Copies
<1>1. Init => Copies
  BY DEF Init, Copies, PodsNumbered, HandlerCopy, InfoCopy, JobsReal, NoPod, NoInfo, Idle, NoJob
<1>2. TypeOK /\ TypeOK' /\ Copies /\ [Next]_vars => Copies'
  BY NumbersKept, HandlerCopyKept, InfoCopyKept, JobsStayReal DEF Copies
<1> QED
  BY <1>1, <1>2, TypeCorrect, PTL DEF Spec

-----------------------------------------------------------------------------
(* Sequences of events. *)

\* Event i of q is of pod k: its deletion, its creation, or any other but a deletion.
Dead(q, i, k) == q[i].key = k /\ q[i].type = "Deleted"
Fresh(q, i, k) == q[i].key = k /\ q[i].type = "Added"
Live(q, i, k) == q[i].key = k /\ q[i].type # "Deleted"

\* Pod k is deleted somewhere in q; before it is created again; before it is created
\* again after any other event of it; and after each of its events.
Gone(q, k) == \E l \in 1..Len(q) : Dead(q, l, k)
Renewed(q, k) ==
    \A i \in 1..Len(q) : Fresh(q, i, k) => \E l \in 1..Len(q) : l < i /\ Dead(q, l, k)
InTurn(q, k) ==
    \A i, j \in 1..Len(q) :
       j < i /\ Fresh(q, i, k) /\ Live(q, j, k) =>
          \E l \in 1..Len(q) : j < l /\ l < i /\ Dead(q, l, k)
Ended(q, k) ==
    \A j \in 1..Len(q) : Live(q, j, k) => \E l \in 1..Len(q) : j < l /\ Dead(q, l, k)

\* An event of pod k is still to come and no deletion of it after that.
Pending(q, k) ==
    \E i \in 1..Len(q) :
       Live(q, i, k) /\ \A j \in 1..Len(q) : i < j => ~Dead(q, j, k)

\* The events of q with one more.
LEMMA AppendEvents ==
    ASSUME NEW q \in Seq(Event), NEW e \in Event
    PROVE  LET r == Append(q, e) IN
           /\ Len(r) = Len(q) + 1 /\ Len(q) \in Nat
           /\ \A i \in 1..Len(q) : r[i] = q[i]
           /\ r[Len(q) + 1] = e
OBVIOUS

\* The events of q without the first.
LEMMA TailEvents ==
    ASSUME NEW q \in Seq(Event), q # << >>
    PROVE  /\ Head(q) = q[1] /\ Head(q) \in Event /\ 1 \in 1..Len(q)
           /\ Len(Tail(q)) = Len(q) - 1 /\ Len(q) \in Nat
           /\ \A i \in 1..Len(Tail(q)) : Tail(q)[i] = q[i + 1] /\ i + 1 \in 1..Len(q)
OBVIOUS

\* What one more event changes.
LEMMA AppendStory ==
    ASSUME NEW q \in Seq(Event), NEW e \in Event, NEW k,
           NEW r, r = Append(q, e)
    PROVE  /\ Gone(q, k) => Gone(r, k)
           /\ InTurn(q, k) /\ (e.key = k /\ e.type = "Added" => Ended(q, k)) => InTurn(r, k)
           /\ Renewed(q, k) /\ (e.key = k /\ e.type = "Added" => Gone(q, k)) => Renewed(r, k)
           /\ e.key # k /\ Ended(q, k) => Ended(r, k)
           /\ e.key = k /\ e.type = "Deleted" => Gone(r, k) /\ Ended(r, k)
           /\ e.key # k /\ Gone(r, k) => Gone(q, k)
           /\ e.type # "Deleted" /\ Gone(r, k) => Gone(q, k)
           /\ e.key # k /\ Pending(q, k) => Pending(r, k)
           /\ e.type # "Deleted" /\ Pending(q, k) => Pending(r, k)
           /\ e.key = k /\ e.type # "Deleted" => Pending(r, k)
<1> DEFINE n == Len(q)
<1>1. /\ Len(r) = n + 1 /\ n \in Nat /\ r[n + 1] = e
      /\ \A i \in 1..n : r[i] = q[i]
  BY AppendEvents
<1>2. \A i \in 1..n : /\ Dead(r, i, k) <=> Dead(q, i, k)
                      /\ Fresh(r, i, k) <=> Fresh(q, i, k)
                      /\ Live(r, i, k) <=> Live(q, i, k)
  BY <1>1 DEF Dead, Fresh, Live
<1>3. /\ Dead(r, n + 1, k) <=> e.key = k /\ e.type = "Deleted"
      /\ Fresh(r, n + 1, k) <=> e.key = k /\ e.type = "Added"
      /\ Live(r, n + 1, k) <=> e.key = k /\ e.type # "Deleted"
  BY <1>1 DEF Dead, Fresh, Live
<1>4. \A i \in 1..n : i \in 1..Len(r) /\ i < n + 1
  BY <1>1
<1>5. \A i \in 1..Len(r) : i \in 1..n \/ i = n + 1
  BY <1>1
<1>6. n + 1 \in 1..Len(r)
  BY <1>1
<1>7. \A i \in 1..Len(r) : i \in Nat /\ i <= n + 1
  BY <1>1
<1> HIDE DEF n
<1>a. Gone(q, k) => Gone(r, k)
  BY <1>2, <1>4 DEF Gone, n
<1>b. InTurn(q, k) /\ (e.key = k /\ e.type = "Added" => Ended(q, k)) => InTurn(r, k)
  <2> SUFFICES ASSUME InTurn(q, k), e.key = k /\ e.type = "Added" => Ended(q, k),
                      NEW i \in 1..Len(r), NEW j \in 1..Len(r), j < i,
                      Fresh(r, i, k), Live(r, j, k)
               PROVE  \E l \in 1..Len(r) : j < l /\ l < i /\ Dead(r, l, k)
    BY DEF InTurn
  <2>1. j \in 1..n
    BY <1>1, <1>5, <1>7
  <2>2. CASE i \in 1..n
    BY <1>2, <1>4, <2>1, <2>2 DEF InTurn, n
  <2>3. CASE i = n + 1
    <3>1. PICK l \in 1..n : j < l /\ Dead(q, l, k)
      BY <1>2, <1>3, <2>1, <2>3 DEF Ended, n
    <3> QED
      BY <1>2, <1>4, <2>3, <3>1
  <2> QED
    BY <1>5, <2>2, <2>3
<1>c. Renewed(q, k) /\ (e.key = k /\ e.type = "Added" => Gone(q, k)) => Renewed(r, k)
  <2> SUFFICES ASSUME Renewed(q, k), e.key = k /\ e.type = "Added" => Gone(q, k),
                      NEW i \in 1..Len(r), Fresh(r, i, k)
               PROVE  \E l \in 1..Len(r) : l < i /\ Dead(r, l, k)
    BY DEF Renewed
  <2>1. CASE i \in 1..n
    BY <1>2, <1>4, <2>1 DEF Renewed, n
  <2>2. CASE i = n + 1
    <3>1. PICK l \in 1..n : Dead(q, l, k)
      BY <1>3, <2>2 DEF Gone, n
    <3> QED
      BY <1>2, <1>4, <2>2, <3>1
  <2> QED
    BY <1>5, <2>1, <2>2
<1>d. e.key # k /\ Ended(q, k) => Ended(r, k)
  <2> SUFFICES ASSUME e.key # k, Ended(q, k), NEW j \in 1..Len(r), Live(r, j, k)
               PROVE  \E l \in 1..Len(r) : j < l /\ Dead(r, l, k)
    BY DEF Ended
  <2>1. j \in 1..n
    BY <1>3, <1>5
  <2> QED
    BY <1>2, <1>4, <2>1 DEF Ended, n
<1>e. e.key = k /\ e.type = "Deleted" => Gone(r, k) /\ Ended(r, k)
  <2> SUFFICES ASSUME e.key = k, e.type = "Deleted" PROVE Gone(r, k) /\ Ended(r, k)
    OBVIOUS
  <2>1. Dead(r, n + 1, k) /\ ~Live(r, n + 1, k)
    BY <1>3
  <2>2. \A j \in 1..Len(r) : Live(r, j, k) => j < n + 1
    BY <1>4, <1>5, <2>1
  <2> QED
    BY <1>6, <2>1, <2>2 DEF Gone, Ended
<1>f. (e.key # k \/ e.type # "Deleted") /\ Gone(r, k) => Gone(q, k)
  BY <1>2, <1>3, <1>5 DEF Gone, n
<1>g. (e.key # k \/ e.type # "Deleted") /\ Pending(q, k) => Pending(r, k)
  <2> SUFFICES ASSUME e.key # k \/ e.type # "Deleted", Pending(q, k) PROVE Pending(r, k)
    OBVIOUS
  <2>1. PICK i \in 1..n : Live(q, i, k) /\ \A j \in 1..n : i < j => ~Dead(q, j, k)
    BY DEF Pending, n
  <2>2. \A j \in 1..Len(r) : i < j => ~Dead(r, j, k)
    BY <1>2, <1>3, <1>5, <2>1
  <2> QED
    BY <1>2, <1>4, <2>1, <2>2 DEF Pending
<1>h. e.key = k /\ e.type # "Deleted" => Pending(r, k)
  <2> SUFFICES ASSUME e.key = k, e.type # "Deleted" PROVE Pending(r, k)
    OBVIOUS
  <2>1. \A j \in 1..Len(r) : ~(n + 1 < j)
    BY <1>1, <1>7
  <2> QED
    BY <1>3, <1>6, <2>1 DEF Pending
<1> QED
  BY <1>a, <1>b, <1>c, <1>d, <1>e, <1>f, <1>g, <1>h

\* What taking the first event changes.
LEMMA TailStory ==
    ASSUME NEW q \in Seq(Event), q # << >>, NEW k,
           NEW r, r = Tail(q), NEW e, e = Head(q)
    PROVE  /\ InTurn(q, k) => InTurn(r, k)
           /\ Ended(q, k) => Ended(r, k)
           /\ e.key # k /\ Renewed(q, k) => Renewed(r, k)
           /\ e.key # k /\ Gone(q, k) => Gone(r, k)
           /\ e.type # "Deleted" /\ Gone(q, k) => Gone(r, k)
           /\ e.key = k /\ e.type # "Deleted" /\ InTurn(q, k) => Renewed(r, k)
           /\ e.key = k /\ e.type # "Deleted" /\ Ended(q, k) => Gone(r, k)
           /\ e.key = k /\ Renewed(q, k) => e.type # "Added"
           /\ Gone(r, k) => Gone(q, k)
           /\ e.key # k /\ Pending(q, k) => Pending(r, k)
           /\ e.type = "Deleted" /\ Pending(q, k) => Pending(r, k)
           /\ Gone(r, k) /\ Pending(q, k) => Pending(r, k)
<1>1. /\ e = q[1] /\ 1 \in 1..Len(q) /\ Len(r) = Len(q) - 1 /\ Len(q) \in Nat
      /\ \A i \in 1..Len(r) : r[i] = q[i + 1] /\ i + 1 \in 1..Len(q)
  BY TailEvents
<1>2. \A i \in 1..Len(r) : /\ Dead(r, i, k) <=> Dead(q, i + 1, k)
                           /\ Fresh(r, i, k) <=> Fresh(q, i + 1, k)
                           /\ Live(r, i, k) <=> Live(q, i + 1, k)
  BY <1>1 DEF Dead, Fresh, Live
<1>3. /\ Dead(q, 1, k) <=> e.key = k /\ e.type = "Deleted"
      /\ Fresh(q, 1, k) <=> e.key = k /\ e.type = "Added"
      /\ Live(q, 1, k) <=> e.key = k /\ e.type # "Deleted"
  BY <1>1 DEF Dead, Fresh, Live
<1>4. \A i \in 1..Len(r) : i \in Nat /\ 1 <= i /\ i + 1 \in 1..Len(q)
  BY <1>1
<1>5. \A l \in 1..Len(q) : l = 1 \/ (l - 1 \in 1..Len(r) /\ (l - 1) + 1 = l)
  BY <1>1
<1>6. \A l \in 1..Len(q) : l = 1 \/ \E m \in 1..Len(r) : l = m + 1
  BY <1>5
<1>7. \A l \in 1..Len(q) : l \in Nat /\ 1 <= l
  BY <1>1
<1>a. InTurn(q, k) => InTurn(r, k)
  <2> SUFFICES ASSUME InTurn(q, k), NEW i \in 1..Len(r), NEW j \in 1..Len(r), j < i,
                      Fresh(r, i, k), Live(r, j, k)
               PROVE  \E l \in 1..Len(r) : j < l /\ l < i /\ Dead(r, l, k)
    BY DEF InTurn
  <2>1. /\ i + 1 \in 1..Len(q) /\ j + 1 \in 1..Len(q) /\ j + 1 < i + 1
        /\ Fresh(q, i + 1, k) /\ Live(q, j + 1, k)
    BY <1>2, <1>4
  <2>2. PICK l \in 1..Len(q) : j + 1 < l /\ l < i + 1 /\ Dead(q, l, k)
    BY <2>1 DEF InTurn
  <2>3. PICK m \in 1..Len(r) : l = m + 1
    BY <1>4, <1>6, <2>2
  <2>4. j < m /\ m < i
    BY <1>4, <2>2, <2>3
  <2>5. Dead(r, m, k)
    BY <1>2, <2>2, <2>3
  <2> QED
    BY <2>4, <2>5
<1>b. Ended(q, k) => Ended(r, k)
  <2> SUFFICES ASSUME Ended(q, k), NEW j \in 1..Len(r), Live(r, j, k)
               PROVE  \E l \in 1..Len(r) : j < l /\ Dead(r, l, k)
    BY DEF Ended
  <2>1. j + 1 \in 1..Len(q) /\ Live(q, j + 1, k)
    BY <1>2, <1>4
  <2>2. PICK l \in 1..Len(q) : j + 1 < l /\ Dead(q, l, k)
    BY <2>1 DEF Ended
  <2>3. PICK m \in 1..Len(r) : l = m + 1
    BY <1>4, <1>6, <2>2
  <2>4. j < m
    BY <1>4, <2>2, <2>3
  <2>5. Dead(r, m, k)
    BY <1>2, <2>2, <2>3
  <2> QED
    BY <2>4, <2>5
<1>c. e.key # k /\ Renewed(q, k) => Renewed(r, k)
  <2> SUFFICES ASSUME e.key # k, Renewed(q, k), NEW i \in 1..Len(r), Fresh(r, i, k)
               PROVE  \E l \in 1..Len(r) : l < i /\ Dead(r, l, k)
    BY DEF Renewed
  <2>1. i + 1 \in 1..Len(q) /\ Fresh(q, i + 1, k)
    BY <1>2, <1>4
  <2>2. PICK l \in 1..Len(q) : l < i + 1 /\ Dead(q, l, k)
    BY <2>1 DEF Renewed
  <2>3. PICK m \in 1..Len(r) : l = m + 1
    BY <1>3, <1>6, <2>2
  <2>4. m < i
    BY <1>4, <2>2, <2>3
  <2>5. Dead(r, m, k)
    BY <1>2, <2>2, <2>3
  <2> QED
    BY <2>4, <2>5
<1>d. (e.key # k \/ e.type # "Deleted") /\ Gone(q, k) => Gone(r, k)
  <2> SUFFICES ASSUME e.key # k \/ e.type # "Deleted", Gone(q, k) PROVE Gone(r, k)
    OBVIOUS
  <2>1. PICK l \in 1..Len(q) : Dead(q, l, k)
    BY DEF Gone
  <2>2. PICK m \in 1..Len(r) : l = m + 1
    BY <1>3, <1>6, <2>1
  <2> QED
    BY <1>2, <2>1, <2>2 DEF Gone
<1>e. e.key = k /\ e.type # "Deleted" /\ InTurn(q, k) => Renewed(r, k)
  <2> SUFFICES ASSUME e.key = k, e.type # "Deleted", InTurn(q, k), NEW i \in 1..Len(r),
                      Fresh(r, i, k)
               PROVE  \E l \in 1..Len(r) : l < i /\ Dead(r, l, k)
    BY DEF Renewed
  <2>1. i + 1 \in 1..Len(q) /\ Fresh(q, i + 1, k) /\ 1 < i + 1 /\ Live(q, 1, k)
    BY <1>2, <1>3, <1>4
  <2>2. PICK l \in 1..Len(q) : 1 < l /\ l < i + 1 /\ Dead(q, l, k)
    BY <1>1, <2>1 DEF InTurn
  <2>3. PICK m \in 1..Len(r) : l = m + 1
    BY <1>6, <1>7, <2>2
  <2>4. m < i
    BY <1>4, <2>2, <2>3
  <2>5. Dead(r, m, k)
    BY <1>2, <2>2, <2>3
  <2> QED
    BY <2>4, <2>5
<1>f. e.key = k /\ e.type # "Deleted" /\ Ended(q, k) => Gone(r, k)
  <2> SUFFICES ASSUME e.key = k, e.type # "Deleted", Ended(q, k) PROVE Gone(r, k)
    OBVIOUS
  <2>1. PICK l \in 1..Len(q) : 1 < l /\ Dead(q, l, k)
    BY <1>1, <1>3 DEF Ended
  <2>2. PICK m \in 1..Len(r) : l = m + 1
    BY <1>6, <1>7, <2>1
  <2> QED
    BY <1>2, <2>1, <2>2 DEF Gone
<1>g. e.key = k /\ Renewed(q, k) => e.type # "Added"
  <2> SUFFICES ASSUME e.key = k, Renewed(q, k), e.type = "Added" PROVE FALSE
    OBVIOUS
  <2>1. \E l \in 1..Len(q) : l < 1 /\ Dead(q, l, k)
    BY <1>1, <1>3 DEF Renewed
  <2> QED
    BY <1>7, <2>1
<1>h. Gone(r, k) => Gone(q, k)
  BY <1>2, <1>4 DEF Gone
<1>i. (e.key # k \/ e.type = "Deleted" \/ Gone(r, k)) /\ Pending(q, k) => Pending(r, k)
  <2> SUFFICES ASSUME e.key # k \/ e.type = "Deleted" \/ Gone(r, k), Pending(q, k)
               PROVE  Pending(r, k)
    OBVIOUS
  <2>1. PICK i \in 1..Len(q) : Live(q, i, k) /\ \A j \in 1..Len(q) : i < j => ~Dead(q, j, k)
    BY DEF Pending
  <2>2. i # 1
    <3>1. CASE e.key # k \/ e.type = "Deleted"
      BY <1>3, <2>1, <3>1
    <3>2. CASE Gone(r, k)
      <4>1. PICK m \in 1..Len(r) : Dead(r, m, k)
        BY <3>2 DEF Gone
      <4>2. m + 1 \in 1..Len(q) /\ Dead(q, m + 1, k) /\ 1 < m + 1
        BY <1>2, <1>4, <4>1
      <4> QED
        BY <2>1, <4>2
    <3> QED
      BY <3>1, <3>2
  <2>3. PICK m \in 1..Len(r) : i = m + 1
    BY <1>6, <2>2
  <2>4. \A j \in 1..Len(r) : m < j => ~Dead(r, j, k)
    <3> SUFFICES ASSUME NEW j \in 1..Len(r), m < j PROVE ~Dead(r, j, k)
      OBVIOUS
    <3>1. j + 1 \in 1..Len(q) /\ i < j + 1
      BY <1>4, <2>3
    <3> QED
      BY <1>2, <2>1, <3>1
  <2> QED
    BY <1>2, <2>1, <2>3, <2>4 DEF Pending
<1> QED
  BY <1>a, <1>b, <1>c, <1>d, <1>e, <1>f, <1>g, <1>h, <1>i

-----------------------------------------------------------------------------
(* No watch event lost. *)

\* The handler has an event of pod k at hand.
On(k) == h.pc # "idle" /\ h.ev.key = k

\* How the events podmon has still to see relate what it knows of pod k to what pod k
\* is: the pod is created again only after its deletion, the deletion of a pod that
\* is recorded or at hand and gone is still to come, and an Added event is handled
\* before the pod is recorded.
Story(k) ==
    /\ InTurn(queue, k)
    /\ info[k].uid # 0 \/ On(k) => Renewed(queue, k)
    /\ pods[k].uid = 0 => Ended(queue, k)
    /\ info[k].uid # 0 /\ info[k].uid # pods[k].uid => Gone(queue, k)
    /\ h.pc \in {"getnode", "crash"} /\ h.ev.key = k /\ h.pod.uid # pods[k].uid =>
          Gone(queue, k)
    /\ On(k) /\ pods[k].uid = 0 => Gone(queue, k)
    /\ h.pc \in {"lock", "getpod", "getnode"} /\ h.ev.key = k /\ h.ev.type = "Added" =>
          info[k].uid = 0

\* Every cleanup has the node its pod is on.
JobsRight ==
    \A t \in Threads :
       job[t].pc # "idle" => CopyOf(job[t].key, job[t].uid, job[t].node)

\* As long as podmon has neither lost a watch nor been restarted.
NoneLost == disruptions = 0 => watching /\ (\A k \in PodKeys : Story(k)) /\ JobsRight

\* A change of pod j while the watch is up.
LEMMA PodEventKeepsStory ==
    ASSUME TypeOK, Copies, watching, NEW k \in PodKeys, Story(k), NEW j \in PodKeys,
           NEW type \in {"Added", "Modified", "Deleted"}, PodEvent(j, type)
    PROVE  Story(k)'
<1> DEFINE e == [type |-> type, key |-> j]
<1>1. e \in Event /\ e.type = type /\ e.key = j
  BY DEF Event
<1>2. queue' = Append(queue, e)
  BY Zenon DEF PodEvent, Emit
<1>3. queue \in Seq(Event)
  BY DEF TypeOK
<1> HIDE DEF e
<1>4. h' = h \/ h'.pc = "idle"
  BY DEF PodEvent, Idle
<1>5. info' = info
  BY DEF PodEvent
<1>6. /\ Gone(queue, k) => Gone(queue', k)
      /\ InTurn(queue, k) /\ (j = k /\ type = "Added" => Ended(queue, k)) => InTurn(queue', k)
      /\ Renewed(queue, k) /\ (j = k /\ type = "Added" => Gone(queue, k)) => Renewed(queue', k)
      /\ j # k /\ Ended(queue, k) => Ended(queue', k)
      /\ j = k /\ type = "Deleted" => Gone(queue', k) /\ Ended(queue', k)
  BY <1>1, <1>2, <1>3, AppendStory
<1>7. CASE j # k
  <2>1. pods'[k] = pods[k]
    BY <1>7 DEF PodEvent
  <2> QED
    BY <1>4, <1>5, <1>6, <1>7, <2>1 DEF Story, On
<1>8. CASE j = k /\ type = "Added"
  <2>1. pods[k].uid = 0 /\ pods'[k].uid # 0
    <3>1. pods[k].uid = 0 /\ pods'[k].uid = lastUID + 1
      BY <1>8 DEF PodEvent
    <3>2. lastUID \in Nat
      BY Bounds DEF TypeOK
    <3> QED
      BY <3>1, <3>2
  <2>2. h.pc \in {"getnode", "crash"} /\ h.ev.key = k => Gone(queue, k)
    BY <2>1 DEF Copies, HandlerCopy, CopyOf, Story
  <2> QED
    BY <1>4, <1>5, <1>6, <1>8, <2>1, <2>2 DEF Story, On
<1>9. CASE j = k /\ type = "Modified"
  <2>1. pods'[k].uid = pods[k].uid /\ pods[k].uid # 0
    BY <1>9 DEF PodEvent
  <2> QED
    BY <1>4, <1>5, <1>6, <1>9, <2>1 DEF Story, On
<1>10. CASE j = k /\ type = "Deleted"
  BY <1>4, <1>5, <1>6, <1>10 DEF Story, On
<1> QED
  BY <1>7, <1>8, <1>9, <1>10

\* The handler takes the next event.
LEMMA TakeKeepsStory ==
    ASSUME TypeOK, NEW k \in PodKeys, Story(k), TakeEvent
    PROVE  Story(k)'
<1> DEFINE e == Head(queue)
<1>1. queue \in Seq(Event) /\ queue # << >> /\ queue' = Tail(queue) /\ h.pc = "idle"
  BY DEF TypeOK, TakeEvent, Idle
<1>2. /\ InTurn(queue, k) => InTurn(queue', k)
      /\ Ended(queue, k) => Ended(queue', k)
      /\ e.key # k /\ Renewed(queue, k) => Renewed(queue', k)
      /\ e.key # k /\ Gone(queue, k) => Gone(queue', k)
      /\ e.type # "Deleted" /\ Gone(queue, k) => Gone(queue', k)
      /\ e.key = k /\ e.type # "Deleted" /\ InTurn(queue, k) => Renewed(queue', k)
      /\ e.key = k /\ e.type # "Deleted" /\ Ended(queue, k) => Gone(queue', k)
      /\ e.key = k /\ Renewed(queue, k) => e.type # "Added"
  BY <1>1, TailStory
<1>3. e \in Event /\ e.key \in PodKeys
  <2>1. e \in Event
    BY <1>1
  <2> QED
    BY <2>1 DEF Event
<1>4. /\ pods' = pods
      /\ \/ e.type = "Deleted" /\ info' = [info EXCEPT ![e.key] = NoInfo] /\ h' = h
         \/ e.type # "Deleted" /\ info' = info /\ h' = [pc |-> "lock", ev |-> e]
  BY DEF TakeEvent, cluster
<1> HIDE DEF e
<1>5. CASE e.type = "Deleted"
  <2>1. h'.pc = "idle" /\ info'[k] = IF k = e.key THEN NoInfo ELSE info[k]
    BY <1>1, <1>3, <1>4, <1>5 DEF TypeOK
  <2> QED
    BY <1>2, <1>4, <1>5, <2>1 DEF Story, On, NoInfo
<1>6. CASE e.type # "Deleted"
  <2>1. h'.pc = "lock" /\ h'.ev = e /\ info' = info
    BY <1>4, <1>6
  <2>2. CASE e.key # k
    BY <1>2, <1>4, <1>6, <2>1, <2>2 DEF Story, On
  <2>3. CASE e.key = k
    BY <1>2, <1>4, <1>6, <2>1, <2>3 DEF Story, On
  <2> QED
    BY <2>2, <2>3
<1> QED
  BY <1>5, <1>6

\* The handler goes on, or a cleanup forgets its pod.
LEMMA CalmKeepsStory ==
    ASSUME TypeOK, NEW k \in PodKeys, Story(k), CalmStep
    PROVE  Story(k)'
<1>1. queue' = queue /\ pods' = pods
  BY DEF CalmStep, watch
<1>2. On(k)' => On(k)
  BY DEF CalmStep, HandlerMoves, On, Idle
<1>3. \/ info'[k].uid = 0
      \/ info'[k] = info[k]
      \/ h.pc = "getnode" /\ h'.pc # "getnode" /\ h.ev.key = k /\ info'[k].uid = h.pod.uid
  BY DEF CalmStep, InfoMoves, NoInfo
<1>4. h'.pc \in {"getnode", "crash"} /\ h'.ev.key = k =>
         \/ h'.pod.uid = pods[k].uid
         \/ h.pc \in {"getnode", "crash"} /\ h.ev.key = k /\ h'.pod = h.pod
  BY DEF CalmStep, HandlerMoves, Idle
<1>5. h'.pc \in {"lock", "getpod", "getnode"} =>
         h.pc \in {"lock", "getpod", "getnode"} /\ h'.ev = h.ev
  BY DEF CalmStep, HandlerMoves, Idle
<1>6. h.pc = "getnode" /\ h'.pc # "getnode" => h'.pc \notin {"lock", "getpod", "getnode"}
  BY DEF CalmStep, HandlerMoves, Idle
<1>7. info'[k].uid # 0 \/ On(k)' => Renewed(queue, k)
  BY <1>2, <1>3 DEF Story, On
<1>8. info'[k].uid # 0 /\ info'[k].uid # pods[k].uid => Gone(queue, k)
  BY <1>3 DEF Story
<1>9. h'.pc \in {"getnode", "crash"} /\ h'.ev.key = k /\ h'.pod.uid # pods[k].uid =>
         Gone(queue, k)
  BY <1>4 DEF Story
<1>10. On(k)' /\ pods[k].uid = 0 => Gone(queue, k)
  BY <1>2 DEF Story
<1>11. h'.pc \in {"lock", "getpod", "getnode"} /\ h'.ev.key = k /\ h'.ev.type = "Added" =>
          info'[k].uid = 0
  BY <1>3, <1>5, <1>6 DEF Story
<1> QED
  BY <1>1, <1>7, <1>8, <1>9, <1>10, <1>11 DEF Story

\* A cleanup is started for the node of the pod: a podInfo entry the handler prefers
\* to what it has just read is of the same pod.
LEMMA JobsStayRight ==
    ASSUME TypeOK, TypeOK', Copies, [Next]_vars, \A k \in PodKeys : Story(k), JobsRight
    PROVE  JobsRight'
<1> SUFFICES ASSUME NEW t \in Threads, job'[t].pc # "idle"
             PROVE  CopyOf(job[t].key, job[t].uid, job[t].node)'
  BY DEF JobsRight
<1>1. job'[t].key \in PodKeys /\ job'[t].uid \in Nat
  <2>1. job'[t] \in Job
    BY DEF TypeOK
  <2> QED
    BY <2>1, Bounds DEF Job
<1>2. SUFFICES CopyOf(job'[t].key, job'[t].uid, job'[t].node)
  <2>1. /\ job'[t].uid <= lastUID'
        /\ pods'[job'[t].key].uid = job'[t].uid => pods'[job'[t].key].node = job'[t].node
    BY <1>1, <1>2, CopyKept
  <2>2. job'[t].uid # 0 /\ job'[t].node # NoNode
    BY <1>2 DEF CopyOf
  <2> QED
    BY <2>1, <2>2 DEF CopyOf
<1>3. CASE GoesOn(t)
  BY <1>3 DEF GoesOn, JobsRight
<1>4. CASE StartedByHandler(t)
  <2> DEFINE k == h.ev.key
  <2>1. /\ k \in PodKeys /\ h.ev \in Event /\ h.ev.type # "Deleted"
        /\ CopyOf(k, h.pod.uid, h.pod.node)
    BY <1>4, HandlerFields DEF StartedByHandler, TypeOK, Copies, HandlerCopy
  <2>2. h.ev.type # "Modified" => info[k].uid = 0
    <3>1. h.ev.type # "Modified" => h.ev.type = "Added"
      BY <2>1 DEF Event
    <3> QED
      BY <1>4, <2>1, <3>1 DEF StartedByHandler, Story
  <2> QED
    BY <1>4, <2>1, <2>2 DEF StartedByHandler
<1>5. CASE StartedByMonitor(t)
  BY <1>5 DEF StartedByMonitor, Copies, InfoCopy
<1> QED
  BY <1>3, <1>4, <1>5, JobChanges DEF JobChange

\* As long as no watch event is lost, the events to come tell the whole story.
LEMMA NoneLostCorrect == Spec => []NoneLost
<1>1. Init => NoneLost
  BY DEF Init, NoneLost, Story, JobsRight, InTurn, Renewed, Ended, Gone, On, Idle, NoJob, NoInfo,
         NoPod
<1>2. ASSUME TypeOK, TypeOK', Copies, NoneLost, [Next]_vars PROVE NoneLost'
  <2> SUFFICES ASSUME disruptions' = 0
               PROVE  watching' /\ (\A k \in PodKeys : Story(k)') /\ JobsRight'
    BY DEF NoneLost
  <2>1. CASE CalmStep
    <3>1. watching' = watching /\ disruptions' = disruptions
      BY <2>1 DEF CalmStep, watch
    <3> QED
      BY <1>2, <2>1, <3>1, CalmKeepsStory, JobsStayRight DEF NoneLost
  <2>2. ASSUME NEW k \in PodKeys, NEW type \in {"Added", "Modified", "Deleted"},
               PodEvent(k, type)
        PROVE  watching' /\ (\A j \in PodKeys : Story(j)') /\ JobsRight'
    <3>1. watching' = watching /\ disruptions' = disruptions
      BY <2>2 DEF PodEvent, Emit
    <3> QED
      BY <1>2, <2>2, <3>1, PodEventKeepsStory, JobsStayRight DEF NoneLost
  <2>3. CASE TakeEvent
    <3>1. watching' = watching /\ disruptions' = disruptions
      BY <2>3 DEF TakeEvent
    <3> QED
      BY <1>2, <2>3, <3>1, TakeKeepsStory, JobsStayRight DEF NoneLost
  <2>4. CASE Disconnect \/ Restart
    <3>1. disruptions' = disruptions + 1 /\ disruptions \in Nat
      BY <2>4, <1>2, Bounds DEF Disconnect, Restart, TypeOK
    <3> QED
      BY <3>1
  <2>5. CASE Reconnect
    BY <1>2, <2>5 DEF Reconnect, NoneLost
  <2> QED
    BY <1>2, <2>1, <2>2, <2>3, <2>4, <2>5, StepKinds
<1> QED
  BY <1>1, <1>2, TypeCorrect, CopiesCorrect, PTL DEF Spec

\* As long as no watch event is lost, a cleanup past its UID check whose pod still
\* exists fences the node that pod runs on, however the handler, the cleanups and the
\* array monitor interleave.
THEOREM NodeIsRight == Spec => [](disruptions = 0 => RightNode)
<1>1. TypeOK /\ NoneLost => (disruptions = 0 => RightNode)
  BY DEF NoneLost, JobsRight, RightNode, CopyOf, Busy, PastFence
<1> QED
  BY <1>1, NoneLostCorrect, TypeCorrect, PTL

\* So a pod is force-deleted only when the node it runs on is fenced: the disagreement
\* run Controller_stalenode shows needs a lost watch event or a restart.
THEOREM PodIsFenced == Spec => [](disruptions = 0 => FencedBeforeForceDelete)
<1>1. TypeOK /\ DeleteOnlyFenced /\ (disruptions = 0 => RightNode) =>
         (disruptions = 0 => FencedBeforeForceDelete)
  BY DEF RightNode, DeleteOnlyFenced, FencedBeforeForceDelete, Busy, PastFence
<1> QED
  BY <1>1, NodeIsRight, FencingCorrect, TypeCorrect, PTL

\* When podmon has caught up and never lost a watch event, no podInfo entry is of a
\* pod that is gone.
THEOREM NothingStale == Spec => []NoStaleInfo
<1>1. NoneLost => NoStaleInfo
  <2> SUFFICES ASSUME NoneLost, Quiet, disruptions = 0, NEW k \in PodKeys
               PROVE  info[k].uid \in {0, pods[k].uid}
    BY DEF NoStaleInfo
  <2>1. Story(k) /\ queue = << >>
    BY DEF NoneLost, Quiet
  <2>2. ~Gone(queue, k)
    BY <2>1 DEF Gone
  <2> QED
    BY <2>1, <2>2 DEF Story
<1> QED
  BY <1>1, NoneLostCorrect, PTL

-----------------------------------------------------------------------------
(* Ready pods. *)

\* The list a new watch sends has every pod.
LEMMA ListIsPending ==
    ASSUME NEW S, S \subseteq PodKeys, NEW k \in S,
           NEW q \in SetToSeqs({[type |-> "Added", key |-> x] : x \in S})
    PROVE  Pending(q, k)
<1> DEFINE E == {[type |-> "Added", key |-> x] : x \in S}
           e == [type |-> "Added", key |-> k]
<1>1. IsFiniteSet(S)
  BY ConstantsAssumption, FS_Subset
<1>2. IsFiniteSet(E)
  <2> DEFINE f == [x \in S |-> [type |-> "Added", key |-> x]]
  <2>1. f \in Surjection(S, E)
    BY DEF Surjection
  <2> QED
    BY <1>1, <2>1, FS_Surjection
<1>3. Cardinality(E) \in Nat
  BY <1>2, FS_CardinalityType
<1>4. /\ q \in [1..Cardinality(E) -> E]
      /\ \A i, j \in 1..Cardinality(E) : i # j => q[i] # q[j]
  BY DEF SetToSeqs
<1>5. e \in E /\ e.key = k /\ e.type = "Added" /\ \A x \in E : x.type = "Added"
  OBVIOUS
<1> HIDE DEF E, e
<1>6. q \in Injection(1..Cardinality(E), E)
  BY <1>4 DEF Injection, IsInjective
<1>7. Cardinality(1..Cardinality(E)) = Cardinality(E)
  <2>1. Cardinality(1..Cardinality(E)) =
          IF 1 > Cardinality(E) THEN 0 ELSE Cardinality(E) - 1 + 1
    BY <1>3, FS_Interval
  <2> QED
    BY <1>3, <2>1
<1>8. q \in Surjection(1..Cardinality(E), E)
  BY <1>2, <1>6, <1>7, FS_Injection
<1>9. PICK i \in 1..Cardinality(E) : q[i] = e
  BY <1>5, <1>8 DEF Surjection
<1>10. Len(q) = Cardinality(E) /\ \A j \in 1..Cardinality(E) : q[j].type = "Added"
  BY <1>3, <1>4, <1>5
<1>11. Live(q, i, k) /\ \A j \in 1..Len(q) : ~Dead(q, j, k)
  BY <1>5, <1>9, <1>10 DEF Live, Dead
<1> QED
  BY <1>10, <1>11 DEF Pending

\* A pod whose podInfo podmon is to keep.
Cared(k) == pods[k].ready /\ ~(IgnoreVolumelessPods /\ VolsOf[k] = {})

\* While the watch is up: of a pod that exists an event follows the deletion of an
\* earlier one, the copy the handler has of an earlier one, and the cleanup about to
\* forget the key; and a Ready pod is recorded, or about to be.
Comes(k) ==
    watching =>
       /\ pods[k].uid # 0 /\ Gone(queue, k) => Pending(queue, k)
       /\ h.pc \in {"getnode", "crash"} /\ h.ev.key = k /\ pods[k].uid \notin {0, h.pod.uid} =>
             Pending(queue, k)
       /\ \A t \in Threads :
             job[t].pc = "forget" /\ job[t].key = k /\ pods[k].uid # 0 =>
                Pending(queue, k) \/ (h.pc = "lock" /\ h.ev.key = k)
       /\ ~APIFaults /\ Cared(k) =>
             \/ Pending(queue, k)
             \/ h.pc \in {"lock", "getpod"} /\ h.ev.key = k
             \/ /\ h.pc = "getnode" /\ h.ev.key = k
                /\ h.pod.uid = pods[k].uid /\ h.pod.ready
             \/ info[k].uid = pods[k].uid /\ info[k].node = pods[k].node

\* A pending event is all it takes.
LEMMA PendingSuffices ==
    ASSUME NEW k, Pending(queue', k)
    PROVE  Comes(k)'
BY DEF Comes

\* A cleanup gets to forget only a pod that is gone.
LEMMA ForgetsTheGone ==
    ASSUME TypeOK, [Next]_vars, NEW t \in Threads, job'[t].pc = "forget"
    PROVE  /\ job'[t].key = job[t].key
           /\ job[t].pc = "forget" \/ pods'[job[t].key].uid = 0
BY JobChanges DEF JobChange, GoesOn, StartedByHandler, StartedByMonitor

\* A pod that is Ready exists, on a node.
LEMMA CaredExists ==
    ASSUME PodsNumbered, NEW k \in PodKeys, Cared(k)
    PROVE  pods[k].uid # 0 /\ pods[k].node # NoNode
BY DEF PodsNumbered, Cared, NoPod

\* A change of pod j.
LEMMA PodEventComes ==
    ASSUME TypeOK, [Next]_vars, NEW k \in PodKeys, Comes(k), NEW j \in PodKeys,
           NEW type \in {"Added", "Modified", "Deleted"}, PodEvent(j, type)
    PROVE  Comes(k)'
<1> SUFFICES ASSUME watching PROVE Comes(k)'
  BY DEF Comes, PodEvent, Emit
<1> DEFINE e == [type |-> type, key |-> j]
<1>1. e \in Event /\ e.type = type /\ e.key = j
  BY DEF Event
<1>2. queue' = Append(queue, e)
  BY Zenon DEF PodEvent, Emit
<1>3. queue \in Seq(Event)
  BY DEF TypeOK
<1> HIDE DEF e
<1>4. /\ j # k /\ Gone(queue', k) => Gone(queue, k)
      /\ j # k /\ Pending(queue, k) => Pending(queue', k)
      /\ j = k /\ type # "Deleted" => Pending(queue', k)
  BY <1>1, <1>2, <1>3, AppendStory
<1>5. (h' = h \/ (h.pc = "crash" /\ h'.pc = "idle")) /\ info' = info
  BY DEF PodEvent, Idle
<1>6. CASE j # k
  <2>1. pods'[k] = pods[k]
    BY <1>6 DEF PodEvent
  <2>2. pods'[k].uid # 0 /\ Gone(queue', k) => Pending(queue', k)
    BY <1>4, <1>6, <2>1 DEF Comes
  <2>3. h'.pc \in {"getnode", "crash"} /\ h'.ev.key = k
           /\ pods'[k].uid \notin {0, h'.pod.uid} => Pending(queue', k)
    BY <1>4, <1>5, <1>6, <2>1 DEF Comes
  <2>4. ASSUME NEW t \in Threads, job'[t].pc = "forget", job'[t].key = k, pods'[k].uid # 0
        PROVE  Pending(queue', k) \/ (h'.pc = "lock" /\ h'.ev.key = k)
    <3>1. job[t].pc = "forget" /\ job[t].key = k
      BY <2>4, ForgetsTheGone
    <3> QED
      BY <1>4, <1>5, <1>6, <2>1, <2>4, <3>1 DEF Comes
  <2>5. ~APIFaults /\ Cared(k)' =>
             \/ Pending(queue', k)
             \/ h'.pc \in {"lock", "getpod"} /\ h'.ev.key = k
             \/ /\ h'.pc = "getnode" /\ h'.ev.key = k
                /\ h'.pod.uid = pods'[k].uid /\ h'.pod.ready
             \/ info'[k].uid = pods'[k].uid /\ info'[k].node = pods'[k].node
    BY <1>4, <1>5, <1>6, <2>1 DEF Comes, Cared
  <2> QED
    BY <2>2, <2>3, <2>4, <2>5 DEF Comes
<1>7. CASE j = k /\ type # "Deleted"
  BY <1>4, <1>7, PendingSuffices
<1>8. CASE j = k /\ type = "Deleted"
  <2>1. pods'[k].uid = 0 /\ pods'[k].ready = FALSE
    BY <1>8 DEF PodEvent, NoPod
  <2> QED
    BY <2>1 DEF Comes, Cared
<1> QED
  BY <1>6, <1>7, <1>8

\* The handler takes the next event.
LEMMA TakeComes ==
    ASSUME TypeOK, PodsNumbered, NEW k \in PodKeys, Comes(k), TakeEvent
    PROVE  Comes(k)'
<1> DEFINE e == Head(queue)
<1>1. queue \in Seq(Event) /\ queue # << >> /\ queue' = Tail(queue) /\ h.pc = "idle"
  BY DEF TypeOK, TakeEvent, Idle
<1>2. watching' = watching /\ pods' = pods /\ job' = job
  BY DEF TakeEvent, cluster
<1> SUFFICES ASSUME watching PROVE Comes(k)'
  BY <1>2 DEF Comes
<1>3. /\ e.key # k /\ Pending(queue, k) => Pending(queue', k)
      /\ e.type = "Deleted" /\ Pending(queue, k) => Pending(queue', k)
      /\ Gone(queue', k) /\ Pending(queue, k) => Pending(queue', k)
      /\ Gone(queue', k) => Gone(queue, k)
  BY <1>1, TailStory
<1>4. e \in Event /\ e.key \in PodKeys
  <2>1. e \in Event
    BY <1>1
  <2> QED
    BY <2>1 DEF Event
<1>5. e.key = k /\ e.type = "Deleted" => Gone(queue, k)
  <2>1. e = queue[1] /\ 1 \in 1..Len(queue)
    BY <1>1, TailEvents
  <2> QED
    BY <2>1 DEF Gone, Dead
<1>6. \/ e.type = "Deleted" /\ info' = [info EXCEPT ![e.key] = NoInfo] /\ h' = h
      \/ e.type # "Deleted" /\ info' = info /\ h' = [pc |-> "lock", ev |-> e]
  BY DEF TakeEvent
<1> HIDE DEF e
<1>7. CASE e.key # k
  <2>1. info'[k] = info[k]
    BY <1>4, <1>6, <1>7 DEF TypeOK
  <2>2. h'.pc = "idle" \/ (h'.pc = "lock" /\ h'.ev.key # k)
    BY <1>1, <1>6, <1>7
  <2>3. pods[k].uid # 0 /\ Gone(queue', k) => Pending(queue', k)
    BY <1>3, <1>7 DEF Comes
  <2>4. \A t \in Threads :
           job[t].pc = "forget" /\ job[t].key = k /\ pods[k].uid # 0 => Pending(queue', k)
    BY <1>1, <1>3, <1>7 DEF Comes
  <2>5. ~APIFaults /\ Cared(k) =>
           \/ Pending(queue', k)
           \/ info'[k].uid = pods[k].uid /\ info'[k].node = pods[k].node
    BY <1>1, <1>3, <1>7, <2>1 DEF Comes
  <2>6. Cared(k)' <=> Cared(k)
    BY <1>2 DEF Cared
  <2> QED
    BY <1>2, <2>2, <2>3, <2>4, <2>5, <2>6 DEF Comes
<1>8. CASE e.key = k /\ e.type = "Deleted"
  <2>1. CASE pods[k].uid # 0
    <3>1. Pending(queue', k)
      BY <1>3, <1>5, <1>8, <2>1 DEF Comes
    <3> QED
      BY <3>1, PendingSuffices
  <2>2. CASE pods[k].uid = 0
    <3>1. pods[k].ready = FALSE
      BY <2>2 DEF PodsNumbered, NoPod
    <3> QED
      BY <1>2, <2>2, <3>1 DEF Comes, Cared
  <2> QED
    BY <2>1, <2>2
<1>9. CASE e.key = k /\ e.type # "Deleted"
  <2>1. h'.pc = "lock" /\ h'.ev.key = k
    BY <1>6, <1>9
  <2>2. pods[k].uid # 0 /\ Gone(queue', k) => Pending(queue', k)
    BY <1>3 DEF Comes
  <2> QED
    BY <1>2, <2>1, <2>2 DEF Comes
<1> QED
  BY <1>7, <1>8, <1>9

\* The handler goes on, or a cleanup forgets its pod.
LEMMA CalmComes ==
    ASSUME TypeOK, Copies, LockOwnership, [Next]_vars, NEW k \in PodKeys, Comes(k), CalmStep
    PROVE  Comes(k)'
<1>1. watching' = watching /\ queue' = queue /\ pods' = pods
  BY DEF CalmStep, watch
<1> SUFFICES ASSUME watching, ~Pending(queue, k) PROVE Comes(k)'
  BY <1>1, PendingSuffices DEF Comes
<1>2. ~(pods[k].uid # 0 /\ Gone(queue', k))
  BY <1>1 DEF Comes
<1>3. h'.pc \in {"getnode", "crash"} /\ h'.ev.key = k => pods[k].uid \in {0, h'.pod.uid}
  <2>1. h'.pc \in {"getnode", "crash"} /\ h'.ev.key = k =>
         \/ h'.pod.uid = pods[k].uid
         \/ h.pc \in {"getnode", "crash"} /\ h.ev.key = k /\ h'.pod = h.pod
    BY DEF CalmStep, HandlerMoves, Idle
  <2> QED
    BY <2>1 DEF Comes
<1>4. ASSUME NEW t \in Threads, job[t].pc = "forget", job[t].key = k, pods[k].uid # 0
      PROVE  h.pc = "lock" /\ h.ev.key = k /\ h' = h
  <2>1. h.pc = "lock" /\ h.ev.key = k
    BY <1>4 DEF Comes
  <2>2. k \in locks
    BY <1>4 DEF LockOwnership, JobHolds, Busy
  <2> QED
    BY <2>1, <2>2 DEF CalmStep, HandlerMoves
<1>5. ASSUME NEW t \in Threads, job'[t].pc = "forget", job'[t].key = k, pods'[k].uid # 0
      PROVE  h'.pc = "lock" /\ h'.ev.key = k
  <2>1. job[t].pc = "forget" /\ job[t].key = k
    BY <1>5, ForgetsTheGone
  <2> QED
    BY <1>1, <1>4, <1>5, <2>1
<1>6. ASSUME ~APIFaults, Cared(k)
      PROVE  \/ h'.pc \in {"lock", "getpod"} /\ h'.ev.key = k
             \/ /\ h'.pc = "getnode" /\ h'.ev.key = k
                /\ h'.pod.uid = pods[k].uid /\ h'.pod.ready
             \/ info'[k].uid = pods[k].uid /\ info'[k].node = pods[k].node
  <2>1. pods[k].uid # 0 /\ pods[k].node # NoNode /\ pods[k].ready
    BY <1>6, CaredExists DEF Copies, Cared
  <2>2. ASSUME h.pc = "getnode", h.ev.key = k
        PROVE  h.pod.uid = pods[k].uid /\ h.pod.node = pods[k].node
    <3>1. h.pod.uid = pods[k].uid
      BY <2>1, <2>2 DEF Comes
    <3> QED
      BY <2>2, <3>1 DEF Copies, HandlerCopy, CopyOf
  <2>3. CASE h.pc \in {"lock", "getpod"} /\ h.ev.key = k
    <3>1. \/ h' = h
          \/ h'.pc = "getpod" /\ h'.ev = h.ev
          \/ h'.pc = "getnode" /\ h'.ev = h.ev /\ h'.pod = pods[k]
      BY <1>6, <2>1, <2>3 DEF CalmStep, HandlerMoves
    <3> QED
      BY <2>1, <2>3, <3>1
  <2>4. CASE h.pc = "getnode" /\ h.ev.key = k /\ h.pod.ready
    <3>1. CASE h' = h
      BY <2>2, <2>4, <3>1
    <3>2. CASE h'.pc # "getnode"
      <4>1. info'[k].uid = h.pod.uid /\ info'[k].node = h.pod.node
        BY <1>6, <2>4, <3>2 DEF CalmStep, ReadyStored, Cared
      <4> QED
        BY <2>2, <2>4, <4>1
    <3>3. h' = h \/ h'.pc # "getnode"
      BY <2>4 DEF CalmStep, HandlerMoves, Idle
    <3> QED
      BY <3>1, <3>2, <3>3
  <2>5. CASE info[k].uid = pods[k].uid /\ info[k].node = pods[k].node
    <3>1. CASE info'[k] = info[k]
      BY <2>5, <3>1
    <3>2. CASE \E t \in Threads : job[t].pc = "forget" /\ job[t].key = k
      BY <1>4, <2>1, <3>2
    <3>3. CASE /\ h.pc = "getnode" /\ h.ev.key = k
               /\ info'[k].uid = h.pod.uid /\ info'[k].node = h.pod.node
      BY <2>2, <3>3
    <3> QED
      BY <3>1, <3>2, <3>3 DEF CalmStep, InfoMoves
  <2> QED
    BY <1>6, <2>3, <2>4, <2>5 DEF Comes
<1>7. Cared(k)' <=> Cared(k)
  BY <1>1 DEF Cared
<1> QED
  BY <1>1, <1>2, <1>3, <1>5, <1>6, <1>7 DEF Comes

\* Whatever watch events are lost, what is to come of a pod makes up for what podmon
\* has missed of it or is about to forget.
LEMMA ComesCorrect == Spec => [](\A k \in PodKeys : Comes(k))
<1> DEFINE Inv == \A k \in PodKeys : Comes(k)
<1>1. Init => Inv
  BY DEF Init, Comes, Cared, Gone, Idle, NoJob, NoPod
<1>2. ASSUME TypeOK, Copies, LockOwnership, Inv, [Next]_vars PROVE Inv'
  <2> SUFFICES ASSUME NEW k \in PodKeys PROVE Comes(k)'
    OBVIOUS
  <2>1. Comes(k) /\ PodsNumbered
    BY <1>2 DEF Copies
  <2>2. CASE CalmStep
    BY <1>2, <2>1, <2>2, CalmComes
  <2>3. CASE \E j \in PodKeys, type \in {"Added", "Modified", "Deleted"} : PodEvent(j, type)
    BY <1>2, <2>1, <2>3, PodEventComes
  <2>4. CASE TakeEvent
    BY <1>2, <2>1, <2>4, TakeComes
  <2>5. CASE Disconnect \/ Restart
    BY <2>5 DEF Disconnect, Restart, Comes
  <2>6. CASE Reconnect
    <3> DEFINE S == {x \in PodKeys : pods[x] # NoPod}
    <3>1. queue' \in SetToSeqs({[type |-> "Added", key |-> x] : x \in S}) /\ pods' = pods
      BY <2>6 DEF Reconnect, cluster
    <3>2. CASE k \in S
      <4>1. Pending(queue', k)
        BY <3>1, <3>2, ListIsPending
      <4> QED
        BY <4>1, PendingSuffices
    <3>3. CASE k \notin S
      <4>1. pods'[k].uid = 0 /\ pods'[k].ready = FALSE
        BY <3>1, <3>3 DEF NoPod
      <4> QED
        BY <4>1 DEF Comes, Cared
    <3> QED
      BY <3>2, <3>3
  <2> QED
    BY <1>2, <2>2, <2>3, <2>4, <2>5, <2>6, StepKinds
<1> QED
  BY <1>1, <1>2, TypeCorrect, CopiesCorrect, LocksCorrect, PTL DEF Spec

\* When podmon has caught up and no call fails, every Ready pod is recorded with its
\* UID and node, whatever watches were lost and however often podmon was restarted.
THEOREM ReadyIsTracked == Spec => []ReadyTracked
<1>1. (\A k \in PodKeys : Comes(k)) => ReadyTracked
  <2> SUFFICES ASSUME NEW k \in PodKeys, Comes(k), Quiet, ~APIFaults, Cared(k)
               PROVE  info[k].uid = pods[k].uid /\ info[k].node = pods[k].node
    BY DEF ReadyTracked, Cared
  <2>1. watching /\ queue = << >> /\ h.pc = "idle"
    BY DEF Quiet, Idle
  <2>2. ~Pending(queue, k)
    BY <2>1 DEF Pending
  <2> QED
    BY <2>1, <2>2 DEF Comes
<1> QED
  BY <1>1, ComesCorrect, PTL
=============================================================================
