--------------------------- MODULE NodePodmonProofs ---------------------------
(***************************************************************************)
(* Proofs for NodePodmon: types, which pods nodeModeCleanupPods chooses as *)
(* long as the API server answers, and what it has cleaned up when it      *)
(* removes the taint.                                                      *)
(***************************************************************************)
EXTENDS NodePodmon, FiniteSetTheorems, TLAPS

\* A pod that exists, the watch thread with an entry to store, and a run of
\* nodeModeCleanupPods that is under way.
Real == [uid : UIDs, here : BOOLEAN, st : {"bound", "active", "done"}]
Store == [pc : {"store"}, key : PodKeys, entry : Entry,
          existing : 0..Cardinality(Volumes)]
Pass == [pc : {"scan", "recheck", "clean", "untaint"}, containers : SUBSET UIDs,
         todo : SUBSET PodKeys, key : PodKeys \cup {""}, entry : Entry,
         chosen : [PodKeys -> Entry], blocked : BOOLEAN, due : SUBSET (UIDs \X Volumes)]

-----------------------------------------------------------------------------
(* Types. *)

\* A run of a thread that is not idle has the fields of one.
LEMMA ThreadTypes ==
  /\ Handler = [pc : {"idle"}] \cup Store
  /\ Monitor = [pc : {"idle"}] \cup Pass
  /\ Idle \in Handler /\ Idle \in Monitor
  /\ \A x \in Handler : x.pc = "store" => x \in Store
  /\ \A x \in Monitor : x.pc # "idle" => x \in Pass
  /\ \A x \in Monitor : x # Idle => x \in Pass
  /\ \A x \in Pass : x.pc # "idle"
<1>1. Handler = [pc : {"idle"}] \cup Store /\ Monitor = [pc : {"idle"}] \cup Pass
  BY DEF Handler, Monitor, Store, Pass
<1>2. Idle \in [pc : {"idle"}] /\ \A x \in [pc : {"idle"}] : x.pc = "idle" /\ x = Idle
  BY DEF Idle
<1>3. (\A x \in Store : x.pc = "store") /\ \A x \in Pass : x.pc # "idle"
  BY DEF Store, Pass
<1> QED  BY <1>1, <1>2, <1>3

\* A pod of this node is a pod object.
LEMMA HereIsReal ==
  ASSUME NEW x \in Pod, x.here
  PROVE  x \in Real
  BY DEF Pod, Real, NoPod

\* No entry and no pod are of their type.
LEMMA NoTypes == NoEntry \in Entry /\ NoPod \in Pod /\ 0 \in 0..MaxUID
<1>1. 0 \in 0..MaxUID
  BY ConstantsAssumption
<1>2. NoEntry \in Entry
  BY <1>1 DEF NoEntry, Entry
<1> QED  BY <1>1, <1>2 DEF Pod

\* The event of a pod.
LEMMA EventType ==
  ASSUME NEW ty \in {"Modified", "Deleted"}, NEW k \in PodKeys, NEW x \in Real
  PROVE  EventOf(ty, k, x) \in Event
  BY DEF EventOf, Event, Real

\* What is emitted keeps the queue a sequence of events.
LEMMA EmitType ==
  ASSUME queue \in Seq(Event), NEW ty \in {"Modified", "Deleted"}, NEW k \in PodKeys,
         NEW x \in Pod, Emit(ty, k, x)
  PROVE  queue' \in Seq(Event)
<1>1. CASE apiUp /\ x.here
  <2>1. EventOf(ty, k, x) \in Event
    BY <1>1, HereIsReal, EventType
  <2> QED  BY <1>1, <2>1 DEF Emit
<1>2. CASE ~(apiUp /\ x.here)
  BY <1>2 DEF Emit
<1> QED  BY <1>1, <1>2

\* The list a new watch begins with is one of events of the pods there are: they
\* are finitely many.
LEMMA RelistType ==
  ASSUME pods \in [PodKeys -> Pod], NEW list \in Relists
  PROVE  /\ list \in Seq(Event)
         /\ \A i \in 1..Len(list) : \E k \in PodKeys :
               pods[k].here /\ list[i].key = k /\ list[i].uid = pods[k].uid
<1> DEFINE S == {x \in PodKeys : pods[x].here}
           T == {EventOf("Modified", k, pods[k]) : k \in S}
           f == [k \in S |-> EventOf("Modified", k, pods[k])]
<1>1. IsFiniteSet(S)
  BY FS_Subset, ConstantsAssumption
<1>2. f \in Surjection(S, T)
  BY DEF Surjection
<1>3. IsFiniteSet(T)
  BY <1>1, <1>2, FS_Surjection
<1>4. Cardinality(T) \in Nat
  BY <1>3, FS_CardinalityType
<1>5. T \subseteq Event
  BY HereIsReal, EventType
<1>6. list \in [1..Cardinality(T) -> T]
  BY DEF Relists, SetToSeqs
<1>7. \A e \in T : \E k \in PodKeys : pods[k].here /\ e.key = k /\ e.uid = pods[k].uid
  BY DEF EventOf
<1> HIDE DEF T
<1>8. list \in Seq(Event) /\ Len(list) = Cardinality(T)
  BY <1>4, <1>5, <1>6
<1> QED  BY <1>6, <1>7, <1>8

\* What an outage and its end leave of the queue.
LEMMA LinkQueue ==
  ASSUME queue \in Seq(Event), pods \in [PodKeys -> Pod], LinkDown \/ LinkUp
  PROVE  /\ queue' \in Seq(Event)
         /\ \A i \in 1..Len(queue') :
               \/ i \in 1..Len(queue) /\ queue'[i] = queue[i]
               \/ \E k \in PodKeys : /\ pods[k].here /\ queue'[i].key = k
                                     /\ queue'[i].uid = pods[k].uid
<1>1. Len(queue) \in Nat
  OBVIOUS
<1>2. CASE LinkDown
  <2>1. PICK n \in 0..Len(queue) : queue' = SubSeq(queue, 1, n)
    BY <1>2 DEF LinkDown
  <2>2. /\ queue' \in Seq(Event) /\ Len(queue') = n
        /\ \A i \in 1..n : queue'[i] = queue[i]
    BY <1>1, <2>1
  <2> QED  BY <1>1, <2>2
<1>3. CASE LinkUp
  <2>1. PICK list \in Relists : queue' = queue \o list
    BY <1>3 DEF LinkUp
  <2>2. /\ list \in Seq(Event)
        /\ \A i \in 1..Len(list) : \E k \in PodKeys :
              pods[k].here /\ list[i].key = k /\ list[i].uid = pods[k].uid
    BY RelistType
  <2>3. /\ queue' \in Seq(Event) /\ Len(queue') = Len(queue) + Len(list)
        /\ Len(list) \in Nat
        /\ \A i \in 1..Len(queue') :
              queue'[i] = IF i <= Len(queue) THEN queue[i] ELSE list[i - Len(queue)]
    BY <2>1, <2>2
  <2>4. ASSUME NEW i \in 1..Len(queue')
        PROVE  \/ i \in 1..Len(queue) /\ queue'[i] = queue[i]
               \/ i - Len(queue) \in 1..Len(list) /\ queue'[i] = list[i - Len(queue)]
    BY <1>1, <2>3
  <2> QED  BY <2>2, <2>3, <2>4
<1> QED  BY <1>2, <1>3

\* The failed calls stay within their bound.
LEMMA FailsType ==
  ASSUME faults \in 0..MaxFaults, NEW ok, FailsUnless(ok)
  PROVE  faults' \in 0..MaxFaults
  BY ConstantsAssumption DEF FailsUnless

\* An operator who removes the taint changes of a pass only what it owes.
LEMMA UntaintFacts ==
  ASSUME TypeOK, OperatorUntaint
  PROVE  /\ m' \in Monitor /\ m'.pc = m.pc
         /\ UNCHANGED <<pods, lastUID, forced, mounts, queue, h, keymap, apiUp>>
         /\ m.pc # "idle" =>
               /\ m' \in Pass /\ m'.due = {}
               /\ m'.todo = m.todo /\ m'.key = m.key /\ m'.entry = m.entry
               /\ m'.chosen = m.chosen /\ m'.blocked = m.blocked
<1>1. UNCHANGED <<pods, lastUID, forced, mounts, queue, h, keymap, apiUp>>
  BY DEF OperatorUntaint, kubelet, link
<1>2. CASE m.pc = "idle"
  BY <1>1, <1>2 DEF OperatorUntaint, TypeOK
<1>3. CASE m.pc # "idle"
  <2>1. m \in Pass /\ m' = [m EXCEPT !.due = {}]
    BY <1>3, ThreadTypes DEF OperatorUntaint, TypeOK
  <2>2. /\ m' \in Pass /\ m'.due = {} /\ m'.pc = m.pc
        /\ m'.todo = m.todo /\ m'.key = m.key /\ m'.entry = m.entry
        /\ m'.chosen = m.chosen /\ m'.blocked = m.blocked
    BY <2>1 DEF Pass
  <2> QED  BY <1>1, <1>3, <2>2, ThreadTypes
<1> QED  BY <1>2, <1>3

\* The steps of the API server, the scheduler and the controller podmon.
LEMMA ClusterType == TypeOK /\ Cluster => TypeOK'
<1> SUFFICES ASSUME TypeOK, Cluster
             PROVE  TypeOK'
  OBVIOUS
<1> USE DEF TypeOK, api, kubelet, link, loop
<1>1. ASSUME NEW k \in PodKeys, NEW here \in BOOLEAN, Schedule(k, here)
      PROVE  TypeOK'
  <2> DEFINE pod == [uid |-> lastUID + 1, here |-> here, st |-> "bound"]
  <2>1. lastUID + 1 \in UIDs /\ lastUID + 1 \in 0..MaxUID
    BY <1>1, ConstantsAssumption DEF Schedule, UIDs
  <2>2. pod \in Pod
    BY <2>1 DEF Pod
  <2>3. pods' = [pods EXCEPT ![k] = pod] /\ Emit("Modified", k, pod)
    BY <1>1 DEF Schedule
  <2> HIDE DEF pod
  <2>4. queue' \in Seq(Event) /\ pods' \in [PodKeys -> Pod]
    BY <2>2, <2>3, EmitType
  <2> QED  BY <1>1, <2>1, <2>4 DEF Schedule
<1>2. ASSUME NEW k \in PodKeys, Finish(k)
      PROVE  TypeOK'
  <2> DEFINE pod == [pods[k] EXCEPT !.st = "done"]
  <2>1. pods[k] \in Real
    BY <1>2, HereIsReal DEF Finish
  <2>2. pod \in Pod
    BY <2>1 DEF Pod, Real
  <2>3. pods' = [pods EXCEPT ![k] = pod] /\ Emit("Modified", k, pods'[k])
    BY <1>2 DEF Finish
  <2> HIDE DEF pod
  <2>4. pods' \in [PodKeys -> Pod] /\ pods'[k] \in Pod
    BY <2>2, <2>3
  <2>5. queue' \in Seq(Event)
    BY <2>3, <2>4, EmitType
  <2> QED  BY <1>2, <2>4, <2>5 DEF Finish
<1>3. ASSUME NEW k \in PodKeys, Delete(k)
      PROVE  TypeOK'
  <2>1. queue' \in Seq(Event)
    BY <1>3, EmitType DEF Delete
  <2>2. pods' \in [PodKeys -> Pod]
    BY <1>3, NoTypes DEF Delete
  <2> QED  BY <1>3, <2>1, <2>2 DEF Delete
<1>4. ASSUME NEW k \in PodKeys, ControllerTaint(k)
      PROVE  TypeOK'
  <2>1. pods[k].uid \in UIDs
    BY <1>4, HereIsReal DEF ControllerTaint, Real
  <2>2. taintings' \in 0..MaxTaints
    BY <1>4, ConstantsAssumption DEF ControllerTaint
  <2>3. taint' \in BOOLEAN
    BY <1>4 DEF ControllerTaint
  <2>4. doomed' \subseteq PodKeys \X UIDs
    BY <1>4, <2>1 DEF ControllerTaint
  <2> QED  BY <1>4, <2>2, <2>3, <2>4 DEF ControllerTaint
<1>5. ASSUME NEW k \in PodKeys, NEW uid \in UIDs, ControllerDelete(k, uid)
      PROVE  TypeOK'
  <2>1. queue' \in Seq(Event)
    BY <1>5, EmitType DEF ControllerDelete
  <2>2. pods' \in [PodKeys -> Pod] /\ forced' \subseteq UIDs
    BY <1>5, NoTypes DEF ControllerDelete
  <2>3. doomed' \subseteq PodKeys \X UIDs
    BY <1>5 DEF ControllerDelete
  <2> QED  BY <1>5, <2>1, <2>2, <2>3 DEF ControllerDelete
<1>6. CASE OperatorUntaint
  <2>1. taint' \in BOOLEAN
    BY <1>6 DEF OperatorUntaint
  <2>2. m' \in Monitor
    BY <1>6, UntaintFacts
  <2> QED  BY <1>6, <2>1, <2>2 DEF OperatorUntaint
<1>7. CASE LinkDown
  <2>1. apiUp' \in BOOLEAN
    BY <1>7 DEF LinkDown
  <2>2. outages' \in 0..MaxOutages
    BY <1>7, ConstantsAssumption DEF LinkDown
  <2>3. queue' \in Seq(Event)
    BY <1>7, LinkQueue
  <2> QED  BY <1>7, <2>1, <2>2, <2>3 DEF LinkDown
<1>8. CASE LinkUp
  <2>1. apiUp' \in BOOLEAN
    BY <1>8 DEF LinkUp
  <2>2. queue' \in Seq(Event)
    BY <1>8, LinkQueue
  <2> QED  BY <1>8, <2>1, <2>2 DEF LinkUp
<1>9. CASE Restart
  <2>1. queue' \in Seq(Event)
    <3>1. queue' \in Relists \/ queue' = << >>
      BY <1>9 DEF Restart
    <3>2. << >> \in Seq(Event)
      OBVIOUS
    <3> QED  BY <3>1, <3>2, RelistType
  <2>2. faults' \in 0..MaxFaults
    BY <1>9, FailsType DEF Restart
  <2>3. keymap' \in [PodKeys -> Entry] /\ h' \in Handler /\ m' \in Monitor
    BY <1>9, NoTypes, ThreadTypes DEF Restart
  <2>4. APIConnected' \in BOOLEAN
    BY <1>9 DEF Restart
  <2>5. taintCount' \in Nat
    BY <1>9 DEF Restart
  <2>6. UNCHANGED <<api, kubelet, apiUp, outages>>
    BY <1>9 DEF Restart
  <2> QED  BY <2>1, <2>2, <2>3, <2>4, <2>5, <2>6
<1> QED  BY <1>1, <1>2, <1>3, <1>4, <1>5, <1>6, <1>7, <1>8, <1>9 DEF Cluster

\* The steps of kubelet.
LEMMA KubeletType == TypeOK /\ Kubelet => TypeOK'
<1> SUFFICES ASSUME TypeOK, Kubelet
             PROVE  TypeOK'
  OBVIOUS
<1> USE DEF TypeOK, api, kubelet, link, loop
<1>1. ASSUME NEW k \in PodKeys, Start(k)
      PROVE  TypeOK'
  <2> DEFINE pod == [pods[k] EXCEPT !.st = "active"]
  <2>1. pods[k] \in Real
    BY <1>1, HereIsReal DEF Start
  <2>2. pod \in Pod /\ pods[k].uid \in UIDs
    BY <2>1 DEF Pod, Real
  <2>3. pods' = [pods EXCEPT ![k] = pod] /\ Emit("Modified", k, pods'[k])
    BY <1>1 DEF Start
  <2> HIDE DEF pod
  <2>4. pods' \in [PodKeys -> Pod] /\ pods'[k] \in Pod
    BY <2>2, <2>3
  <2>5. queue' \in Seq(Event)
    BY <2>3, <2>4, EmitType
  <2>6. running' \subseteq UIDs
    BY <1>1, <2>2 DEF Start
  <2> QED  BY <1>1, <2>4, <2>5, <2>6 DEF Start
<1>2. ASSUME NEW k \in PodKeys, NEW v \in Volumes, Mount(k, v)
      PROVE  TypeOK'
  <2>1. pods[k].uid \in UIDs
    BY <1>2, HereIsReal DEF Mount, Real
  <2>2. mounts' \subseteq UIDs \X Volumes
    BY <1>2, <2>1 DEF Mount
  <2> QED  BY <1>2, <2>2 DEF Mount
<1>3. ASSUME NEW uid \in UIDs, Stop(uid)
      PROVE  TypeOK'
  BY <1>3 DEF Stop
<1>4. ASSUME NEW uid \in UIDs, NEW v \in Volumes, Unmount(uid, v)
      PROVE  TypeOK'
  BY <1>4 DEF Unmount
<1> QED  BY <1>1, <1>2, <1>3, <1>4 DEF Kubelet

\* The mounts of an entry can be counted.
LEMMA MountCount ==
  ASSUME NEW S \in SUBSET Volumes
  PROVE  Cardinality(S) \in 0..Cardinality(Volumes)
  BY FS_Subset, FS_CardinalityType, ConstantsAssumption

\* The volumes of a pod that a scan can find, and whether it finds them all.
Readable(uid) == IF apiUp THEN MountsOf(uid) ELSE {}
Whole == MaxFaults = 0 \/ ~ScanFaults

\* The handler's copy of the pod of an event, with the volumes it found.
LEMMA HandlePodFacts ==
  ASSUME TypeOK, HandlePod
  PROVE  /\ Head(queue) \in Event /\ queue' = Tail(queue) /\ queue' \in Seq(Event)
         /\ UNCHANGED <<api, kubelet, apiUp, outages, keymap, loop>>
         /\ faults' \in 0..MaxFaults
         /\ \/ h' = h /\ MaxFaults # 0
            \/ /\ h' \in Store /\ h'.key = Head(queue).key
               /\ h'.entry.uid = Head(queue).uid
               /\ h'.entry.mounts \subseteq MountsOf(Head(queue).uid)
               /\ h'.existing = Cardinality(keymap[h'.key].mounts)
               /\ Whole => h'.entry.mounts = Readable(Head(queue).uid)
<1> DEFINE ev == Head(queue)
           readable == Readable(ev.uid)
<1>1. ev \in Event /\ queue' = Tail(queue) /\ queue' \in Seq(Event)
      /\ UNCHANGED <<api, kubelet, apiUp, outages, keymap, loop>>
  BY DEF HandlePod, TypeOK
<1>2. /\ ev.key \in PodKeys /\ ev.uid \in UIDs /\ ev.uid \in 0..MaxUID
      /\ ev.cs \in BOOLEAN
  BY <1>1 DEF Event, UIDs
<1>3. CASE FailsUnless(FALSE) /\ UNCHANGED h
  BY <1>1, <1>3, FailsType, ConstantsAssumption DEF FailsUnless, TypeOK
<1>4. ASSUME NEW found \in SUBSET readable, found = readable \/ ScanFaults,
             FailsUnless(found = readable),
             h' = [pc |-> "store", key |-> ev.key, entry |-> Scan(ev, found),
                   existing |-> Cardinality(keymap[ev.key].mounts)]
      PROVE  /\ faults' \in 0..MaxFaults
             /\ h' \in Store /\ h'.key = ev.key /\ h'.entry.uid = ev.uid
             /\ h'.entry.mounts = found
             /\ h'.existing = Cardinality(keymap[h'.key].mounts)
             /\ found \subseteq MountsOf(ev.uid)
             /\ Whole => found = readable
  <2>1. found \subseteq MountsOf(ev.uid) /\ found \in SUBSET Volumes
    BY DEF MountsOf, Readable
  <2>2. Scan(ev, found) \in Entry
    BY <1>2, <2>1 DEF Scan, Entry
  <2>3. Cardinality(keymap[ev.key].mounts) \in 0..Cardinality(Volumes)
    BY <1>2, MountCount DEF TypeOK, Entry
  <2>4. h' \in Store
    BY <1>2, <1>4, <2>2, <2>3 DEF Store
  <2>5. h'.key = ev.key /\ h'.entry = Scan(ev, found)
        /\ h'.existing = Cardinality(keymap[ev.key].mounts)
    BY <1>4
  <2>6. faults' \in 0..MaxFaults
    BY <1>4, FailsType DEF TypeOK
  <2>7. Whole => found = readable
    BY <1>4 DEF FailsUnless, TypeOK, Whole
  <2>8. Scan(ev, found).uid = ev.uid /\ Scan(ev, found).mounts = found
    BY DEF Scan
  <2> QED  BY <2>1, <2>4, <2>5, <2>6, <2>7, <2>8
<1>5. \/ FailsUnless(FALSE) /\ UNCHANGED h
      \/ \E found \in SUBSET readable :
            /\ found = readable \/ ScanFaults
            /\ FailsUnless(found = readable)
            /\ h' = [pc |-> "store", key |-> ev.key, entry |-> Scan(ev, found),
                     existing |-> Cardinality(keymap[ev.key].mounts)]
  BY Zenon DEF HandlePod, Readable
<1> QED  BY <1>1, <1>3, <1>4, <1>5

\* The steps of the watch thread.
LEMMA HandlerType == TypeOK /\ HandlerStep => TypeOK'
<1> SUFFICES ASSUME TypeOK, HandlerStep
             PROVE  TypeOK'
  OBVIOUS
<1> USE DEF TypeOK, api, kubelet, link, loop
<1>1. CASE HandlePod
  <2>1. h' \in Handler
    BY <1>1, HandlePodFacts, ThreadTypes
  <2> QED  BY <1>1, <2>1, HandlePodFacts
<1>2. CASE StoreEntry
  <2>1. h \in Store
    BY <1>2, ThreadTypes DEF StoreEntry
  <2>2. keymap' \in [PodKeys -> Entry]
    BY <1>2, <2>1 DEF StoreEntry, Store
  <2>3. h' \in Handler
    BY <1>2, ThreadTypes DEF StoreEntry
  <2> QED  BY <1>2, <2>2, <2>3 DEF StoreEntry
<1>3. CASE HandleDeleted
  <2>1. Head(queue) \in Event /\ queue' \in Seq(Event)
    BY <1>3 DEF HandleDeleted
  <2>2. keymap' \in [PodKeys -> Entry]
    BY <1>3, <2>1, NoTypes DEF HandleDeleted, Event
  <2>3. faults' \in 0..MaxFaults
    BY <1>3, FailsType DEF HandleDeleted
  <2> QED  BY <1>3, <2>1, <2>2, <2>3 DEF HandleDeleted
<1> QED  BY <1>1, <1>2, <1>3 DEF HandlerStep

-----------------------------------------------------------------------------
(* What each step of nodeModeCleanupPods makes of its state. *)

\* A pass begins with nothing chosen.
LEMMA StartFacts ==
  ASSUME TypeOK, LoopIterate
  PROVE  /\ m = Idle /\ apiUp /\ taintCount' \in Nat
         /\ APIConnected' \in BOOLEAN /\ faults' \in 0..MaxFaults
         /\ UNCHANGED <<api, kubelet, link, h, keymap>>
         /\ \/ m' = m
            \/ /\ m' \in Pass /\ m'.pc = "scan" /\ m'.todo = PodKeys
               /\ \A k \in PodKeys : m'.chosen[k] = NoEntry
               /\ m'.due = Due /\ taint
<1>1. m = Idle /\ apiUp /\ UNCHANGED <<api, kubelet, link, h, keymap>>
  BY DEF LoopIterate
<1>2. APIConnected' \in BOOLEAN
  BY DEF LoopIterate
<1>3. taintCount' \in Nat
  <2>1. taintCount' = IF taint /\ taintCount < TaintCountDelay
                      THEN taintCount + 1 ELSE taintCount
    BY DEF LoopIterate
  <2> QED  BY <2>1 DEF TypeOK
<1>4. Due \in SUBSET (UIDs \X Volumes)
  BY DEF Due, TypeOK, Entry
<1>5. CASE UNCHANGED <<m, faults>>
  BY <1>1, <1>2, <1>3, <1>5 DEF TypeOK
<1>6. ASSUME taint, NEW containers \in {running, {}}, FailsUnless(containers = running),
             m' = [pc |-> "scan", containers |-> containers, todo |-> PodKeys,
                   key |-> "", entry |-> NoEntry,
                   chosen |-> [k \in PodKeys |-> NoEntry], blocked |-> FALSE,
                   due |-> Due]
      PROVE  /\ faults' \in 0..MaxFaults
             /\ m' \in Pass /\ m'.pc = "scan" /\ m'.todo = PodKeys
             /\ \A k \in PodKeys : m'.chosen[k] = NoEntry
             /\ m'.due = Due
  <2>1. m' \in Pass
    BY <1>4, <1>6, NoTypes DEF Pass, TypeOK
  <2>2. m'.pc = "scan" /\ m'.todo = PodKeys /\ m'.due = Due
        /\ m'.chosen = [k \in PodKeys |-> NoEntry]
    BY <1>6
  <2> QED  BY <1>6, <2>1, <2>2, FailsType DEF TypeOK
<1> QED  BY <1>1, <1>2, <1>3, <1>5, <1>6 DEF LoopIterate

\* A registered pod is skipped, or looked at again.
LEMMA ScanFacts ==
  ASSUME TypeOK, NEW k \in PodKeys, ScanPod(k)
  PROVE  /\ m \in Pass /\ m.pc = "scan" /\ k \in m.todo
         /\ UNCHANGED <<api, kubelet, link, h, keymap, taintCount, APIConnected>>
         /\ faults' \in 0..MaxFaults
         /\ m' \in Pass /\ m'.todo = m.todo \ {k} /\ m'.chosen = m.chosen
         /\ m'.due = m.due
         /\ \/ /\ keymap[k] = NoEntry \/ ShouldRunHere(k)
                  \/ (IgnoreVolumelessPods /\ keymap[k].mounts = {})
               /\ m'.pc = "scan" /\ m'.blocked = m.blocked
            \/ m'.pc = "scan" /\ m'.blocked
            \/ /\ m'.pc = "recheck" /\ m'.blocked = m.blocked /\ keymap[k] # NoEntry
               /\ m'.key = k /\ m'.entry = keymap[k]
<1> DEFINE e == keymap[k]
           rest == [m EXCEPT !.todo = m.todo \ {k}]
           volumeless == IgnoreVolumelessPods /\ e.mounts = {}
           executing == e.cs /\ e.uid \in m.containers
<1>1. m \in Pass /\ m.pc = "scan" /\ k \in m.todo
  BY ThreadTypes DEF ScanPod, TypeOK
<1>2. UNCHANGED <<api, kubelet, link, h, keymap, taintCount, APIConnected>>
  BY DEF ScanPod
<1>3. /\ rest \in Pass /\ rest.pc = "scan" /\ rest.todo = m.todo \ {k}
      /\ rest.chosen = m.chosen /\ rest.due = m.due /\ rest.blocked = m.blocked
  BY <1>1 DEF Pass
<1>4. \/ /\ e = NoEntry \/ volumeless \/ ShouldRunHere(k)
         /\ m' = rest /\ UNCHANGED faults
      \/ /\ e # NoEntry /\ FailsUnless(~ShouldRunHere(k))
         /\ m' = IF executing THEN [rest EXCEPT !.blocked = TRUE]
                 ELSE [rest EXCEPT !.pc = "recheck", !.key = k, !.entry = e]
  BY <1>1 DEF ScanPod, Pass
<1>5. e \in Entry
  BY DEF TypeOK
<1> HIDE DEF rest, executing, e
<1>6. CASE (e = NoEntry \/ volumeless \/ ShouldRunHere(k)) /\ m' = rest /\ UNCHANGED faults
  BY <1>1, <1>2, <1>3, <1>6 DEF TypeOK, e
<1>7. CASE FailsUnless(~ShouldRunHere(k)) /\ m' = [rest EXCEPT !.blocked = TRUE]
  <2>1. /\ m' \in Pass /\ m'.pc = "scan" /\ m'.todo = rest.todo
        /\ m'.chosen = rest.chosen /\ m'.due = rest.due /\ m'.blocked
    BY <1>3, <1>7 DEF Pass
  <2>2. faults' \in 0..MaxFaults
    BY <1>7, FailsType DEF TypeOK
  <2> QED  BY <1>1, <1>2, <1>3, <2>1, <2>2
<1>8. CASE /\ FailsUnless(~ShouldRunHere(k)) /\ e # NoEntry
           /\ m' = [rest EXCEPT !.pc = "recheck", !.key = k, !.entry = e]
  <2>1. /\ m' \in Pass /\ m'.pc = "recheck" /\ m'.todo = rest.todo
        /\ m'.chosen = rest.chosen /\ m'.due = rest.due /\ m'.blocked = rest.blocked
        /\ m'.key = k /\ m'.entry = e
    BY <1>3, <1>5, <1>8 DEF Pass
  <2>2. faults' \in 0..MaxFaults
    BY <1>8, FailsType DEF TypeOK
  <2> QED  BY <1>1, <1>2, <1>3, <1>8, <2>1, <2>2 DEF e
<1> QED  BY <1>4, <1>6, <1>7, <1>8

\* The second look: the pod blocks the removal of the taint, or is chosen.
LEMMA RecheckFacts ==
  ASSUME TypeOK, RecheckPod, m.pc = "recheck" => m.key \in PodKeys
  PROVE  /\ m \in Pass /\ m.pc = "recheck" /\ m.key \in PodKeys
         /\ UNCHANGED <<api, kubelet, link, h, keymap, taintCount, APIConnected>>
         /\ faults' \in 0..MaxFaults
         /\ m' \in Pass /\ m'.pc = "scan" /\ m'.todo = m.todo /\ m'.due = m.due
         /\ \/ m'.blocked /\ m'.chosen = m.chosen
            \/ /\ m'.blocked = m.blocked
               /\ m'.chosen = [m.chosen EXCEPT ![m.key] = m.entry]
               /\ MaxFaults = 0 /\ apiUp => pods[m.key].uid # m.entry.uid
<1> DEFINE back == [m EXCEPT !.pc = "scan", !.key = "", !.entry = NoEntry]
<1>1. m \in Pass /\ m.pc = "recheck" /\ m.key \in PodKeys
  BY ThreadTypes DEF RecheckPod, TypeOK
<1>2. UNCHANGED <<api, kubelet, link, h, keymap, taintCount, APIConnected>>
  BY DEF RecheckPod
<1>3. /\ back \in Pass /\ back.pc = "scan" /\ back.todo = m.todo
      /\ back.chosen = m.chosen /\ back.due = m.due /\ back.blocked = m.blocked
  BY <1>1, NoTypes DEF Pass
<1>4. m.entry \in Entry /\ m.chosen \in [PodKeys -> Entry]
  BY <1>1 DEF Pass
<1>5. \/ m' = [back EXCEPT !.blocked = TRUE] /\ UNCHANGED faults
      \/ /\ FailsUnless(~apiUp \/ pods[m.key].uid # m.entry.uid)
         /\ m' = [back EXCEPT !.chosen = [back.chosen EXCEPT ![m.key] = m.entry]]
  BY <1>1 DEF RecheckPod, Pass
<1> HIDE DEF back
<1>6. CASE m' = [back EXCEPT !.blocked = TRUE] /\ UNCHANGED faults
  <2>1. /\ m' \in Pass /\ m'.pc = "scan" /\ m'.todo = back.todo
        /\ m'.chosen = back.chosen /\ m'.due = back.due /\ m'.blocked
    BY <1>3, <1>6 DEF Pass
  <2> QED  BY <1>1, <1>2, <1>3, <1>6, <2>1 DEF TypeOK
<1>7. CASE /\ FailsUnless(~apiUp \/ pods[m.key].uid # m.entry.uid)
           /\ m' = [back EXCEPT !.chosen = [back.chosen EXCEPT ![m.key] = m.entry]]
  <2> DEFINE new == [back.chosen EXCEPT ![m.key] = m.entry]
  <2>1. new \in [PodKeys -> Entry]
    BY <1>3, <1>4
  <2>2. m' = [back EXCEPT !.chosen = new]
    BY <1>7
  <2> HIDE DEF new
  <2>3. /\ m' \in Pass /\ m'.pc = "scan" /\ m'.todo = back.todo
        /\ m'.chosen = new /\ m'.due = back.due /\ m'.blocked = back.blocked
    BY <1>3, <2>1, <2>2 DEF Pass
  <2>4. faults' \in 0..MaxFaults
    BY <1>7, FailsType DEF TypeOK
  <2>5. MaxFaults = 0 /\ apiUp => pods[m.key].uid # m.entry.uid
    BY <1>7 DEF FailsUnless, TypeOK
  <2> QED  BY <1>1, <1>2, <1>3, <2>3, <2>4, <2>5 DEF new
<1> QED  BY <1>5, <1>6, <1>7

\* A chosen pod is cleaned up; an error is kept.
LEMMA CleanFacts ==
  ASSUME TypeOK, NEW k \in PodKeys, CleanPod(k)
  PROVE  /\ m \in Pass /\ m.pc = "clean" /\ m.chosen[k] # NoEntry
         /\ UNCHANGED <<api, running, link, h, taintCount, APIConnected, faults>>
         /\ keymap' = keymap \/ keymap' = [keymap EXCEPT ![k] = NoEntry]
         /\ m' \in Pass /\ m'.pc = "clean" /\ m'.todo = m.todo /\ m'.due = m.due
         /\ m'.chosen = [m.chosen EXCEPT ![k] = NoEntry]
         /\ \/ m'.blocked
            \/ /\ m'.blocked = m.blocked
               /\ mounts' = mounts \ ({m.chosen[k].uid} \X m.chosen[k].mounts)
         /\ mounts' \subseteq mounts
         /\ \A u, v : <<u, v>> \in mounts /\ <<u, v>> \notin mounts' => u = m.chosen[k].uid
<1>1. m \in Pass /\ m.pc = "clean" /\ m.chosen[k] # NoEntry
  BY ThreadTypes DEF CleanPod, TypeOK
<1>2. UNCHANGED <<api, running, link, h, taintCount, APIConnected, faults>>
  BY DEF CleanPod
<1>3. PICK done \in SUBSET m.chosen[k].mounts :
         /\ mounts' = mounts \ ({m.chosen[k].uid} \X done)
         /\ keymap' = IF done = m.chosen[k].mounts
                      THEN [keymap EXCEPT ![k] = NoEntry] ELSE keymap
         /\ m' = [m EXCEPT !.chosen = [m.chosen EXCEPT ![k] = NoEntry],
                           !.blocked = m.blocked \/ ~(done = m.chosen[k].mounts)]
  BY <1>1 DEF CleanPod, Pass
<1> DEFINE new == [m.chosen EXCEPT ![k] = NoEntry]
           b == m.blocked \/ ~(done = m.chosen[k].mounts)
<1>4. new \in [PodKeys -> Entry] /\ b \in BOOLEAN
  BY <1>1, NoTypes DEF Pass
<1>5. b \/ (b = m.blocked /\ done = m.chosen[k].mounts)
  BY <1>1 DEF Pass
<1>6. m' = [m EXCEPT !.chosen = new, !.blocked = b]
  BY <1>3
<1> HIDE DEF new, b
<1>7. /\ m' \in Pass /\ m'.pc = "clean" /\ m'.todo = m.todo /\ m'.due = m.due
      /\ m'.chosen = new /\ m'.blocked = b
  BY <1>1, <1>4, <1>6 DEF Pass
<1> QED  BY <1>1, <1>2, <1>3, <1>5, <1>7 DEF new

-----------------------------------------------------------------------------
\* While a pod is looked at again there is one.
RecheckHasKey == m.pc = "recheck" => m.key \in PodKeys

\* The steps of the API monitor thread.
LEMMA MonitorType ==
  ASSUME TypeOK, RecheckHasKey, MonitorStep
  PROVE  TypeOK' /\ RecheckHasKey'
<1> USE ThreadTypes DEF TypeOK, RecheckHasKey, api, kubelet, link, loop
<1>1. CASE LoopError
  <2>1. faults' \in 0..MaxFaults
    BY <1>1, FailsType DEF LoopError
  <2>2. taintCount' \in Nat
    BY <1>1 DEF LoopError
  <2>3. APIConnected' \in BOOLEAN
    BY <1>1 DEF LoopError
  <2> QED  BY <1>1, <2>1, <2>2, <2>3 DEF LoopError
<1>2. CASE LoopIterate
  <2>1. m' \in Monitor /\ (m'.pc = "recheck" => m'.key \in PodKeys)
    BY <1>2, StartFacts
  <2> QED  BY <1>2, <2>1, StartFacts
<1>3. ASSUME NEW k \in PodKeys, ScanPod(k)
      PROVE  TypeOK' /\ RecheckHasKey'
  <2>1. m' \in Monitor /\ (m'.pc = "recheck" => m'.key \in PodKeys)
    BY <1>3, ScanFacts
  <2>2. /\ UNCHANGED <<api, kubelet, link, h, keymap, taintCount, APIConnected>>
        /\ faults' \in 0..MaxFaults
    BY <1>3, ScanFacts
  <2> QED  BY <2>1, <2>2
<1>4. ASSUME NEW k \in PodKeys, CleanPod(k)
      PROVE  TypeOK' /\ RecheckHasKey'
  <2>1. m' \in Monitor /\ (m'.pc = "recheck" => m'.key \in PodKeys)
    BY <1>4, CleanFacts
  <2>2. keymap' \in [PodKeys -> Entry] /\ mounts' \subseteq UIDs \X Volumes
    <3>1. mounts' \subseteq mounts
          /\ (keymap' = keymap \/ keymap' = [keymap EXCEPT ![k] = NoEntry])
      BY <1>4, CleanFacts
    <3> QED  BY <3>1, NoTypes
  <2>3. UNCHANGED <<api, running, link, h, taintCount, APIConnected, faults>>
    BY <1>4, CleanFacts
  <2> QED  BY <2>1, <2>2, <2>3
<1>5. CASE RecheckPod
  <2>1. m' \in Monitor /\ (m'.pc = "recheck" => m'.key \in PodKeys)
    BY <1>5, RecheckFacts
  <2>2. /\ UNCHANGED <<api, kubelet, link, h, keymap, taintCount, APIConnected>>
        /\ faults' \in 0..MaxFaults
    BY <1>5, RecheckFacts
  <2> QED  BY <2>1, <2>2
<1>6. CASE ScanDone
  <2>1. m \in Pass /\ m' = [m EXCEPT !.pc = "clean"]
    BY <1>6 DEF ScanDone
  <2>2. m' \in Pass /\ m'.pc = "clean"
    BY <2>1 DEF Pass
  <2> QED  BY <1>6, <2>2 DEF ScanDone
<1>7. CASE CleanDone
  <2>1. m \in Pass /\ (m' = Idle \/ m' = [m EXCEPT !.pc = "untaint"])
    BY <1>7 DEF CleanDone
  <2>2. m' \in Monitor /\ m'.pc # "recheck"
    <3>1. CASE m' = Idle
      BY <3>1 DEF Idle
    <3>2. CASE m' = [m EXCEPT !.pc = "untaint"]
      <4>1. m' \in Pass /\ m'.pc = "untaint"
        BY <2>1, <3>2 DEF Pass
      <4> QED  BY <4>1
    <3> QED  BY <2>1, <3>1, <3>2
  <2> QED  BY <1>7, <2>2 DEF CleanDone
<1>8. CASE Untaint
  <2>1. m' \in Monitor /\ m'.pc # "recheck"
    BY <1>8 DEF Untaint, Idle
  <2>2. faults' \in 0..MaxFaults
    BY <1>8, FailsType DEF Untaint
  <2>3. taint' \in BOOLEAN
    BY <1>8 DEF Untaint
  <2>4. taintCount' \in Nat
    BY <1>8 DEF Untaint
  <2> QED  BY <1>8, <2>1, <2>2, <2>3, <2>4 DEF Untaint
<1> QED  BY <1>1, <1>2, <1>3, <1>4, <1>5, <1>6, <1>7, <1>8 DEF MonitorStep

\* The types hold at start.
LEMMA TypeInit == Init => TypeOK /\ RecheckHasKey
<1> SUFFICES ASSUME Init
             PROVE  TypeOK /\ RecheckHasKey
  OBVIOUS
<1>1. /\ taintCount \in Nat /\ faults \in 0..MaxFaults
      /\ outages \in 0..MaxOutages /\ taintings \in 0..MaxTaints
      /\ lastUID \in 0..MaxUID
  BY ConstantsAssumption DEF Init
<1>2. taint \in BOOLEAN /\ apiUp \in BOOLEAN /\ APIConnected \in BOOLEAN
  BY DEF Init
<1>3. m = Idle /\ m \in Monitor /\ h \in Handler /\ m.pc = "idle"
  BY ThreadTypes DEF Init, Idle
<1>4. pods \in [PodKeys -> Pod] /\ keymap \in [PodKeys -> Entry]
  BY NoTypes DEF Init
<1>5. /\ queue \in Seq(Event) /\ doomed \subseteq PodKeys \X UIDs
      /\ forced \subseteq UIDs /\ mounts \subseteq UIDs \X Volumes
      /\ running \subseteq UIDs
  BY DEF Init
<1> QED  BY <1>1, <1>2, <1>3, <1>4, <1>5 DEF TypeOK, RecheckHasKey

\* Every step keeps the types.
LEMMA TypeStep == TypeOK /\ RecheckHasKey /\ [Next]_vars => TypeOK' /\ RecheckHasKey'
<1> SUFFICES ASSUME TypeOK, RecheckHasKey, [Next]_vars
             PROVE  TypeOK' /\ RecheckHasKey'
  OBVIOUS
<1>1. CASE Cluster
  <2>1. m' = m \/ m' = Idle \/ OperatorUntaint
    BY <1>1 DEF Cluster, Schedule, Finish, Delete, ControllerTaint, ControllerDelete,
                LinkDown, LinkUp, Restart, loop
  <2>2. OperatorUntaint => m'.pc = m.pc /\ (m.pc # "idle" => m'.key = m.key)
    BY UntaintFacts
  <2> QED  BY <1>1, <2>1, <2>2, ClusterType DEF RecheckHasKey, Idle
<1>2. CASE Kubelet
  <2>1. m' = m
    BY <1>2 DEF Kubelet, Start, Mount, Stop, Unmount, loop
  <2> QED  BY <1>2, <2>1, KubeletType DEF RecheckHasKey
<1>3. CASE HandlerStep
  <2>1. m' = m
    BY <1>3 DEF HandlerStep, HandlePod, StoreEntry, HandleDeleted, loop
  <2> QED  BY <1>3, <2>1, HandlerType DEF RecheckHasKey
<1>4. CASE UNCHANGED vars
  BY <1>4 DEF vars, api, kubelet, link, loop, TypeOK, RecheckHasKey
<1> QED  BY <1>1, <1>2, <1>3, <1>4, MonitorType DEF Next

\* Every variable of the node podmon and its surroundings has its type, for any
\* bounds and with all faults.
THEOREM TypeCorrect == Spec => []TypeOK
  BY TypeInit, TypeStep, PTL DEF Spec

-----------------------------------------------------------------------------
(* The records of the pods. *)

\* uid u is recorded as one of pod key k, by the watch thread or on its way to
\* it, as that of a pod of this node.
Seen(k, u) ==
    \/ pods[k].here /\ pods[k].uid = u
    \/ \E i \in 1..Len(queue) : queue[i].key = k /\ queue[i].uid = u
    \/ h.pc = "store" /\ h.key = k /\ h.entry.uid = u
    \/ keymap[k].uid = u

\* The same, or held by the API monitor thread.
Recorded(k, u) ==
    \/ pods[k].uid = u \/ Seen(k, u)
    \/ m.pc = "recheck" /\ m.key = k /\ m.entry.uid = u
    \/ m.pc # "idle" /\ m.chosen[k].uid = u

\* A uid was given to a pod of one key only.
KnownUIDs ==
    \A k \in PodKeys, u \in UIDs : Recorded(k, u) =>
       u <= lastUID /\ \A j \in PodKeys : pods[j].uid = u => j = k

\* What is recorded is of some pod.
EntriesReal ==
    /\ \A k \in PodKeys : keymap[k] = NoEntry \/ keymap[k].uid \in UIDs
    /\ h.pc = "store" => h.entry.uid \in UIDs
    /\ m.pc = "recheck" => m.entry.uid \in UIDs
    /\ m.pc # "idle" => \A k \in PodKeys : m.chosen[k] = NoEntry \/ m.chosen[k].uid \in UIDs

\* What holds of the records whatever fails.
BInv == TypeOK /\ RecheckHasKey /\ KnownUIDs /\ EntriesReal

\* A reliable API server: the node never loses it, no call to it fails, and
\* podmon is not restarted.
Reliable == MaxOutages = 0 /\ MaxFaults = 0

\* The inductive invariant with it.
RInv == BInv /\ apiUp /\ NeverCleanLive

-----------------------------------------------------------------------------
(* What a pass owes. *)

\* A pod that was force-deleted does not come back.
ForcedGone == \A u \in forced : u <= lastUID /\ ~Alive(u)

\* What is recorded as mounted of a pod that exists is mounted; an entry the
\* watch thread is about to store leaves out no mount that was recorded and
\* remains.
MountsRecorded ==
    /\ \A k \in PodKeys : pods[k].uid = keymap[k].uid =>
          \A v \in keymap[k].mounts : <<keymap[k].uid, v>> \in mounts
    /\ h.pc = "store" =>
          /\ pods[h.key].uid = h.entry.uid =>
                \A v \in h.entry.mounts : <<h.entry.uid, v>> \in mounts
          /\ keymap[h.key].uid = h.entry.uid /\ Cardinality(h.entry.mounts) >= h.existing =>
                keymap[h.key].mounts \cap MountsOf(h.entry.uid) \subseteq h.entry.mounts

\* The pass comes to each key once.  As long as it owes something, the node is
\* tainted, so that no pod comes to it.
PassShape ==
    m.pc # "idle" =>
       /\ \A p \in m.due : p[1] \in forced /\ taint
       /\ m.pc = "recheck" => m.key \notin m.todo /\ m.chosen[m.key] = NoEntry
       /\ \A k \in m.todo : m.chosen[k] = NoEntry
       /\ m.pc \in {"clean", "untaint"} => m.todo = {}
       /\ m.pc = "untaint" => ~m.blocked /\ \A k \in PodKeys : m.chosen[k] = NoEntry

\* Where the pass keeps volume v of pod u, until it has cleaned it up.
Held(k, u, v) ==
    \/ /\ k \in m.todo /\ keymap[k].uid = u /\ v \in keymap[k].mounts
       /\ ~Superseded(k)
    \/ m.pc = "recheck" /\ m.key = k /\ m.entry.uid = u /\ v \in m.entry.mounts
    \/ m.chosen[k].uid = u /\ v \in m.chosen[k].mounts

\* A pass that may still remove the taint holds all that is due and mounted.
DueHeld ==
    m.pc # "idle" /\ ~m.blocked =>
       \A u \in UIDs, v \in Volumes :
          <<u, v>> \in m.due \cap mounts => \E k \in PodKeys : Held(k, u, v)

\* The inductive invariant of the pass.
OInv == BInv /\ ForcedGone /\ MountsRecorded /\ PassShape /\ DueHeld

-----------------------------------------------------------------------------
(* How the records change. *)

\* What an emitted event adds to the queue.
LEMMA EmitQueue ==
  ASSUME TypeOK, NEW ty \in {"Modified", "Deleted"}, NEW k \in PodKeys, NEW x \in Pod,
         Emit(ty, k, x) \/ UNCHANGED queue
  PROVE  /\ Len(queue') \in Nat /\ Len(queue) \in Nat
         /\ Len(queue') = Len(queue) \/ Len(queue') = Len(queue) + 1
         /\ \A i \in 1..Len(queue) : queue'[i] = queue[i]
         /\ \A i \in 1..Len(queue') :
               \/ i \in 1..Len(queue)
               \/ /\ i = Len(queue) + 1 /\ x.here
                  /\ queue'[i].key = k /\ queue'[i].uid = x.uid
<1>1. queue \in Seq(Event)
  BY DEF TypeOK
<1>2. CASE UNCHANGED queue
  BY <1>1, <1>2
<1>3. CASE queue' = Append(queue, EventOf(ty, k, x)) /\ x.here
  <2>1. EventOf(ty, k, x) \in Event
    BY <1>3, HereIsReal, EventType
  <2>2. EventOf(ty, k, x).key = k /\ EventOf(ty, k, x).uid = x.uid
    BY DEF EventOf
  <2>3. /\ Len(queue') = Len(queue) + 1 /\ Len(queue) \in Nat
        /\ \A i \in 1..Len(queue) : queue'[i] = queue[i]
        /\ queue'[Len(queue) + 1] = EventOf(ty, k, x)
    BY <1>1, <1>3, <2>1
  <2> QED  BY <1>3, <2>2, <2>3
<1> QED  BY <1>2, <1>3 DEF Emit

\* What is left when an event is taken from the queue.
LEMMA TailQueue ==
  ASSUME TypeOK, queue # << >>, queue' = Tail(queue)
  PROVE  /\ Len(queue) \in Nat /\ 1 \in 1..Len(queue) /\ Head(queue) = queue[1]
         /\ Len(queue') = Len(queue) - 1
         /\ \A i \in 1..Len(queue') : i + 1 \in 1..Len(queue) /\ queue'[i] = queue[i + 1]
<1>1. queue \in Seq(Event)
  BY DEF TypeOK
<1>2. Len(queue) \in Nat \ {0}
  BY <1>1
<1> QED  BY <1>1, <1>2

\* A step that changes pod k and sends an event of it.
PodStep(k, x) ==
    /\ UNCHANGED <<h, keymap, m, mounts, apiUp>>
    /\ \E ty \in {"Modified", "Deleted"} : Emit(ty, k, x) \/ UNCHANGED queue
    /\ \A j \in PodKeys : j # k => pods'[j] = pods[j]
    /\ pods'[k].here => x.here /\ pods'[k].uid = x.uid

\* The pod stays the same one, goes, or is new.
SamePod(k, x) ==
    /\ PodStep(k, x) /\ x.uid = pods[k].uid /\ x.here = pods[k].here
    /\ lastUID' = lastUID /\ UNCHANGED <<taint, taintings>>
    /\ pods'[k].uid = pods[k].uid \/ pods'[k].uid = 0
NewPod(k, x) ==
    /\ PodStep(k, x) /\ x.uid = lastUID + 1 /\ lastUID' = lastUID + 1
    /\ pods'[k].uid = x.uid /\ x.uid \in UIDs /\ (x.here => ~taint)
    /\ pods'[k].here = x.here
    /\ UNCHANGED <<taint, taintings, doomed, forced>>

\* Scheduling makes a new pod.
LEMMA ScheduleFacts ==
  ASSUME TypeOK, NEW k \in PodKeys, NEW here \in BOOLEAN, Schedule(k, here)
  PROVE  \E x \in Pod : NewPod(k, x)
<1> DEFINE x == [uid |-> lastUID + 1, here |-> here, st |-> "bound"]
<1>1. lastUID + 1 \in UIDs
  BY ConstantsAssumption DEF Schedule, UIDs, TypeOK
<1>2. x \in Pod /\ x.uid = lastUID + 1 /\ x.here = here
  BY <1>1 DEF Pod
<1>3. pods' = [pods EXCEPT ![k] = x] /\ Emit("Modified", k, x)
  BY DEF Schedule
<1>4. /\ lastUID' = lastUID + 1 /\ (here => ~taint)
      /\ UNCHANGED <<h, keymap, m, mounts, apiUp, taint, taintings, doomed, forced>>
  BY DEF Schedule, loop, kubelet
<1> HIDE DEF x
<1>5. pods'[k] = x /\ \A j \in PodKeys : j # k => pods'[j] = pods[j]
  BY <1>3 DEF TypeOK
<1>6. PodStep(k, x)
  BY <1>3, <1>4, <1>5 DEF PodStep
<1>7. NewPod(k, x)
  BY <1>1, <1>2, <1>4, <1>5, <1>6 DEF NewPod
<1> QED  BY <1>2, <1>7

\* The other steps that change a pod do not make a new one.
LEMMA SamePodFacts ==
  ASSUME TypeOK, NEW k \in PodKeys,
         Finish(k) \/ Start(k) \/ Delete(k) \/ \E uid \in UIDs : ControllerDelete(k, uid)
  PROVE  \E x \in Pod : SamePod(k, x)
<1> USE DEF loop, kubelet
<1>1. ASSUME NEW st \in {"done", "active"}, pods[k].here,
             pods' = [pods EXCEPT ![k].st = st], Emit("Modified", k, pods'[k]),
             UNCHANGED <<h, keymap, m, mounts, apiUp, lastUID, taint, taintings>>
      PROVE  \E x \in Pod : SamePod(k, x)
  <2> DEFINE x == [pods[k] EXCEPT !.st = st]
  <2>1. pods[k] \in Real
    BY <1>1, HereIsReal DEF TypeOK
  <2>2. x \in Pod /\ x.uid = pods[k].uid /\ x.here = pods[k].here
    BY <2>1 DEF Pod, Real
  <2>3. pods' = [pods EXCEPT ![k] = x]
    BY <1>1
  <2> HIDE DEF x
  <2>4. pods'[k] = x /\ \A j \in PodKeys : j # k => pods'[j] = pods[j]
    BY <2>3 DEF TypeOK
  <2>5. PodStep(k, x)
    BY <1>1, <2>4 DEF PodStep
  <2> QED  BY <1>1, <2>2, <2>4, <2>5 DEF SamePod
<1>2. ASSUME pods' = [pods EXCEPT ![k] = NoPod], Emit("Deleted", k, pods[k]),
             UNCHANGED <<h, keymap, m, mounts, apiUp, lastUID, taint, taintings>>
      PROVE  \E x \in Pod : SamePod(k, x)
  <2>1. pods'[k] = NoPod /\ \A j \in PodKeys : j # k => pods'[j] = pods[j]
    BY <1>2 DEF TypeOK
  <2>2. pods'[k].uid = 0 /\ ~pods'[k].here
    BY <2>1 DEF NoPod
  <2>3. PodStep(k, pods[k])
    BY <1>2, <2>1, <2>2 DEF PodStep
  <2>4. SamePod(k, pods[k])
    BY <1>2, <2>2, <2>3 DEF SamePod
  <2> QED  BY <2>4 DEF TypeOK
<1>3. ASSUME NEW uid \in UIDs, ControllerDelete(k, uid)
      PROVE  \E x \in Pod : SamePod(k, x)
  <2>1. UNCHANGED <<h, keymap, m, mounts, apiUp, lastUID, taint, taintings>>
    BY <1>3 DEF ControllerDelete
  <2>2. CASE UNCHANGED <<pods, queue>>
    <3>1. SamePod(k, pods[k])
      BY <2>1, <2>2 DEF SamePod, PodStep
    <3> QED  BY <3>1 DEF TypeOK
  <2> QED  BY <1>2, <1>3, <2>1, <2>2 DEF ControllerDelete
<1>4. CASE Finish(k)
  BY <1>1, <1>4 DEF Finish
<1>5. CASE Start(k)
  BY <1>1, <1>5 DEF Start
<1>6. CASE Delete(k)
  BY <1>2, <1>6 DEF Delete
<1> QED  BY <1>3, <1>4, <1>5, <1>6

\* Such a step makes nothing seen but the pod of its event.
LEMMA SeenPod ==
  ASSUME TypeOK, NEW k \in PodKeys, NEW x \in Pod, PodStep(k, x)
  PROVE  \A j \in PodKeys, u \in UIDs :
            Seen(j, u)' => Seen(j, u) \/ (j = k /\ x.here /\ u = x.uid)
<1> SUFFICES ASSUME NEW j \in PodKeys, NEW u \in UIDs, Seen(j, u)'
             PROVE  Seen(j, u) \/ (j = k /\ x.here /\ u = x.uid)
  OBVIOUS
<1>1. CASE pods'[j].here /\ pods'[j].uid = u
  BY <1>1 DEF PodStep, Seen
<1>2. ASSUME NEW i \in 1..Len(queue'), queue'[i].key = j, queue'[i].uid = u
      PROVE  Seen(j, u) \/ (j = k /\ x.here /\ u = x.uid)
  <2>1. \/ i \in 1..Len(queue) /\ queue'[i] = queue[i]
        \/ x.here /\ queue'[i].key = k /\ queue'[i].uid = x.uid
    BY EmitQueue DEF PodStep
  <2> QED  BY <1>2, <2>1 DEF Seen
<1>3. CASE (h.pc = "store" /\ h.key = j /\ h.entry.uid = u)' \/ keymap'[j].uid = u
  BY <1>3 DEF PodStep, Seen
<1> QED  BY <1>1, <1>2, <1>3 DEF Seen

\* The watch thread only moves what it has seen.
LEMMA SeenHandler ==
  ASSUME TypeOK, HandlerStep
  PROVE  /\ UNCHANGED <<pods, lastUID, m, apiUp>>
         /\ \A j \in PodKeys, u \in UIDs : Seen(j, u)' => Seen(j, u)
<1>1. UNCHANGED <<pods, lastUID, m, apiUp>>
  BY DEF HandlerStep, HandlePod, StoreEntry, HandleDeleted, api, loop, link
<1> SUFFICES ASSUME NEW j \in PodKeys, NEW u \in UIDs, Seen(j, u)'
             PROVE  Seen(j, u)
  BY <1>1
<1>2. CASE HandlePod
  <2>1. queue # << >> /\ queue' = Tail(queue) /\ keymap' = keymap
    BY <1>2 DEF HandlePod
  <2>2. /\ 1 \in 1..Len(queue) /\ Head(queue) = queue[1]
        /\ \A i \in 1..Len(queue') : i + 1 \in 1..Len(queue) /\ queue'[i] = queue[i + 1]
    BY <2>1, TailQueue
  <2>3. (h' = h \/ (h'.key = Head(queue).key /\ h'.entry.uid = Head(queue).uid))
    BY <1>2, HandlePodFacts
  <2> QED  BY <1>1, <2>1, <2>2, <2>3 DEF Seen
<1>3. CASE StoreEntry
  <2>1. h \in Store /\ h.pc = "store" /\ h'.pc = "idle" /\ queue' = queue
    BY <1>3, ThreadTypes DEF StoreEntry, TypeOK, link, Idle
  <2>2. h.key \in PodKeys
    BY <2>1 DEF Store
  <2>3. keymap'[j] = keymap[j] \/ (j = h.key /\ keymap'[j] = h.entry)
    BY <1>3, <2>2 DEF StoreEntry, TypeOK
  <2> QED  BY <1>1, <2>1, <2>3 DEF Seen
<1>4. CASE HandleDeleted
  <2>1. queue # << >> /\ queue' = Tail(queue) /\ h' = h
    BY <1>4 DEF HandleDeleted
  <2>2. \A i \in 1..Len(queue') : i + 1 \in 1..Len(queue) /\ queue'[i] = queue[i + 1]
    BY <2>1, TailQueue
  <2>3. Head(queue).key \in PodKeys
    <3>1. Head(queue) \in Event
      BY <2>1 DEF TypeOK
    <3> QED  BY <3>1 DEF Event
  <2>4. keymap'[j] = keymap[j] \/ keymap'[j] = NoEntry
    BY <1>4, <2>3 DEF HandleDeleted, TypeOK
  <2>5. NoEntry.uid # u
    BY DEF NoEntry, UIDs
  <2> QED  BY <1>1, <2>1, <2>2, <2>4, <2>5 DEF Seen
<1> QED  BY <1>2, <1>3, <1>4 DEF HandlerStep

\* The API monitor thread only drops entries and holds what was recorded.
LEMMA MonitorRecords ==
  ASSUME TypeOK, RecheckHasKey, MonitorStep
  PROVE  /\ UNCHANGED <<pods, lastUID, queue, h, apiUp>>
         /\ \A j \in PodKeys : keymap'[j] = keymap[j] \/ keymap'[j] = NoEntry
         /\ \A j \in PodKeys, u \in UIDs : Seen(j, u)' => Seen(j, u)
         /\ \A j \in PodKeys, u \in UIDs : Recorded(j, u)' => Recorded(j, u)
<1>1. UNCHANGED <<pods, lastUID, queue, h, apiUp>>
  BY DEF MonitorStep, LoopError, LoopIterate, ScanPod, CleanPod, RecheckPod, ScanDone,
         CleanDone, Untaint, api, link
<1>2. \A j \in PodKeys : keymap'[j] = keymap[j] \/ keymap'[j] = NoEntry
  BY CleanFacts DEF TypeOK, MonitorStep, LoopError, LoopIterate, ScanPod, RecheckPod,
                    ScanDone, CleanDone, Untaint
<1>3. \A u \in UIDs : NoEntry.uid # u
  BY DEF NoEntry, UIDs
<1>4. \A j \in PodKeys, u \in UIDs : Seen(j, u)' => Seen(j, u)
  BY <1>1, <1>2, <1>3 DEF Seen
<1>5. ASSUME NEW j \in PodKeys, NEW u \in UIDs, Recorded(j, u)'
      PROVE  Recorded(j, u)
  <2>1. CASE pods'[j].uid = u \/ Seen(j, u)'
    BY <1>1, <1>4, <2>1 DEF Recorded
  <2>2. CASE \/ (m.pc = "recheck" /\ m.key = j /\ m.entry.uid = u)'
             \/ (m.pc # "idle" /\ m.chosen[j].uid = u)'
    <3>1. CASE LoopError \/ Untaint
      BY <2>2, <3>1 DEF LoopError, Untaint, Idle, Recorded
    <3>2. CASE LoopIterate
      BY <1>3, <2>2, <3>2, StartFacts DEF Idle
    <3>3. ASSUME NEW k \in PodKeys, ScanPod(k)
          PROVE  Recorded(j, u)
      <4>1. /\ m.pc = "scan" /\ m'.chosen = m.chosen
            /\ \/ m'.pc = "scan"
               \/ m'.key = k /\ m'.entry = keymap[k]
        BY <3>3, ScanFacts
      <4> QED  BY <2>2, <4>1 DEF Recorded, Seen
    <3>4. ASSUME NEW k \in PodKeys, CleanPod(k)
          PROVE  Recorded(j, u)
      <4>1. /\ m.pc = "clean" /\ m'.pc = "clean" /\ m \in Pass
            /\ m'.chosen = [m.chosen EXCEPT ![k] = NoEntry]
        BY <3>4, CleanFacts
      <4>2. m'.chosen[j] = m.chosen[j] \/ m'.chosen[j] = NoEntry
        BY <4>1 DEF Pass
      <4> QED  BY <1>3, <2>2, <4>1, <4>2 DEF Recorded
    <3>5. CASE RecheckPod
      <4>1. /\ m.pc = "recheck" /\ m'.pc = "scan" /\ m \in Pass /\ m.key \in PodKeys
            /\ m'.chosen = m.chosen \/ m'.chosen = [m.chosen EXCEPT ![m.key] = m.entry]
        BY <3>5, RecheckFacts DEF RecheckHasKey
      <4>2. m'.chosen[j] = m.chosen[j] \/ (j = m.key /\ m'.chosen[j] = m.entry)
        BY <4>1 DEF Pass
      <4> QED  BY <2>2, <4>1, <4>2 DEF Recorded
    <3>6. CASE ScanDone \/ CleanDone
      <4>1. m \in Pass /\ m.pc # "idle"
        BY <3>6, ThreadTypes DEF ScanDone, CleanDone, TypeOK
      <4>2. m' = Idle \/ (m'.pc # "recheck" /\ m'.chosen = m.chosen)
        BY <3>6, <4>1 DEF ScanDone, CleanDone, Pass
      <4> QED  BY <2>2, <4>1, <4>2 DEF Recorded, Idle
    <3> QED  BY <3>1, <3>2, <3>3, <3>4, <3>5, <3>6 DEF MonitorStep
  <2> QED  BY <1>5, <2>1, <2>2 DEF Recorded
<1> QED  BY <1>1, <1>2, <1>4, <1>5

-----------------------------------------------------------------------------
(* What nodeModeCleanupPods chooses is gone. *)

\* The uids stay known when nothing new is recorded.
LEMMA KnownKept ==
  ASSUME KnownUIDs, lastUID' = lastUID,
         \A j \in PodKeys : pods'[j].uid = pods[j].uid \/ pods'[j].uid = 0,
         \A j \in PodKeys, u \in UIDs : Recorded(j, u)' => Recorded(j, u)
  PROVE  KnownUIDs'
<1>1. 0 \notin UIDs
  BY DEF UIDs
<1> QED  BY <1>1 DEF KnownUIDs

\* A step that changes a pod records nothing but that pod.
LEMMA RecordedPod ==
  ASSUME TypeOK, NEW k \in PodKeys, NEW x \in Pod, PodStep(k, x),
         pods'[k].uid = x.uid \/ pods'[k].uid = 0
  PROVE  \A j \in PodKeys, u \in UIDs :
            Recorded(j, u)' => Recorded(j, u) \/ (j = k /\ u = x.uid)
<1> SUFFICES ASSUME NEW j \in PodKeys, NEW u \in UIDs, Recorded(j, u)'
             PROVE  Recorded(j, u) \/ (j = k /\ u = x.uid)
  OBVIOUS
<1>1. CASE Seen(j, u)'
  BY <1>1, SeenPod DEF Recorded
<1>2. CASE pods'[j].uid = u
  <2>1. u # 0
    BY DEF UIDs
  <2> QED  BY <1>2, <2>1 DEF PodStep, Recorded
<1>3. CASE \/ (m.pc = "recheck" /\ m.key = j /\ m.entry.uid = u)'
           \/ (m.pc # "idle" /\ m.chosen[j].uid = u)'
  BY <1>3 DEF PodStep, Recorded
<1> QED  BY <1>1, <1>2, <1>3 DEF Recorded

\* A pod that is not new leaves every pod that is gone gone.
LEMMA SamePodStep ==
  ASSUME BInv, TypeOK', RecheckHasKey', NEW k \in PodKeys, NEW x \in Pod, SamePod(k, x)
  PROVE  BInv' /\ (NeverCleanLive => NeverCleanLive')
<1>1. /\ x.uid = pods[k].uid /\ PodStep(k, x) /\ lastUID' = lastUID
      /\ pods'[k].uid = x.uid \/ pods'[k].uid = 0
      /\ UNCHANGED <<h, keymap, m, apiUp>>
  BY DEF SamePod, PodStep
<1>2. \A j \in PodKeys : pods'[j].uid = pods[j].uid \/ pods'[j].uid = 0
  BY <1>1 DEF PodStep
<1>3. \A j \in PodKeys, u \in UIDs : Recorded(j, u)' => Recorded(j, u)
  BY <1>1, RecordedPod DEF BInv, Recorded
<1>4. KnownUIDs'
  BY <1>1, <1>2, <1>3, KnownKept DEF BInv
<1>5. EntriesReal'
  BY <1>1 DEF BInv, EntriesReal
<1>6. NeverCleanLive => NeverCleanLive'
  <2> SUFFICES ASSUME NeverCleanLive, m # Idle, NEW j \in PodKeys, m.chosen[j] # NoEntry,
                      NEW i \in PodKeys, pods'[i].uid = m.chosen[j].uid
               PROVE  FALSE
    BY <1>1 DEF NeverCleanLive, Alive
  <2>1. m.chosen[j].uid \in UIDs
    BY ThreadTypes DEF BInv, EntriesReal, TypeOK
  <2>2. m.chosen[j].uid # 0
    BY <2>1 DEF UIDs
  <2> QED  BY <1>2, <2>2 DEF NeverCleanLive, Alive
<1> QED  BY <1>1, <1>4, <1>5, <1>6 DEF BInv

\* The uid of a new pod was never recorded.
LEMMA NewPodStep ==
  ASSUME BInv, TypeOK', RecheckHasKey', NEW k \in PodKeys, NEW x \in Pod, NewPod(k, x)
  PROVE  BInv' /\ (NeverCleanLive => NeverCleanLive')
<1>1. /\ x.uid = lastUID + 1 /\ x.uid \in UIDs /\ PodStep(k, x) /\ lastUID' = lastUID + 1
      /\ pods'[k].uid = x.uid
      /\ UNCHANGED <<h, keymap, m, apiUp>>
      /\ \A j \in PodKeys : j # k => pods'[j] = pods[j]
      /\ lastUID \in Nat
  BY DEF NewPod, PodStep, BInv, TypeOK
<1>2. \A j \in PodKeys, u \in UIDs :
         Recorded(j, u) => u <= lastUID /\ u # x.uid /\ u <= lastUID'
  <2>1. \A u \in UIDs : u \in Nat
    BY DEF UIDs
  <2>2. \A j \in PodKeys, u \in UIDs : Recorded(j, u) => u <= lastUID
    BY DEF BInv, KnownUIDs
  <2> QED  BY <1>1, <2>1, <2>2
<1>3. \A j \in PodKeys : pods[j].uid # x.uid
  BY <1>1, <1>2 DEF Recorded
<1>4. KnownUIDs'
  <2> SUFFICES ASSUME NEW j \in PodKeys, NEW u \in UIDs, Recorded(j, u)'
               PROVE  u <= lastUID' /\ \A i \in PodKeys : pods'[i].uid = u => i = j
    BY DEF KnownUIDs
  <2>1. Recorded(j, u) \/ (j = k /\ u = x.uid)
    BY <1>1, RecordedPod DEF BInv
  <2>2. CASE Recorded(j, u)
    BY <1>1, <1>2, <2>2 DEF BInv, KnownUIDs
  <2>3. CASE j = k /\ u = x.uid
    <3>1. u <= lastUID'
      BY <1>1, <2>3
    <3> QED  BY <1>1, <1>3, <2>3, <3>1
  <2> QED  BY <2>1, <2>2, <2>3
<1>5. EntriesReal'
  BY <1>1 DEF BInv, EntriesReal
<1>6. NeverCleanLive => NeverCleanLive'
  <2> SUFFICES ASSUME NeverCleanLive, m # Idle, NEW j \in PodKeys, m.chosen[j] # NoEntry,
                      NEW i \in PodKeys, pods'[i].uid = m.chosen[j].uid
               PROVE  FALSE
    BY <1>1 DEF NeverCleanLive, Alive
  <2>1. m.pc # "idle" /\ m.chosen[j].uid \in UIDs
    BY ThreadTypes DEF BInv, EntriesReal, TypeOK
  <2>2. m.chosen[j].uid # x.uid
    BY <1>2, <2>1 DEF Recorded
  <2> QED  BY <1>1, <2>2 DEF NeverCleanLive, Alive
<1> QED  BY <1>1, <1>4, <1>5, <1>6 DEF BInv

\* The watch thread records pods under their keys.
LEMMA HandlerRecords ==
  ASSUME BInv, TypeOK', RecheckHasKey', HandlerStep
  PROVE  BInv' /\ (NeverCleanLive => NeverCleanLive')
<1>1. /\ UNCHANGED <<pods, lastUID, m, apiUp>>
      /\ \A j \in PodKeys, u \in UIDs : Seen(j, u)' => Seen(j, u)
  BY SeenHandler DEF BInv
<1>2. \A j \in PodKeys, u \in UIDs : Recorded(j, u)' => Recorded(j, u)
  BY <1>1 DEF Recorded
<1>3. KnownUIDs'
  BY <1>1, <1>2, KnownKept DEF BInv
<1>4. EntriesReal'
  <2>1. CASE HandlePod
    <3>1. Head(queue) \in Event /\ keymap' = keymap
          /\ (h' = h \/ h'.entry.uid = Head(queue).uid)
      BY <2>1, HandlePodFacts DEF BInv
    <3>2. Head(queue).uid \in UIDs
      BY <3>1 DEF Event
    <3> QED  BY <1>1, <3>1, <3>2 DEF BInv, EntriesReal
  <2>2. CASE StoreEntry
    <3>1. h.pc = "store" /\ h \in Store /\ h'.pc = "idle"
      BY <2>2, ThreadTypes DEF StoreEntry, BInv, TypeOK, Idle
    <3>2. h.key \in PodKeys
      BY <3>1 DEF Store
    <3>3. \A j \in PodKeys : keymap'[j] = keymap[j] \/ keymap'[j] = h.entry
      BY <2>2, <3>2 DEF StoreEntry, BInv, TypeOK
    <3> QED  BY <1>1, <3>1, <3>3 DEF BInv, EntriesReal
  <2>3. CASE HandleDeleted
    <3>1. h' = h /\ Head(queue) \in Event
      BY <2>3 DEF HandleDeleted, BInv, TypeOK
    <3>2. Head(queue).key \in PodKeys
      BY <3>1 DEF Event
    <3>3. \A j \in PodKeys : keymap'[j] = keymap[j] \/ keymap'[j] = NoEntry
      BY <2>3, <3>2 DEF HandleDeleted, BInv, TypeOK
    <3> QED  BY <1>1, <3>1, <3>3 DEF BInv, EntriesReal
  <2> QED  BY <2>1, <2>2, <2>3 DEF HandlerStep
<1>5. NeverCleanLive => NeverCleanLive'
  BY <1>1 DEF NeverCleanLive, Alive
<1> QED  BY <1>1, <1>3, <1>4, <1>5 DEF BInv

\* The API monitor thread holds what was recorded.
LEMMA MonitorHolds ==
  ASSUME BInv, TypeOK', RecheckHasKey', MonitorStep
  PROVE  BInv'
<1>1. /\ UNCHANGED <<pods, lastUID, queue, h, apiUp>>
      /\ \A j \in PodKeys : keymap'[j] = keymap[j] \/ keymap'[j] = NoEntry
      /\ \A j \in PodKeys, u \in UIDs : Recorded(j, u)' => Recorded(j, u)
  BY MonitorRecords DEF BInv
<1>2. KnownUIDs'
  BY <1>1, KnownKept DEF BInv
<1> DEFINE Known(c) == c = NoEntry \/ c.uid \in UIDs
<1>3. m.pc # "idle" => \A j \in PodKeys : Known(m.chosen[j])
  BY DEF BInv, EntriesReal
<1>4. /\ m'.pc = "recheck" => m'.entry.uid \in UIDs
      /\ m'.pc # "idle" => \A j \in PodKeys : Known(m'.chosen[j])
  <2>1. CASE LoopError \/ Untaint
    BY <2>1 DEF LoopError, Untaint, Idle
  <2>2. CASE LoopIterate
    <3>1. m.pc = "idle"
      BY <2>2 DEF LoopIterate, Idle
    <3>2. \/ m' = m
          \/ m'.pc = "scan" /\ \A j \in PodKeys : m'.chosen[j] = NoEntry
      BY <2>2, StartFacts DEF BInv
    <3> QED  BY <3>1, <3>2
  <2>3. ASSUME NEW k \in PodKeys, ScanPod(k)
        PROVE  /\ m'.pc = "recheck" => m'.entry.uid \in UIDs
               /\ \A j \in PodKeys : Known(m'.chosen[j])
    <3>1. /\ m.pc = "scan" /\ m'.chosen = m.chosen
          /\ m'.pc = "scan" \/ (keymap[k] # NoEntry /\ m'.entry = keymap[k])
      BY <2>3, ScanFacts DEF BInv
    <3>2. m'.pc = "recheck" => m'.entry.uid \in UIDs
      BY <3>1 DEF BInv, EntriesReal
    <3> QED  BY <1>3, <3>1, <3>2
  <2>4. ASSUME NEW k \in PodKeys, CleanPod(k)
        PROVE  /\ m'.pc = "recheck" => m'.entry.uid \in UIDs
               /\ \A j \in PodKeys : Known(m'.chosen[j])
    <3>1. /\ m.pc = "clean" /\ m'.pc = "clean" /\ m \in Pass
          /\ m'.chosen = [m.chosen EXCEPT ![k] = NoEntry]
      BY <2>4, CleanFacts DEF BInv
    <3>2. \A j \in PodKeys : m'.chosen[j] = m.chosen[j] \/ m'.chosen[j] = NoEntry
      BY <3>1 DEF Pass
    <3> QED  BY <1>3, <3>1, <3>2
  <2>5. CASE RecheckPod
    <3>1. /\ m.pc = "recheck" /\ m'.pc = "scan" /\ m \in Pass /\ m.key \in PodKeys
          /\ m'.chosen = m.chosen \/ m'.chosen = [m.chosen EXCEPT ![m.key] = m.entry]
      BY <2>5, RecheckFacts DEF BInv, RecheckHasKey
    <3>2. \A j \in PodKeys : m'.chosen[j] = m.chosen[j] \/ m'.chosen[j] = m.entry
      BY <3>1 DEF Pass
    <3>3. Known(m.entry)
      BY <3>1 DEF BInv, EntriesReal
    <3> QED  BY <1>3, <3>1, <3>2, <3>3
  <2>6. CASE ScanDone \/ CleanDone
    <3>1. m \in Pass /\ m.pc # "idle"
      BY <2>6, ThreadTypes DEF ScanDone, CleanDone, BInv, TypeOK
    <3>2. m' = Idle \/ (m'.pc # "recheck" /\ m'.chosen = m.chosen)
      BY <2>6, <3>1 DEF ScanDone, CleanDone, Pass
    <3> QED  BY <1>3, <3>1, <3>2 DEF Idle
  <2> QED  BY <2>1, <2>2, <2>3, <2>4, <2>5, <2>6 DEF MonitorStep
<1>5. EntriesReal'
  BY <1>1, <1>4 DEF BInv, EntriesReal
<1> QED  BY <1>2, <1>5 DEF BInv

\* The API monitor thread chooses a pod only after it saw that this incarnation
\* is gone, and no later pod has its uid.
LEMMA MonitorChooses ==
  ASSUME Reliable, RInv, BInv', MonitorStep
  PROVE  RInv'
<1> USE DEF RInv
<1>1. UNCHANGED <<pods, apiUp>>
  BY MonitorRecords DEF BInv
<1> DEFINE Gone(c) == c = NoEntry \/ \A i \in PodKeys : pods[i].uid # c.uid
<1>3. m.pc # "idle" => \A j \in PodKeys : Gone(m.chosen[j])
  <2>1. m.pc # "idle" => m # Idle
    BY DEF Idle
  <2> QED  BY <2>1 DEF NeverCleanLive, Alive
<1>4. m'.pc # "idle" => \A j \in PodKeys : Gone(m'.chosen[j])
  <2>1. CASE LoopError \/ Untaint
    BY <2>1 DEF LoopError, Untaint, Idle
  <2>2. CASE LoopIterate
    <3>1. m.pc = "idle"
      BY <2>2 DEF LoopIterate, Idle
    <3>2. \/ m' = m
          \/ m'.pc = "scan" /\ \A j \in PodKeys : m'.chosen[j] = NoEntry
      BY <2>2, StartFacts DEF BInv
    <3> QED  BY <3>1, <3>2
  <2>3. ASSUME NEW k \in PodKeys, ScanPod(k)
        PROVE  \A j \in PodKeys : Gone(m'.chosen[j])
    <3>1. m.pc = "scan" /\ m'.chosen = m.chosen
      BY <2>3, ScanFacts DEF BInv
    <3> QED  BY <1>3, <3>1
  <2>4. ASSUME NEW k \in PodKeys, CleanPod(k)
        PROVE  \A j \in PodKeys : Gone(m'.chosen[j])
    <3>1. /\ m.pc = "clean" /\ m'.pc = "clean" /\ m \in Pass
          /\ m'.chosen = [m.chosen EXCEPT ![k] = NoEntry]
      BY <2>4, CleanFacts DEF BInv
    <3>2. \A j \in PodKeys : m'.chosen[j] = m.chosen[j] \/ m'.chosen[j] = NoEntry
      BY <3>1 DEF Pass
    <3> QED  BY <1>3, <3>1, <3>2
  <2>5. CASE RecheckPod
    <3>1. /\ m.pc = "recheck" /\ m'.pc = "scan" /\ m \in Pass /\ m.key \in PodKeys
          /\ \/ m'.chosen = m.chosen
             \/ /\ m'.chosen = [m.chosen EXCEPT ![m.key] = m.entry]
                /\ MaxFaults = 0 /\ apiUp => pods[m.key].uid # m.entry.uid
      BY <2>5, RecheckFacts DEF BInv, RecheckHasKey
    <3>2. CASE m'.chosen = m.chosen
      BY <1>3, <3>1, <3>2
    <3>3. CASE /\ m'.chosen = [m.chosen EXCEPT ![m.key] = m.entry]
               /\ MaxFaults = 0 /\ apiUp => pods[m.key].uid # m.entry.uid
      <4>1. m.entry.uid \in UIDs /\ Recorded(m.key, m.entry.uid)
        BY <3>1 DEF BInv, EntriesReal, Recorded
      <4>2. pods[m.key].uid # m.entry.uid
        BY <3>3 DEF Reliable
      <4>3. Gone(m.entry)
        BY <3>1, <4>1, <4>2 DEF BInv, KnownUIDs
      <4>4. \A j \in PodKeys : m'.chosen[j] = m.chosen[j] \/ m'.chosen[j] = m.entry
        BY <3>1, <3>3 DEF Pass
      <4> QED  BY <1>3, <3>1, <4>3, <4>4
    <3> QED  BY <3>1, <3>2, <3>3
  <2>6. CASE ScanDone \/ CleanDone
    <3>1. m \in Pass /\ m.pc # "idle"
      BY <2>6, ThreadTypes DEF ScanDone, CleanDone, BInv, TypeOK
    <3>2. m' = Idle \/ (m'.pc # "recheck" /\ m'.chosen = m.chosen)
      BY <2>6, <3>1 DEF ScanDone, CleanDone, Pass
    <3> QED  BY <1>3, <3>1, <3>2 DEF Idle
  <2> QED  BY <2>1, <2>2, <2>3, <2>4, <2>5, <2>6 DEF MonitorStep
<1>5. NeverCleanLive'
  <2>1. m' # Idle => m'.pc # "idle"
    BY ThreadTypes DEF BInv, TypeOK
  <2> QED  BY <1>1, <1>4, <2>1 DEF NeverCleanLive, Alive
<1> QED  BY <1>1, <1>5

\* Steps that change neither pods nor records, and of a pass no more than what it
\* owes.
LEMMA QuietStep ==
  ASSUME BInv, TypeOK', RecheckHasKey', UNCHANGED <<pods, lastUID, queue, h, keymap>>,
         m' = m \/ OperatorUntaint
  PROVE  BInv' /\ (NeverCleanLive => NeverCleanLive')
<1>1. /\ m'.pc = m.pc
      /\ m.pc # "idle" => m'.key = m.key /\ m'.entry = m.entry /\ m'.chosen = m.chosen
  BY UntaintFacts DEF BInv
<1>2. \A j \in PodKeys, u \in UIDs : Recorded(j, u)' => Recorded(j, u)
  BY <1>1 DEF Recorded, Seen
<1>3. KnownUIDs'
  BY <1>2, KnownKept DEF BInv
<1>4. EntriesReal'
  BY <1>1 DEF BInv, EntriesReal
<1>5. m' # Idle => m # Idle /\ m'.chosen = m.chosen
  <2>1. m' # Idle => m'.pc # "idle"
    BY ThreadTypes DEF TypeOK
  <2> QED  BY <1>1, <2>1 DEF Idle
<1>6. NeverCleanLive => NeverCleanLive'
  BY <1>5 DEF NeverCleanLive, Alive
<1> QED  BY <1>3, <1>4, <1>6 DEF BInv

\* An outage, its end and a restart record nothing new.
LEMMA LinkStep ==
  ASSUME BInv, TypeOK', RecheckHasKey', LinkDown \/ LinkUp \/ Restart
  PROVE  BInv'
<1>1. UNCHANGED <<pods, lastUID>>
  BY DEF LinkDown, LinkUp, Restart, api
<1>2. \A i \in 1..Len(queue') :
         \/ i \in 1..Len(queue) /\ queue'[i] = queue[i]
         \/ \E k \in PodKeys : /\ pods[k].here /\ queue'[i].key = k
                               /\ queue'[i].uid = pods[k].uid
  <2>1. CASE LinkDown \/ LinkUp
    BY <2>1, LinkQueue DEF BInv, TypeOK
  <2>2. CASE Restart /\ queue' = << >>
    <3>1. Len(queue') = 0
      BY <2>2
    <3> QED  BY <3>1
  <2>3. CASE Restart /\ queue' \in Relists
    BY <2>3, RelistType DEF BInv, TypeOK
  <2> QED  BY <2>1, <2>2, <2>3 DEF Restart
<1>3. \/ UNCHANGED <<h, keymap, m>>
      \/ h' = Idle /\ m' = Idle /\ \A k \in PodKeys : keymap'[k] = NoEntry
  BY DEF LinkDown, LinkUp, Restart, loop
<1>4. \A j \in PodKeys, u \in UIDs : Recorded(j, u)' => Recorded(j, u)
  <2> SUFFICES ASSUME NEW j \in PodKeys, NEW u \in UIDs, Recorded(j, u)'
               PROVE  Recorded(j, u)
    OBVIOUS
  <2>1. NoEntry.uid # u /\ Idle.pc = "idle"
    BY DEF NoEntry, UIDs, Idle
  <2>2. CASE \E i \in 1..Len(queue') : queue'[i].key = j /\ queue'[i].uid = u
    BY <1>2, <2>2 DEF Recorded, Seen
  <2>3. CASE UNCHANGED <<h, keymap, m>>
    BY <1>1, <2>2, <2>3 DEF Recorded, Seen
  <2>4. CASE h' = Idle /\ m' = Idle /\ \A k \in PodKeys : keymap'[k] = NoEntry
    BY <1>1, <2>1, <2>2, <2>4 DEF Recorded, Seen
  <2> QED  BY <1>3, <2>3, <2>4
<1>5. KnownUIDs'
  BY <1>1, <1>4, KnownKept DEF BInv
<1>6. EntriesReal'
  <2>1. CASE UNCHANGED <<h, keymap, m>>
    BY <2>1 DEF BInv, EntriesReal
  <2>2. CASE h' = Idle /\ m' = Idle /\ \A k \in PodKeys : keymap'[k] = NoEntry
    <3>1. h'.pc = "idle" /\ m'.pc = "idle"
      BY <2>2 DEF Idle
    <3> QED  BY <2>2, <3>1 DEF EntriesReal
  <2> QED  BY <1>3, <2>1, <2>2
<1> QED  BY <1>5, <1>6 DEF BInv

\* Every step keeps what holds of the records; without outages, failed calls and
\* restarts it also chooses no pod that exists.
LEMMA BaseStep ==
  ASSUME BInv, [Next]_vars
  PROVE  BInv' /\ (Reliable /\ RInv => RInv')
<1>1. TypeOK' /\ RecheckHasKey' /\ TypeOK
  BY TypeStep DEF BInv
<1>2. ASSUME BInv', NeverCleanLive => NeverCleanLive', UNCHANGED apiUp
      PROVE  BInv' /\ (Reliable /\ RInv => RInv')
  BY <1>2 DEF RInv
<1>3. ASSUME NEW k \in PodKeys, NEW here \in BOOLEAN, Schedule(k, here)
      PROVE  BInv' /\ (Reliable /\ RInv => RInv')
  <2>1. UNCHANGED apiUp
    BY <1>3 DEF Schedule
  <2> QED  BY <1>1, <1>2, <1>3, <2>1, ScheduleFacts, NewPodStep
<1>4. ASSUME NEW k \in PodKeys,
             Finish(k) \/ Start(k) \/ Delete(k) \/ \E uid \in UIDs : ControllerDelete(k, uid)
      PROVE  BInv' /\ (Reliable /\ RInv => RInv')
  <2>1. UNCHANGED apiUp
    BY <1>4 DEF Finish, Start, Delete, ControllerDelete
  <2> QED  BY <1>1, <1>2, <1>4, <2>1, SamePodFacts, SamePodStep
<1>5. ASSUME UNCHANGED <<pods, lastUID, queue, h, keymap, apiUp>>, m' = m \/ OperatorUntaint
      PROVE  BInv' /\ (Reliable /\ RInv => RInv')
  BY <1>1, <1>2, <1>5, QuietStep
<1>6. ASSUME NEW k \in PodKeys, ControllerTaint(k) \/ \E v \in Volumes : Mount(k, v)
      PROVE  BInv' /\ (Reliable /\ RInv => RInv')
  BY <1>5, <1>6 DEF ControllerTaint, Mount, api, link, loop
<1>7. CASE OperatorUntaint
  BY <1>1, <1>5, <1>7, UntaintFacts
<1>8. CASE LinkDown \/ LinkUp \/ Restart
  <2>1. Reliable /\ RInv => FALSE
    <3> SUFFICES ASSUME Reliable, RInv
                 PROVE  FALSE
      OBVIOUS
    <3>1. outages = 0 /\ faults = 0 /\ apiUp
      BY DEF Reliable, RInv, BInv, TypeOK
    <3> QED  BY <1>8, <3>1 DEF LinkDown, LinkUp, Restart, FailsUnless, Reliable
  <2> QED  BY <1>1, <1>8, <2>1, LinkStep
<1>9. ASSUME NEW uid \in UIDs, Stop(uid) \/ \E v \in Volumes : Unmount(uid, v)
      PROVE  BInv' /\ (Reliable /\ RInv => RInv')
  BY <1>5, <1>9 DEF Stop, Unmount, api, link, loop
<1>10. CASE UNCHANGED vars
  BY <1>5, <1>10 DEF vars, api, link, loop
<1>11. CASE HandlerStep
  <2>1. UNCHANGED apiUp
    BY <1>11 DEF HandlerStep, HandlePod, StoreEntry, HandleDeleted, link
  <2> QED  BY <1>1, <1>2, <1>11, <2>1, HandlerRecords
<1>12. CASE MonitorStep
  BY <1>1, <1>12, MonitorHolds, MonitorChooses
<1> QED  BY <1>3, <1>4, <1>6, <1>7, <1>8, <1>9, <1>10, <1>11, <1>12 DEF Next, Cluster, Kubelet

\* All of it holds at start.
LEMMA BaseInit == Init => RInv
<1> SUFFICES ASSUME Init
             PROVE  RInv
  OBVIOUS
<1>1. /\ pods = [k \in PodKeys |-> NoPod] /\ keymap = [k \in PodKeys |-> NoEntry]
      /\ h.pc = "idle" /\ m.pc = "idle" /\ m = Idle /\ queue = << >> /\ apiUp
  BY DEF Init, Idle
<1>2. \A k \in PodKeys : pods[k].uid = 0 /\ keymap[k].uid = 0 /\ keymap[k] = NoEntry
  BY <1>1 DEF NoPod, NoEntry
<1>3. 0 \notin UIDs /\ \A i \in 1..Len(queue) : FALSE
  BY <1>1 DEF UIDs
<1>4. KnownUIDs
  BY <1>1, <1>2, <1>3 DEF KnownUIDs, Recorded, Seen
<1>5. EntriesReal /\ NeverCleanLive
  BY <1>1, <1>2 DEF EntriesReal, NeverCleanLive
<1> QED  BY <1>1, <1>4, <1>5, TypeInit DEF RInv, BInv

\* As long as the node reaches the API server, nodeModeCleanupPods never chooses
\* a pod incarnation that still exists, for any number of pods and volumes and
\* whatever the watch thread, kubelet and the controller podmon do meanwhile.
THEOREM LiveNeverCleaned ==
  ASSUME Reliable
  PROVE  Spec => []NeverCleanLive
<1>1. Init => RInv
  BY BaseInit
<1>2. RInv /\ [Next]_vars => RInv'
  BY BaseStep DEF RInv
<1>3. RInv => NeverCleanLive
  BY DEF RInv
<1> QED  BY <1>1, <1>2, <1>3, PTL DEF Spec

-----------------------------------------------------------------------------
(* What the steps of the others leave of the pass. *)

\* The uids that are compared are of pods; NoEntry is of none.
LEMMA Numbers ==
  ASSUME BInv
  PROVE  /\ \A u \in UIDs : u \in Nat /\ u # 0
         /\ \A k \in PodKeys : pods[k].here => pods[k].uid \in UIDs
         /\ \A k \in PodKeys : keymap[k].uid \in UIDs \/ keymap[k] = NoEntry
         /\ h.pc = "store" => h \in Store /\ h.key \in PodKeys /\ h.entry.uid \in UIDs
         /\ NoEntry.uid = 0 /\ NoEntry.mounts = {}
<1>1. \A u \in UIDs : u \in Nat /\ u # 0
  BY DEF UIDs
<1>2. \A k \in PodKeys : pods[k].here => pods[k].uid \in UIDs
  BY HereIsReal DEF BInv, TypeOK, Real
<1>3. h.pc = "store" => h \in Store /\ h.key \in PodKeys /\ h.entry.uid \in UIDs
  BY ThreadTypes DEF BInv, TypeOK, EntriesReal, Store
<1>4. NoEntry.uid = 0 /\ NoEntry.mounts = {}
  BY DEF NoEntry
<1>5. \A k \in PodKeys : keymap[k].uid \in UIDs \/ keymap[k] = NoEntry
  BY DEF BInv, EntriesReal
<1> QED  BY <1>1, <1>2, <1>3, <1>4, <1>5

\* A newer incarnation of the pod recorded as k cannot appear but in the queue,
\* with the watch thread, or as the pod itself.
LEMMA SupersededKept ==
  ASSUME TypeOK, TypeOK', NEW k \in PodKeys, ~Superseded(k), keymap'[k].uid = keymap[k].uid,
         pods'[k].here => pods[k].here /\ pods'[k].uid = pods[k].uid,
         \A i \in 1..Len(queue') : queue'[i].type = "Modified" /\ queue'[i].key = k =>
            \/ \E j \in 1..Len(queue) : queue[j] = queue'[i]
            \/ queue'[i].uid = keymap[k].uid,
         h' = h \/ h'.pc = "idle" \/ (h'.key = k => h'.entry.uid = keymap[k].uid)
  PROVE  ~Superseded(k)'
<1>1. DOMAIN queue = 1..Len(queue) /\ DOMAIN queue' = 1..Len(queue')
  BY DEF TypeOK
<1>2. /\ pods[k].here => pods[k].uid = keymap[k].uid
      /\ \A i \in 1..Len(queue) : queue[i].type = "Modified" /\ queue[i].key = k =>
            queue[i].uid = keymap[k].uid
      /\ h.pc = "store" /\ h.key = k => h.entry.uid = keymap[k].uid
  BY <1>1 DEF Superseded
<1>3. /\ pods'[k].here => pods'[k].uid = keymap[k].uid
      /\ \A i \in 1..Len(queue') : queue'[i].type = "Modified" /\ queue'[i].key = k =>
            queue'[i].uid = keymap[k].uid
      /\ h'.pc = "store" /\ h'.key = k => h'.entry.uid = keymap[k].uid
  BY <1>2
<1> QED  BY <1>1, <1>3 DEF Superseded

\* A step of the controller podmon, or of anybody else, that ends pod k.
ForcedStep(k) ==
    \/ forced' = forced
    \/ \E u \in UIDs : /\ pods[k].uid = u /\ pods'[k].uid = 0
                       /\ forced' = forced \cup {u}

\* Only the controller podmon force-deletes.
LEMMA ForcedFacts ==
  ASSUME TypeOK, NEW k \in PodKeys,
         Finish(k) \/ Start(k) \/ Delete(k) \/ \E uid \in UIDs : ControllerDelete(k, uid)
  PROVE  ForcedStep(k)
<1>1. CASE Finish(k) \/ Start(k) \/ Delete(k)
  BY <1>1 DEF Finish, Start, Delete, ForcedStep
<1>2. ASSUME NEW uid \in UIDs, ControllerDelete(k, uid)
      PROVE  ForcedStep(k)
  <2>1. CASE pods[k].uid = uid
    <3>1. pods'[k] = NoPod /\ forced' = forced \cup {uid}
      BY <1>2, <2>1 DEF ControllerDelete, TypeOK
    <3> QED  BY <2>1, <3>1 DEF ForcedStep, NoPod
  <2>2. CASE pods[k].uid # uid
    BY <1>2, <2>2 DEF ControllerDelete, ForcedStep
  <2> QED  BY <2>1, <2>2
<1> QED  BY <1>1, <1>2

\* A step that changes pod k supersedes no entry, if its event is of the recorded
\* pod of k or of none here.
LEMMA SupersededPod ==
  ASSUME BInv, TypeOK', NEW k \in PodKeys, NEW x \in Pod, PodStep(k, x),
         NEW j \in PodKeys, ~Superseded(j),
         j = k /\ x.here => pods[k].here /\ pods[k].uid = x.uid
  PROVE  ~Superseded(j)'
<1>1. \A i \in 1..Len(queue') :
         \/ i \in 1..Len(queue) /\ queue'[i] = queue[i]
         \/ x.here /\ queue'[i].key = k /\ queue'[i].uid = x.uid
  BY EmitQueue DEF PodStep, BInv
<1>2. h' = h /\ keymap' = keymap
  BY DEF PodStep
<1>3. pods'[j].here => pods[j].here /\ pods'[j].uid = pods[j].uid
  BY DEF PodStep
<1>4. pods[j].here => pods[j].uid = keymap[j].uid
  BY DEF Superseded
<1> QED  BY <1>1, <1>2, <1>3, <1>4, SupersededKept DEF BInv

\* A pod that is not new keeps what the pass relies on.
LEMMA SamePodPass ==
  ASSUME OInv, BInv', NEW k \in PodKeys, NEW x \in Pod, SamePod(k, x), ForcedStep(k)
  PROVE  OInv'
<1> USE Numbers DEF OInv
<1>1. /\ x.uid = pods[k].uid /\ x.here = pods[k].here /\ PodStep(k, x)
      /\ UNCHANGED <<h, keymap, m, mounts, apiUp, lastUID, taint, taintings>>
      /\ \A j \in PodKeys : pods'[j].uid = pods[j].uid \/ pods'[j].uid = 0
  BY DEF SamePod, PodStep
<1>2. \A j \in PodKeys : ~Superseded(j) => ~Superseded(j)'
  BY <1>1, SupersededPod DEF BInv
<1>3. ASSUME NEW u \in forced', u \notin forced
      PROVE  /\ u \in UIDs /\ pods[k].uid = u /\ pods'[k].uid = 0 /\ u <= lastUID
             /\ \A j \in PodKeys : pods[j].uid = u => j = k
  <2>1. u \in UIDs /\ pods[k].uid = u /\ pods'[k].uid = 0
    BY <1>3 DEF ForcedStep
  <2>2. Recorded(k, u)
    BY <2>1 DEF Recorded
  <2> QED  BY <2>1, <2>2 DEF BInv, KnownUIDs
<1>4. ForcedGone'
  <2> SUFFICES ASSUME NEW u \in forced'
               PROVE  u <= lastUID /\ \A j \in PodKeys : pods'[j].uid # u
    BY <1>1 DEF ForcedGone, Alive
  <2>1. u \in UIDs /\ u # 0
    BY DEF BInv, TypeOK
  <2>2. CASE u \in forced
    BY <1>1, <2>1, <2>2 DEF ForcedGone, Alive
  <2>3. CASE u \notin forced
    <3>1. /\ pods'[k].uid = 0 /\ u <= lastUID
          /\ \A j \in PodKeys : pods[j].uid = u => j = k
      BY <1>3, <2>3
    <3> QED  BY <1>1, <2>1, <3>1
  <2> QED  BY <2>2, <2>3
<1>5. MountsRecorded'
  <2>1. ASSUME NEW j \in PodKeys, pods'[j].uid = keymap[j].uid
        PROVE  \A v \in keymap[j].mounts : <<keymap[j].uid, v>> \in mounts
    BY <1>1, <2>1 DEF MountsRecorded
  <2>2. ASSUME h.pc = "store", pods'[h.key].uid = h.entry.uid
        PROVE  \A v \in h.entry.mounts : <<h.entry.uid, v>> \in mounts
    BY <1>1, <2>2 DEF MountsRecorded
  <2> QED  BY <1>1, <2>1, <2>2 DEF MountsRecorded, MountsOf
<1>6. PassShape' /\ DueHeld'
  <2>1. forced \subseteq forced'
    BY DEF ForcedStep
  <2>2. PassShape'
    BY <1>1, <2>1 DEF PassShape
  <2>3. \A j \in PodKeys, u \in UIDs, v \in Volumes : Held(j, u, v) => Held(j, u, v)'
    BY <1>1, <1>2 DEF Held
  <2> QED  BY <1>1, <2>2, <2>3 DEF DueHeld
<1> QED  BY <1>4, <1>5, <1>6

\* So does a new one: it is not here while the pass owes something.
LEMMA NewPodPass ==
  ASSUME OInv, BInv', NEW k \in PodKeys, NEW x \in Pod, NewPod(k, x)
  PROVE  OInv'
<1> USE Numbers DEF OInv
<1>1. /\ x.uid = lastUID + 1 /\ x.uid \in UIDs /\ PodStep(k, x) /\ lastUID' = lastUID + 1
      /\ pods'[k].uid = x.uid /\ (x.here => ~taint) /\ lastUID \in Nat
      /\ UNCHANGED <<h, keymap, m, mounts, apiUp, taint, taintings, doomed, forced>>
      /\ \A j \in PodKeys : j # k => pods'[j] = pods[j]
  BY DEF NewPod, PodStep, BInv, TypeOK
<1>2. \A j \in PodKeys, u \in UIDs : Recorded(j, u) => u # x.uid
  <2>1. \A j \in PodKeys, u \in UIDs : Recorded(j, u) => u <= lastUID
    BY DEF BInv, KnownUIDs
  <2> QED  BY <1>1, <2>1
<1>3. ForcedGone'
  <2> SUFFICES ASSUME NEW u \in forced
               PROVE  u <= lastUID' /\ \A j \in PodKeys : pods'[j].uid # u
    BY <1>1 DEF ForcedGone, Alive
  <2>1. u \in UIDs /\ u <= lastUID /\ \A j \in PodKeys : pods[j].uid # u
    BY DEF BInv, TypeOK, ForcedGone, Alive
  <2>2. u <= lastUID' /\ u # x.uid
    BY <1>1, <2>1
  <2> QED  BY <1>1, <2>1, <2>2
<1>4. MountsRecorded'
  <2>1. \A j \in PodKeys : keymap[j].uid \in UIDs => keymap[j].uid # x.uid
    BY <1>2 DEF Recorded, Seen
  <2>2. h.pc = "store" => h.entry.uid # x.uid
    BY <1>2 DEF Recorded, Seen
  <2>3. ASSUME NEW j \in PodKeys, pods'[j].uid = keymap[j].uid
        PROVE  \A v \in keymap[j].mounts : <<keymap[j].uid, v>> \in mounts
    BY <1>1, <2>1, <2>3 DEF MountsRecorded
  <2>4. ASSUME h.pc = "store", pods'[h.key].uid = h.entry.uid
        PROVE  \A v \in h.entry.mounts : <<h.entry.uid, v>> \in mounts
    BY <1>1, <2>2, <2>4 DEF MountsRecorded
  <2> QED  BY <1>1, <2>3, <2>4 DEF MountsRecorded, MountsOf
<1>5. PassShape'
  BY <1>1 DEF PassShape
<1>6. DueHeld'
  <2> SUFFICES ASSUME m.pc # "idle", ~m.blocked, NEW u \in UIDs, NEW v \in Volumes,
                      <<u, v>> \in m.due, <<u, v>> \in mounts
               PROVE  \E j \in PodKeys : Held(j, u, v)'
    BY <1>1 DEF DueHeld
  <2>1. ~x.here
    BY <1>1 DEF PassShape
  <2>2. \A j \in PodKeys : ~Superseded(j) => ~Superseded(j)'
    BY <1>1, <2>1, SupersededPod DEF BInv
  <2>3. PICK j \in PodKeys : Held(j, u, v)
    BY DEF DueHeld
  <2> QED  BY <1>1, <2>2, <2>3 DEF Held
<1> QED  BY <1>3, <1>4, <1>5, <1>6

\* Mounts go only from pods that are gone and come only to pods that exist.
MountStep ==
    /\ \A u, v : <<u, v>> \in mounts /\ <<u, v>> \notin mounts' => ~Alive(u)
    /\ \A u, v : <<u, v>> \in mounts' /\ <<u, v>> \notin mounts => Alive(u)

\* Then what is recorded as mounted stays mounted.
LEMMA MountsStep ==
  ASSUME BInv, MountsRecorded, MountStep, UNCHANGED <<pods, h>>,
         \A j \in PodKeys : keymap'[j] = keymap[j] \/ keymap'[j] = NoEntry
  PROVE  MountsRecorded'
<1> USE Numbers
<1>1. ASSUME NEW j \in PodKeys, pods[j].uid = keymap'[j].uid, NEW v \in keymap'[j].mounts
      PROVE  <<keymap'[j].uid, v>> \in mounts'
  <2>1. keymap'[j] = keymap[j]
    BY <1>1
  <2>2. <<keymap[j].uid, v>> \in mounts /\ Alive(keymap[j].uid)
    BY <1>1, <2>1 DEF MountsRecorded, Alive
  <2> QED  BY <2>1, <2>2 DEF MountStep
<1>2. ASSUME h.pc = "store", pods[h.key].uid = h.entry.uid, NEW v \in h.entry.mounts
      PROVE  <<h.entry.uid, v>> \in mounts'
  <2>1. <<h.entry.uid, v>> \in mounts /\ Alive(h.entry.uid)
    BY <1>2 DEF MountsRecorded, Alive
  <2> QED  BY <2>1 DEF MountStep
<1>3. ASSUME h.pc = "store", keymap'[h.key].uid = h.entry.uid,
             Cardinality(h.entry.mounts) >= h.existing,
             NEW v \in keymap'[h.key].mounts, v \in Volumes, <<h.entry.uid, v>> \in mounts'
      PROVE  v \in h.entry.mounts
  <2>1. keymap'[h.key] = keymap[h.key] /\ h.entry.uid \in UIDs /\ h.key \in PodKeys
    BY <1>3
  <2>2. CASE <<h.entry.uid, v>> \in mounts
    BY <1>3, <2>1, <2>2 DEF MountsRecorded, MountsOf
  <2>3. CASE <<h.entry.uid, v>> \notin mounts
    <3>1. PICK i \in PodKeys : pods[i].uid = h.entry.uid
      BY <1>3, <2>3 DEF MountStep, Alive
    <3>2. Recorded(h.key, h.entry.uid)
      BY <1>3 DEF Recorded, Seen
    <3>3. i = h.key
      BY <2>1, <3>1, <3>2 DEF BInv, KnownUIDs
    <3> QED  BY <1>3, <2>1, <2>3, <3>1, <3>3 DEF MountsRecorded
  <2> QED  BY <2>2, <2>3
<1> QED  BY <1>1, <1>2, <1>3 DEF MountsRecorded, MountsOf

\* The steps of kubelet, a taint, and an operator who removes it.
LEMMA QuietPass ==
  ASSUME OInv, BInv', MountStep, UNCHANGED <<pods, lastUID, queue, h, keymap, forced>>,
         (m' = m /\ (taint => taint')) \/ OperatorUntaint
  PROVE  OInv'
<1> USE DEF OInv
<1>1. ForcedGone'
  BY DEF ForcedGone, Alive
<1>2. MountsRecorded'
  BY MountsStep
<1>3. CASE OperatorUntaint
  <2>1. /\ m'.pc = m.pc
        /\ m.pc # "idle" => /\ m'.due = {} /\ m'.todo = m.todo /\ m'.key = m.key
                            /\ m'.chosen = m.chosen /\ m'.blocked = m.blocked
    BY <1>3, UntaintFacts DEF BInv
  <2>2. PassShape'
    BY <2>1 DEF PassShape
  <2>3. DueHeld'
    BY <2>1 DEF DueHeld
  <2> QED  BY <1>1, <1>2, <2>2, <2>3
<1>4. CASE m' = m /\ (taint => taint')
  <2>1. PassShape'
    BY <1>4 DEF PassShape
  <2>2. DueHeld'
    <3> SUFFICES ASSUME m.pc # "idle", ~m.blocked, NEW u \in UIDs, NEW v \in Volumes,
                        <<u, v>> \in m.due, <<u, v>> \in mounts'
                 PROVE  \E k \in PodKeys : Held(k, u, v)
      BY <1>4 DEF DueHeld, Held, Superseded
    <3>1. u \in forced
      BY DEF PassShape
    <3>2. <<u, v>> \in mounts
      BY <3>1 DEF MountStep, ForcedGone
    <3> QED  BY <3>2 DEF DueHeld
  <2> QED  BY <1>1, <1>2, <2>1, <2>2
<1> QED  BY <1>3, <1>4

\* An outage and its end bring no newer incarnation of a pod; a restart ends the
\* pass.
LEMMA LinkPass ==
  ASSUME OInv, BInv', LinkDown \/ LinkUp \/ Restart
  PROVE  OInv'
<1> USE DEF OInv
<1>1. UNCHANGED <<pods, lastUID, forced, mounts, taint>>
  BY DEF LinkDown, LinkUp, Restart, api, kubelet
<1>2. ForcedGone'
  BY <1>1 DEF ForcedGone, Alive
<1>3. CASE LinkDown \/ LinkUp
  <2>1. UNCHANGED <<h, keymap, m>>
    BY <1>3 DEF LinkDown, LinkUp, loop
  <2>2. \A i \in 1..Len(queue') :
           \/ i \in 1..Len(queue) /\ queue'[i] = queue[i]
           \/ \E k \in PodKeys : /\ pods[k].here /\ queue'[i].key = k
                                 /\ queue'[i].uid = pods[k].uid
    BY <1>3, LinkQueue DEF BInv, TypeOK
  <2>3. \A k \in PodKeys : ~Superseded(k) => ~Superseded(k)'
    <3> SUFFICES ASSUME NEW k \in PodKeys, ~Superseded(k)
                 PROVE  ~Superseded(k)'
      OBVIOUS
    <3>1. pods[k].here => pods[k].uid = keymap[k].uid
      BY DEF Superseded
    <3> QED  BY <1>1, <2>1, <2>2, <3>1, SupersededKept DEF BInv
  <2>4. MountsRecorded' /\ PassShape'
    BY <1>1, <2>1 DEF MountsRecorded, MountsOf, PassShape
  <2>5. \A j \in PodKeys, u \in UIDs, v \in Volumes : Held(j, u, v) => Held(j, u, v)'
    BY <2>1, <2>3 DEF Held
  <2>6. DueHeld'
    BY <1>1, <2>1, <2>5 DEF DueHeld
  <2> QED  BY <1>2, <2>4, <2>6
<1>4. CASE Restart
  <2>1. h'.pc = "idle" /\ m'.pc = "idle" /\ \A k \in PodKeys : keymap'[k].mounts = {}
    BY <1>4 DEF Restart, Idle, NoEntry
  <2>2. MountsRecorded' /\ PassShape' /\ DueHeld'
    BY <2>1 DEF MountsRecorded, PassShape, DueHeld
  <2> QED  BY <1>2, <2>2
<1> QED  BY <1>3, <1>4

-----------------------------------------------------------------------------
(* The threads of the podmon. *)

\* A scan that finds all it can read records no less than is recorded of the pod,
\* or is not stored: without the API server it finds nothing.
LEMMA ScanRecords ==
  ASSUME Whole, BInv, BInv', HandlePod, h' # h
  PROVE  /\ h'.entry.mounts \subseteq MountsOf(h'.entry.uid)
         /\ Cardinality(h'.entry.mounts) >= h'.existing =>
               keymap[h'.key].mounts \cap MountsOf(h'.entry.uid) \subseteq h'.entry.mounts
<1>1. /\ h' \in Store /\ h'.key = Head(queue).key /\ h'.entry.uid = Head(queue).uid
      /\ h'.entry.mounts \subseteq MountsOf(Head(queue).uid)
      /\ h'.existing = Cardinality(keymap[h'.key].mounts)
      /\ h'.entry.mounts = Readable(Head(queue).uid)
  BY HandlePodFacts DEF BInv
<1>2. CASE apiUp
  BY <1>1, <1>2 DEF Readable
<1>3. CASE ~apiUp
  <2>1. h'.entry.mounts = {} /\ Cardinality(h'.entry.mounts) = 0
    BY <1>1, <1>3, FS_EmptySet DEF Readable
  <2>2. keymap[h'.key].mounts \subseteq Volumes
    BY <1>1 DEF BInv, TypeOK, Entry, Store
  <2>3. IsFiniteSet(keymap[h'.key].mounts)
    BY <2>2, FS_Subset, ConstantsAssumption
  <2>4. /\ Cardinality(keymap[h'.key].mounts) \in Nat
        /\ Cardinality(keymap[h'.key].mounts) = 0 => keymap[h'.key].mounts = {}
    BY <2>3, FS_CardinalityType, FS_EmptySet
  <2> QED  BY <1>1, <2>1, <2>4
<1> QED  BY <1>2, <1>3

\* The watch thread replaces an entry the pass has not come to only by one that
\* holds the same pod's mounts.
LEMMA HandlerPass ==
  ASSUME Whole, OInv, BInv', HandlerStep
  PROVE  OInv'
<1> USE Numbers DEF OInv
<1>1. UNCHANGED <<pods, lastUID, taint, forced, mounts, m>>
  BY DEF HandlerStep, HandlePod, StoreEntry, HandleDeleted, api, kubelet, loop
<1>2. ForcedGone' /\ PassShape'
  BY <1>1 DEF ForcedGone, PassShape, Alive
<1>3. ASSUME \A k \in PodKeys, u \in UIDs, v \in Volumes :
                Held(k, u, v) /\ <<u, v>> \in m.due /\ <<u, v>> \in mounts /\ m.pc # "idle"
                => Held(k, u, v)'
      PROVE  DueHeld'
  BY <1>1, <1>3 DEF DueHeld
<1>4. ASSUME queue # << >>, queue' = Tail(queue)
      PROVE  /\ \A i \in 1..Len(queue') : \E j \in 1..Len(queue) : queue[j] = queue'[i]
             /\ 1 \in DOMAIN queue /\ Head(queue) = queue[1]
  <2>1. queue \in Seq(Event)
    BY DEF BInv, TypeOK
  <2>2. DOMAIN queue = 1..Len(queue)
    BY <2>1
  <2> QED  BY <1>4, <2>2, TailQueue DEF BInv
<1>5. CASE HandlePod
  <2>1. /\ keymap' = keymap /\ queue # << >> /\ queue' = Tail(queue)
        /\ Head(queue).type = "Modified"
        /\ h' = h \/ (h'.key = Head(queue).key /\ h'.entry.uid = Head(queue).uid)
    BY <1>5, HandlePodFacts DEF BInv, HandlePod
  <2>2. MountsRecorded'
    <3>1. CASE h' = h
      BY <1>1, <2>1, <3>1 DEF MountsRecorded, MountsOf
    <3>2. CASE h' # h
      <4>1. /\ h'.entry.mounts \subseteq MountsOf(h'.entry.uid)
            /\ Cardinality(h'.entry.mounts) >= h'.existing =>
                  keymap[h'.key].mounts \cap MountsOf(h'.entry.uid) \subseteq h'.entry.mounts
        BY <1>5, <3>2, ScanRecords
      <4> QED  BY <1>1, <2>1, <4>1 DEF MountsRecorded, MountsOf
    <3> QED  BY <3>1, <3>2
  <2>3. \A k \in PodKeys : ~Superseded(k) => ~Superseded(k)'
    <3> SUFFICES ASSUME NEW k \in PodKeys, ~Superseded(k)
                 PROVE  ~Superseded(k)'
      OBVIOUS
    <3>1. Head(queue).key = k => Head(queue).uid = keymap[k].uid
      BY <1>4, <2>1 DEF Superseded
    <3> QED  BY <1>1, <1>4, <2>1, <3>1, SupersededKept DEF BInv
  <2>4. DueHeld'
    BY <1>1, <1>3, <2>1, <2>3 DEF Held
  <2> QED  BY <1>2, <2>2, <2>4
<1>6. CASE StoreEntry
  <2>1. /\ h.pc = "store" /\ h'.pc = "idle" /\ queue' = queue
        /\ h.key \in PodKeys /\ h.entry.uid \in UIDs
    BY <1>6 DEF StoreEntry, Idle, link
  <2>2. \A j \in PodKeys :
           \/ keymap'[j] = keymap[j]
           \/ /\ j = h.key /\ keymap'[j] = h.entry
              /\ Cardinality(h.entry.mounts) >= h.existing
    BY <1>6, <2>1 DEF StoreEntry, BInv, TypeOK
  <2>3. MountsRecorded'
    BY <1>1, <2>1, <2>2 DEF MountsRecorded
  <2>4. ASSUME NEW k \in PodKeys, ~Superseded(k)
        PROVE  keymap'[k].uid = keymap[k].uid /\ ~Superseded(k)'
    <3>1. keymap'[k].uid = keymap[k].uid
      BY <2>1, <2>2, <2>4 DEF Superseded
    <3> QED  BY <1>1, <2>1, <2>4, <3>1, SupersededKept DEF BInv
  <2>5. ASSUME NEW k \in PodKeys, NEW u \in UIDs, NEW v \in Volumes, Held(k, u, v),
               <<u, v>> \in mounts
        PROVE  Held(k, u, v)'
    <3>1. CASE /\ k \in m.todo /\ keymap[k].uid = u /\ v \in keymap[k].mounts
               /\ ~Superseded(k)
      <4>1. keymap'[k].uid = u /\ ~Superseded(k)'
        BY <2>4, <3>1
      <4>2. v \in keymap'[k].mounts
        <5>1. CASE keymap'[k] = keymap[k]
          BY <3>1, <5>1
        <5>2. CASE /\ k = h.key /\ keymap'[k] = h.entry
                   /\ Cardinality(h.entry.mounts) >= h.existing
          BY <2>1, <2>5, <3>1, <4>1, <5>2 DEF MountsRecorded, MountsOf
        <5> QED  BY <2>2, <5>1, <5>2
      <4> QED  BY <1>1, <3>1, <4>1, <4>2 DEF Held
    <3>2. CASE \/ m.pc = "recheck" /\ m.key = k /\ m.entry.uid = u /\ v \in m.entry.mounts
               \/ m.chosen[k].uid = u /\ v \in m.chosen[k].mounts
      BY <1>1, <3>2 DEF Held
    <3> QED  BY <2>5, <3>1, <3>2 DEF Held
  <2>6. DueHeld'
    BY <1>3, <2>5
  <2> QED  BY <1>2, <2>3, <2>6
<1>7. CASE HandleDeleted
  <2>1. h' = h /\ Head(queue) \in Event /\ queue # << >> /\ queue' = Tail(queue)
    BY <1>7 DEF HandleDeleted, BInv, TypeOK
  <2>2. Head(queue).key \in PodKeys
    BY <2>1 DEF Event
  <2>3. /\ \A j \in PodKeys : keymap'[j] = keymap[j] \/ keymap'[j] = NoEntry
        /\ taint => keymap' = keymap
    BY <1>7, <2>2 DEF HandleDeleted, BInv, TypeOK
  <2>4. MountStep
    BY <1>1 DEF MountStep
  <2>5. MountsRecorded'
    BY <1>1, <2>1, <2>3, <2>4, MountsStep
  <2>6. ASSUME NEW k \in PodKeys, ~Superseded(k), taint
        PROVE  ~Superseded(k)'
    BY <1>1, <1>4, <2>1, <2>3, <2>6, SupersededKept DEF BInv
  <2>7. \A p \in m.due : m.pc # "idle" => taint
    BY DEF PassShape
  <2>8. DueHeld'
    BY <1>1, <1>3, <2>3, <2>6, <2>7 DEF Held
  <2> QED  BY <1>2, <2>5, <2>8
<1> QED  BY <1>5, <1>6, <1>7 DEF HandlerStep

\* What a pass does to the rest.
LEMMA MonitorRest ==
  ASSUME OInv, BInv', NeverCleanLive, MonitorStep
  PROVE  /\ UNCHANGED <<pods, lastUID, queue, h, forced>>
         /\ ForcedGone' /\ MountsRecorded'
<1> USE DEF OInv
<1>1. /\ UNCHANGED <<pods, lastUID, queue, h, apiUp>>
      /\ \A j \in PodKeys : keymap'[j] = keymap[j] \/ keymap'[j] = NoEntry
  BY MonitorRecords DEF BInv
<1>2. forced' = forced
  BY DEF MonitorStep, LoopError, LoopIterate, ScanPod, CleanPod, RecheckPod, ScanDone,
         CleanDone, Untaint, api
<1>3. ForcedGone'
  BY <1>1, <1>2 DEF ForcedGone, Alive
<1>4. MountStep
  <2>1. ASSUME NEW k \in PodKeys, CleanPod(k)
        PROVE  MountStep
    <3>1. /\ mounts' \subseteq mounts /\ m \in Pass /\ m.chosen[k] # NoEntry
          /\ \A u, v : <<u, v>> \in mounts /\ <<u, v>> \notin mounts' => u = m.chosen[k].uid
      BY <2>1, CleanFacts DEF BInv
    <3>2. m # Idle
      BY <3>1, ThreadTypes DEF Idle
    <3>3. ~Alive(m.chosen[k].uid)
      BY <3>1, <3>2 DEF NeverCleanLive
    <3> QED  BY <3>1, <3>3 DEF MountStep
  <2>2. CASE mounts' = mounts
    BY <2>2 DEF MountStep
  <2> QED  BY <2>1, <2>2 DEF MonitorStep, LoopError, LoopIterate, ScanPod, RecheckPod,
                             ScanDone, CleanDone, Untaint, kubelet
<1>5. MountsRecorded'
  BY <1>1, <1>4, MountsStep
<1> QED  BY <1>1, <1>2, <1>3, <1>5

\* The pass keeps hold of what is due until it is cleaned up, or gives up the
\* removal of the taint.
LEMMA MonitorPass ==
  ASSUME OInv, BInv', NeverCleanLive, MonitorStep
  PROVE  OInv'
<1> USE Numbers DEF OInv
<1>1. /\ UNCHANGED <<pods, lastUID, queue, h, forced>>
      /\ ForcedGone' /\ MountsRecorded'
  BY MonitorRest
<1>2. ASSUME keymap' = keymap
      PROVE  \A k \in PodKeys : Superseded(k)' = Superseded(k)
  BY <1>1, <1>2 DEF Superseded
<1>3. taint' = taint \/ m'.pc = "idle"
  <2>1. CASE Untaint
    BY <2>1 DEF Untaint, Idle
  <2>2. CASE ~Untaint
    <3>1. UNCHANGED api
      BY <2>2 DEF MonitorStep, LoopError, LoopIterate, ScanPod, CleanPod, RecheckPod,
                  ScanDone, CleanDone
    <3> QED  BY <3>1 DEF api
  <2> QED  BY <2>1, <2>2
<1>4. CASE m'.pc = "idle"
  BY <1>1, <1>4 DEF PassShape, DueHeld
<1>5. ASSUME LoopIterate, m' \in Pass, m'.pc = "scan", m'.todo = PodKeys,
             \A k \in PodKeys : m'.chosen[k] = NoEntry, m'.due = Due, taint, keymap' = keymap
      PROVE  OInv'
  <2>1. \A p \in Due : p[1] \in forced
    BY DEF Due
  <2>2. PassShape'
    BY <1>1, <1>3, <1>5, <2>1 DEF PassShape
  <2>3. DueHeld'
    <3> SUFFICES ASSUME NEW u \in UIDs, NEW v \in Volumes, <<u, v>> \in Due
                 PROVE  \E k \in PodKeys : Held(k, u, v)'
      BY <1>5 DEF DueHeld
    <3>1. PICK k \in PodKeys : /\ u = keymap[k].uid /\ v \in keymap[k].mounts
                               /\ ~Superseded(k)
      BY DEF Due
    <3> QED  BY <1>2, <1>5, <3>1 DEF Held
  <2> QED  BY <1>1, <2>2, <2>3
<1>6. ASSUME NEW k \in PodKeys, ScanPod(k)
      PROVE  OInv'
  <2>1. /\ m \in Pass /\ m.pc = "scan" /\ k \in m.todo
        /\ UNCHANGED <<keymap, mounts, taint>>
        /\ m'.todo = m.todo \ {k} /\ m'.chosen = m.chosen /\ m'.due = m.due
    BY <1>6, ScanFacts DEF BInv, api, kubelet
  <2>2. \/ /\ keymap[k] = NoEntry \/ ShouldRunHere(k)
              \/ (IgnoreVolumelessPods /\ keymap[k].mounts = {})
           /\ m'.pc = "scan" /\ m'.blocked = m.blocked
        \/ m'.pc = "scan" /\ m'.blocked
        \/ /\ m'.pc = "recheck" /\ m'.blocked = m.blocked /\ keymap[k] # NoEntry
           /\ m'.key = k /\ m'.entry = keymap[k]
    BY <1>6, ScanFacts DEF BInv
  <2>3. PassShape'
    BY <1>1, <2>1, <2>2 DEF PassShape
  <2>4. DueHeld'
    <3> SUFFICES ASSUME m'.pc # "idle", ~m'.blocked, NEW u \in UIDs, NEW v \in Volumes,
                        <<u, v>> \in m.due, <<u, v>> \in mounts
                 PROVE  \E j \in PodKeys : Held(j, u, v)'
      BY <2>1 DEF DueHeld
    <3>1. ~m.blocked
      BY <2>2
    <3>2. PICK j \in PodKeys : Held(j, u, v)
      BY <2>1, <3>1 DEF DueHeld
    <3>3. CASE \/ /\ j \in m.todo \ {k} /\ keymap[j].uid = u /\ v \in keymap[j].mounts
                  /\ ~Superseded(j)
               \/ m.chosen[j].uid = u /\ v \in m.chosen[j].mounts
      BY <1>2, <2>1, <3>3 DEF Held
    <3>4. CASE j = k /\ keymap[k].uid = u /\ v \in keymap[k].mounts /\ ~Superseded(k)
      <4>1. ~ShouldRunHere(k)
        <5> SUFFICES ASSUME ShouldRunHere(k)
                     PROVE  FALSE
          OBVIOUS
        <5>1. pods[k].here /\ u \in forced
          BY <2>1 DEF ShouldRunHere, PassShape
        <5>2. pods[k].uid = u
          BY <3>4, <5>1 DEF Superseded
        <5> QED  BY <5>1, <5>2 DEF ForcedGone, Alive
      <4>2. m'.pc = "recheck" /\ m'.key = k /\ m'.entry = keymap[k]
        BY <2>2, <3>4, <4>1
      <4> QED  BY <3>4, <4>2 DEF Held
    <3> QED  BY <2>1, <3>2, <3>3, <3>4 DEF Held
  <2> QED  BY <1>1, <2>3, <2>4
<1>7. CASE RecheckPod
  <2>1. /\ m \in Pass /\ m.pc = "recheck" /\ m.key \in PodKeys
        /\ UNCHANGED <<keymap, mounts, taint>>
        /\ m'.pc = "scan" /\ m'.todo = m.todo /\ m'.due = m.due
        /\ \/ m'.blocked /\ m'.chosen = m.chosen
           \/ /\ m'.blocked = m.blocked
              /\ m'.chosen = [m.chosen EXCEPT ![m.key] = m.entry]
    BY <1>7, RecheckFacts DEF BInv, RecheckHasKey, api, kubelet
  <2>2. m.chosen \in [PodKeys -> Entry] /\ m.todo \subseteq PodKeys
    BY <2>1 DEF Pass
  <2>3. m.key \notin m.todo /\ m.chosen[m.key] = NoEntry
    BY <2>1 DEF PassShape
  <2>4. \A j \in PodKeys : j # m.key => m'.chosen[j] = m.chosen[j]
    BY <2>1, <2>2
  <2>5. PassShape'
    BY <1>1, <2>1, <2>2, <2>3, <2>4 DEF PassShape
  <2>6. DueHeld'
    <3> SUFFICES ASSUME ~m'.blocked, NEW u \in UIDs, NEW v \in Volumes,
                        <<u, v>> \in m.due, <<u, v>> \in mounts
                 PROVE  \E j \in PodKeys : Held(j, u, v)'
      BY <2>1 DEF DueHeld
    <3>1. ~m.blocked /\ m'.chosen = [m.chosen EXCEPT ![m.key] = m.entry]
      BY <2>1
    <3>2. PICK j \in PodKeys : Held(j, u, v)
      BY <2>1, <3>1 DEF DueHeld
    <3>3. m'.chosen[m.key] = m.entry
      BY <2>1, <2>2, <3>1
    <3>4. CASE j = m.key
      BY <1>2, <2>1, <2>3, <3>2, <3>3, <3>4 DEF Held
    <3>5. CASE j # m.key
      BY <1>2, <2>1, <2>4, <3>2, <3>5 DEF Held
    <3> QED  BY <3>4, <3>5
  <2> QED  BY <1>1, <2>5, <2>6
<1>8. CASE ScanDone
  <2>1. m \in Pass /\ m.pc = "scan" /\ m' = [m EXCEPT !.pc = "clean"] /\ m.todo = {}
        /\ UNCHANGED <<keymap, mounts, taint>>
    BY <1>8, ThreadTypes DEF ScanDone, BInv, TypeOK, api, kubelet
  <2>2. /\ m'.pc = "clean" /\ m'.todo = {} /\ m'.chosen = m.chosen /\ m'.due = m.due
        /\ m'.blocked = m.blocked
    BY <2>1 DEF Pass
  <2>3. PassShape'
    BY <1>1, <2>1, <2>2 DEF PassShape
  <2>4. DueHeld'
    BY <1>2, <2>1, <2>2 DEF DueHeld, Held
  <2> QED  BY <1>1, <2>3, <2>4
<1>9. ASSUME NEW k \in PodKeys, CleanPod(k)
      PROVE  OInv'
  <2>1. /\ m \in Pass /\ m.pc = "clean" /\ m'.pc = "clean" /\ m'.todo = m.todo
        /\ m'.due = m.due /\ m'.chosen = [m.chosen EXCEPT ![k] = NoEntry]
        /\ \/ m'.blocked
           \/ /\ m'.blocked = m.blocked
              /\ mounts' = mounts \ ({m.chosen[k].uid} \X m.chosen[k].mounts)
        /\ taint' = taint
    BY <1>9, CleanFacts DEF BInv, api
  <2>2. m.chosen \in [PodKeys -> Entry]
    BY <2>1 DEF Pass
  <2>3. m.todo = {}
    BY <2>1 DEF PassShape
  <2>4. \A j \in PodKeys : j # k => m'.chosen[j] = m.chosen[j]
    BY <2>1, <2>2
  <2>5. PassShape'
    BY <1>1, <2>1, <2>3 DEF PassShape
  <2>6. DueHeld'
    <3> SUFFICES ASSUME ~m'.blocked, NEW u \in UIDs, NEW v \in Volumes,
                        <<u, v>> \in m.due, <<u, v>> \in mounts'
                 PROVE  \E j \in PodKeys : Held(j, u, v)'
      BY <2>1 DEF DueHeld
    <3>1. ~m.blocked /\ mounts' = mounts \ ({m.chosen[k].uid} \X m.chosen[k].mounts)
      BY <2>1
    <3>2. PICK j \in PodKeys : Held(j, u, v)
      BY <2>1, <3>1 DEF DueHeld
    <3>3. m.chosen[j].uid = u /\ v \in m.chosen[j].mounts
      BY <2>1, <2>3, <3>2 DEF Held
    <3>4. j # k
      BY <3>1, <3>3
    <3> QED  BY <2>4, <3>3, <3>4 DEF Held
  <2> QED  BY <1>1, <2>5, <2>6
<1>10. CASE CleanDone /\ m' # Idle
  <2>1. /\ m \in Pass /\ m.pc = "clean" /\ \A k \in PodKeys : m.chosen[k] = NoEntry
        /\ m' = [m EXCEPT !.pc = "untaint"] /\ ~m.blocked
        /\ UNCHANGED <<keymap, mounts, taint>>
    BY <1>10, ThreadTypes DEF CleanDone, BInv, TypeOK, api, kubelet
  <2>2. /\ m'.pc = "untaint" /\ m'.todo = m.todo /\ m'.chosen = m.chosen /\ m'.due = m.due
        /\ m'.blocked = m.blocked
    BY <2>1 DEF Pass
  <2>3. PassShape'
    BY <1>1, <2>1, <2>2 DEF PassShape
  <2>4. DueHeld'
    BY <1>2, <2>1, <2>2 DEF DueHeld, Held
  <2> QED  BY <1>1, <2>3, <2>4
<1>11. CASE LoopError \/ Untaint \/ (CleanDone /\ m' = Idle)
  <2>1. m'.pc = "idle"
    BY <1>11 DEF LoopError, Untaint, Idle
  <2> QED  BY <1>4, <2>1
<1>12. CASE LoopIterate
  <2>1. m.pc = "idle" /\ keymap' = keymap
    BY <1>12 DEF LoopIterate, Idle
  <2>2. CASE m' = m
    BY <1>4, <2>1, <2>2
  <2>3. CASE /\ m' \in Pass /\ m'.pc = "scan" /\ m'.todo = PodKeys
             /\ \A k \in PodKeys : m'.chosen[k] = NoEntry
             /\ m'.due = Due /\ taint
    BY <1>5, <1>12, <2>1, <2>3
  <2> QED  BY <1>12, <2>2, <2>3, StartFacts DEF BInv
<1> QED  BY <1>6, <1>7, <1>8, <1>9, <1>10, <1>11, <1>12 DEF MonitorStep

\* Every step keeps the invariant of the pass, as long as no pod that exists is
\* chosen.
LEMMA PassStep == Whole /\ OInv /\ NeverCleanLive /\ [Next]_vars => OInv'
<1> SUFFICES ASSUME Whole, OInv, NeverCleanLive, [Next]_vars
             PROVE  OInv'
  OBVIOUS
<1>1. BInv' /\ BInv /\ TypeOK
  BY BaseStep DEF OInv, BInv
<1>2. ASSUME NEW k \in PodKeys, NEW here \in BOOLEAN, Schedule(k, here)
      PROVE  OInv'
  BY <1>1, <1>2, ScheduleFacts, NewPodPass
<1>3. ASSUME NEW k \in PodKeys,
             Finish(k) \/ Start(k) \/ Delete(k) \/ \E uid \in UIDs : ControllerDelete(k, uid)
      PROVE  OInv'
  BY <1>1, <1>3, SamePodFacts, ForcedFacts, SamePodPass
<1>4. ASSUME NEW k \in PodKeys, ControllerTaint(k)
      PROVE  OInv'
  <2>1. taint' /\ MountStep
    BY <1>4 DEF ControllerTaint, kubelet, MountStep
  <2> QED  BY <1>1, <1>4, <2>1, QuietPass DEF ControllerTaint, link, loop
<1>5. CASE OperatorUntaint
  <2>1. UNCHANGED <<pods, lastUID, forced, mounts, queue, h, keymap, apiUp>>
    BY <1>1, <1>5, UntaintFacts
  <2>2. MountStep
    BY <2>1 DEF MountStep
  <2> QED  BY <1>1, <1>5, <2>1, <2>2, QuietPass
<1>6. CASE LinkDown \/ LinkUp \/ Restart
  BY <1>1, <1>6, LinkPass
<1>7. ASSUME NEW k \in PodKeys, NEW v \in Volumes, Mount(k, v)
      PROVE  OInv'
  <2>1. MountStep
    <3>1. mounts' = mounts \cup {<<pods[k].uid, v>>}
      BY <1>7 DEF Mount
    <3>2. Alive(pods[k].uid)
      BY DEF Alive
    <3>3. \A u, w : <<u, w>> \in mounts' /\ <<u, w>> \notin mounts => u = pods[k].uid
      BY <3>1
    <3> QED  BY <3>1, <3>2, <3>3 DEF MountStep
  <2> QED  BY <1>1, <1>7, <2>1, QuietPass DEF Mount, api, link, loop
<1>8. ASSUME NEW uid \in UIDs, NEW v \in Volumes, Unmount(uid, v)
      PROVE  OInv'
  <2>1. MountStep
    <3>1. mounts' = mounts \ {<<uid, v>>} /\ ~Alive(uid)
      BY <1>8 DEF Unmount
    <3>2. \A u, w : <<u, w>> \in mounts /\ <<u, w>> \notin mounts' => u = uid
      BY <3>1
    <3> QED  BY <3>1, <3>2 DEF MountStep
  <2> QED  BY <1>1, <1>8, <2>1, QuietPass DEF Unmount, api, link, loop
<1>9. ASSUME NEW uid \in UIDs, Stop(uid)
      PROVE  OInv'
  <2>1. MountStep
    BY <1>9 DEF Stop, MountStep
  <2> QED  BY <1>1, <1>9, <2>1, QuietPass DEF Stop, api, link, loop
<1>10. CASE UNCHANGED vars
  <2>1. MountStep
    BY <1>10 DEF vars, kubelet, MountStep
  <2> QED  BY <1>1, <1>10, <2>1, QuietPass DEF vars, api, link, loop
<1> QED  BY <1>1, <1>2, <1>3, <1>4, <1>5, <1>6, <1>7, <1>8, <1>9, <1>10, HandlerPass,
            MonitorPass DEF Next, Cluster, Kubelet

\* It holds at start.
LEMMA PassInit == Init => OInv
<1> SUFFICES ASSUME Init
             PROVE  OInv
  OBVIOUS
<1>1. BInv /\ h.pc = "idle" /\ m.pc = "idle" /\ forced = {}
  BY BaseInit DEF Init, Idle, RInv
<1>2. \A k \in PodKeys : keymap[k].mounts = {}
  BY DEF Init, NoEntry
<1> QED  BY <1>1, <1>2 DEF OInv, ForcedGone, MountsRecorded, PassShape, DueHeld

\* What is held at the end of a pass is nothing.
LEMMA PassClean == OInv => TaintRemovalClean
<1> SUFFICES ASSUME OInv, m.pc = "untaint"
             PROVE  m.due \cap mounts = {}
  BY DEF TaintRemovalClean
<1>1. m \in Pass
  BY ThreadTypes DEF OInv, BInv, TypeOK
<1>2. m.due \subseteq UIDs \X Volumes
  BY <1>1 DEF Pass
<1>3. ~m.blocked /\ m.todo = {} /\ \A k \in PodKeys : m.chosen[k] = NoEntry
  BY DEF OInv, PassShape
<1>4. \A k \in PodKeys, u \in UIDs, v \in Volumes : ~Held(k, u, v)
  BY <1>3 DEF Held, NoEntry
<1> QED  BY <1>2, <1>3, <1>4 DEF OInv, DueHeld

\* When nodeModeCleanupPods removes the taint, nothing is left mounted of what was
\* recorded for the pods force-deleted before the pass, however often the node is
\* tainted and for any number of pods and volumes, with calls to the driver that
\* fail, entries the watch thread rewrites during the pass, outages, failed calls
\* and restarts.  It rests on two things: the nodeModePodHandler that can read
\* one PV can read them all, and no pod that exists was cleaned up.
THEOREM UntaintIsClean ==
  ASSUME Whole
  PROVE  Spec /\ []NeverCleanLive => []TaintRemovalClean
<1>1. Init => OInv
  BY PassInit
<1>2. OInv /\ NeverCleanLive /\ [Next]_vars => OInv'
  BY PassStep
<1>3. OInv => TaintRemovalClean
  BY PassClean
<1> QED  BY <1>1, <1>2, <1>3, PTL DEF Spec

\* As long as the node reaches the API server, that holds without more ado.
THEOREM ReliableUntaintIsClean ==
  ASSUME Reliable
  PROVE  Spec => []TaintRemovalClean
<1>1. Whole
  BY DEF Reliable, Whole
<1>2. Spec /\ []NeverCleanLive => []TaintRemovalClean
  BY <1>1, UntaintIsClean
<1> QED  BY <1>2, LiveNeverCleaned, PTL
=============================================================================
