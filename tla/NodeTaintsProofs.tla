--------------------------- MODULE NodeTaintsProofs ---------------------------
(***************************************************************************)
(* Proofs for NodeTaints: while no two writers of the taints of a node     *)
(* overlap, a call of TaintNode changes the taint it names and no other,   *)
(* and the driver-pod taint follows the driver pod.  Without that          *)
(* condition both fail, as the run taints_lost shows of the first.         *)
(***************************************************************************)
EXTENDS NodeTaints, TLAPS

\* A call of TaintNode between its read and its patch.
PatchCall == [pc : {"patch"}, taint : Taints, remove : BOOLEAN, list : Lists]

\* Only one call is between its read and its patch.
OneCall == \A a, b \in Threads : call[a] # NoCall /\ call[b] # NoCall => a = b

\* What such a call computed still fits the taints of the node.
CallFresh ==
    \A a \in Threads : call[a] # NoCall =>
       /\ ShouldPatch(taints, call[a].taint, call[a].remove)
       /\ call[a].list = UpdateTaint(taints, call[a].taint, call[a].remove)

\* The driver-pod handler alone writes the driver-pod taint.
OwnTaint ==
    /\ \A a \in Callers : call[a] # NoCall => call[a].taint = PodmonTaint
    /\ call[Driver] # NoCall => call[Driver].taint = DriverPodTaint

\* With no event left the handler acts on the present state of the driver pod.
HandlerFollows ==
    /\ d # Idle => call[Driver] = NoCall
    /\ events = 0 /\ d # Idle => (d.ready <=> DriverReady)
    /\ events = 0 /\ call[Driver] # NoCall => (call[Driver].remove <=> DriverReady)

\* What calls that do not overlap keep, and with the driver-pod handler the
\* inductive invariant.
Serial == OneCall /\ CallFresh /\ TaintApplied
IInv == TypeOK /\ Serial /\ OwnTaint /\ HandlerFollows /\ DriverTaintFollows

-----------------------------------------------------------------------------
(* The operators. *)

\* updateTaint changes how often the list has the taint it is given, and no other,
\* and lists no taint twice if taintExists was asked first.
LEMMA UpdateFacts ==
  ASSUME NEW list \in Lists, NEW t \in Taints, NEW remove \in BOOLEAN
  PROVE  /\ ShouldPatch(list, t, remove) => UpdateTaint(list, t, remove) \in Lists
         /\ UpdateTaint(list, t, remove)[t] = IF remove THEN 0 ELSE list[t] + 1
         /\ \A u \in Taints : u # t => UpdateTaint(list, t, remove)[u] = list[u]
<1>1. UpdateTaint(list, t, remove) = [list EXCEPT ![t] = IF remove THEN 0 ELSE list[t] + 1]
  BY DEF UpdateTaint, Lists
<1>2. ASSUME ShouldPatch(list, t, remove)
      PROVE  UpdateTaint(list, t, remove) \in Lists
  <2>1. (IF remove THEN 0 ELSE list[t] + 1) \in 0..1
    BY <1>2 DEF ShouldPatch, TaintExists, Lists
  <2> QED  BY <1>1, <2>1 DEF Lists
<1>3. DOMAIN list = Taints
  BY DEF Lists
<1> QED  BY <1>1, <1>2, <1>3

\* The same of a write of that list.
LEMMA WriteFacts ==
  ASSUME TypeOK, NEW t \in Taints, NEW remove \in BOOLEAN,
         taints' = UpdateTaint(taints, t, remove)
  PROVE  /\ taints'[t] = IF remove THEN 0 ELSE taints[t] + 1
         /\ \A u \in Taints : u # t => taints'[u] = taints[u]
  BY UpdateFacts DEF TypeOK

\* A call under way is a patch to send.
LEMMA CallIsPatch ==
  ASSUME TypeOK, NEW a \in Threads
  PROVE  /\ call[a] # NoCall => call[a] \in PatchCall
         /\ call[a].pc = "patch" <=> call[a] # NoCall
  BY DEF TypeOK, PatchCall, NoCall

\* TaintNode up to its patch: a call that fits the taints it read, or nothing to
\* do, and that is noted.
LEMMA TaintNodeFacts ==
  ASSUME TypeOK, NEW a \in Threads, NEW t \in Taints, NEW remove \in BOOLEAN,
         TaintNode(a, t, remove)
  PROVE  /\ taints' = taints /\ call[a] = NoCall
         /\ call' \in [Threads -> {NoCall} \cup PatchCall] /\ wanted' \subseteq Taints
         /\ \A b \in Threads : b # a => call'[b] = call[b]
         /\ \/ /\ ShouldPatch(taints, t, remove) /\ wanted' = wanted
               /\ call'[a] \in PatchCall
               /\ call'[a].taint = t /\ call'[a].remove = remove
               /\ call'[a].list = UpdateTaint(taints, t, remove)
            \/ ~ShouldPatch(taints, t, remove) /\ Want(t, remove) /\ call' = call
<1>1. taints' = taints /\ call[a] = NoCall
  BY DEF TaintNode
<1>2. CASE ShouldPatch(taints, t, remove)
  <2> DEFINE new == [pc |-> "patch", taint |-> t, remove |-> remove,
                     list |-> UpdateTaint(taints, t, remove)]
  <2>1. new \in PatchCall
    BY <1>2, UpdateFacts DEF PatchCall, TypeOK
  <2>2. /\ new.taint = t /\ new.remove = remove
        /\ new.list = UpdateTaint(taints, t, remove)
    OBVIOUS
  <2>3. call' = [call EXCEPT ![a] = new] /\ wanted' = wanted
    BY <1>2 DEF TaintNode
  <2> HIDE DEF new
  <2>4. call'[a] = new /\ \A b \in Threads : b # a => call'[b] = call[b]
    BY <2>3 DEF TypeOK
  <2>5. call' \in [Threads -> {NoCall} \cup PatchCall] /\ wanted' \subseteq Taints
    BY <2>1, <2>3 DEF TypeOK, PatchCall
  <2> QED  BY <1>1, <1>2, <2>1, <2>2, <2>3, <2>4, <2>5
<1>3. CASE ~ShouldPatch(taints, t, remove)
  <2>1. call' = call /\ Want(t, remove)
    BY <1>3 DEF TaintNode
  <2> QED  BY <1>1, <1>3, <2>1 DEF Want, TypeOK, PatchCall
<1> QED  BY <1>2, <1>3

\* The two taints of podmon are taints.
LEMMA PodmonTaints ==
  /\ PodmonTaint \in Taints /\ DriverPodTaint \in Taints
  /\ PodmonTaint # DriverPodTaint
  /\ Foreign \subseteq Taints /\ DriverPodTaint \notin Foreign
  /\ Driver \in Threads /\ Callers \subseteq Threads /\ Driver \notin Callers
  /\ Threads = Callers \cup {Driver}
  BY ConstantsAssumption DEF Taints, PodmonTaint, DriverPodTaint, Threads

-----------------------------------------------------------------------------
(* Types, also for calls that overlap. *)

\* At start the node has no taint and nobody is in a call.
LEMMA InitIInv == Init => IInv
<1> SUFFICES ASSUME Init
             PROVE  IInv
  OBVIOUS
<1>1. /\ \A a \in Threads : call[a] = NoCall
      /\ call \in [Threads -> {NoCall} \cup PatchCall]
  BY DEF Init
<1>2. taints \in Lists /\ \A t \in Taints : taints[t] = 0
  BY DEF Init, NoTaints, Lists
<1>3. driverPod = "ready" /\ missed = FALSE /\ events = 0 /\ d = Idle /\ wanted = {}
  BY DEF Init
<1>4. driverPod \in DriverPods /\ missed \in BOOLEAN
  BY <1>3 DEF DriverPods
<1>5. TypeOK
  BY <1>1, <1>2, <1>3, <1>4, ConstantsAssumption DEF TypeOK, PatchCall
<1>6. Serial /\ OwnTaint /\ HandlerFollows
  BY <1>1, <1>2, <1>3, PodmonTaints
  DEF Serial, OneCall, CallFresh, TaintApplied, OwnTaint, HandlerFollows
<1>7. DriverTaintFollows
  BY <1>2, <1>3, PodmonTaints DEF DriverTaintFollows, TaintExists, DriverReady
<1> QED  BY <1>5, <1>6, <1>7 DEF IInv

\* Every step keeps the types.
LEMMA TypeStep == TypeOK /\ [Next]_vars => TypeOK'
<1> SUFFICES ASSUME TypeOK, [Next]_vars
             PROVE  TypeOK'
  OBVIOUS
<1>1. ASSUME NEW a \in Callers, NEW remove \in BOOLEAN, PodmonCall(a, remove)
      PROVE  TypeOK'
  <2>1. /\ taints' = taints /\ wanted' \subseteq Taints
        /\ call' \in [Threads -> {NoCall} \cup PatchCall]
    BY <1>1, PodmonTaints, TaintNodeFacts DEF PodmonCall
  <2> QED  BY <1>1, <2>1 DEF PodmonCall, TypeOK, PatchCall
<1>2. ASSUME NEW a \in Threads, Patch(a)
      PROVE  TypeOK'
  <2>1. call[a] \in PatchCall
    BY <1>2, CallIsPatch DEF Patch
  <2>2. call[a].list \in Lists /\ call[a].taint \in Taints
    BY <2>1 DEF PatchCall
  <2>3. call' \in [Threads -> {NoCall} \cup PatchCall]
    BY <1>2 DEF Patch, TypeOK, PatchCall
  <2>4. missed' \in BOOLEAN
    BY <1>2 DEF Patch, TypeOK
  <2>5. taints' \in Lists /\ wanted' \subseteq Taints
    BY <1>2, <2>2 DEF Patch, TypeOK, Want
  <2> QED  BY <1>2, <2>3, <2>4, <2>5 DEF Patch, TypeOK, PatchCall
<1>3. ASSUME NEW t \in Foreign, ForeignWrite(t)
      PROVE  TypeOK'
  <2>1. /\ t \in Taints /\ TaintExists(taints, t) \in BOOLEAN
        /\ ShouldPatch(taints, t, TaintExists(taints, t))
    BY PodmonTaints DEF TaintExists, ShouldPatch
  <2>2. taints' \in Lists
    BY <1>3, <2>1, UpdateFacts DEF ForeignWrite, TypeOK
  <2>3. wanted' \subseteq Taints
    BY <1>3, <2>1 DEF ForeignWrite, Want, TypeOK
  <2> QED  BY <1>3, <2>2, <2>3 DEF ForeignWrite, TypeOK
<1>4. CASE DriverPodChanges
  <2>1. events' \in 0..MaxEvents
    BY <1>4, ConstantsAssumption DEF DriverPodChanges, TypeOK
  <2>2. driverPod' \in DriverPods
    BY <1>4 DEF DriverPodChanges
  <2> QED  BY <1>4, <2>1, <2>2 DEF DriverPodChanges, TypeOK
<1>5. CASE DriverGetPod
  <2>1. events' \in 0..MaxEvents
    BY <1>5, ConstantsAssumption DEF DriverGetPod, TypeOK
  <2>2. d' \in {Idle} \cup [pc : {"getnode"}, ready : BOOLEAN]
    <3>1. d' = d \/ d' = [pc |-> "getnode", ready |-> DriverReady]
      BY <1>5 DEF DriverGetPod
    <3>2. DriverReady \in BOOLEAN
      BY DEF DriverReady
    <3> HIDE DEF DriverReady
    <3> QED  BY <3>1, <3>2 DEF TypeOK
  <2>3. missed' \in BOOLEAN
    BY <1>5 DEF DriverGetPod, TypeOK
  <2> QED  BY <1>5, <2>1, <2>2, <2>3 DEF DriverGetPod, TypeOK
<1>6. CASE DriverGetNode
  <2>1. missed' \in BOOLEAN /\ d' = Idle /\ UNCHANGED <<driverPod, events>>
    BY <1>6 DEF DriverGetNode
  <2>2. \/ UNCHANGED <<taints, call, wanted>>
        \/ \E remove \in BOOLEAN : TaintNode(Driver, DriverPodTaint, remove)
    BY <1>6 DEF DriverGetNode
  <2>3. /\ taints' = taints /\ wanted' \subseteq Taints
        /\ call' \in [Threads -> {NoCall} \cup PatchCall]
    <3>1. CASE UNCHANGED <<taints, call, wanted>>
      BY <3>1 DEF TypeOK, PatchCall
    <3>2. ASSUME NEW remove \in BOOLEAN, TaintNode(Driver, DriverPodTaint, remove)
          PROVE  /\ taints' = taints /\ wanted' \subseteq Taints
                 /\ call' \in [Threads -> {NoCall} \cup PatchCall]
      BY <3>2, PodmonTaints, TaintNodeFacts
    <3> QED  BY <2>2, <3>1, <3>2
  <2> QED  BY <2>1, <2>3 DEF TypeOK, PatchCall
<1>7. CASE UNCHANGED vars
  BY <1>7 DEF vars, TypeOK
<1> QED  BY <1>1, <1>2, <1>3, <1>4, <1>5, <1>6, <1>7 DEF Next

-----------------------------------------------------------------------------
(* Calls that do not overlap. *)

\* A write of the list updateTaint computes does what it was asked for.
LEMMA AppliedWrite ==
  ASSUME TypeOK, TaintApplied, NEW t \in Taints, NEW remove \in BOOLEAN,
         ShouldPatch(taints, t, remove), Want(t, remove),
         taints' = UpdateTaint(taints, t, remove)
  PROVE  TaintApplied'
<1>1. taints[t] = IF t \in wanted THEN 1 ELSE 0
  BY DEF TaintApplied
<1>2. taints'[t] = IF remove THEN 0 ELSE 1
  BY <1>1, UpdateFacts DEF ShouldPatch, TaintExists, TypeOK
<1>3. \A u \in Taints : u # t => taints'[u] = taints[u]
  BY UpdateFacts DEF TypeOK
<1> QED  BY <1>2, <1>3 DEF TaintApplied, Want

\* TaintNode up to its patch, with nobody else in a call.
LEMMA TaintNodeSerial ==
  ASSUME Overlap = FALSE, IInv, NEW a \in Threads, NEW t \in Taints,
         NEW remove \in BOOLEAN, TaintNode(a, t, remove)
  PROVE  Serial'
<1>1. \A b \in Threads : call[b] = NoCall
  BY DEF TaintNode, Alone
<1>2. TypeOK /\ TaintApplied
  BY DEF IInv, Serial
<1>3. taints' = taints /\ \A b \in Threads : b # a => call'[b] = NoCall
  BY <1>1, <1>2, TaintNodeFacts
<1>4. OneCall'
  BY <1>3 DEF OneCall
<1>5. CASE /\ ShouldPatch(taints, t, remove) /\ wanted' = wanted
           /\ call'[a].taint = t /\ call'[a].remove = remove
           /\ call'[a].list = UpdateTaint(taints, t, remove)
  <2>1. CallFresh'
    BY <1>3, <1>5 DEF CallFresh, ShouldPatch, TaintExists, UpdateTaint
  <2>2. TaintApplied'
    BY <1>2, <1>3, <1>5 DEF TaintApplied
  <2> QED  BY <1>4, <2>1, <2>2 DEF Serial
<1>6. CASE ~ShouldPatch(taints, t, remove) /\ Want(t, remove) /\ call' = call
  <2>1. CallFresh'
    BY <1>1, <1>6 DEF CallFresh
  <2>2. taints[t] = IF t \in wanted THEN 1 ELSE 0
    BY <1>2 DEF TaintApplied
  <2>3. wanted' = wanted
    BY <1>6, <2>2 DEF ShouldPatch, TaintExists, Want
  <2>4. TaintApplied'
    BY <1>2, <1>3, <2>3 DEF TaintApplied
  <2> QED  BY <1>4, <2>1, <2>4 DEF Serial
<1> QED  BY <1>2, <1>5, <1>6, TaintNodeFacts

\* The patch of the one call under way.
LEMMA PatchSerial ==
  ASSUME Overlap = FALSE, IInv, NEW a \in Threads, Patch(a)
  PROVE  /\ Serial' /\ \A b \in Threads : call'[b] = NoCall
         /\ \/ taints' = taints /\ APIFaults
            \/ taints' = UpdateTaint(taints, call[a].taint, call[a].remove)
<1>1. TypeOK /\ OneCall /\ CallFresh /\ TaintApplied
  BY DEF IInv, Serial
<1>2. call[a] # NoCall /\ call[a] \in PatchCall
  BY <1>1, CallIsPatch DEF Patch
<1>3. \A b \in Threads : call'[b] = NoCall
  <2>1. \A b \in Threads : b # a => call[b] = NoCall
    BY <1>1, <1>2 DEF OneCall
  <2> QED  BY <1>1, <2>1 DEF Patch, TypeOK
<1>4. OneCall' /\ CallFresh'
  BY <1>3 DEF OneCall, CallFresh
<1>5. /\ ShouldPatch(taints, call[a].taint, call[a].remove)
      /\ call[a].list = UpdateTaint(taints, call[a].taint, call[a].remove)
  BY <1>1, <1>2 DEF CallFresh
<1>6. call[a].taint \in Taints /\ call[a].remove \in BOOLEAN
  BY <1>2 DEF PatchCall
<1>7. CASE taints' = call[a].list /\ Want(call[a].taint, call[a].remove)
  BY <1>1, <1>3, <1>4, <1>5, <1>6, <1>7, AppliedWrite DEF Serial
<1>8. CASE APIFaults /\ UNCHANGED <<taints, wanted>>
  BY <1>1, <1>3, <1>4, <1>8 DEF Serial, TaintApplied
<1> QED  BY <1>7, <1>8 DEF Patch

\* Calls that do not overlap stay fresh and are applied.
LEMMA SerialStep ==
  ASSUME Overlap = FALSE, IInv, [Next]_vars
  PROVE  Serial'
<1>1. ASSUME NEW a \in Callers, NEW remove \in BOOLEAN, PodmonCall(a, remove)
      PROVE  Serial'
  BY <1>1, PodmonTaints, TaintNodeSerial DEF PodmonCall
<1>2. ASSUME NEW a \in Threads, Patch(a)
      PROVE  Serial'
  BY <1>2, PatchSerial
<1>3. ASSUME NEW t \in Foreign, ForeignWrite(t)
      PROVE  Serial'
  <2>1. t \in Taints /\ TaintExists(taints, t) \in BOOLEAN
        /\ ShouldPatch(taints, t, TaintExists(taints, t))
    BY PodmonTaints DEF TaintExists, ShouldPatch
  <2>2. TaintApplied'
    BY <1>3, <2>1, AppliedWrite DEF ForeignWrite, IInv, Serial
  <2>3. \A b \in Threads : call[b] = NoCall /\ call'[b] = NoCall
    BY <1>3 DEF ForeignWrite, Alone
  <2> QED  BY <2>2, <2>3 DEF Serial, OneCall, CallFresh
<1>4. CASE UNCHANGED <<taints, call, wanted>>
  BY <1>4 DEF IInv, Serial, OneCall, CallFresh, TaintApplied
<1>5. CASE DriverPodChanges \/ DriverGetPod \/ UNCHANGED vars
  BY <1>4, <1>5 DEF DriverPodChanges, DriverGetPod, vars
<1>6. CASE DriverGetNode
  <2>1. \/ UNCHANGED <<taints, call, wanted>>
        \/ \E remove \in BOOLEAN : TaintNode(Driver, DriverPodTaint, remove)
    BY <1>6 DEF DriverGetNode
  <2> QED  BY <1>4, <2>1, PodmonTaints, TaintNodeSerial
<1> QED  BY <1>1, <1>2, <1>3, <1>5, <1>6 DEF Next

-----------------------------------------------------------------------------
(* The driver-pod handler. *)

\* The part of IInv that is about it.
Follows == OwnTaint /\ HandlerFollows /\ DriverTaintFollows

\* Whether the node carries the driver-pod taint depends on its count alone.
LEMMA DriverTaintKept ==
  ASSUME IInv, OwnTaint', taints'[DriverPodTaint] = taints[DriverPodTaint],
         call'[Driver] = call[Driver],
         UNCHANGED <<driverPod, events, d, missed>>
  PROVE  Follows'
<1>1. HandlerFollows'
  BY DEF IInv, HandlerFollows, DriverReady
<1>2. DriverTaintFollows'
  BY DEF IInv, DriverTaintFollows, TaintExists, DriverReady
<1> QED  BY <1>1, <1>2 DEF Follows

\* The others do not write the driver-pod taint.
LEMMA OthersKeepDriverTaint ==
  ASSUME Overlap = FALSE, IInv,
         \/ \E a \in Callers, remove \in BOOLEAN : PodmonCall(a, remove)
         \/ \E a \in Callers : Patch(a)
         \/ \E t \in Foreign : ForeignWrite(t)
  PROVE  Follows'
<1> USE PodmonTaints
<1>0. TypeOK
  BY DEF IInv
<1>1. ASSUME NEW a \in Callers, NEW remove \in BOOLEAN, PodmonCall(a, remove)
      PROVE  Follows'
  <2>1. /\ taints' = taints /\ call'[Driver] = call[Driver]
        /\ \A b \in Threads : b # a => call'[b] = call[b]
        /\ call'[a] # NoCall => call'[a].taint = PodmonTaint
    <3>1. TaintNode(a, PodmonTaint, remove)
      BY <1>1 DEF PodmonCall
    <3>2. /\ taints' = taints /\ call[a] = NoCall
          /\ \A b \in Threads : b # a => call'[b] = call[b]
          /\ call'[a].taint = PodmonTaint \/ call' = call
      BY <1>0, <3>1, TaintNodeFacts
    <3> QED  BY <3>2
  <2>2. OwnTaint'
    BY <2>1 DEF IInv, OwnTaint
  <2>3. UNCHANGED <<driverPod, events, d, missed>>
    BY <1>1 DEF PodmonCall
  <2> QED  BY <2>1, <2>2, <2>3, DriverTaintKept
<1>2. ASSUME NEW a \in Callers, Patch(a)
      PROVE  Follows'
  <2>1. call[a] # NoCall /\ call[a] \in PatchCall /\ call[Driver] = NoCall
    BY <1>0, <1>2, CallIsPatch DEF Patch, IInv, Serial, OneCall
  <2>2. call[a].taint = PodmonTaint /\ call[a].remove \in BOOLEAN
    BY <2>1 DEF IInv, OwnTaint, PatchCall
  <2>3. taints'[DriverPodTaint] = taints[DriverPodTaint]
    <3>1. CASE taints' = UpdateTaint(taints, call[a].taint, call[a].remove)
      BY <1>0, <2>2, <3>1, WriteFacts
    <3> QED  BY <1>2, <3>1, PatchSerial
  <2>4. OwnTaint' /\ call'[Driver] = call[Driver]
    BY <1>2, <2>1, PatchSerial DEF OwnTaint
  <2>5. UNCHANGED <<driverPod, events, d>>
    BY <1>2 DEF Patch
  <2>6. missed' = missed
    <3>1. a # Driver
      OBVIOUS
    <3>2. missed' = missed \/ missed' = (missed \/ a = Driver)
      BY <1>2 DEF Patch
    <3> QED  BY <1>0, <3>1, <3>2 DEF TypeOK
  <2> QED  BY <2>3, <2>4, <2>5, <2>6, DriverTaintKept
<1>3. ASSUME NEW t \in Foreign, ForeignWrite(t)
      PROVE  Follows'
  <2>1. t # DriverPodTaint /\ TaintExists(taints, t) \in BOOLEAN
    BY DEF TaintExists
  <2>2. taints'[DriverPodTaint] = taints[DriverPodTaint]
    <3>1. taints' = UpdateTaint(taints, t, TaintExists(taints, t))
      BY <1>3 DEF ForeignWrite
    <3> QED  BY <1>0, <2>1, <3>1, WriteFacts
  <2>3. OwnTaint' /\ UNCHANGED <<call, driverPod, events, d, missed>>
    BY <1>3 DEF ForeignWrite, IInv, OwnTaint
  <2> QED  BY <2>2, <2>3, DriverTaintKept
<1> QED  BY <1>1, <1>2, <1>3

\* The patch of the handler: the taint is as the pod is, or the run has failed.
LEMMA DriverPatchStep ==
  ASSUME Overlap = FALSE, IInv, Patch(Driver)
  PROVE  Follows'
<1> USE PodmonTaints
<1>1. TypeOK
  BY DEF IInv
<1>2. call[Driver] # NoCall /\ call[Driver] \in PatchCall
  BY <1>1, CallIsPatch DEF Patch
<1>3. call[Driver].taint = DriverPodTaint /\ call[Driver].remove \in BOOLEAN
  BY <1>2 DEF IInv, OwnTaint, PatchCall
<1>4. \A b \in Threads : call'[b] = NoCall
  BY PatchSerial
<1>5. UNCHANGED <<driverPod, events, d>>
  BY DEF Patch
<1>6. OwnTaint' /\ HandlerFollows'
  BY <1>2, <1>4, <1>5 DEF IInv, OwnTaint, HandlerFollows
<1>7. DriverTaintFollows'
  <2>1. CASE taints' = call[Driver].list
    <3>1. /\ call[Driver].list = UpdateTaint(taints, DriverPodTaint, call[Driver].remove)
          /\ taints[DriverPodTaint] \in Nat
      BY <1>1, <1>2, <1>3 DEF IInv, Serial, CallFresh, TypeOK, Lists
    <3>2. taints'[DriverPodTaint] =
             IF call[Driver].remove THEN 0 ELSE taints[DriverPodTaint] + 1
      BY <1>1, <1>3, <2>1, <3>1, WriteFacts
    <3>3. TaintExists(taints', DriverPodTaint) <=> ~call[Driver].remove
      BY <3>1, <3>2 DEF TaintExists
    <3>4. events = 0 => (call[Driver].remove <=> DriverReady)
      BY <1>2 DEF IInv, HandlerFollows
    <3> QED  BY <1>5, <3>3, <3>4 DEF DriverTaintFollows, TaintExists, DriverReady
  <2>2. CASE missed' = (missed \/ Driver = Driver)
    BY <2>2 DEF DriverTaintFollows
  <2> QED  BY <2>1, <2>2 DEF Patch
<1> QED  BY <1>6, <1>7 DEF Follows

\* The driver pod changes, and the handler sees it.
LEMMA DriverPodStep ==
  ASSUME IInv, DriverPodChanges \/ DriverGetPod
  PROVE  Follows'
<1>1. events \in Nat
  BY DEF IInv, TypeOK
<1>2. CASE DriverPodChanges
  <2>1. events' # 0 /\ UNCHANGED <<taints, call, d>>
    BY <1>1, <1>2 DEF DriverPodChanges
  <2> QED  BY <2>1 DEF IInv, Follows, OwnTaint, HandlerFollows, DriverTaintFollows
<1>3. CASE DriverGetPod
  <2>1. UNCHANGED <<taints, call, driverPod>> /\ d = Idle /\ call[Driver] = NoCall
    BY <1>3 DEF DriverGetPod
  <2>2. CASE d' = [pc |-> "getnode", ready |-> DriverReady]
    <3>1. d' # Idle /\ d'.ready = DriverReady
      BY <2>2 DEF Idle
    <3>2. OwnTaint' /\ HandlerFollows'
      BY <2>1, <3>1 DEF IInv, OwnTaint, HandlerFollows, DriverReady
    <3> QED  BY <3>1, <3>2 DEF Follows, DriverTaintFollows
  <2>3. CASE missed' = TRUE /\ d' = d
    BY <2>1, <2>3 DEF IInv, Follows, OwnTaint, HandlerFollows, DriverTaintFollows
  <2>4. CASE driverPod = "gone" /\ UNCHANGED <<d, missed>>
    BY <2>1, <2>4 DEF IInv, Follows, OwnTaint, HandlerFollows, DriverTaintFollows
  <2> QED  BY <1>3, <2>2, <2>3, <2>4 DEF DriverGetPod
<1> QED  BY <1>2, <1>3

\* GetNode and the decision of the handler.
LEMMA DriverGetNodeStep ==
  ASSUME IInv, DriverGetNode
  PROVE  Follows'
<1> USE PodmonTaints
<1>1. TypeOK
  BY DEF IInv
<1>2. d.pc = "getnode" /\ d # Idle /\ d' = Idle /\ UNCHANGED <<driverPod, events>>
  BY DEF DriverGetNode, Idle
<1>3. call[Driver] = NoCall /\ (events = 0 => (d.ready <=> DriverReady))
  BY <1>2 DEF IInv, HandlerFollows
<1>4. ASSUME NEW remove \in BOOLEAN, remove <=> d.ready,
             TaintNode(Driver, DriverPodTaint, remove)
      PROVE  Follows'
  <2>1. /\ taints' = taints
        /\ \A b \in Threads : b # Driver => call'[b] = call[b]
        /\ \/ call'[Driver].taint = DriverPodTaint /\ call'[Driver].remove = remove
              /\ call'[Driver] \in PatchCall
           \/ ~ShouldPatch(taints, DriverPodTaint, remove) /\ call' = call
    BY <1>1, <1>4, TaintNodeFacts
  <2>2. OwnTaint'
    BY <1>3, <2>1 DEF IInv, OwnTaint
  <2>3. CASE call'[Driver].remove = remove /\ call'[Driver] \in PatchCall
    <3>1. call'[Driver] # NoCall
      BY <2>3 DEF PatchCall, NoCall
    <3>2. HandlerFollows'
      BY <1>2, <1>3, <1>4, <2>3 DEF HandlerFollows, DriverReady
    <3> QED  BY <2>2, <3>1, <3>2 DEF Follows, DriverTaintFollows
  <2>4. CASE ~ShouldPatch(taints, DriverPodTaint, remove) /\ call' = call
    <3>1. HandlerFollows'
      BY <1>2, <1>3, <2>4 DEF HandlerFollows
    <3>2. events = 0 => (TaintExists(taints, DriverPodTaint) <=> ~DriverReady)
      BY <1>3, <1>4, <2>4 DEF ShouldPatch
    <3>3. DriverTaintFollows'
      BY <1>2, <2>1, <3>2 DEF DriverTaintFollows, TaintExists, DriverReady
    <3> QED  BY <2>2, <3>1, <3>3 DEF Follows
  <2> QED  BY <2>1, <2>3, <2>4
<1>5. CASE UNCHANGED <<taints, call>> /\ d.ready /\ ~TaintExists(taints, DriverPodTaint)
  <2>1. OwnTaint' /\ HandlerFollows'
    BY <1>2, <1>3, <1>5 DEF IInv, OwnTaint, HandlerFollows
  <2>2. DriverTaintFollows'
    BY <1>2, <1>3, <1>5 DEF DriverTaintFollows, TaintExists, DriverReady
  <2> QED  BY <2>1, <2>2 DEF Follows
<1>6. CASE missed' = TRUE /\ UNCHANGED <<taints, call>>
  <2>1. OwnTaint' /\ HandlerFollows'
    BY <1>2, <1>3, <1>6 DEF IInv, OwnTaint, HandlerFollows
  <2> QED  BY <1>6, <2>1 DEF Follows, DriverTaintFollows
<1>7. \/ ~d.ready /\ TaintNode(Driver, DriverPodTaint, FALSE)
      \/ d.ready /\ TaintNode(Driver, DriverPodTaint, TRUE)
      \/ UNCHANGED <<taints, call>> /\ d.ready /\ ~TaintExists(taints, DriverPodTaint)
      \/ missed' = TRUE /\ UNCHANGED <<taints, call>>
  BY DEF DriverGetNode
<1> QED  BY <1>4, <1>5, <1>6, <1>7

\* While calls do not overlap the invariant holds in every state.
LEMMA IInvHolds ==
  ASSUME Overlap = FALSE
  PROVE  Spec => []IInv
<1>1. ASSUME IInv, [Next]_vars
      PROVE  IInv'
  <2>1. TypeOK' /\ Serial'
    BY <1>1, TypeStep, SerialStep DEF IInv
  <2>2. Follows'
    <3>1. CASE UNCHANGED vars
      <4>1. OwnTaint'
        BY <1>1, <3>1 DEF IInv, OwnTaint, vars
      <4> QED  BY <1>1, <3>1, <4>1, DriverTaintKept DEF vars
    <3>2. ASSUME NEW a \in Threads, Patch(a)
          PROVE  Follows'
      BY <1>1, <3>2, PodmonTaints, OthersKeepDriverTaint, DriverPatchStep
    <3> QED  BY <1>1, <3>1, <3>2, OthersKeepDriverTaint, DriverPodStep,
                DriverGetNodeStep DEF Next
  <2> QED  BY <2>1, <2>2 DEF IInv, Follows
<1> QED  BY InitIInv, <1>1, PTL DEF Spec

-----------------------------------------------------------------------------
\* Every variable has its type, also when calls of TaintNode overlap.
THEOREM TypeCorrect == Spec => []TypeOK
<1>1. Init => TypeOK
  BY InitIInv DEF IInv
<1> QED  BY <1>1, TypeStep, PTL DEF Spec

\* While calls do not overlap, the node carries exactly the taints the completed
\* writes asked for, each one once, for any number of callers and other taints.
THEOREM SerialTaintsApplied ==
  ASSUME Overlap = FALSE
  PROVE  Spec => []TaintApplied
<1>1. IInv => TaintApplied
  BY DEF IInv, Serial
<1> QED  BY IInvHolds, <1>1, PTL

\* While calls do not overlap, controllerModeDriverPodHandler that has caught up
\* without a failure leaves the driver-pod taint on the node exactly while the
\* driver pod is not Ready.
THEOREM DriverTaintIsRight ==
  ASSUME Overlap = FALSE
  PROVE  Spec => []DriverTaintFollows
<1>1. IInv => DriverTaintFollows
  BY DEF IInv
<1> QED  BY IInvHolds, <1>1, PTL
=============================================================================
