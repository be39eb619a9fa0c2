------------------------------ MODULE NodeTaints ------------------------------
(***************************************************************************)
(* TaintNode (internal/k8sapi/k8sapi.go): read the node, compute the new   *)
(* list of taints (updateTaint), patch the node with it.  The list of      *)
(* taints is atomic in a strategic merge patch and the patch carries no    *)
(* resource version, so the patch replaces the whole list whatever was     *)
(* written since the read.  Its callers on one node: cleanups and the      *)
(* array monitor (add the podmon taint), the node podmon (removes it) and  *)
(* the driver-pod handler of the controller podmon                         *)
(* (controllerModeDriverPodHandler), which is modelled in full.  The node  *)
(* lifecycle controller writes taints of its own.                          *)
(*                                                                         *)
(* A taint is its key and effect together, one name; a list of taints is   *)
(* how often each occurs in it, as their order means nothing.  A call that *)
(* fails may have taken effect.                                            *)
(***************************************************************************)
EXTENDS Naturals

CONSTANTS
    Callers,    \* threads that add or remove the podmon taint
    Driver,     \* the thread that runs controllerModeDriverPodHandler
    Foreign,    \* the taints of the node lifecycle controller
    Overlap,    \* TRUE iff others may write between a call's read and its patch
    MaxEvents,  \* bound: undelivered events of the driver pod
    APIFaults   \* TRUE iff a call to the API server may fail

PodmonTaint == "podmon"
DriverPodTaint == "driver"
Taints == Foreign \cup {PodmonTaint, DriverPodTaint}
Threads == Callers \cup {Driver}

ASSUME ConstantsAssumption ==
    /\ Driver \notin Callers
    /\ Foreign \cap {PodmonTaint, DriverPodTaint} = {}
    /\ Overlap \in BOOLEAN /\ APIFaults \in BOOLEAN /\ MaxEvents \in Nat

VARIABLES
    taints,      \* Spec.Taints of the node: taint -> how often it is listed
    call,        \* thread -> its call of TaintNode, after the read
    driverPod,   \* the driver pod of the node: ready, down (not Ready) or gone
    events,      \* undelivered events of the driver pod
    d,           \* the driver-pod handler
    wanted,      \* history: the taints as the last writes asked for them
    missed       \* history: the last run of the driver-pod handler failed

vars == <<taints, call, driverPod, events, d, wanted, missed>>

-----------------------------------------------------------------------------
NoCall == [pc |-> "idle"]
Idle == [pc |-> "idle"]

\* No taint is listed twice.
Lists == [Taints -> 0..1]
NoTaints == [t \in Taints |-> 0]

TaintExists(list, t) == list[t] > 0

\* Mutant of UpdateTaint: a removal empties the list.
UpdateTaintEmpties(list, t, remove) ==
    IF remove THEN NoTaints ELSE [list EXCEPT ![t] = @ + 1]

\* updateTaint: the new list, without the taint or with one more of it.
UpdateTaint(list, t, remove) == [list EXCEPT ![t] = IF remove THEN 0 ELSE @ + 1]

\* Mutant of ShouldPatch: whether the taint exists is not looked at.
ShouldPatchAlways(list, t, remove) == TRUE

ShouldPatch(list, t, remove) == TaintExists(list, t) <=> remove

Want(t, remove) == wanted' = IF remove THEN wanted \ {t} ELSE wanted \cup {t}

\* Nobody is between a read and a patch.
Alone == \A c \in Threads : call[c] = NoCall

\* TaintNode up to the patch: nothing to do, or a patch to send.
TaintNode(c, t, remove) ==
    /\ call[c] = NoCall /\ (Overlap \/ Alone)
    /\ IF ShouldPatch(taints, t, remove)
       THEN /\ call' = [call EXCEPT ![c] =
                  [pc |-> "patch", taint |-> t, remove |-> remove,
                   list |-> UpdateTaint(taints, t, remove)]]
            /\ UNCHANGED wanted
       ELSE /\ Want(t, remove)
            /\ UNCHANGED call
    /\ UNCHANGED taints

\* The patch takes effect, and may yet report an error, or it fails.
Patch(c) ==
    /\ call[c].pc = "patch"
    /\ call' = [call EXCEPT ![c] = NoCall]
    /\ \/ /\ taints' = call[c].list /\ Want(call[c].taint, call[c].remove)
          /\ \/ UNCHANGED missed
             \/ APIFaults /\ missed' = (missed \/ c = Driver)
       \/ /\ APIFaults /\ missed' = (missed \/ c = Driver)
          /\ UNCHANGED <<taints, wanted>>
    /\ UNCHANGED <<driverPod, events, d>>

\* controllerCleanupPod, ArrayConnectivityMonitor, nodeModeCleanupPods.
PodmonCall(c, remove) ==
    /\ c \in Callers
    /\ TaintNode(c, PodmonTaint, remove)
    /\ UNCHANGED <<driverPod, events, d, missed>>

\* The node lifecycle controller adds or removes one of its taints.
ForeignWrite(t) ==
    /\ t \in Foreign /\ (Overlap \/ Alone)
    /\ taints' = UpdateTaint(taints, t, TaintExists(taints, t))
    /\ Want(t, TaintExists(taints, t))
    /\ UNCHANGED <<call, driverPod, events, d, missed>>

-----------------------------------------------------------------------------
(* The driver pod of the node and controllerModeDriverPodHandler. *)

DriverPods == {"ready", "down", "gone"}
DriverReady == driverPod = "ready"

\* It becomes Ready or not, is deleted, or is created again.
DriverPodChanges ==
    /\ events < MaxEvents /\ events' = events + 1
    /\ driverPod' \in DriverPods \ {driverPod}
    /\ UNCHANGED <<taints, call, d, wanted, missed>>

\* Lock is free (no other thread uses the key of a driver pod) and GetPod
\* returns the pod, finds none, or fails.
DriverGetPod ==
    /\ d = Idle /\ call[Driver] = NoCall /\ events > 0 /\ events' = events - 1
    /\ \/ /\ driverPod # "gone" /\ d' = [pc |-> "getnode", ready |-> DriverReady]
          /\ UNCHANGED missed
       \/ driverPod = "gone" /\ UNCHANGED <<d, missed>>
       \/ APIFaults /\ missed' = TRUE /\ UNCHANGED d
    /\ UNCHANGED <<taints, call, driverPod, wanted>>

\* Mutant of DriverGetNode: the taint is never removed.
DriverGetNodeAddsOnly ==
    /\ d.pc = "getnode" /\ d' = Idle /\ missed' = FALSE
    /\ \/ ~d.ready /\ TaintNode(Driver, DriverPodTaint, FALSE)
       \/ d.ready /\ UNCHANGED <<taints, call, wanted>>
    /\ UNCHANGED <<driverPod, events>>

\* GetNode, then the taint is added, or removed if the node has it.
DriverGetNode ==
    /\ d.pc = "getnode" /\ d' = Idle
    /\ \/ /\ ~d.ready /\ TaintNode(Driver, DriverPodTaint, FALSE)
          /\ missed' = FALSE
       \/ /\ d.ready /\ TaintExists(taints, DriverPodTaint)
          /\ TaintNode(Driver, DriverPodTaint, TRUE)
          /\ missed' = FALSE
       \/ /\ d.ready /\ ~TaintExists(taints, DriverPodTaint)
          /\ missed' = FALSE
          /\ UNCHANGED <<taints, call, wanted>>
       \/ /\ APIFaults /\ missed' = TRUE
          /\ UNCHANGED <<taints, call, wanted>>
    /\ UNCHANGED <<driverPod, events>>

-----------------------------------------------------------------------------
Init ==
    /\ taints = NoTaints /\ wanted = {}
    /\ call = [c \in Threads |-> NoCall]
    /\ driverPod = "ready" /\ events = 0 /\ d = Idle /\ missed = FALSE

Next ==
    \/ \E c \in Callers, remove \in BOOLEAN : PodmonCall(c, remove)
    \/ \E c \in Threads : Patch(c)
    \/ \E t \in Foreign : ForeignWrite(t)
    \/ DriverPodChanges \/ DriverGetPod \/ DriverGetNode

Spec == Init /\ [][Next]_vars

-----------------------------------------------------------------------------
(* Properties. *)

\* Every variable has its type.  In particular no list of taints podmon computes
\* or writes names a taint twice, also when calls overlap.
TypeOK ==
    /\ taints \in Lists /\ wanted \subseteq Taints
    /\ call \in [Threads -> {NoCall} \cup
                 [pc : {"patch"}, taint : Taints, remove : BOOLEAN,
                  list : Lists]]
    /\ driverPod \in DriverPods /\ events \in 0..MaxEvents
    /\ d \in {Idle} \cup [pc : {"getnode"}, ready : BOOLEAN] /\ missed \in BOOLEAN

\* The node carries exactly the taints the completed writes asked for, each one
\* once: a call of TaintNode changes the taint it names and no other.
TaintApplied == \A t \in Taints : taints[t] = IF t \in wanted THEN 1 ELSE 0

\* Once the driver-pod handler has caught up and its last run met no failed call,
\* the node carries the driver-pod taint exactly while its driver pod is not
\* Ready, whatever failed before.  (Of a driver pod that is gone the handler
\* learns nothing; the taint stays as it is until there is one again.)
DriverTaintFollows ==
    events = 0 /\ d = Idle /\ call[Driver] = NoCall /\ ~missed /\ driverPod # "gone" =>
       (TaintExists(taints, DriverPodTaint) <=> ~DriverReady)
=============================================================================
