------------------------------ MODULE Takeover ------------------------------
(***************************************************************************)
(* What the controller podmon promises of taking a pod away from a failed  *)
(* node, whichever of its threads does it and whatever else happens in the *)
(* cluster: one takeover of a pod key at a time; first every volume of the *)
(* pod is cut off from the node, then the node is tainted, then the pod is *)
(* force-deleted, and only if it is still the one the takeover began with. *)
(* A takeover may be given up after any step, podmon may die at any time,  *)
(* and none of that undoes a step already taken.                           *)
(*                                                                         *)
(* Controller implements this specification: see ImplementsTakeover there. *)
(***************************************************************************)
CONSTANTS
    PodKeys, Nodes,
    UIDs,           \* of pods, and 0
    Threads,        \* the threads that run takeovers
    VolumesOf(_)    \* the volumes that a takeover of a pod key has to cut off

VARIABLES
    uid,       \* pod key -> UID of the present pod (0: none)
    exports,   \* <<v, n>>: the array exports volume v to node n
    tainted,   \* the nodes with podmon's taint
    takeover   \* thread -> the takeover it runs

vars == <<uid, exports, tainted, takeover>>

None == [stage |-> "none"]

\* The exports a takeover has to end.
Doomed(t) == VolumesOf(takeover[t].key) \X {takeover[t].node}

Step(t, from, to) ==
    /\ takeover[t].stage = from
    /\ takeover' = [takeover EXCEPT ![t].stage = to]

Begin(t, k, n, id) ==
    /\ takeover[t] = None
    /\ \A u \in Threads : takeover[u] # None => takeover[u].key # k
    /\ takeover' = [takeover EXCEPT ![t] =
          [stage |-> "begun", key |-> k, node |-> n, uid |-> id]]
    /\ UNCHANGED <<uid, exports, tainted>>

Fence(t) ==
    /\ Step(t, "begun", "fenced")
    /\ exports' = exports \ Doomed(t)
    /\ UNCHANGED <<uid, tainted>>

Taint(t) ==
    /\ Step(t, "fenced", "tainted")
    /\ tainted' = tainted \cup {takeover[t].node}
    /\ UNCHANGED <<uid, exports>>

\* The thread need not learn that the pod is gone.
ForceDelete(t) ==
    /\ takeover[t].stage = "tainted"
    /\ uid[takeover[t].key] = takeover[t].uid
    /\ uid' = [uid EXCEPT ![takeover[t].key] = 0]
    /\ \/ takeover' = [takeover EXCEPT ![t].stage = "deleted"]
       \/ takeover' = [takeover EXCEPT ![t] = None]
    /\ UNCHANGED <<exports, tainted>>

\* The takeover ends or is given up; what is cut off stays cut off.
End(t) ==
    /\ takeover[t] # None
    /\ takeover' = [takeover EXCEPT ![t] = None]
    /\ exports' \subseteq exports /\ exports \ exports' \subseteq Doomed(t)
    /\ UNCHANGED <<uid, tainted>>

Crash ==
    /\ UNCHANGED <<uid, exports, tainted>>
    /\ takeover' = [t \in Threads |-> None]

\* Everybody else: pods come and go, volumes are attached and detached, nodes
\* are tainted and untainted.
Cluster ==
    /\ UNCHANGED takeover
    /\ \/ UNCHANGED <<exports, tainted>>
       \/ UNCHANGED <<uid, tainted>>
       \/ UNCHANGED <<uid, exports>>

Init ==
    /\ exports = {} /\ tainted = {}
    /\ uid = [k \in PodKeys |-> 0]
    /\ takeover = [t \in Threads |-> None]

Next ==
    \/ Cluster \/ Crash
    \/ \E t \in Threads :
          \/ \E k \in PodKeys, n \in Nodes, id \in UIDs : Begin(t, k, n, id)
          \/ Fence(t) \/ Taint(t) \/ ForceDelete(t) \/ End(t)

Spec == Init /\ [][Next]_vars
=============================================================================
