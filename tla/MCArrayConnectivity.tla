------------------------ MODULE MCArrayConnectivity -------------------------
(* Instances of ArrayConnectivity for TLC. *)
EXTENDS ArrayConnectivity

CONSTANT Labels

\* Pods with the same affinity labels.
Alike == [k \in PodKeys |-> Labels]
=============================================================================
