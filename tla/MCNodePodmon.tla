---------------------------- MODULE MCNodePodmon ----------------------------
(***************************************************************************)
(* NodePodmon for TLC: pod names and volumes may be exchanged.             *)
(***************************************************************************)
EXTENDS NodePodmon, TLC

Symmetry == Permutations(PodKeys) \cup Permutations(Volumes)
=============================================================================
