---------------------------- MODULE MCController ----------------------------
(* Instances of Controller for TLC. *)
EXTENDS Controller

CONSTANT v1

\* Every pod has one volume.
OneVolume == [k \in PodKeys |-> {v1}]

\* The goroutines of the handler are interchangeable.
Symmetry == Permutations(Workers)
=============================================================================
