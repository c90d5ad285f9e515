---------------------------- MODULE MCVolumeData ----------------------------
(* Instances of VolumeData for TLC. *)
EXTENDS VolumeData, TLC

AllFaults == FaultKinds
NoFaults == {}

Symmetry == Permutations(Hosts)
=============================================================================
