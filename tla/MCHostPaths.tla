---------------------------- MODULE MCHostPaths ----------------------------
(* Instances of HostPaths for TLC. *)
EXTENDS HostPaths, TLC

MostFaults == FaultKinds \ {"delete"}

\* Every name has been every volume's: udev may be behind on any of them.
AllVols == Vols

Symmetry == Permutations(Vols) \union Permutations(Luns) \union Permutations(Disks)
                \union Permutations(Ports)
=============================================================================
