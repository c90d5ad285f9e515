------------------------- MODULE MCVolumeLifecycle -------------------------
(* Instances of VolumeLifecycle for TLC. *)
EXTENDS VolumeLifecycle, TLC

AllFaults == FaultKinds

\* What liveness is claimed under: no umount or look at the holders fails
\* for ever, and no attachment is left because a call of its release failed.
LiveFaults == {"late", "check", "sync", "docker", "restart", "crash"}

Symmetry == Permutations(IDs) \union Permutations(Peers)
=============================================================================
