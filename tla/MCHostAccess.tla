---------------------------- MODULE MCHostAccess ----------------------------
(* Instances of HostAccess for TLC. *)
EXTENDS HostAccess, TLC
=============================================================================
