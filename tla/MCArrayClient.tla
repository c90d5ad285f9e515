--------------------------- MODULE MCArrayClient ---------------------------
(* Instances of ArrayClient for TLC. *)
EXTENDS ArrayClient, TLC

CONSTANTS get, post
=============================================================================
