--------------------------- MODULE MCMavlinkNode ----------------------------
(***************************************************************************)
(* A counter that wraps every few timeouts, a loop every other tick, and   *)
(* up to two heartbeats waiting at once.                                   *)
(***************************************************************************)
EXTENDS MavlinkNode
=============================================================================
