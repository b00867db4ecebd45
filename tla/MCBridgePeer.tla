---------------------------- MODULE MCBridgePeer ----------------------------
(***************************************************************************)
(* A reply may arrive after the next of the fast requests but before the   *)
(* next of the slow ones.                                                  *)
(***************************************************************************)
EXTENDS BridgePeer
=============================================================================
