------------------------------ MODULE MCSetup ------------------------------
(***************************************************************************)
(* A sector of four slots, two calibrations as in MCPersistentConfig, and  *)
(* two namespaces besides the empty one, so that a host can rename a robot *)
(* that already has a name.                                                *)
(***************************************************************************)
EXTENDS Setup, TLC

CONSTANTS robot, rover

Symmetry == Permutations(Calibrations) \cup Permutations({robot, rover})
=============================================================================
