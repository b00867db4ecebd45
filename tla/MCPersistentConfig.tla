------------------------- MODULE MCPersistentConfig -------------------------
(***************************************************************************)
(* A sector of four slots: one to be torn, one that stays in charge and    *)
(* one to append to, and full after four saves.  Two namespaces and two    *)
(* calibrations tell an old record from a new one in either field.         *)
(***************************************************************************)
EXTENDS PersistentConfig, TLC

Symmetry == Permutations(Calibrations)
=============================================================================
