---------------------------- MODULE MCMotorArray ----------------------------
(***************************************************************************)
(* Two wheels, two speeds and stop; a millisecond counter short enough to  *)
(* wrap while a command is stale; a control period of two ticks, so that   *)
(* ticks, commands and fault readings fall anywhere in a cycle.            *)
(***************************************************************************)
EXTENDS MotorArray
=============================================================================
