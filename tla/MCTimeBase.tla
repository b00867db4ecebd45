----------------------------- MODULE MCTimeBase -----------------------------
(***************************************************************************)
(* Three callers that preempt each other, a counter that wraps every 8 ticks *)
(* and a clock that runs past its second wrap.                             *)
(***************************************************************************)
EXTENDS TimeBase, TLC

Symmetry == Permutations(Callers)
=============================================================================
