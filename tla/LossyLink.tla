----------------------------- MODULE LossyLink ------------------------------
(***************************************************************************)
(* What the receive side of a link promises the node above it: frames the  *)
(* peer sent, each at most once, in the order sent, and every one of them  *)
(* up to the first that the receiver had no room for.  A frame is known by *)
(* its number.                                                             *)
(***************************************************************************)
EXTENDS Naturals

VARIABLES
  sent,   \* frames the peer has sent
  whole,  \* those before the first there was no room for
  last    \* the last one delivered

vars == <<sent, whole, last>>

Init == sent = 0 /\ whole = 0 /\ last = 0

Send ==
  /\ sent' = sent + 1
  /\ whole' \in {whole} \cup (IF whole = sent THEN {sent + 1} ELSE {})
  /\ UNCHANGED last

Deliver ==
  /\ last' \in last + 1 .. sent
  /\ last < whole => last' = last + 1
  /\ UNCHANGED <<sent, whole>>

Next == Send \/ Deliver

Spec == Init /\ [][Next]_vars
=============================================================================
