----------------------------- MODULE FrameLink ------------------------------
(***************************************************************************)
(* What MavlinkTransport::write() promises the node: a frame is taken      *)
(* whole or dropped whole, and the bytes taken reach the wire once, in     *)
(* order.  Nothing is promised about when.                                 *)
(***************************************************************************)
EXTENDS Naturals, Sequences

CONSTANTS Frames  \* the frames a writer may pass, each a sequence of bytes

VARIABLES
  inflight,  \* bytes taken and not yet on the wire
  wire       \* bytes on the wire

vars == <<inflight, wire>>

Init == inflight = <<>> /\ wire = <<>>

\* write() returns len.
Accept(f) == inflight' = inflight \o f /\ UNCHANGED wire

\* The hardware shifts out the first n bytes.
Deliver(n) ==
  /\ n <= Len(inflight)
  /\ wire' = wire \o SubSeq(inflight, 1, n)
  /\ inflight' = SubSeq(inflight, n + 1, Len(inflight))

Next ==
  \/ \E f \in Frames : Accept(f)
  \/ \E n \in 1 .. Len(inflight) : Deliver(n)

Spec == Init /\ [][Next]_vars
=============================================================================
