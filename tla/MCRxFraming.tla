---------------------------- MODULE MCRxFraming ----------------------------
(* RxFraming on three frames: short, just fitting packet_rx, and too long. *)
EXTENDS RxFraming

CONSTANTS short, full, long

ThreeFrames == {short, full, long}
Lengths ==
  [f \in ThreeFrames |-> CASE f = short -> 0 [] f = full -> 2 [] f = long -> 3]
=============================================================================
