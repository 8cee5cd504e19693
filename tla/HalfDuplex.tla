----------------------------- MODULE HalfDuplex -----------------------------
(***************************************************************************)
(* What rfm12.c and mac.c promise of the radio: it is idle, or receiving a *)
(* frame, or held by the main program that is about to send, or sending.   *)
(* A reception is never cut off by a transmission and a transmission never *)
(* by a reception: each goes through idle.                                 *)
(***************************************************************************)
VARIABLE phase

Init == phase = "idle"

BeginReceive == phase = "idle" /\ phase' = "receiving"
EndReceive   == phase = "receiving" /\ phase' = "idle"
Claim        == phase = "idle" /\ phase' = "held"
Transmit     == phase = "held" /\ phase' = "sending"
EndTransmit  == phase = "sending" /\ phase' = "idle"

Next == BeginReceive \/ EndReceive \/ Claim \/ Transmit \/ EndTransmit

Spec == Init /\ [][Next]_phase
=============================================================================
