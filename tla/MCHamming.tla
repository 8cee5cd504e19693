----------------------------- MODULE MCHamming -----------------------------
(***************************************************************************)
(* Hamming over every byte there is.                                       *)
(***************************************************************************)
EXTENDS Hamming

AllBytes == 0 .. 255
=============================================================================
