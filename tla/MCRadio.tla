------------------------------ MODULE MCRadio ------------------------------
(***************************************************************************)
(* Small instances of Radio.  The sizes keep the order of the real ones    *)
(* (an OGM shorter than a batman header, a text after the header) and a    *)
(* length field so narrow that a forwarded frame soon wraps it.            *)
(***************************************************************************)
EXTENDS Radio

\* every outcome of a received frame
KindsAll == AllRxKinds

\* the node is never the gateway of a unicast frame in transit
KindsGuarded == AllRxKinds \ {"forward"}
=============================================================================
