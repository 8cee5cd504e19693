-------------------------------- MODULE Fifo --------------------------------
(* What ringbuf.c promises: a queue of at most max bytes, first in first out. *)
EXTENDS Naturals, Sequences

CONSTANTS max, Byte
VARIABLE q

Init == q = <<>>

Put == Len(q) < max /\ \E b \in Byte : q' = Append(q, b)
Get == q # <<>> /\ q' = Tail(q)

Next == Put \/ Get

Spec == Init /\ [][Next]_q
=============================================================================
