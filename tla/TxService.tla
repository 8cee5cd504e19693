------------------------------ MODULE TxService ------------------------------
(***************************************************************************)
(* What batman.c's mutex and llc_tx promise their callers: requests to     *)
(* transmit are served one at a time, a request is answered only after its *)
(* own frame has gone out, and each frame goes out once.                   *)
(***************************************************************************)
CONSTANT Callers
VARIABLE request    \* [Callers -> {"idle", "waiting", "sending", "sent"}]

Served == {c \in Callers : request[c] \in {"sending", "sent"}}

Move(c, from, to) ==
  request[c] = from /\ request' = [request EXCEPT ![c] = to]

Init == request = [c \in Callers |-> "idle"]

Queue(c)  == Served # {} /\ Move(c, "idle", "waiting")
Start(c)  == Served = {} /\ (Move(c, "idle", "sending") \/ Move(c, "waiting", "sending"))
Air(c)    == Move(c, "sending", "sent")
Answer(c) == Move(c, "sent", "idle")

Next == \E c \in Callers : Queue(c) \/ Start(c) \/ Air(c) \/ Answer(c)

Spec == Init /\ [][Next]_request
=============================================================================
