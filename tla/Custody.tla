------------------------------ MODULE Custody ------------------------------
(***************************************************************************)
(* What forwarding promises about one message: its originator sends it to  *)
(* a node that hears it, which takes it and sends it on, never back to the *)
(* originator and a limited number of times; or it is lost on the way.     *)
(* There is one copy of it, unless a node is not told that its frame left  *)
(* and sends it again: then there is one more for each time that happens.  *)
(***************************************************************************)
EXTENDS Naturals

CONSTANTS Nodes, From

VARIABLES
  links,      \* <<n, m>>: m hears n
  hops,       \* how often a message may be passed on
  thefts,     \* how often a node may still not be told that its frame left
  accepted,   \* has the originator taken the message
  copies      \* of the message: at which node, heard by it ("in") or to be sent
              \* by it ("out"), and how often it may still be passed on

vars == <<links, hops, thefts, accepted, copies>>

Copy(n, place, left) == [at |-> n, place |-> place, left |-> left]

\* A node has room for one copy of either kind.
Free(n, place) == \A c \in copies : ~ (c.at = n /\ c.place = place)

Init ==
  /\ links \subseteq Nodes \X Nodes /\ hops \in Nat /\ thefts \in Nat
  /\ accepted = FALSE /\ copies = {}

Accept ==
  /\ ~accepted /\ accepted'
  /\ copies' = {Copy(From, "out", hops)}
  /\ UNCHANGED <<links, hops, thefts>>

\* A node sees to what it heard: it will send it on.
Take(c) ==
  /\ c.place = "in" /\ Free(c.at, "out")
  /\ copies' = (copies \ {c}) \union {Copy(c.at, "out", c.left)}
  /\ UNCHANGED <<links, hops, thefts, accepted>>

Hears(c, m) ==
  /\ c.place = "out" /\ c.left > 0
  /\ <<c.at, m>> \in links /\ m # From /\ Free(m, "in")
Heard(c, m) == Copy(m, "in", c.left - 1)

Pass(c, m) ==
  /\ Hears(c, m)
  /\ copies' = (copies \ {c}) \union {Heard(c, m)}
  /\ UNCHANGED <<links, hops, thefts, accepted>>

\* A frame leaves, and the node that sent it will send it again.
Theft ==
  /\ thefts > 0 /\ thefts' = thefts - 1
  /\ \/ UNCHANGED copies
     \/ \E c \in copies, m \in Nodes :
          Hears(c, m) /\ copies' = copies \union {Heard(c, m)}
  /\ UNCHANGED <<links, hops, accepted>>

\* Copies are delivered, lost, or dropped by the node that has them.
End ==
  /\ copies' \subseteq copies /\ copies' # copies
  /\ UNCHANGED <<links, hops, thefts, accepted>>

Next ==
  \/ Accept \/ Theft \/ End
  \/ \E c \in copies : Take(c) \/ \E m \in Nodes : Pass(c, m)

Spec == Init /\ [][Next]_vars
=============================================================================
