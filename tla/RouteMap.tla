------------------------------ MODULE RouteMap ------------------------------
(***************************************************************************)
(* What batman.c promises of its routing table: a set of pairs of a target *)
(* and a gateway, each with the seconds since it was last confirmed.  A    *)
(* neighbour becomes a gateway by echoing one of our OGMs; after that its  *)
(* OGMs, and those it relays, add routes and confirm them; what is not     *)
(* confirmed for PURGE_TIMEOUT seconds is gone with the next one.          *)
(***************************************************************************)
EXTENDS Integers, FiniteSets

CONSTANTS Others, MAX_ROUTE_ENTRIES, PURGE_TIMEOUT

VARIABLES
  age,        \* the pairs in the table, with their ages
  echoed      \* the neighbours that have ever echoed one of our OGMs

vars == <<age, echoed>>

Pairs == [target : Others, gateway : Others]
Gateways == {p.gateway : p \in DOMAIN age}

TypeOK ==
  /\ DOMAIN age \subseteq Pairs
  /\ age \in [DOMAIN age -> 0 .. PURGE_TIMEOUT]
  /\ echoed \subseteq Others

Init == age = [p \in {} |-> 0] /\ echoed = {}

Full == Cardinality(DOMAIN age) = MAX_ROUTE_ENTRIES

\* Confirm a pair, or add it while there is room.
Confirm(p) ==
  IF p \in DOMAIN age \/ ~Full
  THEN age' = [q \in DOMAIN age \union {p} |-> IF q = p THEN 0 ELSE age[q]]
  ELSE UNCHANGED age

\* An OGM counts only when it comes over a bidirectional link.
Bidirectional(s) == s \in Gateways

Echoed(s) ==
  /\ echoed' = echoed \union {s}
  /\ IF Bidirectional(s)
     THEN UNCHANGED age
     ELSE Confirm([target |-> s, gateway |-> s])

Heard(p) == Bidirectional(p.gateway) /\ Confirm(p) /\ UNCHANGED echoed

Alive(p) == age[p] + 1 <= PURGE_TIMEOUT

Second ==
  /\ age' = [p \in {q \in DOMAIN age : Alive(q)} |-> age[p] + 1]
  /\ UNCHANGED echoed

Next ==
  \/ \E s \in Others : Echoed(s)
  \/ \E p \in Pairs : Heard(p)
  \/ Second

Spec == Init /\ [][Next]_vars

\* Every gateway has echoed us at least once: we never route through a
\* neighbour that may be unable to hear us at all.
AdmittedByEcho == Gateways \subseteq echoed

\* The table never outgrows its limit.
Bounded ==
  IsFiniteSet(DOMAIN age) /\ Cardinality(DOMAIN age) <= MAX_ROUTE_ENTRIES
=============================================================================
