------------------------------- MODULE Routing -------------------------------
(***************************************************************************)
(* One node's routing table over time: batman_rx handles the OGMs of an    *)
(* arbitrary neighbourhood, timer_thread advances the clock and purges in  *)
(* one poll, and the shell's `o' command purges in between.  echoed and    *)
(* heard are ghosts: the neighbours that have echoed one of our OGMs, and  *)
(* how many OGMs have confirmed each route since it was added.             *)
(***************************************************************************)
EXTENDS RouteTable, FiniteSets

CONSTANTS
  Node,       \* CONFIG_NODE_ADDR of the node that keeps the table
  MaxHeard    \* bound on OGMs counted for one route

ASSUME NodeAssumption == Node \in Nodes
ASSUME GhostAssumption == MaxHeard \in Nat

Others == Nodes \ {Node}

VARIABLES
  table,      \* batman.c: route_table
  time,       \* clock.c: time
  echoed,     \* ghost: the neighbours that ever echoed one of our OGMs
  heard       \* ghost: confirmations of each pair in the table

vars == <<table, time, echoed, heard>>

Pairs == [target : Others, gateway : Others]
Pair(r) == [target |-> r.target, gateway |-> r.gateway]
PairsOf(t) == {Pair(t[i]) : i \in DOMAIN t}

Init ==
  /\ table = <<>>
  /\ time = 0
  /\ echoed = {}
  /\ heard = [p \in Pairs |-> 0]

\* The ghosts follow the table: a pair is counted when an OGM confirms it.
Count(ogm) ==
  LET p == IF Echo(Node, table, ogm)
           THEN [target |-> ogm.sender, gateway |-> ogm.sender]
           ELSE [target |-> ogm.originator, gateway |-> ogm.sender]
      confirmed == (Echo(Node, table, ogm) \/ Updates(Node, table, ogm))
                   /\ p \in PairsOf(table')
  IN IF confirmed
     THEN heard[p] < MaxHeard /\ heard' = [heard EXCEPT ![p] = @ + 1]
     ELSE UNCHANGED heard

\* batman_rx: an OGM that passed the CRC.
RxOgm(ogm) ==
  /\ table' = TableAfter(Node, table, ogm, time)
  /\ echoed' = IF Examined(Node, ogm) /\ ogm.originator = Node /\ ogm.direct
               THEN echoed \union {ogm.sender}
               ELSE echoed
  /\ Count(ogm)
  /\ UNCHANGED time

Forget == heard' = [p \in Pairs |-> IF p \in PairsOf(table') THEN heard[p] ELSE 0]

\* timer_thread: clock_update, then batman_one_second_elapsed, in the order
\* main_init registered them.
Second ==
  /\ time' = (time + 1) % TimeMod
  /\ table' = Purge(table, time')
  /\ Forget
  /\ UNCHANGED echoed

\* Shell command `o': batman_one_second_elapsed without the clock.
ShellPurge ==
  /\ table' = Purge(table, time)
  /\ Forget
  /\ UNCHANGED <<time, echoed>>

\* What a neighbour may send, up to fields the handler does not look at: our
\* own OGM echoed, its own OGM or one it relays, and one OGM for each of the
\* reasons to drop it at once.
OgmFrom(o, s) == [version |-> TRUE, direct |-> FALSE, unidirectional |-> FALSE,
                  ttl |-> 1, seqno |-> 0, originator |-> o, sender |-> s]

EchoOgms ==
  {[OgmFrom(Node, s) EXCEPT !.direct = d] : s \in Others, d \in BOOLEAN}

NeighbourOgms ==
  {[OgmFrom(o, s) EXCEPT !.seqno = q] :
     o \in Others, s \in Others, q \in 0 .. SeqMod - 1}

DroppedOgms ==
  UNION {{[OgmFrom(o, s) EXCEPT !.version = FALSE],
          [OgmFrom(o, s) EXCEPT !.ttl = 0],
          [OgmFrom(o, s) EXCEPT !.unidirectional = TRUE],
          OgmFrom(o, Node)} : o \in Others, s \in Others}

HeardOgms == EchoOgms \union NeighbourOgms \union DroppedOgms

Next ==
  \/ \E ogm \in HeardOgms : RxOgm(ogm)
  \/ Second
  \/ ShellPurge

Spec == Init /\ [][Next]_vars

-----------------------------------------------------------------------------
TypeOK ==
  /\ table \in Seq(Route(Node)) /\ Len(table) <= MAX_ROUTE_ENTRIES
  /\ time \in 0 .. TimeMod - 1
  /\ echoed \subseteq Others
  /\ heard \in [Pairs -> 0 .. MaxHeard]

\* A pair is in the list once: route_save_or_update finds what it appended
\* before, whatever purges and full tables came in between.
OneEntryPerPair ==
  \A i, j \in DOMAIN table : Pair(table[i]) = Pair(table[j]) => i = j

\* route_present names a gateway that has confirmed the target at least as
\* often as any other gateway has.
HeardMost ==
  \A t \in Others : RoutePresent(table, t) =>
    \A i \in RoutesTo(table, t) :
      heard[Pair(table[i])] <=
        heard[[target |-> t, gateway |-> Gateway(table, t)]]

-----------------------------------------------------------------------------
AgesOf(t, now) ==
  [p \in PairsOf(t) |-> Age(t[CHOOSE i \in DOMAIN t : Pair(t[i]) = p], now)]

Map == INSTANCE RouteMap WITH age <- AgesOf(table, time)

\* The list with its 16-bit clock is the map of RouteMap: no entry outlives
\* PURGE_TIMEOUT, none is lost early, none is there without an echo.
ImplementsRouteMap == Map!Spec
=============================================================================
