-------------------------------- MODULE Mesh --------------------------------
(***************************************************************************)
(* Several nodes, their routing tables and the frames between them: OGMs   *)
(* flooded from node to node, and a message sent by one node's shell to    *)
(* another node.  A transmission reaches some of the nodes in range, those *)
(* whose packet_rx is free at most; links need not go both ways.  How one  *)
(* node gets a frame on the air is the subject of Radio; what it shows of  *)
(* the shared llc_tx is kept here: a caller that is not told that its      *)
(* frame left sends it again, and one told so for another's frame sends    *)
(* nothing, which is a frame that nobody hears.                            *)
(***************************************************************************)
EXTENDS RouteTable

CONSTANTS
  Instances,  \* what links, ttl, lives, restarts and thefts may be
  From, To,   \* who sends the message, and to whom
  None        \* no frame

OgmFrame == [kind : {"ogm"}, body : Ogm]
Unicast == [kind : {"unicast"}, originator : Nodes, target : Nodes,
            sender : Nodes, gateway : Nodes, ttl : Nat]
Frame == OgmFrame \union Unicast

ASSUME MeshAssumption ==
  /\ From \in Nodes /\ To \in Nodes
  /\ None \notin Frame
  /\ \A i \in Instances :
       /\ i.links \subseteq Nodes \X Nodes /\ i.ttl \in Nat
       /\ i.lives \in [Nodes -> Nat] /\ i.restarts \subseteq Nodes
       /\ i.thefts \in Nat

VARIABLES
  links,      \* the topology: <<n, m>> is a link when m hears n
  config_ttl, \* the setting CONFIG_TTL, of all nodes
  lives,      \* bound, per node: the seconds from a start to the next or the end
  restarts,   \* bound: the nodes that may still restart
  thefts,     \* bound: how often a caller of llc_tx may still not be told that
              \* its frame left, since a forward or the one it runs beside
              \* takes its PT_ENDED
  seconds,    \* per node: seconds since it started
  table,      \* per node: route_table
  send_ogm,   \* per node: send_ogm, until the OGM is out
  inbox,      \* per node: packet_rx, when needs_processing
  relay,      \* per node: the frame its rx_thread is to send on
  message,    \* per node: the frame its shell waits to send
  accepted    \* bound: has the message been sent

fixed == <<links, config_ttl, lives>>
vars == <<fixed, restarts, thefts, seconds, table, send_ogm, inbox, relay,
          message, accepted>>

clock_get_time(n) == seconds[n] % TimeMod

IsUnicast(f) == f # None /\ f.kind = "unicast"

Init ==
  /\ \E i \in Instances :
       /\ links = i.links /\ config_ttl = i.ttl
       /\ lives = i.lives /\ restarts = i.restarts /\ thefts = i.thefts
  /\ seconds = [n \in Nodes |-> 0]
  /\ table = [n \in Nodes |-> <<>>]
  /\ send_ogm = [n \in Nodes |-> FALSE]
  /\ inbox = [n \in Nodes |-> None]
  /\ relay = [n \in Nodes |-> None]
  /\ message = [n \in Nodes |-> None]
  /\ accepted = FALSE

\* A frame goes out; those who hear it take it when they can.
Air(n, f) ==
  \E got \in SUBSET {m \in Nodes : <<n, m>> \in links /\ inbox[m] = None} :
    inbox' = [m \in Nodes |-> IF m \in got THEN f ELSE inbox[m]]

\* llc_tx ends for the caller whose frame left, or for another caller of it:
\* then the caller's next poll starts llc_tx again, with the same frame.
PtEnded == UNCHANGED thefts
PtEndedTaken == thefts > 0 /\ thefts' = thefts - 1

\* timer_thread: clock_update, then batman_one_second_elapsed
OneSecondElapsed(n) ==
  /\ seconds[n] < lives[n]
  /\ seconds' = [seconds EXCEPT ![n] = @ + 1]
  /\ table' = [table EXCEPT ![n] = Purge(@, (seconds[n] + 1) % TimeMod)]
  /\ send_ogm' = [send_ogm EXCEPT ![n] = TRUE]
  /\ UNCHANGED <<fixed, restarts, thefts, inbox, relay, message, accepted>>

\* batman_thread
OwnOgm(n) ==
  [kind |-> "ogm",
   body |-> [version |-> TRUE, direct |-> FALSE, unidirectional |-> FALSE,
             ttl |-> config_ttl, seqno |-> 0, originator |-> n, sender |-> n]]

OgmStillDue(n) == send_ogm
OgmSent(n) == [send_ogm EXCEPT ![n] = FALSE]

SendOgm(n) ==
  /\ send_ogm[n]
  /\ Air(n, OwnOgm(n))
  /\ \/ PtEnded /\ send_ogm' = OgmSent(n)
     \/ PtEndedTaken /\ UNCHANGED send_ogm
  /\ UNCHANGED <<fixed, restarts, seconds, table, relay, message, accepted>>

\* ogm_rebroadcast: the OGM as it is sent on, its flags set anew.
RelayedOgmFlagsKept(n, ogm) ==
  [ogm EXCEPT
     !.direct = @ \/ ogm.sender = ogm.originator,
     !.unidirectional = ~Bidirectional(table[n], ogm.sender),
     !.sender = n,
     !.ttl = @ - 1]
RelayedOgm(n, ogm) ==
  [ogm EXCEPT
     !.direct = ogm.sender = ogm.originator,
     !.unidirectional = ~Bidirectional(table[n], ogm.sender),
     !.sender = n,
     !.ttl = @ - 1]

\* batman_rx, an OGM
RxOgm(n) ==
  /\ inbox[n] # None /\ inbox[n].kind = "ogm" /\ relay[n] = None
  /\ LET ogm == inbox[n].body
     IN /\ table' = [table EXCEPT
             ![n] = TableAfter(n, @, ogm, clock_get_time(n))]
        /\ relay' = [relay EXCEPT
             ![n] = IF Relayed(n, ogm)
                    THEN [kind |-> "ogm", body |-> RelayedOgm(n, ogm)]
                    ELSE None]
  /\ inbox' = [inbox EXCEPT ![n] = None]
  /\ UNCHANGED <<fixed, restarts, thefts, seconds, send_ogm, message, accepted>>

\* batman_rebroadcast, in the order of its tests; what is not for us and not
\* sent on is dropped.
RebroadcastAny(n, f) ==
  /\ f.target # n
  /\ f.ttl > 0
  /\ f.originator # n
  /\ RoutePresent(table[n], f.target)
Rebroadcast(n, f) ==
  /\ f.target # n
  /\ f.ttl > 0
  /\ f.gateway = n
  /\ f.originator # n
  /\ RoutePresent(table[n], f.target)

ReaddressedBySenderOnly(n, f) ==
  [f EXCEPT !.sender = n, !.ttl = @ - 1]
Readdressed(n, f) ==
  [f EXCEPT !.sender = n, !.ttl = @ - 1,
            !.gateway = Gateway(table[n], f.target)]

\* batman_rx, a message
RxUnicast(n) ==
  /\ IsUnicast(inbox[n]) /\ relay[n] = None
  /\ relay' = [relay EXCEPT ![n] = IF Rebroadcast(n, inbox[n])
                                   THEN Readdressed(n, inbox[n])
                                   ELSE None]
  /\ inbox' = [inbox EXCEPT ![n] = None]
  /\ UNCHANGED <<fixed, restarts, thefts, seconds, table, send_ogm, message,
                 accepted>>

\* batman_rx: llc_tx of what is sent on.  An OGM is sent under the mutex, and
\* only this thread calls llc_tx without it; a message is sent without it.
Relay(n) ==
  /\ relay[n] # None
  /\ Air(n, relay[n])
  /\ \/ PtEnded /\ relay' = [relay EXCEPT ![n] = None]
     \/ IsUnicast(relay[n]) /\ PtEndedTaken /\ UNCHANGED relay
  /\ UNCHANGED <<fixed, restarts, seconds, table, send_ogm, message, accepted>>

\* batman_tx up to its wait for the mutex: without a route it is over.
BatmanTx(n, target) ==
  /\ ~accepted /\ message[n] = None
  /\ RoutePresent(table[n], target)
  /\ message' = [message EXCEPT
       ![n] = [kind |-> "unicast", originator |-> n, target |-> target,
               sender |-> n, gateway |-> Gateway(table[n], target),
               ttl |-> config_ttl]]
  /\ accepted' = TRUE
  /\ UNCHANGED <<fixed, restarts, thefts, seconds, table, send_ogm, inbox, relay>>

\* batman_tx: llc_tx, under the mutex; a forward does not wait for it.
SendMessage(n) ==
  /\ message[n] # None
  /\ Air(n, message[n])
  /\ \/ PtEnded /\ message' = [message EXCEPT ![n] = None]
     \/ PtEndedTaken /\ UNCHANGED message
  /\ UNCHANGED <<fixed, restarts, seconds, table, send_ogm, relay, accepted>>

\* The node is reset, by its watchdog or its user, and main_init runs: its
\* table, its clock and the frames it held are gone.
Restart(n) ==
  /\ n \in restarts /\ restarts' = restarts \ {n}
  /\ seconds' = [seconds EXCEPT ![n] = 0]
  /\ table' = [table EXCEPT ![n] = <<>>]
  /\ send_ogm' = [send_ogm EXCEPT ![n] = FALSE]
  /\ inbox' = [inbox EXCEPT ![n] = None]
  /\ relay' = [relay EXCEPT ![n] = None]
  /\ message' = [message EXCEPT ![n] = None]
  /\ UNCHANGED <<fixed, thefts, accepted>>

NodeStep(n) ==
  \/ SendOgm(n) \/ RxOgm(n) \/ RxUnicast(n) \/ Relay(n) \/ SendMessage(n)

Next ==
  \/ \E n \in Nodes : NodeStep(n) \/ OneSecondElapsed(n) \/ Restart(n)
  \/ BatmanTx(From, To)

Spec == Init /\ [][Next]_vars

\* Every node's main loop goes on.
FairSpec == Spec /\ \A n \in Nodes : WF_vars(NodeStep(n))

-----------------------------------------------------------------------------
AnyRoute == UNION {Route(n) : n \in Nodes}

TypeOK ==
  /\ links \subseteq Nodes \X Nodes /\ config_ttl \in Nat
  /\ lives \in [Nodes -> Nat] /\ restarts \subseteq Nodes /\ thefts \in Nat
  /\ seconds \in [Nodes -> Nat] /\ \A n \in Nodes : seconds[n] <= lives[n]
  /\ table \in [Nodes -> Seq(AnyRoute)]
  /\ \A n \in Nodes : table[n] \in Seq(Route(n))
  /\ send_ogm \in [Nodes -> BOOLEAN]
  /\ inbox \in [Nodes -> Frame \union {None}]
  /\ relay \in [Nodes -> Frame \union {None}]
  /\ message \in [Nodes -> Unicast \union {None}]
  /\ accepted \in BOOLEAN

\* From g there is a way to t, from hop to hop: no set that has t, and with a
\* node those it hears, leaves g out.
LeadsTo(g, t) ==
  \A S \in SUBSET Nodes :
    t \in S /\ (\A l \in links : l[2] \in S => l[1] \in S) => g \in S

\* n's frames reach g, and from there t.
Reaches(n, g, t) == <<n, g>> \in links /\ LeadsTo(g, t)

\* A node routes through a neighbour only if that one hears it, though links
\* are judged by what comes the other way; and from there there is a way to
\* the target.
RoutesLead ==
  \A n \in Nodes : \A i \in DOMAIN table[n] :
    Reaches(n, table[n][i].gateway, table[n][i].target)

\* A message leaves for a neighbour that can hear it and get it nearer,
\* though the gateway is looked up before the wait and routes may go away.
FramesLead ==
  \A n \in Nodes : \A f \in {relay[n], message[n]} :
    IsUnicast(f) => Reaches(n, f.gateway, f.target)

\* When nobody starts anything, the air falls quiet: every OGM and every
\* message comes to an end, in whatever circles it is sent.
Quiet ==
  \A n \in Nodes :
    inbox[n] = None /\ relay[n] = None /\ message[n] = None /\ ~send_ogm[n]
FloodEnds == <>[]Quiet

\* What is in packet_rx of n and batman_rebroadcast may send on.
ToPassOn(n, f) ==
  /\ IsUnicast(f) /\ f.gateway = n /\ f.ttl > 0
  /\ n \notin {f.originator, f.target}

\* The copies of the message: what n is to send, and what it is to pass on, one
\* hop further.
OutAt(n) ==
  {[at |-> n, place |-> "out", left |-> f.ttl] :
     f \in {g \in {message[n], relay[n]} : IsUnicast(g)}}
InAt(n) ==
  {[at |-> n, place |-> "in", left |-> f.ttl - 1] :
     f \in {g \in {inbox[n]} : ToPassOn(n, g)}}
Copies == UNION {OutAt(n) \union InAt(n) : n \in Nodes}

C == INSTANCE Custody WITH hops <- config_ttl, copies <- Copies

\* Whoever overhears it, there is one copy of the message on its way, and one
\* more for every time a caller of llc_tx is not told that its frame left; no
\* copy makes more hops than it may: see Custody.
ImplementsCustody == C!Spec
=============================================================================
