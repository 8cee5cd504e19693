----------------------------- MODULE MeshProofs -----------------------------
(***************************************************************************)
(* Theorems about Mesh for any number of nodes, any links, lives, restarts *)
(* and table sizes.                                                        *)
(***************************************************************************)
EXTENDS Mesh, RouteTableProofs, FiniteSetTheorems

IsOgm(f) == f # None /\ f.kind = "ogm"

\* A transmission reaches free nodes that hear it, and changes nothing else.
LEMMA AirReaches ==
  ASSUME TypeOK, NEW n \in Nodes, NEW f \in Frame, Air(n, f)
  PROVE  /\ inbox' \in [Nodes -> Frame \union {None}]
         /\ \A m \in Nodes :
              \/ inbox'[m] = inbox[m]
              \/ inbox[m] = None /\ inbox'[m] = f /\ <<n, m>> \in links
<1>1. PICK got \in SUBSET {m \in Nodes : <<n, m>> \in links /\ inbox[m] = None} :
        inbox' = [m \in Nodes |-> IF m \in got THEN f ELSE inbox[m]]
  BY DEF Air
<1>2. inbox \in [Nodes -> Frame \union {None}]
  BY DEF TypeOK, Frame
<1> QED
  BY <1>1, <1>2

\* The kinds of frame are told apart by their field.
LEMMA Kinds ==
  ASSUME NEW f \in Frame \union {None}
  PROVE  /\ f = None \/ IsOgm(f) \/ IsUnicast(f)
         /\ ~ (IsOgm(f) /\ IsUnicast(f))
         /\ IsOgm(f) => f \in OgmFrame /\ f.body \in Ogm
         /\ IsUnicast(f) => f \in Unicast
BY MeshAssumption DEF MeshAssumption, Frame, IsOgm, IsUnicast, OgmFrame, Unicast

\* A table of one node, put in its place.
LEMMA TableInPlace ==
  ASSUME TypeOK, NEW n \in Nodes, NEW t \in Seq(Route(n)),
         table' = [table EXCEPT ![n] = t]
  PROVE  /\ table' \in [Nodes -> Seq(AnyRoute)]
         /\ \A m \in Nodes : table'[m] \in Seq(Route(m))
         /\ table'[n] = t /\ \A m \in Nodes \ {n} : table'[m] = table[m]
<1>1. t \in Seq(AnyRoute)
  <2>1. Route(n) \subseteq AnyRoute
    BY DEF AnyRoute
  <2> HIDE DEF AnyRoute
  <2> QED
    BY <2>1, SeqMonotonic
<1>2. table \in [Nodes -> Seq(AnyRoute)] /\ \A m \in Nodes : table[m] \in Seq(Route(m))
  BY DEF TypeOK, AnyRoute
<1> QED
  BY <1>1, <1>2

LEMMA InitType == Init => TypeOK
<1> SUFFICES ASSUME Init PROVE TypeOK
    OBVIOUS
<1>1. /\ links \subseteq Nodes \X Nodes /\ config_ttl \in Nat
      /\ lives \in [Nodes -> Nat] /\ restarts \subseteq Nodes /\ thefts \in Nat
  BY MeshAssumption DEF Init, MeshAssumption
<1>2. table \in [Nodes -> Seq(AnyRoute)] /\ \A m \in Nodes : table[m] \in Seq(Route(m))
  BY DEF Init
<1>3. /\ seconds \in [Nodes -> Nat] /\ \A n \in Nodes : seconds[n] <= lives[n]
      /\ send_ogm \in [Nodes -> BOOLEAN]
  BY <1>1 DEF Init
<1>4. /\ inbox \in [Nodes -> Frame \union {None}]
      /\ relay \in [Nodes -> Frame \union {None}]
      /\ message \in [Nodes -> Unicast \union {None}]
      /\ accepted \in BOOLEAN
  BY DEF Init
<1> QED
  BY <1>1, <1>2, <1>3, <1>4 DEF TypeOK

LEMMA OwnOgmType ==
  ASSUME TypeOK, NEW n \in Nodes PROVE OwnOgm(n) \in OgmFrame
<1>1. config_ttl \in Nat /\ 0 \in 0 .. SeqMod - 1
  BY TableAssumption DEF TableAssumption, TypeOK
<1>2. OwnOgm(n).body \in Ogm
  BY <1>1, Zenon DEF OwnOgm, Ogm
<1> QED
  BY <1>2 DEF OwnOgm, OgmFrame

LEMMA RelayedOgmType ==
  ASSUME NEW n \in Nodes, NEW ogm \in Ogm, Relayed(n, ogm)
  PROVE  RelayedOgm(n, ogm) \in Ogm
<1> DEFINE d == ogm.sender = ogm.originator
           u == ~Bidirectional(table[n], ogm.sender)
<1>1. d \in BOOLEAN /\ u \in BOOLEAN
  BY DEF Bidirectional
<1>2. ogm.ttl - 1 \in Nat
  BY DEF Relayed, Examined, Ogm
<1>3. RelayedOgm(n, ogm) = [ogm EXCEPT !.direct = d, !.unidirectional = u,
                                       !.sender = n, !.ttl = @ - 1]
  BY DEF RelayedOgm
<1> HIDE DEF d, u
<1> QED
  BY <1>1, <1>2, <1>3 DEF Ogm

\* The gateway to a target is one of the neighbours in the table.
LEMMA GatewayIsRoute ==
  ASSUME TypeOK, NEW n \in Nodes, NEW target,
         RoutePresent(table[n], target)
  PROVE  \E i \in DOMAIN table[n] :
           /\ table[n][i].target = target
           /\ table[n][i].gateway = Gateway(table[n], target)
           /\ Gateway(table[n], target) \in Nodes \ {n}
<1> DEFINE t == table[n]
           b == Best(t, target)
<1>1. t \in Seq(Route(n))
  BY DEF TypeOK
<1>2. b \in 1 .. Len(t) /\ t[b].target = target
  BY <1>1, BestIsBest
<1>3. Gateway(t, target) = t[b].gateway
  BY DEF Gateway
<1>4. t[b] \in Route(n) /\ DOMAIN t = 1 .. Len(t)
  BY <1>1, <1>2
<1>5. t[b].gateway \in Nodes \ {n}
  BY <1>4 DEF Route
<1> QED
  BY <1>2, <1>3, <1>4, <1>5

LEMMA ReaddressedType ==
  ASSUME TypeOK, NEW n \in Nodes, NEW f \in Unicast,
         Rebroadcast(n, f)
  PROVE  Readdressed(n, f) \in Unicast
<1>1. Gateway(table[n], f.target) \in Nodes
  BY GatewayIsRoute DEF Rebroadcast
<1>2. f.ttl - 1 \in Nat
  BY DEF Rebroadcast, Unicast
<1> QED
  BY <1>1, <1>2 DEF Readdressed, Unicast

\* A caller that is not told counts as one.
LEMMA TheftsType ==
  ASSUME TypeOK, PtEnded \/ PtEndedTaken PROVE thefts' \in Nat
BY DEF TypeOK, PtEnded, PtEndedTaken

\* Every step keeps the types: what matters is that the tables stay lists of
\* routes over other nodes, and that nothing but frames is sent.
LEMMA StepType ==
  TypeOK /\ [Next]_vars => TypeOK'
<1> SUFFICES ASSUME TypeOK, [Next]_vars PROVE TypeOK'
    OBVIOUS
<1> USE DEF fixed
<1>1. ASSUME NEW n \in Nodes, OneSecondElapsed(n) PROVE TypeOK'
  <2> DEFINE t == Purge(table[n], (seconds[n] + 1) % TimeMod)
  <2>1. t \in Seq(Route(n))
    <3>1. table[n] \in Seq(Route(n))
      BY DEF TypeOK
    <3> QED
      BY <3>1, PurgeKeeps
  <2>2. table' = [table EXCEPT ![n] = t]
    BY <1>1 DEF OneSecondElapsed
  <2> HIDE DEF t
  <2>3. /\ table' \in [Nodes -> Seq(AnyRoute)]
        /\ \A m \in Nodes : table'[m] \in Seq(Route(m))
    BY <2>1, <2>2, TableInPlace
  <2>4. /\ seconds' \in [Nodes -> Nat] /\ \A m \in Nodes : seconds'[m] <= lives[m]
        /\ send_ogm' \in [Nodes -> BOOLEAN]
    BY <1>1 DEF OneSecondElapsed, TypeOK
  <2> QED
    BY <1>1, <2>3, <2>4 DEF OneSecondElapsed, TypeOK, AnyRoute, Route
<1>2. ASSUME NEW n \in Nodes, SendOgm(n) PROVE TypeOK'
  <2>1. inbox' \in [Nodes -> Frame \union {None}]
    BY <1>2, OwnOgmType, AirReaches DEF SendOgm, Frame
  <2>2. send_ogm' \in [Nodes -> BOOLEAN] /\ thefts' \in Nat
    BY <1>2, TheftsType DEF SendOgm, OgmSent, TypeOK
  <2> QED
    BY <1>2, <2>1, <2>2 DEF SendOgm, TypeOK, AnyRoute, Route
<1>3. ASSUME NEW n \in Nodes, RxOgm(n) PROVE TypeOK'
  <2> DEFINE ogm == inbox[n].body
             t == TableAfter(n, table[n], ogm, clock_get_time(n))
             r == IF Relayed(n, ogm)
                  THEN [kind |-> "ogm", body |-> RelayedOgm(n, ogm)] ELSE None
  <2>1. ogm \in Ogm
    BY <1>3, Kinds DEF RxOgm, TypeOK, IsOgm
  <2>2. t \in Seq(Route(n))
    <3>1. clock_get_time(n) \in 0 .. TimeMod - 1
      <4>1. seconds[n] \in Int /\ TimeMod \in Nat \ {0}
        BY TableAssumption DEF TypeOK, TableAssumption
      <4> QED
        BY <4>1, ModRange DEF clock_get_time
    <3>2. table[n] \in Seq(Route(n))
      BY DEF TypeOK
    <3> QED
      BY <2>1, <3>1, <3>2, TableAfterPairs
  <2>3. r \in Frame \union {None}
    BY <2>1, RelayedOgmType DEF Frame, OgmFrame
  <2>4. table' = [table EXCEPT ![n] = t] /\ relay' = [relay EXCEPT ![n] = r]
    BY <1>3 DEF RxOgm
  <2> HIDE DEF t, r
  <2>5. /\ table' \in [Nodes -> Seq(AnyRoute)]
        /\ \A m \in Nodes : table'[m] \in Seq(Route(m))
    BY <2>2, <2>4, TableInPlace
  <2>6. relay' \in [Nodes -> Frame \union {None}]
    BY <2>3, <2>4 DEF TypeOK
  <2>7. inbox' \in [Nodes -> Frame \union {None}]
    BY <1>3 DEF RxOgm, TypeOK
  <2> QED
    BY <1>3, <2>5, <2>6, <2>7 DEF RxOgm, TypeOK, AnyRoute, Route
<1>4. ASSUME NEW n \in Nodes, RxUnicast(n) PROVE TypeOK'
  <2> DEFINE r == IF Rebroadcast(n, inbox[n]) THEN Readdressed(n, inbox[n]) ELSE None
  <2>1. inbox[n] \in Unicast
    BY <1>4, Kinds DEF RxUnicast, TypeOK
  <2>2. r \in Frame \union {None}
    BY <2>1, ReaddressedType DEF Frame
  <2>3. relay' = [relay EXCEPT ![n] = r] /\ inbox' = [inbox EXCEPT ![n] = None]
    BY <1>4 DEF RxUnicast
  <2> HIDE DEF r
  <2>4. /\ relay' \in [Nodes -> Frame \union {None}]
        /\ inbox' \in [Nodes -> Frame \union {None}]
    BY <2>2, <2>3 DEF TypeOK
  <2> QED
    BY <1>4, <2>4 DEF RxUnicast, TypeOK, AnyRoute, Route
<1>5. ASSUME NEW n \in Nodes, Relay(n) PROVE TypeOK'
  <2>1. relay[n] \in Frame /\ relay' \in [Nodes -> Frame \union {None}]
    BY <1>5 DEF Relay, TypeOK
  <2>3. thefts' \in Nat
    BY <1>5, TheftsType DEF Relay
  <2>2. inbox' \in [Nodes -> Frame \union {None}]
    BY <1>5, <2>1, AirReaches DEF Relay
  <2> QED
    BY <1>5, <2>1, <2>2, <2>3 DEF Relay, TypeOK, AnyRoute, Route
<1>6. ASSUME NEW n \in Nodes, SendMessage(n) PROVE TypeOK'
  <2>1. message[n] \in Frame /\ message' \in [Nodes -> Unicast \union {None}]
    BY <1>6 DEF SendMessage, TypeOK, Frame
  <2>3. thefts' \in Nat
    BY <1>6, TheftsType DEF SendMessage
  <2>2. inbox' \in [Nodes -> Frame \union {None}]
    BY <1>6, <2>1, AirReaches DEF SendMessage
  <2> QED
    BY <1>6, <2>1, <2>2, <2>3 DEF SendMessage, TypeOK, AnyRoute, Route
<1>7. ASSUME NEW n \in Nodes, Restart(n) PROVE TypeOK'
  <2>1. table' = [table EXCEPT ![n] = <<>>] /\ <<>> \in Seq(Route(n))
    BY <1>7 DEF Restart
  <2>2. /\ table' \in [Nodes -> Seq(AnyRoute)]
        /\ \A m \in Nodes : table'[m] \in Seq(Route(m))
    BY <2>1, TableInPlace
  <2>3. /\ seconds' \in [Nodes -> Nat] /\ \A m \in Nodes : seconds'[m] <= lives[m]
        /\ send_ogm' \in [Nodes -> BOOLEAN] /\ restarts' \subseteq Nodes
    BY <1>7 DEF Restart, TypeOK
  <2>4. /\ inbox' \in [Nodes -> Frame \union {None}]
        /\ relay' \in [Nodes -> Frame \union {None}]
        /\ message' \in [Nodes -> Unicast \union {None}]
    BY <1>7 DEF Restart, TypeOK
  <2> QED
    BY <1>7, <2>2, <2>3, <2>4 DEF Restart, TypeOK, AnyRoute, Route
<1>8. CASE BatmanTx(From, To)
  <2>1. Gateway(table[From], To) \in Nodes /\ From \in Nodes /\ To \in Nodes
    BY <1>8, GatewayIsRoute, MeshAssumption DEF BatmanTx, MeshAssumption
  <2>2. message' \in [Nodes -> Unicast \union {None}]
    BY <1>8, <2>1 DEF BatmanTx, TypeOK, Unicast
  <2> QED
    BY <1>8, <2>2 DEF BatmanTx, TypeOK, AnyRoute, Route
<1>9. CASE UNCHANGED vars
  BY <1>9 DEF vars, TypeOK, AnyRoute, Route
<1> QED
  BY <1>1, <1>2, <1>3, <1>4, <1>5, <1>6, <1>7, <1>8, <1>9 DEF Next, NodeStep

\* Tables, frames and clocks stay what they are said to be.
THEOREM TypeCorrect ==
  Spec => []TypeOK
BY InitType, StepType, PTL DEF Spec

-----------------------------------------------------------------------------
(* Routes and frames lead to their targets *)

\* What an OGM says of the way back.  Where its flag does not warn of a one-way
\* link its originator can be reached from its sender, and a direct one came
\* from the originator to its sender in one hop.
Truthful(ogm) ==
  /\ ~ogm.unidirectional => LeadsTo(ogm.sender, ogm.originator)
  /\ ogm.direct => <<ogm.originator, ogm.sender>> \in links

OgmsHeardTruthful ==
  \A n \in Nodes : IsOgm(inbox[n]) =>
    Truthful(inbox[n].body) /\ <<inbox[n].body.sender, n>> \in links

OgmsRelayedTruthful ==
  \A n \in Nodes : IsOgm(relay[n]) =>
    Truthful(relay[n].body) /\ relay[n].body.sender = n

Leads ==
  /\ TypeOK /\ RoutesLead /\ FramesLead
  /\ OgmsHeardTruthful /\ OgmsRelayedTruthful

LEMMA HereLeads == \A t : LeadsTo(t, t)
BY DEF LeadsTo

LEMMA HopLeads ==
  ASSUME TypeOK, NEW n, NEW g, NEW t, <<n, g>> \in links, LeadsTo(g, t)
  PROVE  LeadsTo(n, t)
<1> SUFFICES ASSUME NEW S \in SUBSET Nodes, t \in S,
                    \A l \in links : l[2] \in S => l[1] \in S
             PROVE  n \in S
    BY DEF LeadsTo
<1>1. g \in S
  BY DEF LeadsTo
<1> QED
  BY <1>1

\* Nothing in the definitions of RoutesLead but the links and the pairs.
LEMMA SameLinks ==
  ASSUME links' = links
  PROVE  /\ \A g, t : LeadsTo(g, t)' <=> LeadsTo(g, t)
         /\ \A n, g, t : Reaches(n, g, t)' <=> Reaches(n, g, t)
         /\ \A ogm : Truthful(ogm)' <=> Truthful(ogm)
BY DEF LeadsTo, Reaches, Truthful

LEMMA OwnOgmTruthful ==
  ASSUME TypeOK, NEW n \in Nodes
  PROVE  Truthful(OwnOgm(n).body) /\ OwnOgm(n).body.sender = n
BY HereLeads DEF OwnOgm, Truthful

\* An OGM is relayed truthfully, because the routes of the node that relays it
\* lead where they should.
LEMMA RelayedOgmTruthful ==
  ASSUME TypeOK, RoutesLead, NEW n \in Nodes, NEW ogm \in Ogm, Relayed(n, ogm),
         Truthful(ogm), <<ogm.sender, n>> \in links
  PROVE  Truthful(RelayedOgm(n, ogm)) /\ RelayedOgm(n, ogm).sender = n
<1> DEFINE r == RelayedOgm(n, ogm)
<1>1. /\ r.sender = n /\ r.originator = ogm.originator
      /\ r.direct <=> ogm.sender = ogm.originator
      /\ r.unidirectional <=> ~Bidirectional(table[n], ogm.sender)
  BY DEF RelayedOgm, Ogm
<1> HIDE DEF r
<1>2. ASSUME Bidirectional(table[n], ogm.sender) PROVE LeadsTo(n, ogm.originator)
  <2>1. PICK i \in DOMAIN table[n] : table[n][i].gateway = ogm.sender
    BY <1>2 DEF Bidirectional
  <2>2. <<n, ogm.sender>> \in links
    BY <2>1 DEF RoutesLead, Reaches
  <2>3. LeadsTo(ogm.sender, ogm.originator)
    BY DEF Relayed, Truthful
  <2> QED
    BY <2>2, <2>3, HopLeads
<1> QED
  BY <1>1, <1>2 DEF Truthful, r

LEMMA InitLeads == Init => Leads
<1> SUFFICES ASSUME Init PROVE Leads
    OBVIOUS
<1>1. TypeOK
  BY InitType
<1>2. RoutesLead
  BY DEF Init, RoutesLead
<1>3. FramesLead /\ OgmsHeardTruthful /\ OgmsRelayedTruthful
  BY DEF Init, FramesLead, OgmsHeardTruthful, OgmsRelayedTruthful, IsUnicast, IsOgm
<1> QED
  BY <1>1, <1>2, <1>3 DEF Leads

\* A step that leaves the tables alone or shortens them.
LEMMA RoutesStay ==
  ASSUME TypeOK, RoutesLead, links' = links,
         \A n \in Nodes : \A i \in DOMAIN table'[n] :
           \E j \in DOMAIN table[n] :
             /\ table'[n][i].target = table[n][j].target
             /\ table'[n][i].gateway = table[n][j].gateway
  PROVE  RoutesLead'
BY SameLinks DEF RoutesLead

\* What is in the air is what was sent, and it came over a link.
LEMMA AirTruthful ==
  ASSUME TypeOK, OgmsHeardTruthful, links' = links,
         NEW n \in Nodes, NEW f \in Frame, Air(n, f),
         IsOgm(f) => Truthful(f.body) /\ f.body.sender = n
  PROVE  OgmsHeardTruthful'
<1> SUFFICES ASSUME NEW m \in Nodes, IsOgm(inbox'[m])
             PROVE  Truthful(inbox'[m].body) /\ <<inbox'[m].body.sender, m>> \in links
    BY DEF OgmsHeardTruthful, Truthful, LeadsTo
<1>1. CASE inbox'[m] = inbox[m]
  BY <1>1 DEF OgmsHeardTruthful
<1>2. CASE inbox'[m] = f /\ <<n, m>> \in links
  BY <1>2
<1> QED
  BY <1>1, <1>2, AirReaches


\* Every step keeps the links.
LEMMA LinksFixed == [Next]_vars => links' = links
BY DEF vars, fixed, Next, NodeStep, OneSecondElapsed, SendOgm, RxOgm, RxUnicast,
       Relay, SendMessage, Restart, BatmanTx

\* The tables change with a second, an OGM and a restart.
LEMMA StepRoutes ==
  Leads /\ [Next]_vars => RoutesLead'
<1> SUFFICES ASSUME Leads, [Next]_vars PROVE RoutesLead'
    OBVIOUS
<1> USE DEF Leads
<1>0. links' = links
  BY LinksFixed
<1>1. ASSUME NEW n \in Nodes, OneSecondElapsed(n) PROVE RoutesLead'
  <2> DEFINE t == table[n]
             k == Purge(t, (seconds[n] + 1) % TimeMod)
  <2>1. t \in Seq(Route(n))
    BY DEF TypeOK
  <2>2. \A i \in 1 .. Len(k) : \E j \in 1 .. Len(t) : k[i] = t[j]
    BY <2>1, PurgeEntries
  <2>3. k \in Seq(Route(n))
    BY <2>1, PurgeKeeps
  <2>4. table' = [table EXCEPT ![n] = k]
    BY <1>1 DEF OneSecondElapsed
  <2> HIDE DEF k
  <2>5. DOMAIN k = 1 .. Len(k) /\ DOMAIN t = 1 .. Len(t)
    BY <2>1, <2>3
  <2>6. table'[n] = k /\ \A m \in Nodes \ {n} : table'[m] = table[m]
    BY <2>3, <2>4, TableInPlace
  <2> QED
    BY <1>0, <2>2, <2>5, <2>6, RoutesStay
<1>2. ASSUME NEW n \in Nodes, RxOgm(n) PROVE RoutesLead'
  <2> DEFINE ogm == inbox[n].body
             t == table[n]
             s == TableAfter(n, t, ogm, clock_get_time(n))
  <2>1. ogm \in Ogm /\ t \in Seq(Route(n)) /\ IsOgm(inbox[n])
    BY <1>2, Kinds DEF RxOgm, TypeOK, IsOgm
  <2>2. clock_get_time(n) \in 0 .. TimeMod - 1
    <3>1. seconds[n] \in Int /\ TimeMod \in Nat \ {0}
      BY TableAssumption DEF TypeOK, TableAssumption
    <3> QED
      BY <3>1, ModRange DEF clock_get_time
  <2>3. Truthful(ogm) /\ <<ogm.sender, n>> \in links
    BY <2>1 DEF OgmsHeardTruthful
  <2>4. table' = [table EXCEPT ![n] = s]
    BY <1>2 DEF RxOgm
  <2> HIDE DEF ogm
  <2>5. /\ s \in Seq(Route(n))
        /\ \A i \in 1 .. Len(s) :
             \/ \E j \in 1 .. Len(t) : /\ s[i].target = t[j].target
                                       /\ s[i].gateway = t[j].gateway
             \/ /\ Echo(n, t, ogm)
                /\ s[i].target = ogm.sender /\ s[i].gateway = ogm.sender
             \/ /\ Updates(n, t, ogm)
                /\ s[i].target = ogm.originator /\ s[i].gateway = ogm.sender
    BY <2>1, <2>2, TableAfterPairs
  <2> HIDE DEF s
  <2>6. table'[n] = s /\ \A m \in Nodes \ {n} : table'[m] = table[m]
    BY <2>4, <2>5, TableInPlace
  <2>7. DOMAIN s = 1 .. Len(s) /\ DOMAIN t = 1 .. Len(t)
    BY <2>1, <2>5
  <2>8. ASSUME Echo(n, t, ogm) PROVE Reaches(n, ogm.sender, ogm.sender)
    BY <2>3, <2>8, HereLeads DEF Echo, Truthful, Reaches
  <2>9. ASSUME Updates(n, t, ogm) PROVE Reaches(n, ogm.sender, ogm.originator)
    <3>1. PICK j \in DOMAIN t : t[j].gateway = ogm.sender
      BY <2>9 DEF Updates, Bidirectional
    <3>2. <<n, ogm.sender>> \in links
      BY <3>1 DEF RoutesLead, Reaches
    <3> QED
      BY <2>3, <2>9, <3>2 DEF Updates, Relayed, Truthful, Reaches
  <2>10. ASSUME NEW i \in DOMAIN s PROVE Reaches(n, s[i].gateway, s[i].target)
    <3>1. CASE \E j \in 1 .. Len(t) : s[i].target = t[j].target /\ s[i].gateway = t[j].gateway
      BY <2>7, <3>1 DEF RoutesLead
    <3> QED
      BY <2>5, <2>7, <2>8, <2>9, <3>1
  <2> QED
    BY <1>0, <2>6, <2>10 DEF RoutesLead, Reaches, LeadsTo
<1>3. ASSUME NEW n \in Nodes, Restart(n) PROVE RoutesLead'
  <2>1. table' = [table EXCEPT ![n] = <<>>] /\ <<>> \in Seq(Route(n))
    BY <1>3 DEF Restart
  <2>2. table'[n] = <<>> /\ \A m \in Nodes \ {n} : table'[m] = table[m]
    BY <2>1, TableInPlace
  <2>3. DOMAIN <<>> = {}
    OBVIOUS
  <2> QED
    BY <1>0, <2>2, <2>3, RoutesStay
<1>4. CASE UNCHANGED table
  BY <1>0, <1>4, RoutesStay
<1> QED
  BY <1>1, <1>2, <1>3, <1>4 DEF vars, Next, NodeStep, SendOgm, RxUnicast, Relay,
     SendMessage, BatmanTx

\* A frame changes hands, or is addressed by a route of the node that sends it.
LEMMA StepFrames ==
  Leads /\ [Next]_vars => FramesLead'
<1> SUFFICES ASSUME Leads, [Next]_vars PROVE FramesLead'
    OBVIOUS
<1> USE DEF Leads
<1>0. links' = links
  BY LinksFixed
<1>1. ASSUME \A n \in Nodes : \A f \in {relay'[n], message'[n]} :
               IsUnicast(f) => Reaches(n, f.gateway, f.target)
      PROVE  FramesLead'
  BY <1>0, <1>1 DEF FramesLead, IsUnicast, Reaches, LeadsTo
<1>2. ASSUME NEW n \in Nodes, NEW target, RoutePresent(table[n], target)
      PROVE  Reaches(n, Gateway(table[n], target), target)
  BY <1>2, GatewayIsRoute DEF RoutesLead
<1>3. ASSUME NEW n \in Nodes, NEW f,
             \A m \in Nodes : relay'[m] \in {relay[m], None}
                             \/ (m = n /\ relay'[m] = f),
             IsUnicast(f) => Reaches(n, f.gateway, f.target),
             \A m \in Nodes : message'[m] \in {message[m], None}
      PROVE  FramesLead'
  BY <1>3, <1>1 DEF FramesLead, IsUnicast
<1>4. ASSUME \A m \in Nodes : relay'[m] \in {relay[m], None},
             \A m \in Nodes : message'[m] \in {message[m], None}
      PROVE  FramesLead'
  BY <1>4, <1>1 DEF FramesLead, IsUnicast
<1>5. ASSUME NEW n \in Nodes, RxOgm(n) PROVE FramesLead'
  <2> DEFINE r == [kind |-> "ogm", body |-> RelayedOgm(n, inbox[n].body)]
  <2>1. ~IsUnicast(r)
    BY DEF IsUnicast
  <2>2. \A m \in Nodes : relay'[m] \in {relay[m], None} \/ (m = n /\ relay'[m] = r)
    BY <1>5 DEF RxOgm, TypeOK
  <2> HIDE DEF r
  <2> QED
    BY <1>3, <1>5, <2>1, <2>2 DEF RxOgm
<1>6. ASSUME NEW n \in Nodes, RxUnicast(n) PROVE FramesLead'
  <2> DEFINE r == Readdressed(n, inbox[n])
  <2>1. CASE Rebroadcast(n, inbox[n])
    <3>1. inbox[n] \in Unicast
      BY <1>6, Kinds DEF RxUnicast, TypeOK
    <3>2. r.gateway = Gateway(table[n], r.target) /\ RoutePresent(table[n], r.target)
      BY <2>1, <3>1 DEF Readdressed, Rebroadcast, Unicast
    <3>3. Reaches(n, r.gateway, r.target)
      BY <1>2, <3>2
    <3>4. \A m \in Nodes : relay'[m] \in {relay[m], None} \/ (m = n /\ relay'[m] = r)
      BY <1>6, <2>1 DEF RxUnicast, TypeOK
    <3> HIDE DEF r
    <3> QED
      BY <1>3, <1>6, <3>3, <3>4 DEF RxUnicast
  <2>2. CASE ~Rebroadcast(n, inbox[n])
    <3>1. \A m \in Nodes : relay'[m] \in {relay[m], None}
      BY <1>6, <2>2 DEF RxUnicast, TypeOK
    <3> QED
      BY <1>4, <1>6, <3>1 DEF RxUnicast
  <2> QED
    BY <2>1, <2>2
<1>7. CASE BatmanTx(From, To)
  <2>1. From \in Nodes /\ Reaches(From, Gateway(table[From], To), To)
    BY <1>2, <1>7, MeshAssumption DEF BatmanTx, MeshAssumption
  <2>2. /\ message'[From].gateway = Gateway(table[From], To)
        /\ message'[From].target = To
        /\ \A m \in Nodes \ {From} : message'[m] = message[m]
        /\ relay' = relay
    BY <1>7, <2>1 DEF BatmanTx, TypeOK
  <2> QED
    BY <1>1, <2>1, <2>2 DEF FramesLead, IsUnicast
<1>8. ASSUME NEW n \in Nodes,
             OneSecondElapsed(n) \/ SendOgm(n) \/ Relay(n) \/ SendMessage(n) \/ Restart(n)
      PROVE  FramesLead'
  <2>1. /\ \A m \in Nodes : relay'[m] \in {relay[m], None}
        /\ \A m \in Nodes : message'[m] \in {message[m], None}
    BY <1>8 DEF TypeOK, OneSecondElapsed, SendOgm, Relay, SendMessage, Restart
  <2> QED
    BY <1>4, <2>1
<1>9. CASE UNCHANGED vars
  BY <1>4, <1>9 DEF vars
<1> QED
  BY <1>5, <1>6, <1>7, <1>8, <1>9 DEF Next, NodeStep

\* OGMs stay truthful from node to node.
LEMMA StepOgms ==
  Leads /\ [Next]_vars => OgmsHeardTruthful' /\ OgmsRelayedTruthful'
<1> SUFFICES ASSUME Leads, [Next]_vars
             PROVE  OgmsHeardTruthful' /\ OgmsRelayedTruthful'
    OBVIOUS
<1> USE DEF Leads
<1>0. links' = links
  BY LinksFixed
<1>1. ASSUME \A m \in Nodes : relay'[m] \in {relay[m], None} PROVE OgmsRelayedTruthful'
  BY <1>0, <1>1 DEF OgmsRelayedTruthful, IsOgm, Truthful, LeadsTo
<1>2. ASSUME \A m \in Nodes : inbox'[m] \in {inbox[m], None} PROVE OgmsHeardTruthful'
  BY <1>0, <1>2 DEF OgmsHeardTruthful, IsOgm, Truthful, LeadsTo
<1>3. ASSUME NEW n \in Nodes, SendOgm(n)
      PROVE  OgmsHeardTruthful' /\ OgmsRelayedTruthful'
  <2>1. OwnOgm(n) \in Frame /\ Truthful(OwnOgm(n).body) /\ OwnOgm(n).body.sender = n
    BY OwnOgmType, OwnOgmTruthful DEF Frame
  <2> QED
    BY <1>0, <1>1, <1>3, <2>1, AirTruthful DEF SendOgm
<1>4. ASSUME NEW n \in Nodes, RxOgm(n)
      PROVE  OgmsHeardTruthful' /\ OgmsRelayedTruthful'
  <2> DEFINE ogm == inbox[n].body
             r == RelayedOgm(n, ogm)
             f == [kind |-> "ogm", body |-> r]
  <2>1. ogm \in Ogm /\ IsOgm(inbox[n])
    BY <1>4, Kinds DEF RxOgm, TypeOK, IsOgm
  <2>2. Truthful(ogm) /\ <<ogm.sender, n>> \in links
    BY <2>1 DEF OgmsHeardTruthful
  <2>3. Relayed(n, ogm) => Truthful(r) /\ r.sender = n
    BY <2>1, <2>2, RelayedOgmTruthful
  <2>4. \A m \in Nodes : relay'[m] \in {relay[m], None}
                         \/ (m = n /\ relay'[m] = f /\ Relayed(n, ogm))
    BY <1>4 DEF RxOgm, TypeOK
  <2>5. f.body = r
    OBVIOUS
  <2> HIDE DEF f, r, ogm
  <2>6. OgmsRelayedTruthful'
    BY <1>0, <2>3, <2>4, <2>5 DEF OgmsRelayedTruthful, IsOgm, Truthful, LeadsTo
  <2>7. OgmsHeardTruthful'
    BY <1>2, <1>4 DEF RxOgm, TypeOK
  <2> QED
    BY <2>6, <2>7
<1>5. ASSUME NEW n \in Nodes, RxUnicast(n)
      PROVE  OgmsHeardTruthful' /\ OgmsRelayedTruthful'
  <2> DEFINE r == Readdressed(n, inbox[n])
  <2>1. ~IsOgm(r)
    <3>1. inbox[n] \in Unicast
      BY <1>5, Kinds DEF RxUnicast, TypeOK
    <3> QED
      BY <3>1 DEF Readdressed, IsOgm, Unicast
  <2>2. \A m \in Nodes : relay'[m] \in {relay[m], None, r}
    BY <1>5 DEF RxUnicast, TypeOK
  <2> HIDE DEF r
  <2>3. OgmsRelayedTruthful'
    BY <1>0, <2>1, <2>2 DEF OgmsRelayedTruthful, IsOgm, Truthful, LeadsTo
  <2>4. OgmsHeardTruthful'
    BY <1>2, <1>5 DEF RxUnicast, TypeOK
  <2> QED
    BY <2>3, <2>4
<1>6. ASSUME NEW n \in Nodes, Relay(n)
      PROVE  OgmsHeardTruthful' /\ OgmsRelayedTruthful'
  <2>1. relay[n] \in Frame /\ \A m \in Nodes : relay'[m] \in {relay[m], None}
    BY <1>6 DEF Relay, TypeOK
  <2>2. IsOgm(relay[n]) => Truthful(relay[n].body) /\ relay[n].body.sender = n
    BY DEF OgmsRelayedTruthful
  <2> QED
    BY <1>0, <1>1, <1>6, <2>1, <2>2, AirTruthful DEF Relay
<1>7. ASSUME NEW n \in Nodes, SendMessage(n)
      PROVE  OgmsHeardTruthful' /\ OgmsRelayedTruthful'
  <2>1. message[n] \in Unicast
    BY <1>7 DEF SendMessage, TypeOK
  <2>2. message[n] \in Frame /\ ~IsOgm(message[n])
    BY <2>1 DEF Frame, IsOgm, Unicast
  <2> QED
    BY <1>0, <1>1, <1>7, <2>2, AirTruthful DEF SendMessage
<1>8. CASE /\ \A m \in Nodes : relay'[m] \in {relay[m], None}
           /\ \A m \in Nodes : inbox'[m] \in {inbox[m], None}
  BY <1>1, <1>2, <1>8
<1>9. ASSUME NEW n \in Nodes, OneSecondElapsed(n) \/ Restart(n)
      PROVE  /\ \A m \in Nodes : relay'[m] \in {relay[m], None}
             /\ \A m \in Nodes : inbox'[m] \in {inbox[m], None}
  BY <1>9 DEF OneSecondElapsed, Restart, TypeOK
<1> QED
  BY <1>3, <1>4, <1>5, <1>6, <1>7, <1>8, <1>9 DEF vars, Next, NodeStep, BatmanTx

LEMMA StepLeads == Leads /\ [Next]_vars => Leads'
BY StepType, StepRoutes, StepFrames, StepOgms DEF Leads

\* Whatever the links, one-way ones among them, a node routes only through a
\* neighbour that hears it and from which there is a way to the target.
THEOREM RoutesAlwaysLead == Spec => []RoutesLead
<1>1. Leads => RoutesLead
  BY DEF Leads
<1> QED
  BY <1>1, InitLeads, StepLeads, PTL DEF Spec

\* So does every message that waits to be sent or sent on, though its route may
\* be gone by then.
THEOREM FramesAlwaysLead == Spec => []FramesLead
<1>1. Leads => FramesLead
  BY DEF Leads
<1> QED
  BY <1>1, InitLeads, StepLeads, PTL DEF Spec

-----------------------------------------------------------------------------
(* The message and its copies *)

\* All unicast frames are copies of From's message; only From sends it out, only
\* others relay it.
OneMessage ==
  \A n \in Nodes :
    /\ \A f \in {inbox[n], relay[n], message[n]} :
         IsUnicast(f) => accepted /\ f.originator = From
    /\ message[n] # None => n = From
    /\ IsUnicast(relay[n]) => n # From

Custodial == TypeOK /\ OneMessage

\* A copy, in the words of Custody.
CopyOf(n, place, l) == [at |-> n, place |-> place, left |-> l]

\* A node has one copy to send at most, and heard one at most.
LEMMA CopiesAt ==
  ASSUME NEW n \in Nodes
  PROVE  /\ message[n] # None /\ IsUnicast(message[n]) /\ ~IsUnicast(relay[n])
              => OutAt(n) = {CopyOf(n, "out", message[n].ttl)}
         /\ ~IsUnicast(message[n]) /\ IsUnicast(relay[n])
              => OutAt(n) = {CopyOf(n, "out", relay[n].ttl)}
         /\ ~IsUnicast(message[n]) /\ ~IsUnicast(relay[n]) => OutAt(n) = {}
         /\ ToPassOn(n, inbox[n]) => InAt(n) = {CopyOf(n, "in", inbox[n].ttl - 1)}
         /\ ~ToPassOn(n, inbox[n]) => InAt(n) = {}
BY DEF OutAt, InAt, CopyOf

\* The copies are told apart by their node and place.
LEMMA CopyIsAt ==
  /\ \A n \in Nodes : \A c \in OutAt(n) : c.at = n /\ c.place = "out"
  /\ \A n \in Nodes : \A c \in InAt(n) : c.at = n /\ c.place = "in"
BY DEF OutAt, InAt

LEMMA CopyIsAtNext ==
  /\ \A n \in Nodes : \A c \in OutAt(n)' : c.at = n /\ c.place = "out"
  /\ \A n \in Nodes : \A c \in InAt(n)' : c.at = n /\ c.place = "in"
BY DEF OutAt, InAt

\* What changes at one node changes Copies by so much.
LEMMA InChanges ==
  ASSUME NEW n \in Nodes, NEW m \in Nodes,
         \A k \in Nodes \ {n} : OutAt(k)' = OutAt(k),
         \A k \in Nodes \ {m} : InAt(k)' = InAt(k)
  PROVE  Copies' = ((Copies \ (OutAt(n) \union InAt(m))) \union OutAt(n)') \union InAt(m)'
<1>1. ASSUME NEW c, c \in Copies'
      PROVE  c \in ((Copies \ (OutAt(n) \union InAt(m))) \union OutAt(n)') \union InAt(m)'
  <2>1. PICK k \in Nodes : c \in OutAt(k)' \union InAt(k)'
    BY <1>1 DEF Copies
  <2>2. CASE (k = n /\ c \in OutAt(k)') \/ (k = m /\ c \in InAt(k)')
    BY <2>2
  <2>3. CASE (k # n /\ c \in OutAt(k)') \/ (k # m /\ c \in InAt(k)')
    <3>1. c \in OutAt(k) \union InAt(k) /\ c \in Copies
      BY <2>3 DEF Copies
    <3>2. c \notin OutAt(n) /\ c \notin InAt(m)
      BY <2>3, CopyIsAt, CopyIsAtNext
    <3> QED
      BY <3>1, <3>2
  <2> QED
    BY <2>1, <2>2, <2>3
<1>2. ASSUME NEW c, c \in Copies, c \notin OutAt(n), c \notin InAt(m) PROVE c \in Copies'
  <2>1. PICK k \in Nodes : c \in OutAt(k) \union InAt(k)
    BY <1>2 DEF Copies
  <2> QED
    BY <1>2, <2>1 DEF Copies
<1>3. OutAt(n)' \subseteq Copies' /\ InAt(m)' \subseteq Copies'
  BY DEF Copies
<1> QED
  BY <1>1, <1>2, <1>3

LEMMA OutChanges ==
  ASSUME NEW n \in Nodes,
         \A m \in Nodes \ {n} : OutAt(m)' = OutAt(m),
         \A m \in Nodes : InAt(m)' = InAt(m)
  PROVE  Copies' = (Copies \ OutAt(n)) \union OutAt(n)'
<1>1. Copies' = ((Copies \ (OutAt(n) \union InAt(n))) \union OutAt(n)') \union InAt(n)
  BY InChanges
<1>2. InAt(n) \subseteq Copies
  BY DEF Copies
<1>3. \A c \in InAt(n) : c \notin OutAt(n)
  BY CopyIsAt
<1> QED
  BY <1>1, <1>2, <1>3

LEMMA CopiesSame ==
  ASSUME \A m \in Nodes : OutAt(m)' = OutAt(m) /\ InAt(m)' = InAt(m)
  PROVE  Copies' = Copies
BY DEF Copies

\* Where there is none, there is room for one.
LEMMA Room ==
  ASSUME NEW n \in Nodes
  PROVE  /\ OutAt(n) = {} => C!Free(n, "out")
         /\ InAt(n) = {} => C!Free(n, "in")
BY CopyIsAt DEF C!Free, Copies

\* Frames that are no unicast frames are no copies.
LEMMA NotCopied ==
  ASSUME NEW n \in Nodes
  PROVE  /\ message'[n] = message[n] /\ relay'[n] = relay[n] => OutAt(n)' = OutAt(n)
         /\ message'[n] = message[n] /\ ~IsUnicast(relay[n]) /\ ~IsUnicast(relay'[n])
              => OutAt(n)' = OutAt(n)
         /\ inbox'[n] = inbox[n] => InAt(n)' = InAt(n)
         /\ ~ToPassOn(n, inbox[n]) /\ ~ToPassOn(n, inbox'[n]) => InAt(n)' = InAt(n)
BY DEF OutAt, InAt

\* A step that loses unicast frames, or brings one that is the message.
LEMMA StaysMessage ==
  ASSUME Custodial, accepted' = accepted, NEW f,
         IsUnicast(f) => accepted /\ f.originator = From,
         \A m \in Nodes : /\ inbox'[m] \in {inbox[m], None, f}
                          /\ \/ relay'[m] \in {relay[m], None}
                             \/ relay'[m] = f /\ m # From
                          /\ message'[m] \in {message[m], None}
  PROVE  OneMessage'
<1>1. ~IsUnicast(None)
  BY DEF IsUnicast
<1>2. ASSUME NEW m \in Nodes
      PROVE  /\ IsUnicast(inbox'[m]) => accepted /\ inbox'[m].originator = From
             /\ IsUnicast(relay'[m]) => accepted /\ relay'[m].originator = From /\ m # From
             /\ IsUnicast(message'[m]) => accepted /\ message'[m].originator = From
             /\ message'[m] # None => m = From
  BY <1>1 DEF Custodial, OneMessage
<1> QED
  BY <1>2 DEF OneMessage, IsUnicast

\* A frame goes out with the message: its gateway may hear it, and the sender is
\* told so or is not.
LEMMA Sends ==
  ASSUME Custodial, NEW n \in Nodes, NEW f \in Unicast, Air(n, f),
         f.originator = From, accepted,
         OutAt(n) = {CopyOf(n, "out", f.ttl)},
         \A m \in Nodes \ {n} : OutAt(m)' = OutAt(m),
         \/ PtEnded /\ OutAt(n)' = {}
         \/ PtEndedTaken /\ OutAt(n)' = OutAt(n),
         UNCHANGED <<links, config_ttl, accepted>>
  PROVE  C!Next
<1> DEFINE c == CopyOf(n, "out", f.ttl)
           h(m) == CopyOf(m, "in", f.ttl - 1)
           Takes(m) == /\ InAt(m) = {} /\ InAt(m)' = {h(m)} /\ m = f.gateway
                       /\ f.ttl > 0 /\ m # From /\ <<n, m>> \in links
<1>1. c \in Copies
  BY DEF Copies
<1>2. \A m \in Nodes : InAt(m)' = InAt(m) \/ Takes(m)
  <2> SUFFICES ASSUME NEW m \in Nodes PROVE InAt(m)' = InAt(m) \/ Takes(m)
      OBVIOUS
  <2>1. CASE inbox'[m] = inbox[m]
    BY <2>1, NotCopied
  <2>2. CASE inbox[m] = None /\ inbox'[m] = f /\ <<n, m>> \in links
    <3>1. ~ToPassOn(m, inbox[m])
      BY <2>2 DEF ToPassOn, IsUnicast
    <3>2. CASE ToPassOn(m, f)
      <4>1. InAt(m) = {} /\ InAt(m)' = {h(m)}
        BY <2>2, <3>1, <3>2 DEF InAt, CopyOf
      <4> QED
        BY <2>2, <3>2, <4>1 DEF ToPassOn
    <3>3. CASE ~ToPassOn(m, f)
      BY <2>2, <3>1, <3>3, NotCopied
    <3> QED
      BY <3>2, <3>3
  <2> QED
    BY <2>1, <2>2, AirReaches DEF Custodial, Frame
<1>3. CASE \A m \in Nodes : InAt(m)' = InAt(m)
  <2>1. Copies' = (Copies \ {c}) \union OutAt(n)'
    BY <1>3, OutChanges
  <2>2. CASE PtEnded /\ OutAt(n)' = {}
    <3>1. C!End
      BY <1>1, <2>1, <2>2 DEF C!End, PtEnded
    <3> QED
      BY <3>1 DEF C!Next
  <2>3. CASE PtEndedTaken /\ OutAt(n)' = OutAt(n)
    <3>1. Copies' = Copies
      BY <1>1, <2>1, <2>3
    <3>2. C!Theft
      BY <2>3, <3>1 DEF C!Theft, PtEndedTaken
    <3> QED
      BY <3>2 DEF C!Next
  <2> QED
    BY <2>2, <2>3
<1>4. CASE \E m \in Nodes : InAt(m)' # InAt(m)
  <2>1. PICK m \in Nodes : Takes(m)
    BY <1>2, <1>4
  <2>2. \A k \in Nodes \ {m} : InAt(k)' = InAt(k)
    BY <1>2, <2>1
  <2>3. Copies' = ((Copies \ {c}) \union OutAt(n)') \union {h(m)}
    BY <2>1, <2>2, InChanges
  <2>4. C!Hears(c, m) /\ C!Heard(c, m) = h(m)
    BY <2>1, Room DEF C!Hears, C!Heard, C!Copy, CopyOf
  <2> HIDE DEF c, h
  <2>5. CASE PtEnded /\ OutAt(n)' = {}
    <3>1. C!Pass(c, m)
      BY <2>3, <2>4, <2>5 DEF C!Pass, PtEnded
    <3> QED
      BY <1>1, <3>1 DEF C!Next
  <2>6. CASE PtEndedTaken /\ OutAt(n)' = OutAt(n)
    <3>1. Copies' = Copies \union {h(m)}
      BY <1>1, <2>3, <2>6 DEF c
    <3>2. C!Theft
      BY <1>1, <2>4, <2>6, <3>1 DEF C!Theft, PtEndedTaken
    <3> QED
      BY <3>2 DEF C!Next
  <2> QED
    BY <2>5, <2>6
<1> QED
  BY <1>3, <1>4

\* One step per action: the message is taken once, its copies change hands or
\* end; all the rest leaves them where they are.
LEMMA StepCustody ==
  Custodial /\ [Next]_vars => OneMessage' /\ [C!Next]_(C!vars)
<1> SUFFICES ASSUME Custodial, [Next]_vars
             PROVE  OneMessage' /\ [C!Next]_(C!vars)
    OBVIOUS
<1> DEFINE Goal == OneMessage' /\ [C!Next]_(C!vars)
<1>1. TypeOK /\ TypeOK'
  BY StepType DEF Custodial
<1>2. ~IsUnicast(None) /\ \A n : ~ToPassOn(n, None)
  BY DEF IsUnicast, ToPassOn
<1>3. links' = links /\ config_ttl' = config_ttl
  BY DEF vars, fixed, Next, NodeStep, OneSecondElapsed, SendOgm, RxOgm, RxUnicast,
         Relay, SendMessage, Restart, BatmanTx
<1>4. \A n \in Nodes : IsUnicast(message[n]) <=> message[n] # None
  BY <1>1, Kinds DEF TypeOK, IsUnicast, Unicast
<1>5. ASSUME thefts' = thefts, accepted' = accepted, Copies' = Copies
      PROVE  UNCHANGED C!vars
  BY <1>3, <1>5 DEF C!vars
<1>6. ASSUME NEW n \in Nodes, NEW f \in Frame, ~IsUnicast(f), Air(n, f)
      PROVE  \A m \in Nodes : InAt(m)' = InAt(m)
  <2>1. \A m \in Nodes : \/ inbox'[m] = inbox[m]
                         \/ ~ToPassOn(m, inbox[m]) /\ ~ToPassOn(m, inbox'[m])
    BY <1>1, <1>2, <1>6, AirReaches DEF ToPassOn
  <2> QED
    BY <2>1, NotCopied
<1>7. ASSUME NEW n \in Nodes, SendOgm(n) PROVE Goal
  <2>1. OwnOgm(n) \in Frame /\ ~IsUnicast(OwnOgm(n))
    BY <1>1, OwnOgmType DEF Frame, OwnOgm, IsUnicast
  <2>2. \A m \in Nodes : inbox'[m] \in {inbox[m], OwnOgm(n)}
    BY <1>1, <1>7, <2>1, AirReaches DEF SendOgm
  <2>3. OneMessage'
    BY <1>7, <2>1, <2>2, StaysMessage DEF SendOgm
  <2>4. Copies' = Copies
    BY <1>6, <1>7, <2>1, NotCopied, CopiesSame DEF SendOgm
  <2>5. CASE PtEnded
    BY <1>5, <1>7, <2>3, <2>4, <2>5 DEF SendOgm, PtEnded
  <2>6. CASE PtEndedTaken
    <3>1. C!Theft
      BY <1>3, <1>7, <2>4, <2>6 DEF SendOgm, PtEndedTaken, C!Theft
    <3> QED
      BY <2>3, <3>1 DEF C!Next
  <2> QED
    BY <1>7, <2>5, <2>6 DEF SendOgm
<1>8. ASSUME NEW n \in Nodes, RxOgm(n) PROVE Goal
  <2> DEFINE r == [kind |-> "ogm", body |-> RelayedOgm(n, inbox[n].body)]
  <2>1. ~IsUnicast(r) /\ ~IsUnicast(inbox[n]) /\ ~IsUnicast(relay[n])
    BY <1>2, <1>8 DEF RxOgm, IsUnicast
  <2>2. /\ inbox'[n] = None /\ relay'[n] \in {None, r}
        /\ \A m \in Nodes \ {n} : inbox'[m] = inbox[m] /\ relay'[m] = relay[m]
        /\ message' = message /\ accepted' = accepted /\ thefts' = thefts
    BY <1>1, <1>8 DEF RxOgm, TypeOK
  <2> HIDE DEF r
  <2>3. OneMessage'
    <3>1. ASSUME NEW m \in Nodes
          PROVE  /\ IsUnicast(inbox'[m]) => inbox'[m] = inbox[m]
                 /\ IsUnicast(relay'[m]) => relay'[m] = relay[m]
      BY <1>2, <2>1, <2>2
    <3> QED
      BY <2>2, <3>1 DEF Custodial, OneMessage, IsUnicast
  <2>4. Copies' = Copies
    <3>1. ~ToPassOn(n, inbox[n])
      BY <2>1 DEF ToPassOn
    <3>2. \A m \in Nodes : OutAt(m)' = OutAt(m) /\ InAt(m)' = InAt(m)
      BY <1>2, <2>1, <2>2, <3>1, NotCopied
    <3> QED
      BY <3>2, CopiesSame
  <2> QED
    BY <1>5, <2>2, <2>3, <2>4
<1>9. ASSUME NEW n \in Nodes, Relay(n) PROVE Goal
  <2>1. /\ relay[n] \in Frame /\ relay'[n] \in {relay[n], None}
        /\ \A m \in Nodes \ {n} : relay'[m] = relay[m]
        /\ message' = message /\ accepted' = accepted
    BY <1>1, <1>9 DEF Relay, TypeOK
  <2>2. OneMessage'
    <3>1. IsUnicast(relay[n]) => accepted /\ relay[n].originator = From
      BY DEF Custodial, OneMessage
    <3>2. \A m \in Nodes : inbox'[m] \in {inbox[m], relay[n]}
      BY <1>1, <1>9, <2>1, AirReaches DEF Relay
    <3> QED
      BY <2>1, <3>1, <3>2, StaysMessage
  <2>3. CASE ~IsUnicast(relay[n])
    <3>1. ~IsUnicast(relay'[n]) /\ thefts' = thefts
      BY <1>2, <1>9, <2>1, <2>3 DEF Relay, PtEnded
    <3>2. Copies' = Copies
      BY <1>6, <1>9, <2>1, <2>3, <3>1, NotCopied, CopiesSame DEF Relay
    <3> QED
      BY <1>5, <2>1, <2>2, <3>1, <3>2
  <2>4. CASE IsUnicast(relay[n])
    <3>1. /\ relay[n] \in Unicast /\ relay[n].originator = From /\ accepted
          /\ message[n] = None
      BY <2>1, <2>4, Kinds DEF Custodial, OneMessage
    <3>2. OutAt(n) = {CopyOf(n, "out", relay[n].ttl)}
      BY <1>2, <2>4, <3>1, CopiesAt
    <3>3. \A m \in Nodes \ {n} : OutAt(m)' = OutAt(m)
      BY <2>1, NotCopied
    <3>4. \/ PtEnded /\ OutAt(n)' = {}
          \/ PtEndedTaken /\ OutAt(n)' = OutAt(n)
      <4>1. CASE PtEnded /\ relay' = [relay EXCEPT ![n] = None]
        <5>1. relay'[n] = None /\ message'[n] = None
          BY <1>1, <2>1, <3>1, <4>1 DEF TypeOK
        <5> QED
          BY <1>2, <4>1, <5>1 DEF OutAt
      <4>2. CASE PtEndedTaken /\ UNCHANGED relay
        BY <2>1, <4>2, NotCopied
      <4> QED
        BY <1>9, <4>1, <4>2 DEF Relay
    <3> QED
      BY <1>3, <1>9, <2>1, <2>2, <3>1, <3>2, <3>3, <3>4, Sends DEF Relay
  <2> QED
    BY <2>3, <2>4
<1>10. ASSUME NEW n \in Nodes, SendMessage(n) PROVE Goal
  <2>1. /\ message[n] \in Unicast /\ IsUnicast(message[n])
        /\ relay' = relay /\ accepted' = accepted
    BY <1>1, <1>4, <1>10 DEF SendMessage, TypeOK
  <2>2. n = From /\ accepted /\ message[n].originator = From /\ ~IsUnicast(relay[n])
    BY <2>1 DEF Custodial, OneMessage, IsUnicast
  <2>3. message[n] # None /\ \A m \in Nodes : message'[m] \in {message[m], None}
    BY <1>1, <1>10 DEF SendMessage, TypeOK
  <2>4. OneMessage'
    <3>1. \A m \in Nodes : inbox'[m] \in {inbox[m], message[n]}
      BY <1>1, <1>10, <2>1, AirReaches DEF SendMessage, Frame
    <3> QED
      BY <2>1, <2>2, <2>3, <3>1, StaysMessage
  <2>5. OutAt(n) = {CopyOf(n, "out", message[n].ttl)}
    BY <2>1, <2>2, <2>3, CopiesAt
  <2>6. \A m \in Nodes \ {n} : OutAt(m)' = OutAt(m)
    <3>1. \A m \in Nodes \ {n} : message'[m] = message[m]
      BY <1>1, <1>10 DEF SendMessage, TypeOK
    <3> QED
      BY <2>1, <3>1, NotCopied
  <2>7. \/ PtEnded /\ OutAt(n)' = {}
        \/ PtEndedTaken /\ OutAt(n)' = OutAt(n)
    <3>1. CASE PtEnded /\ message' = [message EXCEPT ![n] = None]
      <4>1. message'[n] = None /\ ~IsUnicast(relay'[n])
        BY <1>1, <2>1, <2>2, <3>1 DEF TypeOK
      <4> QED
        BY <1>2, <3>1, <4>1 DEF OutAt
    <3>2. CASE PtEndedTaken /\ UNCHANGED message
      BY <2>1, <3>2, NotCopied
    <3> QED
      BY <1>10, <3>1, <3>2 DEF SendMessage
  <2> QED
    BY <1>3, <1>10, <2>1, <2>2, <2>4, <2>5, <2>6, <2>7, Sends DEF SendMessage
<1>11. ASSUME NEW n \in Nodes, RxUnicast(n) PROVE Goal
  <2> DEFINE f == inbox[n]
             r == Readdressed(n, f)
  <2>1. f \in Unicast /\ IsUnicast(f) /\ ~IsUnicast(relay[n])
    BY <1>1, <1>2, <1>11, Kinds DEF RxUnicast, TypeOK
  <2>2. /\ inbox'[n] = None /\ message' = message
        /\ accepted' = accepted /\ thefts' = thefts
        /\ \A m \in Nodes \ {n} : inbox'[m] = inbox[m] /\ relay'[m] = relay[m]
    BY <1>1, <1>11 DEF RxUnicast, TypeOK
  <2>3. f.originator = From /\ accepted
    BY <2>1 DEF Custodial, OneMessage
  <2>4. /\ InAt(n)' = {}
        /\ \A m \in Nodes \ {n} : OutAt(m)' = OutAt(m) /\ InAt(m)' = InAt(m)
    <3>1. InAt(n)' = {}
      BY <1>2, <2>2 DEF InAt
    <3> QED
      BY <2>2, <3>1, NotCopied
  <2>5. CASE ~Rebroadcast(n, f)
    <3>1. relay'[n] = None
      BY <1>1, <1>11, <2>5 DEF RxUnicast, TypeOK
    <3>2. OneMessage'
      BY <1>2, <2>2, <3>1, StaysMessage
    <3>3. OutAt(n)' = OutAt(n)
      BY <1>2, <2>1, <2>2, <3>1, NotCopied
    <3>4. Copies' = ((Copies \ (OutAt(n) \union InAt(n))) \union OutAt(n)) \union {}
      BY <2>4, <3>3, InChanges
    <3>5. OutAt(n) \subseteq Copies
      BY DEF Copies
    <3>6. Copies' = Copies \/ C!End
      BY <1>3, <2>2, <3>4, <3>5 DEF C!End
    <3> QED
      BY <1>5, <2>2, <3>2, <3>6 DEF C!Next
  <2>6. CASE Rebroadcast(n, f)
    <3> DEFINE c == CopyOf(n, "in", f.ttl - 1)
               d == CopyOf(n, "out", f.ttl - 1)
    <3>1. ToPassOn(n, f) /\ n # From
      BY <2>1, <2>3, <2>6 DEF Rebroadcast, ToPassOn
    <3>2. /\ r \in Unicast /\ r.ttl = f.ttl - 1 /\ r.originator = f.originator
      BY <1>1, <2>1, <2>6, ReaddressedType DEF Readdressed, Unicast
    <3>3. relay'[n] = r
      BY <1>1, <1>11, <2>6 DEF RxUnicast, TypeOK
    <3> HIDE DEF r
    <3>4. IsUnicast(r)
      BY <3>2, MeshAssumption DEF MeshAssumption, Frame, Unicast, IsUnicast
    <3>5. message[n] = None
      BY <3>1 DEF Custodial, OneMessage
    <3>6. OneMessage'
      BY <1>2, <2>2, <2>3, <3>1, <3>2, <3>3, StaysMessage
    <3>7. OutAt(n) = {} /\ InAt(n) = {c}
      BY <1>2, <2>1, <3>1, <3>5, CopiesAt
    <3>8. OutAt(n)' = {d}
      <4>1. message'[n] = None
        BY <2>2, <3>5
      <4>2. {g \in {message'[n], relay'[n]} : IsUnicast(g)} = {r}
        BY <1>2, <3>3, <3>4, <4>1
      <4> QED
        BY <3>2, <4>2 DEF OutAt, CopyOf
    <3>9. Copies' = (Copies \ {c}) \union {d}
      <4>1. Copies' = ((Copies \ ({} \union {c})) \union {d}) \union {}
        BY <2>4, <3>7, <3>8, InChanges
      <4> QED
        BY <4>1
    <3>10. c \in Copies
      BY <3>7 DEF Copies
    <3>11. c.at = n /\ c.place = "in" /\ C!Copy(n, "out", c.left) = d
      BY DEF CopyOf, C!Copy
    <3> HIDE DEF c, d
    <3>12. C!Take(c)
      BY <1>3, <2>2, <3>7, <3>9, <3>11, Room DEF C!Take
    <3> QED
      BY <3>6, <3>10, <3>12 DEF C!Next
  <2> QED
    BY <2>5, <2>6
<1>12. ASSUME NEW n \in Nodes, OneSecondElapsed(n) PROVE Goal
  <2>1. OneMessage'
    BY <1>12, StaysMessage, <1>2 DEF OneSecondElapsed
  <2>2. Copies' = Copies
    BY <1>12, NotCopied, CopiesSame DEF OneSecondElapsed
  <2> QED
    BY <1>5, <1>12, <2>1, <2>2 DEF OneSecondElapsed
<1>13. ASSUME NEW n \in Nodes, Restart(n) PROVE Goal
  <2>1. /\ message'[n] = None /\ relay'[n] = None /\ inbox'[n] = None
        /\ \A m \in Nodes \ {n} : /\ message'[m] = message[m]
                                  /\ relay'[m] = relay[m] /\ inbox'[m] = inbox[m]
        /\ accepted' = accepted /\ thefts' = thefts
    BY <1>1, <1>13 DEF Restart, TypeOK
  <2>2. OneMessage'
    BY <1>2, <2>1, StaysMessage
  <2>3. OutAt(n)' = {} /\ InAt(n)' = {}
    BY <1>2, <2>1 DEF OutAt, InAt
  <2>4. Copies' = ((Copies \ (OutAt(n) \union InAt(n))) \union {}) \union {}
    BY <2>1, <2>3, NotCopied, InChanges
  <2>5. Copies' = Copies \/ C!End
    BY <1>3, <2>1, <2>4 DEF C!End
  <2> QED
    BY <1>5, <2>1, <2>2, <2>5 DEF C!Next
<1>14. CASE BatmanTx(From, To)
  <2> DEFINE f == [kind |-> "unicast", originator |-> From, target |-> To,
                   sender |-> From, gateway |-> Gateway(table[From], To),
                   ttl |-> config_ttl]
  <2>1. From \in Nodes
    BY MeshAssumption DEF MeshAssumption
  <2>2. /\ ~accepted /\ accepted' /\ inbox' = inbox /\ relay' = relay /\ thefts' = thefts
        /\ message'[From] = f /\ \A m \in Nodes \ {From} : message'[m] = message[m]
    BY <1>1, <1>14, <2>1 DEF BatmanTx, TypeOK
  <2>3. f # None /\ IsUnicast(f) /\ f.originator = From /\ f.ttl = config_ttl
    <3>1. f \in Unicast
      <4>1. Gateway(table[From], To) \in Nodes /\ To \in Nodes
        BY <1>1, <1>14, <2>1, GatewayIsRoute, MeshAssumption DEF BatmanTx, MeshAssumption
      <4> QED
        BY <1>1, <2>1, <4>1 DEF Unicast, TypeOK
    <3> QED
      BY <3>1, MeshAssumption DEF MeshAssumption, Frame, IsUnicast
  <2> HIDE DEF f
  <2>4. \A m \in Nodes : /\ ~IsUnicast(inbox[m]) /\ ~IsUnicast(relay[m])
                         /\ ~IsUnicast(message[m]) /\ message[m] = None
    BY <1>4, <2>2 DEF Custodial, OneMessage
  <2>5. OneMessage'
    <3>1. ASSUME NEW m \in Nodes
          PROVE  /\ ~IsUnicast(inbox'[m]) /\ ~IsUnicast(relay'[m])
                 /\ IsUnicast(message'[m]) => message'[m].originator = From
                 /\ message'[m] # None => m = From
      BY <2>2, <2>3, <2>4 DEF IsUnicast
    <3> QED
      BY <2>2, <3>1 DEF OneMessage
  <2>6. \A m \in Nodes : OutAt(m) = {} /\ InAt(m) = {} /\ InAt(m)' = InAt(m)
    BY <2>2, <2>4, CopiesAt, NotCopied DEF ToPassOn
  <2>7. OutAt(From)' = {CopyOf(From, "out", config_ttl)}
    <3>1. {g \in {message'[From], relay'[From]} : IsUnicast(g)} = {f}
      BY <2>1, <2>2, <2>3, <2>4
    <3> QED
      BY <2>3, <3>1 DEF OutAt, CopyOf
  <2>8. \A m \in Nodes \ {From} : OutAt(m)' = OutAt(m)
    BY <2>2, NotCopied
  <2>9. Copies' = (Copies \ {}) \union {CopyOf(From, "out", config_ttl)}
    BY <2>1, <2>6, <2>7, <2>8, OutChanges
  <2>10. Copies = {}
    BY <2>6 DEF Copies
  <2>11. C!Accept
    BY <1>3, <2>2, <2>9, <2>10 DEF C!Accept, C!Copy, CopyOf
  <2> QED
    BY <2>5, <2>11 DEF C!Next
<1>15. CASE UNCHANGED vars
  <2>1. OneMessage'
    BY <1>2, <1>15, StaysMessage DEF vars
  <2>2. Copies' = Copies
    BY <1>15, NotCopied, CopiesSame DEF vars
  <2> QED
    BY <1>5, <1>15, <2>1, <2>2 DEF vars
<1> QED
  BY <1>7, <1>8, <1>9, <1>10, <1>11, <1>12, <1>13, <1>14, <1>15 DEF Next, NodeStep

LEMMA InitCustody == Init => Custodial /\ C!Init
<1> SUFFICES ASSUME Init PROVE Custodial /\ C!Init
    OBVIOUS
<1>1. TypeOK
  BY InitType
<1>2. OneMessage
  BY DEF Init, OneMessage, IsUnicast
<1>3. Copies = {}
  BY DEF Init, Copies, OutAt, InAt, ToPassOn, IsUnicast
<1>4. C!Init
  BY <1>1, <1>3 DEF Init, TypeOK, C!Init
<1> QED
  BY <1>1, <1>2, <1>4 DEF Custodial

\* Whoever overhears it, the message has one copy on its way and one more at most
\* for each time a caller of llc_tx is not told that its frame left; a copy moves
\* over links only, and is passed on no more often than its ttl allows.
THEOREM MessageInCustody == Spec => ImplementsCustody
<1>1. Custodial /\ [Next]_vars => Custodial' /\ [C!Next]_(C!vars)
  BY StepType, StepCustody DEF Custodial
<1> QED
  BY <1>1, InitCustody, PTL DEF Spec, ImplementsCustody, C!Spec

-----------------------------------------------------------------------------
(* How many copies there are, and how far they get *)

Few == IsFiniteSet(Copies) /\ thefts \in Nat
Near == config_ttl \in Nat /\ \A c \in Copies : c.left \in 0 .. config_ttl

\* Each new copy comes from one that was there: it is where that one was, with
\* as many hops left, or heard it and has one less; and a copy more costs a
\* theft.  So once nobody has the message nobody has it again.
CopiesAdvance ==
  /\ \A c \in Copies' \ Copies : \E d \in Copies :
       \/ c.at = d.at /\ c.left = d.left
       \/ <<d.at, c.at>> \in links /\ c.left = d.left - 1
  /\ Cardinality(Copies') + thefts' <= Cardinality(Copies) + thefts
MessageAdvances == [][accepted => CopiesAdvance]_vars

\* One copy for another.
LEMMA OneForOne ==
  ASSUME NEW S, IsFiniteSet(S), NEW c \in S, NEW d
  PROVE  /\ IsFiniteSet((S \ {c}) \union {d})
         /\ Cardinality((S \ {c}) \union {d}) <= Cardinality(S)
<1>1. IsFiniteSet(S \ {c}) /\ Cardinality(S \ {c}) = Cardinality(S) - 1
  BY FS_RemoveElement
<1>2. Cardinality(S \ {c}) \in Nat /\ Cardinality(S) \in Nat
  BY <1>1, FS_CardinalityType
<1>3. /\ IsFiniteSet((S \ {c}) \union {d})
      /\ Cardinality((S \ {c}) \union {d}) \in {Cardinality(S \ {c}), Cardinality(S \ {c}) + 1}
  BY <1>1, FS_AddElement
<1> QED
  BY <1>1, <1>2, <1>3

LEMMA StepAdvances ==
  ASSUME Few, Near, [C!Next]_(C!vars)
  PROVE  Few' /\ Near' /\ (accepted => CopiesAdvance)
<1> DEFINE Goal == Few' /\ Near' /\ (accepted => CopiesAdvance)
<1>1. Cardinality(Copies) \in Nat
  BY FS_CardinalityType DEF Few
<1>2. CASE C!Accept
  <2>1. Copies' = {C!Copy(From, "out", config_ttl)}
    BY <1>2 DEF C!Accept
  <2>2. IsFiniteSet(Copies')
    BY <2>1, FS_Singleton
  <2> QED
    BY <1>2, <2>1, <2>2 DEF C!Accept, C!Copy, Few, Near
<1>3. CASE C!End
  <2>1. Copies' \subseteq Copies
    BY <1>3 DEF C!End
  <2>2. IsFiniteSet(Copies') /\ Cardinality(Copies') <= Cardinality(Copies)
    BY <2>1, FS_Subset DEF Few
  <2>3. Cardinality(Copies') \in Nat
    BY <2>2, FS_CardinalityType
  <2> QED
    BY <1>1, <1>3, <2>1, <2>2, <2>3 DEF C!End, Few, Near, CopiesAdvance
<1>4. ASSUME NEW c \in Copies, C!Take(c) PROVE Goal
  <2> DEFINE d == C!Copy(c.at, "out", c.left)
  <2>1. /\ Copies' = (Copies \ {c}) \union {d}
        /\ UNCHANGED <<links, config_ttl, thefts, accepted>>
    BY <1>4 DEF C!Take
  <2>2. d.at = c.at /\ d.left = c.left
    BY DEF C!Copy
  <2> HIDE DEF d
  <2>3. IsFiniteSet(Copies') /\ Cardinality(Copies') <= Cardinality(Copies)
    BY <2>1, OneForOne DEF Few
  <2>4. Cardinality(Copies') \in Nat
    BY <2>3, FS_CardinalityType
  <2> QED
    BY <1>1, <2>1, <2>2, <2>3, <2>4 DEF Few, Near, CopiesAdvance
<1>5. ASSUME NEW c \in Copies, NEW m \in Nodes, C!Hears(c, m)
      PROVE  /\ C!Heard(c, m).at = m /\ C!Heard(c, m).left = c.left - 1
             /\ <<c.at, m>> \in links
             /\ c.left - 1 \in 0 .. config_ttl
  BY <1>5 DEF C!Hears, C!Heard, C!Copy, Near
<1>6. ASSUME NEW c \in Copies, NEW m \in Nodes, C!Pass(c, m) PROVE Goal
  <2> DEFINE d == C!Heard(c, m)
  <2>1. /\ Copies' = (Copies \ {c}) \union {d} /\ C!Hears(c, m)
        /\ UNCHANGED <<links, config_ttl, thefts, accepted>>
    BY <1>6 DEF C!Pass
  <2>2. /\ d.at = m /\ d.left = c.left - 1
        /\ <<c.at, m>> \in links /\ c.left - 1 \in 0 .. config_ttl
    BY <1>5, <2>1
  <2> HIDE DEF d
  <2>3. IsFiniteSet(Copies') /\ Cardinality(Copies') <= Cardinality(Copies)
    BY <2>1, OneForOne DEF Few
  <2>4. Cardinality(Copies') \in Nat
    BY <2>3, FS_CardinalityType
  <2> QED
    BY <1>1, <2>1, <2>2, <2>3, <2>4 DEF Few, Near, CopiesAdvance
<1>7. CASE C!Theft
  <2>1. /\ thefts > 0 /\ thefts' = thefts - 1
        /\ UNCHANGED <<links, config_ttl, accepted>>
    BY <1>7 DEF C!Theft
  <2>2. CASE Copies' = Copies
    BY <1>1, <2>1, <2>2 DEF Few, Near, CopiesAdvance
  <2>3. ASSUME NEW c \in Copies, NEW m \in Nodes, C!Hears(c, m),
               Copies' = Copies \union {C!Heard(c, m)}
        PROVE  Goal
    <3> DEFINE d == C!Heard(c, m)
    <3>1. /\ d.at = m /\ d.left = c.left - 1
          /\ <<c.at, m>> \in links /\ c.left - 1 \in 0 .. config_ttl
      BY <1>5, <2>3
    <3> HIDE DEF d
    <3>2. Copies' = Copies \union {d}
      BY <2>3 DEF d
    <3>3. /\ IsFiniteSet(Copies')
          /\ Cardinality(Copies') \in {Cardinality(Copies), Cardinality(Copies) + 1}
      BY <3>2, FS_AddElement DEF Few
    <3> QED
      BY <1>1, <2>1, <3>1, <3>2, <3>3 DEF Few, Near, CopiesAdvance
  <2> QED
    BY <1>7, <2>2, <2>3 DEF C!Theft
<1>8. CASE UNCHANGED C!vars
  BY <1>1, <1>8 DEF C!vars, Few, Near, CopiesAdvance
<1> QED
  BY <1>2, <1>3, <1>4, <1>6, <1>7, <1>8 DEF C!Next

LEMMA InitAdvances == C!Init => Few /\ Near
BY FS_EmptySet DEF C!Init, Few, Near

\* The safety half of FloodEnds, for a message: each copy is passed on CONFIG_TTL
\* times at most, in whatever circles its gateways lead, and there are no more of
\* them than one and the thefts; a message that is gone does not come back.
THEOREM MessageIsFinite ==
  Spec => [](\A c \in Copies : c.left \in 0 .. config_ttl) /\ MessageAdvances
<1>1. Few /\ Near /\ [C!Next]_(C!vars) => Few' /\ Near'
  BY StepAdvances
<1>2. Few /\ Near /\ [C!Next]_(C!vars) => [accepted => CopiesAdvance]_vars
  BY StepAdvances
<1>3. Near => \A c \in Copies : c.left \in 0 .. config_ttl
  BY DEF Near
<1> QED
  BY <1>1, <1>2, <1>3, InitAdvances, MessageInCustody, PTL
     DEF ImplementsCustody, C!Spec, MessageAdvances

\* While every caller of llc_tx is told when its own frame left, there is one
\* copy of the message at most.
OneCopy == \A c, d \in Copies : c = d
THEOREM UndisturbedIsOne == Spec /\ [][PtEnded]_vars => []OneCopy
<1> DEFINE Once == OneCopy /\ thefts \in Nat
<1>1. C!Init => Once
  BY DEF C!Init, OneCopy
<1>2. ASSUME Once, [C!Next]_(C!vars), [PtEnded]_vars PROVE Once'
  <2>1. CASE C!Accept
    BY <1>2, <2>1 DEF C!Accept, OneCopy
  <2>2. CASE C!End
    BY <1>2, <2>2 DEF C!End, OneCopy
  <2>3. ASSUME NEW c \in Copies, C!Take(c) PROVE Once'
    BY <1>2, <2>3 DEF C!Take, OneCopy
  <2>4. ASSUME NEW c \in Copies, NEW m \in Nodes, C!Pass(c, m) PROVE Once'
    BY <1>2, <2>4 DEF C!Pass, OneCopy
  <2>5. ~C!Theft
    <3>1. thefts' = thefts
      BY <1>2 DEF PtEnded, vars
    <3> QED
      BY <1>2, <3>1 DEF C!Theft
  <2>6. CASE UNCHANGED C!vars
    BY <1>2, <2>6 DEF C!vars, OneCopy
  <2> QED
    BY <1>2, <2>1, <2>2, <2>3, <2>4, <2>5, <2>6 DEF C!Next
<1>3. Once => OneCopy
  OBVIOUS
<1> HIDE DEF Once
<1> QED
  BY <1>1, <1>2, <1>3, MessageInCustody, PTL DEF ImplementsCustody, C!Spec
=============================================================================
