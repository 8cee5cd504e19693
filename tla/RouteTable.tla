----------------------------- MODULE RouteTable -----------------------------
(***************************************************************************)
(* The routing table of batman.c and what the node does to it and with it  *)
(* when an OGM or a unicast frame comes in.  The linked list is a sequence,*)
(* head first.  Sequence numbers, counters and times are uint16_t in the   *)
(* code: their arithmetic is modulo SeqMod, CntMod and TimeMod.            *)
(***************************************************************************)
EXTENDS Integers, Sequences

CONSTANTS
  Nodes,              \* the addresses of the mesh: values of CONFIG_NODE_ADDR
  MAX_ROUTE_ENTRIES,
  PURGE_TIMEOUT,
  SeqMod, CntMod, TimeMod

ASSUME TableAssumption ==
  /\ MAX_ROUTE_ENTRIES \in Nat
  /\ PURGE_TIMEOUT \in Nat
  /\ SeqMod \in Nat \ {0} /\ CntMod \in Nat \ {0}
  /\ TimeMod \in Nat /\ TimeMod > PURGE_TIMEOUT + 1

\* An entry of node's table.
Route(node) ==
  [target : Nodes \ {node}, gateway : Nodes \ {node}, seqno : 0 .. SeqMod - 1,
   time : 0 .. TimeMod - 1, cnt : 0 .. CntMod - 1, lost : 0 .. SeqMod - 1]

Ogm == [version : BOOLEAN,            \* is it BATMAN_VERSION?
        direct : BOOLEAN,             \* OGM_FLAG_IS_DIRECT
        unidirectional : BOOLEAN,     \* OGM_FLAG_UNIDIRECTIONAL
        ttl : Nat, seqno : 0 .. SeqMod - 1,
        originator : Nodes, sender : Nodes]

RoutesTo(table, target) == {i \in DOMAIN table : table[i].target = target}

\* The entry route_present settles on: the largest cnt, the first of equals.
BestWeakest(table, target) ==
  CHOOSE i \in RoutesTo(table, target) :
    \A j \in RoutesTo(table, target) :
      table[j].cnt > table[i].cnt \/ (table[j].cnt = table[i].cnt /\ i <= j)
Best(table, target) ==
  CHOOSE i \in RoutesTo(table, target) :
    \A j \in RoutesTo(table, target) :
      table[j].cnt < table[i].cnt \/ (table[j].cnt = table[i].cnt /\ i <= j)

RoutePresent(table, target) == RoutesTo(table, target) # {}
Gateway(table, target) == table[Best(table, target)].gateway

\* route_is_bidirectional: some route goes through the sender.
Bidirectional(table, sender) ==
  \E i \in DOMAIN table : table[i].gateway = sender

\* A walk along the list that deletes the entries whose places are not in S.
Keep(table, S) ==
  LET kept[i \in 0 .. Len(table)] ==
        IF i = 0 THEN <<>>
        ELSE IF i \in S THEN Append(kept[i - 1], table[i]) ELSE kept[i - 1]
  IN kept[Len(table)]

\* route_check_purge_timeout
Age(r, now) == (now - r.time) % TimeMod
PurgeSigned(table, now) ==
  Keep(table, {i \in DOMAIN table : now - table[i].time <= PURGE_TIMEOUT})
Purge(table, now) ==
  Keep(table, {i \in DOMAIN table : Age(table[i], now) <= PURGE_TIMEOUT})

\* The loop of route_save_or_update stops at the pair, or finds the list full.
FoundAtHead(table, target, gateway) ==
  {i \in DOMAIN table \intersect {1} :
     table[i].target = target /\ table[i].gateway = gateway}
Found(table, target, gateway) ==
  {i \in DOMAIN table :
     table[i].target = target /\ table[i].gateway = gateway}

Full(table) == Len(table) = MAX_ROUTE_ENTRIES

\* What is added to `lost': nothing for the entry's second OGM.
Gap(r, seqno) ==
  IF r.cnt = 1 \/ (seqno - 1) % SeqMod = r.seqno THEN 0 ELSE seqno - r.seqno

Confirmed(r, seqno, now) ==
  [r EXCEPT !.seqno = seqno, !.time = now, !.cnt = (@ + 1) % CntMod,
            !.lost = (@ + Gap(r, seqno)) % SeqMod]

\* route_save_or_update: a known pair is confirmed in place, a new one goes to
\* the tail, and is ignored when the list is full.
Save(table, target, gateway, seqno, now) ==
  LET found == Found(table, target, gateway)
      i == CHOOSE i \in found : \A j \in found : i <= j
  IN IF found # {}
     THEN [table EXCEPT ![i] = Confirmed(@, seqno, now)]
     ELSE IF Full(table)
     THEN table
     ELSE Append(table, [target |-> target, gateway |-> gateway,
                         seqno |-> seqno, time |-> now, cnt |-> 1 % CntMod,
                         lost |-> 0])

\* The first checks of ogm_rebroadcast, by node.
Examined(node, ogm) == ogm.version /\ ogm.sender # node /\ ogm.ttl > 0

\* Our own OGM comes back directly from a neighbour we do not route through.
Echo(node, table, ogm) ==
  /\ Examined(node, ogm) /\ ogm.originator = node /\ ogm.direct
  /\ ~Bidirectional(table, ogm.sender)

\* Another node's OGM, to be relayed.
Relayed(node, ogm) ==
  Examined(node, ogm) /\ ogm.originator # node /\ ~ogm.unidirectional

\* It updates the table when it came over a bidirectional link.
Updates(node, table, ogm) == Relayed(node, ogm) /\ Bidirectional(table, ogm.sender)

\* ogm_rebroadcast: the table after it.
TableAfter(node, table, ogm, now) ==
  IF Echo(node, table, ogm)
  THEN Save(table, ogm.sender, ogm.sender, 0, now)
  ELSE IF Updates(node, table, ogm)
  THEN Save(table, ogm.originator, ogm.sender, ogm.seqno, now)
  ELSE table
=============================================================================
