--------------------------- MODULE RoutingProofs ---------------------------
(***************************************************************************)
(* Theorems about Routing, for any neighbourhood, table size and timeout,  *)
(* and for counters and clocks of any width.                               *)
(***************************************************************************)
EXTENDS Routing, RouteTableProofs, FunctionTheorems, FiniteSetTheorems

Table == Seq(Route(Node))

\* A table with one entry for each of its pairs.
Unique(t) == \A i, j \in 1 .. Len(t) : Pair(t[i]) = Pair(t[j]) => i = j

LEMMA PairsAreIn ==
  ASSUME NEW t \in Table
  PROVE  /\ Len(t) \in Nat /\ DOMAIN t = 1 .. Len(t)
         /\ PairsOf(t) \subseteq Pairs
         /\ \A i \in 1 .. Len(t) : t[i] \in Route(Node) /\ Pair(t[i]) \in PairsOf(t)
         /\ \A p \in PairsOf(t) : \E i \in 1 .. Len(t) : Pair(t[i]) = p
<1>1. Len(t) \in Nat /\ DOMAIN t = 1 .. Len(t)
  BY DEF Table
<1>2. \A i \in 1 .. Len(t) : t[i] \in Route(Node)
  BY <1>1 DEF Table
<1>3. \A i \in 1 .. Len(t) : Pair(t[i]) \in Pairs
  BY <1>2 DEF Pair, Pairs, Route, Others
<1> QED
  BY <1>1, <1>2, <1>3 DEF PairsOf

LEMMA PairsEqual ==
  ASSUME NEW r, NEW q
  PROVE  Pair(r) = Pair(q) <=> r.target = q.target /\ r.gateway = q.gateway
  BY DEF Pair

LEMMA PairIs ==
  ASSUME NEW r, NEW p \in Pairs
  PROVE  Pair(r) = p <=> r.target = p.target /\ r.gateway = p.gateway
  BY DEF Pair, Pairs

\* The age of a pair is that of its one entry.
LEMMA AgesAt ==
  ASSUME NEW t \in Table, Unique(t), NEW now
  PROVE  /\ AgesOf(t, now) = [p \in PairsOf(t) |-> AgesOf(t, now)[p]]
         /\ \A i \in 1 .. Len(t) : AgesOf(t, now)[Pair(t[i])] = Age(t[i], now)
<1>1. AgesOf(t, now) = [p \in PairsOf(t) |-> AgesOf(t, now)[p]]
  BY DEF AgesOf
<1>2. ASSUME NEW i \in 1 .. Len(t)
      PROVE  AgesOf(t, now)[Pair(t[i])] = Age(t[i], now)
  <2> DEFINE p == Pair(t[i])
             j == CHOOSE k \in DOMAIN t : Pair(t[k]) = p
  <2>1. p \in PairsOf(t) /\ DOMAIN t = 1 .. Len(t)
    BY PairsAreIn
  <2>2. j \in DOMAIN t /\ Pair(t[j]) = p
    BY <2>1
  <2>3. j = i
    BY <2>1, <2>2 DEF Unique
  <2>4. AgesOf(t, now)[p] = Age(t[j], now)
    BY <2>1 DEF AgesOf
  <2> QED
    BY <2>3, <2>4
<1> QED
  BY <1>1, <1>2

\* A table is as long as it has pairs.
LEMMA AsLongAsPairs ==
  ASSUME NEW t \in Table, Unique(t)
  PROVE  IsFiniteSet(PairsOf(t)) /\ Cardinality(PairsOf(t)) = Len(t)
<1> DEFINE S == 1 .. Len(t)
           T == PairsOf(t)
           f == [i \in S |-> Pair(t[i])]
<1>1. /\ Len(t) \in Nat /\ \A i \in S : Pair(t[i]) \in T
      /\ \A p \in T : \E i \in S : Pair(t[i]) = p
  BY PairsAreIn
<1>2. \A i, j \in S : Pair(t[i]) = Pair(t[j]) => i = j
  BY DEF Unique
<1> HIDE DEF T
<1>3. f \in Bijection(S, T)
  BY <1>1, <1>2, Fun_IsBij
<1>4. ExistsBijection(1 .. Len(t), T)
  BY <1>3 DEF ExistsBijection
<1>5. IsFiniteSet(T)
  BY <1>1, <1>4, FS_NatBijection
<1>6. Cardinality(T) = Len(t)
  BY <1>1, <1>4, FS_CountingElements
<1> QED
  BY <1>5, <1>6 DEF T

-----------------------------------------------------------------------------
(* What Save and Purge do to a table with one entry for each pair. *)

\* In s the pair p is confirmed at time now, and nothing else is new.
Confirms(t, s, p, now) ==
  /\ s \in Table /\ Unique(s)
  /\ PairsOf(s) = PairsOf(t) \union {p}
  /\ \A i \in 1 .. Len(s) :
       IF Pair(s[i]) = p
       THEN /\ s[i].time = now
            /\ p \notin PairsOf(t) => s[i].cnt = 1 % CntMod
            /\ \A j \in 1 .. Len(t) :
                 Pair(t[j]) = p => s[i].cnt = (t[j].cnt + 1) % CntMod
       ELSE \E j \in 1 .. Len(t) : s[i] = t[j]

LEMMA SaveConfirms ==
  ASSUME NEW t \in Table, Unique(t), NEW p \in Pairs,
         NEW seqno \in 0 .. SeqMod - 1, NEW now \in 0 .. TimeMod - 1
  PROVE  LET s == Save(t, p.target, p.gateway, seqno, now)
         IN IF p \in PairsOf(t) \/ ~Full(t) THEN Confirms(t, s, p, now) ELSE s = t
<1> DEFINE s == Save(t, p.target, p.gateway, seqno, now)
<1>1. p.target \in Nodes \ {Node} /\ p.gateway \in Nodes \ {Node}
  BY DEF Pairs, Others
<1>2. /\ Len(t) \in Nat /\ DOMAIN t = 1 .. Len(t)
      /\ \A i \in 1 .. Len(t) : Pair(t[i]) \in PairsOf(t)
      /\ \A q \in PairsOf(t) : \E i \in 1 .. Len(t) : Pair(t[i]) = q
  BY PairsAreIn
<1>3. \A i \in 1 .. Len(t) : i \in Found(t, p.target, p.gateway) <=> Pair(t[i]) = p
  BY <1>2, PairIs DEF Found
<1>4. Found(t, p.target, p.gateway) \subseteq 1 .. Len(t)
  BY <1>2 DEF Found
<1>5. CASE p \notin PairsOf(t)
  <2>1. Found(t, p.target, p.gateway) = {}
    BY <1>2, <1>3, <1>4, <1>5
  <2>2. /\ s \in Seq(Route(Node))
        /\ Full(t) => s = t
        /\ ~Full(t) =>
             /\ Len(s) = Len(t) + 1
             /\ \A i \in 1 .. Len(t) : s[i] = t[i]
             /\ s[Len(t) + 1].target = p.target /\ s[Len(t) + 1].gateway = p.gateway
             /\ s[Len(t) + 1].time = now /\ s[Len(t) + 1].cnt = 1 % CntMod
    BY <1>1, <2>1, SaveNew DEF Table
  <2> HIDE DEF s
  <2>3. CASE ~Full(t)
    <3> DEFINE n == Len(t) + 1
    <3>1. s \in Table /\ Len(s) = n /\ Pair(s[n]) = p
      BY <2>2, <2>3, PairIs DEF Table
    <3>2. \A i \in 1 .. n : i = n \/ (i \in 1 .. Len(t) /\ s[i] = t[i])
      BY <1>2, <2>2, <2>3
    <3>3. Unique(s)
      <4> SUFFICES ASSUME NEW i \in 1 .. n, NEW j \in 1 .. n, Pair(s[i]) = Pair(s[j])
                   PROVE  i = j
          BY <3>1 DEF Unique
      <4> QED
        BY <1>2, <1>5, <3>1, <3>2 DEF Unique
    <3>4. PairsOf(s) = PairsOf(t) \union {p}
      <4>1. /\ \A i \in 1 .. n : Pair(s[i]) \in PairsOf(s)
            /\ \A q \in PairsOf(s) : \E i \in 1 .. n : Pair(s[i]) = q
        BY <3>1, PairsAreIn
      <4>2. n \in 1 .. n /\ \A i \in 1 .. Len(t) : i \in 1 .. n /\ s[i] = t[i]
        BY <1>2, <2>2, <2>3
      <4>3. \A q \in PairsOf(s) : q \in PairsOf(t) \union {p}
        BY <1>2, <3>1, <3>2, <4>1
      <4>4. \A q \in PairsOf(t) \union {p} : q \in PairsOf(s)
        BY <1>2, <3>1, <4>1, <4>2
      <4> QED
        BY <4>3, <4>4
    <3>5. ASSUME NEW i \in 1 .. Len(s), Pair(s[i]) = p
          PROVE  /\ s[i].time = now
                 /\ s[i].cnt = 1 % CntMod
                 /\ \A j \in 1 .. Len(t) : Pair(t[j]) # p
      BY <1>2, <1>5, <2>2, <2>3, <3>1, <3>2, <3>5
    <3>6. ASSUME NEW i \in 1 .. Len(s), Pair(s[i]) # p
          PROVE  \E j \in 1 .. Len(t) : s[i] = t[j]
      BY <3>1, <3>2, <3>6
    <3> QED
      BY <2>3, <3>1, <3>3, <3>4, <3>5, <3>6 DEF Confirms, s
  <2> QED
    BY <1>5, <2>2, <2>3 DEF s
<1>6. CASE p \in PairsOf(t)
  <2>1. Found(t, p.target, p.gateway) # {}
    BY <1>2, <1>3, <1>6
  <2>2. s \in Table /\ Len(s) = Len(t)
    BY <1>1, <2>1, SaveKnown DEF Table
  <2>3. PICK k \in 1 .. Len(t) :
          /\ t[k].target = p.target /\ t[k].gateway = p.gateway
          /\ s[k].target = p.target /\ s[k].gateway = p.gateway
          /\ s[k].time = now /\ s[k].cnt = (t[k].cnt + 1) % CntMod
          /\ \A j \in 1 .. Len(t) : j # k => s[j] = t[j]
    BY <1>1, <2>1, SaveKnown DEF Table
  <2> HIDE DEF s
  <2>4. Pair(t[k]) = p /\ Pair(s[k]) = p
    BY <2>3, PairIs
  <2>5. \A i \in 1 .. Len(t) : Pair(s[i]) = Pair(t[i])
    BY <2>3, <2>4
  <2>6. Unique(s)
    BY <2>2, <2>5 DEF Unique
  <2>7. PairsOf(s) = PairsOf(t) \union {p}
    <3>1. /\ \A i \in 1 .. Len(t) : Pair(s[i]) \in PairsOf(s)
          /\ \A q \in PairsOf(s) : \E i \in 1 .. Len(t) : Pair(s[i]) = q
      BY <2>2, PairsAreIn
    <3>2. \A q \in PairsOf(s) : q \in PairsOf(t)
      BY <1>2, <2>5, <3>1
    <3>3. \A q \in PairsOf(t) : q \in PairsOf(s)
      BY <1>2, <2>5, <3>1
    <3> QED
      BY <1>6, <3>2, <3>3
  <2>8. \A i \in 1 .. Len(t) : Pair(t[i]) = p => i = k
    BY <2>4 DEF Unique
  <2>9. ASSUME NEW i \in 1 .. Len(s), Pair(s[i]) = p
        PROVE  /\ s[i].time = now
               /\ \A j \in 1 .. Len(t) :
                    Pair(t[j]) = p => s[i].cnt = (t[j].cnt + 1) % CntMod
    <3>1. i = k
      BY <2>2, <2>5, <2>8, <2>9
    <3> QED
      BY <2>3, <2>8, <3>1
  <2>10. ASSUME NEW i \in 1 .. Len(s), Pair(s[i]) # p
         PROVE  \E j \in 1 .. Len(t) : s[i] = t[j]
    BY <2>2, <2>3, <2>4, <2>10
  <2>11. Confirms(t, s, p, now)
    BY <1>6, <2>2, <2>6, <2>7, <2>9, <2>10 DEF Confirms
  <2> QED
    BY <1>6, <2>11 DEF s
<1> QED
  BY <1>5, <1>6

\* In k are the entries of t that are young enough, and no others.
KeepsYoung(t, k, now) ==
  /\ k \in Table /\ Len(k) <= Len(t) /\ Unique(k)
  /\ \A i \in 1 .. Len(k) :
       /\ Age(k[i], now) <= PURGE_TIMEOUT
       /\ \E j \in 1 .. Len(t) : k[i] = t[j]
  /\ \A j \in 1 .. Len(t) :
       Age(t[j], now) <= PURGE_TIMEOUT => \E i \in 1 .. Len(k) : k[i] = t[j]

LEMMA PurgeYoung ==
  ASSUME NEW t \in Table, Unique(t), NEW now
  PROVE  KeepsYoung(t, Purge(t, now), now)
<1> DEFINE k == Purge(t, now)
<1>1. k \in Table /\ Len(k) <= Len(t)
  BY PurgeKeeps DEF Table
<1>2. PICK from \in [1 .. Len(k) -> 1 .. Len(t)] :
        /\ \A i \in 1 .. Len(k) : k[i] = t[from[i]] /\ Age(k[i], now) <= PURGE_TIMEOUT
        /\ \A i, j \in 1 .. Len(k) : i < j => from[i] < from[j]
        /\ \A p \in 1 .. Len(t) : Age(t[p], now) <= PURGE_TIMEOUT =>
              \E i \in 1 .. Len(k) : from[i] = p
  BY PurgeKeeps DEF Table
<1> HIDE DEF k
<1>3. Unique(k)
  <2> SUFFICES ASSUME NEW i \in 1 .. Len(k), NEW j \in 1 .. Len(k), Pair(k[i]) = Pair(k[j])
               PROVE  i = j
      BY DEF Unique
  <2>1. from[i] = from[j]
    BY <1>2 DEF Unique
  <2>2. ~(i < j) /\ ~(j < i)
    BY <1>2, <2>1
  <2> QED
    BY <2>2
<1>4. KeepsYoung(t, k, now)
  BY <1>1, <1>2, <1>3 DEF KeepsYoung
<1> QED
  BY <1>4 DEF k

-----------------------------------------------------------------------------
(* The inductive invariant.  A purge looks at every entry each time the      *)
(* clock advances, so no age is ever near the clock's wrap; and an entry's   *)
(* counter is the count of confirmations until that no longer fits its width.*)

Young == \A i \in 1 .. Len(table) : Age(table[i], time) <= PURGE_TIMEOUT

CountsHeard ==
  /\ \A i \in 1 .. Len(table) :
       heard[Pair(table[i])] < CntMod => table[i].cnt = heard[Pair(table[i])]
  /\ \A p \in Pairs \ PairsOf(table) : heard[p] = 0

Sound == TypeOK /\ Unique(table) /\ Young

LEMMA InitSound == Init => Sound
<1> SUFFICES ASSUME Init PROVE Sound
    OBVIOUS
<1>1. TypeOK
  BY TableAssumption, GhostAssumption
     DEF Init, TypeOK, TableAssumption, GhostAssumption, Pairs
<1>2. Len(table) = 0
  BY DEF Init
<1> QED
  BY <1>1, <1>2 DEF Sound, Unique, Young

LEMMA HeardAreOgms == ASSUME NEW ogm \in HeardOgms PROVE ogm \in Ogm
<1>1. 0 \in 0 .. SeqMod - 1 /\ Node \in Nodes /\ Others \subseteq Nodes
  BY TableAssumption, NodeAssumption DEF TableAssumption, NodeAssumption, Others
<1>2. \A o, s \in Nodes : OgmFrom(o, s) \in Ogm
  BY <1>1 DEF OgmFrom, Ogm
<1>3. CASE ogm \in EchoOgms
  <2>1. PICK s \in Others, d \in BOOLEAN : ogm = [OgmFrom(Node, s) EXCEPT !.direct = d]
    BY <1>3 DEF EchoOgms
  <2> QED
    BY <1>1, <2>1 DEF OgmFrom, Ogm
<1>4. CASE ogm \in NeighbourOgms
  <2>1. PICK o \in Others, s \in Others, q \in 0 .. SeqMod - 1 :
          ogm = [OgmFrom(o, s) EXCEPT !.seqno = q]
    BY <1>4 DEF NeighbourOgms
  <2> QED
    BY <1>1, <2>1 DEF OgmFrom, Ogm
<1>5. CASE ogm \in DroppedOgms
  <2>1. PICK o \in Others, s \in Others :
          ogm \in {[OgmFrom(o, s) EXCEPT !.version = FALSE],
                   [OgmFrom(o, s) EXCEPT !.ttl = 0],
                   [OgmFrom(o, s) EXCEPT !.unidirectional = TRUE],
                   OgmFrom(o, Node)}
    BY <1>5 DEF DroppedOgms
  <2>2. OgmFrom(o, s) \in Ogm /\ OgmFrom(o, Node) \in Ogm
    BY <1>1, <1>2
  <2>3. /\ [OgmFrom(o, s) EXCEPT !.version = FALSE] \in Ogm
        /\ [OgmFrom(o, s) EXCEPT !.ttl = 0] \in Ogm
        /\ [OgmFrom(o, s) EXCEPT !.unidirectional = TRUE] \in Ogm
    BY <2>2 DEF Ogm
  <2> QED
    BY <2>1, <2>2, <2>3
<1> QED
  BY <1>3, <1>4, <1>5 DEF HeardOgms

\* What an OGM confirms, if it confirms anything.
EchoPair(ogm) == [target |-> ogm.sender, gateway |-> ogm.sender]
HeardPair(ogm) == [target |-> ogm.originator, gateway |-> ogm.sender]

Confirming(ogm, p) ==
  \/ Echo(Node, table, ogm) /\ p = EchoPair(ogm)
  \/ Updates(Node, table, ogm) /\ p = HeardPair(ogm)

\* An OGM leaves the table as it is or confirms one pair, which is counted.
LEMMA RxConfirms ==
  ASSUME Sound, NEW ogm \in Ogm, RxOgm(ogm)
  PROVE  \/ /\ ~Echo(Node, table, ogm) /\ ~Updates(Node, table, ogm)
            /\ UNCHANGED <<table, heard>>
         \/ \E p \in Pairs :
              /\ Confirming(ogm, p)
              /\ IF p \in PairsOf(table) \/ ~Full(table)
                 THEN /\ Confirms(table, table', p, time)
                      /\ heard[p] < MaxHeard
                      /\ heard' = [heard EXCEPT ![p] = @ + 1]
                 ELSE UNCHANGED <<table, heard>>
<1>1. /\ ogm.sender \in Nodes /\ ogm.originator \in Nodes
      /\ ogm.seqno \in 0 .. SeqMod - 1 /\ 0 \in 0 .. SeqMod - 1
  BY TableAssumption DEF Ogm, TableAssumption
<1>2. table \in Table /\ Unique(table) /\ time \in 0 .. TimeMod - 1
  BY DEF Sound, TypeOK, Table
<1>3. table' = TableAfter(Node, table, ogm, time)
  BY DEF RxOgm
<1> DEFINE Counts(p) == IF p \in PairsOf(table')
                        THEN heard[p] < MaxHeard /\ heard' = [heard EXCEPT ![p] = @ + 1]
                        ELSE UNCHANGED heard
<1>4. CASE ~Echo(Node, table, ogm) /\ ~Updates(Node, table, ogm)
  <2>1. UNCHANGED heard
    BY <1>4 DEF RxOgm, Count
  <2>2. UNCHANGED table
    BY <1>3, <1>4 DEF TableAfter
  <2> QED
    BY <1>4, <2>1, <2>2
<1>5. ASSUME NEW p \in Pairs, NEW seqno \in 0 .. SeqMod - 1, Counts(p),
             table' = Save(table, p.target, p.gateway, seqno, time)
      PROVE  IF p \in PairsOf(table) \/ ~Full(table)
             THEN /\ Confirms(table, table', p, time)
                  /\ heard[p] < MaxHeard
                  /\ heard' = [heard EXCEPT ![p] = @ + 1]
             ELSE UNCHANGED <<table, heard>>
  <2>1. IF p \in PairsOf(table) \/ ~Full(table)
        THEN Confirms(table, table', p, time) ELSE table' = table
    BY <1>2, <1>5, SaveConfirms
  <2>2. CASE p \in PairsOf(table) \/ ~Full(table)
    <3>1. p \in PairsOf(table')
      BY <2>1, <2>2 DEF Confirms
    <3> QED
      BY <1>5, <2>1, <2>2, <3>1
  <2>3. CASE ~(p \in PairsOf(table) \/ ~Full(table))
    <3>1. table' = table
      BY <2>1, <2>3
    <3>2. p \notin PairsOf(table')
      BY <2>3, <3>1
    <3> QED
      BY <1>5, <2>3, <3>1, <3>2
  <2> QED
    BY <2>2, <2>3
<1>6. CASE Echo(Node, table, ogm)
  <2> DEFINE p == EchoPair(ogm)
  <2>1. p \in Pairs /\ p.target = ogm.sender /\ p.gateway = ogm.sender
    BY <1>1, <1>6 DEF Echo, Examined, Pairs, Others, EchoPair
  <2>2. table' = Save(table, p.target, p.gateway, 0, time)
    BY <1>3, <1>6, <2>1 DEF TableAfter
  <2>3. Counts(p)
    BY <1>6 DEF RxOgm, Count, EchoPair
  <2>4. Confirming(ogm, p)
    BY <1>6 DEF Confirming
  <2> HIDE DEF p, Counts
  <2> QED
    BY <1>1, <1>5, <2>1, <2>2, <2>3, <2>4
<1>7. CASE ~Echo(Node, table, ogm) /\ Updates(Node, table, ogm)
  <2> DEFINE p == HeardPair(ogm)
  <2>1. p \in Pairs /\ p.target = ogm.originator /\ p.gateway = ogm.sender
    BY <1>1, <1>7 DEF Updates, Relayed, Examined, Pairs, Others, HeardPair
  <2>2. table' = Save(table, p.target, p.gateway, ogm.seqno, time)
    BY <1>3, <1>7, <2>1 DEF TableAfter
  <2>3. Counts(p)
    BY <1>7 DEF RxOgm, Count, HeardPair
  <2>4. Confirming(ogm, p)
    BY <1>7 DEF Confirming
  <2> HIDE DEF p, Counts
  <2> QED
    BY <1>1, <1>5, <2>1, <2>2, <2>3, <2>4
<1> QED
  BY <1>4, <1>6, <1>7

LEMMA AgeFacts ==
  ASSUME NEW now \in 0 .. TimeMod - 1, NEW then \in 0 .. TimeMod - 1
  PROVE  LET next == (now + 1) % TimeMod
             age == (now - then) % TimeMod
         IN /\ next \in 0 .. TimeMod - 1
            /\ age \in 0 .. TimeMod - 1
            /\ (now - now) % TimeMod = 0
            /\ age <= PURGE_TIMEOUT => (next - then) % TimeMod = age + 1
<1>1. TimeMod \in Nat /\ PURGE_TIMEOUT \in Nat /\ TimeMod > PURGE_TIMEOUT + 1
  BY TableAssumption DEF TableAssumption
<1> DEFINE next == (now + 1) % TimeMod
           age == (now - then) % TimeMod
<1>2. \A d \in 0 .. TimeMod - 1 : d % TimeMod = d
  BY <1>1
<1>3. \A d \in Int : -TimeMod <= d /\ d < 0 => d % TimeMod = d + TimeMod
  BY <1>1
<1>4. next = IF now + 1 = TimeMod THEN 0 ELSE now + 1
  BY <1>1
<1>5. age = IF now >= then THEN now - then ELSE now - then + TimeMod
  BY <1>1, <1>2, <1>3
<1>6. (now - now) % TimeMod = 0
  BY <1>1, <1>2
<1> HIDE DEF next, age
<1>7. next \in 0 .. TimeMod - 1 /\ age \in 0 .. TimeMod - 1
  BY <1>1, <1>4, <1>5
<1>8. ASSUME age <= PURGE_TIMEOUT PROVE (next - then) % TimeMod = age + 1
  <2>1. (next - then) % TimeMod =
          IF next >= then THEN next - then ELSE next - then + TimeMod
    BY <1>1, <1>2, <1>3, <1>7
  <2> QED
    BY <1>1, <1>4, <1>5, <1>8, <2>1
<1> QED
  BY <1>6, <1>7, <1>8 DEF next, age

LEMMA EntryAges ==
  ASSUME Sound, NEW i \in 1 .. Len(table)
  PROVE  LET a == Age(table[i], time)
         IN a \in 0 .. PURGE_TIMEOUT /\ Age(table[i], (time + 1) % TimeMod) = a + 1
<1>1. table[i].time \in 0 .. TimeMod - 1 /\ time \in 0 .. TimeMod - 1
  <2>1. table[i] \in Route(Node)
    BY DEF Sound, TypeOK
  <2> QED
    BY <2>1 DEF Sound, TypeOK, Route
<1>2. TimeMod \in Nat /\ PURGE_TIMEOUT \in Nat /\ Age(table[i], time) <= PURGE_TIMEOUT
  BY TableAssumption DEF TableAssumption, Sound, Young
<1> DEFINE age == (time - table[i].time) % TimeMod
<1>3. /\ age \in 0 .. TimeMod - 1
      /\ (age <= PURGE_TIMEOUT => (((time + 1) % TimeMod) - table[i].time) % TimeMod = age + 1)
  BY <1>1, AgeFacts
<1>4. age = Age(table[i], time)
  BY DEF Age
<1> HIDE DEF age
<1>5. Age(table[i], (time + 1) % TimeMod) = age + 1
  BY <1>2, <1>3, <1>4 DEF Age
<1> QED
  BY <1>2, <1>3, <1>4, <1>5

\* A second and the shell's purge both purge, at the time they leave behind.
LEMMA StepPurges ==
  ASSUME Sound, Second \/ ShellPurge
  PROVE  /\ KeepsYoung(table, table', time') /\ time' \in 0 .. TimeMod - 1
         /\ heard' = [p \in Pairs |-> IF p \in PairsOf(table') THEN heard[p] ELSE 0]
         /\ echoed' = echoed
<1>1. table \in Table /\ Unique(table) /\ time \in 0 .. TimeMod - 1
  BY DEF Sound, TypeOK, Table
<1>2. time' \in 0 .. TimeMod - 1
  BY <1>1, AgeFacts DEF Second, ShellPurge
<1>3. table' = Purge(table, time')
  BY DEF Second, ShellPurge
<1>4. KeepsYoung(table, table', time')
  BY <1>1, <1>3, PurgeYoung
<1> QED
  BY <1>2, <1>4 DEF Second, ShellPurge, Forget

LEMMA StepSound == Sound /\ [Next]_vars => Sound'
<1> SUFFICES ASSUME Sound, [Next]_vars PROVE Sound'
    OBVIOUS
<1>1. /\ table \in Table /\ Len(table) \in Nat /\ Len(table) <= MAX_ROUTE_ENTRIES
      /\ time \in 0 .. TimeMod - 1 /\ echoed \subseteq Others
      /\ heard \in [Pairs -> 0 .. MaxHeard] /\ Unique(table)
  BY DEF Sound, TypeOK, Table
<1>2. MaxHeard \in Nat /\ PURGE_TIMEOUT \in Nat /\ MAX_ROUTE_ENTRIES \in Nat
  BY TableAssumption, GhostAssumption DEF TableAssumption, GhostAssumption
<1>3. ASSUME NEW ogm \in HeardOgms, RxOgm(ogm) PROVE Sound'
  <2>1. ogm \in Ogm
    BY HeardAreOgms
  <2>2. table' \in Table /\ Len(table') <= MAX_ROUTE_ENTRIES
    BY <1>1, <1>3, <2>1, TableAfterPairs, NodeAssumption
       DEF RxOgm, Table, NodeAssumption
  <2>3. time' = time /\ echoed' \subseteq Others
    BY <1>1, <1>3, <2>1 DEF RxOgm, Examined, Ogm, Others
  <2>4. CASE UNCHANGED <<table, heard>>
    BY <1>1, <2>3, <2>4 DEF Sound, TypeOK, Table, Young, Unique
  <2>5. ASSUME NEW p \in Pairs, Confirms(table, table', p, time),
               heard[p] < MaxHeard, heard' = [heard EXCEPT ![p] = @ + 1]
        PROVE  Sound'
    <3>1. heard' \in [Pairs -> 0 .. MaxHeard]
      <4>1. heard[p] + 1 \in 0 .. MaxHeard
        BY <1>1, <1>2, <2>5
      <4> QED
        BY <1>1, <2>5, <4>1
    <3>2. ASSUME NEW i \in 1 .. Len(table')
          PROVE  Age(table'[i], time') <= PURGE_TIMEOUT
      <4>1. table'[i].time = time \/ \E j \in 1 .. Len(table) : table'[i] = table[j]
        BY <2>5 DEF Confirms
      <4>2. CASE table'[i].time = time
        BY <1>1, <1>2, <2>3, <4>2, AgeFacts DEF Age
      <4>3. CASE \E j \in 1 .. Len(table) : table'[i] = table[j]
        BY <2>3, <4>3 DEF Sound, Young
      <4> QED
        BY <4>1, <4>2, <4>3
    <3>3. Young'
      BY <3>2 DEF Young
    <3>4. Unique(table')
      BY <2>5 DEF Confirms
    <3>5. TypeOK'
      BY <1>1, <2>2, <2>3, <3>1 DEF TypeOK, Table
    <3> QED
      BY <3>3, <3>4, <3>5 DEF Sound, Unique
  <2> QED
    BY <1>3, <2>1, <2>4, <2>5, RxConfirms
<1>4. CASE Second \/ ShellPurge
  <2>1. /\ KeepsYoung(table, table', time') /\ time' \in 0 .. TimeMod - 1
        /\ heard' = [p \in Pairs |-> IF p \in PairsOf(table') THEN heard[p] ELSE 0]
        /\ echoed' = echoed
    BY <1>4, StepPurges
  <2>2. heard' \in [Pairs -> 0 .. MaxHeard]
    BY <1>1, <1>2, <2>1
  <2>3. table' \in Table /\ Len(table') \in Nat /\ Len(table') <= Len(table)
    BY <2>1 DEF KeepsYoung, Table
  <2>4. TypeOK'
    BY <1>1, <1>2, <2>1, <2>2, <2>3 DEF TypeOK, Table
  <2>5. Young' /\ Unique(table')
    BY <2>1 DEF KeepsYoung, Young
  <2> QED
    BY <2>4, <2>5 DEF Sound, Unique
<1>5. CASE UNCHANGED vars
  BY <1>5 DEF vars, Sound, TypeOK, Unique, Young
<1> QED
  BY <1>3, <1>4, <1>5 DEF Next

\* The table, the clock and the counts stay within their types and bounds.
THEOREM TypeCorrect == Spec => []TypeOK
<1>1. Sound => TypeOK
  BY DEF Sound
<1> QED
  BY <1>1, InitSound, StepSound, PTL DEF Spec

\* A pair of a target and a gateway has one entry in the list.
THEOREM OneEntryAlways == Spec => []OneEntryPerPair
<1>1. Sound => OneEntryPerPair
  <2> SUFFICES ASSUME Sound PROVE OneEntryPerPair
      OBVIOUS
  <2>1. DOMAIN table = 1 .. Len(table) /\ Unique(table)
    BY DEF Sound, TypeOK
  <2> QED
    BY <2>1 DEF OneEntryPerPair, Unique
<1> QED
  BY <1>1, InitSound, StepSound, PTL DEF Spec

\* No entry is ever older than PURGE_TIMEOUT, so the purge, which compares
\* ages modulo the clock's range, never mistakes an old entry for a young one.
THEOREM EntriesYoung == Spec => []Young
<1>1. Sound => Young
  BY DEF Sound
<1> QED
  BY <1>1, InitSound, StepSound, PTL DEF Spec

-----------------------------------------------------------------------------
(* A counter counts confirmations until it wraps. *)

LEMMA CountFacts ==
  ASSUME NEW h \in Nat, h + 1 < CntMod
  PROVE  (h + 1) % CntMod = h + 1 /\ 1 % CntMod = 1
<1>1. CntMod \in Nat
  BY TableAssumption DEF TableAssumption
<1>2. \A d \in 0 .. CntMod - 1 : d % CntMod = d
  BY <1>1
<1>3. h + 1 \in 0 .. CntMod - 1 /\ 1 \in 0 .. CntMod - 1
  BY <1>1
<1> QED
  BY <1>2, <1>3

LEMMA StepCounts ==
  ASSUME Sound, CountsHeard, [Next]_vars PROVE CountsHeard'
<1>1. /\ table \in Table /\ heard \in [Pairs -> 0 .. MaxHeard]
      /\ MaxHeard \in Nat
  BY GhostAssumption DEF Sound, TypeOK, Table, GhostAssumption
<1>2. /\ \A i \in 1 .. Len(table) : Pair(table[i]) \in PairsOf(table)
      /\ \A q \in PairsOf(table) : \E i \in 1 .. Len(table) : Pair(table[i]) = q
      /\ PairsOf(table) \subseteq Pairs
  BY <1>1, PairsAreIn
<1>3. ASSUME NEW p \in Pairs, Confirms(table, table', p, time),
             heard[p] < MaxHeard, heard' = [heard EXCEPT ![p] = @ + 1]
      PROVE  CountsHeard'
  <2>1. heard[p] \in Nat /\ heard'[p] = heard[p] + 1
    BY <1>1, <1>3
  <2>2. \A q \in Pairs : q # p => heard'[q] = heard[q]
    BY <1>1, <1>3
  <2>3. heard'[p] < CntMod =>
          (heard[p] + 1) % CntMod = heard[p] + 1 /\ 1 % CntMod = 1
    BY <2>1, CountFacts
  <2>4. /\ table' \in Table
        /\ PairsOf(table') = PairsOf(table) \union {p}
        /\ \A i \in 1 .. Len(table') : Pair(table'[i]) \in Pairs
    BY <1>2, <1>3, PairsAreIn DEF Confirms
  <2>5. ASSUME NEW i \in 1 .. Len(table'), heard'[Pair(table'[i])] < CntMod
        PROVE  table'[i].cnt = heard'[Pair(table'[i])]
    <3>1. CASE Pair(table'[i]) = p /\ p \notin PairsOf(table)
      <4>1. table'[i].cnt = 1 % CntMod
        BY <1>3, <3>1 DEF Confirms
      <4>2. heard[p] = 0
        BY <3>1 DEF CountsHeard
      <4> QED
        BY <2>1, <2>3, <2>5, <3>1, <4>1, <4>2
    <3>2. CASE Pair(table'[i]) = p /\ p \in PairsOf(table)
      <4>1. PICK j \in 1 .. Len(table) : Pair(table[j]) = p
        BY <1>2, <3>2
      <4>2. table'[i].cnt = (table[j].cnt + 1) % CntMod
        BY <1>3, <3>2, <4>1 DEF Confirms
      <4>3. heard[p] < CntMod
        BY <2>1, <2>5, <3>2, TableAssumption
      <4>4. table[j].cnt = heard[p]
        BY <4>1, <4>3 DEF CountsHeard
      <4> QED
        BY <2>1, <2>3, <2>5, <3>2, <4>2, <4>4
    <3>3. CASE Pair(table'[i]) # p
      <4>1. PICK j \in 1 .. Len(table) : table'[i] = table[j]
        BY <1>3, <3>3 DEF Confirms
      <4> QED
        BY <2>2, <2>4, <2>5, <3>3, <4>1 DEF CountsHeard
    <3> QED
      BY <3>1, <3>2, <3>3
  <2>6. \A q \in Pairs \ PairsOf(table') : heard'[q] = 0
    BY <2>2, <2>4 DEF CountsHeard
  <2> QED
    BY <2>5, <2>6 DEF CountsHeard
<1>4. ASSUME NEW ogm \in HeardOgms, RxOgm(ogm) PROVE CountsHeard'
  <2>1. CASE UNCHANGED <<table, heard>>
    BY <2>1 DEF CountsHeard
  <2> QED
    BY <1>3, <1>4, <2>1, RxConfirms, HeardAreOgms
<1>5. CASE Second \/ ShellPurge
  <2>1. /\ KeepsYoung(table, table', time')
        /\ heard' = [p \in Pairs |-> IF p \in PairsOf(table') THEN heard[p] ELSE 0]
    BY <1>5, StepPurges
  <2>2. /\ table' \in Table /\ PairsOf(table') \subseteq Pairs
        /\ \A i \in 1 .. Len(table') : Pair(table'[i]) \in PairsOf(table')
    BY <2>1, PairsAreIn DEF KeepsYoung
  <2>3. ASSUME NEW i \in 1 .. Len(table'), heard'[Pair(table'[i])] < CntMod
        PROVE  table'[i].cnt = heard'[Pair(table'[i])]
    <3>1. PICK j \in 1 .. Len(table) : table'[i] = table[j]
      BY <2>1 DEF KeepsYoung
    <3> QED
      BY <2>1, <2>2, <2>3, <3>1 DEF CountsHeard
  <2>4. \A q \in Pairs \ PairsOf(table') : heard'[q] = 0
    BY <2>1
  <2> QED
    BY <2>3, <2>4 DEF CountsHeard
<1>6. CASE UNCHANGED vars
  BY <1>6 DEF vars, CountsHeard
<1> QED
  BY <1>4, <1>5, <1>6 DEF Next

\* No counter of a route to target has wrapped since its entry was made.
Unwrapped(target) == \A p \in Pairs : p.target = target => heard[p] < CntMod

\* HeardMost, target by target.
HeardMostOf(target) ==
  RoutePresent(table, target) =>
    \A i \in RoutesTo(table, target) :
      heard[Pair(table[i])] <=
        heard[[target |-> target, gateway |-> Gateway(table, target)]]

\* The gateway route_present chooses has confirmed its target at least as often
\* as any other gateway in the table has, in every state in which none of them
\* has confirmed it so often that its 16-bit counter wrapped: a purge that
\* removes the wrapped entries makes the choice right again.
THEOREM BestUntilWrap ==
  Spec => [](\A t \in Others : Unwrapped(t) => HeardMostOf(t))
<1>1. Init => Sound /\ CountsHeard
  <2> SUFFICES ASSUME Init PROVE CountsHeard
      BY InitSound
  <2>1. Len(table) = 0 /\ heard = [p \in Pairs |-> 0]
    BY DEF Init
  <2> QED
    BY <2>1 DEF CountsHeard
<1>2. Sound /\ CountsHeard /\ [Next]_vars => Sound' /\ CountsHeard'
  BY StepSound, StepCounts
<1>3. Sound /\ CountsHeard =>
        \A t \in Others : Unwrapped(t) => HeardMostOf(t)
  <2> SUFFICES ASSUME Sound, CountsHeard, NEW t \in Others, Unwrapped(t),
                      RoutePresent(table, t), NEW i \in RoutesTo(table, t)
               PROVE  heard[Pair(table[i])] <=
                        heard[[target |-> t, gateway |-> Gateway(table, t)]]
      BY DEF HeardMostOf
  <2> DEFINE b == Best(table, t)
  <2>1. table \in Table /\ DOMAIN table = 1 .. Len(table)
    BY DEF Sound, TypeOK, Table
  <2>2. /\ b \in 1 .. Len(table) /\ table[b].target = t
        /\ \A j \in RoutesTo(table, t) : table[j].cnt <= table[b].cnt
    BY <2>1, BestIsBest DEF Table
  <2>3. Pair(table[b]) = [target |-> t, gateway |-> Gateway(table, t)]
    BY <2>2 DEF Pair, Gateway
  <2>4. i \in 1 .. Len(table) /\ table[i].target = t
    BY <2>1 DEF RoutesTo
  <2> HIDE DEF b
  <2>5. \A j \in 1 .. Len(table) :
          table[j].target = t => heard[Pair(table[j])] < CntMod
    <3>1. \A j \in 1 .. Len(table) :
            Pair(table[j]) \in Pairs /\ Pair(table[j]).target = table[j].target
      BY <2>1, PairsAreIn DEF Pair
    <3> QED
      BY <3>1 DEF Unwrapped
  <2> QED
    BY <2>2, <2>3, <2>4, <2>5 DEF CountsHeard
<1> QED
  BY <1>1, <1>2, <1>3, PTL DEF Spec

\* Where no route can be confirmed as often as its counter can tell, the choice
\* is right throughout.
NoWrap == MaxHeard < CntMod

THEOREM BestHeardMost == ASSUME NoWrap PROVE Spec => []HeardMost
<1>1. TypeOK => \A t \in Others : Unwrapped(t)
  BY TableAssumption, GhostAssumption
     DEF TypeOK, Unwrapped, NoWrap, TableAssumption, GhostAssumption
<1>2. (\A t \in Others : Unwrapped(t)) /\ (\A t \in Others : Unwrapped(t) => HeardMostOf(t))
        => HeardMost
  BY DEF HeardMost, HeardMostOf
<1> QED
  BY <1>1, <1>2, TypeCorrect, BestUntilWrap, PTL

-----------------------------------------------------------------------------
(* The list is the map of ages of RouteMap. *)

ConfirmedIn(t, p, now) ==
  [q \in PairsOf(t) \union {p} |-> IF q = p THEN 0 ELSE AgesOf(t, now)[q]]

YoungIn(t, now) ==
  [p \in {q \in PairsOf(t) : AgesOf(t, now)[q] <= PURGE_TIMEOUT} |-> AgesOf(t, now)[p]]

LEMMA ConfirmedAges ==
  ASSUME NEW t \in Table, Unique(t), NEW s, NEW p \in Pairs,
         NEW now \in 0 .. TimeMod - 1, Confirms(t, s, p, now)
  PROVE  AgesOf(s, now) = ConfirmedIn(t, p, now)
<1>1. s \in Table /\ Unique(s) /\ PairsOf(s) = PairsOf(t) \union {p}
  BY DEF Confirms
<1>2. ASSUME NEW q \in PairsOf(s)
      PROVE  AgesOf(s, now)[q] = IF q = p THEN 0 ELSE AgesOf(t, now)[q]
  <2>1. PICK i \in 1 .. Len(s) : Pair(s[i]) = q
    BY <1>1, PairsAreIn
  <2>2. AgesOf(s, now)[q] = Age(s[i], now)
    BY <1>1, <2>1, AgesAt
  <2>3. CASE q = p
    <3>1. s[i].time = now
      BY <2>1, <2>3 DEF Confirms
    <3> QED
      BY <2>2, <2>3, <3>1, AgeFacts DEF Age
  <2>4. CASE q # p
    <3>1. PICK j \in 1 .. Len(t) : s[i] = t[j]
      BY <2>1, <2>4 DEF Confirms
    <3>2. AgesOf(t, now)[q] = Age(t[j], now)
      BY <2>1, <3>1, AgesAt
    <3> QED
      BY <2>2, <2>4, <3>1, <3>2
  <2> QED
    BY <2>3, <2>4
<1>3. AgesOf(s, now) = [q \in PairsOf(s) |-> AgesOf(s, now)[q]]
  BY <1>1, AgesAt
<1> QED
  BY <1>1, <1>2, <1>3 DEF ConfirmedIn

LEMMA YoungAges ==
  ASSUME NEW t \in Table, Unique(t), NEW k, NEW now, KeepsYoung(t, k, now)
  PROVE  AgesOf(k, now) = YoungIn(t, now)
<1>1. k \in Table /\ Unique(k)
  BY DEF KeepsYoung
<1>2. ASSUME NEW p \in PairsOf(k)
      PROVE  /\ p \in PairsOf(t) /\ AgesOf(k, now)[p] = AgesOf(t, now)[p]
             /\ AgesOf(t, now)[p] <= PURGE_TIMEOUT
  <2>1. PICK i \in 1 .. Len(k) : Pair(k[i]) = p
    BY <1>1, PairsAreIn
  <2>2. PICK j \in 1 .. Len(t) : k[i] = t[j]
    BY DEF KeepsYoung
  <2>3. p \in PairsOf(t) /\ AgesOf(t, now)[p] = Age(t[j], now)
    BY <2>1, <2>2, AgesAt, PairsAreIn
  <2>4. AgesOf(k, now)[p] = Age(k[i], now)
    BY <1>1, <2>1, AgesAt
  <2>5. Age(k[i], now) <= PURGE_TIMEOUT
    BY DEF KeepsYoung
  <2> QED
    BY <2>2, <2>3, <2>4, <2>5
<1>3. ASSUME NEW p \in PairsOf(t), AgesOf(t, now)[p] <= PURGE_TIMEOUT
      PROVE  p \in PairsOf(k)
  <2>1. PICK j \in 1 .. Len(t) : Pair(t[j]) = p
    BY PairsAreIn
  <2>2. Age(t[j], now) <= PURGE_TIMEOUT
    BY <1>3, <2>1, AgesAt
  <2>3. PICK i \in 1 .. Len(k) : k[i] = t[j]
    BY <2>2 DEF KeepsYoung
  <2> QED
    BY <1>1, <2>1, <2>3, PairsAreIn
<1>4. PairsOf(k) = {q \in PairsOf(t) : AgesOf(t, now)[q] <= PURGE_TIMEOUT}
  BY <1>2, <1>3
<1>5. AgesOf(k, now) = [p \in PairsOf(k) |-> AgesOf(k, now)[p]]
  BY <1>1, AgesAt
<1> QED
  BY <1>2, <1>4, <1>5 DEF YoungIn

\* What RouteMap makes of a table.
LEMMA MapOf ==
  ASSUME Sound
  PROVE  /\ DOMAIN AgesOf(table, time) = PairsOf(table)
         /\ Map!Full <=> Full(table)
         /\ \A s : Map!Bidirectional(s) <=> Bidirectional(table, s)
<1>1. table \in Table /\ Unique(table)
  BY DEF Sound, TypeOK, Table
<1>2. DOMAIN AgesOf(table, time) = PairsOf(table)
  BY DEF AgesOf
<1>3. Map!Full <=> Full(table)
  <2>1. Cardinality(PairsOf(table)) = Len(table)
    BY <1>1, AsLongAsPairs
  <2>2. Map!Cardinality(PairsOf(table)) = Cardinality(PairsOf(table))
    BY DEF Map!Cardinality, Cardinality
  <2>3. Map!Full <=> Map!Cardinality(PairsOf(table)) = MAX_ROUTE_ENTRIES
    BY <1>2 DEF Map!Full
  <2> QED
    BY <2>1, <2>2, <2>3 DEF Full
<1>4. ASSUME NEW s PROVE Map!Bidirectional(s) <=> Bidirectional(table, s)
  <2>1. Bidirectional(table, s) <=> \E p \in PairsOf(table) : p.gateway = s
    <3>1. \A i : Pair(table[i]).gateway = table[i].gateway
      BY DEF Pair
    <3> QED
      BY <1>1, <3>1, PairsAreIn DEF Bidirectional
  <2>2. Map!Bidirectional(s) <=> \E p \in PairsOf(table) : p.gateway = s
    BY <1>2 DEF Map!Bidirectional, Map!Gateways
  <2> QED
    BY <2>1, <2>2
<1> QED
  BY <1>2, <1>3, <1>4

LEMMA NextAges == AgesOf(table, time)' = AgesOf(table', time')
  BY DEF AgesOf, PairsOf, Pair, Age

LEMMA StepMap == Sound /\ Sound' /\ [Next]_vars => [Map!Next]_(Map!vars)
<1> SUFFICES ASSUME Sound, Sound', [Next]_vars PROVE [Map!Next]_(Map!vars)
    OBVIOUS
<1> DEFINE age == AgesOf(table, time)
<1>1. /\ table \in Table /\ Unique(table) /\ time \in 0 .. TimeMod - 1
      /\ echoed \subseteq Others
  BY DEF Sound, TypeOK, Table
<1>2. /\ DOMAIN age = PairsOf(table)
      /\ Map!Full <=> Full(table)
      /\ \A s : Map!Bidirectional(s) <=> Bidirectional(table, s)
  BY MapOf
<1>3. ASSUME NEW ogm \in HeardOgms, RxOgm(ogm) PROVE [Map!Next]_(Map!vars)
  <2>1. ogm.sender \in Nodes /\ ogm.originator \in Nodes /\ time' = time
    BY <1>3, HeardAreOgms DEF Ogm, RxOgm
  <2>2. ASSUME NEW p \in Pairs,
               IF p \in PairsOf(table) \/ ~Full(table)
               THEN Confirms(table, table', p, time) ELSE UNCHANGED table
        PROVE  Map!Confirm(p)
    <3>1. CASE p \in PairsOf(table) \/ ~Full(table)
      <4>1. age' = AgesOf(table', time)
        BY <2>1, NextAges
      <4>2. AgesOf(table', time) = ConfirmedIn(table, p, time)
        BY <1>1, <2>2, <3>1, ConfirmedAges
      <4> QED
        BY <1>2, <3>1, <4>1, <4>2 DEF Map!Confirm, ConfirmedIn
    <3>2. CASE ~(p \in PairsOf(table) \/ ~Full(table))
      <4>1. age' = age
        BY <2>1, <2>2, <3>2
      <4> QED
        BY <1>2, <3>2, <4>1 DEF Map!Confirm
    <3> QED
      BY <3>1, <3>2
  <2>3. CASE Echo(Node, table, ogm)
    <3> DEFINE s == ogm.sender
    <3>1. s \in Others /\ ~Bidirectional(table, s) /\ echoed' = echoed \union {s}
      BY <1>3, <2>1, <2>3 DEF RxOgm, Echo, Examined, Others
    <3>2. ~Updates(Node, table, ogm)
      BY <2>3 DEF Updates, Relayed, Echo
    <3>3. Map!Confirm(EchoPair(ogm)) /\ EchoPair(ogm) = [target |-> s, gateway |-> s]
      BY <1>3, <2>2, <2>3, <3>2, RxConfirms, HeardAreOgms DEF Confirming, EchoPair
    <3>4. Map!Echoed(s)
      BY <1>2, <3>1, <3>3 DEF Map!Echoed
    <3> QED
      BY <3>1, <3>4 DEF Map!Next
  <2>4. CASE Updates(Node, table, ogm)
    <3> DEFINE p == HeardPair(ogm)
    <3>1. ogm.originator # Node /\ Bidirectional(table, ogm.sender)
      BY <2>4 DEF Updates, Relayed
    <3>2. ~Echo(Node, table, ogm) /\ echoed' = echoed
      BY <1>3, <3>1 DEF RxOgm, Echo
    <3>3. p \in Pairs /\ p.gateway = ogm.sender
      BY <2>1, <2>4 DEF Updates, Relayed, Examined, HeardPair, Pairs, Others
    <3>4. Map!Confirm(p)
      BY <1>3, <2>2, <2>4, <3>2, RxConfirms, HeardAreOgms DEF Confirming
    <3> HIDE DEF p
    <3>5. Map!Heard(p)
      BY <1>2, <3>1, <3>2, <3>3, <3>4 DEF Map!Heard
    <3> QED
      BY <3>3, <3>5 DEF Map!Next, Map!Pairs, Pairs
  <2>5. CASE ~Echo(Node, table, ogm) /\ ~Updates(Node, table, ogm)
    <3>1. age' = age
      BY <1>3, <2>1, <2>5, RxConfirms, HeardAreOgms DEF Confirming
    <3>2. CASE Examined(Node, ogm) /\ ogm.originator = Node /\ ogm.direct
      <4>1. ogm.sender \in Others /\ Bidirectional(table, ogm.sender)
        BY <2>1, <2>5, <3>2 DEF Echo, Examined, Others
      <4>2. echoed' = echoed \union {ogm.sender}
        BY <1>3, <3>2 DEF RxOgm
      <4>3. Map!Echoed(ogm.sender)
        BY <1>2, <3>1, <4>1, <4>2 DEF Map!Echoed
      <4> QED
        BY <4>1, <4>3 DEF Map!Next
    <3>3. CASE ~(Examined(Node, ogm) /\ ogm.originator = Node /\ ogm.direct)
      <4>1. echoed' = echoed
        BY <1>3, <3>3 DEF RxOgm
      <4> QED
        BY <3>1, <4>1 DEF Map!vars
    <3> QED
      BY <3>2, <3>3
  <2> QED
    BY <2>3, <2>4, <2>5
<1>4. CASE Second
  <2> DEFINE now == (time + 1) % TimeMod
             next == AgesOf(table, now)
  <2>1. KeepsYoung(table, table', time') /\ echoed' = echoed
    BY <1>4, StepPurges
  <2>2. time' = now
    BY <1>4 DEF Second
  <2> HIDE DEF now
  <2>3. ASSUME NEW p \in PairsOf(table) PROVE next[p] = age[p] + 1
    <3>1. PICK i \in 1 .. Len(table) : Pair(table[i]) = p
      BY <1>1, PairsAreIn
    <3>2. next[p] = Age(table[i], now) /\ age[p] = Age(table[i], time)
      BY <1>1, <3>1, AgesAt
    <3>3. Age(table[i], now) = Age(table[i], time) + 1
      BY EntryAges DEF now
    <3> QED
      BY <3>2, <3>3
  <2>4. AgesOf(table', now) = YoungIn(table, now)
    BY <1>1, <2>1, <2>2, YoungAges
  <2>5. age' = AgesOf(table', now)
    BY <2>2, NextAges
  <2> HIDE DEF next
  <2>6. {q \in PairsOf(table) : next[q] <= PURGE_TIMEOUT} =
          {q \in PairsOf(table) : age[q] + 1 <= PURGE_TIMEOUT}
    BY <2>3
  <2> HIDE DEF age
  <2>7. age' = [p \in {q \in PairsOf(table) : age[q] + 1 <= PURGE_TIMEOUT} |-> age[p] + 1]
    BY <2>3, <2>4, <2>5, <2>6 DEF YoungIn, next
  <2>8. Map!Second
    BY <1>2, <2>1, <2>7 DEF Map!Second, Map!Alive, age
  <2> QED
    BY <2>8 DEF Map!Next
<1>5. CASE ShellPurge
  <2>1. KeepsYoung(table, table', time') /\ echoed' = echoed /\ time' = time
    BY <1>5, StepPurges DEF ShellPurge
  <2>2. ASSUME NEW p \in PairsOf(table) PROVE age[p] <= PURGE_TIMEOUT
    <3>1. PICK i \in 1 .. Len(table) : Pair(table[i]) = p
      BY <1>1, PairsAreIn
    <3>2. age[p] = Age(table[i], time)
      BY <1>1, <3>1, AgesAt
    <3> QED
      BY <3>2 DEF Sound, Young
  <2>3. {q \in PairsOf(table) : age[q] <= PURGE_TIMEOUT} = PairsOf(table)
    BY <2>2
  <2>4. AgesOf(table', time) = YoungIn(table, time)
    BY <1>1, <2>1, YoungAges
  <2>5. age' = AgesOf(table', time)
    BY <2>1, NextAges
  <2>6. age = [p \in PairsOf(table) |-> age[p]]
    BY <1>1, AgesAt
  <2> QED
    BY <2>1, <2>3, <2>4, <2>5, <2>6 DEF Map!vars, YoungIn
<1>6. CASE UNCHANGED vars
  BY <1>6 DEF vars, Map!vars
<1> QED
  BY <1>3, <1>4, <1>5, <1>6 DEF Next

\* Every second each route is a second older, and gone once it is older than
\* PURGE_TIMEOUT; the shell's purge changes nothing that a second has not; an
\* OGM confirms at most one pair, and only over a link that is bidirectional.
THEOREM ListIsMap == Spec => ImplementsRouteMap
<1>1. Init => Map!Init
  <2> SUFFICES ASSUME Init PROVE Map!Init
      OBVIOUS
  <2>1. PairsOf(table) = {} /\ echoed = {}
    BY DEF Init, PairsOf
  <2> QED
    BY <2>1 DEF Map!Init, AgesOf
<1> QED
  BY <1>1, InitSound, StepSound, StepMap, PTL DEF Spec, ImplementsRouteMap, Map!Spec

-----------------------------------------------------------------------------
(* What RouteMap says of its map holds of the list. *)

Admitted == \A i \in 1 .. Len(table) : table[i].gateway \in echoed

LEMMA StepAdmitted ==
  ASSUME Sound, Admitted, [Next]_vars PROVE Admitted'
<1>1. ASSUME NEW ogm \in HeardOgms, RxOgm(ogm) PROVE Admitted'
  <2>1. echoed \subseteq echoed'
    BY <1>1 DEF RxOgm
  <2>2. CASE UNCHANGED <<table, heard>>
    BY <2>1, <2>2 DEF Admitted
  <2>3. ASSUME NEW p \in Pairs, Confirming(ogm, p), Confirms(table, table', p, time),
               NEW i \in 1 .. Len(table')
        PROVE  table'[i].gateway \in echoed'
    <3>1. CASE Pair(table'[i]) = p
      <4>1. table'[i].gateway = ogm.sender
        BY <2>3, <3>1 DEF Confirming, EchoPair, HeardPair, Pair
      <4>2. CASE Echo(Node, table, ogm)
        BY <1>1, <4>1, <4>2 DEF RxOgm, Echo
      <4>3. CASE Updates(Node, table, ogm)
        <5>1. \E j \in 1 .. Len(table) : table[j].gateway = ogm.sender
          BY <4>3 DEF Updates, Bidirectional, Sound, TypeOK
        <5> QED
          BY <2>1, <4>1, <5>1 DEF Admitted
      <4> QED
        BY <2>3, <4>2, <4>3 DEF Confirming
    <3>2. CASE Pair(table'[i]) # p
      BY <2>1, <2>3, <3>2 DEF Confirms, Admitted
    <3> QED
      BY <3>1, <3>2
  <2>4. CASE \E p \in Pairs : Confirming(ogm, p) /\ Confirms(table, table', p, time)
    BY <2>3, <2>4 DEF Admitted
  <2> QED
    BY <1>1, <2>2, <2>4, RxConfirms, HeardAreOgms
<1>2. CASE Second \/ ShellPurge
  BY <1>2, StepPurges DEF KeepsYoung, Admitted
<1>3. CASE UNCHANGED vars
  BY <1>3 DEF vars, Admitted
<1> QED
  BY <1>1, <1>2, <1>3 DEF Next

\* We never route through a neighbour that has not echoed one of our OGMs,
\* however long ago and by whichever way its route was renewed since.
THEOREM GatewaysEchoed == Spec => []Map!AdmittedByEcho
<1>1. Init => Sound /\ Admitted
  BY InitSound DEF Init, Admitted
<1>2. Sound /\ Admitted /\ [Next]_vars => Sound' /\ Admitted'
  BY StepSound, StepAdmitted
<1>3. Sound /\ Admitted => Map!AdmittedByEcho
  <2> SUFFICES ASSUME Sound, Admitted, NEW g \in Map!Gateways PROVE g \in echoed
      BY DEF Map!AdmittedByEcho
  <2>1. PICK p \in PairsOf(table) : g = p.gateway
    BY MapOf DEF Map!Gateways
  <2>2. PICK i \in 1 .. Len(table) : Pair(table[i]) = p
    BY <2>1, PairsAreIn DEF Sound, TypeOK, Table
  <2> QED
    BY <2>1, <2>2 DEF Pair, Admitted
<1> QED
  BY <1>1, <1>2, <1>3, PTL DEF Spec

\* The ages in the map never exceed PURGE_TIMEOUT.
THEOREM AgesBounded == Spec => []Map!TypeOK
<1>1. Sound => Map!TypeOK
  <2> SUFFICES ASSUME Sound PROVE Map!TypeOK
      OBVIOUS
  <2> DEFINE age == AgesOf(table, time)
  <2>1. /\ table \in Table /\ Unique(table) /\ echoed \subseteq Others
        /\ DOMAIN age = PairsOf(table)
    BY MapOf DEF Sound, TypeOK, Table
  <2>2. PairsOf(table) \subseteq Map!Pairs
    BY <2>1, PairsAreIn DEF Pairs, Map!Pairs
  <2>3. ASSUME NEW p \in PairsOf(table) PROVE age[p] \in 0 .. PURGE_TIMEOUT
    <3>1. PICK i \in 1 .. Len(table) : Pair(table[i]) = p
      BY <2>1, PairsAreIn
    <3>2. age[p] = Age(table[i], time)
      BY <2>1, <3>1, AgesAt
    <3> QED
      BY <3>2, EntryAges
  <2>4. age = [p \in PairsOf(table) |-> age[p]]
    BY <2>1, AgesAt
  <2> HIDE DEF age
  <2>5. age \in [PairsOf(table) -> 0 .. PURGE_TIMEOUT]
    BY <2>3, <2>4
  <2> QED
    BY <2>1, <2>2, <2>5 DEF Map!TypeOK, age
<1> QED
  BY <1>1, InitSound, StepSound, PTL DEF Spec

\* The table is finite and never outgrows MAX_ROUTE_ENTRIES.
THEOREM TableBounded == Spec => []Map!Bounded
<1>1. Sound => Map!Bounded
  <2> SUFFICES ASSUME Sound PROVE Map!Bounded
      OBVIOUS
  <2>1. table \in Table /\ Unique(table) /\ Len(table) <= MAX_ROUTE_ENTRIES
    BY DEF Sound, TypeOK, Table
  <2>2. IsFiniteSet(PairsOf(table)) /\ Cardinality(PairsOf(table)) = Len(table)
    BY <2>1, AsLongAsPairs
  <2>3. /\ Map!Cardinality(PairsOf(table)) = Cardinality(PairsOf(table))
        /\ Map!IsFiniteSet(PairsOf(table)) = IsFiniteSet(PairsOf(table))
    BY DEF Map!Cardinality, Cardinality, Map!IsFiniteSet, IsFiniteSet
  <2>4. DOMAIN AgesOf(table, time) = PairsOf(table)
    BY MapOf
  <2> QED
    BY <2>1, <2>2, <2>3, <2>4 DEF Map!Bounded
<1> QED
  BY <1>1, InitSound, StepSound, PTL DEF Spec
=============================================================================
