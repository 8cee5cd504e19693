-------------------------- MODULE RouteTableProofs --------------------------
(***************************************************************************)
(* What the operators of RouteTable do, for any table: lemmas for the      *)
(* proofs about one node's table and about several nodes.                  *)
(***************************************************************************)
EXTENDS RouteTable, SequenceTheorems, WellFoundedInduction, TLAPS

\* The least of some natural numbers.
LEMMA LeastExists ==
  ASSUME NEW S, S \subseteq Nat, S # {}
  PROVE  \E x \in S : \A y \in S : x <= y
<1>1. PICK x \in S : \A y \in S : ~ (<<y, x>> \in OpToRel(<, Nat))
  BY NatLessThanWellFounded, WFMin, Zenon
<1>2. \A y \in S : ~ (y < x)
  BY <1>1, Zenon DEF OpToRel
<1> QED
  BY <1>2

\* Induction over the naturals, for a set in place of a predicate.
LEMMA SetInduction ==
  ASSUME NEW S, 0 \in S, \A k \in Nat : k \in S => k + 1 \in S
  PROVE  Nat \subseteq S
<1> SUFFICES ASSUME Nat \ S # {} PROVE FALSE
    OBVIOUS
<1>1. PICK x \in Nat \ S : \A y \in Nat \ S : x <= y
  BY LeastExists
<1>2. x # 0 /\ x - 1 \in S
  BY <1>1
<1> QED
  BY <1>1, <1>2

\* A function defined from the left end of an interval is defined on all of it.
LEMMA RecursionExists ==
  ASSUME NEW D, NEW d \in D, NEW N \in Nat, NEW next \in [1 .. N -> [D -> D]]
  PROVE  \E f \in [0 .. N -> D] :
           f[0] = d /\ \A i \in 1 .. N : f[i] = next[i][f[i - 1]]
<1> DEFINE Upto(k) == \E f \in [0 .. k -> D] :
             f[0] = d /\ \A i \in 1 .. k : f[i] = next[i][f[i - 1]]
           S == {k \in Nat : k <= N => Upto(k)}
<1>1. 0 \in S
  <2> DEFINE f == [i \in 0 .. 0 |-> d]
  <2>1. f \in [0 .. 0 -> D] /\ f[0] = d
    OBVIOUS
  <2>2. 1 .. 0 = {}
    OBVIOUS
  <2> HIDE DEF f
  <2>3. Upto(0)
    BY <2>1, <2>2
  <2> QED
    BY <2>3
<1>2. ASSUME NEW k \in Nat, k \in S PROVE k + 1 \in S
  <2> SUFFICES ASSUME k + 1 <= N PROVE Upto(k + 1)
      OBVIOUS
  <2>1. PICK f \in [0 .. k -> D] :
          f[0] = d /\ \A i \in 1 .. k : f[i] = next[i][f[i - 1]]
    BY <1>2
  <2> DEFINE g == [i \in 0 .. k + 1 |-> IF i = k + 1 THEN next[k + 1][f[k]] ELSE f[i]]
  <2>2. next[k + 1] \in [D -> D] /\ f[k] \in D
    OBVIOUS
  <2>3. g \in [0 .. k + 1 -> D]
    BY <2>2
  <2>4. g[0] = d
    BY <2>1
  <2>5. ASSUME NEW i \in 1 .. k + 1 PROVE g[i] = next[i][g[i - 1]]
    BY <2>1
  <2> QED
    BY <2>3, <2>4, <2>5
<1> HIDE DEF S
<1>3. Nat \subseteq S
  BY <1>1, <1>2, SetInduction
<1> QED
  BY <1>3 DEF S

\* What the walk of Keep has built after i entries.
Walk(table, S, kept) ==
  kept = [i \in 0 .. Len(table) |->
            IF i = 0 THEN <<>>
            ELSE IF i \in S THEN Append(kept[i - 1], table[i]) ELSE kept[i - 1]]

LEMMA KeepWalks ==
  ASSUME NEW R, NEW t \in Seq(R), NEW S
  PROVE  \E kept \in [0 .. Len(t) -> Seq(R)] :
           /\ Keep(t, S) = kept[Len(t)]
           /\ kept[0] = <<>>
           /\ \A i \in 1 .. Len(t) :
                kept[i] = IF i \in S THEN Append(kept[i - 1], t[i])
                                     ELSE kept[i - 1]
<1> DEFINE N == Len(t)
           D == Seq(R)
           d == <<>>
           next == [i \in 1 .. N |-> [s \in D |->
                      IF i \in S THEN Append(s, t[i]) ELSE s]]
<1>1. N \in Nat /\ d \in D
  OBVIOUS
<1>2. next \in [1 .. N -> [D -> D]]
  OBVIOUS
<1>3. \A i \in 1 .. N, s \in D :
        next[i][s] = IF i \in S THEN Append(s, t[i]) ELSE s
  OBVIOUS
<1> HIDE DEF next, D, N, d
<1>4. PICK f \in [0 .. N -> D] :
        f[0] = d /\ \A i \in 1 .. N : f[i] = next[i][f[i - 1]]
  BY <1>1, <1>2, RecursionExists, SMTT(30)
<1>5. \A i \in 1 .. N : f[i] = IF i \in S THEN Append(f[i - 1], t[i]) ELSE f[i - 1]
  BY <1>1, <1>3, <1>4
<1>6. Walk(t, S, f)
  <2>1. f = [i \in 0 .. N |-> f[i]]
    OBVIOUS
  <2>2. \A i \in 0 .. N : i = 0 \/ i \in 1 .. N
    BY <1>1
  <2> DEFINE e(i) == IF i = 0 THEN <<>>
                     ELSE IF i \in S THEN Append(f[i - 1], t[i]) ELSE f[i - 1]
  <2>3. \A i \in 0 .. N : f[i] = e(i)
    BY <1>4, <1>5, <2>2 DEF d
  <2> HIDE DEF e
  <2>4. f = [i \in 0 .. N |-> e(i)]
    BY <2>3
  <2> QED
    BY <2>4 DEF Walk, e, N
<1> DEFINE kept == CHOOSE g : Walk(t, S, g)
<1>7. Walk(t, S, kept)
  BY <1>6
<1>8. Keep(t, S) = kept[Len(t)]
  BY DEF Keep, Walk
<1> HIDE DEF kept
<1>9. /\ kept[0] = <<>>
      /\ \A i \in 1 .. N : kept[i] = IF i \in S THEN Append(kept[i - 1], t[i])
                                                 ELSE kept[i - 1]
  <2> DEFINE e(i) == IF i = 0 THEN <<>>
                     ELSE IF i \in S THEN Append(kept[i - 1], t[i]) ELSE kept[i - 1]
  <2>1. kept = [i \in 0 .. N |-> e(i)]
    BY <1>7 DEF Walk, N
  <2> HIDE DEF e
  <2>2. \A i \in 0 .. N : kept[i] = e(i)
    BY <2>1
  <2>3. 0 \in 0 .. N /\ \A i \in 1 .. N : i \in 0 .. N /\ i # 0
    BY <1>1
  <2> QED
    BY <2>2, <2>3 DEF e
<1> DEFINE K == {i \in Nat : i <= N => kept[i] \in Seq(R)}
<1>10. 0 \in K
  <2>1. kept[0] \in Seq(R)
    BY <1>1, <1>9 DEF D, d
  <2> QED
    BY <2>1
<1>11. ASSUME NEW k \in Nat, k \in K PROVE k + 1 \in K
  <2> SUFFICES ASSUME k + 1 <= N PROVE kept[k + 1] \in Seq(R)
      OBVIOUS
  <2>1. kept[k] \in Seq(R) /\ t[k + 1] \in R
    BY <1>1, <1>11 DEF N
  <2>2. kept[k + 1] = IF k + 1 \in S THEN Append(kept[k], t[k + 1]) ELSE kept[k]
    BY <1>1, <1>9
  <2> QED
    BY <2>1, <2>2
<1> HIDE DEF K
<1>12. Nat \subseteq K
  BY <1>10, <1>11, SetInduction
<1>13. \A i \in 0 .. N : kept[i] \in Seq(R)
  BY <1>1, <1>12 DEF K
<1>14. kept \in [0 .. N -> Seq(R)]
  BY <1>7, <1>13 DEF Walk, N
<1> QED
  BY <1>8, <1>9, <1>14 DEF N

\* What Keep returns: the entries at the places of S, each once and in order.
LEMMA KeepKeeps ==
  ASSUME NEW R, NEW t \in Seq(R), NEW S
  PROVE  LET k == Keep(t, S)
         IN /\ k \in Seq(R) /\ Len(k) <= Len(t)
            /\ \E from \in [1 .. Len(k) -> DOMAIN t \intersect S] :
                 /\ \A i \in 1 .. Len(k) : k[i] = t[from[i]]
                 /\ \A i, j \in 1 .. Len(k) : i < j => from[i] < from[j]
                 /\ \A p \in DOMAIN t \intersect S :
                      \E i \in 1 .. Len(k) : from[i] = p
<1>1. PICK kept \in [0 .. Len(t) -> Seq(R)] :
        /\ Keep(t, S) = kept[Len(t)]
        /\ kept[0] = <<>>
        /\ \A i \in 1 .. Len(t) :
             kept[i] = IF i \in S THEN Append(kept[i - 1], t[i])
                                  ELSE kept[i - 1]
  BY KeepWalks
<1> DEFINE N == Len(t)
           From(n, s, from) ==
             /\ from \in [1 .. Len(s) -> (1 .. n) \intersect S]
             /\ \A i \in 1 .. Len(s) : s[i] = t[from[i]]
             /\ \A i, j \in 1 .. Len(s) : i < j => from[i] < from[j]
             /\ \A p \in (1 .. n) \intersect S : \E i \in 1 .. Len(s) : from[i] = p
           K == {n \in Nat : n <= N =>
                   Len(kept[n]) <= n /\ \E from : From(n, kept[n], from)}
<1>2. N \in Nat /\ DOMAIN t = 1 .. N
  OBVIOUS
<1>3. \A n \in 0 .. N : kept[n] \in Seq(R) /\ Len(kept[n]) \in Nat
  OBVIOUS
<1>4. 0 \in K
  <2>1. Len(kept[0]) = 0
    BY <1>1
  <2>2. 1 .. 0 = {}
    OBVIOUS
  <2> DEFINE none == [i \in 1 .. 0 |-> 0]
  <2>3. none \in [1 .. 0 -> (1 .. 0) \intersect S]
    BY <2>2
  <2> HIDE DEF none
  <2>4. From(0, kept[0], none)
    BY <2>1, <2>2, <2>3
  <2> HIDE DEF From
  <2> QED
    BY <2>1, <2>4
<1>5. ASSUME NEW n \in Nat, n \in K PROVE n + 1 \in K
  <2> SUFFICES ASSUME n + 1 <= N
               PROVE  Len(kept[n + 1]) <= n + 1 /\ \E from : From(n + 1, kept[n + 1], from)
    <3> HIDE DEF From
    <3> QED
      OBVIOUS
  <2> DEFINE s == kept[n]
             m == Len(s)
  <2>1. m <= n /\ s \in Seq(R) /\ m \in Nat /\ t[n + 1] \in R
    BY <1>2, <1>5
  <2>2. PICK from : From(n, s, from)
    BY <1>2, <1>5
  <2>3. CASE n + 1 \in S
    <3> DEFINE s2 == Append(s, t[n + 1])
               f2 == [i \in 1 .. m + 1 |-> IF i = m + 1 THEN n + 1 ELSE from[i]]
    <3>1. kept[n + 1] = s2
      <4>1. n + 1 \in 1 .. N /\ (n + 1) - 1 = n
        BY <1>2
      <4>2. kept[n + 1] = Append(kept[(n + 1) - 1], t[n + 1])
        BY <1>1, <2>3, <4>1, Zenon
      <4> QED
        BY <4>1, <4>2
    <3>2. /\ Len(s2) = m + 1
          /\ \A i \in 1 .. m : s2[i] = s[i]
          /\ s2[m + 1] = t[n + 1]
      BY <2>1
    <3> HIDE DEF s2, m, s
    <3>3. \A i \in 1 .. m : from[i] \in (1 .. n) \intersect S
      BY <2>2 DEF m
    <3>4. f2 \in [1 .. m + 1 -> (1 .. n + 1) \intersect S]
      BY <2>1, <2>3, <3>3
    <3>5. \A i \in 1 .. m + 1 : s2[i] = t[f2[i]]
      BY <2>1, <2>2, <3>2 DEF m
    <3>6. \A i, j \in 1 .. m + 1 : i < j => f2[i] < f2[j]
      <4> SUFFICES ASSUME NEW i \in 1 .. m + 1, NEW j \in 1 .. m + 1, i < j
                   PROVE  f2[i] < f2[j]
          OBVIOUS
      <4>1. i \in 1 .. m /\ f2[i] = from[i]
        BY <2>1
      <4>2. CASE j = m + 1
        BY <3>3, <4>1, <4>2
      <4>3. CASE j # m + 1
        <5>1. j \in 1 .. m /\ f2[j] = from[j]
          BY <2>1, <4>3
        <5> QED
          BY <2>2, <4>1, <5>1 DEF m
      <4> QED
        BY <4>2, <4>3
    <3>7. \A p \in (1 .. n + 1) \intersect S : \E i \in 1 .. m + 1 : f2[i] = p
      <4> SUFFICES ASSUME NEW p \in (1 .. n + 1) \intersect S
                   PROVE  \E i \in 1 .. m + 1 : f2[i] = p
          OBVIOUS
      <4>1. CASE p = n + 1
        <5>1. m + 1 \in 1 .. m + 1 /\ f2[m + 1] = n + 1
          BY <2>1
        <5> QED
          BY <4>1, <5>1
      <4>2. CASE p # n + 1
        <5>1. PICK i \in 1 .. m : from[i] = p
          BY <2>2, <4>2 DEF m
        <5>2. i \in 1 .. m + 1 /\ f2[i] = from[i]
          BY <2>1
        <5> QED
          BY <5>1, <5>2
      <4> QED
        BY <4>1, <4>2
    <3> HIDE DEF f2
    <3>8. From(n + 1, s2, f2)
      BY <3>2, <3>4, <3>5, <3>6, <3>7
    <3> HIDE DEF From
    <3> QED
      BY <2>1, <3>1, <3>2, <3>8
  <2>4. CASE n + 1 \notin S
    <3>1. kept[n + 1] = s
      BY <1>1, <1>2, <2>4
    <3>2. (1 .. n + 1) \intersect S = (1 .. n) \intersect S
      BY <2>4
    <3>3. From(n + 1, s, from)
      BY <2>2, <3>2
    <3> HIDE DEF From, s
    <3> QED
      BY <2>1, <3>1, <3>3
  <2> QED
    BY <2>3, <2>4
<1> HIDE DEF K
<1>6. N \in K
  BY <1>2, <1>4, <1>5, SetInduction
<1>7. Len(kept[N]) <= N /\ \E from : From(N, kept[N], from)
  BY <1>2, <1>6 DEF K
<1>8. kept[N] = Keep(t, S) /\ kept[N] \in Seq(R)
  BY <1>1, <1>2, <1>3
<1> DEFINE k == Keep(t, S)
<1>9. k \in Seq(R) /\ Len(k) <= N /\ \E from : From(N, k, from)
  <2> HIDE DEF From
  <2> QED
    BY <1>7, <1>8
<1> HIDE DEF k
<1>10. \E from \in [1 .. Len(k) -> DOMAIN t \intersect S] :
         /\ \A i \in 1 .. Len(k) : k[i] = t[from[i]]
         /\ \A i, j \in 1 .. Len(k) : i < j => from[i] < from[j]
         /\ \A p \in DOMAIN t \intersect S : \E i \in 1 .. Len(k) : from[i] = p
  BY <1>2, <1>9
<1> QED
  BY <1>9, <1>10 DEF k

LEMMA ModRange ==
  ASSUME NEW x \in Int, NEW n \in Nat \ {0} PROVE x % n \in 0 .. n - 1
  OBVIOUS

\* The purge keeps what is young enough, each entry once and in order, and
\* nothing else.
LEMMA PurgeKeeps ==
  ASSUME NEW R, NEW t \in Seq(R), NEW now
  PROVE  LET k == Purge(t, now)
         IN /\ k \in Seq(R) /\ Len(k) <= Len(t)
            /\ \E from \in [1 .. Len(k) -> 1 .. Len(t)] :
                 /\ \A i \in 1 .. Len(k) :
                      k[i] = t[from[i]] /\ Age(k[i], now) <= PURGE_TIMEOUT
                 /\ \A i, j \in 1 .. Len(k) : i < j => from[i] < from[j]
                 /\ \A p \in 1 .. Len(t) :
                      Age(t[p], now) <= PURGE_TIMEOUT =>
                        \E i \in 1 .. Len(k) : from[i] = p
<1> DEFINE S == {i \in DOMAIN t : Age(t[i], now) <= PURGE_TIMEOUT}
           k == Keep(t, S)
<1>1. PICK from \in [1 .. Len(k) -> DOMAIN t \intersect S] :
        /\ \A i \in 1 .. Len(k) : k[i] = t[from[i]]
        /\ \A i, j \in 1 .. Len(k) : i < j => from[i] < from[j]
        /\ \A p \in DOMAIN t \intersect S : \E i \in 1 .. Len(k) : from[i] = p
  <2> HIDE DEF S
  <2> QED
    BY KeepKeeps, SMTT(30)
<1>2. k \in Seq(R) /\ Len(k) <= Len(t)
  <2> HIDE DEF S
  <2> QED
    BY KeepKeeps
<1>3. Purge(t, now) = k
  BY DEF Purge
<1> HIDE DEF k
<1>4. DOMAIN t = 1 .. Len(t)
  OBVIOUS
<1>5. from \in [1 .. Len(k) -> 1 .. Len(t)]
  BY <1>1, <1>4
<1>6. \A i \in 1 .. Len(k) : k[i] = t[from[i]] /\ Age(k[i], now) <= PURGE_TIMEOUT
  BY <1>1
<1>7. \A p \in 1 .. Len(t) : Age(t[p], now) <= PURGE_TIMEOUT =>
        \E i \in 1 .. Len(k) : from[i] = p
  BY <1>1, <1>4
<1> QED
  BY <1>1, <1>2, <1>3, <1>5, <1>6, <1>7

LEMMA PurgeEntries ==
  ASSUME NEW R, NEW t \in Seq(R), NEW now
  PROVE  LET k == Purge(t, now)
         IN \A i \in 1 .. Len(k) : \E j \in 1 .. Len(t) : k[i] = t[j]
<1> DEFINE k == Purge(t, now)
<1>1. PICK from \in [1 .. Len(k) -> 1 .. Len(t)] :
        /\ \A i \in 1 .. Len(k) : k[i] = t[from[i]] /\ Age(k[i], now) <= PURGE_TIMEOUT
        /\ \A i, j \in 1 .. Len(k) : i < j => from[i] < from[j]
        /\ \A p \in 1 .. Len(t) : Age(t[p], now) <= PURGE_TIMEOUT =>
              \E i \in 1 .. Len(k) : from[i] = p
  BY PurgeKeeps
<1> QED
  BY <1>1

\* A new pair goes to the tail; a full table stays as it is.
LEMMA SaveNew ==
  ASSUME NEW node, NEW t \in Seq(Route(node)),
         NEW target \in Nodes \ {node}, NEW gateway \in Nodes \ {node},
         NEW seqno \in 0 .. SeqMod - 1, NEW now \in 0 .. TimeMod - 1,
         Found(t, target, gateway) = {}
  PROVE  LET s == Save(t, target, gateway, seqno, now)
             r == s[Len(t) + 1]
         IN /\ s \in Seq(Route(node))
            /\ Full(t) => s = t
            /\ ~Full(t) =>
                 /\ Len(s) = Len(t) + 1
                 /\ \A i \in 1 .. Len(t) : s[i] = t[i]
                 /\ r.target = target /\ r.gateway = gateway
                 /\ r.time = now /\ r.cnt = 1 % CntMod
<1> DEFINE new == [target |-> target, gateway |-> gateway, seqno |-> seqno,
                   time |-> now, cnt |-> 1 % CntMod, lost |-> 0]
<1>1. Save(t, target, gateway, seqno, now) = IF Full(t) THEN t ELSE Append(t, new)
  BY DEF Save
<1>2. new \in Route(node)
  BY ModRange, TableAssumption DEF Route, TableAssumption
<1> QED
  BY <1>1, <1>2

\* Only the entry of a known pair changes, and what it confirms is kept.
LEMMA SaveKnown ==
  ASSUME NEW node, NEW t \in Seq(Route(node)),
         NEW target \in Nodes \ {node}, NEW gateway \in Nodes \ {node},
         NEW seqno \in 0 .. SeqMod - 1, NEW now \in 0 .. TimeMod - 1,
         Found(t, target, gateway) # {}
  PROVE  LET s == Save(t, target, gateway, seqno, now)
         IN /\ s \in Seq(Route(node)) /\ Len(s) = Len(t)
            /\ \E i \in 1 .. Len(t) :
                 /\ t[i].target = target /\ t[i].gateway = gateway
                 /\ s[i].target = target /\ s[i].gateway = gateway
                 /\ s[i].time = now /\ s[i].cnt = (t[i].cnt + 1) % CntMod
                 /\ \A j \in 1 .. Len(t) : j # i => s[j] = t[j]
<1> DEFINE found == Found(t, target, gateway)
           least == CHOOSE i \in found : \A j \in found : i <= j
<1>1. DOMAIN t = 1 .. Len(t) /\ Len(t) \in Nat
  OBVIOUS
<1>2. found \subseteq 1 .. Len(t) /\ found # {}
  BY <1>1 DEF Found
<1>3. least \in found
  <2> HIDE DEF found
  <2>1. found \subseteq Nat
    BY <1>1, <1>2
  <2>2. PICK i \in found : \A j \in found : i <= j
    BY <1>2, <2>1, LeastExists
  <2> QED
    BY <2>2
<1> HIDE DEF least
<1>4. /\ least \in 1 .. Len(t)
      /\ t[least].target = target /\ t[least].gateway = gateway
  BY <1>2, <1>3 DEF Found
<1> DEFINE r == t[least]
           u == Confirmed(r, seqno, now)
<1>5. r \in Route(node)
  BY <1>4
<1>6. Gap(r, seqno) \in Int
  BY <1>5 DEF Gap, Route
<1>7. u \in Route(node)
  <2> HIDE DEF r
  <2>1. /\ (r.cnt + 1) % CntMod \in 0 .. CntMod - 1
        /\ (r.lost + Gap(r, seqno)) % SeqMod \in 0 .. SeqMod - 1
    <3>1. r.cnt + 1 \in Int /\ r.lost + Gap(r, seqno) \in Int
      BY <1>5, <1>6 DEF Route
    <3>2. CntMod \in Nat \ {0} /\ SeqMod \in Nat \ {0}
      BY TableAssumption DEF TableAssumption
    <3> QED
      BY <3>1, <3>2, ModRange
  <2> QED
    BY <1>5, <2>1 DEF Route, Confirmed
<1>8. Save(t, target, gateway, seqno, now) = [t EXCEPT ![least] = u]
  BY <1>2 DEF Save, least
<1>9. /\ u.target = target /\ u.gateway = gateway /\ u.time = now
      /\ u.cnt = (r.cnt + 1) % CntMod
  BY <1>4, <1>5 DEF Route, Confirmed
<1> HIDE DEF u
<1> QED
  BY <1>1, <1>4, <1>7, <1>8, <1>9

\* A table s of node with no pairs but those of t and one other.
OldPairsOr(node, s, t, target, gateway) ==
  /\ s \in Seq(Route(node))
  /\ Len(t) <= MAX_ROUTE_ENTRIES => Len(s) <= MAX_ROUTE_ENTRIES
  /\ \A i \in 1 .. Len(s) :
       \/ s[i].target = target /\ s[i].gateway = gateway
       \/ \E j \in 1 .. Len(t) : /\ s[i].target = t[j].target
                                 /\ s[i].gateway = t[j].gateway

\* Whatever Save does, the pairs in the table are the old ones and its own.
LEMMA SavePairs ==
  ASSUME NEW node, NEW t \in Seq(Route(node)),
         NEW target \in Nodes \ {node}, NEW gateway \in Nodes \ {node},
         NEW seqno \in 0 .. SeqMod - 1, NEW now \in 0 .. TimeMod - 1
  PROVE  OldPairsOr(node, Save(t, target, gateway, seqno, now), t, target, gateway)
<1> DEFINE s == Save(t, target, gateway, seqno, now)
<1>1. Len(t) \in Nat /\ MAX_ROUTE_ENTRIES \in Nat
  BY TableAssumption DEF TableAssumption
<1>2. CASE Found(t, target, gateway) = {}
  <2>1. /\ s \in Seq(Route(node))
        /\ Full(t) => s = t
        /\ ~Full(t) =>
             /\ Len(s) = Len(t) + 1
             /\ \A i \in 1 .. Len(t) : s[i] = t[i]
             /\ s[Len(t) + 1].target = target /\ s[Len(t) + 1].gateway = gateway
    BY <1>2, SaveNew
  <2>2. CASE Full(t)
    <3>1. s = t
      BY <2>1, <2>2
    <3> HIDE DEF OldPairsOr, s
    <3> QED
      BY <3>1 DEF OldPairsOr, s
  <2>3. CASE ~Full(t)
    <3>1. /\ Len(s) = Len(t) + 1 /\ Len(t) # MAX_ROUTE_ENTRIES
          /\ \A i \in 1 .. Len(t) : s[i] = t[i]
          /\ s[Len(t) + 1].target = target /\ s[Len(t) + 1].gateway = gateway
      BY <2>1, <2>3 DEF Full
    <3> HIDE DEF OldPairsOr, s
    <3> QED
      BY <1>1, <2>1, <3>1 DEF OldPairsOr, s
  <2> QED
    BY <2>2, <2>3
<1>3. CASE Found(t, target, gateway) # {}
  <2>1. s \in Seq(Route(node)) /\ Len(s) = Len(t)
    BY <1>3, SaveKnown
  <2>2. PICK i \in 1 .. Len(t) :
          /\ s[i].target = target /\ s[i].gateway = gateway
          /\ \A j \in 1 .. Len(t) : j # i => s[j] = t[j]
    BY <1>3, SaveKnown
  <2> HIDE DEF OldPairsOr, s
  <2> QED
    BY <1>1, <2>1, <2>2 DEF OldPairsOr, s
<1> QED
  BY <1>2, <1>3

\* So it is with an OGM: what it adds is a neighbour that echoed it, or its
\* originator by way of a gateway already in the table.
LEMMA TableAfterPairs ==
  ASSUME NEW node \in Nodes, NEW t \in Seq(Route(node)),
         NEW ogm \in Ogm, NEW now \in 0 .. TimeMod - 1
  PROVE  LET s == TableAfter(node, t, ogm, now)
         IN /\ s \in Seq(Route(node))
            /\ Len(t) <= MAX_ROUTE_ENTRIES => Len(s) <= MAX_ROUTE_ENTRIES
            /\ \A i \in 1 .. Len(s) :
                 \/ \E j \in 1 .. Len(t) : /\ s[i].target = t[j].target
                                           /\ s[i].gateway = t[j].gateway
                 \/ /\ Echo(node, t, ogm)
                    /\ s[i].target = ogm.sender /\ s[i].gateway = ogm.sender
                 \/ /\ Updates(node, t, ogm)
                    /\ s[i].target = ogm.originator /\ s[i].gateway = ogm.sender
<1> DEFINE s == TableAfter(node, t, ogm, now)
<1>1. /\ ogm.sender \in Nodes /\ ogm.originator \in Nodes
      /\ ogm.seqno \in 0 .. SeqMod - 1 /\ 0 \in 0 .. SeqMod - 1
  BY TableAssumption DEF Ogm, TableAssumption
<1>2. CASE Echo(node, t, ogm)
  <2>1. ogm.sender \in Nodes \ {node}
    BY <1>1, <1>2 DEF Echo, Examined
  <2>2. s = Save(t, ogm.sender, ogm.sender, 0, now)
    BY <1>2 DEF TableAfter
  <2> HIDE DEF s
  <2>3. OldPairsOr(node, s, t, ogm.sender, ogm.sender)
    BY <1>1, <2>1, <2>2, SavePairs
  <2> QED
    BY <1>2, <2>3 DEF OldPairsOr, s
<1>3. CASE ~Echo(node, t, ogm) /\ Updates(node, t, ogm)
  <2>1. ogm.sender \in Nodes \ {node} /\ ogm.originator \in Nodes \ {node}
    BY <1>1, <1>3 DEF Updates, Relayed, Examined
  <2>2. s = Save(t, ogm.originator, ogm.sender, ogm.seqno, now)
    BY <1>3 DEF TableAfter
  <2> HIDE DEF s
  <2>3. OldPairsOr(node, s, t, ogm.originator, ogm.sender)
    BY <1>1, <2>1, <2>2, SavePairs
  <2> QED
    BY <1>3, <2>3 DEF OldPairsOr, s
<1>4. CASE ~Echo(node, t, ogm) /\ ~Updates(node, t, ogm)
  <2>1. s = t
    BY <1>4 DEF TableAfter
  <2> HIDE DEF s
  <2> QED
    BY <2>1 DEF s
<1> QED
  BY <1>2, <1>3, <1>4

\* There is a best route when there is one at all, and none was heard more.
LEMMA BestIsBest ==
  ASSUME NEW node, NEW t \in Seq(Route(node)), NEW target,
         RoutePresent(t, target)
  PROVE  LET b == Best(t, target)
         IN /\ b \in 1 .. Len(t) /\ t[b].target = target
            /\ \A j \in RoutesTo(t, target) : t[j].cnt <= t[b].cnt
<1> DEFINE to == RoutesTo(t, target)
           slack == {CntMod - t[i].cnt : i \in to}
<1>1. to # {} /\ to \subseteq 1 .. Len(t) /\ \A i \in to : t[i].target = target
  BY DEF RoutePresent, RoutesTo
<1>2. CntMod \in Nat /\ \A i \in to : t[i].cnt \in 0 .. CntMod - 1
  <2>1. \A i \in to : t[i] \in Route(node)
    BY <1>1
  <2> HIDE DEF to
  <2> QED
    BY <2>1, TableAssumption DEF TableAssumption, Route
<1> HIDE DEF to
<1>3. slack \subseteq Nat /\ slack # {}
  <2>1. \A i \in to : CntMod - t[i].cnt \in Nat
    BY <1>2
  <2> QED
    BY <1>1, <2>1
<1>4. PICK m \in slack : \A k \in slack : m <= k
  BY <1>3, LeastExists
<1> DEFINE most == {i \in to : CntMod - t[i].cnt = m}
<1>5. most \subseteq Nat /\ most # {}
  <2>1. most \subseteq to /\ to \subseteq Nat
    BY <1>1
  <2>2. \E i \in to : m = CntMod - t[i].cnt
    BY <1>4
  <2> QED
    BY <2>1, <2>2
<1>6. PICK i \in most : \A j \in most : i <= j
  BY <1>5, LeastExists
<1>7. i \in to /\ i \in Nat /\ CntMod - t[i].cnt = m
  BY <1>5, <1>6
<1>8. \A j \in to : t[j].cnt < t[i].cnt \/ (t[j].cnt = t[i].cnt /\ i <= j)
  <2> SUFFICES ASSUME NEW j \in to
               PROVE  t[j].cnt < t[i].cnt \/ (t[j].cnt = t[i].cnt /\ i <= j)
      OBVIOUS
  <2>1. m <= CntMod - t[j].cnt
    BY <1>4
  <2>2. CntMod - t[j].cnt = m => i <= j
    BY <1>6
  <2>3. t[i].cnt \in Nat /\ t[j].cnt \in Nat /\ j \in Nat
    BY <1>1, <1>2, <1>7
  <2> HIDE DEF slack, most
  <2>4. t[j].cnt <= t[i].cnt
    BY <1>2, <1>7, <2>1, <2>3
  <2>5. t[j].cnt = t[i].cnt => i <= j
    BY <1>7, <2>2
  <2> QED
    BY <2>3, <2>4, <2>5
<1> DEFINE IsBest(k) == /\ k \in to
                        /\ \A j \in to : t[j].cnt < t[k].cnt \/ (t[j].cnt = t[k].cnt /\ k <= j)
           b == CHOOSE k \in to :
                  \A j \in to : t[j].cnt < t[k].cnt \/ (t[j].cnt = t[k].cnt /\ k <= j)
<1>9. IsBest(b)
  BY <1>7, <1>8
<1>10. b = Best(t, target)
  BY DEF Best, to
<1> HIDE DEF b
<1>11. b \in to /\ \A j \in to : t[j].cnt <= t[b].cnt
  BY <1>2, <1>9
<1> QED
  BY <1>1, <1>10, <1>11 DEF to
=============================================================================
