---------------------------- MODULE UartTxProofs ----------------------------
(***************************************************************************)
(* Theorems about UartTx for every size of the ring, length of strings and *)
(* of messages.                                                            *)
(***************************************************************************)
EXTENDS UartTx, SequenceTheorems, TLAPS

Byte == Char \union {Null}

\* A pointer stays inside the ring: Place is one of its offsets, and one past
\* a place is the next one.
LEMMA PlaceWraps ==
  ASSUME NEW r \in R!Ring, NEW k \in 0 .. max
  PROVE  /\ R!Place(r, k) \in 0 .. max - 1
         /\ k < max => R!Wrap(R!Place(r, k) + 1) = R!Place(r, k + 1)
<1>1. r.start \in 0 .. max - 1 /\ max \in Nat \ {0} /\ k \in Nat
  BY UartTxAssumption DEF R!Ring
<1>2. R!Place(r, k) \in 0 .. max - 1
  BY <1>1 DEF R!Place
<1>3. ASSUME k < max PROVE R!Wrap(R!Place(r, k) + 1) = R!Place(r, k + 1)
  BY <1>1, <1>3 DEF R!Place, R!Wrap
<1> QED
  BY <1>2, <1>3

\* Places of bytes in the ring are different.
LEMMA PlaceInjective ==
  ASSUME NEW r \in R!Ring, NEW j \in 0 .. max - 1, NEW k \in 0 .. max - 1,
         j # k
  PROVE  R!Place(r, j) # R!Place(r, k)
<1>1. r.start \in 0 .. max - 1 /\ max \in Nat \ {0}
  BY UartTxAssumption DEF R!Ring
<1> QED
  BY <1>1 DEF R!Place

\* What a ring holds is a sequence of bytes, one for each that it counts.
LEMMA ContentsType ==
  ASSUME NEW r \in R!Ring
  PROVE  /\ R!Contents(r) \in Seq(Byte) /\ Len(R!Contents(r)) = r.size
         /\ \A k \in 1 .. r.size : R!Contents(r)[k] = r.buf[R!Place(r, k - 1)]
<1>1. r.size \in 0 .. max /\ r.buf \in [0 .. max - 1 -> Byte]
  BY DEF R!Ring, Byte
<1>2. ASSUME NEW k \in 1 .. r.size PROVE r.buf[R!Place(r, k - 1)] \in Byte
  <2>1. k - 1 \in 0 .. max
    BY <1>1, UartTxAssumption
  <2>2. R!Place(r, k - 1) \in 0 .. max - 1
    BY <2>1, PlaceWraps
  <2> QED
    BY <1>1, <2>2
<1> QED
  BY <1>1, <1>2 DEF R!Contents

\* ringbuf_add on a ring that is not full appends to its contents.
LEMMA AddAppends ==
  ASSUME NEW r \in R!Ring, R!Agrees(r), ~R!IsFull(r), NEW b \in Byte
  PROVE  /\ R!Add(r, b) \in R!Ring
         /\ R!Agrees(R!Add(r, b))
         /\ R!Contents(R!Add(r, b)) = Append(R!Contents(r), b)
<1> DEFINE s == R!Add(r, b)
<1>1. r.size \in 0 .. max - 1 /\ r.start \in 0 .. max - 1 /\ max \in Nat \ {0}
      /\ r.buf \in [0 .. max - 1 -> Byte] /\ r.end \in 0 .. max - 1
  BY UartTxAssumption DEF R!Ring, R!IsFull, Byte
<1>2. /\ s.buf = [r.buf EXCEPT ![r.end] = b] /\ s.start = r.start
      /\ s.end = R!Wrap(r.end + 1) /\ s.size = r.size + 1
  BY DEF R!Add
<1>3. R!Wrap(r.end + 1) = R!Place(r, r.size + 1)
      /\ R!Place(r, r.size + 1) \in 0 .. max - 1
  <2>1. r.size \in 0 .. max /\ r.size < max /\ r.size + 1 \in 0 .. max
    BY <1>1
  <2> QED
    BY <2>1, PlaceWraps DEF R!Agrees
<1>4. s \in R!Ring
  BY <1>1, <1>3 DEF R!Add, R!Ring, Byte
<1>5. \A k : R!Place(s, k) = R!Place(r, k)
  BY <1>2 DEF R!Place
<1>6. R!Agrees(s)
  BY <1>2, <1>3, <1>5 DEF R!Agrees
<1> HIDE DEF s
<1>7. ASSUME NEW k \in 1 .. s.size
      PROVE  R!Contents(s)[k] = Append(R!Contents(r), b)[k]
  <2>1. R!Contents(s)[k] = s.buf[R!Place(r, k - 1)]
    BY <1>4, <1>5, ContentsType
  <2>2. k \in 1 .. r.size + 1 /\ k - 1 \in 0 .. max - 1
    BY <1>1, <1>2
  <2>3. CASE k = r.size + 1
    <3>1. R!Place(r, k - 1) = r.end
      BY <1>1, <2>3 DEF R!Agrees
    <3> QED
      BY <3>1, <2>1, <2>3, <1>1, <1>2, ContentsType
  <2>4. CASE k # r.size + 1
    <3>1. k - 1 \in 0 .. max /\ k - 1 # r.size /\ k \in 1 .. r.size
      BY <2>2, <2>4, <1>1
    <3>2. R!Place(r, k - 1) # r.end
      BY <3>1, <2>2, <1>1, PlaceInjective DEF R!Agrees
    <3>3. R!Place(r, k - 1) \in 0 .. max - 1
      BY <3>1, PlaceWraps
    <3>4. R!Contents(r)[k] = r.buf[R!Place(r, k - 1)]
      BY <3>1, ContentsType
    <3>5. R!Contents(s)[k] = R!Contents(r)[k]
      BY <3>2, <3>3, <3>4, <2>1, <1>1, <1>2
    <3>6. R!Contents(r) \in Seq(Byte) /\ Len(R!Contents(r)) = r.size
      BY ContentsType
    <3> QED
      BY <3>1, <3>5, <3>6, AppendProperties
  <2> QED
    BY <2>3, <2>4
<1>8. R!Contents(s) = Append(R!Contents(r), b)
  <2>1. /\ R!Contents(s) \in Seq(Byte) /\ Len(R!Contents(s)) = r.size + 1
        /\ R!Contents(r) \in Seq(Byte) /\ Len(R!Contents(r)) = r.size
    BY <1>2, <1>4, ContentsType
  <2>2. /\ Append(R!Contents(r), b) \in Seq(Byte)
        /\ Len(Append(R!Contents(r), b)) = r.size + 1
    BY <2>1, AppendProperties
  <2> QED
    BY <2>1, <2>2, <1>2, <1>7, SeqEqual
<1> QED
  BY <1>4, <1>6, <1>8 DEF s

\* ringbuf_remove on a ring that is not empty takes the head of its contents.
LEMMA RemoveTakesHead ==
  ASSUME NEW r \in R!Ring, R!Agrees(r), ~R!IsEmpty(r)
  PROVE  /\ R!Remove(r) \in R!Ring
         /\ R!Agrees(R!Remove(r))
         /\ R!First(r) = Head(R!Contents(r)) /\ R!First(r) \in Byte
         /\ R!Contents(r) # <<>>
         /\ R!Contents(R!Remove(r)) = Tail(R!Contents(r))
<1> DEFINE s == R!Remove(r)
<1>1. r.size \in 1 .. max /\ r.start \in 0 .. max - 1 /\ max \in Nat \ {0}
      /\ r.buf \in [0 .. max - 1 -> Byte] /\ r.end \in 0 .. max - 1
  BY UartTxAssumption DEF R!Ring, R!IsEmpty, Byte
<1>2. /\ s.buf = r.buf /\ s.start = R!Wrap(r.start + 1)
      /\ s.end = r.end /\ s.size = r.size - 1
  BY DEF R!Remove, R!Ring
<1>3. R!Wrap(r.start + 1) \in 0 .. max - 1
  BY <1>1 DEF R!Wrap
<1>4. s \in R!Ring
  BY <1>1, <1>3 DEF R!Remove, R!Ring, Byte
<1> HIDE DEF s
<1>5. ASSUME NEW k \in 0 .. max - 1 PROVE R!Place(s, k) = R!Place(r, k + 1)
  BY <1>1, <1>2 DEF R!Place, R!Wrap
<1>6. R!Agrees(s)
  BY <1>1, <1>2, <1>5 DEF R!Agrees
<1>7. /\ R!Contents(r) \in Seq(Byte) /\ Len(R!Contents(r)) = r.size
      /\ R!Contents(s) \in Seq(Byte) /\ Len(R!Contents(s)) = r.size - 1
  BY <1>2, <1>4, ContentsType
<1>8. R!First(r) = Head(R!Contents(r)) /\ R!First(r) \in Byte
  <2>1. R!Place(r, 0) = r.start
    BY <1>1 DEF R!Place
  <2>2. R!Contents(r)[1] = r.buf[r.start]
    BY <2>1, <1>1, ContentsType
  <2> QED
    BY <2>2, <1>1, <1>7 DEF R!First
<1>9. ASSUME NEW k \in 1 .. r.size - 1
      PROVE  R!Contents(s)[k] = Tail(R!Contents(r))[k]
  <2>1. R!Contents(s)[k] = r.buf[R!Place(s, k - 1)]
    BY <1>1, <1>2, <1>4, ContentsType
  <2>2. R!Contents(r)[k + 1] = r.buf[R!Place(r, k)]
    BY <1>1, ContentsType
  <2>3. R!Place(s, k - 1) = R!Place(r, k)
    BY <1>1, <1>5
  <2> QED
    BY <2>1, <2>2, <2>3, <1>1, <1>7
<1>10. R!Contents(r) # <<>> /\ R!Contents(s) = Tail(R!Contents(r))
  BY <1>1, <1>7, <1>9
<1> QED
  BY <1>4, <1>6, <1>8, <1>10 DEF s

-----------------------------------------------------------------------------
\* Of the string under way: it is the holder's current one, and whoever is in
\* the loop of uart_tx_str is copying it.
Underway ==
  /\ p # Null => p.of = strings[p.who] /\ p.nr <= strings[p.who]
  /\ copying => p # Null /\ p.who = turn
  /\ \A t \in Printing : nr[t] <= strings[t] + 1

\* The last character on the wire and after it those in the ring.
Sent == [k \in 1 .. out.size + 1 |->
           IF k = 1 THEN wire ELSE R!Contents(out)[k - 1]]
Last == Sent[out.size + 1]

\* They follow each other,
Chain == \A k \in 1 .. out.size : Follows(Sent[k], Sent[k + 1])

\* and what uart_tx_str adds next follows the last of them.
Upcoming ==
  /\ p # Null /\ InString => Follows(Last, p)
  /\ p # Null /\ ~InString => Last = [p EXCEPT !.pos = StrLen]
  /\ \A t \in Printing : p = Null /\ nr[t] > 1 =>
       Last = [who |-> t, of |-> strings[t], nr |-> nr[t] - 1, pos |-> StrLen]
  /\ p = Null /\ (\A t \in Printing : nr[t] = 1) =>
       Last = Null \/ (Last.pos = StrLen /\ Last.nr = Last.of)

Shared == TypeOK /\ StringOfHolder /\ Underway
IInv == Shared /\ Chain /\ Upcoming

\* The initial state satisfies the invariant.
LEMMA InitInv == Init => IInv
<1> SUFFICES ASSUME Init PROVE IInv
    OBVIOUS
<1> USE UartTxAssumption DEF Init
<1>1. out \in R!Ring /\ R!Agrees(out) /\ out.size = 0
  BY DEF R!NewRing, R!Ring, R!Agrees, R!Place
<1>2. TypeOK
  <2>1. /\ turn \in Threads /\ uart_mutex \in 0 .. 1
        /\ label \in [Threads -> {"idle", "radio", "mutex", "print"}]
    BY DEF Threads
  <2>2. /\ strings \in [Threads -> 0 .. MaxStrings]
        /\ nr \in [Threads -> 1 .. MaxStrings + 1]
    OBVIOUS
  <2> QED
    BY <2>1, <2>2, <1>1 DEF TypeOK
<1>3. StringOfHolder /\ Underway
  BY DEF StringOfHolder, Underway, Printing, Threads
<1>4. Sent = [k \in 1 .. 1 |-> wire] /\ Last = Null
  BY <1>1 DEF Sent, Last
<1>5. Chain /\ Upcoming
  BY <1>1, <1>4 DEF Chain, Upcoming, Printing, Threads
<1> QED
  BY <1>2, <1>3, <1>5 DEF IInv, Shared

\* Every step keeps types, the mutex and the string under way.
LEMMA SharedStep == Shared /\ [Next]_vars => Shared'
<1> SUFFICES ASSUME Shared, [Next]_vars PROVE Shared'
    OBVIOUS
<1> USE UartTxAssumption
    DEF Shared, TypeOK, StringOfHolder, Underway, Printing, Threads, Yield,
        NextThread, Char
<1>1. ASSUME NEW t \in Threads, Nothing(t) PROVE Shared'
  BY <1>1 DEF Nothing
<1>2. ASSUME NEW t \in Threads, Request(t) PROVE Shared'
  BY <1>2 DEF Request
<1>3. CASE Radio
  BY <1>3 DEF Radio
<1>4. CASE Silent
  BY <1>4 DEF Silent
<1>5. ASSUME NEW t \in Threads, Wait(t) PROVE Shared'
  BY <1>5 DEF Wait, SemFree
<1>6. ASSUME NEW t \in Threads, TxStr(t) PROVE Shared'
  <2>1. p' \in Char /\ p'.who = t /\ p'.of = strings[t] /\ p'.nr = nr[t]
    BY <1>6 DEF TxStr, Null
  <2>2. p' # Null
    BY <2>1 DEF Null
  <2>3. /\ UNCHANGED <<turn, label, strings, nr, prompt, uart_mutex, out, wire>>
        /\ turn = t /\ label[t] = "print" /\ nr[t] <= strings[t]
        /\ copying' = TRUE /\ udrie' = FALSE
    BY <1>6 DEF TxStr
  <2>4. TypeOK'
    BY <2>1, <2>3
  <2>5. StringOfHolder' /\ Underway'
    BY <2>1, <2>2, <2>3
  <2> QED
    BY <2>4, <2>5
<1>7. CASE Copy
  <2>1. R!Add(out, p) \in R!Ring /\ R!Agrees(R!Add(out, p))
    BY <1>7, AddAppends DEF Copy, Byte
  <2>2. p \in Char /\ p.pos \in 1 .. StrLen
    BY <1>7 DEF Copy, InString, Null
  <2>3. /\ p' \in Char /\ p'.who = p.who /\ p'.of = p.of /\ p'.nr = p.nr
    BY <1>7, <2>2 DEF Copy
  <2>4. p' # Null /\ p # Null
    BY <2>2, <2>3 DEF Null
  <2> QED
    BY <1>7, <2>1, <2>3, <2>4 DEF Copy, threadVars
<1>8. CASE EndCopy
  <2>1. /\ turn \in Threads /\ label[turn] = "print"
        /\ nr[turn] \in 1 .. MaxStrings /\ nr[turn] <= strings[turn]
    BY <1>8 DEF EndCopy, Null
  <2>2. CASE InString
    <3>1. p' = p /\ nr' = nr /\ turn' \in {"rx", "uart"} /\ ~copying'
          /\ UNCHANGED <<label, strings, prompt, uart_mutex, out, wire>>
      BY <1>8, <2>1, <2>2 DEF EndCopy, PAfter
    <3> QED
      BY <1>8, <3>1 DEF EndCopy
  <2>3. CASE ~InString
    <3>1. p' = Null /\ turn' = turn /\ ~copying'
          /\ nr' = [nr EXCEPT ![turn] = @ + 1]
          /\ UNCHANGED <<label, strings, prompt, uart_mutex, out, wire>>
      BY <1>8, <2>3 DEF EndCopy, PAfter
    <3>2. nr' \in [Threads -> 1 .. MaxStrings + 1]
      BY <2>1, <3>1
    <3>3. \A t \in Printing : nr'[t] <= strings[t] + 1
      BY <2>1, <3>1
    <3>4. TypeOK'
      BY <1>8, <3>1, <3>2 DEF EndCopy
    <3>5. (StringOfHolder /\ Underway)'
      BY <3>1, <3>3
    <3> QED
      BY <3>4, <3>5
  <2> QED
    BY <2>2, <2>3
<1>9. ASSUME NEW t \in Threads, Finish(t) PROVE Shared'
  <2>1. uart_mutex = 0 /\ uart_mutex' = 1
    BY <1>9 DEF Finish, Signalled
  <2>2. p = Null /\ ~copying
    BY <1>9 DEF Finish, Null
  <2>3. TypeOK'
    <3>1. label' \in [Threads -> {"idle", "radio", "mutex", "print"}]
          /\ strings' \in [Threads -> 0 .. MaxStrings] /\ prompt' \in BOOLEAN
      <4>1. CASE t = "shell" /\ prompt
        <5>1. /\ label' = [label EXCEPT ![t] = "mutex"]
              /\ strings' = [strings EXCEPT ![t] = 1] /\ prompt' = FALSE
          BY <1>9, <4>1 DEF Finish
        <5>2. strings' \in [Threads -> 0 .. MaxStrings]
          BY <5>1
        <5> QED
          BY <5>1, <5>2
      <4>2. CASE ~(t = "shell" /\ prompt)
        BY <1>9, <4>2 DEF Finish
      <4> QED
        BY <4>1, <4>2
    <3>2. turn' \in Threads \union {"uart"}
      BY <1>9 DEF Finish
    <3> QED
      BY <1>9, <2>1, <3>1, <3>2 DEF Finish
  <2>4. (StringOfHolder /\ Underway)'
    BY <1>9, <2>1, <2>2 DEF Finish
  <2> QED
    BY <2>3, <2>4
<1>10. CASE UartTxThread
  BY <1>10 DEF UartTxThread
<1>11. CASE DataIrq
  <2>1. ASSUME ~R!IsEmpty(out)
        PROVE  /\ R!Remove(out) \in R!Ring /\ R!Agrees(R!Remove(out))
               /\ R!First(out) \in Byte
    BY <2>1, RemoveTakesHead
  <2> QED
    BY <1>11, <2>1 DEF DataIrq, threadVars, Byte
<1>12. CASE UNCHANGED vars
  BY <1>12 DEF vars, threadVars
<1> QED
  BY <1>1, <1>2, <1>3, <1>4, <1>5, <1>6, <1>7, <1>8, <1>9, <1>10, <1>11, <1>12
     DEF Next, MainStep, Poll

\* The last character sent is one of the ring's or the one on the wire.
LEMMA LastType == ASSUME Shared PROVE Last \in Byte
<1>1. out \in R!Ring /\ wire \in Byte /\ out.size \in 0 .. max
  BY DEF Shared, TypeOK, Byte, R!Ring
<1>2. CASE out.size = 0
  BY <1>1, <1>2 DEF Last, Sent
<1>3. CASE out.size # 0
  <2>1. Last = R!Contents(out)[out.size]
    BY <1>1, <1>3, UartTxAssumption DEF Last, Sent
  <2>2. R!Contents(out) \in Seq(Byte) /\ Len(R!Contents(out)) = out.size
    BY <1>1, ContentsType
  <2> QED
    BY <1>1, <1>3, <2>1, <2>2, ElementOfSeq, UartTxAssumption
<1> QED
  BY <1>2, <1>3

\* A step that leaves the line, p and the printing threads' strings alone.
LEMMA OtherStep ==
  ASSUME Chain, Upcoming, UNCHANGED <<out, wire, p>>, UNCHANGED Printing,
         \A t \in Printing : strings'[t] = strings[t] /\ nr'[t] = nr[t]
  PROVE  Chain' /\ Upcoming'
<1>1. Sent' = Sent
  BY DEF Sent
<1>2. Last' = Last
  BY <1>1 DEF Last
<1> QED
  BY <1>1, <1>2 DEF Chain, Upcoming, InString

\* uart_tx_str adds the character at p, which follows the last one.
LEMMA CopyStep == IInv /\ Copy => Chain' /\ Upcoming'
<1> SUFFICES ASSUME IInv, Copy PROVE Chain' /\ Upcoming'
    OBVIOUS
<1> DEFINE n == out.size
<1>1. /\ out \in R!Ring /\ R!Agrees(out) /\ n \in 0 .. max - 1 /\ max \in Nat
      /\ out' = R!Add(out, p) /\ wire' = wire /\ ~R!IsFull(out)
  BY UartTxAssumption
     DEF IInv, Shared, TypeOK, Copy, threadVars, R!Ring, R!IsFull
<1>2. /\ p \in Char /\ p # Null /\ p.pos \in 1 .. StrLen /\ StrLen \in Nat
      /\ p' = [p EXCEPT !.pos = @ + 1]
  BY UartTxAssumption
     DEF IInv, Shared, TypeOK, Underway, Copy, InString, Null, Char
<1>3. /\ R!Contents(out') = Append(R!Contents(out), p)
      /\ R!Contents(out) \in Seq(Byte) /\ Len(R!Contents(out)) = n
  BY <1>1, <1>2, AddAppends, ContentsType DEF Byte
<1>4. out'.size = n + 1
  BY <1>1 DEF R!Add
<1>5. ASSUME NEW k \in 1 .. n + 1 PROVE Sent'[k] = Sent[k]
  <2>1. Sent'[k] = IF k = 1 THEN wire' ELSE R!Contents(out')[k - 1]
    BY <1>1, <1>4 DEF Sent
  <2>2. Sent[k] = IF k = 1 THEN wire ELSE R!Contents(out)[k - 1]
    BY <1>1 DEF Sent
  <2>3. CASE k = 1
    BY <2>1, <2>2, <2>3, <1>1
  <2>4. CASE k # 1
    <3>1. k - 1 \in 1 .. n
      BY <1>1, <2>4
    <3>2. Append(R!Contents(out), p)[k - 1] = R!Contents(out)[k - 1]
      BY <3>1, <1>2, <1>3, AppendProperties DEF Byte
    <3> QED
      BY <2>1, <2>2, <2>4, <3>2, <1>3
  <2> QED
    BY <2>3, <2>4
<1>6. Sent'[n + 2] = p /\ Last' = p
  <2>1. Append(R!Contents(out), p)[n + 1] = p
    BY <1>2, <1>3, AppendProperties DEF Byte
  <2>2. Sent'[n + 2] = R!Contents(out')[n + 1]
    BY <1>1, <1>4 DEF Sent
  <2> QED
    BY <2>1, <2>2, <1>1, <1>3, <1>4 DEF Last
<1>7. Follows(Last, p)
  BY <1>2 DEF IInv, Upcoming, InString, Copy
<1>8. Chain'
  <2>1. Follows(Sent'[n + 1], Sent'[n + 2])
    BY <1>1, <1>5, <1>6, <1>7 DEF Last
  <2>2. ASSUME NEW k \in 1 .. n PROVE Follows(Sent'[k], Sent'[k + 1])
    BY <1>1, <1>5 DEF IInv, Chain
  <2>3. \A k \in 1 .. n + 1 : Follows(Sent'[k], Sent'[k + 1])
    BY <2>1, <2>2, <1>1
  <2> QED
    BY <2>3, <1>4 DEF Chain, Follows
<1>9. Upcoming'
  <2>1. p' # Null /\ p'.pos = p.pos + 1
    BY <1>2 DEF Char, Null
  <2>2. CASE p.pos < StrLen
    BY <2>1, <2>2, <1>2, <1>6 DEF Upcoming, Follows, InString
  <2>3. CASE p.pos = StrLen
    <3>1. p = [p' EXCEPT !.pos = StrLen]
      BY <2>3, <1>2 DEF Char
    <3>2. Last' = [p' EXCEPT !.pos = StrLen]
      BY <3>1, <1>6
    <3>3. ~(p'.pos <= StrLen)
      BY <2>1, <2>3, <1>2
    <3> QED
      BY <3>2, <3>3, <2>1 DEF Upcoming, InString
  <2> QED
    BY <2>2, <2>3, <1>2
<1> QED
  BY <1>8, <1>9

\* The interrupt moves the first of the ring to the wire.
LEMMA IrqStep ==
  ASSUME IInv, DataIrq
  PROVE  /\ Chain' /\ Upcoming'
         /\ wire' # wire \/ out.size' < out.size => Follows(wire, wire')
<1> DEFINE n == out.size
<1>1. /\ out \in R!Ring /\ R!Agrees(out) /\ n \in 0 .. max /\ max \in Nat
      /\ UNCHANGED <<p, label, strings, nr>>
  BY UartTxAssumption
     DEF IInv, Shared, TypeOK, DataIrq, threadVars, R!Ring
<1>2. CASE R!IsEmpty(out)
  <2>1. UNCHANGED <<out, wire>>
    BY <1>2 DEF DataIrq
  <2> QED
    BY <1>1, <2>1, OtherStep DEF IInv, Printing, R!Ring
<1>3. CASE ~R!IsEmpty(out)
  <2>1. wire' = R!First(out) /\ out' = R!Remove(out) /\ n # 0
    BY <1>3 DEF DataIrq, R!IsEmpty
  <2>2. /\ R!First(out) = Head(R!Contents(out))
        /\ R!Contents(out') = Tail(R!Contents(out))
        /\ R!Contents(out) \in Seq(Byte) /\ Len(R!Contents(out)) = n
    BY <1>1, <1>3, <2>1, RemoveTakesHead, ContentsType
  <2>3. out'.size = n - 1
    BY <2>1 DEF R!Remove
  <2>4. ASSUME NEW k \in 1 .. n PROVE Sent'[k] = Sent[k + 1]
    <3>1. Sent'[k] = IF k = 1 THEN wire' ELSE R!Contents(out')[k - 1]
      BY <1>1, <2>3 DEF Sent
    <3>2. Sent[k + 1] = R!Contents(out)[k]
      BY <1>1 DEF Sent
    <3> QED
      BY <3>1, <3>2, <1>1, <2>1, <2>2
  <2>5. Chain'
    <3>1. ASSUME NEW k \in 1 .. n - 1 PROVE Follows(Sent'[k], Sent'[k + 1])
      BY <1>1, <2>4 DEF IInv, Chain
    <3> QED
      BY <3>1, <2>3 DEF Chain, Follows
  <2>6. Last' = Last
    BY <1>1, <2>1, <2>3, <2>4 DEF Last
  <2>7. Upcoming'
    BY <1>1, <2>6 DEF IInv, Upcoming, InString, Printing
  <2>8. Sent[1] = wire /\ Sent[2] = wire'
    BY <1>1, <2>1, <2>2 DEF Sent
  <2>9. Follows(wire, wire')
    BY <1>1, <2>1, <2>8 DEF IInv, Chain
  <2> QED
    BY <2>5, <2>7, <2>9
<1> QED
  BY <1>2, <1>3

\* Every step keeps the line of characters whole.
LEMMA ChainStep == IInv /\ [Next]_vars => Chain' /\ Upcoming'
<1> SUFFICES ASSUME IInv, [Next]_vars PROVE Chain' /\ Upcoming'
    OBVIOUS
<1>1. TypeOK /\ StringOfHolder /\ Underway /\ Chain /\ Upcoming
  BY DEF IInv, Shared
<1>2. ASSUME UNCHANGED <<out, wire>> PROVE Chain' /\ Last' = Last
  <2>1. Sent' = Sent
    BY <1>2 DEF Sent
  <2> QED
    BY <1>1, <1>2, <2>1 DEF Chain, Last
<1>3. ASSUME NEW t \in Threads, Nothing(t) \/ Request(t) PROVE Chain' /\ Upcoming'
  <2>1. /\ UNCHANGED <<out, wire, p, Printing>>
        /\ \A u \in Printing : strings'[u] = strings[u] /\ nr'[u] = nr[u]
    BY <1>1, <1>3 DEF Nothing, Request, Printing, TypeOK, Threads
  <2> QED
    BY <1>1, <2>1, OtherStep
<1>4. CASE Radio \/ Silent \/ UartTxThread \/ UNCHANGED vars
  <2>1. /\ UNCHANGED <<out, wire, p, Printing>>
        /\ \A u \in Printing : strings'[u] = strings[u] /\ nr'[u] = nr[u]
    BY <1>1, <1>4
       DEF Radio, Silent, UartTxThread, vars, threadVars, Printing, TypeOK,
           Threads
  <2> QED
    BY <1>1, <2>1, OtherStep
<1>5. ASSUME NEW t \in Threads, Wait(t) PROVE Chain' /\ Upcoming'
  <2>1. CASE ~SemFree
    <3>1. /\ UNCHANGED <<out, wire, p, Printing>>
          /\ \A u \in Printing : strings'[u] = strings[u] /\ nr'[u] = nr[u]
      BY <1>5, <2>1 DEF Wait, Printing
    <3> QED
      BY <1>1, <3>1, OtherStep
  <2>2. CASE SemFree
    <3>1. Printing = {} /\ p = Null
      BY <1>1, <2>2 DEF SemFree, StringOfHolder, Printing, TypeOK, Char
    <3>2. Last = Null \/ (Last.pos = StrLen /\ Last.nr = Last.of)
      BY <1>1, <3>1 DEF Upcoming
    <3>3. UNCHANGED <<out, wire, p, strings>> /\ nr' = [nr EXCEPT ![t] = 1]
          /\ label' = [label EXCEPT ![t] = "print"]
      BY <1>5, <2>2 DEF Wait
    <3>4. \A u \in Printing' : nr'[u] = 1
      BY <1>1, <3>1, <3>3 DEF Printing, TypeOK, Threads
    <3> QED
      BY <1>2, <3>1, <3>2, <3>3, <3>4 DEF Upcoming
  <2> QED
    BY <2>1, <2>2
<1>6. ASSUME NEW t \in Threads, TxStr(t) PROVE Chain' /\ Upcoming'
  <2>1. /\ UNCHANGED <<out, wire, strings, nr, label>> /\ t \in Printing
        /\ nr[t] \in 1 .. MaxStrings /\ nr[t] <= strings[t]
        /\ strings[t] \in 1 .. MaxStrings
    BY <1>1, <1>6, UartTxAssumption DEF TxStr, TypeOK, Printing
  <2>2. CASE p # Null
    BY <1>1, <1>6, <2>1, <2>2, OtherStep DEF TxStr, Printing
  <2>3. CASE p = Null
    <3>1. p' = [who |-> t, of |-> strings[t], nr |-> nr[t], pos |-> 1]
      BY <1>6, <2>3 DEF TxStr
    <3>2. p' # Null /\ InString'
      BY <3>1, UartTxAssumption DEF Null, InString
    <3>3. \A u \in Printing : u = t
      BY <1>1, <2>1 DEF StringOfHolder
    <3>4. Follows(Last, p')
      <4>1. CASE nr[t] = 1
        <5>1. Last = Null \/ (Last.pos = StrLen /\ Last.nr = Last.of)
          BY <1>1, <2>3, <3>3, <4>1 DEF Upcoming
        <5>2. Last \in Byte
          BY LastType DEF IInv
        <5> QED
          BY <3>1, <4>1, <5>1, <5>2, UartTxAssumption
             DEF Follows, Byte, Char
      <4>2. CASE nr[t] > 1
        <5>1. Last = [who |-> t, of |-> strings[t], nr |-> nr[t] - 1,
                      pos |-> StrLen]
          BY <1>1, <2>1, <2>3, <4>2 DEF Upcoming
        <5>2. Last # Null
          BY <5>1, <4>2, <2>1 DEF Null
        <5>3. [who |-> Last.who, of |-> Last.of, nr |-> Last.nr + 1,
               pos |-> 1] = p'
          BY <2>1, <3>1, <5>1
        <5>4. ~(Last.pos < StrLen) /\ Last.nr < Last.of
          BY <2>1, <5>1, UartTxAssumption
        <5> QED
          BY <5>2, <5>3, <5>4 DEF Follows
      <4> QED
        BY <2>1, <4>1, <4>2
    <3> QED
      BY <1>2, <2>1, <3>2, <3>4 DEF Upcoming
  <2> QED
    BY <2>2, <2>3
<1>7. CASE EndCopy
  <2>1. UNCHANGED <<out, wire, strings, label>> /\ copying
    BY <1>7 DEF EndCopy
  <2>2. p \in Char /\ p # Null /\ p.who = turn /\ p.of = strings[turn]
        /\ p.nr = nr[turn] /\ turn \in Printing
    BY <1>1, <2>1 DEF Underway, StringOfHolder, TypeOK, Printing, Char
  <2>3. CASE InString
    <3>1. p' = p /\ nr' = nr
      BY <1>7, <2>3 DEF EndCopy, PAfter
    <3> QED
      BY <1>1, <2>1, <3>1, OtherStep DEF Printing
  <2>4. CASE ~InString
    <3>1. p' = Null /\ nr' = [nr EXCEPT ![turn] = @ + 1]
      BY <1>7, <2>4 DEF EndCopy, PAfter
    <3>2. Last = [p EXCEPT !.pos = StrLen]
      BY <1>1, <2>2, <2>4 DEF Upcoming
    <3>3. \A u \in Printing : u = turn
      BY <1>1, <2>2 DEF StringOfHolder
    <3>4. nr[turn] \in Nat \ {0} /\ nr'[turn] = nr[turn] + 1
          /\ Printing' = Printing
      BY <1>1, <2>1, <2>2, <3>1, UartTxAssumption DEF TypeOK, Printing
    <3>5. Last = [who |-> turn, of |-> strings[turn], nr |-> nr'[turn] - 1,
                  pos |-> StrLen]
      BY <2>2, <3>2, <3>4 DEF Char
    <3> QED
      BY <1>2, <2>1, <2>2, <3>1, <3>3, <3>4, <3>5 DEF Upcoming
  <2> QED
    BY <2>3, <2>4
<1>8. ASSUME NEW t \in Threads, Finish(t) PROVE Chain' /\ Upcoming'
  <2>1. /\ UNCHANGED <<out, wire, p, nr>> /\ t \in Printing
        /\ nr[t] > strings[t] /\ strings[t] \in Nat /\ nr[t] \in Nat \ {0}
    BY <1>1, <1>8, UartTxAssumption DEF Finish, TypeOK, Printing
  <2>2. \A u \in Printing : u = t
    BY <1>1, <2>1 DEF StringOfHolder
  <2>3. p = Null
    BY <1>1, <2>1, <2>2
       DEF Underway, StringOfHolder, TypeOK, Printing, Char
  <2>4. Printing' = {}
    BY <1>1, <1>8, <2>2 DEF Finish, Printing, TypeOK
  <2>5. Last = Null \/ (Last.pos = StrLen /\ Last.nr = Last.of)
    <3>1. CASE nr[t] = 1
      BY <1>1, <2>2, <2>3, <3>1 DEF Upcoming
    <3>2. CASE nr[t] > 1
      <4>1. nr[t] - 1 = strings[t]
        BY <1>1, <2>1 DEF Underway
      <4> QED
        BY <1>1, <2>1, <2>3, <3>2, <4>1 DEF Upcoming
    <3> QED
      BY <2>1, <3>1, <3>2
  <2> QED
    BY <1>2, <2>1, <2>3, <2>4, <2>5 DEF Upcoming
<1> QED
  BY <1>3, <1>4, <1>5, <1>6, <1>7, <1>8, CopyStep, IrqStep
     DEF Next, MainStep, Poll

\* The invariant holds throughout.
LEMMA Invariance == Spec => []IInv
<1>1. IInv /\ [Next]_vars => IInv'
  BY SharedStep, ChainStep DEF IInv
<1> QED
  BY InitInv, <1>1, PTL DEF Spec

\* Every variable of the console's output keeps its type, and the ring's
\* pointers agree with its count.
THEOREM TypeCorrect == Spec => []TypeOK
BY Invariance, PTL DEF IInv, Shared

\* uart_mutex has one holder at most, and a string that uart_tx_str has begun
\* is the holder's.
THEOREM StringIsHolders == Spec => []StringOfHolder
BY Invariance, PTL DEF IInv, Shared

\* What leaves the node after a character is the rest of its message or the
\* start of another: nothing is lost, doubled or mixed.
THEOREM MessagesAreWhole == Spec => MessagesWhole
<1>1. IInv /\ [Next]_vars =>
        [wire' # wire \/ out.size' < out.size => Follows(wire, wire')]_vars
  <2> SUFFICES ASSUME IInv, Next,
                      wire' # wire \/ out.size' < out.size
               PROVE  Follows(wire, wire')
      OBVIOUS
  <2>1. CASE MainStep
    <3>1. wire' = wire
      BY <2>1
         DEF MainStep, Poll, Nothing, Request, Wait, TxStr, Finish, Radio,
             Silent, Copy, EndCopy, UartTxThread
    <3>2. out' = out \/ out'.size = out.size + 1
      BY <2>1
         DEF MainStep, Poll, Nothing, Request, Wait, TxStr, Finish, Radio,
             Silent, Copy, EndCopy, UartTxThread, R!Add
    <3>3. out.size \in Nat
      BY UartTxAssumption DEF IInv, Shared, TypeOK, R!Ring
    <3> QED
      BY <3>1, <3>2, <3>3
  <2>2. CASE DataIrq
    BY <2>2, IrqStep
  <2> QED
    BY <2>1, <2>2 DEF Next
<1> QED
  BY <1>1, Invariance, PTL DEF Spec, MessagesWhole

\* uart_out_buf is a bounded queue, whichever thread fills it and whenever the
\* interrupt empties it.
THEOREM RingIsFifo == Spec => ImplementsFifo
<1> DEFINE Line == R!Contents(out)
<1>1. Init => F!Init
  BY DEF Init, F!Init, R!NewRing, R!Contents
<1>2. IInv /\ [Next]_vars => [F!Next]_Line
  <2> SUFFICES ASSUME IInv, [Next]_vars PROVE [F!Next]_Line
      OBVIOUS
  <2>1. /\ out \in R!Ring /\ R!Agrees(out) /\ out.size \in 0 .. max
        /\ Line \in Seq(Byte) /\ Len(Line) = out.size /\ p \in Byte
    BY ContentsType DEF IInv, Shared, TypeOK, R!Ring, Byte
  <2>2. CASE Copy
    <3>1. ~R!IsFull(out) /\ Line' = Append(Line, p)
      BY <2>1, <2>2, AddAppends DEF Copy
    <3>2. Len(Line) < max
      BY <2>1, <3>1, UartTxAssumption DEF R!IsFull
    <3>3. p \in Char
      BY <2>2 DEF Copy, IInv, Shared, TypeOK, Underway
    <3> HIDE DEF Line
    <3>4. F!Put
      BY <3>1, <3>2, <3>3 DEF F!Put, Line
    <3> QED
      BY <3>4 DEF F!Next
  <2>3. CASE DataIrq
    <3>1. CASE R!IsEmpty(out)
      BY <2>3, <3>1 DEF DataIrq
    <3>2. CASE ~R!IsEmpty(out)
      BY <2>1, <2>3, <3>2, RemoveTakesHead DEF DataIrq, F!Next, F!Get
    <3> QED
      BY <3>1, <3>2
  <2>4. CASE UNCHANGED out
    BY <2>4
  <2> QED
    BY <2>2, <2>3, <2>4
       DEF Next, MainStep, Poll, Nothing, Request, Wait, TxStr, Finish, Radio,
           Silent, EndCopy, UartTxThread, vars
<1> QED
  BY <1>1, <1>2, Invariance, PTL DEF Spec, ImplementsFifo, F!Spec
=============================================================================
