---------------------------- MODULE UartRxProofs ----------------------------
(***************************************************************************)
(* Theorems about UartRx, for a ring of any size and for any number of     *)
(* characters typed before they are read.                                  *)
(***************************************************************************)
EXTENDS UartRx, TLAPS

\* uart_rx has taken the first character, and start still points to it.
Taken == pc \in {"load", "store", "move"}

\* Updates of size that are lost only make it smaller than it should be: the
\* count that is loaded is at least one, and never more than the count in the
\* ring when it is stored.
Counting ==
  /\ TypeOK /\ NothingInvented
  /\ pc \in {"take", "load", "store"} => in.size >= 1
  /\ pc = "store" => reg >= 1 /\ reg <= in.size

LEMMA Sizes ==
  /\ max \in Nat /\ max >= 1 /\ MaxUnread \in Nat
  /\ CharMod \in Nat /\ CharMod > MaxUnread
  BY UartRxAssumption DEF UartRxAssumption

LEMMA InitCounting == Init => Counting
<1> SUFFICES ASSUME Init PROVE Counting
    OBVIOUS
<1>1. 0 \in Char /\ 0 \in 0 .. max - 1 /\ 0 \in 0 .. max /\ 0 \in 0 .. MaxUnread
  BY Sizes DEF Char
<1>2. R!NewRing(0) \in R!Ring /\ R!NewRing(0).size = 0
  BY <1>1 DEF R!NewRing, R!Ring
<1>3. TypeOK
  BY <1>1, <1>2 DEF Init, TypeOK
<1>4. in.size = 0 /\ unread = 0 /\ pc = "test"
  BY <1>2 DEF Init
<1> QED
  BY <1>3, <1>4 DEF Counting, NothingInvented, Counted

LEMMA RingFields ==
  ASSUME TypeOK
  PROVE  /\ in.buf \in [0 .. max - 1 -> Char]
         /\ in.start \in 0 .. max - 1 /\ in.end \in 0 .. max - 1
         /\ in.size \in 0 .. max
  BY DEF TypeOK, R!Ring

\* What the interrupt does to a ring that is not full.
LEMMA Adds ==
  ASSUME TypeOK, ~R!IsFull(in), in' = R!Add(in, typed)
  PROVE  /\ in' \in R!Ring
         /\ in'.buf = [in.buf EXCEPT ![in.end] = typed]
         /\ in'.start = in.start /\ in'.size = in.size + 1
         /\ in'.end = R!Wrap(in.end + 1)
<1>1. in.size + 1 \in 0 .. max
  BY RingFields, Sizes DEF R!IsFull
<1>2. R!Wrap(in.end + 1) \in 0 .. max - 1
  BY RingFields, Sizes DEF R!Wrap
<1> QED
  BY <1>1, <1>2, RingFields DEF R!Add, R!Ring, TypeOK

LEMMA StepCounting == Counting /\ [Next]_vars => Counting'
<1> SUFFICES ASSUME Counting, [Next]_vars PROVE Counting'
    OBVIOUS
<1> USE Sizes
<1>1. TypeOK /\ in.size \in 0 .. max /\ unread \in 0 .. MaxUnread /\ reg \in 0 .. max
  BY RingFields DEF Counting, TypeOK
<1>2. CASE RecvIrq
  <2>1. CASE R!IsFull(in)
    BY <1>2, <2>1 DEF RecvIrq, mainVars, Counting, TypeOK, NothingInvented, Counted
  <2>2. CASE ~R!IsFull(in)
    <3>1. /\ in' = R!Add(in, typed) /\ typed' = (typed + 1) % CharMod
          /\ unread' = unread + 1 /\ unread < MaxUnread
          /\ overrun' = (overrun \/ unread >= max) /\ hung' = hung
          /\ pc' = pc /\ reg' = reg /\ what' = what
      BY <1>2, <2>2 DEF RecvIrq, mainVars
    <3>2. in' \in R!Ring /\ in'.size = in.size + 1
      BY <1>1, <2>2, <3>1, Adds
    <3>3. typed' \in Char /\ unread' \in 0 .. MaxUnread
      BY <1>1, <3>1 DEF TypeOK, Char
    <3>4. TypeOK'
      BY <1>1, <3>1, <3>2, <3>3 DEF TypeOK
    <3> QED
      BY <1>1, <3>1, <3>2, <3>4 DEF Counting, NothingInvented, Counted
  <2> QED
    BY <2>1, <2>2
<1>3. CASE WatchdogReset
  <2>1. Init'
    BY <1>3 DEF WatchdogReset, Init
  <2> QED
    BY <2>1, InitCounting, PTL
<1>4. CASE RxTest
  BY <1>1, <1>4 DEF RxTest, R!IsEmpty, Counting, TypeOK, NothingInvented, Counted
<1>5. CASE RxTake
  <2>1. R!First(in) \in Char
    BY <1>1, RingFields DEF R!First
  <2>2. unread - 1 \in 0 .. MaxUnread
    BY <1>1, <1>5 DEF RxTake, Counting, NothingInvented, Counted
  <2> QED
    BY <1>1, <1>5, <2>1, <2>2 DEF RxTake, Counting, TypeOK, NothingInvented, Counted
<1>6. CASE RxLoad
  BY <1>1, <1>6 DEF RxLoad, Counting, TypeOK, NothingInvented, Counted
<1>7. CASE RxStore
  <2>1. reg - 1 \in 0 .. max /\ reg <= in.size
    BY <1>1, <1>7 DEF RxStore, Counting
  <2>2. in' \in R!Ring /\ in'.size = reg - 1
    BY <1>1, <1>7, <2>1 DEF RxStore, SizeAfter, TypeOK, R!Ring
  <2> QED
    BY <1>1, <1>7, <2>1, <2>2 DEF RxStore, Counting, TypeOK, NothingInvented, Counted
<1>8. CASE RxMove
  <2>1. R!Wrap(in.start + 1) \in 0 .. max - 1
    BY <1>1, RingFields DEF R!Wrap
  <2>2. in' \in R!Ring /\ in'.size = in.size
    BY <1>1, <1>8, <2>1 DEF RxMove, TypeOK, R!Ring
  <2> QED
    BY <1>1, <1>8, <2>2 DEF RxMove, Counting, TypeOK, NothingInvented, Counted
<1>9. CASE UNCHANGED vars
  BY <1>9 DEF vars, mainVars, Counting, TypeOK, NothingInvented, Counted
<1> QED
  BY <1>2, <1>3, <1>4, <1>5, <1>6, <1>7, <1>8, <1>9 DEF Next

\* The ring, the pointers and the counts stay within their types: no character
\* is taken from an empty ring and size never goes below zero.
THEOREM TypeCorrect == Spec => []TypeOK
<1>1. Counting => TypeOK
  BY DEF Counting
<1> QED
  BY <1>1, InitCounting, StepCounting, PTL DEF Spec

\* The ring never counts a character that was not typed, whatever updates of
\* its size the interrupt loses.
THEOREM NeverInvented == Spec => []NothingInvented
<1>1. Counting => NothingInvented
  BY DEF Counting
<1> QED
  BY <1>1, InitCounting, StepCounting, PTL DEF Spec

-----------------------------------------------------------------------------
(* The characters typed and not read are in the ring's cells from the first  *)
(* one on, whatever size says of them, until one is overwritten.             *)

Head == IF Taken THEN R!Wrap(in.start + 1) ELSE in.start

\* The place k cells after the place i.
Cell(i, k) == IF i + k < max THEN i + k ELSE i + k - max

Ordered ==
  ~overrun =>
    /\ unread <= max
    /\ in.end = Cell(Head, unread)
    /\ \A k \in 0 .. unread - 1 :
         in.buf[Cell(Head, k)] = (typed - unread + k) % CharMod

\* Numbering characters modulo CharMod.
LEMMA Numbers ==
  ASSUME NEW c \in Char, NEW u \in 0 .. MaxUnread
  PROVE  /\ \A k \in 0 .. u :
              (c - u + k) % CharMod = IF c - u + k >= 0 THEN c - u + k
                                                        ELSE c - u + k + CharMod
         /\ (c + 1) % CharMod = IF c + 1 = CharMod THEN 0 ELSE c + 1
<1>1. c \in 0 .. CharMod - 1 /\ u < CharMod /\ u \in Nat /\ CharMod \in Nat
  BY Sizes DEF Char
<1>2. \A d \in 0 .. CharMod - 1 : d % CharMod = d
  BY <1>1
<1>3. \A d \in Int : -CharMod <= d /\ d < 0 => d % CharMod = d + CharMod
  BY <1>1
<1>4. CharMod % CharMod = 0
  BY <1>1
<1>5. ASSUME NEW k \in 0 .. u
      PROVE  (c - u + k) % CharMod = IF c - u + k >= 0 THEN c - u + k
                                                       ELSE c - u + k + CharMod
  <2> DEFINE d == c - u + k
  <2>1. d \in Int /\ d < CharMod /\ -CharMod <= d
    BY <1>1
  <2> HIDE DEF d
  <2>2. d % CharMod = IF d >= 0 THEN d ELSE d + CharMod
    BY <1>1, <1>2, <1>3, <2>1
  <2> QED
    BY <2>2 DEF d
<1>6. (c + 1) % CharMod = IF c + 1 = CharMod THEN 0 ELSE c + 1
  BY <1>1, <1>2, <1>4
<1> QED
  BY <1>5, <1>6

\* After one more character, the old ones keep their numbers and it has its own.
LEMMA NumbersKept ==
  ASSUME NEW c \in Char, NEW u \in 0 .. MaxUnread - 1
  PROVE  LET d == (c + 1) % CharMod
         IN /\ \A k \in 0 .. u - 1 :
                 (d - (u + 1) + k) % CharMod = (c - u + k) % CharMod
            /\ (d - (u + 1) + u) % CharMod = c
<1> DEFINE d == (c + 1) % CharMod
<1>1. c \in 0 .. CharMod - 1 /\ u \in Nat /\ u + 1 \in 0 .. MaxUnread /\ CharMod \in Nat
      /\ u + 1 < CharMod /\ u \in 0 .. MaxUnread
  BY Sizes DEF Char
<1>2. d = IF c + 1 = CharMod THEN 0 ELSE c + 1
  BY <1>1, Numbers
<1>3. d \in Char
  BY <1>1, <1>2 DEF Char
<1> HIDE DEF d
<1>4. \A k \in 0 .. u + 1 :
        (d - (u + 1) + k) % CharMod = IF d - (u + 1) + k >= 0 THEN d - (u + 1) + k
                                      ELSE d - (u + 1) + k + CharMod
  BY <1>1, <1>3, Numbers
<1>5. \A k \in 0 .. u : (c - u + k) % CharMod = IF c - u + k >= 0 THEN c - u + k
                                                ELSE c - u + k + CharMod
  BY <1>1, Numbers
<1>6. ASSUME NEW k \in 0 .. u - 1
      PROVE  (d - (u + 1) + k) % CharMod = (c - u + k) % CharMod
  <2>1. (d - (u + 1) + k) % CharMod = IF d - (u + 1) + k >= 0 THEN d - (u + 1) + k
                                      ELSE d - (u + 1) + k + CharMod
    BY <1>1, <1>4
  <2>2. (c - u + k) % CharMod = IF c - u + k >= 0 THEN c - u + k
                                ELSE c - u + k + CharMod
    BY <1>1, <1>5
  <2> QED
    BY <1>1, <1>2, <2>1, <2>2
<1>7. (d - (u + 1) + u) % CharMod = c
  <2>1. (d - (u + 1) + u) % CharMod = IF d - (u + 1) + u >= 0 THEN d - (u + 1) + u
                                      ELSE d - (u + 1) + u + CharMod
    BY <1>1, <1>4
  <2> QED
    BY <1>1, <1>2, <2>1
<1> QED
  BY <1>6, <1>7 DEF d

LEMMA Cells ==
  ASSUME NEW i \in 0 .. max - 1
  PROVE  /\ \A k \in 0 .. max : Cell(i, k) \in 0 .. max - 1
         /\ Cell(i, 0) = i
         /\ \A k \in 0 .. max - 1 : R!Wrap(Cell(i, k) + 1) = Cell(i, k + 1)
         /\ \A k \in 0 .. max - 1 : Cell(R!Wrap(i + 1), k) = Cell(i, k + 1)
         /\ \A j, k \in 0 .. max - 1 : Cell(i, j) = Cell(i, k) => j = k
  BY Sizes DEF Cell, R!Wrap

LEMMA StepOrdered ==
  ASSUME Counting, Ordered, [Next]_vars PROVE Ordered'
<1>1. /\ in.buf \in [0 .. max - 1 -> Char]
      /\ in.start \in 0 .. max - 1 /\ in.end \in 0 .. max - 1
      /\ unread \in 0 .. MaxUnread /\ typed \in Char
  BY RingFields DEF Counting, TypeOK
<1>2. Head \in 0 .. max - 1
  BY <1>1, Sizes DEF Head, R!Wrap
<1>3. CASE RecvIrq
  <2>1. CASE R!IsFull(in)
    BY <1>3, <2>1 DEF RecvIrq, mainVars, Ordered, Head, Taken
  <2>2. CASE ~R!IsFull(in)
    <3>1. /\ in' = R!Add(in, typed) /\ typed' = (typed + 1) % CharMod
          /\ unread' = unread + 1 /\ unread < MaxUnread
          /\ overrun' = (overrun \/ unread >= max) /\ pc' = pc
      BY <1>3, <2>2 DEF RecvIrq, mainVars
    <3>2. /\ in'.buf = [in.buf EXCEPT ![in.end] = typed]
          /\ in'.start = in.start /\ in'.end = R!Wrap(in.end + 1)
      BY <2>2, <3>1, Adds DEF Counting
    <3>3. Head' = Head
      BY <3>1, <3>2 DEF Head, Taken
    <3> SUFFICES ASSUME ~overrun'
                 PROVE  /\ unread' <= max
                        /\ in'.end = Cell(Head, unread')
                        /\ \A k \in 0 .. unread' - 1 :
                             in'.buf[Cell(Head, k)] = (typed' - unread' + k) % CharMod
        BY <3>3 DEF Ordered
    <3>4. /\ ~overrun /\ unread \in 0 .. max - 1 /\ unread \in 0 .. MaxUnread - 1
          /\ in.end = Cell(Head, unread)
          /\ \A k \in 0 .. unread - 1 :
               in.buf[Cell(Head, k)] = (typed - unread + k) % CharMod
      <4>1. ~overrun /\ ~(unread >= max)
        BY <3>1
      <4>2. unread \in 0 .. max - 1 /\ unread \in 0 .. MaxUnread - 1
        BY <1>1, <3>1, <4>1, Sizes
      <4> QED
        BY <4>1, <4>2 DEF Ordered
    <3>5. in'.end = Cell(Head, unread')
      BY <1>2, <3>1, <3>2, <3>4, Cells
    <3>6. ASSUME NEW k \in 0 .. unread' - 1
          PROVE  in'.buf[Cell(Head, k)] = (typed' - unread' + k) % CharMod
      <4>1. Cell(Head, k) \in 0 .. max - 1 /\ k \in 0 .. max - 1 /\ k \in 0 .. unread
        <5>1. k \in 0 .. unread
          BY <3>1, <3>4
        <5>2. k \in 0 .. max - 1 /\ k \in 0 .. max
          BY <3>4, <5>1, Sizes
        <5> QED
          BY <1>2, <5>1, <5>2, Cells
      <4>2. CASE k = unread
        <5>1. (typed' - (unread + 1) + unread) % CharMod = typed
          BY <1>1, <3>1, <3>4, NumbersKept
        <5> QED
          BY <1>1, <3>1, <3>2, <3>4, <4>1, <4>2, <5>1
      <4>3. CASE k # unread
        <5>1. k \in 0 .. unread - 1
          BY <1>1, <4>1, <4>3
        <5>2. Cell(Head, k) # in.end
          BY <1>2, <3>4, <4>1, <4>3, Cells
        <5>3. (typed' - (unread + 1) + k) % CharMod = (typed - unread + k) % CharMod
          BY <1>1, <3>1, <3>4, <5>1, NumbersKept
        <5> QED
          BY <1>1, <3>1, <3>2, <3>4, <4>1, <5>1, <5>2, <5>3
      <4> QED
        BY <4>2, <4>3
    <3> QED
      BY <3>1, <3>4, <3>5, <3>6, Sizes
  <2> QED
    BY <2>1, <2>2
<1>4. CASE WatchdogReset
  <2>1. /\ in'.start = 0 /\ in'.end = 0 /\ unread' = 0 /\ pc' = "test"
    BY <1>4 DEF WatchdogReset, R!NewRing
  <2>2. Head' = 0 /\ Cell(0, 0) = 0
    BY <2>1, Sizes DEF Head, Taken, Cell
  <2> QED
    BY <2>1, <2>2, Sizes DEF Ordered
<1>5. CASE RxTest
  BY <1>5 DEF RxTest, Ordered, Head, Taken
<1>6. CASE RxTake
  <2>1. /\ in' = in /\ typed' = typed /\ unread' = unread - 1 /\ overrun' = overrun
        /\ pc = "take" /\ pc' = "load" /\ unread >= 1
    BY <1>1, <1>6 DEF RxTake, Counting, NothingInvented, Counted, TypeOK, R!Ring
  <2>2. Head' = R!Wrap(Head + 1)
    BY <2>1 DEF Head, Taken
  <2> SUFFICES ASSUME ~overrun
               PROVE  /\ unread' <= max
                      /\ in.end = Cell(R!Wrap(Head + 1), unread')
                      /\ \A k \in 0 .. unread' - 1 :
                           in.buf[Cell(R!Wrap(Head + 1), k)] =
                             (typed - unread' + k) % CharMod
      BY <2>1, <2>2 DEF Ordered
  <2>3. /\ unread <= max /\ unread \in Nat /\ unread' \in 0 .. max - 1
        /\ in.end = Cell(Head, unread)
        /\ \A k \in 0 .. unread - 1 :
             in.buf[Cell(Head, k)] = (typed - unread + k) % CharMod
    BY <1>1, <2>1, Sizes DEF Ordered
  <2>4. \A k \in 0 .. max - 1 : Cell(R!Wrap(Head + 1), k) = Cell(Head, k + 1)
    BY <1>2, Cells
  <2>5. in.end = Cell(R!Wrap(Head + 1), unread')
    BY <2>1, <2>3, <2>4
  <2>6. ASSUME NEW k \in 0 .. unread' - 1
        PROVE  in.buf[Cell(R!Wrap(Head + 1), k)] = (typed - unread' + k) % CharMod
    <3>1. k \in 0 .. max - 1 /\ k + 1 \in 0 .. unread - 1
      <4>1. k \in 0 .. unread - 2
        BY <2>1, <2>3
      <4> QED
        BY <2>3, <4>1, Sizes
    <3>2. typed - unread' + k = typed - unread + (k + 1)
      BY <1>1, <2>1, <2>3 DEF Char
    <3> QED
      BY <2>3, <2>4, <3>1, <3>2
  <2> QED
    BY <2>3, <2>5, <2>6, Sizes
<1>7. CASE RxLoad
  BY <1>7 DEF RxLoad, Ordered, Head, Taken
<1>8. CASE RxStore
  <2>1. in'.buf = in.buf /\ in'.start = in.start /\ in'.end = in.end
    BY <1>8 DEF RxStore, Counting, TypeOK, R!Ring
  <2> QED
    BY <1>8, <2>1 DEF RxStore, Ordered, Head, Taken
<1>9. CASE RxMove
  <2>1. in'.buf = in.buf /\ in'.start = R!Wrap(in.start + 1) /\ in'.end = in.end
    BY <1>9 DEF RxMove, Counting, TypeOK, R!Ring
  <2> QED
    BY <1>9, <2>1 DEF RxMove, Ordered, Head, Taken
<1>10. CASE UNCHANGED vars
  BY <1>10 DEF vars, mainVars, Ordered, Head, Taken
<1> QED
  BY <1>3, <1>4, <1>5, <1>6, <1>7, <1>8, <1>9, <1>10 DEF Next

\* Characters are read in the order they were typed, none left out, until one
\* was overwritten: the size the interrupt spoils decides only when to read.
THEOREM ReadInOrder == Spec => InOrder
<1>1. Init => Counting /\ Ordered
  <2> SUFFICES ASSUME Init PROVE Ordered
      BY InitCounting
  <2>1. in.start = 0 /\ in.end = 0 /\ unread = 0 /\ pc = "test"
    BY DEF Init, R!NewRing
  <2> QED
    BY <2>1, Sizes DEF Ordered, Head, Taken, Cell
<1>2. Counting /\ Ordered /\ [Next]_vars => Counting' /\ Ordered'
  BY StepCounting, StepOrdered
<1>3. Counting /\ Ordered
        => [RxTake /\ ~overrun => what' = (typed - unread) % CharMod]_vars
  <2> SUFFICES ASSUME Counting, Ordered, RxTake, ~overrun
               PROVE  what' = (typed - unread) % CharMod
      OBVIOUS
  <2>1. /\ in.start \in 0 .. max - 1 /\ typed \in Int /\ unread \in Nat /\ unread >= 1
        /\ pc = "take" /\ what' = in.buf[in.start]
    BY RingFields, Sizes
       DEF RxTake, R!First, Counting, NothingInvented, Counted, TypeOK, Char
  <2>2. Head = in.start /\ Cell(in.start, 0) = in.start
    BY <2>1, Sizes DEF Head, Taken, Cell
  <2>3. in.buf[Cell(Head, 0)] = (typed - unread + 0) % CharMod
    BY <2>1 DEF Ordered
  <2> QED
    BY <2>1, <2>2, <2>3
<1> QED
  BY <1>1, <1>2, <1>3, PTL DEF Spec, InOrder

-----------------------------------------------------------------------------
(* The only cause of an overrun *)

\* The interrupt comes between the load of size and its store, and the store
\* undoes its ++.
UpdateLost == RecvIrq /\ pc = "store"

\* What size-- in one instruction would keep true.
Exact ==
  /\ Counted = unread
  /\ pc = "store" => reg = in.size
  /\ ~overrun

LEMMA StepExact ==
  ASSUME Counting, Exact, [Next]_vars, ~UpdateLost PROVE Exact'
<1> USE DEF Exact, Counted
<1>1. in.size \in 0 .. max /\ unread \in Nat /\ max \in Nat /\ max >= 1
  BY RingFields, Sizes DEF Counting, TypeOK
<1>2. CASE RecvIrq
  <2>1. CASE R!IsFull(in)
    BY <1>2, <2>1 DEF RecvIrq, mainVars
  <2>2. CASE ~R!IsFull(in)
    <3>1. /\ in' = R!Add(in, typed) /\ unread' = unread + 1 /\ pc' = pc
          /\ overrun' = (overrun \/ unread >= max)
      BY <1>2, <2>2 DEF RecvIrq, mainVars
    <3>2. in'.size = in.size + 1
      BY <2>2, <3>1, Adds DEF Counting
    <3>3. in.size < max
      BY <1>1, <2>2 DEF R!IsFull
    <3>4. pc # "store"
      BY <1>2 DEF UpdateLost
    <3>5. ~(unread >= max) /\ ~overrun
      BY <1>1, <3>3, <3>4
    <3>6. ~overrun'
      BY ONLY <3>1, <3>5, Zenon
    <3> QED
      BY <1>1, <3>1, <3>2, <3>4, <3>6
  <2> QED
    BY <2>1, <2>2
<1>3. CASE WatchdogReset
  BY <1>3 DEF WatchdogReset, R!NewRing
<1>4. CASE RxTest \/ RxTake \/ RxLoad
  BY <1>1, <1>4 DEF RxTest, RxTake, RxLoad
<1>5. CASE RxStore
  <2>1. in'.size = reg - 1
    BY <1>5 DEF RxStore, SizeAfter, Counting, TypeOK, R!Ring
  <2> QED
    BY <1>1, <1>5, <2>1 DEF RxStore
<1>6. CASE RxMove
  <2>1. in'.size = in.size
    BY <1>6 DEF RxMove, Counting, TypeOK, R!Ring
  <2> QED
    BY <1>6, <2>1 DEF RxMove
<1>7. CASE UNCHANGED vars
  BY <1>7 DEF vars, mainVars
<1> QED
  BY <1>2, <1>3, <1>4, <1>5, <1>6, <1>7 DEF Next

\* A character is overwritten in silence only after the interrupt has come
\* between the load and the store of size--: with that update made atomic,
\* ringbuf_add_err would keep its promise for a ring of any size.
THEOREM OverrunNeedsLostUpdate ==
  Spec /\ [][~UpdateLost]_vars => []NoSilentOverrun
<1>1. Init => Exact
  BY DEF Init, Exact, Counted, R!NewRing
<1>2. Counting /\ Exact /\ [Next]_vars /\ [~UpdateLost]_vars => Exact'
  <2>1. UNCHANGED vars /\ Exact => Exact'
    BY DEF vars, mainVars, Exact, Counted
  <2> QED
    BY <2>1, StepExact
<1>3. Exact => NoSilentOverrun
  BY DEF Exact, NoSilentOverrun
<1> QED
  BY <1>1, <1>2, <1>3, InitCounting, StepCounting, PTL DEF Spec
=============================================================================
