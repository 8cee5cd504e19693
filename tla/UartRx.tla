------------------------------- MODULE UartRx -------------------------------
(***************************************************************************)
(* The console's input: the USART_RECV interrupt adds to uart_in_buf, and  *)
(* uart_rx, called by the shell with the interrupt enabled, removes.  Its  *)
(* size-- loads the 16-bit count, subtracts and stores it in several       *)
(* instructions.  The interrupt does not look at `start', so that pointer  *)
(* is moved and wrapped in one step.                                       *)
(***************************************************************************)
EXTENDS Integers

CONSTANTS
  max,          \* size of uart_in_buf
  CharMod,      \* characters are numbered modulo CharMod as they are typed
  MaxUnread     \* bound on characters typed and not read

ASSUME UartRxAssumption ==
  /\ max \in Nat \ {0} /\ MaxUnread \in Nat
  /\ CharMod \in Nat /\ CharMod > MaxUnread

VARIABLES
  in,           \* uart.c: uart_in_buf
  pc, reg,      \* uart_rx: its next step, and the count it has loaded
  what,         \* the character it returns
  hung,         \* watchdog_error: the node waits for its reset
  typed,        \* ghost: the next character to be typed
  unread,       \* ghost: characters typed and not read
  overrun       \* ghost: one of them was overwritten

mainVars == <<pc, reg, what>>
vars == <<in, mainVars, hung, typed, unread, overrun>>

Char == 0 .. CharMod - 1
R == INSTANCE RingBuf WITH Byte <- Char

TypeOK ==
  /\ in \in R!Ring
  /\ pc \in {"test", "take", "load", "store", "move"}
  /\ reg \in 0 .. max /\ what \in Char /\ typed \in Char
  /\ hung \in BOOLEAN /\ overrun \in BOOLEAN
  /\ unread \in 0 .. MaxUnread

Init ==
  /\ in = R!NewRing(0)
  /\ pc = "test" /\ reg = 0 /\ what = 0 /\ hung = FALSE
  /\ typed = 0 /\ unread = 0 /\ overrun = FALSE

\* USART_RECV, with ringbuf_add_err: a character that finds the ring full is
\* an error that resets the node.
RecvIrq ==
  /\ ~hung /\ unread < MaxUnread
  /\ IF R!IsFull(in)
     THEN hung' = TRUE /\ UNCHANGED <<in, typed, unread, overrun>>
     ELSE /\ in' = R!Add(in, typed)
          /\ typed' = (typed + 1) % CharMod
          /\ unread' = unread + 1
          /\ overrun' = (overrun \/ unread >= max)
          /\ UNCHANGED hung
  /\ UNCHANGED mainVars

WatchdogReset ==
  /\ hung
  /\ in' = R!NewRing(0)
  /\ pc' = "test" /\ reg' = 0 /\ what' = 0 /\ hung' = FALSE
  /\ typed' = 0 /\ unread' = 0 /\ overrun' = FALSE

\* uart_rx: nothing to read, or a character.
RxTest ==
  /\ ~hung /\ pc = "test"
  /\ pc' = IF R!IsEmpty(in) THEN "test" ELSE "take"
  /\ UNCHANGED <<in, reg, what, hung, typed, unread, overrun>>

RxTake ==
  /\ ~hung /\ pc = "take"
  /\ what' = R!First(in)
  /\ unread' = unread - 1
  /\ pc' = "load"
  /\ UNCHANGED <<in, reg, hung, typed, overrun>>

RxLoad ==
  /\ ~hung /\ pc = "load"
  /\ reg' = in.size
  /\ pc' = "store"
  /\ UNCHANGED <<in, what, hung, typed, unread, overrun>>

SizeKept == reg
SizeAfter == reg - 1

RxStore ==
  /\ ~hung /\ pc = "store"
  /\ in' = [in EXCEPT !.size = SizeAfter]
  /\ pc' = "move"
  /\ UNCHANGED <<reg, what, hung, typed, unread, overrun>>

RxMove ==
  /\ ~hung /\ pc = "move"
  /\ in' = [in EXCEPT !.start = R!Wrap(@ + 1)]
  /\ pc' = "test"
  /\ UNCHANGED <<reg, what, hung, typed, unread, overrun>>

Next ==
  \/ RecvIrq \/ WatchdogReset
  \/ RxTest \/ RxTake \/ RxLoad \/ RxStore \/ RxMove

Spec == Init /\ [][Next]_vars

-----------------------------------------------------------------------------
Counted == IF pc \in {"load", "store"} THEN in.size - 1 ELSE in.size

\* The ring never counts a character that was not typed, whatever updates of
\* its size are lost: uart_rx returns no stale byte.
NothingInvented == Counted <= unread

\* Characters are read in the order they were typed, none left out, until one
\* was overwritten.
InOrder ==
  [][RxTake /\ ~overrun => what' = (typed - unread) % CharMod]_vars

\* A character that arrives when the ring holds max others is an error, as
\* ringbuf_add_err in the interrupt has it; it never overwrites one of them.
NoSilentOverrun == ~overrun
=============================================================================
