------------------------------- MODULE UartTx -------------------------------
(***************************************************************************)
(* The console's output: shell and rx_thread share uart_mutex, the pointer *)
(* p of uart_tx_str and the ring uart_out_buf, which the USART_DATA        *)
(* interrupt empties.  A message is what a thread prints between UART_WAIT *)
(* and UART_SIGNAL: any number of strings.                                 *)
(*                                                                         *)
(* uart_tx_str holds off the interrupt while it copies; it may run between *)
(* any two other steps.                                                    *)
(***************************************************************************)
EXTENDS Integers

CONSTANTS
  max,            \* size of uart_out_buf
  StrLen,         \* characters of each string
  MaxStrings      \* most strings in one message

ASSUME UartTxAssumption ==
  /\ max \in Nat \ {0} /\ StrLen \in Nat \ {0} /\ MaxStrings \in Nat \ {0, 1}

Threads == {"shell", "rx"}

VARIABLES
  turn,           \* the thread main() is polling
  copying,        \* in the loop of uart_tx_str
  label,          \* where it waits: for input, the radio, uart_mutex, a string
  strings, nr,    \* strings in its message, and the one it is at
  prompt,         \* the shell has its prompt to print after this message
  uart_mutex,     \* uart.h
  p,              \* uart.c: the next character of the string under way
  out,            \* uart.c: uart_out_buf
  udrie,          \* USART_DATA enabled
  wire            \* ghost: the last character that left the node

threadVars == <<turn, copying, label, strings, nr, prompt>>
vars == <<threadVars, uart_mutex, p, out, udrie, wire>>

\* A character: whose, of how many strings, in which of them, and where in it.
Char == [who : Threads, of : 1 .. MaxStrings, nr : 1 .. MaxStrings,
         pos : 1 .. StrLen + 1]
Null == [who |-> "none", of |-> 0, nr |-> 0, pos |-> 0]

R == INSTANCE RingBuf WITH Byte <- Char \union {Null}

TypeOK ==
  /\ turn \in Threads \union {"uart"}
  /\ label \in [Threads -> {"idle", "radio", "mutex", "print"}]
  /\ strings \in [Threads -> 0 .. MaxStrings]
  /\ nr \in [Threads -> 1 .. MaxStrings + 1]
  /\ prompt \in BOOLEAN /\ udrie \in BOOLEAN /\ copying \in BOOLEAN
  /\ uart_mutex \in 0 .. 1
  /\ p \in Char \union {Null} /\ wire \in Char \union {Null}
  /\ out \in R!Ring /\ R!Agrees(out)

\* The shell starts with its boot message and prompt.
Init ==
  /\ turn = "shell" /\ copying = FALSE
  /\ label = [t \in Threads |-> IF t = "shell" THEN "mutex" ELSE "idle"]
  /\ strings = [t \in Threads |-> 2] /\ nr = [t \in Threads |-> 1]
  /\ prompt = FALSE /\ uart_mutex = 1 /\ p = Null
  /\ out = R!NewRing(Null)
  /\ udrie = TRUE /\ wire = Null

-----------------------------------------------------------------------------
(* Polls *)

NextThread == [shell |-> "rx", rx |-> "uart", uart |-> "shell"]
Yield == turn' = NextThread[turn]

\* Nothing typed, no message received.
Nothing(t) ==
  /\ turn = t /\ label[t] = "idle"
  /\ Yield
  /\ UNCHANGED <<copying, label, strings, nr, prompt, uart_mutex, p, out, udrie, wire>>

\* A command that prints, or a message from the mesh; then UART_WAIT.
Request(t) ==
  /\ turn = t
  /\ label[t] = "idle" \/ (t = "shell" /\ label[t] = "radio")
  /\ label' = [label EXCEPT ![t] = "mutex"]
  /\ strings' \in {[strings EXCEPT ![t] = n] : n \in 0 .. MaxStrings}
  /\ prompt' = (prompt \/ t = "shell")
  /\ UNCHANGED <<turn, copying, nr, uart_mutex, p, out, udrie, wire>>

\* Command `s' waits for the radio first, for any number of polls.
Radio ==
  /\ turn = "shell" /\ label["shell"] \in {"idle", "radio"}
  /\ label' = [label EXCEPT !["shell"] = "radio"]
  /\ Yield
  /\ UNCHANGED <<copying, strings, nr, prompt, uart_mutex, p, out, udrie, wire>>

\* A command that prints nothing: only the prompt.
Silent ==
  /\ turn = "shell" /\ label["shell"] \in {"idle", "radio"}
  /\ label' = [label EXCEPT !["shell"] = "mutex"]
  /\ strings' = [strings EXCEPT !["shell"] = 1]
  /\ UNCHANGED <<turn, copying, nr, prompt, uart_mutex, p, out, udrie, wire>>

SemFreeUnchecked == TRUE
SemFree == uart_mutex > 0

\* UART_WAIT
Wait(t) ==
  /\ turn = t /\ label[t] = "mutex"
  /\ IF SemFree
     THEN /\ uart_mutex' = uart_mutex - 1
          /\ label' = [label EXCEPT ![t] = "print"]
          /\ nr' = [nr EXCEPT ![t] = 1]
          /\ UNCHANGED turn
     ELSE Yield /\ UNCHANGED <<uart_mutex, label, nr>>
  /\ UNCHANGED <<copying, strings, prompt, p, out, udrie, wire>>

\* uart_tx_str goes on at p, or at the start of the string it is given.
TxStr(t) ==
  /\ turn = t /\ label[t] = "print" /\ nr[t] <= strings[t] /\ ~copying
  /\ copying' = TRUE /\ udrie' = FALSE
  /\ p' = IF p # Null THEN p
          ELSE [who |-> t, of |-> strings[t], nr |-> nr[t], pos |-> 1]
  /\ UNCHANGED <<turn, label, strings, nr, prompt, uart_mutex, out, wire>>

InString == p.pos <= StrLen

Copy ==
  /\ copying /\ InString /\ ~R!IsFull(out)
  /\ out' = R!Add(out, p)
  /\ p' = [p EXCEPT !.pos = @ + 1]
  /\ UNCHANGED <<threadVars, uart_mutex, udrie, wire>>

\* What the end of uart_tx_str leaves in p.
PForgotten == Null
PAfter == IF InString THEN p ELSE Null

EndCopy ==
  /\ copying /\ (InString => R!IsFull(out))
  /\ copying' = FALSE /\ udrie' = TRUE
  /\ p' = PAfter
  /\ IF InString
     THEN Yield /\ UNCHANGED nr
     ELSE nr' = [nr EXCEPT ![turn] = @ + 1] /\ UNCHANGED turn
  /\ UNCHANGED <<label, strings, prompt, uart_mutex, out, wire>>

\* UART_SIGNAL.  The shell goes on in the same poll, with its prompt or with
\* the next character typed; rx_thread ends.
SignalForgotten == uart_mutex
Signalled == uart_mutex + 1

Finish(t) ==
  /\ turn = t /\ label[t] = "print" /\ nr[t] > strings[t]
  /\ uart_mutex' = Signalled
  /\ IF t = "shell" /\ prompt
     THEN /\ label' = [label EXCEPT ![t] = "mutex"]
          /\ strings' = [strings EXCEPT ![t] = 1]
          /\ prompt' = FALSE
     ELSE label' = [label EXCEPT ![t] = "idle"] /\ UNCHANGED <<strings, prompt>>
  /\ IF t = "rx" THEN Yield ELSE UNCHANGED turn
  /\ UNCHANGED <<copying, nr, p, out, udrie, wire>>

\* uart_tx_thread
UartTxThread ==
  /\ turn = "uart"
  /\ udrie' = (udrie \/ out.size > 0)
  /\ Yield
  /\ UNCHANGED <<copying, label, strings, nr, prompt, uart_mutex, p, out, wire>>

-----------------------------------------------------------------------------
\* The USART_DATA interrupt: the transmitter is ready for a character.
DataIrq ==
  /\ udrie
  /\ IF R!IsEmpty(out)
     THEN udrie' = FALSE /\ UNCHANGED <<out, wire>>
     ELSE wire' = R!First(out) /\ out' = R!Remove(out) /\ UNCHANGED udrie
  /\ UNCHANGED <<threadVars, uart_mutex, p>>

Poll(t) == Nothing(t) \/ Request(t) \/ Wait(t) \/ TxStr(t) \/ Finish(t)

MainStep ==
  \/ \E t \in Threads : Poll(t)
  \/ Radio \/ Silent \/ Copy \/ EndCopy \/ UartTxThread

Next == MainStep \/ DataIrq

Spec == Init /\ [][Next]_vars

\* The main loop never stops; UDRE stays set, so the interrupt comes when
\* uart_tx_str lets it in again.
FairSpec == Spec /\ WF_vars(MainStep) /\ SF_vars(DataIrq)

-----------------------------------------------------------------------------
Printing == {t \in Threads : label[t] = "print"}

\* uart_mutex counts its holders, and a string that uart_tx_str has begun
\* belongs to the holder: nobody else's string is taken for its rest.
StringOfHolder ==
  /\ uart_mutex = 1 <=> Printing = {}
  /\ \A t, u \in Printing : t = u
  /\ p # Null => label[p.who] = "print" /\ p.nr = nr[p.who]

\* What may leave the node after c: the rest of its message, or another one.
Follows(c, d) ==
  IF c # Null /\ c.pos < StrLen
  THEN d = [c EXCEPT !.pos = @ + 1]
  ELSE IF c # Null /\ c.nr < c.of
  THEN d = [who |-> c.who, of |-> c.of, nr |-> c.nr + 1, pos |-> 1]
  ELSE d.nr = 1 /\ d.pos = 1

\* The characters of a message leave the node one after the other, none left
\* out, none twice, and none of another message between them.
MessagesWhole ==
  [][wire' # wire \/ out.size' < out.size => Follows(wire, wire')]_vars

\* rx_thread gets the console when the shell leaves it a turn again and again
\* (a user who keeps the shell busy can starve it).
RxPrints ==
  []<>(turn = "rx" /\ label["shell"] \in {"idle", "radio"}) =>
    (label["rx"] = "mutex" ~> label["rx"] = "print")

\* A message that was begun is printed to its end; and when nobody prints any
\* more the last of it leaves the ring too: the interrupt is not left off.
MessagesEnd ==
  /\ \A t \in Threads : label[t] = "print" ~> label[t] # "print"
  /\ <>[](Printing = {}) => <>[]R!IsEmpty(out)

F == INSTANCE Fifo WITH Byte <- Char, q <- R!Contents(out)

\* uart_out_buf is a queue between the threads and the interrupt: see Fifo.
ImplementsFifo == F!Spec
=============================================================================
