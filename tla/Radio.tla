------------------------------- MODULE Radio -------------------------------
(***************************************************************************)
(* The transmit and receive path of one node: the three protothreads that *)
(* transmit (shell, batman_thread, rx_thread), the batman mutex they share,*)
(* the single llc_tx and mac_tx protothreads below them, the RFM12 mutex,  *)
(* and the NIRQ interrupt that moves bytes and returns that mutex.         *)
(*                                                                         *)
(* The main program is one round robin of polls (main.c).  An interrupt    *)
(* may run between any two of its steps unless interrupts are off (sreg)   *)
(* or the NIRQ line is masked (gicr).  mpc is the place of the main        *)
(* program inside the poll of thread `turn'; label, llcPc, macPc and       *)
(* nirqPc are the local continuations of the protothreads.                 *)
(***************************************************************************)
EXTENDS Integers

CONSTANTS
  LLC_HEADER_SIZE, BATMAN_HEADER_SIZE, OGM_HEADER_SIZE,
  MessageLen,      \* bytes of text (with its NUL) that the shell sends
  RxLens,          \* values of llc->len in the unicast frames received
  LenMod,          \* llc->len is a bit field: 2^12 in the code
  SeqMod,          \* seqno is a uint16_t: 2^16 in the code
  PreambleLen,     \* bytes of `preamble' before its NUL
  PostambleLen,    \* bytes of `postamble' before its NUL
  CollisionFlags,  \* values CONFIG_FLAG_COLLISION_DETECTION takes
  RssiFlags,       \* values CONFIG_FLAG_RSSI_DETECTION takes
  RxKinds          \* what a frame handed to batman_rx can turn out to be

AllRxKinds == {"badcrc", "drop", "ogm", "forward", "mine"}

ASSUME SizesAssumption ==
  /\ LLC_HEADER_SIZE \in Nat \ {0}
  /\ BATMAN_HEADER_SIZE \in Nat
  /\ OGM_HEADER_SIZE \in Nat
  /\ MessageLen \in Nat
  /\ PreambleLen \in Nat \ {0}
  /\ PostambleLen \in Nat \ {0}

ASSUME WidthsAssumption ==
  /\ LenMod \in Nat \ {0}
  /\ SeqMod \in Nat \ {0}
  /\ BATMAN_HEADER_SIZE + MessageLen < LenMod
  /\ OGM_HEADER_SIZE < LenMod
  /\ RxLens \subseteq 0 .. LenMod - 1
  /\ RxLens # {}

ASSUME ChoicesAssumption ==
  /\ CollisionFlags \subseteq BOOLEAN /\ CollisionFlags # {}
  /\ RssiFlags \subseteq BOOLEAN /\ RssiFlags # {}
  /\ RxKinds \subseteq AllRxKinds

Callers == {"shell", "batman", "rx"}      \* the threads that call llc_tx
Threads == Callers \union {"timer"}

VARIABLES
  turn,             \* the protothread main() is polling
  mpc,              \* the main program's place within that poll
  label,            \* where each caller of llc_tx waits
  mutex,            \* batman.c: mutex.count
  send_ogm,         \* batman.c: send_ogm
  seqno,            \* batman.c: seqno
  llcPc,            \* llc.c: pt_tx
  packet,           \* llc.c: state_tx.packet, named by its owner
  cnt,              \* llc.c: state_tx.cnt
  hasnext,          \* llc.c: state_tx.hasnext
  len,              \* llc->len in the packet buffer of each caller
  macPc,            \* mac.c: pt
  state,            \* mac.c: state
  left,             \* mac.c: bytes from p to the NUL
  rfMutex,          \* rfm12.c: mutex.count
  radio_state,      \* rfm12.c: radio_state
  nirqPc,           \* rfm12.c: pt_nirq
  sreg,             \* the I bit of SREG: interrupts enabled
  gicr,             \* the NIRQ bit of GICR: radio interrupt unmasked
  rxState,          \* llc.c: state_rx.state, ABORTED counted as DATA
  needs_processing, \* llc.c: needs_processing
  aired,            \* ghost: the callers whose frame has gone out in full
  rcvLen            \* ghost: llc->len of the frame rx_thread is handling

cpuVars   == <<turn, mpc>>
callVars  == <<label, mutex, send_ogm, seqno>>
llcVars   == <<llcPc, packet, cnt, hasnext, len>>
macVars   == <<macPc, state, left>>
rfmVars   == <<rfMutex, radio_state, nirqPc>>
irqVars   == <<sreg, gicr>>
rxVars    == <<rxState, needs_processing>>
ghostVars == <<aired, rcvLen>>
vars == <<cpuVars, callVars, llcVars, macVars, rfmVars, irqVars, rxVars,
          ghostVars>>

Lens == 0 .. LenMod - 1

FlagTypes ==
  /\ send_ogm \in BOOLEAN /\ hasnext \in BOOLEAN
  /\ sreg \in BOOLEAN /\ gicr \in BOOLEAN
  /\ needs_processing \in BOOLEAN

CallerTypes ==
  /\ turn \in Threads
  /\ mpc \in {"poll", "llc", "cli", "test", "take", "carrier", "enable",
              "release", "fin", "done"}
  /\ label \in [Callers -> {"idle", "sem", "tx", "fwd", "print"}]
  /\ mutex \in 0 .. 1
  /\ seqno \in 0 .. SeqMod - 1

PacketTypes ==
  /\ llcPc \in {"start", "mac"}
  /\ packet \in Callers
  /\ cnt \in Nat
  /\ len \in [Callers -> Lens]

GhostTypes == aired \subseteq Callers /\ rcvLen \in Lens

RadioTypes ==
  /\ macPc \in {"start", "carrier", "fin"}
  /\ state \in {"PREAMBLE", "DATA", "POSTAMBLE", "FIN"}
  /\ left \in 0 .. PreambleLen + PostambleLen
  /\ rfMutex \in 0 .. 1
  /\ radio_state \in {"TX", "RX"}
  /\ nirqPc \in {"start", "tx", "rx", "sem"}
  /\ rxState \in {"DATA", "FIN"}

TypeOK ==
  FlagTypes /\ CallerTypes /\ PacketTypes /\ RadioTypes /\ GhostTypes

Init ==
  /\ turn = "shell" /\ mpc = "poll"
  /\ label = [c \in Callers |-> "idle"]
  /\ mutex = 1 /\ send_ogm = FALSE /\ seqno = 0
  /\ llcPc = "start" /\ packet = "shell" /\ cnt = 0 /\ hasnext = FALSE
  /\ len = [c \in Callers |-> 0]
  /\ macPc = "start" /\ state = "PREAMBLE" /\ left = 0
  /\ rfMutex = 1 /\ radio_state = "RX" /\ nirqPc = "start"
  /\ sreg = TRUE /\ gicr = TRUE
  /\ rxState = "DATA" /\ needs_processing = FALSE
  /\ aired = {} /\ rcvLen \in RxLens

-----------------------------------------------------------------------------
(* The round robin of main() *)

NextThread == [shell |-> "batman", batman |-> "rx", rx |-> "timer",
               timer |-> "shell"]

\* The polled protothread returns PT_WAITING or PT_ENDED.
Yield == turn' = NextThread[turn] /\ mpc' = "poll"

\* The polled protothread calls llc_tx in the same poll.
CallLlc == turn' = turn /\ mpc' = "llc"

Polled(t) == turn = t /\ mpc = "poll"

\* The condition of PT_SEM_WAIT on batman.c's mutex.
SemFreeUnchecked == TRUE
SemFree == mutex > 0

\* PT_SEM_WAIT(&mutex) and, when it does not block, the first call of llc_tx.
SemWait(c) ==
  IF SemFree
  THEN /\ mutex' = mutex - 1
       /\ label' = [label EXCEPT ![c] = "tx"]
       /\ aired' = aired \ {c}
       /\ CallLlc
  ELSE /\ label' = [label EXCEPT ![c] = "sem"]
       /\ UNCHANGED <<mutex, aired>>
       /\ Yield

\* A poll of a caller that already waits: for the mutex, or in llc_tx.
Resume(c) ==
  /\ Polled(c)
  /\ \/ label[c] = "sem" /\ SemWait(c)
     \/ /\ label[c] \in {"tx", "fwd"}
        /\ CallLlc
        /\ UNCHANGED <<label, mutex, aired>>
  /\ UNCHANGED <<send_ogm, seqno, llcVars, macVars, rfmVars, irqVars, rxVars,
                 rcvLen>>

\* Nothing typed, a command that sends nothing, or batman_tx without a route.
ShellIdle ==
  /\ Polled("shell") /\ label["shell"] = "idle"
  /\ Yield
  /\ UNCHANGED <<callVars, llcVars, macVars, rfmVars, irqVars, rxVars,
                 ghostVars>>

\* Command `o': batman_one_second_elapsed() from the shell.
ShellTick ==
  /\ Polled("shell") /\ label["shell"] = "idle"
  /\ send_ogm' = TRUE
  /\ Yield
  /\ UNCHANGED <<label, mutex, seqno, llcVars, macVars, rfmVars, irqVars,
                 rxVars, ghostVars>>

\* Command `s' with a route to the target: batman_tx takes the mutex.
ShellSend ==
  /\ Polled("shell") /\ label["shell"] = "idle"
  /\ SemWait("shell")
  /\ UNCHANGED <<send_ogm, seqno, llcVars, macVars, rfmVars, irqVars, rxVars,
                 rcvLen>>

\* batman_thread: waits for send_ogm, then claims the mutex.
BatmanPoll ==
  /\ Polled("batman") /\ label["batman"] = "idle"
  /\ IF send_ogm
     THEN send_ogm' = FALSE /\ SemWait("batman")
     ELSE Yield /\ UNCHANGED <<label, mutex, send_ogm, aired>>
  /\ UNCHANGED <<seqno, llcVars, macVars, rfmVars, irqVars, rxVars, rcvLen>>

\* llc_rx() finds no frame: batman_rx keeps waiting.
RxIdle ==
  /\ Polled("rx") /\ label["rx"] = "idle"
  /\ ~needs_processing
  /\ Yield
  /\ UNCHANGED <<callVars, llcVars, macVars, rfmVars, irqVars, rxVars,
                 ghostVars>>

\* llc_rx() consumes a frame and batman_rx decides what it is.  A dropped
\* frame sends the loop back to llc_rx() within the same poll.
RxFrame(kind) ==
  /\ Polled("rx") /\ label["rx"] = "idle"
  /\ needs_processing
  /\ needs_processing' = FALSE /\ rxState' = "DATA"
  /\ \E l \in RxLens :
       IF kind = "badcrc"
       THEN UNCHANGED <<len, rcvLen>>
       ELSE len' = [len EXCEPT !["rx"] = l] /\ rcvLen' = l
  /\ \/ kind = "badcrc" /\ Yield /\ UNCHANGED <<label, mutex, aired>>
     \/ kind = "drop" /\ UNCHANGED <<cpuVars, label, mutex, aired>>
     \/ kind = "ogm" /\ SemWait("rx")
     \/ /\ kind = "forward"               \* no PT_SEM_WAIT on this path
        /\ label' = [label EXCEPT !["rx"] = "fwd"]
        /\ aired' = aired \ {"rx"}
        /\ CallLlc
        /\ UNCHANGED mutex
     \/ /\ kind = "mine"
        /\ label' = [label EXCEPT !["rx"] = "print"]
        /\ Yield
        /\ UNCHANGED <<mutex, aired>>
  /\ UNCHANGED <<send_ogm, seqno, llcPc, packet, cnt, hasnext, macVars, rfmVars,
                 irqVars>>

\* rx_thread writes the message to the UART for any number of polls.
RxPrint ==
  /\ Polled("rx") /\ label["rx"] = "print"
  /\ label' \in {label, [label EXCEPT !["rx"] = "idle"]}
  /\ Yield
  /\ UNCHANGED <<mutex, send_ogm, seqno, llcVars, macVars, rfmVars, irqVars,
                 rxVars, ghostVars>>

\* timer_thread: a second has passed or not.
TimerPoll ==
  /\ Polled("timer")
  /\ send_ogm' \in {send_ogm, TRUE}
  /\ Yield
  /\ UNCHANGED <<label, mutex, seqno, llcVars, macVars, rfmVars, irqVars,
                 rxVars, ghostVars>>

-----------------------------------------------------------------------------
(* llc_tx, mac_tx and rfm12_lock, called by the polled caller *)

\* The data_len each caller passes.  The forward adds the header to a length
\* that already counts it.
DataLen(c) ==
  IF c = "shell" THEN BATMAN_HEADER_SIZE + MessageLen
  ELSE IF c = "rx" /\ label[c] = "fwd"
       THEN (BATMAN_HEADER_SIZE + len[c]) % LenMod
       ELSE OGM_HEADER_SIZE

\* PT_BEGIN of llc_tx: whether this call starts the protothread afresh.
LlcStartsAlways == TRUE
LlcStarts == llcPc = "start"

\* llc_tx: a fresh call describes the caller's packet in state_tx; every call
\* then resumes mac_tx where that protothread stands.
LlcTx ==
  /\ mpc = "llc"
  /\ IF LlcStarts
     THEN /\ llcPc' = "mac"
          /\ packet' = turn
          /\ cnt' = 0
          /\ len' = [len EXCEPT ![turn] = DataLen(turn)]
     ELSE UNCHANGED <<llcPc, packet, cnt, len>>
  /\ mpc' = IF macPc = "start" THEN "cli" ELSE macPc
  /\ UNCHANGED <<turn, hasnext, callVars, macVars, rfmVars, irqVars, rxVars,
                 ghostVars>>

\* PT_WAIT_UNTIL_ATOMIC of rfm12_lock: cli(), test, sei() when it must wait.
LockCli ==
  /\ mpc = "cli"
  /\ sreg' = FALSE
  /\ mpc' = "test"
  /\ UNCHANGED <<turn, callVars, llcVars, macVars, rfmVars, gicr, rxVars,
                 ghostVars>>

LockFreeUnchecked == TRUE
LockFree == rfMutex > 0

LockTest ==
  /\ mpc = "test"
  /\ IF LockFree
     THEN /\ rfMutex' = rfMutex - 1
          /\ mpc' = "take"
          /\ UNCHANGED <<turn, sreg>>
     ELSE /\ sreg' = TRUE
          /\ Yield
          /\ UNCHANGED rfMutex
  /\ UNCHANGED <<callVars, llcVars, macVars, radio_state, nirqPc, gicr, rxVars,
                 ghostVars>>

\* rfm12_disable_nirq_isr()
MaskForgotten == UNCHANGED gicr
MaskNirq == gicr' = FALSE

\* The rest of rfm12_lock masks NIRQ before sei(); mac_tx then points p at the
\* preamble and reads the collision-detection flag.
LockTake ==
  /\ mpc = "take"
  /\ MaskNirq /\ sreg' = TRUE
  /\ state' = "PREAMBLE" /\ left' = PreambleLen
  /\ \E detect \in CollisionFlags :
       IF detect
       THEN mpc' = "carrier" /\ macPc' = "carrier"
       ELSE mpc' = "enable" /\ UNCHANGED macPc
  /\ UNCHANGED <<turn, callVars, llcVars, rfmVars, rxVars, ghostVars>>

CarrierFree ==
  /\ mpc = "carrier"
  /\ mpc' = "enable"
  /\ UNCHANGED <<turn, callVars, llcVars, macVars, rfmVars, irqVars, rxVars,
                 ghostVars>>

CarrierBusy ==
  /\ mpc = "carrier"
  /\ Yield
  /\ UNCHANGED <<callVars, llcVars, macVars, rfmVars, irqVars, rxVars,
                 ghostVars>>

\* rfm12_enable_tx, with its PT_INIT(&pt_nirq).
EnableTx ==
  /\ mpc = "enable"
  /\ radio_state' = "TX" /\ nirqPc' = "start"
  /\ mpc' = "release"
  /\ UNCHANGED <<turn, callVars, llcVars, macVars, rfMutex, irqVars, rxVars,
                 ghostVars>>

\* rfm12_release unmasks NIRQ; mac_tx reaches its wait for FIN.
Release ==
  /\ mpc = "release"
  /\ gicr' = TRUE
  /\ mpc' = "fin" /\ macPc' = "fin"
  /\ UNCHANGED <<turn, callVars, llcVars, state, left, rfmVars, sreg, rxVars,
                 ghostVars>>

FrameOutEarly == state # "PREAMBLE"
FrameOut == state = "FIN"

\* PT_WAIT_UNTIL(state == FIN); on FIN mac_tx and llc_tx end in this poll.
WaitFin ==
  /\ mpc = "fin"
  /\ IF FrameOut
     THEN macPc' = "start" /\ llcPc' = "start" /\ mpc' = "done" /\ turn' = turn
     ELSE Yield /\ UNCHANGED <<macPc, llcPc>>
  /\ UNCHANGED <<callVars, packet, cnt, hasnext, len, state, left, rfmVars,
                 irqVars, rxVars, ghostVars>>

\* PT_SEM_SIGNAL(&mutex), which the forward path never reaches.
MutexForgotten(c) == mutex
MutexSignalledByAll(c) == mutex + 1
MutexAfter(c) == IF label[c] = "tx" THEN mutex + 1 ELSE mutex

\* What the caller does when llc_tx has returned PT_ENDED to it.
Done ==
  /\ mpc = "done"
  /\ mutex' = MutexAfter(turn)
  /\ seqno' = IF turn = "batman" THEN (seqno + 1) % SeqMod ELSE seqno
  /\ label' = [label EXCEPT ![turn] = "idle"]
  /\ IF turn = "rx" THEN turn' = turn /\ mpc' = "poll" ELSE Yield
  /\ UNCHANGED <<send_ogm, llcVars, macVars, rfmVars, irqVars, rxVars,
                 ghostVars>>

-----------------------------------------------------------------------------
(* The NIRQ interrupt: one run of rfm12_nirq_thread with the FIFO ready *)

IrqEnabled == sreg /\ gicr

\* pos = LLC_HEADER_SIZE + llc->len - 1 for the byte being fetched
LastByteLate == cnt \div 2 = LLC_HEADER_SIZE + len[packet]
LastByte == cnt \div 2 = LLC_HEADER_SIZE + len[packet] - 1

\* PT_SEM_SIGNAL of the transmitting branch
TxMutexForgotten == rfMutex
TxMutexAfter == rfMutex + 1

\* rfm12_tx_cb: mac_tx_rfm12 hands one byte to the radio.
NirqTx ==
  /\ IrqEnabled
  /\ nirqPc = "tx" \/ (nirqPc = "start" /\ radio_state = "TX")
  /\ state \in {"PREAMBLE", "POSTAMBLE"}
  /\ left' = left - 1
  /\ IF left > 1
     THEN nirqPc' = "tx" /\ UNCHANGED <<state, rfMutex, radio_state, aired>>
     ELSE IF state = "PREAMBLE"
     THEN /\ state' = "DATA" /\ nirqPc' = "tx"
          /\ UNCHANGED <<rfMutex, radio_state, aired>>
     ELSE /\ state' = "FIN" /\ nirqPc' = "start"
          /\ rfMutex' = TxMutexAfter
          /\ radio_state' = "RX"
          /\ aired' = aired \union {packet}
  /\ UNCHANGED <<cpuVars, callVars, llcVars, macPc, irqVars, rxVars, rcvLen>>

\* rfm12_tx_cb in DATA: llc_tx_mac fetches a byte on even counts and sends its
\* low nibble, and sends the high nibble on odd counts.
NirqTxData ==
  /\ IrqEnabled
  /\ nirqPc = "tx" \/ (nirqPc = "start" /\ radio_state = "TX")
  /\ state = "DATA"
  /\ nirqPc' = "tx"
  /\ cnt' = cnt + 1
  /\ IF cnt % 2 = 0
     THEN hasnext' = ~LastByte /\ UNCHANGED <<state, left>>
     ELSE /\ UNCHANGED hasnext
          /\ IF hasnext
             THEN UNCHANGED <<state, left>>
             ELSE state' = "POSTAMBLE" /\ left' = PostambleLen
  /\ UNCHANGED <<cpuVars, callVars, llcPc, packet, len, macPc, rfMutex,
                 radio_state, irqVars, rxVars, ghostVars>>

\* PT_SEM_SIGNAL of the receiving branch
RxMutexForgotten == rfMutex
RxMutexAfter == IF nirqPc = "rx" THEN rfMutex + 1 ELSE rfMutex

\* rfm12_rx_cb: the byte goes to llc_rx_mac unless the carrier is found lost
\* (RSSI detection).  EOP and a lost carrier end the interrupt's thread.
\* `sem' is where the thread would stay had PT_SEM_WAIT found the mutex taken.
NirqRx(byte) ==
  /\ IrqEnabled
  /\ nirqPc \in {"rx", "sem"} \/ (nirqPc = "start" /\ radio_state = "RX")
  /\ IF nirqPc # "rx" /\ rfMutex = 0
     THEN nirqPc' = "sem" /\ UNCHANGED <<rfMutex, radio_state, rxVars>>
     ELSE IF byte = "data"
     THEN /\ nirqPc' = "rx"
          /\ rfMutex' = IF nirqPc = "rx" THEN rfMutex ELSE rfMutex - 1
          /\ IF needs_processing
             THEN UNCHANGED rxState
             ELSE rxState' \in {rxState, "FIN"}
          /\ UNCHANGED <<radio_state, needs_processing>>
     ELSE /\ nirqPc' = "start"
          /\ rfMutex' = RxMutexAfter
          /\ radio_state' = "RX"
          /\ IF byte = "eop" /\ ~needs_processing /\ rxState = "FIN"
             THEN needs_processing' = TRUE /\ UNCHANGED rxState
             ELSE /\ rxState' = IF needs_processing THEN rxState ELSE "DATA"
                  /\ UNCHANGED needs_processing
  /\ UNCHANGED <<cpuVars, callVars, llcVars, macVars, irqVars, ghostVars>>

RxBytes == {"data", "eop"} \union (IF TRUE \in RssiFlags THEN {"lost"} ELSE {})

-----------------------------------------------------------------------------
MainStep ==
  \/ ShellIdle \/ ShellTick \/ ShellSend
  \/ BatmanPoll
  \/ RxIdle \/ RxPrint
  \/ \E kind \in RxKinds : RxFrame(kind)
  \/ TimerPoll
  \/ \E c \in Callers : Resume(c)
  \/ LlcTx \/ LockCli \/ LockTest \/ LockTake
  \/ CarrierFree \/ CarrierBusy \/ EnableTx \/ Release \/ WaitFin \/ Done

NirqRxAny == \E byte \in RxBytes : NirqRx(byte)

Next == MainStep \/ NirqTx \/ NirqTxData \/ NirqRxAny

Spec == Init /\ [][Next]_vars

\* The main loop never stops; the transmitter asks for its next byte; a
\* channel that is sampled for ever is found free again and again.
Fairness ==
  /\ WF_vars(MainStep)
  /\ WF_vars(NirqTx \/ NirqTxData)
  /\ SF_vars(CarrierFree)

FairSpec == Spec /\ Fairness

-----------------------------------------------------------------------------
(* Safety *)

\* The main program owns the radio: it has passed rfm12_lock and the frame is
\* not yet on its way.
MainHolds ==
  mpc \in {"take", "carrier", "enable", "release"} \/ macPc = "carrier"

\* The RFM12 mutex is free exactly when nobody uses the radio, and a frame is
\* never being received while the main program prepares or sends one
\* (rfm12_lock against PT_SEM_WAIT and PT_SEM_SIGNAL in the interrupt).
RadioExclusive ==
  /\ rfMutex = 1 <=> ~(MainHolds \/ radio_state = "TX" \/ nirqPc = "rx")
  /\ ~(nirqPc = "rx" /\ (MainHolds \/ radio_state = "TX"))

\* The interrupt's own PT_SEM_WAIT never finds the mutex taken: NIRQ is level
\* triggered, so a thread that blocks there would be re-entered for ever.
IsrNeverBlocks == nirqPc # "sem"

\* PT_INIT(&pt_nirq) in rfm12_enable_tx never discards an interrupt thread that
\* is suspended in the middle of a frame.
EnableTxIsFresh == mpc = "enable" => nirqPc = "start"

\* While a frame is on the air its owner is still inside llc_tx, so the buffer
\* the interrupt reads is not reused.
OwnerWaits == radio_state = "TX" => label[packet] \in {"tx", "fwd"}

\* No step replaces the packet or its length under the interrupt's feet, and
\* only a byte sent moves state_tx.cnt.
FrameStable ==
  [][radio_state = "TX" =>
       /\ packet' = packet
       /\ len'[packet] = len[packet]
       /\ cnt' # cnt => cnt' = cnt + 1 /\ state = "DATA"]_vars

\* The postamble starts after exactly two nibbles for every byte of header and
\* data: llc_tx_frame stops at the last byte, neither early nor late.
FrameComplete ==
  state = "POSTAMBLE" => cnt = 2 * (LLC_HEADER_SIZE + len[packet])

Guarded == {c \in Callers : label[c] = "tx"}

\* batman.c's mutex counts its holders: nobody who must signal it is forgotten
\* and nobody signals it twice, whatever the unguarded forward does.
BatmanExclusive ==
  /\ \A c, d \in Guarded : c = d
  /\ mutex = 1 <=> Guarded = {}

\* llc_tx reports PT_ENDED to a caller only when that caller's frame is out.
CompletionHonest == mpc = "done" => turn \in aired

\* A forwarded frame goes out with the length it came in with.
LengthKept ==
  (radio_state = "TX" /\ label[packet] = "fwd") => len[packet] = rcvLen

-----------------------------------------------------------------------------
(* Liveness *)

\* Once the band stays quiet, every caller that waits for the mutex or for its
\* frame is eventually served, in whatever state the noise left the node.
QuietThenServed ==
  <>[](nirqPc # "rx") =>
    \A c \in Callers :
      label[c] \in {"sem", "tx", "fwd"} ~> label[c] \in {"idle", "print"}

\* A frame for which the radio was claimed always gets out and gives the radio
\* back, however busy the band is.
ClaimedFrameEnds == mpc = "take" ~> rfMutex = 1

-----------------------------------------------------------------------------
(* What this module implements *)

Phase == IF nirqPc = "rx" THEN "receiving"
         ELSE IF radio_state = "TX" THEN "sending"
         ELSE IF rfMutex = 0 THEN "held"
         ELSE "idle"

HD == INSTANCE HalfDuplex WITH phase <- Phase

\* The radio is a half-duplex channel: see HalfDuplex.
ImplementsHalfDuplex == HD!Spec

Request == [c \in Callers |->
              CASE label[c] \in {"idle", "print"} -> "idle"
                [] label[c] = "sem" -> "waiting"
                [] OTHER -> IF c \in aired THEN "sent" ELSE "sending"]

TS == INSTANCE TxService WITH request <- Request

\* llc_tx serves one request at a time and answers it after its frame is out:
\* see TxService.
ImplementsTxService == TS!Spec
=============================================================================
