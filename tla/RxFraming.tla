------------------------------ MODULE RxFraming ------------------------------
(***************************************************************************)
(* The receive path of llc.c: the NIRQ interrupt assembles nibbles into    *)
(* bytes and bytes into packet_rx (mac_rx_rfm12, llc_rx_mac, llc_rx_frame),*)
(* the main program checks, copies and releases the packet (llc_rx), and   *)
(* needs_processing is all that keeps them apart.                          *)
(*                                                                         *)
(* A frame is its contents; a byte is named by the frame and the position  *)
(* it was sent for, or is Junk when its halves do not belong together, and *)
(* the buffer keeps the frame of a byte that is where it belongs.  The     *)
(* first byte is the type (low nibble) and a part of the length; the CRC   *)
(* covers length and data, and no check covers the type, so that nibble is *)
(* kept apart.  The CRC accepts a packet exactly when its length, CRC and  *)
(* data are those of one frame: 16-bit collisions are left out.  The band  *)
(* delivers whole frames, frames with wrong nibbles, frames cut short and  *)
(* noise.                                                                  *)
(***************************************************************************)
EXTENDS Integers

CONSTANTS
  LLC_HEADER_SIZE, PACKET_MAX_SIZE,
  CntMod,       \* state_rx.cnt is a uint16_t: 2^16 in the code
  LenMax,       \* largest llc->len a header can carry: 2^12 - 1 in the code
  Frames,       \* the frames other nodes send
  SentLen,      \* the length in the header of each
  NoFrame,      \* not one of them
  RssiFlags     \* values CONFIG_FLAG_RSSI_DETECTION takes

ASSUME FramingAssumption ==
  /\ LLC_HEADER_SIZE \in Nat \ {0}
  /\ PACKET_MAX_SIZE \in Nat /\ PACKET_MAX_SIZE > LLC_HEADER_SIZE
  /\ CntMod \in Nat /\ CntMod > 2 * PACKET_MAX_SIZE + 2 /\ CntMod % 2 = 0
  /\ LenMax \in Nat
  /\ SentLen \in [Frames -> 0 .. LenMax]
  /\ NoFrame \notin Frames
  /\ RssiFlags \subseteq BOOLEAN

VARIABLES
  cnt, nextbyte, state,   \* llc.c: state_rx
  buf, len,               \* llc.c: packet_rx, and llc->len decoded from it
  typed,                  \* whether llc->type is the one that was sent
  needs_processing,       \* llc.c: needs_processing
  mpc, crcOk,             \* llc_rx: its next step (away: its caller has a
                          \* packet to see to) and the verdict it holds
  air,                    \* what the radio hears: quiet, a frame or noise
  frame,                  \* the last frame sent
  nibble,                 \* nibbles of it sent so far, while it is on the air
  clean,                  \* ghost: it met a ready receiver, no nibble was wrong
  copied                  \* ghost: the frames whose length and data the
                          \* packet of batman_rx has, while it sees to it

rxVars   == <<cnt, nextbyte, state, buf, len, typed>>
mainVars == <<mpc, crcOk>>
airVars  == <<air, frame, nibble, clean>>
vars == <<rxVars, needs_processing, mainVars, airVars, copied>>

Junk == [frame |-> NoFrame, pos |-> 0]
Sent == [frame : Frames, pos : Nat]
Positions == 0 .. PACKET_MAX_SIZE - 1

TypeOK ==
  /\ cnt \in 0 .. CntMod - 1
  /\ nextbyte \in Sent \union {Junk}
  /\ state \in {"DATA", "ABORTED", "FIN"}
  /\ buf \in [Positions -> Frames \union {NoFrame}]
  /\ len \in 0 .. LenMax /\ typed \in BOOLEAN
  /\ needs_processing \in BOOLEAN
  /\ mpc \in {"idle", "check", "copy", "reset", "clear", "away"}
  /\ crcOk \in BOOLEAN /\ clean \in BOOLEAN /\ copied \in SUBSET Frames
  /\ air \in {"quiet", "frame", "noise"}
  /\ frame \in Frames
  /\ nibble \in Nat

Init ==
  /\ cnt = 0 /\ nextbyte = Junk /\ state = "DATA"
  /\ buf = [i \in Positions |-> NoFrame] /\ len = 0 /\ typed = FALSE
  /\ needs_processing = FALSE
  /\ mpc = "idle" /\ crcOk = FALSE
  /\ air = "quiet" /\ frame \in Frames /\ nibble = 0 /\ clean = FALSE
  /\ copied = {}

-----------------------------------------------------------------------------
(* The interrupt *)

\* llc_rx_reset; packet_rx keeps its bytes but for the length.
ResetKeepsCnt ==
  /\ state' = "DATA" /\ nextbyte' = Junk /\ len' = 0
  /\ UNCHANGED <<cnt, buf, typed>>
Reset ==
  /\ state' = "DATA" /\ cnt' = 0 /\ nextbyte' = Junk /\ len' = 0
  /\ UNCHANGED <<buf, typed>>

\* The two conditions on which llc_rx_frame aborts.
AbortsNever(pos) == FALSE
AbortsFull(pos) ==
  \/ pos = LLC_HEADER_SIZE - 1 /\ len >= PACKET_MAX_SIZE - LLC_HEADER_SIZE
  \/ pos >= PACKET_MAX_SIZE
Aborts(pos) ==
  \/ pos = LLC_HEADER_SIZE - 1 /\ len > PACKET_MAX_SIZE - LLC_HEADER_SIZE
  \/ pos >= PACKET_MAX_SIZE

\* llc_rx_frame with the byte just assembled.  The length is read from the
\* first byte of the header, whatever it is, and so is the type.
RxFrame(byte, pos, lowRight) ==
  IF state # "DATA"
  THEN UNCHANGED <<state, buf, len, typed>>
  ELSE IF Aborts(pos)
  THEN state' = "ABORTED" /\ UNCHANGED <<buf, len, typed>>
  ELSE /\ buf' = [buf EXCEPT ![pos] = IF byte.pos = pos THEN byte.frame
                                                         ELSE NoFrame]
       /\ len' \in IF pos # 0 THEN {len}
                   ELSE IF buf'[0] = NoFrame THEN 0 .. LenMax
                   ELSE {SentLen[buf'[0]]}
       /\ typed' = IF pos = 0 THEN lowRight ELSE typed
       /\ state' = IF pos = LLC_HEADER_SIZE + len' - 1 THEN "FIN" ELSE "DATA"

GateOpen == TRUE
Gate == ~needs_processing

\* state_rx.cnt++, 16 bits wide
Count(c) == (c + 1) % CntMod

\* The byte of a high nibble and the low nibble before it.  The low nibble of
\* the first byte is the type: length, CRC and data are right without it.
Assembled(half, pos) ==
  IF ~half.low /\ (pos = 0 \/ nextbyte = half.byte) THEN half.byte ELSE Junk

\* llc_rx_mac(MAC_RX_OK): low nibbles on even counts, high ones on odd counts.
RxOk(half) ==
  IF ~Gate
  THEN UNCHANGED rxVars
  ELSE /\ cnt' = Count(cnt)
       /\ IF cnt % 2 = 0
          THEN /\ nextbyte' = IF half.low THEN half.byte ELSE Junk
               /\ UNCHANGED <<state, buf, len, typed>>
          ELSE LET pos  == (cnt - 1) \div 2
                   byte == Assembled(half, pos)
               IN nextbyte' = byte /\ RxFrame(byte, pos, nextbyte = byte)

\* llc_rx_mac(MAC_RX_FIN): the packet is handed over, or was not complete.
RxEop ==
  IF ~Gate
  THEN UNCHANGED <<rxVars, needs_processing>>
  ELSE IF state = "FIN"
  THEN needs_processing' = TRUE /\ UNCHANGED rxVars
  ELSE Reset /\ UNCHANGED needs_processing

\* llc_rx_mac(MAC_RX_ABORT)
RxLost ==
  /\ IF ~Gate THEN UNCHANGED rxVars ELSE Reset
  /\ UNCHANGED needs_processing

-----------------------------------------------------------------------------
(* The band: each step hands one byte to mac_rx_rfm12 *)

Nibbles(f) == 2 * (LLC_HEADER_SIZE + SentLen[f])

\* Nothing is left of a frame that is over, but for its name.
Over == nibble' = 0 /\ clean' = FALSE /\ UNCHANGED frame

\* A frame begins: the radio has found the sync word.
AirStart ==
  /\ air = "quiet"
  /\ air' = "frame"
  /\ frame' \in Frames
  /\ nibble' = 0
  /\ clean' = ~needs_processing
  /\ UNCHANGED <<rxVars, needs_processing, mainVars, copied>>

\* Its next nibble, as sent or (hamming.c corrects one bit only) wrong.
AirNibble(right) ==
  /\ air = "frame" /\ nibble < Nibbles(frame)
  /\ nibble' = nibble + 1
  /\ clean' = (clean /\ right)
  /\ RxOk([low |-> nibble % 2 = 0,
           byte |-> IF right THEN [frame |-> frame, pos |-> nibble \div 2]
                             ELSE Junk])
  /\ UNCHANGED <<needs_processing, mainVars, air, frame, copied>>

\* The postamble's EOP; after it the radio waits for the next sync word.
AirEop ==
  /\ air = "frame" /\ nibble = Nibbles(frame)
  /\ air' = "quiet"
  /\ RxEop
  /\ Over
  /\ UNCHANGED <<mainVars, copied>>

\* The sender fades away: without RSSI detection the radio goes on with noise.
AirFade ==
  /\ air = "frame"
  /\ \E rssi \in RssiFlags :
       IF rssi
       THEN air' = "quiet" /\ RxLost
       ELSE air' = "noise" /\ UNCHANGED <<rxVars, needs_processing>>
  /\ Over
  /\ UNCHANGED <<mainVars, copied>>

\* Noise, until one byte of it is 0xaa.  A nibble turned into 0xaa ends the
\* frame in the same way.
AirNoise ==
  /\ air = "noise"
  /\ \E low \in BOOLEAN : RxOk([low |-> low, byte |-> Junk])
  /\ UNCHANGED <<needs_processing, mainVars, airVars, copied>>

AirFalseEop ==
  /\ air \in {"frame", "noise"}
  /\ air' = "quiet"
  /\ RxEop
  /\ Over
  /\ UNCHANGED <<mainVars, copied>>

-----------------------------------------------------------------------------
(* The main program: llc_rx *)

IsFrame(f) ==
  /\ len = SentLen[f]
  /\ \A i \in 0 .. LLC_HEADER_SIZE + len - 1 : i \in Positions /\ buf[i] = f

\* The buffer holds length, CRC and data of one frame, of whatever type: its CRC
\* agrees.
Whole == \E f \in Frames : IsFrame(f)

RxPoll ==
  /\ mpc = "idle" /\ needs_processing
  /\ mpc' = "check"
  /\ UNCHANGED <<rxVars, needs_processing, crcOk, airVars, copied>>

\* The CRC is computed over packet_rx and compared.
RxCheck ==
  /\ mpc = "check"
  /\ crcOk' = Whole
  /\ mpc' = IF Whole THEN "copy" ELSE "reset"
  /\ UNCHANGED <<rxVars, needs_processing, airVars, copied>>

\* memcpy to the caller's packet
RxCopy ==
  /\ mpc = "copy"
  /\ copied' = {f \in Frames : IsFrame(f)}
  /\ mpc' = "reset"
  /\ UNCHANGED <<rxVars, needs_processing, crcOk, airVars>>

\* llc_rx_reset, then needs_processing = false: bytes of a frame under way are
\* taken from then on.
RxReset ==
  /\ mpc = "reset"
  /\ Reset
  /\ mpc' = "clear"
  /\ UNCHANGED <<needs_processing, crcOk, airVars, copied>>

StillHeldIfBad(ok) == ~ok
StillHeld(ok) == FALSE
RxClear ==
  /\ mpc = "clear"
  /\ needs_processing' = StillHeld(crcOk)
  /\ mpc' = IF crcOk THEN "away" ELSE "idle"
  /\ crcOk' = FALSE
  /\ UNCHANGED <<rxVars, airVars, copied>>

\* A packet that arrived keeps rx_thread: batman_rx sends it on, or ends and
\* lets rx_thread print it, and waits in llc_rx again when that is done.
RxReturn ==
  /\ mpc = "away"
  /\ mpc' = "idle" /\ copied' = {}
  /\ UNCHANGED <<rxVars, needs_processing, crcOk, airVars>>

MainStep == RxPoll \/ RxCheck \/ RxCopy \/ RxReset \/ RxClear

AirStep ==
  \/ AirStart \/ AirEop \/ AirFade \/ AirNoise \/ AirFalseEop
  \/ \E right \in BOOLEAN : AirNibble(right)

Next == MainStep \/ RxReturn \/ AirStep

Spec == Init /\ [][Next]_vars

\* The main loop never stops polling llc_rx while rx_thread waits there; that it
\* comes back after a packet depends on the rest of the program.
FairSpec == Spec /\ WF_vars(MainStep)

-----------------------------------------------------------------------------
\* What llc_rx hands to batman_rx has the length, CRC and data of one frame as
\* it was sent, however slow the main loop and whatever arrives between the CRC
\* check and the copy.  Its type alone may be another one.
CopiedWhole == mpc = "away" => copied # {}

\* Whatever its header claims, a packet handed to llc_rx ends inside packet_rx:
\* the CRC loop, which trusts llc->len, reads no byte beyond it.
HandedOverFits ==
  needs_processing => LLC_HEADER_SIZE + len <= PACKET_MAX_SIZE

\* Between frames a receiver that takes bytes is at the start of a packet,
\* whatever was dropped, cut or misread before: one bad frame costs one frame.
ReadyWhenQuiet ==
  (air = "quiet" /\ ~needs_processing) => (cnt = 0 /\ state = "DATA")

\* A frame that fits, met a ready receiver and arrived right is handed over at
\* its EOP, every byte of it and its type as sent: neither the release of the
\* frame before nor what was dropped, cut or misread cost it anything.
CleanFrameTaken ==
  [][(AirEop /\ clean /\ SentLen[frame] <= PACKET_MAX_SIZE - LLC_HEADER_SIZE)
       => (needs_processing /\ IsFrame(frame) /\ typed)']_vars

\* As long as rx_thread keeps coming back to llc_rx, a packet handed over is
\* released again, whether its CRC is good or bad, and one with a good CRC
\* reaches batman_rx: rx_thread goes away with it and with no other.
ComesBack == []<>(mpc # "away")
HandedOn ==
  ComesBack =>
    /\ needs_processing ~> ~needs_processing
    /\ \A f \in Frames :
         (needs_processing /\ mpc # "clear" /\ IsFrame(f))
           ~> (mpc = "away" /\ copied = {f})
=============================================================================
