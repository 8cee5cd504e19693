-------------------------- MODULE RxFramingProofs --------------------------
(***************************************************************************)
(* Theorems about RxFraming, for any set of frames and any sizes: lengths  *)
(* a header can claim may exceed the packet, and the 16-bit count may wrap *)
(* in noise; and about Hamming, which says what nibbles RxFraming calls    *)
(* right.                                                                  *)
(***************************************************************************)
EXTENDS RxFraming, Hamming, FiniteSetTheorems, TLAPS

Fits(n) == LLC_HEADER_SIZE + n <= PACKET_MAX_SIZE

\* The receiver is at the start of a packet.
Ready == cnt = 0 /\ state = "DATA" /\ len = 0

\* needs_processing is a lock: the main program is past its poll in llc_rx only
\* while it is set, and while it is set the interrupt leaves the packet alone.
Handover ==
  /\ TypeOK
  /\ state = "FIN" \/ needs_processing => Fits(len)
  /\ mpc \notin {"idle", "away"} => needs_processing
  /\ mpc = "clear" => Ready
  /\ air = "quiet" /\ ~needs_processing => Ready
  /\ mpc = "copy" => Whole
  /\ mpc \in {"reset", "clear"} /\ crcOk => copied # {}
  /\ CopiedWhole

LEMMA Sizes ==
  /\ LLC_HEADER_SIZE \in Nat /\ LLC_HEADER_SIZE > 0
  /\ PACKET_MAX_SIZE \in Nat /\ PACKET_MAX_SIZE > LLC_HEADER_SIZE
  /\ CntMod \in Nat /\ CntMod > 2 * PACKET_MAX_SIZE + 2
  /\ LenMax \in Nat /\ SentLen \in [Frames -> 0 .. LenMax]
  /\ NoFrame \notin Frames
  BY FramingAssumption DEF FramingAssumption

LEMMA InitHandover == Init => Handover
<1> SUFFICES ASSUME Init PROVE Handover
    OBVIOUS
<1>1. TypeOK
  <2>1. 0 \in 0 .. CntMod - 1 /\ 0 \in 0 .. LenMax
    BY Sizes
  <2> QED
    BY <2>1 DEF Init, TypeOK
<1> QED
  BY <1>1, Sizes DEF Init, Handover, Ready, CopiedWhole

\* A byte written or not, the packet stays one, and it is complete only at an
\* end inside packet_rx.
LEMMA FrameKeeps ==
  ASSUME TypeOK, NEW byte \in Sent \union {Junk}, NEW pos \in Nat,
         NEW lowRight \in BOOLEAN, RxFrame(byte, pos, lowRight)
  PROVE  /\ state' \in {"DATA", "ABORTED", "FIN"}
         /\ buf' \in [Positions -> Frames \union {NoFrame}]
         /\ len' \in 0 .. LenMax /\ typed' \in BOOLEAN
         /\ state' = "FIN" => (state = "FIN" /\ len' = len) \/ Fits(len')
<1>1. CASE state # "DATA" \/ Aborts(pos)
  BY <1>1 DEF RxFrame, TypeOK
<1>2. CASE state = "DATA" /\ ~Aborts(pos)
  <2>1. /\ buf' = [buf EXCEPT ![pos] = IF byte.pos = pos THEN byte.frame ELSE NoFrame]
        /\ len' \in IF pos # 0 THEN {len}
                    ELSE IF buf'[0] = NoFrame THEN 0 .. LenMax
                    ELSE {SentLen[buf'[0]]}
        /\ typed' = IF pos = 0 THEN lowRight ELSE typed
        /\ state' = IF pos = LLC_HEADER_SIZE + len' - 1 THEN "FIN" ELSE "DATA"
    BY <1>2 DEF RxFrame
  <2>2. byte.frame \in Frames \union {NoFrame}
    BY DEF Sent, Junk
  <2>3. buf' \in [Positions -> Frames \union {NoFrame}]
    BY <2>1, <2>2 DEF TypeOK
  <2>4. 0 \in Positions
    BY Sizes DEF Positions
  <2>5. len' \in 0 .. LenMax
    <3>1. buf'[0] = NoFrame \/ buf'[0] \in Frames
      BY <2>3, <2>4
    <3>2. \A f \in Frames : SentLen[f] \in 0 .. LenMax
      BY Sizes
    <3> QED
      BY <2>1, <3>1, <3>2 DEF TypeOK
  <2>6. pos < PACKET_MAX_SIZE
    BY <1>2, Sizes DEF Aborts
  <2>7. state' \in {"DATA", "FIN"}
    BY <2>1
  <2>8. state' = "FIN" => pos = LLC_HEADER_SIZE + len' - 1
    BY <2>1
  <2>9. state' = "FIN" => Fits(len')
    <3>1. len' \in Nat
      BY <2>5, Sizes
    <3>2. \A n \in Nat : pos = LLC_HEADER_SIZE + n - 1 => LLC_HEADER_SIZE + n <= PACKET_MAX_SIZE
      BY <2>6, Sizes
    <3> QED
      BY <2>8, <3>1, <3>2 DEF Fits
  <2>10. typed' \in BOOLEAN
    BY <2>1 DEF TypeOK
  <2> QED
    BY <2>3, <2>5, <2>7, <2>9, <2>10
<1> QED
  BY <1>1, <1>2

LEMMA OkKeeps ==
  ASSUME TypeOK, NEW half, half.byte \in Sent \union {Junk}, RxOk(half)
  PROVE  /\ cnt' \in 0 .. CntMod - 1
         /\ nextbyte' \in Sent \union {Junk}
         /\ state' \in {"DATA", "ABORTED", "FIN"}
         /\ buf' \in [Positions -> Frames \union {NoFrame}]
         /\ len' \in 0 .. LenMax /\ typed' \in BOOLEAN
         /\ state' = "FIN" => (state = "FIN" /\ len' = len) \/ Fits(len')
         /\ needs_processing => UNCHANGED rxVars
<1>1. CASE needs_processing
  BY <1>1 DEF RxOk, Gate, rxVars, TypeOK
<1>2. CASE ~needs_processing
  <2>1. cnt' = (cnt + 1) % CntMod
    BY <1>2 DEF RxOk, Gate, Count
  <2>2. cnt' \in 0 .. CntMod - 1 /\ cnt \in Nat
    BY <2>1, Sizes DEF TypeOK
  <2>3. CASE cnt % 2 = 0
    BY <1>2, <2>2, <2>3 DEF RxOk, Gate, TypeOK
  <2>4. CASE cnt % 2 # 0
    <3> DEFINE pos == (cnt - 1) \div 2
               byte == Assembled(half, pos)
               lowRight == nextbyte = byte
    <3>1. nextbyte' = byte /\ RxFrame(byte, pos, lowRight)
      BY <1>2, <2>4 DEF RxOk, Gate
    <3>2. byte \in Sent \union {Junk} /\ pos \in Nat /\ lowRight \in BOOLEAN
      BY <2>2, <2>4 DEF TypeOK, Assembled
    <3> HIDE DEF byte, pos, lowRight
    <3> QED
      BY <1>2, <2>2, <3>1, <3>2, FrameKeeps
  <2> QED
    BY <2>3, <2>4
<1> QED
  BY <1>1, <1>2

LEMMA ResetKeeps ==
  ASSUME TypeOK, Reset
  PROVE  /\ Ready' /\ nextbyte' \in Sent \union {Junk}
         /\ buf' = buf /\ cnt' \in 0 .. CntMod - 1 /\ len' \in 0 .. LenMax
        /\ typed' = typed
         /\ typed' = typed
  BY Sizes DEF Reset, Ready, Junk, TypeOK

\* What an interrupt at the end of a frame, or when it is lost, leaves behind.
EndedWell ==
  \/ /\ UNCHANGED <<rxVars, needs_processing>>
     /\ needs_processing
  \/ /\ UNCHANGED rxVars
     /\ state = "FIN" /\ needs_processing' = TRUE
  \/ Reset /\ ~needs_processing /\ UNCHANGED needs_processing

LEMMA EndsWell == ASSUME TypeOK, RxEop \/ RxLost PROVE EndedWell
  BY DEF RxEop, RxLost, Gate, EndedWell, TypeOK

LEMMA EndKeeps ==
  ASSUME Handover, EndedWell, air' \in {"quiet", "frame", "noise"},
         Over, UNCHANGED <<mainVars, copied>>
  PROVE  Handover'
<1>1. CASE UNCHANGED rxVars /\ needs_processing' = TRUE /\ (needs_processing \/ state = "FIN")
  BY <1>1 DEF Handover, TypeOK, rxVars, mainVars, Ready, Whole, IsFrame, CopiedWhole, Over
<1>2. CASE Reset /\ ~needs_processing /\ UNCHANGED needs_processing
  <2>1. /\ Ready' /\ nextbyte' \in Sent \union {Junk}
        /\ buf' = buf /\ cnt' \in 0 .. CntMod - 1 /\ len' \in 0 .. LenMax
        /\ typed' = typed
    BY <1>2, ResetKeeps DEF Handover
  <2>2. mpc' \in {"idle", "away"} /\ mpc' = mpc /\ copied' = copied
    BY <1>2 DEF Handover, mainVars, TypeOK
  <2>3. TypeOK'
    BY <1>2, <2>1 DEF Handover, TypeOK, mainVars, Ready, Over
  <2> QED
    BY <1>2, <2>1, <2>2, <2>3 DEF Handover, Ready, CopiedWhole
<1> QED
  BY <1>1, <1>2 DEF EndedWell, Handover, TypeOK

\* A nibble that arrives.
LEMMA NibbleKeeps ==
  ASSUME Handover, air \in {"frame", "noise"}, NEW half,
         half.byte \in Sent \union {Junk}, RxOk(half),
         nibble' \in Nat, clean' \in BOOLEAN,
         UNCHANGED <<needs_processing, mainVars, air, frame, copied>>
  PROVE  Handover'
<1>1. /\ cnt' \in 0 .. CntMod - 1
      /\ nextbyte' \in Sent \union {Junk}
      /\ state' \in {"DATA", "ABORTED", "FIN"}
      /\ buf' \in [Positions -> Frames \union {NoFrame}]
      /\ len' \in 0 .. LenMax /\ typed' \in BOOLEAN
      /\ state' = "FIN" => (state = "FIN" /\ len' = len) \/ Fits(len')
      /\ needs_processing => UNCHANGED rxVars
  BY OkKeeps DEF Handover
<1>2. TypeOK'
  BY <1>1 DEF Handover, TypeOK, mainVars
<1>3. CASE needs_processing
  BY <1>1, <1>2, <1>3
     DEF Handover, rxVars, mainVars, Ready, Whole, IsFrame, CopiedWhole
<1>4. CASE ~needs_processing
  BY <1>1, <1>2, <1>4 DEF Handover, mainVars, CopiedWhole, Fits
<1> QED
  BY <1>3, <1>4

LEMMA StepHandover == Handover /\ [Next]_vars => Handover'
<1> SUFFICES ASSUME Handover, [Next]_vars PROVE Handover'
    OBVIOUS
<1>1. CASE RxPoll
  BY <1>1 DEF RxPoll, Handover, TypeOK, rxVars, airVars, Ready, CopiedWhole
<1>2. CASE RxCheck
  <2>1. Whole' = Whole
    BY <1>2 DEF RxCheck, rxVars, Whole, IsFrame
  <2>2. TypeOK'
    BY <1>2 DEF RxCheck, Handover, TypeOK, rxVars, airVars, Whole
  <2> QED
    BY <1>2, <2>1, <2>2 DEF RxCheck, Handover, rxVars, airVars, Ready, CopiedWhole
<1>3. CASE RxCopy
  <2>1. copied' # {} /\ copied' \subseteq Frames
    BY <1>3 DEF RxCopy, Handover, Whole
  <2> QED
    BY <1>3, <2>1 DEF RxCopy, Handover, TypeOK, rxVars, airVars, Ready, CopiedWhole
<1>4. CASE RxReset
  <2>1. /\ Ready' /\ nextbyte' \in Sent \union {Junk}
        /\ buf' = buf /\ cnt' \in 0 .. CntMod - 1 /\ len' \in 0 .. LenMax
        /\ typed' = typed
    BY <1>4, ResetKeeps DEF Handover, RxReset
  <2> QED
    BY <1>4, <2>1, Sizes
       DEF RxReset, Handover, TypeOK, airVars, Ready, CopiedWhole, Fits
<1>5. CASE RxClear
  BY <1>5 DEF RxClear, StillHeld, Handover, TypeOK, rxVars, airVars, Ready, CopiedWhole
<1>6. CASE RxReturn
  BY <1>6 DEF RxReturn, Handover, TypeOK, rxVars, airVars, Ready, CopiedWhole
<1>7. CASE AirStart
  BY <1>7 DEF AirStart, Handover, TypeOK, rxVars, mainVars, Ready, Whole, IsFrame,
              CopiedWhole
<1>8. CASE AirEop
  BY <1>8, EndsWell, EndKeeps DEF AirEop, Handover, TypeOK
<1>9. CASE AirFade
  <2>1. CASE air' = "quiet" /\ RxLost
    BY <1>9, <2>1, EndsWell, EndKeeps DEF AirFade, Handover, TypeOK
  <2>2. CASE air' = "noise" /\ UNCHANGED <<rxVars, needs_processing>>
    BY <1>9, <2>2
       DEF AirFade, Handover, TypeOK, rxVars, mainVars, Ready, Whole, IsFrame, CopiedWhole,
           Over
  <2> QED
    BY <1>9, <2>1, <2>2 DEF AirFade
<1>10. CASE AirNoise
  <2>1. PICK low \in BOOLEAN : RxOk([low |-> low, byte |-> Junk])
    BY <1>10 DEF AirNoise
  <2> DEFINE half == [low |-> low, byte |-> Junk]
  <2>2. half.byte \in Sent \union {Junk}
    OBVIOUS
  <2> HIDE DEF half
  <2> QED
    BY <1>10, <2>1, <2>2, NibbleKeeps DEF AirNoise, airVars, Handover, TypeOK, half
<1>11. CASE AirFalseEop
  BY <1>11, EndsWell, EndKeeps DEF AirFalseEop, Handover
<1>12. ASSUME NEW right \in BOOLEAN, AirNibble(right) PROVE Handover'
  <2> DEFINE byte == IF right THEN [frame |-> frame, pos |-> nibble \div 2] ELSE Junk
             half == [low |-> nibble % 2 = 0, byte |-> byte]
  <2>1. half.byte \in Sent \union {Junk}
    BY DEF Handover, TypeOK, Sent
  <2>2. RxOk(half)
    BY <1>12 DEF AirNibble
  <2> HIDE DEF half
  <2>3. nibble' \in Nat /\ clean' \in BOOLEAN
    BY <1>12 DEF AirNibble, Handover, TypeOK
  <2> QED
    BY <1>12, <2>1, <2>2, <2>3, NibbleKeeps DEF AirNibble
<1>13. CASE UNCHANGED vars
  BY <1>13 DEF vars, Handover, TypeOK, rxVars, mainVars, airVars, Ready, Whole, IsFrame,
               CopiedWhole
<1> QED
  BY <1>1, <1>2, <1>3, <1>4, <1>5, <1>6, <1>7, <1>8, <1>9, <1>10, <1>11, <1>12, <1>13
     DEF Next, MainStep, AirStep

\* The receiver's state stays within its types, whatever the band delivers.
THEOREM TypeCorrect == Spec => []TypeOK
<1>1. Handover => TypeOK
  BY DEF Handover
<1> QED
  BY <1>1, InitHandover, StepHandover, PTL DEF Spec

\* A packet handed to llc_rx ends inside packet_rx.
THEOREM HandedOverAlwaysFits == Spec => []HandedOverFits
<1>1. Handover => HandedOverFits
  BY DEF Handover, HandedOverFits, Fits
<1> QED
  BY <1>1, InitHandover, StepHandover, PTL DEF Spec

\* Between frames a receiver that takes bytes is at the start of a packet.
THEOREM AlwaysReadyWhenQuiet == Spec => []ReadyWhenQuiet
<1>1. Handover => ReadyWhenQuiet
  BY DEF Handover, ReadyWhenQuiet, Ready
<1> QED
  BY <1>1, InitHandover, StepHandover, PTL DEF Spec

\* The packet whose CRC was found right is the one that is copied, so batman_rx
\* gets the length and the data of one frame as sent: nothing is written to the
\* packet between the check and the copy.  The type is not covered.
THEOREM AlwaysCopiedWhole == Spec => []CopiedWhole
<1>1. Handover => CopiedWhole
  BY DEF Handover
<1> QED
  BY <1>1, InitHandover, StepHandover, PTL DEF Spec

-----------------------------------------------------------------------------
(* A clean frame is followed nibble by nibble. *)

Taking ==
  air = "frame" /\ clean /\ Fits(SentLen[frame]) =>
    /\ ~needs_processing
    /\ nibble <= Nibbles(frame) /\ cnt = nibble
    /\ nibble % 2 = 1 => nextbyte = [frame |-> frame, pos |-> nibble \div 2]
    /\ len = IF nibble < 2 THEN 0 ELSE SentLen[frame]
    /\ nibble >= 2 => typed
    /\ \A i \in Positions : 2 * i + 1 < nibble => buf[i] = frame
    /\ state = IF nibble = Nibbles(frame) THEN "FIN" ELSE "DATA"

\* The right high nibble completes the byte, and the packet when it is the last.
LEMMA TakesByte ==
  ASSUME Handover, Taking, air = "frame", clean, Fits(SentLen[frame]),
         nibble < Nibbles(frame), nibble % 2 = 1, AirNibble(TRUE)
  PROVE  /\ len' = SentLen[frame]
         /\ state' = IF nibble + 1 = Nibbles(frame) THEN "FIN" ELSE "DATA"
         /\ typed'
         /\ \A i \in Positions : 2 * i + 1 < nibble + 1 => buf'[i] = frame
<1> DEFINE byte == [frame |-> frame, pos |-> nibble \div 2]
           pos == (cnt - 1) \div 2
           L == SentLen[frame]
<1>1. /\ frame \in Frames /\ L \in Nat /\ nibble \in Nat
      /\ nibble = cnt /\ ~needs_processing /\ nextbyte = byte
      /\ state = "DATA" /\ len = IF nibble < 2 THEN 0 ELSE L
      /\ nibble >= 2 => typed
      /\ \A i \in Positions : 2 * i + 1 < nibble => buf[i] = frame
      /\ Nibbles(frame) = 2 * (LLC_HEADER_SIZE + L)
  BY Sizes DEF Handover, TypeOK, Taking, Nibbles
<1> DEFINE half == [low |-> nibble % 2 = 0, byte |-> byte]
<1>2. RxOk(half)
  BY DEF AirNibble
<1>3. RxFrame(byte, pos, TRUE)
  <2>1. ~half.low /\ half.byte = byte /\ cnt % 2 # 0
    <3>1. ~(nibble % 2 = 0) /\ cnt % 2 # 0
      BY <1>1
    <3>2. half.low = (nibble % 2 = 0) /\ half.byte = byte
      BY Zenon
    <3> QED
      BY <3>1, <3>2, Zenon
  <2> HIDE DEF half, byte
  <2>2. RxFrame(Assembled(half, pos), pos, nextbyte = Assembled(half, pos))
    BY <1>1, <1>2, <2>1 DEF RxOk, Gate
  <2>3. Assembled(half, pos) = byte
    BY <1>1, <2>1 DEF Assembled
  <2>4. (nextbyte = byte) = TRUE
    BY <1>1
  <2> QED
    BY <2>2, <2>3, <2>4, Zenon
<1>4. /\ pos = nibble \div 2 /\ pos \in Nat /\ 2 * pos + 1 = nibble
      /\ pos < LLC_HEADER_SIZE + L
  <2>1. \A n \in Nat : n % 2 = 1 => (n - 1) \div 2 = n \div 2 /\ 2 * (n \div 2) + 1 = n
                                    /\ n \div 2 \in Nat
    OBVIOUS
  <2>2. LLC_HEADER_SIZE \in Nat
    BY Sizes
  <2> QED
    BY <1>1, <2>1, <2>2
<1>5. LLC_HEADER_SIZE + L <= PACKET_MAX_SIZE
  BY DEF Fits
<1> HIDE DEF pos, L
<1>6. ~Aborts(pos)
  BY <1>1, <1>4, <1>5, Sizes DEF Aborts
<1>7. /\ buf' = [buf EXCEPT ![pos] = IF byte.pos = pos THEN byte.frame ELSE NoFrame]
      /\ len' \in IF pos # 0 THEN {len}
                  ELSE IF buf'[0] = NoFrame THEN 0 .. LenMax
                  ELSE {SentLen[buf'[0]]}
      /\ typed' = IF pos = 0 THEN TRUE ELSE typed
      /\ state' = IF pos = LLC_HEADER_SIZE + len' - 1 THEN "FIN" ELSE "DATA"
  BY <1>1, <1>3, <1>6 DEF RxFrame
<1>8. len' = L
  <2>1. CASE pos = 0
    <3>1. 0 \in Positions /\ buf \in [Positions -> Frames \union {NoFrame}]
      BY Sizes DEF Positions, Handover, TypeOK
    <3>2. buf'[0] = frame
      BY <1>4, <1>7, <2>1, <3>1
    <3> QED
      BY <1>1, <1>7, <2>1, <3>2, Sizes DEF L
  <2>2. CASE pos # 0
    BY <1>1, <1>4, <1>7, <2>2
  <2> QED
    BY <2>1, <2>2
<1>9. typed'
  BY <1>1, <1>4, <1>7
<1>10. ASSUME NEW i \in Positions, 2 * i + 1 < nibble + 1 PROVE buf'[i] = frame
  <2>1. i \in Nat /\ buf \in [Positions -> Frames \union {NoFrame}]
    BY Sizes DEF Positions, Handover, TypeOK
  <2>2. byte.pos = pos /\ byte.frame = frame
    BY <1>4
  <2>3. CASE i = pos
    BY <1>7, <2>1, <2>2, <2>3
  <2>4. CASE i # pos
    <3>1. 2 * i + 1 < nibble
      BY <1>1, <1>4, <1>10, <2>1, <2>4
    <3> QED
      BY <1>1, <1>7, <2>1, <2>4, <3>1
  <2> QED
    BY <2>3, <2>4
<1> QED
  BY <1>1, <1>4, <1>7, <1>8, <1>9, <1>10, Sizes DEF L

LEMMA StepTaking ==
  ASSUME Handover, Taking, [Next]_vars PROVE Taking'
<1>1. CASE MainStep
  <2>1. air' = air /\ frame' = frame /\ nibble' = nibble /\ clean' = clean
    BY <1>1 DEF MainStep, RxPoll, RxCheck, RxCopy, RxReset, RxClear, airVars
  <2>2. CASE needs_processing
    BY <2>1, <2>2 DEF Taking
  <2>3. CASE ~needs_processing
    BY <1>1, <2>3 DEF MainStep, RxPoll, RxCheck, RxCopy, RxReset, RxClear, Handover
  <2> QED
    BY <2>2, <2>3
<1>2. CASE AirStart
  <2>1. /\ air' = "frame" /\ frame' \in Frames /\ nibble' = 0
        /\ clean' = ~needs_processing /\ needs_processing' = needs_processing
        /\ air = "quiet" /\ UNCHANGED rxVars
    BY <1>2 DEF AirStart
  <2>2. CASE clean'
    <3>1. ~needs_processing' /\ Ready
      BY <2>1, <2>2 DEF Handover
    <3>2. cnt' = 0 /\ state' = "DATA" /\ len' = 0
      BY <2>1, <3>1 DEF Ready, rxVars
    <3>3. Nibbles(frame') \in Nat /\ Nibbles(frame') > 0
      BY <2>1, Sizes DEF Nibbles
    <3>4. \A i \in Positions : ~(2 * i + 1 < 0)
      BY DEF Positions
    <3> QED
      BY <2>1, <3>1, <3>2, <3>3, <3>4 DEF Taking
  <2>3. CASE ~clean'
    BY <2>3 DEF Taking
  <2> QED
    BY <2>2, <2>3
<1>3. CASE AirEop \/ AirFade \/ AirNoise \/ AirFalseEop
  BY <1>3 DEF AirEop, AirFade, AirNoise, AirFalseEop, Taking, airVars
<1>4. CASE RxReturn
  BY <1>4 DEF RxReturn, Taking, rxVars, airVars
<1>5. ASSUME NEW right \in BOOLEAN, AirNibble(right) PROVE Taking'
  <2> SUFFICES ASSUME clean', Fits(SentLen[frame'])
               PROVE  Taking'
      BY DEF Taking
  <2>1. /\ air = "frame" /\ nibble < Nibbles(frame) /\ nibble' = nibble + 1
        /\ clean /\ right = TRUE /\ frame' = frame /\ air' = air
        /\ needs_processing' = needs_processing
    BY <1>5 DEF AirNibble
  <2> DEFINE byte == [frame |-> frame, pos |-> nibble \div 2]
  <2>2. /\ ~needs_processing /\ cnt = nibble /\ nibble \in Nat
        /\ nibble % 2 = 1 => nextbyte = byte
        /\ len = IF nibble < 2 THEN 0 ELSE SentLen[frame]
        /\ state = "DATA" /\ SentLen[frame] \in Nat
        /\ nibble >= 2 => typed
        /\ \A i \in Positions : 2 * i + 1 < nibble => buf[i] = frame
    BY <2>1, Sizes DEF Taking, Handover, TypeOK
  <2>3. RxOk([low |-> nibble % 2 = 0, byte |-> byte])
    BY <1>5, <2>1 DEF AirNibble
  <2>4. nibble + 1 \in Nat /\ nibble + 1 <= Nibbles(frame) /\ nibble + 1 < CntMod
        /\ Nibbles(frame) = 2 * (LLC_HEADER_SIZE + SentLen[frame])
    BY <2>1, <2>2, Sizes DEF Nibbles, Fits
  <2>5. cnt' = nibble + 1
    <3>1. cnt' = (nibble + 1) % CntMod
      BY <2>2, <2>3 DEF RxOk, Gate, Count
    <3>2. \A n \in Nat : n < CntMod => n % CntMod = n
      BY Sizes
    <3> QED
      BY <2>4, <3>1, <3>2
  <2>6. CASE nibble % 2 = 0
    <3>1. nextbyte' = byte /\ state' = state /\ len' = len /\ typed' = typed /\ buf' = buf
      BY <2>2, <2>3, <2>6 DEF RxOk, Gate
    <3>2. /\ (nibble + 1) \div 2 = nibble \div 2
          /\ nibble + 1 < 2 <=> nibble < 2
          /\ nibble + 1 # Nibbles(frame)
          /\ \A i \in Positions : 2 * i + 1 < nibble + 1 => 2 * i + 1 < nibble
      BY <2>2, <2>4, <2>6, Sizes DEF Positions
    <3> QED
      BY <2>1, <2>2, <2>4, <2>5, <3>1, <3>2 DEF Taking
  <2>7. CASE nibble % 2 = 1
    <3>1. /\ len' = SentLen[frame]
          /\ state' = IF nibble + 1 = Nibbles(frame) THEN "FIN" ELSE "DATA"
          /\ typed'
          /\ \A i \in Positions : 2 * i + 1 < nibble + 1 => buf'[i] = frame
      BY <1>5, <2>1, <2>7, TakesByte
    <3>2. (nibble + 1) % 2 # 1 /\ ~(nibble + 1 < 2)
      BY <2>2, <2>7
    <3> QED
      BY <2>1, <2>2, <2>4, <2>5, <3>1, <3>2 DEF Taking
  <2> QED
    BY <2>2, <2>6, <2>7
<1>6. CASE UNCHANGED vars
  BY <1>6 DEF vars, Taking, rxVars, airVars
<1> QED
  BY <1>1, <1>2, <1>3, <1>4, <1>5, <1>6 DEF Next, AirStep

\* A frame that fits, met a ready receiver and arrived right is handed over at
\* its EOP with every byte and its type as sent: neither the main program's release of the frame before, nor noise,
\* cut frames or false ends before it, cost it a nibble.
THEOREM CleanFrameAlwaysTaken == Spec => CleanFrameTaken
<1>1. Init => Handover /\ Taking
  BY InitHandover DEF Init, Taking
<1>2. Handover /\ Taking /\ [Next]_vars => Handover' /\ Taking'
  BY StepHandover, StepTaking
<1>3. Handover /\ Taking
        => [(AirEop /\ clean /\ SentLen[frame] <= PACKET_MAX_SIZE - LLC_HEADER_SIZE)
              => (needs_processing /\ IsFrame(frame) /\ typed)']_vars
  <2> SUFFICES ASSUME Handover, Taking, AirEop, clean,
                      SentLen[frame] <= PACKET_MAX_SIZE - LLC_HEADER_SIZE
               PROVE  (needs_processing /\ IsFrame(frame) /\ typed)'
      OBVIOUS
  <2>1. Fits(SentLen[frame])
    <3>1. SentLen[frame] \in Nat
      BY Sizes DEF Handover, TypeOK
    <3> QED
      BY <3>1, Sizes DEF Fits
  <2>2. /\ air = "frame" /\ nibble = Nibbles(frame)
        /\ frame' = frame /\ SentLen[frame] \in Nat
        /\ Nibbles(frame) = 2 * (LLC_HEADER_SIZE + SentLen[frame])
    BY Sizes DEF AirEop, Over, Handover, TypeOK, Nibbles
  <2>3. /\ ~needs_processing /\ state = "FIN" /\ len = SentLen[frame] /\ typed
        /\ \A i \in Positions : 2 * i + 1 < Nibbles(frame) => buf[i] = frame
    BY <2>1, <2>2, Sizes DEF Taking
  <2>4. needs_processing' /\ UNCHANGED rxVars
    BY <2>3 DEF AirEop, RxEop, Gate
  <2>5. ASSUME NEW i \in 0 .. LLC_HEADER_SIZE + len - 1
        PROVE  i \in Positions /\ buf[i] = frame
    <3>1. i \in Positions
      BY <2>1, <2>2, <2>3, Sizes DEF Fits, Positions
    <3>2. 2 * i + 1 < Nibbles(frame)
      BY <2>2, <2>3, Sizes
    <3> QED
      BY <2>3, <3>1, <3>2
  <2> QED
    BY <2>2, <2>3, <2>4, <2>5 DEF IsFrame, rxVars
<1> QED
  BY <1>1, <1>2, <1>3, PTL DEF Spec, CleanFrameTaken

-----------------------------------------------------------------------------
(* How long the receiver is held *)

\* The steps before llc_rx releases the receiver, at most: rx_thread's return,
\* when it is away with the packet before, and those of llc_rx itself.
StepsLeft ==
  IF ~needs_processing THEN 0
  ELSE CASE mpc = "away"  -> 6
         [] mpc = "idle"  -> 5
         [] mpc = "check" -> 4
         [] mpc = "copy"  -> 3
         [] mpc = "reset" -> 2
         [] mpc = "clear" -> 1

\* Every step of llc_rx, and rx_thread's return to it, brings the release nearer,
\* and no byte, EOP or lost carrier puts it off.
ReleaseAdvances ==
  [][needs_processing =>
       IF MainStep \/ RxReturn THEN StepsLeft' < StepsLeft
                               ELSE StepsLeft' = StepsLeft]_vars

\* While the receiver is held the interrupt leaves it held, and leaves llc_rx's
\* place alone.
LEMMA AirWaits ==
  ASSUME needs_processing, AirStep PROVE UNCHANGED <<needs_processing, mpc>>
<1>1. Gate = FALSE
  BY DEF Gate
<1> QED
  BY <1>1 DEF AirStep, AirStart, AirNibble, AirEop, AirFade, AirNoise,
     AirFalseEop, RxEop, RxLost, mainVars, airVars

\* The safety half of HandedOn: once rx_thread is back in llc_rx, a packet handed
\* over is released, good or bad, within five steps of it, whatever the band does
\* meanwhile.  That rx_thread comes back is a premise, never proved.
THEOREM ReleaseIsNear == Spec => ReleaseAdvances
<1>1. ASSUME TypeOK, MainStep \/ RxReturn, needs_processing
      PROVE StepsLeft' < StepsLeft
  <2>1. CASE RxPoll
    <3>1. StepsLeft = 5 /\ StepsLeft' = 4
      BY <1>1, <2>1 DEF RxPoll, StepsLeft
    <3> QED
      BY <3>1
  <2>2. CASE RxCheck
    <3>1. StepsLeft = 4 /\ StepsLeft' \in {2, 3}
      BY <1>1, <2>2 DEF RxCheck, StepsLeft
    <3> QED
      BY <3>1
  <2>3. CASE RxCopy
    BY <1>1, <2>3 DEF RxCopy, StepsLeft
  <2>4. CASE RxReset
    BY <1>1, <2>4 DEF RxReset, StepsLeft
  <2>5. CASE RxClear
    <3>1. StepsLeft = 1 /\ StepsLeft' = 0
      BY <1>1, <2>5 DEF RxClear, StillHeld, StepsLeft
    <3> QED
      BY <3>1
  <2>6. CASE RxReturn
    BY <1>1, <2>6 DEF RxReturn, StepsLeft
  <2> QED
    BY <1>1, <2>1, <2>2, <2>3, <2>4, <2>5, <2>6 DEF MainStep
<1>2. ASSUME AirStep, needs_processing PROVE StepsLeft' = StepsLeft
  <2>1. UNCHANGED <<needs_processing, mpc>>
    BY <1>2, AirWaits
  <2> QED
    BY <2>1 DEF StepsLeft
<1>3. ASSUME TypeOK, [Next]_vars
      PROVE  [needs_processing =>
                IF MainStep \/ RxReturn THEN StepsLeft' < StepsLeft
                                        ELSE StepsLeft' = StepsLeft]_vars
  BY <1>1, <1>2, <1>3 DEF Next
<1> QED
  BY <1>3, TypeCorrect, PTL DEF Spec, ReleaseAdvances

-----------------------------------------------------------------------------
(* The nibbles: a half of a byte with one wrong bit is still right           *)

\* The powers of two that weigh the bits of a code word.
LEMMA Weights ==
  /\ 2^0 = 1 /\ 2^1 = 2 /\ 2^2 = 4 /\ 2^3 = 8
  /\ 2^4 = 16 /\ 2^5 = 32 /\ 2^6 = 64 /\ 2^7 = 128
OBVIOUS

\* hamming_dec finds n for its code word w, and for w with any one bit wrong;
\* w is never taken for EOP, and with one wrong bit only that of 15 is.
Protects(w, n) ==
  /\ w \in 0 .. 255 /\ w # EOP /\ hamming_dec[w + 1] = n
  /\ \A i \in 0 .. 7 :
       /\ Flip(w, i) \in 0 .. 255 /\ Flip(Flip(w, i), i) = w
       /\ hamming_dec[Flip(w, i) + 1] = n
       /\ Flip(w, i) = EOP => n = 15

\* The two tables agree, word by word.
LEMMA CodeProtects == \A n \in 0 .. 15 : Protects(hamming_enc[n + 1], n)
<1>1. Protects(21, 0) /\ Protects(2, 1) /\ Protects(73, 2) /\ Protects(94, 3)
  BY Weights DEF Protects, Flip, hamming_dec, EOP
<1>2. Protects(100, 4) /\ Protects(115, 5) /\ Protects(56, 6) /\ Protects(47, 7)
  BY Weights DEF Protects, Flip, hamming_dec, EOP
<1>3. Protects(208, 8) /\ Protects(199, 9) /\ Protects(140, 10) /\ Protects(155, 11)
  BY Weights DEF Protects, Flip, hamming_dec, EOP
<1>4. Protects(161, 12) /\ Protects(182, 13) /\ Protects(253, 14) /\ Protects(234, 15)
  BY Weights DEF Protects, Flip, hamming_dec, EOP
<1>5. /\ hamming_enc[1] = 21   /\ hamming_enc[2] = 2
      /\ hamming_enc[3] = 73   /\ hamming_enc[4] = 94
      /\ hamming_enc[5] = 100  /\ hamming_enc[6] = 115
      /\ hamming_enc[7] = 56   /\ hamming_enc[8] = 47
      /\ hamming_enc[9] = 208  /\ hamming_enc[10] = 199
      /\ hamming_enc[11] = 140 /\ hamming_enc[12] = 155
      /\ hamming_enc[13] = 161 /\ hamming_enc[14] = 182
      /\ hamming_enc[15] = 253 /\ hamming_enc[16] = 234
  BY DEF hamming_enc
<1>6. \A n \in 0 .. 15 : \/ n = 0 \/ n = 1 \/ n = 2 \/ n = 3 \/ n = 4 \/ n = 5
                         \/ n = 6 \/ n = 7 \/ n = 8 \/ n = 9 \/ n = 10 \/ n = 11
                         \/ n = 12 \/ n = 13 \/ n = 14 \/ n = 15
  OBVIOUS
<1> QED
  BY <1>1, <1>2, <1>3, <1>4, <1>5, <1>6

\* At most one bit of each code word is turned over.
OneFlip == MaxFlips <= 1

\* The half of the byte that is on the air.
Low == sent % 16
High == sent \div 16
Half == IF part = "low" THEN Low ELSE High

\* What has arrived so far, and how far the word on the air is from the one
\* that llc_tx_mac sent.
Crossing ==
  /\ sent \in 0 .. 255
  /\ part \in {"low", "high", "done", "cut"}
  /\ part = "high" => received = Low
  /\ part \in {"low", "high"} =>
       \/ flips = {} /\ word = hamming_enc[Half + 1]
       \/ \E i \in 0 .. 7 : flips = {i} /\ word = Flip(hamming_enc[Half + 1], i)
  /\ ByteCorrected
  /\ EopOnlyNearFifteen

LEMMA HalvesOfByte ==
  ASSUME NEW d \in 0 .. 255
  PROVE  /\ d % 16 \in 0 .. 15 /\ d \div 16 \in 0 .. 15
         /\ (d \div 16) % 16 = d \div 16
         /\ (d % 16) + (d \div 16) * 16 = d
OBVIOUS

LEMMA InitCrossing == ByteInit => Crossing
BY HammingAssumption
   DEF HammingAssumption, ByteInit, Crossing, HammingEncLow, Half, Low,
       ByteCorrected, EopOnlyNearFifteen

LEMMA StepCrossing ==
  ASSUME OneFlip, Crossing, [ByteNext]_byteVars PROVE Crossing'
<1> USE DEF Crossing, ByteCorrected, EopOnlyNearFifteen
<1>1. /\ Low \in 0 .. 15 /\ High \in 0 .. 15 /\ Half \in 0 .. 15
      /\ High % 16 = High /\ Low + High * 16 = sent
  BY HalvesOfByte DEF Low, High, Half
<1>2. Protects(hamming_enc[Half + 1], Half)
  BY <1>1, CodeProtects
\* What hamming_dec finds on the air is the half that was sent.
<1>3. part \in {"low", "high"} =>
        /\ word \in 0 .. 255 /\ hamming_dec[word + 1] = Half
        /\ word = EOP => \E i \in flips : Flip(word, i) = hamming_enc[16]
  <2> SUFFICES ASSUME part \in {"low", "high"}
               PROVE  /\ word \in 0 .. 255 /\ hamming_dec[word + 1] = Half
                      /\ word = EOP =>
                           \E i \in flips : Flip(word, i) = hamming_enc[16]
      OBVIOUS
  <2>1. CASE flips = {} /\ word = hamming_enc[Half + 1]
    BY <1>2, <2>1 DEF Protects
  <2>2. CASE \E i \in 0 .. 7 : flips = {i} /\ word = Flip(hamming_enc[Half + 1], i)
    <3> PICK i \in 0 .. 7 : flips = {i} /\ word = Flip(hamming_enc[Half + 1], i)
      BY <2>2
    <3>1. /\ word \in 0 .. 255 /\ Flip(word, i) = hamming_enc[Half + 1]
          /\ hamming_dec[word + 1] = Half /\ (word = EOP => Half = 15)
      BY <1>2 DEF Protects
    <3> QED
      BY <3>1
  <2> QED
    BY <2>1, <2>2
<1>4. ASSUME NEW i \in 0 .. 7, Noise(i) PROVE Crossing'
  <2>1. MaxFlips \in Nat /\ Cardinality(flips) < MaxFlips
    BY <1>4, HammingAssumption DEF HammingAssumption, Noise
  <2>2. flips = {}
    <3>1. ASSUME NEW j \in 0 .. 7, flips = {j} PROVE FALSE
      <4>1. Cardinality(flips) = 1
        BY <3>1, FS_Singleton
      <4> QED
        BY <2>1, <4>1 DEF OneFlip
    <3> QED
      BY <1>4, <3>1 DEF Noise
  <2>3. /\ flips' = {i} /\ word' = Flip(hamming_enc[Half + 1], i)
        /\ part \in {"low", "high"}
        /\ part' = part /\ sent' = sent /\ received' = received /\ Half' = Half
    BY <1>4, <2>2 DEF Noise, Half, Low, High
  <2>4. Low' = Low
    BY <2>3 DEF Low
  <2> QED
    BY <2>3, <2>4
<1>5. CASE ReceiveEop
  BY <1>3, <1>5 DEF ReceiveEop
<1>6. CASE ReceiveLow
  <2>1. received' = Half /\ Half = Low
    BY <1>3, <1>6 DEF ReceiveLow, HammingDecLow, Half
  <2>2. sent' = sent /\ part' = "high" /\ Low' = Low /\ Half' = High
    BY <1>6 DEF ReceiveLow, Low, High, Half
  <2>3. word' = hamming_enc[High + 1] /\ flips' = {}
    BY <1>1, <1>6 DEF ReceiveLow, HammingEncHigh, High
  <2> QED
    BY <2>1, <2>2, <2>3
<1>7. CASE ReceiveHigh
  <2>1. received = Low /\ Half = High
    BY <1>7 DEF ReceiveHigh, Half
  <2>2. received' = sent
    BY <1>1, <1>3, <1>7, <2>1 DEF ReceiveHigh, HammingDecHigh
  <2> QED
    BY <1>7, <2>2 DEF ReceiveHigh
<1>8. CASE UNCHANGED byteVars
  BY <1>8 DEF byteVars, Half, Low, High
<1> QED
  BY <1>4, <1>5, <1>6, <1>7, <1>8 DEF ByteNext

LEMMA AlwaysCrossing == ASSUME OneFlip PROVE ByteSpec => []Crossing
<1>1. Crossing /\ [ByteNext]_byteVars => Crossing'
  BY StepCrossing
<1> QED
  BY <1>1, InitCrossing, PTL DEF ByteSpec

\* A byte arrives as it was sent, or ends the frame, whichever bit of each of
\* its code words the air turns over: a nibble that RxFraming calls wrong has
\* two wrong bits or more.
THEOREM OneBitIsCorrected == ASSUME OneFlip PROVE ByteSpec => []ByteCorrected
<1>1. Crossing => ByteCorrected
  BY DEF Crossing
<1> QED
  BY <1>1, AlwaysCrossing, PTL

\* A byte ends the frame, as an EOP, only by one wrong bit in the code word of
\* 15.
THEOREM EopIsNearFifteen == ASSUME OneFlip PROVE ByteSpec => []EopOnlyNearFifteen
<1>1. Crossing => EopOnlyNearFifteen
  BY DEF Crossing
<1> QED
  BY <1>1, AlwaysCrossing, PTL
=============================================================================
