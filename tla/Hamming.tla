------------------------------- MODULE Hamming -------------------------------
(***************************************************************************)
(* How a byte crosses the air: llc_tx_mac sends a hamming_enc code word for*)
(* each half, low one first, noise turns bits of it over, mac_rx_rfm12     *)
(* compares what arrives with EOP, and llc_rx_mac puts the halves that     *)
(* hamming_dec finds together again.  Its names are its own: one module can*)
(* extend it together with RxFraming, whose right and wrong nibbles are the*)
(* code words that arrive here.                                            *)
(***************************************************************************)
EXTENDS Integers, FiniteSets, Sequences

CONSTANTS
  Bytes,      \* the bytes sent
  MaxFlips    \* bits turned over in one code word

ASSUME HammingAssumption == Bytes \subseteq 0 .. 255 /\ MaxFlips \in Nat

VARIABLES
  sent,       \* the byte being sent
  part,       \* the half of it on the air, "done" or, ended by an EOP, "cut"
  word,       \* the code word on the air
  flips,      \* the bits of it turned over
  received    \* llc.c: state_rx.nextbyte

byteVars == <<sent, part, word, flips, received>>

hamming_enc ==
  <<21, 2, 73, 94, 100, 115, 56, 47, 208, 199, 140, 155, 161, 182, 253, 234>>

hamming_dec ==
  <<
    1, 0, 1, 1, 0, 0, 1, 1, 2, 2, 1, 3, 10, 2, 3, 7,
    0, 0, 1, 1, 0, 0, 1, 0, 6, 2, 3, 11, 2, 0, 3, 3,
    4, 12, 1, 5, 4, 4, 5, 7, 6, 6, 7, 7, 6, 7, 7, 7,
    6, 4, 5, 5, 4, 0, 13, 5, 6, 6, 6, 7, 6, 6, 7, 7,
    0, 2, 1, 1, 4, 0, 1, 9, 2, 2, 3, 2, 2, 2, 3, 3,
    8, 0, 1, 5, 0, 0, 3, 1, 2, 2, 3, 3, 3, 2, 3, 3,
    4, 4, 5, 5, 4, 4, 4, 5, 6, 2, 15, 7, 4, 6, 7, 7,
    4, 5, 5, 5, 4, 4, 5, 5, 6, 6, 7, 5, 6, 14, 3, 7,
    8, 12, 1, 9, 10, 8, 9, 9, 10, 10, 11, 11, 10, 10, 10, 11,
    8, 8, 9, 11, 8, 0, 13, 9, 10, 11, 11, 11, 10, 10, 11, 11,
    12, 12, 13, 12, 12, 12, 13, 13, 14, 12, 15, 15, 10, 14, 15, 7,
    12, 12, 13, 13, 13, 12, 13, 13, 6, 14, 15, 11, 14, 14, 13, 15,
    8, 8, 9, 9, 8, 9, 9, 9, 10, 2, 15, 11, 10, 10, 11, 9,
    8, 8, 8, 9, 8, 8, 9, 9, 8, 10, 11, 11, 10, 14, 3, 11,
    12, 12, 15, 13, 4, 12, 13, 9, 15, 14, 15, 15, 14, 14, 15, 15,
    8, 12, 13, 5, 12, 14, 13, 13, 14, 14, 15, 15, 14, 14, 15, 14>>

EopAtCodeWord == 2
EOP == 170

HammingEncLow(data) == hamming_enc[(data % 16) + 1]
HighUnshifted(data) == hamming_enc[(data % 16) + 1]
HammingEncHigh(data) == hamming_enc[((data \div 16) % 16) + 1]
HammingDecLow(data) == hamming_dec[data + 1]
HammingDecHigh(data) == hamming_dec[data + 1] * 16

Flip(w, i) == IF (w \div 2^i) % 2 = 0 THEN w + 2^i ELSE w - 2^i

ByteTypeOK ==
  /\ sent \in Bytes /\ part \in {"low", "high", "done", "cut"}
  /\ word \in 0 .. 255 /\ received \in 0 .. 255
  /\ flips \subseteq 0 .. 7

ByteInit ==
  /\ sent \in Bytes /\ part = "low"
  /\ word = HammingEncLow(sent) /\ flips = {} /\ received = 0

\* Noise turns over one more bit of the code word on the air.
Noise(i) ==
  /\ part \in {"low", "high"}
  /\ \A j \in flips : j < i
  /\ Cardinality(flips) < MaxFlips
  /\ word' = Flip(word, i) /\ flips' = flips \union {i}
  /\ UNCHANGED <<sent, part, received>>

\* mac_rx_rfm12 takes an EOP for the end of the frame.
ReceiveEop ==
  /\ part \in {"low", "high"} /\ word = EOP
  /\ part' = "cut"
  /\ UNCHANGED <<sent, word, flips, received>>

\* llc_rx_mac decodes anything else; llc_tx_mac has gone on to the next half.
ReceiveLow ==
  /\ part = "low" /\ word # EOP
  /\ received' = HammingDecLow(word)
  /\ part' = "high" /\ word' = HammingEncHigh(sent) /\ flips' = {}
  /\ UNCHANGED sent

ReceiveHigh ==
  /\ part = "high" /\ word # EOP
  /\ received' = received + HammingDecHigh(word)
  /\ part' = "done"
  /\ UNCHANGED <<sent, word, flips>>

ByteNext == ReceiveEop \/ ReceiveLow \/ ReceiveHigh \/ \E i \in 0 .. 7 : Noise(i)

ByteSpec == ByteInit /\ [][ByteNext]_byteVars

\* A byte whose code words lost at most one bit each arrives as it was sent.
ByteCorrected == part = "done" => received = sent

\* One wrong bit ends a frame in the middle only where the code word is that of
\* 15, the one code word a single bit away from EOP; no byte does it unharmed.
EopOnlyNearFifteen ==
  part = "cut" => \E i \in flips : Flip(word, i) = hamming_enc[16]
=============================================================================
