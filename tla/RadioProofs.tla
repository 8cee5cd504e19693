---------------------------- MODULE RadioProofs ----------------------------
(***************************************************************************)
(* Theorems about Radio for every value of its constants: sizes, widths,   *)
(* configuration flags and kinds of received frames.                       *)
(***************************************************************************)
EXTENDS Radio, TLAPS

Masked == mpc \in {"carrier", "enable", "release"} \/ macPc = "carrier"

\* Which protothread continuations go together.
Places ==
  /\ mpc # "poll" => turn \in Callers /\ label[turn] \in {"tx", "fwd"}
  /\ mpc \in {"cli", "test", "take", "done"} => macPc = "start"
  /\ mpc = "carrier" => macPc = "carrier"
  /\ mpc \in {"enable", "release"} => macPc \in {"start", "carrier"}
  /\ mpc = "fin" => macPc = "fin"
  /\ mpc \notin {"poll", "llc", "done"} => llcPc = "mac"
  /\ mpc = "done" => llcPc = "start"
  /\ macPc # "start" => llcPc = "mac"
  /\ llcPc = "mac" => label[packet] \in {"tx", "fwd"}

\* When the interrupt can run.
Interrupts ==
  /\ sreg = FALSE <=> mpc \in {"test", "take"}
  /\ gicr = FALSE <=> Masked

\* How the radio's direction, the interrupt's thread and mac.c's state agree.
Direction ==
  /\ nirqPc # "sem"
  /\ nirqPc = "tx" => radio_state = "TX"
  /\ mpc = "release" => radio_state = "TX"
  /\ radio_state = "TX" =>
       /\ mpc = "release" \/ macPc = "fin"
       /\ state # "FIN"
       /\ state \in {"PREAMBLE", "POSTAMBLE"} => left >= 1
  /\ Masked => state = "PREAMBLE" /\ left = PreambleLen

IInv ==
  /\ TypeOK
  /\ BatmanExclusive
  /\ Places
  /\ Interrupts
  /\ RadioExclusive
  /\ Direction

\* The initial state satisfies the invariant.
LEMMA InitInv == Init => IInv
<1> SUFFICES ASSUME Init PROVE IInv
    OBVIOUS
<1> USE DEF Init, Callers
<1>1. FlagTypes
  BY DEF FlagTypes
<1>2. RadioTypes
  BY SizesAssumption DEF RadioTypes
<1>3. CallerTypes /\ PacketTypes /\ GhostTypes
  BY WidthsAssumption DEF CallerTypes, PacketTypes, GhostTypes, Threads, Lens
<1>4. BatmanExclusive
  BY DEF BatmanExclusive, Guarded
<1>5. Places /\ Interrupts /\ Direction
  BY DEF Places, Interrupts, Direction, Masked
<1>6. RadioExclusive
  BY DEF RadioExclusive, MainHolds
<1> QED
  BY <1>1, <1>2, <1>3, <1>4, <1>5, <1>6 DEF IInv, TypeOK

\* Every length llc_tx is called with fits the bit field of llc->len.
LEMMA DataLenType ==
  ASSUME TypeOK, turn \in Callers PROVE DataLen(turn) \in Lens
BY SizesAssumption, WidthsAssumption
   DEF TypeOK, CallerTypes, PacketTypes, Lens, DataLen

\* PT_SEM_WAIT keeps the caller variables in their types.
LEMMA SemWaitTypes ==
  ASSUME TypeOK, NEW c \in Callers, turn = c, SemWait(c), UNCHANGED seqno
  PROVE  CallerTypes'
<1> USE DEF SemWait, SemFree, TypeOK, CallerTypes
<1>1. turn' \in Threads /\ mpc' \in {"poll", "llc"}
  BY DEF CallLlc, Yield, NextThread, Callers, Threads
<1>2. label' \in [Callers -> {"idle", "sem", "tx", "fwd", "print"}]
  OBVIOUS
<1>3. mutex' \in 0 .. 1
  OBVIOUS
<1> QED
  BY <1>1, <1>2, <1>3

\* Every step, of the main program or of the interrupt, keeps the invariant.
LEMMA StepInv == IInv /\ [Next]_vars => IInv'
<1> SUFFICES ASSUME IInv, [Next]_vars PROVE IInv'
    OBVIOUS
<1> USE DEF IInv, Callers, cpuVars, callVars, llcVars, macVars, rfmVars, irqVars,
            rxVars, ghostVars, Polled, Yield, NextThread, IrqEnabled
<1>1. CASE ShellIdle
  BY <1>1 DEF ShellIdle, TypeOK, FlagTypes, CallerTypes, PacketTypes,
     RadioTypes, GhostTypes, Threads, Lens, BatmanExclusive, Guarded, Places,
     Interrupts, Masked, RadioExclusive, MainHolds, Direction
<1>2. CASE ShellTick
  BY <1>2 DEF ShellTick, TypeOK, FlagTypes, CallerTypes, PacketTypes,
     RadioTypes, GhostTypes, Threads, Lens, BatmanExclusive, Guarded, Places,
     Interrupts, Masked, RadioExclusive, MainHolds, Direction
<1>3. CASE ShellSend
  <2> USE <1>3 DEF ShellSend, SemWait, SemFree, CallLlc, TypeOK
  <2>1. FlagTypes'
    BY DEF FlagTypes
  <2>2. CallerTypes'
    BY SemWaitTypes DEF CallerTypes, Threads
  <2>3. PacketTypes'
    BY DEF CallerTypes, PacketTypes, Threads, Lens, Places
  <2>4. RadioTypes'
    BY DEF RadioTypes, RadioExclusive, MainHolds, Direction, Interrupts,
       Masked, FlagTypes
  <2>5. GhostTypes'
    BY DEF GhostTypes, CallerTypes, PacketTypes, Threads, Lens
  <2>6. BatmanExclusive'
    BY DEF CallerTypes, BatmanExclusive, Guarded, Places
  <2>7. Places'
    BY DEF CallerTypes, PacketTypes, RadioTypes, Threads, Places
  <2>8. Interrupts'
    BY DEF FlagTypes, CallerTypes, RadioTypes, Interrupts, Masked, Places
  <2>9. RadioExclusive'
    BY DEF FlagTypes, CallerTypes, RadioTypes, RadioExclusive, MainHolds,
       Interrupts, Masked, Direction, Places
  <2>10. Direction'
    BY DEF FlagTypes, CallerTypes, RadioTypes, RadioExclusive, MainHolds,
       Interrupts, Masked, Direction, Places
  <2> QED
    BY <2>1, <2>2, <2>3, <2>4, <2>5, <2>6, <2>7, <2>8, <2>9, <2>10 DEF TypeOK
<1>4. CASE BatmanPoll
  <2> USE <1>4 DEF BatmanPoll, SemWait, SemFree, CallLlc, TypeOK
  <2>1. FlagTypes'
    BY DEF FlagTypes
  <2>2. CallerTypes'
    BY SemWaitTypes DEF CallerTypes, Threads
  <2>3. PacketTypes'
    BY DEF CallerTypes, PacketTypes, Threads, Lens, Places
  <2>4. RadioTypes'
    BY DEF RadioTypes, RadioExclusive, MainHolds, Direction, Interrupts,
       Masked, FlagTypes
  <2>5. GhostTypes'
    BY DEF GhostTypes, CallerTypes, PacketTypes, Threads, Lens
  <2>6. BatmanExclusive'
    BY DEF CallerTypes, BatmanExclusive, Guarded, Places
  <2>7. Places'
    BY DEF CallerTypes, PacketTypes, RadioTypes, Threads, Places
  <2>8. Interrupts'
    BY DEF FlagTypes, CallerTypes, RadioTypes, Interrupts, Masked, Places
  <2>9. RadioExclusive'
    BY DEF FlagTypes, CallerTypes, RadioTypes, RadioExclusive, MainHolds,
       Interrupts, Masked, Direction, Places
  <2>10. Direction'
    BY DEF FlagTypes, CallerTypes, RadioTypes, RadioExclusive, MainHolds,
       Interrupts, Masked, Direction, Places
  <2> QED
    BY <2>1, <2>2, <2>3, <2>4, <2>5, <2>6, <2>7, <2>8, <2>9, <2>10 DEF TypeOK
<1>5. CASE RxIdle
  BY <1>5 DEF RxIdle, TypeOK, FlagTypes, CallerTypes, PacketTypes,
     RadioTypes, GhostTypes, Threads, Lens, BatmanExclusive, Guarded, Places,
     Interrupts, Masked, RadioExclusive, MainHolds, Direction
<1>6. CASE RxPrint
  BY <1>6 DEF RxPrint, TypeOK, FlagTypes, CallerTypes, PacketTypes,
     RadioTypes, GhostTypes, Threads, Lens, BatmanExclusive, Guarded, Places,
     Interrupts, Masked, RadioExclusive, MainHolds, Direction
<1>7. CASE TimerPoll
  <2> USE <1>7 DEF TimerPoll, TypeOK
  <2>1. FlagTypes'
    BY DEF FlagTypes
  <2>2. CallerTypes' /\ PacketTypes' /\ RadioTypes' /\ GhostTypes'
    BY DEF CallerTypes, PacketTypes, RadioTypes, GhostTypes, Threads, Lens
  <2>3. BatmanExclusive' /\ Places'
    BY DEF CallerTypes, BatmanExclusive, Guarded, Places
  <2>4. Interrupts'
    BY DEF FlagTypes, CallerTypes, RadioTypes, Interrupts, Masked, Places
  <2>5. RadioExclusive' /\ Direction'
    BY DEF CallerTypes, RadioTypes, RadioExclusive, MainHolds, Masked,
       Direction, Places
  <2> QED
    BY <2>1, <2>2, <2>3, <2>4, <2>5
<1>8. CASE LlcTx
  <2> USE <1>8 DEF LlcTx, LlcStarts, TypeOK
  <2>1. FlagTypes'
    BY DEF FlagTypes
  <2>2. CallerTypes'
    BY DEF CallerTypes, RadioTypes
  <2>3. PacketTypes'
    BY DataLenType DEF CallerTypes, PacketTypes, Threads, Lens, Places
  <2>4. RadioTypes'
    BY DEF RadioTypes, RadioExclusive, MainHolds, Direction, Interrupts,
       Masked, FlagTypes
  <2>5. GhostTypes'
    BY DataLenType DEF GhostTypes, CallerTypes, PacketTypes, Threads, Lens
  <2>6. BatmanExclusive'
    BY DEF CallerTypes, BatmanExclusive, Guarded, Places
  <2>7. Places'
    BY DEF CallerTypes, PacketTypes, RadioTypes, Threads, Places
  <2>8. Interrupts'
    BY DEF FlagTypes, CallerTypes, RadioTypes, Interrupts, Masked, Places
  <2>9. RadioExclusive'
    BY DEF FlagTypes, CallerTypes, RadioTypes, RadioExclusive, MainHolds,
       Interrupts, Masked, Direction, Places
  <2>10. Direction'
    BY DEF FlagTypes, CallerTypes, RadioTypes, RadioExclusive, MainHolds,
       Interrupts, Masked, Direction, Places
  <2> QED
    BY <2>1, <2>2, <2>3, <2>4, <2>5, <2>6, <2>7, <2>8, <2>9, <2>10 DEF TypeOK
<1>9. CASE LockCli
  <2> USE <1>9 DEF LockCli, TypeOK
  <2>1. FlagTypes'
    BY DEF FlagTypes
  <2>2. CallerTypes' /\ PacketTypes' /\ RadioTypes' /\ GhostTypes'
    BY DEF CallerTypes, PacketTypes, RadioTypes, GhostTypes, Threads, Lens
  <2>3. BatmanExclusive' /\ Places'
    BY DEF CallerTypes, BatmanExclusive, Guarded, Places
  <2>4. Interrupts'
    BY DEF FlagTypes, CallerTypes, RadioTypes, Interrupts, Masked, Places
  <2>5. RadioExclusive' /\ Direction'
    BY DEF CallerTypes, RadioTypes, RadioExclusive, MainHolds, Masked,
       Direction, Places
  <2> QED
    BY <2>1, <2>2, <2>3, <2>4, <2>5
<1>10. CASE LockTest
  <2> USE <1>10 DEF LockTest, LockFree, TypeOK
  <2>1. FlagTypes'
    BY DEF FlagTypes
  <2>2. CallerTypes'
    BY DEF CallerTypes, Threads, BatmanExclusive, Guarded, Places
  <2>3. PacketTypes'
    BY DEF CallerTypes, PacketTypes, Threads, Lens, Places
  <2>4. RadioTypes'
    BY DEF RadioTypes, RadioExclusive, MainHolds, Direction, Interrupts,
       Masked, FlagTypes
  <2>5. GhostTypes'
    BY DEF GhostTypes, CallerTypes, PacketTypes, Threads, Lens
  <2>6. BatmanExclusive'
    BY DEF CallerTypes, BatmanExclusive, Guarded, Places
  <2>7. Places'
    BY DEF CallerTypes, PacketTypes, RadioTypes, Threads, Places
  <2>8. Interrupts'
    BY DEF FlagTypes, CallerTypes, RadioTypes, Interrupts, Masked, Places
  <2>9. RadioExclusive'
    BY DEF FlagTypes, CallerTypes, RadioTypes, RadioExclusive, MainHolds,
       Interrupts, Masked, Direction, Places
  <2>10. Direction'
    BY DEF FlagTypes, CallerTypes, RadioTypes, RadioExclusive, MainHolds,
       Interrupts, Masked, Direction, Places
  <2> QED
    BY <2>1, <2>2, <2>3, <2>4, <2>5, <2>6, <2>7, <2>8, <2>9, <2>10 DEF TypeOK
<1>11. CASE LockTake
  <2> USE <1>11 DEF LockTake, MaskNirq, TypeOK
  <2>1. FlagTypes'
    BY DEF FlagTypes
  <2>2. CallerTypes'
    BY DEF CallerTypes, Threads, BatmanExclusive, Guarded, Places
  <2>3. PacketTypes'
    BY DEF CallerTypes, PacketTypes, Threads, Lens, Places
  <2>4. RadioTypes'
    BY SizesAssumption DEF RadioTypes, RadioExclusive, MainHolds, Direction,
       Interrupts, Masked, FlagTypes
  <2>5. GhostTypes'
    BY DEF GhostTypes, CallerTypes, PacketTypes, Threads, Lens
  <2>6. BatmanExclusive'
    BY DEF CallerTypes, BatmanExclusive, Guarded, Places
  <2>7. Places'
    BY DEF CallerTypes, PacketTypes, RadioTypes, Threads, Places
  <2>8. Interrupts'
    BY DEF FlagTypes, CallerTypes, RadioTypes, Interrupts, Masked, Places
  <2>9. RadioExclusive'
    BY DEF FlagTypes, CallerTypes, RadioTypes, RadioExclusive, MainHolds,
       Interrupts, Masked, Direction, Places
  <2>10. Direction'
    BY SizesAssumption DEF FlagTypes, CallerTypes, RadioTypes, RadioExclusive,
       MainHolds, Interrupts, Masked, Direction, Places
  <2> QED
    BY <2>1, <2>2, <2>3, <2>4, <2>5, <2>6, <2>7, <2>8, <2>9, <2>10 DEF TypeOK
<1>12. CASE CarrierFree
  BY <1>12 DEF CarrierFree, TypeOK, FlagTypes, CallerTypes, PacketTypes,
     RadioTypes, GhostTypes, Threads, Lens, BatmanExclusive, Guarded, Places,
     Interrupts, Masked, RadioExclusive, MainHolds, Direction
<1>13. CASE CarrierBusy
  BY <1>13 DEF CarrierBusy, TypeOK, FlagTypes, CallerTypes, PacketTypes,
     RadioTypes, GhostTypes, Threads, Lens, BatmanExclusive, Guarded, Places,
     Interrupts, Masked, RadioExclusive, MainHolds, Direction
<1>14. CASE EnableTx
  <2> USE <1>14 DEF EnableTx, TypeOK
  <2>1. FlagTypes'
    BY DEF FlagTypes
  <2>2. CallerTypes'
    BY DEF CallerTypes, Threads, BatmanExclusive, Guarded, Places
  <2>3. PacketTypes'
    BY DEF CallerTypes, PacketTypes, Threads, Lens, Places
  <2>4. RadioTypes'
    BY SizesAssumption DEF RadioTypes, RadioExclusive, MainHolds, Direction,
       Interrupts, Masked, FlagTypes
  <2>5. GhostTypes'
    BY DEF GhostTypes, CallerTypes, PacketTypes, Threads, Lens
  <2>6. BatmanExclusive'
    BY DEF CallerTypes, BatmanExclusive, Guarded, Places
  <2>7. Places'
    BY DEF CallerTypes, PacketTypes, RadioTypes, Threads, Places
  <2>8. Interrupts'
    BY DEF FlagTypes, CallerTypes, RadioTypes, Interrupts, Masked, Places
  <2>9. RadioExclusive'
    BY DEF FlagTypes, CallerTypes, RadioTypes, RadioExclusive, MainHolds,
       Interrupts, Masked, Direction, Places
  <2>10. Direction'
    BY SizesAssumption DEF FlagTypes, CallerTypes, RadioTypes, RadioExclusive,
       MainHolds, Interrupts, Masked, Direction, Places
  <2> QED
    BY <2>1, <2>2, <2>3, <2>4, <2>5, <2>6, <2>7, <2>8, <2>9, <2>10 DEF TypeOK
<1>15. CASE Release
  BY <1>15 DEF Release, TypeOK, FlagTypes, CallerTypes, PacketTypes,
     RadioTypes, GhostTypes, Threads, Lens, BatmanExclusive, Guarded, Places,
     Interrupts, Masked, RadioExclusive, MainHolds, Direction
<1>16. CASE WaitFin
  BY <1>16 DEF WaitFin, FrameOut, TypeOK, FlagTypes, CallerTypes, PacketTypes,
     RadioTypes, GhostTypes, Threads, Lens, BatmanExclusive, Guarded, Places,
     Interrupts, Masked, RadioExclusive, MainHolds, Direction
<1>17. CASE Done
  <2> USE <1>17 DEF Done, MutexAfter, TypeOK
  <2>1. FlagTypes'
    BY DEF FlagTypes
  <2>2. CallerTypes'
    BY WidthsAssumption DEF CallerTypes, Threads, BatmanExclusive, Guarded,
       Places
  <2>3. PacketTypes'
    BY WidthsAssumption DEF CallerTypes, PacketTypes, Threads, Lens, Places
  <2>4. RadioTypes'
    BY DEF RadioTypes, RadioExclusive, MainHolds, Direction, Interrupts,
       Masked, FlagTypes
  <2>5. GhostTypes'
    BY WidthsAssumption DEF GhostTypes, CallerTypes, PacketTypes, Threads, Lens
  <2>6. BatmanExclusive'
    BY DEF CallerTypes, BatmanExclusive, Guarded, Places
  <2>7. Places'
    BY DEF CallerTypes, PacketTypes, RadioTypes, Threads, Places
  <2>8. Interrupts'
    BY DEF FlagTypes, CallerTypes, RadioTypes, Interrupts, Masked, Places
  <2>9. RadioExclusive'
    BY DEF FlagTypes, CallerTypes, RadioTypes, RadioExclusive, MainHolds,
       Interrupts, Masked, Direction, Places
  <2>10. Direction'
    BY DEF FlagTypes, CallerTypes, RadioTypes, RadioExclusive, MainHolds,
       Interrupts, Masked, Direction, Places
  <2> QED
    BY <2>1, <2>2, <2>3, <2>4, <2>5, <2>6, <2>7, <2>8, <2>9, <2>10 DEF TypeOK
<1>18. CASE NirqTx
  <2> USE <1>18 DEF NirqTx, TxMutexAfter, TypeOK
  <2>1. FlagTypes'
    BY DEF FlagTypes
  <2>2. CallerTypes'
    BY DEF CallerTypes, Threads, BatmanExclusive, Guarded, Places
  <2>3. PacketTypes'
    BY DEF CallerTypes, PacketTypes, Threads, Lens, Places
  <2>4. RadioTypes'
    BY SizesAssumption DEF RadioTypes, RadioExclusive, MainHolds, Direction,
       Interrupts, Masked, FlagTypes
  <2>5. GhostTypes'
    BY DEF GhostTypes, CallerTypes, PacketTypes, Threads, Lens
  <2>6. BatmanExclusive'
    BY DEF CallerTypes, BatmanExclusive, Guarded, Places
  <2>7. Places'
    BY DEF CallerTypes, PacketTypes, RadioTypes, Threads, Places
  <2>8. Interrupts'
    BY DEF FlagTypes, CallerTypes, RadioTypes, Interrupts, Masked, Places
  <2>9. RadioExclusive'
    BY DEF FlagTypes, CallerTypes, RadioTypes, RadioExclusive, MainHolds,
       Interrupts, Masked, Direction, Places
  <2>10. Direction'
    BY SizesAssumption DEF FlagTypes, CallerTypes, RadioTypes, RadioExclusive,
       MainHolds, Interrupts, Masked, Direction, Places
  <2> QED
    BY <2>1, <2>2, <2>3, <2>4, <2>5, <2>6, <2>7, <2>8, <2>9, <2>10 DEF TypeOK
<1>19. CASE NirqTxData
  <2> USE <1>19 DEF NirqTxData, LastByte, TypeOK
  <2>1. FlagTypes'
    BY DEF FlagTypes
  <2>2. CallerTypes'
    BY DEF CallerTypes, Threads, BatmanExclusive, Guarded, Places
  <2>3. PacketTypes'
    BY DEF CallerTypes, PacketTypes, Threads, Lens, Places
  <2>4. RadioTypes'
    BY SizesAssumption DEF RadioTypes, RadioExclusive, MainHolds, Direction,
       Interrupts, Masked, FlagTypes
  <2>5. GhostTypes'
    BY DEF GhostTypes, CallerTypes, PacketTypes, Threads, Lens
  <2>6. BatmanExclusive'
    BY DEF CallerTypes, BatmanExclusive, Guarded, Places
  <2>7. Places'
    BY DEF CallerTypes, PacketTypes, RadioTypes, Threads, Places
  <2>8. Interrupts'
    BY DEF FlagTypes, CallerTypes, RadioTypes, Interrupts, Masked, Places
  <2>9. RadioExclusive'
    BY DEF FlagTypes, CallerTypes, RadioTypes, RadioExclusive, MainHolds,
       Interrupts, Masked, Direction, Places
  <2>10. Direction'
    BY SizesAssumption DEF FlagTypes, CallerTypes, RadioTypes, RadioExclusive,
       MainHolds, Interrupts, Masked, Direction, Places
  <2> QED
    BY <2>1, <2>2, <2>3, <2>4, <2>5, <2>6, <2>7, <2>8, <2>9, <2>10 DEF TypeOK
<1>20. CASE \E kind \in RxKinds : RxFrame(kind)
  <2> USE <1>20 DEF RxFrame, AllRxKinds, SemWait, SemFree, CallLlc, TypeOK
  <2>1. FlagTypes'
    BY DEF FlagTypes
  <2>2. CallerTypes'
    BY WidthsAssumption DEF CallerTypes, Threads, BatmanExclusive, Guarded,
       Places
  <2>3. PacketTypes'
    BY WidthsAssumption DEF CallerTypes, PacketTypes, Threads, Lens, Places
  <2>4. RadioTypes'
    BY DEF RadioTypes, RadioExclusive, MainHolds, Direction, Interrupts,
       Masked, FlagTypes
  <2>5. GhostTypes'
    BY WidthsAssumption DEF GhostTypes, CallerTypes, PacketTypes, Threads, Lens
  <2>6. BatmanExclusive'
    BY DEF CallerTypes, BatmanExclusive, Guarded, Places
  <2>7. Places'
    BY DEF CallerTypes, PacketTypes, RadioTypes, Threads, Places
  <2>8. Interrupts'
    BY DEF FlagTypes, CallerTypes, RadioTypes, Interrupts, Masked, Places
  <2>9. RadioExclusive'
    BY DEF FlagTypes, CallerTypes, RadioTypes, RadioExclusive, MainHolds,
       Interrupts, Masked, Direction, Places
  <2>10. Direction'
    BY DEF FlagTypes, CallerTypes, RadioTypes, RadioExclusive, MainHolds,
       Interrupts, Masked, Direction, Places
  <2> QED
    BY <2>1, <2>2, <2>3, <2>4, <2>5, <2>6, <2>7, <2>8, <2>9, <2>10 DEF TypeOK
<1>21. CASE \E c \in Callers : Resume(c)
  <2> USE <1>21 DEF Resume, SemWait, SemFree, CallLlc, TypeOK
  <2>1. FlagTypes'
    BY DEF FlagTypes
  <2>2. CallerTypes'
    BY SemWaitTypes DEF CallerTypes, Threads
  <2>3. PacketTypes'
    BY DEF CallerTypes, PacketTypes, Threads, Lens, Places
  <2>4. RadioTypes'
    BY DEF RadioTypes, RadioExclusive, MainHolds, Direction, Interrupts,
       Masked, FlagTypes
  <2>5. GhostTypes'
    BY DEF GhostTypes, CallerTypes, PacketTypes, Threads, Lens
  <2>6. BatmanExclusive'
    BY DEF CallerTypes, BatmanExclusive, Guarded, Places
  <2>7. Places'
    BY DEF CallerTypes, PacketTypes, RadioTypes, Threads, Places
  <2>8. Interrupts'
    BY DEF FlagTypes, CallerTypes, RadioTypes, Interrupts, Masked, Places
  <2>9. RadioExclusive'
    BY DEF FlagTypes, CallerTypes, RadioTypes, RadioExclusive, MainHolds,
       Interrupts, Masked, Direction, Places
  <2>10. Direction'
    BY DEF FlagTypes, CallerTypes, RadioTypes, RadioExclusive, MainHolds,
       Interrupts, Masked, Direction, Places
  <2> QED
    BY <2>1, <2>2, <2>3, <2>4, <2>5, <2>6, <2>7, <2>8, <2>9, <2>10 DEF TypeOK
<1>22. CASE NirqRxAny
  <2> USE <1>22 DEF NirqRxAny, NirqRx, RxBytes, RxMutexAfter, TypeOK
  <2>1. FlagTypes'
    BY DEF FlagTypes
  <2>2. CallerTypes'
    BY DEF CallerTypes, Threads, BatmanExclusive, Guarded, Places
  <2>3. PacketTypes'
    BY DEF CallerTypes, PacketTypes, Threads, Lens, Places
  <2>4. RadioTypes'
    BY DEF RadioTypes, RadioExclusive, MainHolds, Direction, Interrupts,
       Masked, FlagTypes
  <2>5. GhostTypes'
    BY DEF GhostTypes, CallerTypes, PacketTypes, Threads, Lens
  <2>6. BatmanExclusive'
    BY DEF CallerTypes, BatmanExclusive, Guarded, Places
  <2>7. Places'
    BY DEF CallerTypes, PacketTypes, RadioTypes, Threads, Places
  <2>8. Interrupts'
    BY DEF FlagTypes, CallerTypes, RadioTypes, Interrupts, Masked, Places
  <2>9. RadioExclusive'
    BY DEF FlagTypes, CallerTypes, RadioTypes, RadioExclusive, MainHolds,
       Interrupts, Masked, Direction, Places
  <2>10. Direction'
    BY DEF FlagTypes, CallerTypes, RadioTypes, RadioExclusive, MainHolds,
       Interrupts, Masked, Direction, Places
  <2> QED
    BY <2>1, <2>2, <2>3, <2>4, <2>5, <2>6, <2>7, <2>8, <2>9, <2>10 DEF TypeOK
<1>23. CASE UNCHANGED vars
  BY <1>23 DEF vars, TypeOK, FlagTypes, CallerTypes, PacketTypes,
     RadioTypes, GhostTypes, Threads, Lens, BatmanExclusive, Guarded, Places,
     Interrupts, Masked, RadioExclusive, MainHolds, Direction
<1> QED
  BY <1>1, <1>2, <1>3, <1>4, <1>5, <1>6, <1>7, <1>8, <1>9, <1>10, <1>11, <1>12,
     <1>13, <1>14, <1>15, <1>16, <1>17, <1>18, <1>19, <1>20, <1>21, <1>22,
     <1>23 DEF Next, MainStep

\* The invariant holds in every reachable state.
THEOREM Invariance == Spec => []IInv
BY InitInv, StepInv, PTL DEF Spec

-----------------------------------------------------------------------------
(* What follows from it, for every size, flag and kind of traffic *)

\* Type correctness: no counter, label or length leaves its range.
THEOREM TypeCorrect == Spec => []TypeOK
BY Invariance, PTL DEF IInv

\* rfm12.c's mutex is free exactly when nobody uses the radio, and a frame is
\* never received while the main program prepares or sends one.
THEOREM RadioIsExclusive == Spec => []RadioExclusive
BY Invariance, PTL DEF IInv

\* batman.c's mutex has one holder at most and is never lost, in spite of the
\* forward path that transmits without it.
THEOREM BatmanIsExclusive == Spec => []BatmanExclusive
BY Invariance, PTL DEF IInv

\* The interrupt never blocks in its PT_SEM_WAIT.
THEOREM IsrIsNeverBlocked == Spec => []IsrNeverBlocks
<1>1. IInv => IsrNeverBlocks
  BY DEF IInv, Direction, IsrNeverBlocks
<1> QED
  BY <1>1, Invariance, PTL

\* rfm12_enable_tx never discards a suspended interrupt thread.
THEOREM EnableTxDiscardsNothing == Spec => []EnableTxIsFresh
<1>1. IInv => EnableTxIsFresh
  BY DEF IInv, TypeOK, RadioTypes, Places, RadioExclusive, MainHolds, Direction,
         EnableTxIsFresh
<1> QED
  BY <1>1, Invariance, PTL

\* The owner of the frame on the air is still inside llc_tx.
THEOREM OwnerIsWaiting == Spec => []OwnerWaits
<1>1. IInv => OwnerWaits
  BY DEF IInv, Places, Direction, OwnerWaits
<1> QED
  BY <1>1, Invariance, PTL

-----------------------------------------------------------------------------
\* The radio implements HalfDuplex: only rfm12_lock, rfm12_enable_tx and the
\* interrupt move Phase, each along one of its edges.
LEMMA PhaseStep == IInv /\ [Next]_vars => [HD!Next]_Phase
<1> SUFFICES ASSUME IInv, [Next]_vars PROVE [HD!Next]_Phase
    OBVIOUS
<1> USE DEF IInv, TypeOK, RadioTypes, Phase, HD!Next, HD!BeginReceive,
            HD!EndReceive, HD!Claim, HD!Transmit, HD!EndTransmit, rfmVars
<1>1. CASE UNCHANGED rfmVars
  BY <1>1
<1>2. CASE LockTest
  BY <1>2 DEF LockTest, LockFree, RadioExclusive
<1>3. CASE EnableTx
  BY <1>3 DEF EnableTx, RadioExclusive, MainHolds, Direction, Places
<1>4. CASE NirqTx
  BY <1>4 DEF NirqTx, TxMutexAfter, IrqEnabled, RadioExclusive, Direction
<1>5. CASE NirqTxData
  BY <1>5 DEF NirqTxData, IrqEnabled, RadioExclusive, Direction
<1>6. CASE NirqRxAny
  BY <1>6 DEF NirqRxAny, NirqRx, RxMutexAfter, IrqEnabled, RadioExclusive,
              Direction
<1>7. CASE UNCHANGED vars
  BY <1>7 DEF vars
<1>8. CASE /\ MainStep
           /\ ~LockTest /\ ~EnableTx
  <2>1. UNCHANGED rfmVars
    BY <1>8 DEF MainStep, ShellIdle, ShellTick, ShellSend, BatmanPoll, RxIdle,
         RxPrint, RxFrame, TimerPoll, Resume, LlcTx, LockCli, LockTake,
         CarrierFree, CarrierBusy, Release, WaitFin, Done
  <2> QED
    BY <2>1, <1>1
<1> QED
  BY <1>2, <1>3, <1>4, <1>5, <1>6, <1>7, <1>8 DEF Next

\* Refinement: every behaviour of the node's transmit and receive path is,
\* seen through Phase, a behaviour of a half-duplex channel.
THEOREM RadioIsHalfDuplex == Spec => ImplementsHalfDuplex
<1>1. Init => HD!Init
  BY DEF Init, HD!Init, Phase
<1> QED
  BY <1>1, PhaseStep, Invariance, PTL DEF Spec, ImplementsHalfDuplex, HD!Spec
-----------------------------------------------------------------------------
(* The frame on the air, nibble by nibble *)

\* How far state_tx.cnt is: two nibbles for every byte of header and data, and
\* hasnext tells, once a byte is fetched, whether it was not the last.
FrameBytes == LLC_HEADER_SIZE + len[packet]

Progress ==
  /\ state \in {"DATA", "POSTAMBLE"} => radio_state = "TX"
  /\ llcPc = "mac" /\ (macPc # "fin" \/ state = "PREAMBLE") => cnt = 0
  /\ state = "DATA" =>
       /\ cnt < 2 * FrameBytes
       /\ cnt % 2 = 1 => (hasnext <=> cnt \div 2 # FrameBytes - 1)
  /\ state = "POSTAMBLE" => cnt = 2 * FrameBytes

\* Halving a nibble count.
LEMMA Halves ==
  ASSUME NEW n \in Nat
  PROVE  /\ n % 2 \in {0, 1}
         /\ (n + 1) % 2 = 1 - (n % 2)
         /\ n % 2 = 0 => (n + 1) \div 2 = n \div 2
         /\ n = 2 * (n \div 2) + (n % 2)
OBVIOUS

\* While a frame is being sent its caller is inside llc_tx, so that no other
\* thread describes its own packet and llc_rx does not refill that buffer.
LEMMA PacketKept ==
  ASSUME IInv, [Next]_vars, llcPc = "mac"
  PROVE  /\ packet' = packet
         /\ len'[packet] = len[packet]
<1> USE DEF IInv, TypeOK, Callers, cpuVars, callVars, llcVars, macVars, rfmVars,
            irqVars, rxVars, ghostVars
<1>1. CASE LlcTx
  BY <1>1 DEF LlcTx, LlcStarts
<1>2. CASE \E kind \in RxKinds : RxFrame(kind)
  BY <1>2 DEF RxFrame, Places, PacketTypes, CallerTypes
<1>3. CASE NirqTx \/ NirqTxData \/ NirqRxAny \/ UNCHANGED vars
  BY <1>3 DEF NirqTx, NirqTxData, NirqRxAny, NirqRx, vars
<1>4. CASE /\ MainStep
           /\ ~LlcTx /\ ~(\E kind \in RxKinds : RxFrame(kind))
  BY <1>4 DEF MainStep, ShellIdle, ShellTick, ShellSend, BatmanPoll, RxIdle,
     RxPrint, TimerPoll, Resume, LockCli, LockTest, LockTake, CarrierFree,
     CarrierBusy, EnableTx, Release, WaitFin, Done
<1> QED
  BY <1>1, <1>2, <1>3, <1>4 DEF Next

\* Every step keeps the count true to the packet.
LEMMA ProgressStep == IInv /\ Progress /\ [Next]_vars => Progress'
<1> SUFFICES ASSUME IInv, Progress, [Next]_vars PROVE Progress'
    OBVIOUS
<1> USE DEF IInv, Progress, FrameBytes, cpuVars, callVars, llcVars, macVars,
            rfmVars, irqVars, rxVars, ghostVars
<1>1. CASE LlcTx
  BY <1>1 DEF LlcTx, LlcStarts, Places, Direction
<1>2. CASE LockTake
  BY <1>2 DEF LockTake, Places, Direction
<1>3. CASE EnableTx
  BY <1>3 DEF EnableTx
<1>4. CASE Release
  BY <1>4 DEF Release, Places, Direction, Masked
<1>5. CASE WaitFin
  BY <1>5 DEF WaitFin, FrameOut, Places
<1>6. CASE NirqTx
  <2> USE <1>6 DEF NirqTx
  <2>1. FrameBytes \in Nat \ {0} /\ cnt \in Nat
    BY SizesAssumption DEF TypeOK, PacketTypes, Lens
  <2>2. radio_state = "TX" /\ macPc = "fin" /\ llcPc = "mac"
    BY DEF Direction, Interrupts, Masked, Places, IrqEnabled
  <2>3. state = "PREAMBLE" => cnt = 0
    BY <2>2
  <2> QED
    BY <2>1, <2>2, <2>3
<1>7. CASE NirqTxData
  <2> USE <1>7 DEF NirqTxData
  <2>1. FrameBytes \in Nat \ {0} /\ cnt \in Nat
    BY SizesAssumption DEF TypeOK, PacketTypes, Lens
  <2>2. radio_state = "TX" /\ macPc = "fin" /\ llcPc = "mac"
    BY DEF Direction, Interrupts, Masked, Places, IrqEnabled
  <2>3. /\ FrameBytes' = FrameBytes
        /\ radio_state' = "TX" /\ macPc' = "fin" /\ state' # "PREAMBLE"
    BY <2>2
  <2>4. CASE cnt % 2 = 0
    <3>1. state' = "DATA" /\ cnt' = cnt + 1 /\ cnt' \div 2 = cnt \div 2
      BY <2>1, <2>4, Halves
    <3>2. cnt' < 2 * FrameBytes
      BY <2>1, <2>4, <3>1, Halves
    <3>3. LastByte <=> cnt \div 2 = FrameBytes - 1
      BY SizesAssumption DEF LastByte, TypeOK, PacketTypes, Lens
    <3>4. hasnext' = ~LastByte
      BY <2>4
    <3>5. hasnext' <=> cnt' \div 2 # FrameBytes - 1
      BY ONLY <3>1, <3>3, <3>4, Zenon
    <3> QED
      BY <2>3, <3>1, <3>2, <3>5
  <2>5. CASE cnt % 2 = 1 /\ hasnext
    <3>1. state' = "DATA" /\ cnt' = cnt + 1
      BY <2>5
    <3>2. cnt' % 2 = 0
      BY ONLY <2>1, <2>5, <3>1, Halves
    <3>3. cnt \div 2 < FrameBytes - 1
      BY <2>1, <2>5, Halves
    <3>4. cnt' < 2 * FrameBytes
      BY <2>1, <2>5, <3>1, <3>3, Halves
    <3> QED
      BY <2>3, <3>1, <3>2, <3>4
  <2>6. CASE cnt % 2 = 1 /\ ~hasnext
    <3>1. state' = "POSTAMBLE" /\ cnt' = cnt + 1
      BY <2>1, <2>6
    <3>2. cnt' = 2 * FrameBytes
      BY <2>1, <2>6, <3>1, Halves
    <3> QED
      BY <2>3, <3>1, <3>2
  <2> QED
    BY <2>1, <2>4, <2>5, <2>6, Halves
<1>8. CASE \E kind \in RxKinds : RxFrame(kind)
  <2>1. UNCHANGED <<llcPc, packet, cnt, hasnext, macVars, radio_state>>
    BY <1>8 DEF RxFrame
  <2>2. llcPc = "mac" => FrameBytes' = FrameBytes
    BY PacketKept
  <2>3. radio_state = "TX" => llcPc = "mac"
    BY DEF Direction, Places
  <2> QED
    BY <2>1, <2>2, <2>3
<1>9. CASE NirqRxAny
  BY <1>9 DEF NirqRxAny, NirqRx, IrqEnabled, Direction, RadioExclusive
<1>10. CASE UNCHANGED vars
  BY <1>10 DEF vars
<1>11. CASE /\ MainStep
            /\ ~LlcTx /\ ~LockTake /\ ~EnableTx /\ ~Release /\ ~WaitFin
            /\ ~(\E kind \in RxKinds : RxFrame(kind))
  <2>1. UNCHANGED <<llcVars, macVars, radio_state>>
    BY <1>11 DEF MainStep, ShellIdle, ShellTick, ShellSend, BatmanPoll, RxIdle,
       RxPrint, TimerPoll, Resume, LockCli, LockTest, CarrierFree, CarrierBusy,
       Done
  <2> QED
    BY <2>1
<1> QED
  BY <1>1, <1>2, <1>3, <1>4, <1>5, <1>6, <1>7, <1>8, <1>9, <1>10, <1>11
     DEF Next

\* A frame is ended after exactly its own header and data: llc_tx_mac stops at
\* the last byte whatever the interleaving of callers, and however often they
\* call llc_tx while it is being sent.
THEOREM FrameAlwaysComplete == Spec => []FrameComplete
<1>1. Init => Progress
  BY DEF Init, Progress
<1>2. Progress => FrameComplete
  BY DEF Progress, FrameBytes, FrameComplete
<1> QED
  BY <1>1, <1>2, ProgressStep, Invariance, PTL DEF Spec

\* Only a byte handed to the radio moves state_tx.cnt during a frame.
LEMMA CountStep ==
  ASSUME IInv, [Next]_vars, radio_state = "TX", cnt' # cnt
  PROVE  cnt' = cnt + 1 /\ state = "DATA"
<1> USE DEF cpuVars, callVars, llcVars, macVars, rfmVars, irqVars, rxVars,
            ghostVars
<1>1. CASE NirqTxData
  BY <1>1 DEF NirqTxData
<1>2. CASE LlcTx
  BY <1>2 DEF LlcTx, LlcStarts, IInv, Direction, Places
<1>3. CASE ~NirqTxData /\ ~LlcTx
  BY <1>3 DEF Next, MainStep, ShellIdle, ShellTick, ShellSend, BatmanPoll,
     RxIdle, RxPrint, RxFrame, TimerPoll, Resume, LockCli, LockTest, LockTake,
     CarrierFree, CarrierBusy, EnableTx, Release, WaitFin, Done, NirqTx,
     NirqRxAny, NirqRx, vars
<1> QED
  BY <1>1, <1>2, <1>3

\* No step replaces the packet or its length while the interrupt reads them.
THEOREM FrameIsStable == Spec => FrameStable
<1>1. IInv /\ [Next]_vars =>
        [radio_state = "TX" =>
           /\ packet' = packet
           /\ len'[packet] = len[packet]
           /\ cnt' # cnt => cnt' = cnt + 1 /\ state = "DATA"]_vars
  BY PacketKept, CountStep DEF IInv, Direction, Places
<1> QED
  BY <1>1, Invariance, PTL DEF Spec, FrameStable

-----------------------------------------------------------------------------
(* How long a claimed frame takes *)

\* The bytes the interrupt has still to hand to the radio.
Remaining ==
  CASE state = "PREAMBLE"  -> left + 2 * FrameBytes + PostambleLen
    [] state = "DATA"      -> 2 * FrameBytes - cnt + PostambleLen
    [] state = "POSTAMBLE" -> left
    [] state = "FIN"       -> 0

\* Every byte the interrupt hands over is one less to come, and with the last
\* one the radio goes back to receiving; nothing else the node does in the
\* meantime adds to them, and at rfm12_enable_tx they are the whole frame.
FrameAdvances ==
  [][/\ radio_state = "TX" =>
          /\ NirqTx \/ NirqTxData => Remaining' = Remaining - 1
          /\ ~(NirqTx \/ NirqTxData) => Remaining' = Remaining
          /\ Remaining' = 0 <=> radio_state' = "RX"
     /\ radio_state = "RX" /\ radio_state' = "TX" =>
          Remaining' = PreambleLen + 2 * FrameBytes + PostambleLen]_vars

LEMMA PreambleByte ==
  ASSUME IInv, Progress, NirqTx PROVE Remaining' = Remaining - 1
<1> USE DEF IInv, NirqTx
<1>1. /\ left \in Nat /\ state \in {"PREAMBLE", "POSTAMBLE"}
      /\ FrameBytes \in Nat /\ PostambleLen \in Nat \ {0}
  BY SizesAssumption DEF TypeOK, RadioTypes, PacketTypes, Lens, FrameBytes
<1>2. radio_state = "TX" /\ left >= 1 /\ macPc = "fin" /\ llcPc = "mac"
  BY <1>1 DEF Direction, Interrupts, Masked, Places, IrqEnabled
<1>3. FrameBytes' = FrameBytes
  BY DEF FrameBytes, llcVars
<1>4. CASE left > 1
  BY <1>1, <1>3, <1>4 DEF Remaining
<1>5. CASE left = 1 /\ state = "PREAMBLE"
  <2>1. state' = "DATA" /\ cnt' = 0
    BY <1>2, <1>5 DEF Progress, llcVars
  <2> QED
    BY <1>1, <1>3, <1>5, <2>1 DEF Remaining
<1>6. CASE left = 1 /\ state = "POSTAMBLE"
  BY <1>6 DEF Remaining
<1> QED
  BY <1>1, <1>2, <1>4, <1>5, <1>6

LEMMA DataByte ==
  ASSUME IInv, Progress, NirqTxData PROVE Remaining' = Remaining - 1
<1> USE DEF IInv, NirqTxData
<1>1. FrameBytes \in Nat \ {0} /\ cnt \in Nat /\ PostambleLen \in Nat
  BY SizesAssumption DEF TypeOK, PacketTypes, Lens, FrameBytes
<1>2. FrameBytes' = FrameBytes /\ cnt' = cnt + 1 /\ state = "DATA"
  BY DEF FrameBytes
<1>3. CASE state' = "DATA"
  BY <1>1, <1>2, <1>3 DEF Remaining
<1>4. CASE state' # "DATA"
  <2>1. cnt % 2 # 0 /\ ~hasnext /\ state' = "POSTAMBLE" /\ left' = PostambleLen
    BY <1>2, <1>4
  <2>2. cnt % 2 = 1 /\ cnt \div 2 = FrameBytes - 1
    BY <1>1, <1>2, <2>1, Halves DEF Progress
  <2>3. cnt = 2 * FrameBytes - 1
    BY <1>1, <2>2, Halves
  <2> QED
    BY <1>1, <1>2, <2>1, <2>3 DEF Remaining
<1> QED
  BY <1>3, <1>4

\* The frame's length, and mac.c's place in it, belong to the interrupt alone.
LEMMA OthersWait ==
  ASSUME IInv, [Next]_vars, radio_state = "TX", ~NirqTx, ~NirqTxData
  PROVE  Remaining' = Remaining /\ radio_state' = "TX"
<1> USE DEF IInv, cpuVars, callVars, llcVars, macVars, rfmVars, irqVars, rxVars,
            ghostVars
<1>1. llcPc = "mac" /\ (mpc = "release" \/ macPc = "fin") /\ state # "FIN"
  BY DEF Direction, Places
<1>2. FrameBytes' = FrameBytes
  BY <1>1, PacketKept DEF FrameBytes
<1>3. state' = state /\ left' = left /\ cnt' = cnt /\ radio_state' = "TX"
  <2>1. CASE LlcTx
    BY <1>1, <2>1 DEF LlcTx, LlcStarts
  <2>2. CASE LockTake
    BY <1>1, <2>2 DEF LockTake, Places
  <2>3. CASE EnableTx
    BY <1>1, <2>3 DEF EnableTx
  <2>4. CASE NirqRxAny
    BY <2>4 DEF NirqRxAny, NirqRx, IrqEnabled, Direction, RadioExclusive
  <2>5. CASE UNCHANGED vars
    BY <2>5 DEF vars
  <2>6. CASE MainStep /\ ~LlcTx /\ ~LockTake /\ ~EnableTx
    BY <2>6 DEF MainStep, ShellIdle, ShellTick, ShellSend, BatmanPoll, RxIdle,
       RxPrint, RxFrame, TimerPoll, Resume, LockCli, LockTest, CarrierFree,
       CarrierBusy, Release, WaitFin, Done
  <2> QED
    BY <2>1, <2>2, <2>3, <2>4, <2>5, <2>6 DEF Next
<1> QED
  BY <1>2, <1>3 DEF Remaining

\* While the radio sends, there are bytes to come.
BytesToCome == radio_state = "TX" => Remaining # 0

LEMMA SomeBytesToCome == IInv /\ Progress => BytesToCome
<1> SUFFICES ASSUME IInv, Progress, radio_state = "TX" PROVE Remaining # 0
    BY DEF BytesToCome
<1>1. /\ FrameBytes \in Nat \ {0} /\ cnt \in Nat /\ left \in Nat
      /\ PostambleLen \in Nat \ {0}
      /\ state \in {"PREAMBLE", "DATA", "POSTAMBLE", "FIN"}
  BY SizesAssumption
     DEF IInv, TypeOK, PacketTypes, RadioTypes, Lens, FrameBytes
<1> QED
  BY <1>1 DEF IInv, Direction, Progress, Remaining

\* The radio turns to sending in rfm12_enable_tx only.
LEMMA ClaimedFrame ==
  ASSUME IInv, [Next]_vars, radio_state = "RX", radio_state' = "TX"
  PROVE  Remaining' = PreambleLen + 2 * FrameBytes + PostambleLen
<1>1. EnableTx
  BY DEF Next, MainStep, ShellIdle, ShellTick, ShellSend, BatmanPoll, RxIdle,
     RxPrint, RxFrame, TimerPoll, Resume, LlcTx, LockCli, LockTest, LockTake,
     CarrierFree, CarrierBusy, Release, WaitFin, Done, NirqTx, NirqTxData,
     NirqRxAny, NirqRx, rfmVars, vars
<1>2. state' = "PREAMBLE" /\ left' = PreambleLen /\ FrameBytes' = FrameBytes
  BY <1>1 DEF EnableTx, IInv, Direction, Masked, macVars, llcVars, FrameBytes
<1> QED
  BY <1>2 DEF Remaining

\* The safety half of ClaimedFrameEnds: a frame for which the radio was claimed
\* is exactly PreambleLen + 2 * FrameBytes + PostambleLen interrupts long,
\* whatever the main program and the other callers of llc_tx do meanwhile.
THEOREM FrameIsFinite == Spec => FrameAdvances
<1>1. Init => Progress
  BY DEF Init, Progress
<1>2. ASSUME IInv, IInv', Progress, BytesToCome', [Next]_vars
      PROVE  [/\ radio_state = "TX" =>
                 /\ NirqTx \/ NirqTxData => Remaining' = Remaining - 1
                 /\ ~(NirqTx \/ NirqTxData) => Remaining' = Remaining
                 /\ Remaining' = 0 <=> radio_state' = "RX"
              /\ radio_state = "RX" /\ radio_state' = "TX" =>
                 Remaining' = PreambleLen + 2 * FrameBytes + PostambleLen]_vars
  <2>1. NirqTx \/ NirqTxData => Remaining' = Remaining - 1
    BY <1>2, PreambleByte, DataByte
  <2>2. radio_state = "TX" /\ ~(NirqTx \/ NirqTxData) =>
          Remaining' = Remaining /\ radio_state' = "TX"
    BY <1>2, OthersWait
  <2>3. radio_state' \in {"RX", "TX"} /\ (radio_state' = "TX" => Remaining' # 0)
    BY <1>2 DEF IInv, TypeOK, RadioTypes, BytesToCome
  <2>4. NirqTx /\ radio_state = "TX" /\ radio_state' = "RX" => Remaining' = 0
    BY DEF NirqTx, Remaining
  <2>5. NirqTxData => radio_state' = radio_state
    BY DEF NirqTxData
  <2> QED
    BY <1>2, <2>1, <2>2, <2>3, <2>4, <2>5, ClaimedFrame
<1> QED
  BY <1>1, <1>2, ProgressStep, SomeBytesToCome, Invariance, PTL
     DEF Spec, FrameAdvances

-----------------------------------------------------------------------------
(* What the callers are told, as long as they do not meet in llc_tx *)

\* The callers inside llc_tx: the holder of the mutex, and rx_thread when it
\* forwards a frame past it.
InLlc == {c \in Callers : label[c] \in {"tx", "fwd"}}

\* No forward overlaps another call of llc_tx.  With such an overlap
\* CompletionHonest is refuted by a run.
OneInLlc == \A c, d \in InLlc : c = d

\* A frame that mac.c calls FIN has gone out, and so has the frame of a caller
\* that is told so.
Honest ==
  /\ macPc = "fin" /\ state = "FIN" => packet \in aired
  /\ CompletionHonest

\* There is one caller in llc_tx and it is the owner of the packet.
LEMMA OneOwner ==
  ASSUME IInv, OneInLlc, llcPc = "mac", mpc # "poll" PROVE turn = packet
BY DEF IInv, TypeOK, PacketTypes, Places, OneInLlc, InLlc

LEMMA HonestStep ==
  ASSUME IInv, OneInLlc, Honest, [Next]_vars PROVE Honest'
<1> USE DEF IInv, Honest, CompletionHonest, TypeOK, cpuVars, callVars, llcVars,
            macVars, rfmVars, irqVars, rxVars, ghostVars
<1>1. ASSUME NEW c \in Callers, label[c] \in {"idle", "sem"}, SemWait(c),
             UNCHANGED <<llcVars, macVars>>
      PROVE  Honest'
  <2>1. macPc = "fin" => packet # c
    BY <1>1 DEF Places
  <2>2. mpc' # "done"
    BY <1>1 DEF SemWait, CallLlc, Yield
  <2> QED
    BY <1>1, <2>1, <2>2 DEF SemWait, PacketTypes
<1>2. CASE ShellSend
  BY <1>1, <1>2 DEF ShellSend, Callers
<1>3. CASE BatmanPoll
  <2>1. CASE send_ogm
    BY <1>1, <1>3, <2>1 DEF BatmanPoll, Callers
  <2>2. CASE ~send_ogm
    BY <1>3, <2>2 DEF BatmanPoll, Yield
  <2> QED
    BY <2>1, <2>2
<1>4. CASE \E c \in Callers : Resume(c)
  <2> PICK c \in Callers : Resume(c)
    BY <1>4
  <2>1. CASE label[c] = "sem" /\ SemWait(c)
    BY <1>1, <2>1 DEF Resume
  <2>2. CASE label[c] \in {"tx", "fwd"} /\ CallLlc /\ UNCHANGED <<label, aired>>
    BY <2>2 DEF Resume, CallLlc
  <2> QED
    BY <2>1, <2>2 DEF Resume
<1>5. CASE \E kind \in RxKinds : RxFrame(kind)
  <2> PICK kind \in RxKinds : RxFrame(kind)
    BY <1>5
  <2> USE DEF RxFrame
  <2>1. label["rx"] = "idle" /\ mpc = "poll" /\ UNCHANGED <<packet, macVars, llcPc>>
    BY DEF Polled
  <2>2. macPc = "fin" => packet # "rx"
    BY <2>1 DEF Places
  <2>3. CASE kind \in {"ogm", "forward"}
    <3>1. mpc' # "done" /\ aired' \in {aired, aired \ {"rx"}}
      BY <2>3 DEF SemWait, CallLlc, Yield
    <3> QED
      BY <2>1, <2>2, <3>1 DEF PacketTypes
  <2>4. CASE kind \notin {"ogm", "forward"}
    <3>1. UNCHANGED aired /\ mpc' = "poll"
      BY <2>1, <2>4 DEF Yield
    <3> QED
      BY <2>1, <3>1
  <2> QED
    BY <2>3, <2>4
<1>6. CASE LlcTx
  BY <1>6 DEF LlcTx, LlcStarts, Places, RadioTypes
<1>7. CASE LockTake
  BY <1>7 DEF LockTake, Places
<1>8. CASE Release
  BY <1>8 DEF Release, Masked, Direction
<1>9. CASE WaitFin
  <2>1. turn = packet /\ macPc = "fin"
    BY <1>9, OneOwner DEF WaitFin, Places
  <2> QED
    BY <1>9, <2>1 DEF WaitFin, FrameOut, Yield
<1>10. CASE Done
  BY <1>10 DEF Done, Yield, CallerTypes, Callers
<1>11. CASE NirqTx
  BY <1>11 DEF NirqTx, IrqEnabled, Direction
<1>12. CASE NirqTxData
  BY <1>12 DEF NirqTxData
<1>13. CASE NirqRxAny
  BY <1>13 DEF NirqRxAny, NirqRx
<1>14. CASE UNCHANGED vars
  BY <1>14 DEF vars
<1>15. CASE RxPrint
  BY <1>15 DEF RxPrint, Yield, CallerTypes, Callers
<1>16. CASE \/ ShellIdle \/ ShellTick \/ RxIdle \/ TimerPoll \/ LockCli
            \/ LockTest \/ CarrierFree \/ CarrierBusy \/ EnableTx
  BY <1>16 DEF ShellIdle, ShellTick, RxIdle, TimerPoll, LockCli, LockTest,
     CarrierFree, CarrierBusy, EnableTx, Yield
<1> QED
  BY <1>2, <1>3, <1>4, <1>5, <1>6, <1>7, <1>8, <1>9, <1>10, <1>11, <1>12,
     <1>13, <1>14, <1>15, <1>16 DEF Next, MainStep

\* The strengthening of CompletionHonest holds throughout.
LEMMA AlwaysHonest == Spec /\ []OneInLlc => []Honest
<1>1. Init => Honest
  BY DEF Init, Honest, CompletionHonest
<1>2. IInv /\ OneInLlc /\ Honest /\ [Next]_vars => Honest'
  BY HonestStep
<1> QED
  BY <1>1, <1>2, Invariance, PTL DEF Spec

\* llc_tx reports a caller's frame sent only when that frame has gone out in
\* full, in every run in which no forward overlaps another call of llc_tx: that
\* overlap is all that can make the answer wrong.
THEOREM CompletionIsHonestAlone == Spec /\ []OneInLlc => []CompletionHonest
<1>1. Honest => CompletionHonest
  BY DEF Honest
<1> QED
  BY <1>1, AlwaysHonest, PTL

\* What a step that touches one caller does to Request.
LEMMA RequestMove ==
  ASSUME label \in [Callers -> {"idle", "sem", "tx", "fwd", "print"}],
         NEW c \in Callers, NEW l \in {"idle", "sem", "tx", "fwd", "print"},
         label' = [label EXCEPT ![c] = l],
         \A d \in Callers \ {c} : d \in aired' <=> d \in aired
  PROVE  /\ l \in {"idle", "print"} => Request' = [Request EXCEPT ![c] = "idle"]
         /\ l = "sem" => Request' = [Request EXCEPT ![c] = "waiting"]
         /\ l \in {"tx", "fwd"} /\ c \notin aired' =>
              Request' = [Request EXCEPT ![c] = "sending"]
BY DEF Request

LEMMA RequestSame ==
  UNCHANGED <<label, aired>> => Request' = Request
BY DEF Request

\* The callers TxService sees served are those inside llc_tx.
LEMMA ServedIsInLlc ==
  ASSUME label \in [Callers -> {"idle", "sem", "tx", "fwd", "print"}]
  PROVE  TS!Served = InLlc
<1>1. ASSUME NEW c \in Callers
      PROVE  Request[c] \in {"sending", "sent"} <=> label[c] \in {"tx", "fwd"}
  BY <1>1 DEF Request
<1> QED
  BY <1>1 DEF TS!Served, InLlc

\* A caller that enters llc_tx without an overlap finds nobody there.
LEMMA EntersAlone ==
  ASSUME label \in [Callers -> {"idle", "sem", "tx", "fwd", "print"}],
         OneInLlc', NEW c \in Callers, label[c] \in {"idle", "sem"},
         label'[c] \in {"tx", "fwd"},
         \A d \in Callers \ {c} : label'[d] = label[d]
  PROVE  TS!Served = {}
BY ServedIsInLlc DEF OneInLlc, InLlc

\* PT_SEM_WAIT is where a request is queued or started.
LEMMA SemWaitServes ==
  ASSUME IInv, OneInLlc', NEW c \in Callers, label[c] \in {"idle", "sem"},
         SemWait(c)
  PROVE  [TS!Next]_Request
<1> USE DEF SemWait, SemFree, TS!Next, TS!Move
<1>0. /\ label \in [Callers -> {"idle", "sem", "tx", "fwd", "print"}]
      /\ mutex \in 0 .. 1
  BY DEF IInv, TypeOK, CallerTypes
<1>1. CASE SemFree
  <2>1. TS!Served = {}
    BY <1>0, <1>1, EntersAlone
  <2>2. Request' = [Request EXCEPT ![c] = "sending"]
    BY <1>0, <1>1, RequestMove
  <2>3. Request[c] \in {"idle", "waiting"}
    BY DEF Request
  <2> QED
    BY <2>1, <2>2, <2>3 DEF TS!Start
<1>2. CASE ~SemFree
  <2>1. TS!Served # {}
    BY <1>0, <1>2, ServedIsInLlc DEF IInv, BatmanExclusive, Guarded, InLlc
  <2>2. Request' = [Request EXCEPT ![c] = "waiting"]
    BY <1>0, <1>2, RequestMove
  <2>3. CASE label[c] = "idle"
    <3>1. Request[c] = "idle"
      BY <2>3 DEF Request
    <3> QED
      BY <2>1, <2>2, <3>1 DEF TS!Queue
  <2>4. CASE label[c] = "sem"
    <3>1. label' = label /\ aired' = aired
      BY <1>0, <1>2, <2>4
    <3> QED
      BY <3>1, RequestSame
  <2> QED
    BY <2>3, <2>4
<1> QED
  BY <1>1, <1>2

\* Every step queues, starts, airs or answers a request, or moves none.
LEMMA RequestStep ==
  ASSUME IInv, Honest, OneInLlc', [Next]_vars PROVE [TS!Next]_Request
<1> USE DEF callVars, ghostVars
<1>0. label \in [Callers -> {"idle", "sem", "tx", "fwd", "print"}]
  BY DEF IInv, TypeOK, CallerTypes
<1>1. CASE ShellSend
  BY <1>1, SemWaitServes DEF ShellSend, Callers
<1>2. CASE BatmanPoll
  <2>1. CASE send_ogm
    BY <1>2, <2>1, SemWaitServes DEF BatmanPoll, Callers
  <2>2. CASE ~send_ogm
    BY <1>2, <2>2, RequestSame DEF BatmanPoll
  <2> QED
    BY <2>1, <2>2
<1>3. CASE \E c \in Callers : Resume(c)
  BY <1>3, SemWaitServes, RequestSame DEF Resume
<1>4. CASE \E kind \in RxKinds : RxFrame(kind)
  <2> PICK kind \in RxKinds : RxFrame(kind)
    BY <1>4
  <2>1. label["rx"] = "idle"
    BY DEF RxFrame
  <2>2. CASE kind = "ogm"
    BY <2>1, <2>2, SemWaitServes DEF RxFrame, Callers
  <2>3. CASE kind = "mine"
    <3>1. label' = [label EXCEPT !["rx"] = "print"] /\ aired' = aired
      BY <2>3 DEF RxFrame
    <3>2. Request' = [Request EXCEPT !["rx"] = "idle"]
      BY <1>0, <3>1, RequestMove DEF Callers
    <3>3. Request["rx"] = "idle"
      BY <2>1 DEF Request, Callers
    <3> QED
      BY <3>2, <3>3 DEF Request
  <2>4. CASE kind = "forward"
    <3>1. label' = [label EXCEPT !["rx"] = "fwd"] /\ aired' = aired \ {"rx"}
      BY <2>4 DEF RxFrame
    <3>2. TS!Served = {}
      BY <1>0, <2>1, <3>1, EntersAlone DEF Callers
    <3>3. Request' = [Request EXCEPT !["rx"] = "sending"]
      BY <1>0, <3>1, RequestMove DEF Callers
    <3>4. Request["rx"] = "idle"
      BY <2>1 DEF Request, Callers
    <3> QED
      BY <3>2, <3>3, <3>4 DEF TS!Next, TS!Start, TS!Move, Callers
  <2>5. CASE kind \notin {"ogm", "mine", "forward"}
    BY <2>1, <2>5, RequestSame DEF RxFrame
  <2> QED
    BY <2>2, <2>3, <2>4, <2>5
<1>5. CASE RxPrint
  <2>1. CASE label' = label
    BY <1>5, <2>1, RequestSame DEF RxPrint
  <2>2. CASE label' = [label EXCEPT !["rx"] = "idle"]
    <3>1. label["rx"] = "print" /\ aired' = aired
      BY <1>5 DEF RxPrint
    <3>2. Request' = [Request EXCEPT !["rx"] = "idle"]
      BY <1>0, <2>2, <3>1, RequestMove DEF Callers
    <3>3. Request["rx"] = "idle"
      BY <3>1 DEF Request, Callers
    <3> QED
      BY <3>2, <3>3 DEF Request
  <2> QED
    BY <1>5, <2>1, <2>2 DEF RxPrint
<1>6. CASE Done
  <2>1. turn \in Callers /\ label[turn] \in {"tx", "fwd"} /\ turn \in aired
    BY <1>6 DEF Done, IInv, Places, Honest, CompletionHonest
  <2>2. label' = [label EXCEPT ![turn] = "idle"] /\ aired' = aired
    BY <1>6 DEF Done
  <2>3. Request[turn] = "sent"
    BY <2>1 DEF Request
  <2>4. Request' = [Request EXCEPT ![turn] = "idle"]
    BY <1>0, <2>1, <2>2, RequestMove
  <2> QED
    BY <2>1, <2>3, <2>4 DEF TS!Next, TS!Answer, TS!Move
<1>7. CASE NirqTx
  <2>1. label' = label /\ aired' \in {aired, aired \union {packet}}
    BY <1>7 DEF NirqTx
  <2>2. packet \in Callers /\ label[packet] \in {"tx", "fwd"}
    BY <1>7 DEF NirqTx, IInv, TypeOK, PacketTypes, Places, Direction
  <2>3. CASE aired' = aired
    BY <2>1, <2>3, RequestSame
  <2>4. CASE aired' = aired \union {packet} /\ packet \notin aired
    <3>1. Request[packet] = "sending"
      BY <2>2, <2>4 DEF Request
    <3>2. Request' = [Request EXCEPT ![packet] = "sent"]
      BY <2>1, <2>2, <2>4 DEF Request
    <3> QED
      BY <2>2, <3>1, <3>2 DEF TS!Next, TS!Air, TS!Move
  <2> QED
    BY <2>1, <2>3, <2>4
<1>8. CASE NirqTxData \/ NirqRxAny \/ UNCHANGED vars
  BY <1>8, RequestSame DEF NirqTxData, NirqRxAny, NirqRx, vars
<1>9. CASE \/ ShellIdle \/ ShellTick \/ RxIdle \/ TimerPoll \/ LlcTx
           \/ LockCli \/ LockTest \/ LockTake \/ CarrierFree \/ CarrierBusy
           \/ EnableTx \/ Release \/ WaitFin
  BY <1>9, RequestSame DEF ShellIdle, ShellTick, RxIdle, TimerPoll, LlcTx,
     LockCli, LockTest, LockTake, CarrierFree, CarrierBusy, EnableTx, Release,
     WaitFin
<1> QED
  BY <1>1, <1>2, <1>3, <1>4, <1>5, <1>6, <1>7, <1>8, <1>9 DEF Next, MainStep

\* Refinement: the three threads that share batman.c's mutex and llc_tx are
\* served one at a time, each is answered after its own frame, and each frame
\* goes out once, in every run in which no forward overlaps another call.
THEOREM RequestsAreServedAlone == Spec /\ []OneInLlc => ImplementsTxService
<1>1. Init => TS!Init
  BY DEF Init, TS!Init, Request
<1>2. IInv /\ Honest /\ OneInLlc' /\ [Next]_vars => [TS!Next]_Request
  BY RequestStep
<1> QED
  BY <1>1, <1>2, AlwaysHonest, Invariance, PTL
     DEF Spec, ImplementsTxService, TS!Spec

-----------------------------------------------------------------------------
(* The length of a forwarded frame *)

\* What DataLen makes of the length a forward came in with.
Grown == (BATMAN_HEADER_SIZE + rcvLen) % LenMod

\* The buffer of a forward holds the length it came in with until llc_tx starts
\* on it, and the grown one from then on.
Growing ==
  label["rx"] = "fwd" =>
    IF llcPc = "mac" /\ packet = "rx" THEN len["rx"] = Grown
    ELSE mpc = "done" \/ len["rx"] = rcvLen

\* Only RxFrame("forward") lets a caller into llc_tx without the mutex, and the
\* caller is rx_thread.
LEMMA WhoForwards ==
  ASSUME TypeOK, [Next]_vars, NEW f \in Callers, label[f] # "fwd",
         label'[f] = "fwd"
  PROVE  f = "rx" /\ "forward" \in RxKinds
<1> USE DEF TypeOK, CallerTypes, callVars, ghostVars
<1>1. ASSUME NEW c \in Callers, SemWait(c) PROVE label'[f] # "fwd"
  BY <1>1 DEF SemWait
<1>2. CASE \E kind \in RxKinds : RxFrame(kind)
  <2> PICK kind \in RxKinds : RxFrame(kind)
    BY <1>2
  <2>1. ~SemWait("rx")
    BY <1>1 DEF Callers
  <2> QED
    BY <2>1 DEF RxFrame
<1>3. CASE ShellSend \/ BatmanPoll \/ \E c \in Callers : Resume(c)
  BY <1>1, <1>3 DEF ShellSend, BatmanPoll, Resume, Callers
<1>4. CASE RxPrint \/ Done
  BY <1>4 DEF RxPrint, Done
<1>5. CASE \/ NirqTx \/ NirqTxData \/ NirqRxAny \/ UNCHANGED vars
           \/ ShellIdle \/ ShellTick \/ RxIdle \/ TimerPoll \/ LlcTx
           \/ LockCli \/ LockTest \/ LockTake \/ CarrierFree \/ CarrierBusy
           \/ EnableTx \/ Release \/ WaitFin
  BY <1>5 DEF NirqTx, NirqTxData, NirqRxAny, NirqRx, vars, ShellIdle,
     ShellTick, RxIdle, TimerPoll, LlcTx, LockCli, LockTest, LockTake,
     CarrierFree, CarrierBusy, EnableTx, Release, WaitFin
<1> QED
  BY <1>2, <1>3, <1>4, <1>5 DEF Next, MainStep

LEMMA GrowingStep ==
  ASSUME IInv, OneInLlc, Growing, [Next]_vars PROVE Growing'
<1> USE DEF IInv, Growing, Grown, TypeOK, cpuVars, callVars, llcVars, macVars,
            rfmVars, irqVars, rxVars, ghostVars
<1>0. label \in [Callers -> {"idle", "sem", "tx", "fwd", "print"}]
  BY DEF CallerTypes
<1>1. ASSUME NEW c \in Callers, mpc = "poll", SemWait(c),
             UNCHANGED <<llcVars, rcvLen>>
      PROVE  Growing'
  <2>1. label'["rx"] = "fwd" => label["rx"] = "fwd"
    BY <1>0, <1>1 DEF SemWait, Callers
  <2> QED
    BY <1>1, <2>1
<1>2. CASE ShellSend
  BY <1>1, <1>2 DEF ShellSend, Polled, Callers
<1>3. CASE BatmanPoll
  <2>1. CASE send_ogm
    BY <1>1, <1>3, <2>1 DEF BatmanPoll, Polled, Callers
  <2>2. CASE ~send_ogm
    BY <1>3, <2>2 DEF BatmanPoll, Polled
  <2> QED
    BY <2>1, <2>2
<1>4. CASE \E c \in Callers : Resume(c)
  <2> PICK c \in Callers : Resume(c)
    BY <1>4
  <2>1. CASE label[c] = "sem" /\ SemWait(c)
    BY <1>1, <2>1 DEF Resume, Polled
  <2>2. CASE UNCHANGED label
    BY <2>2 DEF Resume, Polled
  <2> QED
    BY <2>1, <2>2 DEF Resume
<1>5. CASE \E kind \in RxKinds : RxFrame(kind)
  <2> PICK kind \in RxKinds : RxFrame(kind)
    BY <1>5
  <2>1. /\ label["rx"] = "idle" /\ UNCHANGED <<packet, llcPc>>
        /\ "rx" \in Callers
    BY DEF RxFrame, Polled, Callers
  <2>2. CASE kind = "forward"
    <3>1. ~(llcPc = "mac" /\ packet = "rx")
      BY <2>1 DEF Places
    <3>2. len'["rx"] = rcvLen'
      BY <2>1, <2>2 DEF RxFrame, PacketTypes
    <3> QED
      BY <2>1, <3>1, <3>2
  <2>3. CASE kind # "forward"
    <3>1. label'["rx"] # "fwd"
      BY <1>0, <2>1, <2>3 DEF RxFrame, SemWait
    <3> QED
      BY <3>1
  <2> QED
    BY <2>2, <2>3
<1>6. CASE LlcTx
  <2>1. label["rx"] = "fwd" => turn = "rx" /\ mpc = "llc"
    BY <1>6 DEF LlcTx, Places, OneInLlc, InLlc, Callers
  <2>2. CASE llcPc = "start"
    <3>1. label["rx"] = "fwd" => len["rx"] = rcvLen
      BY <2>1, <2>2
    <3>2. label["rx"] = "fwd" => DataLen("rx") = Grown
      BY <3>1 DEF DataLen
    <3>3. label["rx"] = "fwd" => len'["rx"] = Grown
      BY <1>6, <2>1, <2>2, <3>2 DEF LlcTx, LlcStarts, PacketTypes, Callers
    <3> QED
      BY <1>6, <2>1, <2>2, <3>3 DEF LlcTx, LlcStarts
  <2>3. CASE llcPc # "start"
    <3>1. llcPc = "mac" /\ (label["rx"] = "fwd" => turn = packet)
      BY <1>6, <2>3, OneOwner DEF LlcTx, PacketTypes
    <3> QED
      BY <1>6, <2>1, <2>3, <3>1 DEF LlcTx, LlcStarts
  <2> QED
    BY <2>2, <2>3
<1>7. CASE WaitFin
  BY <1>7 DEF WaitFin, FrameOut, Yield
<1>8. CASE Done
  <2>1. label["rx"] = "fwd" => turn = "rx"
    BY <1>8 DEF Done, Places, OneInLlc, InLlc, Callers
  <2>2. label'["rx"] # "fwd"
    BY <1>0, <1>8, <2>1 DEF Done, Callers
  <2> QED
    BY <2>2
<1>9. CASE RxPrint
  BY <1>0, <1>9 DEF RxPrint, Polled, Callers
<1>10. CASE NirqTx \/ NirqTxData
  BY <1>10 DEF NirqTx, NirqTxData
<1>11. CASE NirqRxAny
  BY <1>11 DEF NirqRxAny, NirqRx
<1>12. CASE UNCHANGED vars
  BY <1>12 DEF vars
<1>13. CASE ShellIdle \/ ShellTick \/ RxIdle \/ TimerPoll
  BY <1>13 DEF ShellIdle, ShellTick, RxIdle, TimerPoll, Polled
<1>14. CASE \/ LockCli \/ LockTest \/ LockTake \/ CarrierFree \/ CarrierBusy
            \/ EnableTx \/ Release
  BY <1>14 DEF LockCli, LockTest, LockTake, CarrierFree, CarrierBusy, EnableTx,
     Release
<1> QED
  BY <1>2, <1>3, <1>4, <1>5, <1>6, <1>7, <1>8, <1>9, <1>10, <1>11, <1>12,
     <1>13, <1>14 DEF Next, MainStep

\* A forwarded frame goes out longer than it came in by exactly one header,
\* modulo the bit field of llc->len: that is the whole of what LengthKept's
\* refutation shows, in every run in which the forward overlaps no other call of
\* llc_tx.
THEOREM ForwardGrowsByHeader ==
  Spec /\ []OneInLlc =>
    [](radio_state = "TX" /\ label[packet] = "fwd" => len[packet] = Grown)
<1> DEFINE OnlyRx == \A c \in Callers \ {"rx"} : label[c] # "fwd"
<1>1. Init => Growing /\ OnlyRx
  BY DEF Init, Growing, Callers
<1>2. IInv /\ OneInLlc /\ Growing /\ [Next]_vars => Growing'
  BY GrowingStep
<1>3. IInv /\ OnlyRx /\ [Next]_vars => OnlyRx'
  BY WhoForwards DEF IInv
<1>4. IInv /\ OnlyRx /\ Growing =>
        (radio_state = "TX" /\ label[packet] = "fwd" => len[packet] = Grown)
  <2> SUFFICES ASSUME IInv, OnlyRx, Growing, radio_state = "TX",
                      label[packet] = "fwd"
               PROVE  len[packet] = Grown
    OBVIOUS
  <2>1. llcPc = "mac"
    BY DEF IInv, Direction, Places
  <2>2. packet = "rx"
    BY DEF IInv, TypeOK, PacketTypes
  <2> QED
    BY <2>1, <2>2 DEF Growing
<1> QED
  BY <1>1, <1>2, <1>3, <1>4, Invariance, PTL DEF Spec

-----------------------------------------------------------------------------
(* On a node that forwards nothing the mutex alone keeps the callers apart *)

\* The node is never the gateway of a unicast frame in transit.
NeverForwards == "forward" \notin RxKinds

NobodyForwards == \A c \in Callers : label[c] # "fwd"

\* Then whoever is inside llc_tx holds the mutex.
LEMMA NeverTwoInLlc == ASSUME NeverForwards PROVE Spec => []OneInLlc
<1>1. Init => NobodyForwards
  BY DEF Init, NobodyForwards
<1>2. ASSUME IInv, NobodyForwards, [Next]_vars PROVE NobodyForwards'
  <2> SUFFICES ASSUME NEW c \in Callers PROVE label'[c] # "fwd"
    BY DEF NobodyForwards
  <2> QED
    BY <1>2, WhoForwards DEF IInv, NobodyForwards, NeverForwards
<1>3. IInv /\ NobodyForwards => OneInLlc
  BY DEF IInv, NobodyForwards, OneInLlc, InLlc, BatmanExclusive, Guarded
<1> QED
  BY <1>1, <1>2, <1>3, Invariance, PTL DEF Spec

\* On a node that forwards nothing, llc_tx reports a caller's frame sent only
\* when that frame has gone out in full.
THEOREM CompletionIsHonest ==
  ASSUME NeverForwards PROVE Spec => []CompletionHonest
BY CompletionIsHonestAlone, NeverTwoInLlc, PTL

\* Refinement: on a node that forwards nothing, requests to transmit are served
\* one at a time and each is answered after its own frame.
THEOREM RequestsAreServed ==
  ASSUME NeverForwards PROVE Spec => ImplementsTxService
BY RequestsAreServedAlone, NeverTwoInLlc, PTL
=============================================================================
