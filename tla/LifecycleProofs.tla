-------------------------- MODULE LifecycleProofs --------------------------
(***************************************************************************)
(* Theorems about Lifecycle for any length of the second, any timeout of   *)
(* the watchdog that fits in it with the way from watchdog() to the poll   *)
(* of the timer, any errors, settings and number of power failures.        *)
(***************************************************************************)
EXTENDS Lifecycle, TLAPS

\* Where the ticks of a pending second come from: since the last poll of
\* timer_thread, or also the round of the loop before watchdog().
Pending ==
  /\ pc \in Boot => behind = 0
  /\ pc \notin {"start", "read"} => wd # Off
  /\ pc \in Loop \ {"timer"} => (second_notify => timer_cnt < wd)
  /\ pc = "timer" => wd <= PollTicks
                     /\ (second_notify => timer_cnt < Wdto + wd)

\* How far writing and erasing the report have come.
Written ==
  /\ pc \in {"start", "read"} => step = 1
  /\ pc = "erase" => \A c \in Cells : c < step => report[c] = Erased
  /\ pc = "error" => \A c \in Cells : c < step => report[c] = stopped
  /\ pc = "init" => report = Blank
  /\ whole = "written" => pc \in {"hang", "start", "read"}
  /\ whole = "read" => pc \in {"erase", "init"} \union Loop

\* The settings main_init has read, and the word config_set is writing.
Underway ==
  /\ pc \in Boot \ {"start"} => settings = eemem
  /\ pc \in Setting => settings[arg.index] = arg.value
                       /\ wanted[arg.index] = arg.value
  /\ pc = "config_lo" => eemem[arg.index] = before[arg.index]
  /\ pc = "config_hi" => eemem[arg.index] = Torn(arg.index)

Time == Pending /\ SecondsCounted
Report == Written /\ ErrorReported
Settings == Underway /\ SettingsSurvive

\* A timeout is at least one tick, and no longer than a second.
LEMMA Ticks ==
  /\ Second \in Nat /\ Wdto \in Nat /\ PollTicks \in Nat
  /\ 1 <= Wdto /\ Wdto <= Second
BY TimeAssumption

\* The initial states satisfy everything.
LEMMA InitInv == Init => TypeOK /\ Time /\ Report /\ Settings
<1> SUFFICES ASSUME Init PROVE TypeOK /\ Time /\ Report /\ Settings
    OBVIOUS
<1> USE DEF Init, Boot, Loop, Setting, Stop
<1>1. TypeOK
  <2>1. timer_cnt \in 0 .. Second - 1
    BY Ticks
  <2>2. failures \in 0 .. PowerLosses
    BY DataAssumption
  <2>3. settings \in [Configs -> Word] /\ wanted \in [Configs -> Word]
        /\ before \in [Configs -> Word]
    BY DataAssumption DEF Cleared, Word
  <2>4. report \in [Cells -> Errors \union {Erased}]
        /\ last \in [Cells -> Errors \union {Erased}]
    BY DEF Blank
  <2>5. second_notify \in BOOLEAN
    OBVIOUS
  <2> QED
    BY <2>1, <2>2, <2>3, <2>4, <2>5 DEF TypeOK, Cells
<1>2. Time
  BY DEF Time, Pending, SecondsCounted, Off
<1>3. Report
  BY DEF Report, Written, ErrorReported, OneError, Blank, Cells
<1>4. Settings
  BY DEF Settings, Underway, SettingsSurvive
<1> QED
  BY <1>1, <1>2, <1>3, <1>4

-----------------------------------------------------------------------------
\* Every step keeps the variables in their types.
LEMMA TypeStep == TypeOK /\ [Next]_vars => TypeOK'
<1> SUFFICES ASSUME TypeOK, [Next]_vars PROVE TypeOK'
    OBVIOUS
<1> USE Ticks, DataAssumption DEF Boot, Loop, Setting, Stop, Off,
      timeVars, reportVars, configVars
<1>1. ASSUME Reset, failures' \in 0 .. PowerLosses PROVE TypeOK'
  <2>1. timer_cnt' \in 0 .. Second - 1
    BY <1>1 DEF Reset
  <2>2. settings' \in [Configs -> Word]
    BY <1>1 DEF Reset, Cleared, Word
  <2>3. last' \in [Cells -> Errors \union {Erased}]
    BY <1>1 DEF Reset, Blank
  <2>4. second_notify' \in BOOLEAN
    BY <1>1 DEF Reset
  <2> QED
    BY <1>1, <2>1, <2>2, <2>3, <2>4 DEF Reset, TypeOK, Cells
<1>2. CASE WatchdogReset
  BY <1>1, <1>2 DEF WatchdogReset, TypeOK
<1>3. CASE PowerLoss
  <2>1. failures' \in 0 .. PowerLosses
    BY <1>3 DEF PowerLoss, TypeOK
  <2> QED
    BY <1>1, <1>3, <2>1 DEF PowerLoss
<1>4. CASE ConfigInit
  BY <1>4 DEF ConfigInit, TypeOK
<1>5. CASE WatchdogRead
  BY <1>5 DEF WatchdogRead, WdtInit, TypeOK, Cells
<1>6. CASE WatchdogErase
  BY <1>6 DEF WatchdogErase, LastErased, TypeOK, Cells
<1>7. CASE RestOfInit
  <2>1. timer_cnt' \in 0 .. Second - 1
    BY <1>7 DEF RestOfInit
  <2> QED
    BY <1>7, <2>1 DEF RestOfInit, TypeOK
<1>8. CASE Watchdog
  BY <1>8 DEF Watchdog, TypeOK
<1>9. CASE TimerThread
  BY <1>9 DEF TimerThread, TypeOK
<1>10. CASE Callbacks
  BY <1>10 DEF Callbacks, TypeOK
<1>11. CASE ConfigWriteLo
  <2>1. eemem' \in [Configs -> Word]
    BY <1>11 DEF ConfigWriteLo, TypeOK, Argument, Word
  <2> QED
    BY <1>11, <2>1 DEF ConfigWriteLo, TypeOK
<1>12. CASE ConfigWriteHi
  <2>1. eemem' \in [Configs -> Word] /\ before' \in [Configs -> Word]
    BY <1>12 DEF ConfigWriteHi, HiStored, TypeOK, Argument, Word
  <2> QED
    BY <1>12, <2>1 DEF ConfigWriteHi, HiStored, TypeOK
<1>13. CASE WatchdogError
  <2>1. report' \in [Cells -> Errors \union {Erased}]
    BY <1>13 DEF WatchdogError, TypeOK
  <2>2. step' \in Cells
    BY <1>13 DEF WatchdogError, TypeOK, Cells
  <2> QED
    BY <1>13, <2>1, <2>2 DEF WatchdogError, TypeOK
<1>14. CASE Tick
  <2>1. timer_cnt' \in 0 .. Second - 1 /\ second_notify' \in BOOLEAN
        /\ behind' \in Int
    <3>1. CASE Overflow
      <4>1. timer_cnt' \in 0 .. Second - 1
        BY <3>1 DEF Overflow, TypeOK
      <4>2. second_notify' \in BOOLEAN
        BY <3>1 DEF Overflow, TypeOK
      <4>3. behind' \in Int
        BY <3>1 DEF Overflow, TypeOK
      <4> QED
        BY <4>1, <4>2, <4>3
    <3>2. CASE UNCHANGED <<timer_cnt, second_notify, behind>>
      BY <3>2 DEF TypeOK
    <3> QED
      BY <1>14, <3>1, <3>2 DEF Tick
  <2>2. wd' \in 0 .. Wdto
    BY <1>14 DEF Tick, TypeOK
  <2> QED
    BY <1>14, <2>1, <2>2 DEF Tick, TypeOK
<1>15. ASSUME NEW i \in Configs, NEW v \in Word, ConfigSet(i, v) PROVE TypeOK'
  BY <1>15 DEF ConfigSet, TypeOK, Argument
<1>16. ASSUME NEW e \in Errors, Raise(e) PROVE TypeOK'
  BY <1>16 DEF Raise, TypeOK, Cells
<1>17. CASE UNCHANGED vars
  BY <1>17 DEF vars, TypeOK
<1> QED
  BY <1>2, <1>3, <1>4, <1>5, <1>6, <1>7, <1>8, <1>9, <1>10, <1>11, <1>12,
     <1>13, <1>14, <1>15, <1>16, <1>17 DEF Next, BootStep, LoopStep
-----------------------------------------------------------------------------
\* No step lets a second go uncounted.  A pending second is no older than one
\* timeout and the way from watchdog() to the poll, so the next has not come.
LEMMA TimeStep == TypeOK /\ Time /\ [Next]_vars => Time'
<1> SUFFICES ASSUME TypeOK, Time, [Next]_vars PROVE Time'
    OBVIOUS
<1> USE DEF Time, Pending, SecondsCounted, Boot, Loop, Setting, Stop, Off,
      timeVars, reportVars, configVars
<1>1. CASE WatchdogReset \/ PowerLoss
  BY <1>1 DEF WatchdogReset, PowerLoss, Reset
<1>2. CASE ConfigInit
  BY <1>2 DEF ConfigInit
<1>3. CASE WatchdogRead
  BY <1>3 DEF WatchdogRead, WdtInit
<1>4. CASE WatchdogErase
  BY <1>4 DEF WatchdogErase
<1>5. CASE RestOfInit
  BY <1>5 DEF RestOfInit
<1>6. CASE Watchdog
  BY <1>6, Ticks DEF Watchdog, TypeOK
<1>7. CASE TimerThread
  BY <1>7 DEF TimerThread
<1>8. CASE Callbacks
  BY <1>8 DEF Callbacks, TypeOK
<1>9. CASE ConfigWriteLo
  BY <1>9 DEF ConfigWriteLo
<1>10. CASE ConfigWriteHi
  BY <1>10 DEF ConfigWriteHi, HiStored
<1>11. CASE WatchdogError
  BY <1>11 DEF WatchdogError
<1>12. CASE Tick
  <2>1. CASE pc \notin Loop
    BY <1>12, <2>1 DEF Tick, TypeOK
  <2>2. CASE pc \in Loop /\ timer_cnt + 1 # Second
    <3>1. /\ timer_cnt' = timer_cnt + 1 /\ wd' = wd + 1
          /\ pc = "timer" => wd < PollTicks
          /\ wd \in Int /\ wd' # Off /\ timer_cnt \in Int
      BY <1>12, <2>2, Ticks DEF Tick, Overflow, TypeOK
    <3>2. UNCHANGED <<pc, second_notify, behind>>
      BY <1>12, <2>2 DEF Tick, Overflow
    <3> QED
      BY <2>2, <3>1, <3>2, Ticks
  <2>3. CASE pc \in Loop /\ timer_cnt + 1 = Second
    <3>1. /\ wd \in 0 .. Wdto - 1 /\ wd' = wd + 1 /\ pc' = pc
          /\ pc = "timer" => wd < PollTicks
      BY <1>12, Ticks DEF Tick, TypeOK
    <3>2. ~second_notify
      <4>1. timer_cnt = Second - 1
        BY <2>3, Ticks DEF TypeOK
      <4>2. CASE pc = "timer"
        <5>1. second_notify => timer_cnt < Wdto + wd
          BY <4>2
        <5> QED
          BY <4>1, <4>2, <5>1, <3>1, TimeAssumption
      <4>3. CASE pc # "timer"
        <5>1. second_notify => timer_cnt < wd
          BY <2>3, <4>3
        <5> QED
          BY <4>1, <5>1, <3>1, Ticks
      <4> QED
        BY <4>2, <4>3
    <3>3. /\ timer_cnt' = 0 /\ second_notify' = TRUE
          /\ behind' = behind + 1
      BY <1>12, <2>3 DEF Tick, Overflow
    <3> QED
      BY <2>3, <3>1, <3>2, <3>3, Ticks DEF TypeOK
  <2> QED
    BY <2>1, <2>2, <2>3
<1>13. ASSUME NEW i \in Configs, NEW v \in Word, ConfigSet(i, v) PROVE Time'
  BY <1>13 DEF ConfigSet
<1>14. ASSUME NEW e \in Errors, Raise(e) PROVE Time'
  BY <1>14 DEF Raise
<1>15. CASE UNCHANGED vars
  BY <1>15 DEF vars
<1> QED
  BY <1>1, <1>2, <1>3, <1>4, <1>5, <1>6, <1>7, <1>8, <1>9, <1>10, <1>11,
     <1>12, <1>13, <1>14, <1>15 DEF Next, BootStep, LoopStep

-----------------------------------------------------------------------------
\* No step mixes two errors in a report.
LEMMA ReportStep == TypeOK /\ Report /\ [Next]_vars => Report'
<1> SUFFICES ASSUME TypeOK, Report, [Next]_vars PROVE Report'
    OBVIOUS
<1> USE DEF Report, Written, ErrorReported, OneError, AllOf, Boot, Loop,
      Setting, Stop, timeVars, reportVars, configVars
<1>1. CASE WatchdogReset \/ PowerLoss
  BY <1>1 DEF WatchdogReset, PowerLoss, Reset, Blank
<1>2. CASE ConfigInit
  BY <1>2 DEF ConfigInit
<1>3. CASE WatchdogRead
  BY <1>3 DEF WatchdogRead, Cells
<1>4. CASE WatchdogErase
  <2>1. report' \in [Cells -> Errors \union {Erased}]
        /\ \A c \in Cells : c <= step => report'[c] = Erased
    BY <1>4 DEF WatchdogErase, TypeOK, Cells
  <2>2. CASE step = 4
    <3>1. report' = Blank
      BY <2>1, <2>2 DEF Blank, Cells
    <3> QED
      BY <1>4, <2>2, <3>1 DEF WatchdogErase, LastErased, Blank
  <2>3. CASE step # 4
    BY <1>4, <2>1, <2>3 DEF WatchdogErase, LastErased, TypeOK, Cells
  <2> QED
    BY <2>2, <2>3
<1>5. CASE RestOfInit
  BY <1>5 DEF RestOfInit
<1>6. CASE Watchdog
  BY <1>6 DEF Watchdog
<1>7. CASE TimerThread
  BY <1>7 DEF TimerThread
<1>8. CASE Callbacks
  BY <1>8 DEF Callbacks
<1>9. CASE ConfigWriteLo
  BY <1>9 DEF ConfigWriteLo
<1>10. CASE ConfigWriteHi
  BY <1>10 DEF ConfigWriteHi, HiStored
<1>11. CASE WatchdogError
  BY <1>11 DEF WatchdogError, TypeOK, Cells
<1>12. CASE Tick
  BY <1>12 DEF Tick
<1>13. ASSUME NEW i \in Configs, NEW v \in Word, ConfigSet(i, v) PROVE Report'
  BY <1>13 DEF ConfigSet
<1>14. ASSUME NEW e \in Errors, Raise(e) PROVE Report'
  BY <1>14 DEF Raise, Blank, Cells
<1>15. CASE UNCHANGED vars
  BY <1>15 DEF vars
<1> QED
  BY <1>1, <1>2, <1>3, <1>4, <1>5, <1>6, <1>7, <1>8, <1>9, <1>10, <1>11,
     <1>12, <1>13, <1>14, <1>15 DEF Next, BootStep, LoopStep

-----------------------------------------------------------------------------
\* No step loses a setting but the one it is writing.
LEMMA SettingStep == TypeOK /\ Settings /\ [Next]_vars => Settings'
<1> SUFFICES ASSUME TypeOK, Settings, [Next]_vars PROVE Settings'
    OBVIOUS
<1> USE DEF Settings, Underway, SettingsSurvive, Torn, Boot, Loop,
      Setting, Stop, timeVars, reportVars, configVars
<1>1. CASE WatchdogReset \/ PowerLoss
  BY <1>1 DEF WatchdogReset, PowerLoss, Reset
<1>2. CASE ConfigInit
  BY <1>2 DEF ConfigInit
<1>3. CASE WatchdogRead
  BY <1>3 DEF WatchdogRead
<1>4. CASE WatchdogErase
  BY <1>4 DEF WatchdogErase
<1>5. CASE RestOfInit
  BY <1>5 DEF RestOfInit
<1>6. CASE Watchdog
  BY <1>6 DEF Watchdog
<1>7. CASE TimerThread
  BY <1>7 DEF TimerThread
<1>8. CASE Callbacks
  BY <1>8 DEF Callbacks
<1>9. CASE ConfigWriteLo
  BY <1>9 DEF ConfigWriteLo, TypeOK, Argument, Word
<1>10. CASE ConfigWriteHi
  BY <1>10 DEF ConfigWriteHi, HiStored, TypeOK, Argument, Word
<1>11. CASE WatchdogError
  BY <1>11 DEF WatchdogError
<1>12. CASE Tick
  BY <1>12 DEF Tick
<1>13. ASSUME NEW i \in Configs, NEW v \in Word, ConfigSet(i, v) PROVE Settings'
  BY <1>13 DEF ConfigSet, TypeOK
<1>14. ASSUME NEW e \in Errors, Raise(e) PROVE Settings'
  BY <1>14 DEF Raise
<1>15. CASE UNCHANGED vars
  BY <1>15 DEF vars
<1> QED
  BY <1>1, <1>2, <1>3, <1>4, <1>5, <1>6, <1>7, <1>8, <1>9, <1>10, <1>11,
     <1>12, <1>13, <1>14, <1>15 DEF Next, BootStep, LoopStep

-----------------------------------------------------------------------------
\* Whatever fails when, the variables keep their types.
THEOREM TypeCorrect == Spec => []TypeOK
BY InitInv, TypeStep, PTL DEF Spec

\* The clock never misses a second, for any timeout of at most half a second
\* and any time the threads take.
THEOREM ClockRight == Spec => []SecondsCounted
<1>1. Time => SecondsCounted
  BY DEF Time
<1> QED
  BY <1>1, InitInv, TypeStep, TimeStep, PTL DEF Spec

\* A report is of one error, the one that ended the last run.
THEOREM ReportRight == Spec => []ErrorReported
<1>1. Report => ErrorReported
  BY DEF Report
<1> QED
  BY <1>1, InitInv, TypeStep, ReportStep, PTL DEF Spec

\* Settings survive every reset, but for the word being written.
THEOREM SettingsRight == Spec => []SettingsSurvive
<1>1. Settings => SettingsSurvive
  BY DEF Settings
<1> QED
  BY <1>1, InitInv, TypeStep, SettingStep, PTL DEF Spec
=============================================================================
