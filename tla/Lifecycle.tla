----------------------------- MODULE Lifecycle -----------------------------
(***************************************************************************)
(* One node from reset to reset: main_init, the main loop with its         *)
(* watchdog, the timer interrupt and the clock, settings and the report of *)
(* the last error in EEPROM.  Power may fail anywhere; an interrupt may    *)
(* raise an error anywhere in the main loop; the watchdog bites where the  *)
(* program stays too long.  Time passes in ticks, the overflows of timer0. *)
(***************************************************************************)
EXTENDS Integers

CONSTANTS
  Second,       \* timer overflows in a second: 61
  Wdto,         \* overflows that fit in WDTO_500MS
  BootTicks,    \* overflows from wdt_enable to the first watchdog(), at most
  PollTicks,    \* overflows from watchdog() to timer_thread's test, at most
  Errors,       \* pairs of a source and a line given to watchdog_error
  Erased,       \* a byte of EEPROM_DEFAULT
  None,         \* no error, no argument
  Configs,      \* 0 .. MAX_CONFIGS - 1
  Byte, Zero,   \* the bytes of a setting; what .bss is cleared to
  PowerLosses   \* bound on power failures

ASSUME TimeAssumption ==
  /\ Second \in Nat /\ Wdto \in Nat /\ BootTicks \in Nat /\ PollTicks \in Nat
  /\ BootTicks < Wdto /\ Wdto + PollTicks <= Second

ASSUME DataAssumption ==
  /\ Erased \notin Errors /\ Zero \in Byte
  /\ PowerLosses \in Nat

VARIABLES
  pc,             \* where the program is
  wd,             \* the watchdog: ticks since it was reset, or Off
  timer_cnt,      \* timer.c
  second_notify,  \* timer.c
  behind,         \* the seconds that have passed, less clock.c's time
  report,         \* the bytes of eeprom_source and eeprom_line, in this order
  last,           \* last_source and last_line
  error,          \* the argument of watchdog_error_line
  step,           \* the byte of report to be written next
  eemem,          \* int_settings_eemem
  settings,       \* int_settings
  arg,            \* the arguments of config_set
  stopped,        \* ghost: the error that ended the last run of the main loop
  whole,          \* ghost: is all of it written, or read back
  wanted, before, \* ghosts: the value last set, and the one it replaces
  failures        \* ghost: power failures so far

Off == -1
Cells == 1 .. 4
Word == [lo : Byte, hi : Byte]
Argument == [index : Configs, value : Word]

timeVars == <<wd, timer_cnt, second_notify, behind>>
reportVars == <<report, last, error, step, stopped, whole>>
configVars == <<eemem, settings, arg, wanted, before>>
vars == <<pc, timeVars, reportVars, configVars, failures>>

Boot == {"start", "read", "erase", "init"}
Setting == {"config_lo", "config_hi"}
Loop == {"threads", "timer", "callbacks"} \union Setting
Stop == {"error", "hang"}

TypeOK ==
  /\ pc \in Boot \union Loop \union Stop
  /\ wd \in {Off} \union 0 .. Wdto
  /\ timer_cnt \in 0 .. Second - 1 /\ second_notify \in BOOLEAN
  /\ behind \in Int
  /\ report \in [Cells -> Errors \union {Erased}]
  /\ last \in [Cells -> Errors \union {Erased}]
  /\ error \in Errors \union {None} /\ step \in Cells
  /\ stopped \in Errors \union {None} /\ whole \in {"no", "written", "read"}
  /\ eemem \in [Configs -> Word] /\ settings \in [Configs -> Word]
  /\ wanted \in [Configs -> Word] /\ before \in [Configs -> Word]
  /\ arg \in Argument \union {None}
  /\ pc \in Setting => arg \in Argument
  /\ pc = "error" => error \in Errors /\ error = stopped
  /\ failures \in 0 .. PowerLosses

Blank == [c \in Cells |-> Erased]
Cleared == [i \in Configs |-> [lo |-> Zero, hi |-> Zero]]

\* A new node: the EEPROM as it was flashed.
Init ==
  /\ pc = "start" /\ wd = Off
  /\ timer_cnt = 0 /\ second_notify = FALSE /\ behind = 0
  /\ report = Blank /\ last = Blank /\ error = None /\ step = 1
  /\ stopped = None /\ whole = "no" /\ failures = 0
  /\ eemem \in [Configs -> Word] /\ settings = Cleared /\ arg = None
  /\ wanted = eemem /\ before = eemem

-----------------------------------------------------------------------------
(* Resets.  Only the EEPROM survives; get_mcucsr in .init3 stops the       *)
(* watchdog and .bss is cleared.                                           *)

Reset ==
  /\ pc' = "start" /\ wd' = Off
  /\ timer_cnt' = 0 /\ second_notify' = FALSE /\ behind' = 0
  /\ last' = Blank /\ error' = None /\ step' = 1
  /\ settings' = Cleared /\ arg' = None
  /\ stopped' = IF pc \in Loop THEN None ELSE stopped
  /\ whole' = IF whole = "read" THEN "no" ELSE whole
  /\ UNCHANGED <<report, eemem, wanted, before>>

WatchdogReset == wd = Wdto /\ Reset /\ UNCHANGED failures
PowerLoss ==
  /\ failures < PowerLosses /\ failures' = failures + 1
  /\ Reset

-----------------------------------------------------------------------------
(* main_init *)

\* bootstrap_delay and config_init
ConfigInit ==
  /\ pc = "start"
  /\ settings' = eemem
  /\ pc' = "read"
  /\ UNCHANGED <<timeVars, reportVars, eemem, arg, wanted, before, failures>>

\* watchdog_init: the watchdog is stopped and started, the report read.
WdtInitSwapped == wd' = Off
WdtInit == wd' = 0
WatchdogRead ==
  /\ pc = "read"
  /\ WdtInit
  /\ last' = report
  /\ whole' = IF whole = "written" THEN "read" ELSE whole
  /\ pc' = "erase"
  /\ UNCHANGED <<timer_cnt, second_notify, behind, report, error, step,
                 stopped, configVars, failures>>

\* watchdog_init: both words are set to EEPROM_DEFAULT, byte after byte.
LastErasedOfSource == 2
LastErased == 4
WatchdogErase ==
  /\ pc = "erase"
  /\ report' = [report EXCEPT ![step] = Erased]
  /\ IF step = LastErased
     THEN pc' = "init" /\ step' = 1
     ELSE pc' = pc /\ step' = step + 1
  /\ UNCHANGED <<timeVars, last, error, stopped, whole, configVars, failures>>

\* timer_init and the other components; sei
RestOfInit ==
  /\ pc = "init"
  /\ pc' = "threads"
  /\ timer_cnt' = 0 /\ second_notify' = FALSE
  /\ UNCHANGED <<wd, behind, reportVars, configVars, failures>>

-----------------------------------------------------------------------------
(* The main loop *)

\* shell, batman_thread, rx_thread, uart_tx_thread are through: watchdog()
Watchdog ==
  /\ pc = "threads"
  /\ pc' = "timer"
  /\ wd' = 0
  /\ UNCHANGED <<timer_cnt, second_notify, behind, reportVars, configVars, failures>>

\* timer_thread: one_second_elapsed
TimerThread ==
  /\ pc = "timer"
  /\ second_notify' = FALSE
  /\ pc' = IF second_notify THEN "callbacks" ELSE "threads"
  /\ UNCHANGED <<wd, timer_cnt, behind, reportVars, configVars, failures>>

\* timer_thread: the callbacks, clock_update first
Callbacks ==
  /\ pc = "callbacks"
  /\ behind' = behind - 1
  /\ pc' = "threads"
  /\ UNCHANGED <<wd, timer_cnt, second_notify, reportVars, configVars, failures>>

\* shell_config: config_set, the RAM copy first.  The code takes any index that
\* is typed; only those of settings are modelled: what lies behind the arrays in
\* RAM and EEPROM, and is written instead, is up to the linker.
ConfigSet(i, v) ==
  /\ pc = "threads"
  /\ pc' = "config_lo"
  /\ settings' = [settings EXCEPT ![i] = v]
  /\ arg' = [index |-> i, value |-> v]
  /\ wanted' = [wanted EXCEPT ![i] = v]
  /\ before' = [before EXCEPT ![i] = eemem[i]]
  /\ UNCHANGED <<timeVars, reportVars, eemem, failures>>

\* eeprom_write_word of avr-libc: low byte, high byte
ConfigWriteLo ==
  /\ pc = "config_lo"
  /\ eemem' = [eemem EXCEPT ![arg.index].lo = arg.value.lo]
  /\ pc' = "config_hi"
  /\ UNCHANGED <<timeVars, reportVars, settings, arg, wanted, before, failures>>

HiForgotten == eemem
HiStored == [eemem EXCEPT ![arg.index].hi = arg.value.hi]

ConfigWriteHi ==
  /\ pc = "config_hi"
  /\ eemem' = HiStored
  /\ pc' = "threads" /\ arg' = None
  /\ before' = [before EXCEPT ![arg.index] = arg.value]
  /\ UNCHANGED <<timeVars, reportVars, settings, wanted, failures>>

-----------------------------------------------------------------------------
(* Interrupts *)

\* SIG_OVERFLOW0, and the watchdog's own clock.  Interrupts are off in
\* main_init and once an error is raised.
OverflowEarly ==
  IF timer_cnt + 2 = Second
  THEN timer_cnt' = 0 /\ second_notify' = TRUE /\ behind' = behind + 1
  ELSE timer_cnt' = timer_cnt + 1 /\ UNCHANGED <<second_notify, behind>>
OverflowLate ==
  IF timer_cnt = Second
  THEN timer_cnt' = 0 /\ second_notify' = TRUE /\ behind' = behind + 1
  ELSE timer_cnt' = timer_cnt + 1 /\ UNCHANGED <<second_notify, behind>>
Overflow ==
  IF timer_cnt + 1 = Second
  THEN timer_cnt' = 0 /\ second_notify' = TRUE /\ behind' = behind + 1
  ELSE timer_cnt' = timer_cnt + 1 /\ UNCHANGED <<second_notify, behind>>

Tick ==
  /\ wd # Off /\ wd < Wdto
  /\ pc \in Boot => wd < BootTicks
  /\ pc = "timer" => wd < PollTicks
  /\ wd' = wd + 1
  /\ IF pc \in Loop
     THEN Overflow
     ELSE UNCHANGED <<timer_cnt, second_notify, behind>>
  /\ UNCHANGED <<pc, reportVars, configVars, failures>>

\* watchdog_error in an interrupt (USART_RECV with its ring full)
Raise(e) ==
  /\ pc \in Loop
  /\ pc' = "error"
  /\ error' = e /\ step' = 1 /\ stopped' = e /\ whole' = "no"
  /\ UNCHANGED <<timeVars, report, last, configVars, failures>>

\* watchdog_error_line: source and line, byte after byte, then the loop
WatchdogError ==
  /\ pc = "error"
  /\ report' = [report EXCEPT ![step] = error]
  /\ IF step = 4
     THEN pc' = "hang" /\ step' = 1 /\ whole' = "written"
     ELSE pc' = pc /\ step' = step + 1 /\ UNCHANGED whole
  /\ UNCHANGED <<timeVars, last, error, stopped, configVars, failures>>

-----------------------------------------------------------------------------
BootStep == ConfigInit \/ WatchdogRead \/ WatchdogErase \/ RestOfInit
LoopStep ==
  \/ Watchdog \/ TimerThread \/ Callbacks
  \/ ConfigWriteLo \/ ConfigWriteHi

Next ==
  \/ WatchdogReset \/ PowerLoss
  \/ BootStep \/ LoopStep \/ WatchdogError \/ Tick
  \/ \E i \in Configs, v \in Word : ConfigSet(i, v)
  \/ \E e \in Errors : Raise(e)

Spec == Init /\ [][Next]_vars

\* The processor goes on, time passes, and the watchdog bites.
FairSpec ==
  /\ Spec
  /\ WF_vars(BootStep) /\ WF_vars(LoopStep) /\ WF_vars(WatchdogError)
  /\ WF_vars(Tick) /\ WF_vars(WatchdogReset)

-----------------------------------------------------------------------------
\* The clock misses no second, however late timer_thread is polled: the one
\* flag never stands for two seconds, because a loop that slow is reset.
SecondsCounted ==
  pc \in Loop => behind = (IF second_notify THEN 1 ELSE 0)
                           + (IF pc = "callbacks" THEN 1 ELSE 0)

\* Whatever resets cut short, what is in the EEPROM and what the shell shows
\* are bytes of one error, the one that ended the last run; an error that was
\* written whole is shown whole, and once.
OneError(words) == \A c \in Cells : words[c] \in {Erased, stopped}
AllOf(words) == \A c \in Cells : words[c] = stopped

ErrorReported ==
  /\ OneError(report) /\ (pc \notin Stop => OneError(last))
  /\ whole = "written" => AllOf(report)
  /\ whole = "read" => AllOf(last)
  /\ pc \in Loop => report = Blank

\* A setting comes back after a reset as it was last set; if that write was
\* cut short, as it was before or with its new low byte only.  The running
\* node uses what it would come back with, but for the word being written.
Torn(i) == [lo |-> wanted[i].lo, hi |-> before[i].hi]

SettingsSurvive ==
  /\ \A i \in Configs : eemem[i] \in {wanted[i], before[i], Torn(i)}
  /\ pc \in Loop =>
       \A i \in Configs :
         settings[i] # eemem[i] => pc \in Setting /\ i = arg.index

\* Whatever hangs or fails, the main loop runs again.
BackInService == []<>(pc \in Loop)
=============================================================================
