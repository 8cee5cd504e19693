# Hopemesh in TLA+

Hopemesh is the firmware of a mesh node: an ATmega162 with an RFM12B radio, a
serial console and a B.A.T.M.A.N. style routing protocol. It has no operating
system: the main program polls six protothreads in turn, and four interrupts run
between its steps. This directory holds TLA+ modules of that firmware
(`src/src/*.c`), the TLC configurations that check them, and proofs that TLAPS
checks. `PROJECT.json` maps every definition to the lines it stands for.

## 1. Inventory

| component | state | operations | interacts with |
|---|---|---|---|
| main loop (`main.c`) | none | polls `shell`, `batman_thread`, `rx_thread`, `uart_tx_thread`, `watchdog`, `timer_thread` for ever | calls all of them |
| protothreads (`pt.h`, `pt-sem.h`) | a local continuation per thread, a count per semaphore | wait, wait for a child, wait for a semaphore (also with interrupts off), signal | every thread; a child protothread has ONE continuation, whoever polls it |
| batman, frames (`batman.c`) | `mutex`, `send_ogm`, `seqno`, three continuations | `batman_tx`, `batman_rx`, `batman_thread`, `batman_one_second_elapsed` | `llc_tx`, `llc_rx`, timer callback, shell |
| batman, routes (`batman.c`) | the linked list `route_table` | `route_present`, `route_save_or_update`, purge, `ogm_rebroadcast` | clock; read by the shell's `l` |
| llc, sending (`llc.c`) | `pt_tx`, `state_tx` | `llc_tx` (main program), `llc_tx_mac` (interrupt) | `mac_tx`; the packet of the caller |
| llc, receiving (`llc.c`) | `state_rx`, `packet_rx`, `needs_processing` | `llc_rx_mac` (interrupt), `llc_rx` (main program) | `batman_rx` |
| mac (`mac.c`) | `pt`, `state`, `p` | `mac_tx` (main program), `mac_tx_rfm12`, `mac_rx_rfm12` (interrupt) | config flags, rfm12 |
| rfm12 (`rfm12.c`) | `mutex`, `radio_state`, `pt_nirq`, `pt_tx`; NIRQ mask, global interrupt flag | `rfm12_lock`, `rfm12_enable_tx`, `rfm12_release`, the NIRQ interrupt | SPI, mac callbacks |
| hamming (`hamming.c`) | two tables | encode, decode | llc |
| shell (`shell.c`), l4 (`l4.c`), rx_thread (`rxthread.c`) | a line buffer, packets, a pointer into the route list | commands list, send, config, debug, tick; printing of messages | UART mutex, batman |
| uart, ringbuf | two ring buffers of 10, `uart_mutex`, the pointer `p` | `uart_tx_str`, `uart_rx`, two interrupts | every thread that prints |
| timer, clock | `timer_cnt`, `second_notify`, callback list, `time` | overflow interrupt, `timer_thread` | clock and batman callbacks |
| config, watchdog | RAM copy and EEPROM words | set, init, error | resets |
| spi, debug, util, tests, board files | | | |

What makes this code hard:

* **One protothread, several pollers.** `llc_tx`, `mac_tx` and `rfm12_lock` are
  child protothreads with one static continuation. Three threads poll them, and
  only batman's mutex keeps the calls apart. One path does not take it.
* **A semaphore shared with an interrupt.** `rfm12.c` takes its mutex in the main
  program and returns it in the interrupt, or takes and returns it in the
  interrupt. The radio interrupt is level triggered and must never wait.
* **State read by the interrupt for the length of a frame** (`state_tx` and the
  packet of the caller) and **state filled by it** while the main program may be
  late (`state_rx`, `packet_rx`), guarded by a plain flag.
* **Frames that are lost, cut short, garbled or dropped half way** because the
  main program still holds the one before.
* **16-bit clocks and counters** that wrap, and tables and buffers at their limit.
* **Resets anywhere**: an error stops the node until the watchdog bites, power fails
  between two bytes of an EEPROM write, and only the EEPROM is left afterwards.
* **Links that go one way only**, floods with nothing but a TTL to end them, and a unicast
  frame that every node in range receives.

What makes each component correct: the radio is used by one party at a time and
always given back; a transmission sends exactly the caller's frame and the caller
hears of its own; only whole frames are handed up (but for their type, which no check
covers) and one bad frame costs one frame; the routing table is a map with ages, entered by an echo, left by age; each
waiting sender is served; over several nodes, a route leads to its target, a message is
sent on by one node at a time, a limited number of times, and a flood ends; over resets, the clock misses no second
and what comes back from the EEPROM is what was put there. `PROJECT.json` lists under `hazards` each line where one
of these could fail.

## 2. Modules

| module | what it is |
|---|---|
| `Radio` | transmit and receive path of one node: callers, batman mutex, `llc_tx`, `mac_tx`, `rfm12_lock`, NIRQ |
| `HalfDuplex`, `TxService` | abstract: the radio; the service `llc_tx` should be to its callers |
| `MCRadio` | instances of `Radio` |
| `RadioProofs` | the inductive invariant of `Radio` and what strengthens it, fifteen theorems |
| `RxFraming`, `MCRxFraming` | the receiver, nibble by nibble, against a slow main program and a bad band |
| `RxFramingProofs` | two inductive invariants of `RxFraming` and one of `Hamming`, eight theorems |
| `RingBuf` | the ring of `ringbuf.c` as operators |
| `Fifo` | abstract: a bounded queue |
| `UartTx` | console output: two threads, the UART mutex, `uart_tx_str`, the ring, the USART_DATA interrupt; refines `Fifo` |
| `UartTxProofs` | lemmas about the ring, the inductive invariant of `UartTx`, four theorems |
| `UartRx` | console input: USART_RECV against `uart_rx`, with `size--` in its instructions |
| `UartRxProofs` | three inductive invariants of `UartRx`, four theorems |
| `Hamming`, `MCHamming` | the two tables and the way of one byte over the air |
| `RouteMap` | abstract: the routing table as a map with ages |
| `RouteTable` | the list operations of `batman.c` as operators |
| `RouteTableProofs` | lemmas on what those operators do to any table |
| `Routing` | the routing table of one node over time, refining `RouteMap` |
| `RoutingProofs` | the inductive invariants of `Routing`, its refinement of `RouteMap`, nine theorems |
| `Mesh`, `MCMesh` | several nodes, each with a `RouteTable`, and the frames between them; four topologies |
| `MeshProofs` | the inductive invariants of `Mesh`, its refinement of `Custody`, six theorems |
| `Custody` | abstract: who has a copy of a message, and how often it may be passed on |
| `Lifecycle` | one node from reset to reset: boot, main loop, watchdog, timer and clock, error report and settings in EEPROM |
| `LifecycleProofs` | the inductive invariants of `Lifecycle`, four theorems |

### Radio

`turn` is the protothread that `main()` polls, `mpc` the place of the main program
inside that poll. One action is the stretch between two points where an interrupt
can matter. `label[c]` says where a caller waits: `sem` in `PT_SEM_WAIT(&mutex)`,
`tx` in `llc_tx` as holder of the mutex, `fwd` in `llc_tx` without it, `print` in
`rx_thread`'s UART output. `llcPc`, `macPc` and `nirqPc` are the continuations of
`llc_tx`, `mac_tx` and the interrupt's thread; `rfm12_lock` ends in the poll that
takes the semaphore, so `macPc = "start"` also stands for waiting in it. `LockCli`,
`LockTest`, `LockTake` are `PT_SEM_WAIT_ATOMIC` with interrupts off and the masking
of NIRQ; `sreg` and `gicr` are those two switches. `NirqTx`, `NirqTxData` and
`NirqRx` are single runs of the interrupt.

Abstracted: payloads and CRC (only lengths are kept), the address checks of
`batman_rebroadcast` (any verdict in `RxKinds`), config flags (any value in the
cfg's set at every read), how long the UART takes, and which received bytes make a
frame complete (`rxState` may become FIN at any byte; `RxFraming` says when).
`uart_tx_thread` and `watchdog` do not touch this state and are not polled.
Interrupts other than NIRQ do not touch it either.

Two ghosts: `aired` collects callers whose frame has gone out since they asked,
`rcvLen` is the length of the frame `rx_thread` works on.

### RxFraming

A frame is its contents; a byte is a frame and a position, or junk. `cnt`,
`nextbyte`, `state` and `len` are `state_rx` and the decoded length; `llc_rx` is
five steps (poll, CRC, copy, reset, release), with interrupts between any two. The
band starts frames, garbles nibbles, cuts frames, turns bytes into EOP and, without
RSSI detection, goes on with noise.

The first byte of a header is the type and a part of the length. `llc_rx` computes its CRC
over length and data, not over the type: a frame whose type was garbled is accepted. So the
nibble of the type is kept apart: `buf` says of each byte whose it is, for the first one by its
length alone, and `typed` says whether the type is the one that was sent. The CRC accepts a
packet exactly when length, CRC and data are those of one frame (`Whole`); collisions of the
16-bit CRC are outside the model. `CopiedWhole` promises no more than that; `CleanFrameTaken`
is about frames that arrived right and promises the type as well.

A packet that is accepted takes `rx_thread` away from `llc_rx` (`mpc = "away"`): to send an
OGM or a message on, or to print. `RxReturn` brings it back, or does not: see under Fairness.
`llc->len` is read from the first
byte of the header; in the code it spans the first two, and is first looked at on the
fourth. Masking by `rfm12_lock` is left to `Radio`, where a reception in progress
excludes it.

### RingBuf, UartTx, UartRx

A ring is a record with the buffer, the offsets of its two pointers and its size.
In `UartTx` no step of `ringbuf.c` can be interrupted: `uart_tx_str` disables
USART_DATA while it copies (`TxStr` to `EndCopy`), and the other caller is that
interrupt. `turn` goes round `shell`, `rx_thread`, `uart_tx_thread`, the polls that touch
this state. A thread waits for something to print (`idle`), for the radio in command
`s` (`radio`), for `uart_mutex` (`mutex`), or prints (`print`), which is any number of
strings between `UART_WAIT` and `UART_SIGNAL`; the shell takes the mutex again for its
prompt without leaving the poll. A character carries whose it is, in which string of how
many and where, so `MessagesWhole` can compare what follows what on the wire. The null
character is position `StrLen + 1`. What a string says, and strings without characters,
are left out.

In `UartRx` the interrupt can come between any two steps of `ringbuf_remove`: the test,
the read, the load and the store of `size--`, and the move of `start`. Typed characters
are numbered, `unread` counts those typed and not read, `overrun` says that one of them
was overwritten. A character that finds the ring full hangs the node until the watchdog
resets it.

### Hamming

`hamming_enc` and `hamming_dec` are the tables of the source in decimal. The state
machine sends both halves of a byte, turns up to `MaxFlips` bits over in each, and
receives as `mac_rx_rfm12` and `llc_rx_mac` do, comparing with EOP before decoding. It says
which nibbles `RxFraming` may call right, and has names of its own (`sent`, `part`, `word`,
`flips`, `received`, `ByteSpec`), so that one proof module extends both.

### RouteTable, Routing, RouteMap

`RouteTable` has no variables: its operators take the table, and the node whose table it
is where `CONFIG_NODE_ADDR` matters, so that `Routing` uses it for one node and `Mesh` for
each of several. The list is a sequence, head first. `Keep` is a walk that deletes entries,
written as a recursive function over the places of the list. `Save` appends at the tail, updates in place and
ignores what finds the list full; `Best` is the first of the largest counters.
Arithmetic is modulo 2^16 (`int` has 16 bits on this processor, so the subtraction in
`route_check_purge_timeout` is one of unsigned 16-bit values). `Second` is one poll of
`timer_thread`: the clock first, then batman, as `main_init` registered them. The
ghosts are `echoed`, the neighbours that ever echoed one of our OGMs, and `heard`, what
the counters would be if they did not wrap.

`RouteMap` says the same without list, clock and counters: a function from pairs to
ages, and the set of neighbours that ever echoed us.

### Mesh, Custody

Each variable is a function of the node: `table`, the seconds of its clock, `send_ogm`, the frame in `packet_rx` (`inbox`),
the frame `batman_rx` is to send on (`relay`) and the frame `batman_tx` waits to send
(`message`). A transmission reaches any set of those who hear the sender (`links` is
directed) and whose `packet_rx` is free: frames are lost for any reason, and by a node that
is busy. The steps of different nodes, and of the threads of one, come in any order, so
frames overtake each other.

`RxOgm` is `ogm_rebroadcast`: the table as `TableAfter` has it, and the OGM with the
flags, sender and TTL it goes on with. `Rebroadcast` has the tests of `batman_rebroadcast`
in their order, `Readdressed` what it writes into the header. `BatmanTx` is `batman_tx` up
to its wait for the mutex, with the gateway looked up, `SendMessage` what follows the wait;
routes change in between. `Restart` is a reset of one node (see `Lifecycle`): its table, its
clock and its frames are gone, its neighbours know nothing of it. A message that has reached its target leaves the model.

Abstracted: how a node gets a frame out (`Radio`; a frame that never leaves is one that
nobody hears), the order in which a node's own three senders get the mutex (any), sequence
numbers (all 0; they only count losses), and `send_ogm`, which the code clears before it
waits for the mutex and the model when the OGM goes out (`OgmSent`): a second tick in between would
send one more OGM a little later.

`batman_tx`, `batman_thread` and the forward share the one protothread `llc_tx`, and the forward
does not take the mutex (`radio_forward_honest`). What that does to a mesh is here. A caller
whose end is taken by another finds `llc_tx` at its start at its next poll and sends its
frame again: `PtEndedTaken`, where the frame goes out (or is lost) and stays to be sent. The one that took
it returns with its own frame unsent, a transmission that nobody hears. `Relay` of a
message, `SendMessage` and `SendOgm` can lose their end; the relay of an OGM cannot, as it
holds the mutex and the only thread that forwards is the one that waits in it. `thefts` bounds
how often. In `Radio` the premise of each theft is an overlap of two calls; here it
may happen to any frame, which is more than the code does.

Constant in `Mesh` and in `Routing`: a node's address, though command `c 0` of the shell
can change it while the node runs, with entries and frames of the old address about; the setting
`CONFIG_TTL`, likewise; the links. That links do not change means that `FramesLead` cannot show a
gateway that was right when `batman_tx` looked it up and is out of reach when the frame leaves.

`Custody` says what forwarding promises about one message: it has one copy, and one more at
most for each theft. A copy is taken by a node that hears its sender, never by the
originator, and passed on at most `ttl` times; or it is gone.

### Lifecycle

`pc` is where the program is: in `main_init` (`start`, `read`, `erase`, `init`), in the
main loop (`threads` up to `watchdog()`, `timer` and `callbacks` in `timer_thread`, two
bytes of a setting), in `watchdog_error_line` (`error`) or in its endless loop (`hang`).
`Tick` is one overflow of timer 0, which is also the unit of the watchdog's own clock `wd`.
In the main loop it is the interrupt; in `main_init` and after an error interrupts are off
and only `wd` advances. Any interrupt may raise an error at any place of the loop (in this
code `USART_RECV` does, when its ring is full); `WatchdogReset` and `PowerLoss` clear all
but the EEPROM. A word of EEPROM is written low byte first by avr-libc, whose source is not
part of the repository; a byte that power fails on is the old or the new one.

The ghosts: `behind` counts the seconds timer 0 has seen and the clock has not; `stopped`
is the error that ended the last run of the main loop and `whole` says how far its report
got; `wanted` and `before` are the value of a setting last set and the one it replaced.

Abstracted: the argument of an error is one value for its source and its line, since they
are only copied; `ConfigSet` takes the index of a setting, where the code checks none
(shell.c:121, config.c:27) and writes whatever lies at the index; the list of callbacks is the one `main_init` leaves; `mcucsr_mirror` is left
out.

## 3. Runs

| run | checks | bounds | states |
|---|---|---|---|
| `radio_full` | type, exclusion, mutexes, frame integrity, refinement of `HalfDuplex` | header sizes 1, 2 and 1, text of 1 byte, one received length, length modulo 8, preamble and postamble of 2, both config flags on and off | 541 863 |
| `radio_served` | honest completion, refinement of `TxService`, `QuietThenServed`, `ClaimedFrameEnds`, without forwarded frames | as above, RSSI detection on | 59 111 |
| `radio_forward_honest` | `CompletionHonest` with forwarded frames: violated | as above, both flags on | |
| `radio_forward_length` | `LengthKept`: violated | as above, both flags on | |
| `rx_framing` | receiver against slow main program and bad band | three frames (empty, just fitting, too long for `packet_rx`), buffer of 4, header of 2, counter modulo 12 | 644 830 |
| `hamming` | correction and EOP | all 256 bytes, one flip per code word: nothing is left out | 6 928 |
| `uart_tx` | whole messages, fair console, refinement of `Fifo` | ring of 2, strings of 3, messages of 0 to 2 strings | 19 966 |
| `uart_rx` | what is read was typed, in order | ring of 3, up to 5 unread, characters numbered modulo 6 | 1 951 |
| `uart_rx_overrun` | `NoSilentOverrun`: violated | as `uart_rx` | |
| `routing_safe` | list against map | two neighbours (4 pairs), 3 entries, purge after 1 s, clock modulo 3, seqno modulo 2, 2 confirmations a route | 11 892 |
| `mesh` | where routes and messages go, `FloodEnds`, refinement of `Custody` | three nodes, four topologies (below), TTL 2 or 3, 4 routes a node, one message, each node lives one second (one of them two, or it restarts once), or one theft, counters and clock modulo 2 | 341 657 |
| `lifecycle` | clock, error report, settings, return to service | second of 3 ticks, watchdog of 2, boot of 1 after the watchdog is started, 1 from `watchdog()` to the poll of the timer, two errors, one setting of two bytes of two values, 2 power failures | 546 616 |

Why the bounds are enough. The control of `Radio` does not depend on how many bytes a
frame has beyond the first, the last and one in between; all three callers, which is
all there are, take part. The buffer of `RxFraming` has room for header and two
bytes, so frames that fit, fit exactly and do not fit occur, and its counter wraps
only after the limit is passed, as 2^16 does. The routing instance has more pairs than
entries, so the list is full, purged in the middle and refilled; its clock wraps every
three seconds. A target needs two gateways for `route_present` to have a choice, which
two neighbours provide (each is reached directly and through the other). `MaxHeard` cuts
off behaviours only beyond that many confirmations of one route, and a purge starts over.
The output ring is shorter than a string, so each string is cut and taken up again at
`p`, and its pointers wrap at every place; the input ring can be full with two more
characters unread, which is what a lost update leads to.

In `Mesh` there is what routing has to get wrong: a sender between two others; a line in
which the sender is also heard by the target, which it does not hear; a line with a
one-way link back, on which an OGM can go all the way round; and a plain line, in which
the sender or the relay may restart once, at any step, or a frame be sent again once. Three nodes are the least for
a relay and for a circle, a TTL of 3 lets an OGM come back to the node that relayed it.
Two seconds of one node and a PURGE_TIMEOUT of 0 empty its table while a message waits or is
being forwarded; that each node does what it does only once or twice is the bound `lives`.
All of these were seen to happen: a message that b forwards, a target that hears it
directly and through b, a table purged under a waiting message, a relay that finds no
route any more, a message that comes back to its originator, two copies of a message
after a theft.

In `Lifecycle` the bounds keep the code's order: the boot is shorter than a time-out, or
the node would never come up, and a time-out and the way from `watchdog()` to the poll of
`timer_thread`, which comes next, just fit in a second. In the code these are some 31
overflows (WDTO_500MS, half a second at 5 V), less than one, and 61, so the run has the
least room that the assumption leaves. Two power failures cut an
attempt to store an error, then the erasure of what was stored. One setting and one
bit per byte are enough, as settings do not depend on each other and bytes are only copied.

`TypeOK` of `Mesh`, `Routing`, `RxFraming` and `UartRx` is proved and is no part of a run:
the other properties of these modules fail long before a type does. `ByteTypeOK` of `Hamming`
was checked while the module was written.

In `llc_rx_frame` either of the two tests of the length alone keeps a packet that is
handed over inside its buffer: one bounds where a frame ends, the other cuts it.

### What the violations show

* `radio_forward_honest`: the forward in `batman_rx` polls `llc_tx` while another
  caller's frame is under way. Both wait for `state == FIN` in the same `mac_tx`; the
  first to be polled ends the protothread and believes its frame sent. The other one
  then starts `llc_tx` again.
* `radio_forward_length`: `llc_tx` is given `BATMAN_HEADER_SIZE + llc->len`, but
  `llc->len` of a received frame already includes the header.
* `uart_rx_overrun`: a character arrives between the load and the store of `size--` in
  `ringbuf_remove`; the store takes its increment back. The pointers are right, the count
  is one short from then on, the last character typed stays unseen until another
  arrives, and after one more than `max` characters the ring overwrites the oldest
  without the error that `ringbuf_add_err` raises. `NothingInvented` and `InOrder` of
  `uart_rx` say what survives this.

Met on the way and not a run:

* Test 4 of `test-batman.c` prints "adding 0xd to routing table, no reply" for an OGM that
  comes through a neighbour. `ogm_rebroadcast` adds the route and sends the OGM on, as it does
  with every OGM that claims no one-way link. A flood needs that, so it is the expectation that
  is wrong; the tests compare nothing, so none fails. `Mesh` does what the code does.
* `BI_LINK_TIMEOUT` of `net.h` is read nowhere, so one echo makes a link bidirectional for
  as long as the neighbour's OGMs keep a route through it.
* `cnt` of a route is 16 bits wide, counts for as long as the route lives, and is compared
  as it is: once it wraps, the gateway heard most loses to one heard once. `HeardMost`
  holds up to there, which is how far `MaxHeard` lets it count, so the run cannot show the wrap; with
  `MaxHeard = 4` in `RoutingSafe.cfg` TLC shows it. `NoWrap` is the hypothesis of its theorem.
* A node takes a neighbour's relay of an OGM that it relayed itself as a route to the
  originator through that neighbour. Circles of gateways are therefore possible;
  `RoutesLead` says that the way to the target is there, not that the gateways follow it, and
  the TTL and the originator's test bound what happens to a message (`ImplementsCustody`).
* `watchdog_init` calls `get_mcucsr` a second time. By then MCUCSR is 0, so
  `mcucsr_mirror` is, too, and `watchdog_happened()` is false after every reset. The
  function is naked: if the compiler does not inline that call, it does not return.

### Fairness

* `WF(MainStep)`: the main loop has no blocking call, and the watchdog resets the node
  when it stops. An interrupt that keeps the processor busy for ever is excluded.
* `WF(NirqTx \/ NirqTxData)`: the transmitter raises NIRQ for every byte it wants.
* `SF(CarrierFree)`: a channel sampled again and again is found free again and again;
  `mac_tx` has no backoff and no limit, so without this it would wait for ever.
* `UartTx`: `WF(MainStep)` as above, and `SF(DataIrq)`: the transmitter's ready flag stays
  set, so the interrupt comes as soon as `uart_tx_str` lets it in again, however often the
  main loop holds it off. `MessagesEnd` also says that the ring runs empty once nobody prints, so
  the interrupt may not stay off with the last characters in it.
* `Mesh`: `WF(NodeStep(n))` for every node: its main loop polls all threads. No node's
  clock need advance and no frame need arrive. `FloodEnds` says that the air falls quiet
  once nobody starts anything: `lives` bounds the OGMs that are started, not those relayed.
  `thefts` is finite, which the code does not guarantee: a forward that loses its end at every turn
  sends for ever. So `FloodEnds` is about a mesh in which that happens finitely often.
* `Lifecycle`: weak fairness of the program's steps (of the boot, of the loop, of
  `watchdog_error_line`), of time and of the watchdog's reset. The loop may still be as slow
  as it likes; then it is reset. Errors need not stop coming, and power failures are
  finitely many. `BackInService` says that the main loop is reached for ever again, not that
  it stays.
* `RxFraming`: `WF(MainStep)`, where `MainStep` is `llc_rx` alone: while `rx_thread` waits there, the
  main loop polls it. `RxReturn` is not fair. With a packet `rx_thread` may wait for the UART, for
  batman's mutex, for a free band, or in a forward that never ends, so that it comes back is a
  premise of `HandedOn` (`ComesBack`), and what the premise takes is the subject of `RxPrints`
  and `QuietThenServed`.

`QuietThenServed` has a premise: from some time on no frame is being received. On a
band that never falls quiet the interrupt may hold the radio's semaphore each time
`rfm12_lock` looks, and a sender may wait for ever; nothing in the code prevents it.
The property is not claimed with forwarded traffic: there the completion of the
forwarded frame can go to the shell at every turn, and the forward never ends.

`RxPrints` has a premise too: the shell is found waiting for input at `rx_thread`'s turn
again and again. The shell takes `uart_mutex` back for its prompt and for the next
command before it leaves the poll, so a user who holds Enter down keeps it from
`rx_thread`.

## 4. Proofs

Every theorem holds for all values of the constants that satisfy the assumptions of its
module. Each rests on an inductive invariant that was checked with TLC, on the constants of
the run, before it was proved. All safety properties of the passing runs are proved; the
table says along which invariant. A hypothesis that goes with a theorem and not with the
module is in its row, and says what the code does not guarantee by itself.

| module | theorems (property) | inductive invariant |
|---|---|---|
| `RadioProofs` | `TypeCorrect`, `RadioIsExclusive`, `BatmanIsExclusive`, `IsrIsNeverBlocked`, `EnableTxDiscardsNothing`, `OwnerIsWaiting`, `FrameIsStable`, `RadioIsHalfDuplex` | `IInv` |
| | `FrameAlwaysComplete`, `FrameIsFinite` | `IInv`, `Progress` |
| | `CompletionIsHonestAlone`, `RequestsAreServedAlone`, both under `[]OneInLlc` | `IInv`, `Honest` |
| | `CompletionIsHonest`, `RequestsAreServed`, both under `NeverForwards` | the same, `NobodyForwards` |
| | `ForwardGrowsByHeader`, under `[]OneInLlc` | `IInv`, `Growing` |
| `RxFramingProofs` | `TypeCorrect`, `HandedOverAlwaysFits`, `AlwaysReadyWhenQuiet`, `AlwaysCopiedWhole`, `ReleaseIsNear` | `Handover` |
| | `CleanFrameAlwaysTaken` | `Handover`, `Taking` |
| | `OneBitIsCorrected`, `EopIsNearFifteen` (of `Hamming`), both under `OneFlip` | `Crossing` |
| `UartTxProofs` | `TypeCorrect`, `StringIsHolders`, `MessagesAreWhole`, `RingIsFifo` | `IInv` (`Shared`, `Chain`, `Upcoming`) |
| `UartRxProofs` | `TypeCorrect`, `NeverInvented` | `Counting` |
| | `ReadInOrder` | `Counting`, `Ordered` |
| | `OverrunNeedsLostUpdate`, under `[][~UpdateLost]_vars` | `Counting`, `Exact` |
| `RoutingProofs` | `TypeCorrect`, `OneEntryAlways`, `EntriesYoung`, `ListIsMap`, `AgesBounded`, `TableBounded` | `Sound` |
| | `GatewaysEchoed` | `Sound`, `Admitted` |
| | `BestUntilWrap`; `BestHeardMost`, under `NoWrap` | `Sound`, `CountsHeard` |
| `MeshProofs` | `TypeCorrect`, `RoutesAlwaysLead`, `FramesAlwaysLead` | `Leads` |
| | `MessageInCustody`, `MessageIsFinite`; `UndisturbedIsOne`, under `[][PtEnded]_vars` | `Custodial`; `Few` and `Near` of `Custody` |
| `LifecycleProofs` | `TypeCorrect`, `ClockRight`, `ReportRight`, `SettingsRight` | `TypeOK` with `Time`, `Report`, `Settings` |

### Radio

None of the properties is inductive alone: that the interrupt never finds the semaphore
taken needs to know that NIRQ is masked for as long as the main program holds it (`Masked`),
hence where `mpc`, `macPc` and `llcPc` can be relative to each other (`Places`), in which
states of `mac` the interrupt's thread can be suspended and on which side (`Interrupts`),
and that a frame is on the air only after a release and before FIN (`Direction`). `StepInv`
has one step per action. The refinement is `PhaseStep`: under `IInv` each step moves `Phase`
along an edge of `HalfDuplex` or leaves it.

`PacketKept` is the heart of frame integrity: while `llc_tx` is under way no caller
describes another packet in `state_tx`, and `llc_rx` does not refill the one on the air,
since the thread it belongs to is still in `llc_tx`. With it, `Progress` follows
`state_tx.cnt` through a frame: how many nibbles are out, and that `hasnext`, once a byte is
fetched, tells whether it was not the last. That gives `FrameComplete` with any traffic,
forwards included.

`Progress` also counts down. `Remaining` is what the interrupt has still to hand to the radio;
`FrameIsFinite` says that each byte it hands over is one less, that nothing else a node does
in between adds one, and that the radio goes back to receiving with the last. That is what is
safe about `ClaimedFrameEnds`; that the bytes are asked for is its fairness.

`CompletionHonest` is refuted with forwards (`radio_forward_honest`), and the theorems say
what exactly is to blame. `OneInLlc` is that no two callers are inside `llc_tx`; the mutex
sees to that for its holders, and only a forward can break it. In every run that keeps it, with
forwards and all, the one caller in `llc_tx` owns the packet (`OneOwner`), and the FIN it
finds is its own (`Honest`). `RequestStep` maps each action to a step of
`TxService`: `SemWait` queues or starts a request, the last byte of a postamble airs it,
`Done` answers it. `OneInLlc` is the least that a repair would have to bring about, for
instance a forward that waits for the mutex like everybody else. On a node that is
never a gateway (`NeverForwards`) it follows, since only `RxFrame("forward")` enters
`llc_tx` without the mutex (`WhoForwards`).

`LengthKept` is refuted too, and `ForwardGrowsByHeader` says by how much: under the same
hypothesis by one header, modulo the twelve bits of `llc->len`, and by nothing else
(`Growing`). Where a forward overlaps another call it can be started twice and grow twice.

### RxFraming

`needs_processing` is a plain flag that interrupt and main program both write. `Handover` shows that
it works as a lock: the main program is past its poll only while the flag is set, and while
it is set the interrupt leaves the packet and `state_rx` alone; the flag is cleared after the reset.
`CleanFrameTaken` needs more: that from the sync word on the receiver is where the sender is,
nibble by nibble, with the length known after the first byte (`Taking`). It needs `Ready`
between frames, whatever came before.

`AlwaysCopiedWhole` uses the same lock: the packet that was checked is the one that is copied, so
length, CRC and data are those of one frame. Nothing is claimed of the type.

`ReleaseIsNear` counts the steps `llc_rx` has left before it clears the flag: each of its
steps is one less, so is the return of `rx_thread`, and no byte, EOP or lost carrier adds to
them. So `HandedOn` needs no more than that the main loop goes on and `rx_thread` comes back.

### Hamming

`RxFraming` calls a nibble right or wrong. `Crossing` says when it is right: as long as one bit at
most of a code word is turned over (`OneFlip`), the word on the air is that of the half being
sent or a neighbour of it, and the half that has arrived is the one that was sent. The two
tables enter by one lemma, `CodeProtects`, whose sixteen cases, eight neighbours each, the SMT
solver works out; that no code word is EOP, and that only the one of 15 is next to it, is
part of it. With two bits wrong the code promises nothing, which is why `OneFlip` is a hypothesis.

### UartTx and UartRx

The lemmas `AddAppends` and `RemoveTakesHead` say what `ringbuf_add` and `ringbuf_remove` do
to the contents of a ring whose pointers and count agree. `MessagesWhole` looks at two
characters on the wire, which says nothing about those still in the ring; the invariant
strings them together: the one on the wire and those in the ring follow each other
(`Chain`), and what `uart_tx_str` adds next, from `p` or from the start of a string,
follows the last of them (`Upcoming`). `Underway` ties `p` to the thread that holds the
mutex.

In the input ring pointers and count do not agree: `size--` loses increments. `Counting`
says that the error goes one way only: the count that is loaded, and the one in the ring, stay
at least 1 and never exceed what is unread. `Ordered` does without the count: as
long as nothing was overwritten, the cells from `start` (past it, once the character is
taken) up to `end` hold the unread characters in order. Characters are numbered modulo
`CharMod`, so `Numbers` has the little arithmetic it takes.

`NoSilentOverrun` is refuted. `UpdateLost` is the step the run shows, a character that comes
between the load and the store of `size--`, and `OverrunNeedsLostUpdate` says that there is no
other way: in a run without that step the count is what is unread (`Exact`), and a full ring is found
full. So an interrupt kept out of those two instructions would be all it takes.

### RouteTable and Routing

`RouteTableProofs` says what each operator does to a table of any length: `Purge` keeps
exactly the young entries and their order (`PurgeKeeps`, `PurgeEntries`), `Save` confirms one entry or adds one at the
tail and leaves the others (`SaveNew`, `SaveKnown`, `SavePairs`), `Best` is an entry of the
largest counter (`BestIsBest`). `Keep` walks the list by a recursive function, and what such
a function computes needs induction. The induction theorems of the library take an operator
as a parameter, so it is done over sets instead: `SetInduction` is derived from the least
element of a set of naturals (`LeastExists`), `RecursionExists` from it, and `KeepWalks`
and `KeepKeeps` apply them.

`Sound` adds to `TypeOK` that pairs are unique and that no entry is older than
`PURGE_TIMEOUT` (`Young`). The latter is why a 16-bit clock that wraps does no harm: the purge runs at
each second, so the modular age it computes is always the true one. From it `StepMap` gets
the refinement: `Second` ages or drops every pair, `RxOgm` sets one age to 0, adds a pair, or,
with the list full, changes nothing. `GatewaysEchoed`, `AgesBounded` and `TableBounded`
state what `RouteMap` promises, of the list.

`CountsHeard` says that a counter that has not wrapped counts confirmations. So in every state
in which no counter of a target has wrapped (`Unwrapped`) the choice among its gateways is right
(`BestUntilWrap`), after an earlier wrap, too, once the entries it concerned were purged.
`BestHeardMost` is the special case in which no state is any other: `NoWrap`, `MaxHeard` less
than `CntMod`. That is no property of the code (see above), hence a hypothesis of this theorem
and not an assumption of the module.

### Mesh

`RoutesLead` needs to know what the OGMs on their way may claim. `Truthful` says it: where
an OGM does not carry the flag of a one-way link, its originator can be reached from its sender;
where it is marked direct, its sender hears the originator. `Leads` has this for every OGM
that is heard or about to be relayed. `LeadsTo` is stated by closed sets of nodes, and
`HopLeads` is the one step along a link that the proofs use. `FramesLead` follows, as the
gateway a message is given leads to the target when it is looked up and links do not change.

`Custodial` says that the only unicast frames about are those of the one message: they have its
originator, wait in `message` only there and in `relay` only elsewhere, and there are none before
it is accepted. So each
node is to send one copy at most and has at most one in `packet_rx` (`OutAt`, `InAt`). What a
node overhears is no copy, as only the gateway would send it on. `StepCustody` maps each action to a step
of `Custody`: a transmission that ends moves a copy or loses it, one that is to be
repeated is `Theft`, and leaves a second copy if the gateway heard it. All of this holds for any set of nodes,
any directed links, any TTL, any number of restarts and of thefts.

`MessageIsFinite` draws the conclusion, from the refinement: each copy was there before, at the
same node, or comes over a link from one that was and has one hop less; copies and thefts together
never become more. So in whatever circles the gateways lead, what is left of a message's hops runs
out, and a message that is gone stays gone unless a theft is still to come. `UndisturbedIsOne` is
what the code promises where no caller of `llc_tx` takes another's end: one copy. That
is `OneInLlc` of `Radio` once more, seen from the mesh.

### Lifecycle

The time-outs may be any that satisfy `Wdto + PollTicks <= Second`. `SecondsCounted` is the
interesting property: that a second is not merged into the one before needs to know how long
ago that was. The invariant `Pending` ties the timer's count to the watchdog's: while
`second_notify` is set, the count since that overflow is less than the ticks since the last
`watchdog()`, and between `watchdog()` and the poll it is less than those plus one time-out. A
loop is reset after `Wdto` ticks and the poll follows `watchdog()` within `PollTicks`, so the
count never gets to a whole second. `Written` says which bytes of a report are done, and whose
they are, at each step of an error, a boot and a reset in between; `Underway` does so for a
setting.

### Only model-checked

* Liveness, which is out of the prover's reach together with ENABLED: `QuietThenServed`,
  `ClaimedFrameEnds`, `HandedOn`, `RxPrints`, `MessagesEnd`, `FloodEnds`, `BackInService`. For
  `ClaimedFrameEnds`, `HandedOn` and, of a message, `FloodEnds` what needs no fairness is proved
  (`FrameIsFinite`, `ReleaseIsNear`, `MessageIsFinite`).
* The three refuted properties, of course; the theorems under `OneInLlc` and `UpdateLost` say what
  would have to be repaired.

## 5. Not modelled yet, and the plan

1. Proofs: the safety half of `MessagesEnd` (the characters a thread has still to print), and
   that an OGM, like a message, is relayed `ttl` times at most.
2. `Mesh` with a frame's type garbled (`typed` of `RxFraming`): an OGM taken for a message and
   the reverse, field by field; links and node addresses that change; a triangle of nodes that all hear each other.
3. `ShellList`: the walk over the list while entries are freed. It needs the allocator,
   which is avr-libc's.

Out of scope: register access and the commands sent to the radio chip, electrical
timing, string formatting and parsing of the console, the host tests and mocks, board
files. Memory exhaustion is listed as a hazard without a property: what a write through
a null pointer does on this processor is no part of the code.
