# 1bitSDR: a formal model

`src/` holds two generations of a software-defined AM radio whose analogue part is a
single comparator input: a Verilog design for a Lattice MachXO2 (`FPGASDR.ldf`; its
sources are `impl1/source/*.v` and the `.v` files in the root) and a SystemVerilog
rewrite for an Altera Cyclone III (`SDR_CycloneIII/`) with a Nios II processor, its
control program (`software/sdr/`) and the board support package the program runs on
(`software/sdr_bsp/`: the hardware abstraction layer, HAL, and the driver of the JTAG
UART). These modules specify the control logic of the radio and the C code of the HAL in
TLA+, check it with TLC and prove its main properties with TLAPS.

Two conventions run through all of it.

* The logic is synchronous: within one clock domain every register is assigned with a
  nonblocking assignment, so one edge of the clock is one step in which all registers move
  and read the values they had before. The arms of a `case` are actions of their own, and
  the blocks of one clock are conjoined. Where two domains meet, the step is an edge of the
  faster clock and the slower one is enabled in some of the steps.
* The C code is one thread and its interrupts. A step is the code between two accesses to
  what the other side writes; a call that no interrupt and no callback can get into is one
  step. Where interrupts are disabled a whole section is one step, except in `Interrupts`,
  whose subject is that disabling.

Paths of the HAL are given relative to `SDR_CycloneIII/software/sdr_bsp/`.

## 1. Inventory

### MachXO2 design

| component | source | state | operations | talks to |
|---|---|---|---|---|
| UART receiver | `impl1/source/UartRX.v:57-162` | two synchroniser flip-flops, state, 16-bit cell counter, bit index, shift register, DV flag, output byte | one edge of `UartClk[2]`: synchronise and run one arm | serial line (in); tuner control (DV and byte) |
| clock divider, edge detector | `impl1/source/UartRX.v:47-52` | `UartClk`, `r_Rx_DV_last`, `o_Rx_DV` | one edge of `osc_clk` | receiver's clock; tuner control |
| UART transmitter | `impl1/source/UartTX.v` | state, cell counter, bit index, byte, line, Active, Done | one edge of `osc_clk` | its client (request, byte); serial line (out). Instantiated by the echo test, commented out in the radio's top |
| tuner control | `impl1/source/top.v:238-288` | registered DV and byte, CIC gain, phase increment and its registered copy | one edge: the key table | receiver; oscillator and CIC |
| signal path | `NCO.v`, `Mixer.v`, `CIC.v`, `AMDemod.v`, `PWM.v` | phase, products, integrators, combs, root, PWM counter | one edge each; combs every 4096th | the RF pin; the audio pins |
| echo test | `top.v` in the root, with `UartRX.v`, `UartTX.v`, `TestFifo.v` | start flag, 28-bit delay, read strobe | start on DV, count, read the FIFO and request a byte | receiver, FIFO, transmitter |

### Cyclone III design

| component | source | state | operations | talks to |
|---|---|---|---|---|
| PLL monitor | `system_monitor.sv` | lock synchroniser, 16-bit counter, PLL reset, reset synchronisers | one edge of the board clock (an on-chip oscillator), one of the PLL clock | PLL; reset of everything |
| PS/2 keyboard | `ip/ps2_keyboard/*.sv` | two debouncers, frame state machine, data, event and interrupt flags | one edge: debounce, shift, serve a bus access | keyboard (clock, data); Nios II bus |
| AM receiver | `am_receiver.sv`, `nco.sv`, `sine_cosine.sv`, `mixer.sv`, `cic_filter.sv`, `am_demod.sv`, `lvds_rf_input.sv` | phase, table pipeline, integrators, combs, valid pipeline | one edge of the system clock | tuning registers; PWM |
| PWM | `pwm.sv` | counter, sample, compare value | one edge | audio pin |
| control program | `software/sdr/sdr.c` | frequency, step, gain | one key | console; tuning registers |

### Nios II software

| component | source | state | operations | talks to |
|---|---|---|---|---|
| boot and ending | `HAL/src/alt_main.c`, `alt_do_ctors.c`, `alt_do_dtors.c`, `alt_exit.c`, `alt_kill.c`, `alt_sys_init.c` | how far the boot has come, objects constructed and destroyed | initialise, redirect, construct, `main`, `exit`, `_exit` | everything below |
| loading, caches | `alt_load.c`, `alt_*cache_flush*.c`, `alt_uncached_*.c`, `alt_remap_*.c`, `sys/alt_flash.h` | which lines are cached, dirty, stale | copy a section, flush, hand out uncached memory, program flash | memory |
| file descriptors | `alt_dev.c`, `alt_open.c`, `alt_close.c`, `alt_get_fd.c`, `alt_fd_lock.c`, `alt_io_redirect.c`, ... | descriptor pool, highest descriptor, lists of registered nodes | every POSIX call on a path or descriptor | drivers' callbacks |
| interrupts, exceptions | `alt_irq_handler.c`, `alt_iic*.c`, `alt_irq_register.c`, `sys/alt_irq.h`, `priv/alt_legacy_irq.h`, `alt_instruction_exception_*.c`, `alt_exception_entry.S` | status, `ienable`, handler table, active and priority masks | register, enable, disable, dispatch, nest | handlers |
| system clock, alarms, time | `alt_tick.c`, `alt_alarm_start.c`, `sys/alt_alarm.h`, `sys/alt_llist.h`, `alt_gettod.c`, `alt_settod.c`, `alt_times.c` | tick counter, list of alarms, time set | tick, start, stop, set and get the time | the timer's interrupt; callbacks |
| JTAG UART, interrupt driven | `drivers/src/altera_avalon_jtag_uart_{init,read,write,ioctl}.c` | two rings, interrupt enable, inactivity counter | interrupt routine, alarm, read, write, close, ioctl | device, alarms, host |
| JTAG UART, small; stdio | the same files under `ALTERA_AVALON_JTAG_UART_SMALL`, `alt_printf.c`, `alt_putstr.c`, `alt_getchar.c`, ... | none but the device's FIFOs | put and get characters, polling | host |
| logging | `alt_log_printf.c`, `sys/alt_log_printf.h` | flags, tick countdown | boot messages, write echo, heartbeat, driver reports | JTAG UART device, from thread and interrupts |
| profiler, heap | `alt_gmon.c`, `alt_mcount.S`, `alt_sbrk.c`, `sys/alt_stack.h` | hash of arcs, slab, histogram, heap end, stack limit | count a call, sample, extend the heap | alarms; every function |
| busy sleep | `alt_busy_sleep.c`, `alt_usleep.c` | none | turn a loop | |
| stubs, declarations | `alt_fork.c`, `alt_wait.c`, ..., `HAL/inc/**` | none | return an error | |

The BSP of this repository is small: the direct drivers and the small JTAG UART driver
(`ALT_USE_DIRECT_DRIVERS`, `ALT_USE_SMALL_DRIVERS`), no operating system, no caches, no
timer (a tick rate of zero), no profiling, no clean exit (`ALT_NO_EXIT`,
`ALT_NO_CLEAN_EXIT`), no C++, four descriptors, a "tiny" processor at 120 MHz
(`system.h`, `public.mk`). `sdr.elf` links the part of the HAL it needs; the rest is
compiled into the library and is modelled in the configuration its source is written for.
Where a model leaves the configuration of `system.h`, its comment and section 3 say so.

### How the parts interact

* Serial line -> receiver -> two registers across a clock boundary -> key table -> phase and
  gain registers (MachXO2).
* Keyboard -> two debouncers -> frame receiver -> bus slave -> `wait_ps2_key`, which polls.
* Antenna -> mixer -> CIC -> demodulator -> PWM, each stage marking its samples valid.
* Board clock -> PLL monitor -> reset of all of it.
* Reset -> `alt_load` -> `alt_main` -> `main` of `sdr.c` -> console and tuning registers.
* The drivers, the log and the profiler share state with interrupts; alarms are called from
  the tick interrupt and change the list it walks; all files share one descriptor pool.

### Hard parts

* **Two clocks on one serial line.** The receiver's clock is a divided, uncalibrated
  on-chip oscillator. `CLKS_PER_BIT` is computed for 80 MHz and the oscillator runs at
  about 83 (`top.v:109,219`): the margin decides whether a byte is received.
* **Clock-domain crossing.** DV lives in a clock eight times slower than the block that
  acts on it; an edge detector and two more registers lie in between, and the byte is
  read from yet another register.
* **Recovery.** No reset, no framing check: the receiver must come back from garbage by
  itself. The PS/2 receiver has neither timeout nor resynchronisation. The PLL monitor
  retries for ever.
* **Flags that are set and cleared by two parties in the same clock**: the PS/2 event
  flag, the echo test's start flag.
* **Valid bits and data in pipelines of different lengths** between the CIC filter and the
  PWM, none of them reset.
* **Interrupts**: the rings of the JTAG UART and its enable bits, the log's FIFO, the
  profiler's lists, the alarm list under a callback, nested handlers.
* **Counters that wrap**: ticks, the inactivity counter, the rings' indices, the radio's
  frequency, the busy loop.
* **Ways out in the middle**: a constructor that calls `exit`, an `open` that fails after it
  took a descriptor, a flash operation that fails half-way, a host that goes away.

`hazards` in `PROJECT.json` has the places where these bite, with the properties that watch
them. Smaller ones of the same kinds, watched by the property in brackets: bit index and
rounding in the UARTs (`LinkInv`, `WellFormedFrames`), the echo FIFO at its limit
(`EchoesInOrder`), the frequency word's wrap and the digits of a report (`RadioInv`), order of
initialisation and the end of the constructor lists (`BootInv`), redirection and
`alt_max_fd` (`PoolInv`), a null handler under a pending interrupt and a nested enable
(`IrqInv`), the alarm's sum at the edge of its word (`AlarmInv`), number formats and the
echo's indices (`LoggingInv`), a failing `sbrk` and a histogram cut short (`ProfileInv`).

## 2. Modules

```
ByteChannel  (abstract)  <= refinement =  UartLink = UartRx + FrameSender
FrameSender  (abstract)  <= refinement =  UartTxFrames = UartTx + wireByte
RxPort       (abstract)  <= refinement =  UartRx ;  used by TunerControl
Tuner        (abstract)  <= refinement =  TunerControl = RxPort + KeyTable + crossing
EchoQueue    (abstract)  <= refinement =  Echo = UartTxFrames + FIFO + delay
ByteChannel  (abstract)  <= refinement =  Ps2System = Ps2Link + Ps2Keyboard
                                          Ps2Link = keyboard + 2 Debounce + Ps2Receive
AmReceiver = decimation + pipelines + Pwm  SystemMonitor

Program = Boot, then one of   SdrMain   = SmallJtag + key loop
                              Log       = SmallJtag + interrupts that log
                              Memory    = alt_load + caches + flash
                              Profiler  = mcount + sampler + heap
                              BusySleep, FdTable, or nothing
JtagUart      AlarmClock      Interrupts
```

The chain *line -> receiver -> port -> crossing -> key table* is covered by modules that
meet at abstract specifications: what `TunerControl` assumes of the receiver (`RxPort`) is
what `UartRx` is shown to implement on any line, and what `UartLink` assumes of the line
(`FrameSender`) is what the repository's own transmitter is shown to implement.

**MachXO2**

* **UartRx** - the receiver. `Sync` is the synchroniser block; `Idle`, `Wait`,
  `StartConfirmed`, `StartRejected`, `Sample`, `StopDone`, `Cleanup` are the branches of
  the arms (`Wait` is the counting branch the start, data and stop arms share). The line
  is free. `CLKS_PER_BIT` and `DATA_BITS` are constants; the code has 87 and 8.
* **UartNoise** - `UartRx` on its free line with a history that tells noise (low glitches,
  some way apart) from anything else.
* **FrameSender** - a serial line with frames whose cells last `BIT_MIN..BIT_MAX` ticks,
  each its own length, at any distance of at least a stop bit. The party at the other end
  (a terminal) is not in the repository.
* **UartLink** - `UartRx` with the line driven by `FrameSender`; `ByteChannel` is what the
  two promise. The tick is the receiver's clock and the cell length varies against it,
  which is the clock mismatch.
* **UartTx**, **UartTxFrames** - the transmitter with free request inputs; the history
  variable `wireByte` is the byte of the last start bit on the line, needed for the
  mapping because the line is a register one tick behind the state machine.
* **KeyTable**, **Tuner**, **TunerControl** - the key table as operators, the abstract
  tuner that executes each received key once, and the register-level design. Phase words
  are numbers modulo `PHASE_MOD` (2^64 in the code); stations and steps are constants.
* **EchoQueue**, **Echo** - the echo test: the transmitter's request is the register
  `TXDelayed`, its byte the FIFO's output, and its whole state machine runs behind them.
  `Expired` and `Counting` are the branches of the delay; the receiver and the vendor FIFO
  are external.

**Cyclone III**

* **SystemMonitor** - the PLL watchdog. `Counting`, `Retry` and `Steady` are the branches of
  the board clock's block, `PllEdge` that of a PLL clock; the edges interleave freely. The
  PLL is external: it locks at most `LOCK_TIME` clocks after a reset unless it loses the
  lock, which it may do at any time.
* **Debounce** - a debouncer as a record and an edge of its clock as a function; one on a
  free line, with the line's history, is in **Radio_proofs** with its proof.
* **Ps2Receive**, **Ps2Link** - the frame receiver with its two debouncers, an action per
  state, and a keyboard that sends whole frames. A reset in the middle of a frame would
  leave `fsm` where it is (`clock_sreset` does not touch it) and the receiver has no
  timeout; the model starts with the keyboard idle.
* **Ps2Keyboard** - the memory-mapped slave and `wait_ps2_key`. A read takes two clocks and
  its word is registered in the first; `Call` .. `Return` are the accesses of the program.
* **Ps2System** - the two together: `Wires` puts the receiver's scan code on the slave's
  inputs, so that codes come when a keyboard can send them.
* **Pwm** - the PWM of the Cyclone III. `high` counts the high clocks of a period
  and `playing` is the level it began with.
* **AmReceiver** - samples on their way from the combs to the PWM, a sample being its number
  modulo `LEVELS`: the pipelines and their valid bits, not the arithmetic. It extends `Pwm`
  and drives it.

**Nios II software**

* **Boot** - from crt0's call of `alt_load` to `main` and from its return, `exit` or `kill`
  to the end, one action per call of `alt_main`, in every build of `Builds`. newlib's `exit`
  and `atexit` are external.
* **SmallJtag** - the polled driver and the minimal stdio over it; a token is a character or
  a fixed text. `alt_printf` is a fold over its format.
* **SdrMain** - `main` of `sdr.c`: `pc` is the call it is at and `out` the tokens it still has
  to print; `print_dec` and `get_phase` are functions with the code's widths.
* **Log** - messages of the thread and of interrupts (`LogIrq`), put out a character at a
  time into the one FIFO, each side polling WSPACE first; `alt_log_private_printf` is a fold
  over the format.
* **Memory** - not the values but the copies: `tag`, `dirty` and `stale` say which words a
  cache holds that memory has newer, or the other way round. A flush, a loop in the code,
  is what it comes to: the lines that leave the cache, those of them that are dirty for the
  memory. `alt_load` copies word by word. The behaviour of the caches themselves is external.
* **Profiler** - `frame` is where the thread is in `mcount`, between whose steps an interrupt
  runs a whole `mcount` of its own; both are the same functions on the record `Profile`.
  Lists are sequences, memory is a range of addresses. `fate` says what has become of the
  program: an allocation that fails or runs into the stack ends it there, also in the middle
  of an interrupt's call.
* **BusySleep** - the number of turns of `alt_busy_sleep`'s loops as a function of the
  argument, in the counters' width.
* **FdTable** - every call that takes or makes a descriptor as a function on a record of the
  table, because the calls use each other (`stat` opens and closes, the redirection opens).
  The nodes and their callbacks are external and may fail.
* **Program** - the composition: boot, then one image, a `main` that uses one of the modules
  above. `Runs(i)`, `Boots`, `Loads` and `Redirects` join the boot's steps to theirs: the
  redirection of the boot is that of the descriptor table, the radio's `main` begins where
  the boot ends.
* **JtagUart** - the interrupt-driven driver with the device, its alarm and the host. `pc`
  is where the thread is, `isr` where the interrupt routine is; bytes carry serial numbers,
  so that one lost, doubled or out of place shows.
* **AlarmClock** - `alt_tick` walks the list a step per alarm (`TickBegin`, `TickWait`,
  `TickFire`, `TickEnd`); `links` are the list's pointers; a callback may start or stop any
  alarm. `due` counts, without wrapping, the ticks an alarm still has.
* **Interrupts** - code as a sequence of accesses to the registers and tables; a frame on
  `stack` has the accesses its function still has to make, and an exception pushes a frame.

**MCUartLink**, **MCTunerControl**, **MCEcho**, **MCPs2System**, **MCProgram** - values
for TLC. **UartLink_proofs**, **UartTx_proofs**, **Radio_proofs**,
**Console_proofs**, **Program_proofs**, **AlarmClock_proofs**, **Interrupts_proofs** and
**JtagUart_proofs** - proofs.

Definitions called *mutant* are deliberately wrong versions of the definition after them.
`PROJECT.json` says which property each of them breaks; nothing else uses them.

## 3. Runs

| run | question | bounds | result |
|---|---|---|---|
| `uart_rx_free_line` | port and recovery on an arbitrary line; are glitches rejected? | the code's 87 ticks per cell, 3 data bits, glitches up to 44 (`Mid+1`), gaps from 44 | holds; with glitches of 45 or gaps of 43 noise gets through |
| `uart_link_83mhz` | does every frame arrive, once and in time, with the code's 87 and the board's clock? | 87 ticks per cell, cells of 90-91, 8 bits, two keys, any gaps | holds |
| `tuner_control` | does every key take effect once, in order? | phase modulo 41, distinct steps and stations, 11 keys | holds |
| `echo` | well-formed frames, bytes once and in order, each followed by a transmission? | 3 clocks per cell, 2 bits, frames and delay of 12 clocks, FIFO of 3, bytes at any clock | holds |
| `pll_watchdog` | no release without a lock, no reset of a good PLL, release for good | counter of 7, lock time 3 | holds; with a lock time of 4 a PLL that keeps its lock is reset |
| `ps2_system` | from the lines to the program: each code once, a fresh key, returned | 2 cycles, 2 data bits, the shortest phases that work (hold 3, setup 1, low 3, gap 11), two codes | holds |
| `am_pipeline` | each sample once and in order, played evenly, with its exact duty | 16 clocks per sample, 8 levels, any bits in the pipelines | holds |
| `program` | seven images from reset on, see below | in `MCProgram.cfg` | holds |
| `jtag_uart` | streams whole, no interrupt lost, calls return | rings of 3, FIFO of 1, calls of up to 2 bytes, timeouts of 0 and 2 seconds, programs that read or that write and close | holds |
| `alarm_clock` | no alarm early or missed, the list whole, the tick returns, the time goes on | counter of 8 ticks, two alarms, delays 0 and 6, periods 1 and 7 | holds |
| `interrupts` | tables, masks and enable bits agree; a raised line is served | two inputs, two handlers, every operation in either | holds |
| `profiler_sampler` | is the sampling alarm started once? | as `program`, one image | violated |

The images of `program`: *radio* (two keys typed, a PLL frequency and phase word scaled so
that frequency and gain wrap), *logging* (one interrupt per step of a message, two in all,
every letter, width and pad of the format on words of 8 bits), *memory* (caches of two
lines of four words, five words of sections, three lines of heap, one of flash), *profiled*
(three calls, two interrupts, two sizes of text), *sleeping* (every sleep up to 255 with
counters of 8 bits: up to 28 big loops), *files* (five descriptors, a device that has no
open, one that has no write, a file system, a channel, a node without a name, a stderr that
does not exist) and *ending* (two static objects, all eight builds).

**Why the bounds are enough.** The two receiver runs use the code's own `CLKS_PER_BIT`.
Data bits only move through the shift register, so three (with a free line: all eight
bytes) show an index error and a wrong order. The link run uses eight bits because the
clock error accumulates over the frame: at 87 ticks per cell the tolerance is 84 to 92
(`ToleranceAssumption` evaluated at that constant). The nominal 88.67 MHz would give
96-tick cells, outside it; the 83 MHz the comment measures gives 90. The gap between frames
is unbounded: `txAge` saturates once the stop bit is complete. In the control the value of a
phase only matters for equality, so a small modulus with distinct steps shows a missed,
doubled or swapped key.

The counters of the watchdog, the debouncers, the delay, the transmitter and the PWM are
only compared with their ends, so the runs use the smallest at which all intermediate stages
fit; `LOCK_TIME`, the keyboard's phases and `DELAY` are at the limit of the assumption on
them, so that one clock less margin would fail. With the code's numbers: the PLL may take
65531 clocks of the board oscillator; a keyboard must hold a clock level, and the data
after the clock's rise, for more than 500 clocks (5 microseconds). The samples of
`am_pipeline` come every 16 clocks, a few more than the pipelines take, where the code has
4096.

A ring of three has the empty, the partly filled and the full state, and its indices wrap
within a call; `SERIAL` is more than all the places a byte may wait in, so equal numbers are
the same byte. Two alarms are what the walk needs to lose one (the alarm whose callback runs
and the one whose address the tick has taken), and a counter of eight is passed by a delay of
six and a period of seven. Two interrupt inputs are one that may nest in the other; deeper
stacks repeat the same two frames. The arithmetic of the images wraps at 256 as the code does
at 2^32: every constant that is compared with the word is scaled with it.

**Fairness.** *Logic*: "the clock runs", and nothing else: weak fairness of the whole
next-state step, every branch of a synchronous design being taken by the clock edge that
finds its guard true. Its subscript is the registers only. With the free inputs in the
subscript a step that changes no register but an input would count as progress the
environment owes, and an idle line could not stay idle. In `UartLink` the clock step
includes the transmitter's, whose cells are bounded by `BIT_MAX`, so a frame that began is
finished, and `Ps2Link` says the same of the keyboard; no fairness is assumed of the user,
who may never press a key. In `SystemMonitor` the board clock runs always and a PLL clock
while the PLL is locked. In `Ps2System` the program goes on while it waits for a key, and
nothing makes it call again. `IdleLineQuiesces` and `SystemRuns` need their input to settle
and say so in their antecedents.

*Software*: "the processor executes". In `Program` and `Interrupts` that is weak fairness of
the processor's steps, interrupts not being owed; that the host reads what is printed is in
the antecedent of `KeysTakeEffect` and `LogComesOut` (`HostReads`). In `AlarmClock` the timer
runs and its interrupt is served. In `JtagUart` the interrupt routine has weak fairness; the
thread and the one-second alarm have strong fairness, because a host that keeps interrupting
disables them again and again and is too slow (a serial cable against a processor) to keep
them from running for ever. What the host does is in the antecedents: it leaves for good
(`HostLeft`) or takes what there is (`HostServes`).

**What the runs show beyond a pass.**

* The watchdog releases the system's reset request for one board clock each time it retries:
  `pll_areset_flop` is made of the old `pll_areset` and the full counter, and in the clock in
  which the counter is full and the lock is missing neither holds. `HeldWithoutLock` states
  the hold with that exception. A PLL slower than the counter is reset for ever.
* A key that arrives in the clock of `wait_ps2_key`'s clearing write loses its event bit; the
  program then waits for the next key (`WaitReturns` starts after that clock). It never gets
  an older key (`ReturnsFreshKey`).
* The echo test sends what it received one byte late, the first transmission being whatever
  the FIFO showed; a byte that comes in the clock in which a delay ends, or while a delay
  runs, stays in the FIFO until later bytes push it out. With a delay one clock shorter than
  a frame a request meets a busy transmitter.
* The PWM of the Cyclone III plays each sample one sample period late, because valid runs a
  clock ahead of its data in `cic_filter.sv` and again in `am_demod.sv`; each is still taken
  once. Its output is low for the level and high for the rest of the period, that of the
  MachXO2 (`PWM.v:31`) the other way round.
* The radio stops in the middle of its report when no host reads: the small driver polls
  without a timeout. `KeysTakeEffect` therefore assumes `HostReads`.
* An interrupt that logs while the thread has just seen room in the FIFO costs the thread at
  most one character; a message is otherwise whole and in order (`LoggingInv`).
* Every count of `mcount` is a call that was made, and at most one per interrupt is missing;
  a pair of addresses may have up to two function entries, when an interrupt adds the one
  the thread has just looked for, and an arc may have more.
* `AlarmInv` holds whatever a callback does, as long as it does not stop the alarm after its
  own; with `StopsNext = TRUE` the tick goes on from an alarm that has left the list and
  loops there.
* `CallsReturn` needs a build that reads `host_inactive` again in its loops. The field is not
  volatile; with `HOISTED = TRUE` `write` and `close` wait for ever after the host has left.
* `IrqInv` holds while handlers do not enable interrupts in an interruptible handler; with
  `NestedEnables = TRUE` an input of lower priority gets in.

## 4. Proofs

Every theorem holds for all values of the constants allowed by the assumptions named in the
modules: that a size is a size, that a set of words is one, and for some a condition the code
rests on. Those are `ToleranceAssumption` and `LockAssumption` (below), `PeriodAssumption`
(delays and periods are shorter than the tick counter's word), `NodesAssumption` of `FdTable`
(`alt_dev.c` links in a null device, and no file system has its name), `RateAssumption` of
`AlarmClock` (a tick is no shorter than a microsecond), `ProfilerAssumption` (a slab is whole
entries, as 1020 bytes are of 12, and the stack is above the heap's start), `NoiseAssumption`
of `UartNoise`,
`SdrAssumption` (the largest gain fits the gain register's four bits, and the step keys are
digits), `LogAssumption` (the log's formats are of one number that fits the word, and
the word has no more than the eight hexadecimal digits `alt_printf` looks at), and
`DelayAssumption` and `CapacityAssumption` of `Echo` (below). Three theorems have a
hypothesis besides, the build or the discipline of callers without which the property is
false (TLC shows each, see section 3): `RELOADS`, `~ StopsNext` and `~ NestedEnables`. A
fourth, `TimeAdvances`, is of rates that divide a second, as the board's does: with others the
microseconds of a tick are rounded and the time of day runs slow.

* **UartLink_proofs.** Of the receiver alone: `TypeCorrect` (with the counter bounded by
  `Last`, so that its 16 bits never wrap), `PulsePerByte`, and `ReceiverIsPort`: the receiver
  implements `RxPort`; `TypeOK /\ DVMeansByte` is inductive. Of the link: `LinkInv` is
  inductive. It relates the receiver's counters to the transmitter's: `Elapsed` is the number
  of ticks since the start edge reached the receiver, computed from its state, bit index and
  count; `CellWindow` bounds the transmitter's cell from both sides by it; `SyncInv` says what
  the two flip-flops hold; `BitsInv` that the bits taken so far are those sent. DVByteIsSent
  alone is not inductive: without the window nothing says in which cell a sample falls. From
  it follow `DVByteCorrect`, `NoFalseStart` and the refinement `LinkImplementsChannel`. The
  hypothesis is `ToleranceAssumption`, the exact condition on the clocks: sample k falls
  in cell k, the receiver is done after the last data cell and before the next start bit.
  Of noise: `NoiseRejected`, for glitches up to half a cell with gaps no shorter.
  `NoiseIndInv` says that the glitch the receiver has taken for a start bit began as long ago
  as the receiver has counted (`Suspect`), so that it is over when the receiver looks again.
* **UartTx_proofs.** `FrameInv` (the line is at the level of the cell the registers say)
  is inductive and gives `TxImplementsSender`. A behaviour starts after the first clock
  edge because the line register has no initial value. Of the echo test: `EchoInvariant`,
  `EchoImplementsQueue` and `EchoWellFormed`, for any delay as long as a frame. `EchoInv`
  does not say why the transmitter is idle when a delay ends: `EchoIndInv` adds that the
  delay is never ahead of the frame being sent (`FrameAge`), which begins when it does.
  `CapacityAssumption` is what the induction turned up: with a FIFO of one place a delay
  can run with nothing to send (the code's has 64).
* **Radio_proofs**, of five parts of the two radios that stand alone.
  - The control path of the MachXO2 radio: `CrossingInv` (at most one of the three stages
    holds the key, each at its own count of the divider) is inductive with the types and
    gives `ControlImplementsTuner`: safety of the abstract tuner, EachKeyOnce.
  - The PLL monitor: `LossInv` follows a lost lock, and `LockInv` a new one, through the
    three flip-flops: after k + 2 clocks it has reached flip-flop k. With `LockAssumption`
    the lock arrives before the counter is full, hence `WatchdogSparesGoodPll`;
    `NoReleaseWithoutLock` needs no assumption on the PLL.
  - The debouncer: `HistoryInv` says that the registers are the last samples of the line and
    the counter how long ago it last changed. Stated with every sample equal to one of
    them, not to its neighbour, it needs no induction over the samples.
  - The keyboard: `ReadInv` with the types; its part `BusInv` ties the program's place to the
    bus, so that the word of the second clock of a read is known to be the register it asked
    for. `KeyIsFresh` follows. The theorems are of the slave with codes at any clock, of
    which `Ps2System` is a restriction.
  - The audio output of the Cyclone III: `DutyInv` with the types and "the compare value
    does not change within a period".
* **Program_proofs.** Each part of `Program` is proved about alone, and `StepOfBoot`,
  `StepOfTable`, `StepOfMemory`, `StepOfProfiler`, `StepOfSleep`, `StepOfRadio` and
  `StepOfLogging` show that a step of the program is one of the part's or leaves it alone:
  `ProgramBoots` and `ProgramHasTable` say so as refinements.
  - `BootIsSound`: `BootInv`, for any number of static objects and every build.
    `BootIndInv` adds what of the system is up at each call of `alt_main`, and that both
    lists are gone through from their end: the k-th object constructed is `OBJECTS + 1 - k`.
    Without the latter, "nothing is constructed twice" is not inductive.
  - `PoolConsistent` and `LockHolds`: `PoolIndInv` is a condition on each entry of a table,
    stated of the record, so that the calls that use others (`stat` opens and closes, the
    redirection opens, copies and releases) are covered by a lemma per call. `PoolInv` is
    not inductive: what makes `alt_fd_lock`'s search one short harmless to `open` is that
    a lock never shares its node with a descriptor that could be locked too, and that
    `alt_max_fd` covers every descriptor `open` has to look at.
  - `MemorySound` and `UncachedAtOnce`, for caches, lines, sections and blocks of any size.
    `MemIndInv` adds that a line is in its own place of the cache, and that when `main`
    starts the instruction cache is empty and only words of the heap are written. The
    argument is arithmetic: the loop of a flush, in steps of a line from an unaligned start,
    with one more step then, meets every line that has a word of the block
    (`WalkMeets`), and cut to the size of the cache it still meets the place of each.
  - `ProfilerSound`, for any arcs of the program and of its interrupts, any slab, heap and
    text: `ProfileInv`. `ProfIndInv` keeps every block apart from every other, from the end
    of the heap and from what is left of the slab (`Placed`), so that what `mcount_allocate`
    and `sbrk` hand out is new; and it says what a frame of `mcount` may still rely on after
    any interrupt between two of its steps (`FrameSound`): the entries it has found are
    there, and a function it has not found has one entry at most, the interrupt's. An
    interrupt's own call is not interrupted and knows more (`FrameSharp`): the count it has
    loaded is still the count. `ProfileInv` is not inductive, for a frame between the load
    and the store of a count is about to lose what interrupts have counted since; `Counted`
    adds that to what has been lost. Each step of `mcount` is proved for the thread and for
    an interrupt at once (`EveryStep`); an interrupt is eight of them (`InterruptCounts`).
    The counts are sizes of finite sets of marks, one set for every arc, kept apart by the
    arcs' addresses.
  - `RadioSound` and `LoggingSound` follow from **Console_proofs**, below.
  - `SleepLongEnough`: the big loops and the rest of a sleep come to its microseconds times
    the turns of one, for any speed of the processor.
* **Console_proofs**, of what the radio's program and the log write to the terminal, for any
  depth of the FIFO.
  - The radio (`RadioSound`): `RadioInv`, for any first settings and any keys. `RadioIndInv` says where the latest report is after every step: what of it is not on the
    host's console or in the FIFO is what `main` still has to print (`EndsWith`), and a
    report that has begun is that of the present settings (`SameReport`: it depends on nothing
    else). `RadioInv` says nothing of a report in progress, so it is not inductive. That
    the digits read back as the settings is proved of `print_dec` itself: writing a number's
    digits backwards with a comma after every third, and reading them with a fold over the
    text, undo each other for every number, and a comma is where it should be.
  - The log (`LoggingSound`): `LoggingInv`. `LogIndInv` follows each origin's characters
    through FIFO and console: what an interrupt's have come to (`LogPieces`) and that the latest
    interrupt's are at the end (`LogOrder`), without which nothing says that they will be in
    one piece. A thread that has seen room meets a full FIFO only if an interrupt has come
    whose one loss has not happened yet (`LogCounts`). The other half is about
    `alt_log_private_printf`: for every format, pad, width and letter and every argument the
    machine that reads the format puts out blanks, sign, zeros and digits as the format
    asks (`FormatExactly`), and the text stands for the argument (`FormatRenders`);
    `alt_printf`, which takes its digits from the highest place down, prints the same as
    `alt_log_private_printf` does for `%x` (`PrintfsDoAgree`).
* **AlarmClock_proofs.** `AlarmsOnTime`: the list is a ring (`Ring`: an enumeration of its
  alarms, both pointers of each the neighbours in it), the cursor of `alt_tick` stands on
  it or at its head, and the alarms are those of before or behind the cursor, the one
  behind still with the tick to count. An insertion or removal is a new enumeration. An
  alarm's `time` and `rollover` are `due` modulo the word, in which only a delay below a word
  can be told. `TimeAdvances` follows from the ticks' quotient and remainder by the rate.
* **Interrupts_proofs.** `InterruptsSafe`. The code of the model is a sequence of accesses,
  so what a frame has still to do says where its function is: `InCode` gives, for each place
  of `alt_irq_enable`, `alt_irq_disable`, `alt_iic_isr_register` and their critical sections,
  nested ones included, which registers and tables may be found there; `InHandler`,
  `InNest` and `Entering` do so for the interrupt's way in and out. Frames below the top are
  `Suspended`: only the program and handlers that have made themselves interruptible are
  ever interrupted, each with a mask below that of the one below it, from which priorities
  follow. `IrqInv` alone says nothing of a half-made registration, so an interrupt taken
  there could find anything.
* **JtagUart_proofs.** `Streams` and `NothingStalls`, for rings, FIFOs and calls of any size.
  Bytes are numbered, so that a stream is whole is arithmetic: what a ring holds from a place
  on are the bytes from a number on (`Holds`), what the FIFO holds the ones after
  (`RxStream`, `TxStream`). The interrupt routine is invisible to it, since it only moves
  the border between FIFO and ring; the bytes the thread has copied without having moved its
  end of the ring are no more than the ring held or had room for when it looked, and it has
  only got more since. `space`, which the routine has read from the device, is no more than
  there is (`TxPart`). For `NeverStalls` the invariant adds which call the thread is in at
  each place (`ThreadCall`).

The inductive invariants were checked by TLC on the runs' instances before they were proved.
Where a proof needs an induction (the dispatcher's lowest pending input, the
first descriptor that fits, the first device of a name) it takes the least counterexample
instead (`LeastNatural`, from `WFMin`). The same takes the place of the library's theorems on
recursive functions and folds, which have an operator parameter: `Recursion` says that a
function given by recursion on a smaller argument exists, stated with the step as a
function; from it follows that the digits of a number and a fold over a text are what their
definitions say.

Only model-checked: the liveness properties (`DeliversEventually`, `IdleLineQuiesces`,
`SystemRuns`, `WaitReturns`, `EchoFollows`, `PlayedEvenly`, `KeysTakeEffect` and
`SamplesInOrder`, which holds from some time on, `LogComesOut`, `CallsReturn`, `TickReturns`,
`Served`), which are beyond this prover. Every invariant the runs check is stated by a
theorem.

The proofs have corrected the models where TLC's bounds were too small to. The last such
case: the minimal `alt_printf` starts at the eighth hexadecimal digit (`digit_shift = 28`,
`HAL/src/alt_printf.c:97`), and the model's `Hex` looked for the highest digit among seven,
which no word of the run's eight bits tells apart.

## 5. Findings

`profiler_sampler`: `__mcount_record` says it copes with being called at interrupt time
(`HAL/src/alt_gmon.c:153-154`), but tests `pcsample_need_init` at line 167 and clears it at
169 with interrupts enabled. A profiled handler in between starts the sampler as well: the one
alarm structure is linked into the list twice.

Disagreements between code and comment that the models follow the code in, without a run:

* `UartTX.v:6-7` promises Done for one clock; it lasts two (lines 129 and 140).
* The comment of `impl1/source/top.v:284` names the key r for +1 kHz; the code tested there
  is 104, which is h.
* `sdr.c:102` offers a gain in "0-15 range"; line 129 takes it round to 0 after 8.
* `alt_fd_lock.c:61` looks for other users of the device below `alt_max_fd` only, so the
  descriptor opened last is overlooked and a lock granted although another descriptor is open
  (43-45 say it fails then).
* `alt_log_printf.c:471` puts out the heartbeat every `INTERVAL + 1` ticks (464-466), and the
  write echo prints one character less than the shorter of the length and 15 (435-439, 444-449).
* `alt_do_dtors.c:62` runs the destructors in the order of the constructors; and they run
  after `alt_main.c:155` has closed stdout.
* The standard descriptors start without access flags (`alt_dev.c:81-87`), so before the
  redirection `write` on stdout fails with EACCES instead of reaching the null device.
* `alt_irq_enable` in an interruptible handler writes `ienable` without the priority mask
  (`priv/alt_legacy_irq.h:94`, against 103-106).
* `alt_dcache_flush_no_writeback` drops a neighbour's dirty words with an unaligned region;
  its comment warns of it. A call on a closed descriptor follows a null pointer; starting a
  registered alarm again cuts the list. The models keep to callers that do neither.
* `alt_busy_sleep` turns its last loop 2^32 times when a sleep is a whole number of big loops
  (`alt_busy_sleep.c:112`); `SleepsAsAsked` leaves those sleeps out. With `RELOADS = FALSE`
  (the asm changes a register it only declares as input, line 94) every big loop but the
  first is that long.
* `alt_gmon.c:139` takes the -1 of a failed `sbrk` for a slab: `ProfileInv` speaks of
  programs that have not got there (`fate`). A heap extended by an odd size moves away from
  the stack limit, which then no longer follows it (`alt_sbrk.c:76,107`).

## 6. Plan

Done: the control logic of both radios, the pipeline of the Cyclone III, the control program,
and the HAL; proofs of all the invariants the runs check, of the action properties named in
section 4 and of the refinements. What could come next:

1. The pipeline: that every sample is played once and in order, as an inductive invariant of
   `AmReceiver` from any bits in the pipelines; `SamplesInOrder` and `PlayedEvenly` hold only
   from some time on, so an invariant has to count the clocks since reset.
2. The keyboard: `Ps2System` as an implementation of `ByteChannel` for any phases of the
   keyboard's clock, as `UartLink` is proved to be for any cell lengths.
3. The sections the models leave out, see below.

## 7. Not modelled

* **MachXO2 signal path** (`NCO.v`, `Mixer.v`, `CIC.v`, `AMDemod.v`, `PWM.v`) and the
  arithmetic of the Cyclone III's receiver (`sine_cosine.sv`, the integrators and combs of
  `cic_filter.sv`, the root of `am_demod.sv`): pipelines without control of their own, whose
  questions are numeric, over words of twelve to seventy bits and thousands of samples. At
  widths a model checker can exhaust, the filter does not filter. That the demodulator of
  the MachXO2 is clocked by a data register is a question of delays within a clock.
* **Interrupts**: the custom-instruction vector, the emulation of multiply and divide
  (`alt_exception_muldiv.S`) and the ECC exception, which this processor does not have.
* **Profiler**: the check of the exception stack. **PS/2**: a reset in the middle of a frame.
  **Echo test**: the global reset input. **Tuner**: the 80 MHz arm of the key table, which is
  not compiled.
* **Vendor cores** (multiplier, sine table, adder, PLL, FIFO, Nios II system) are generated
  and appear only as external behaviour. Metastability is not modelled: a synchroniser is
  two registers.
* **Stubs and declarations** of the HAL that only return an error, and interfaces to drivers
  the system has no device for (DMA, Ethernet, timestamps).
* The LED counter, the unused `frequency_select.v`, the simulation stimulus and the offline
  calculators carry no behaviour of the radio. The older copies of the UART in the root are
  the same state machines but for the clock divider and the output register.
