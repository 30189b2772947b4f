# CE213_LAB in TLA+

The repository holds three FPGA laboratories in Verilog with their testbenches
and, for one of them, the Quartus/Qsys system and the Nios II program around it:

* `src/DMA/DMAFinal/DMAFinal`: a DMA controller with an Avalon control slave, an
  Avalon read master, a FIFO and an Avalon write master; a Qsys system with a
  Nios II/e processor and two on-chip memories; a C program that runs the DMA, and
  the board support package (BSP) it is linked with: the HAL and the driver of the
  JTAG UART, in C.
* `src/Student_ID_SM`: a state machine that shows a student number digit by digit,
  with a clock divider and a seven-segment decoder for the board.
* `src/ImageProcessing`: a colour-to-grey converter and a pipelined median filter.

Almost everything else in the tree (2 100 of 2 211 files) is generated by the
vendor's tools: interconnect, processor, project databases, simulation libraries.

This directory contains TLA+ modules for the hand-written logic and for the parts of
the board support package that have state and run beside interrupts, TLC
configurations that check them on small instances, and proofs that TLAPS checks
for every value of the constants. The DMA controller is the core: it has
concurrency (three clocked parts and a CPU), back-pressure, reset, end detection,
and most of the repository's behaviour that a testbench hardly reaches. Under the
program that drives it lies the software of the system: descriptors, alarms,
interrupts and the console's driver.

## 1. Inventory

### The DMA controller

| part | state | operations | correct when |
|---|---|---|---|
| `control_slave.v` | five registers for the CPU, `status`, `oStart`, `state`, `enable` | write registers 0-3 when not BUSY, read status (7), clear `control` at DONE, start the masters, wait for `iMW_done`, announce DONE | the masters get one start pulse of one cycle with stable parameters; status tells the truth |
| `read_master.v` | `state`, `oRM_read`, address, last address | load on `iStart`, request a word, hold while told to wait, pass an arriving word to the FIFO | every word of the block is read once, in order; no arriving word is dropped |
| `FIFO.v` | 256 entries, two 8-bit positions | push and pop on a clock edge, reset of the positions | a bounded queue of 128 words with exact flags |
| `write_master.v` | `state`, `oWM_write`, `oWM_done`, address, data, last address | load on `iStart`, take a word, write it, hold while told to wait, report the end | word *i* goes to place *i*, nothing outside the block is written, the end is reported once it is reached |
| `DMAFinal.v` | none | wires the four parts to one clock | the parts together copy the block |
| `hello_world.c` | program counter, loop variable | four register writes, polling loop, print loop | starts the transfer it describes, returns, prints the copy |

Interactions: all hardware parts change on the same clock edge and sample each
other's registers before it (nonblocking assignments). `oStart` and the three
parameter registers go from the slave to both masters, `oWM_done` back;
`FF_almostfull`, `FF_empty`, the two requests and the data run between the
masters and the FIFO. To the outside the masters are Avalon masters (address,
request, `waitrequest`, `readdatavalid`), the slave is an Avalon slave without wait
states. The read master is connected to `ONCHIP_MEMORY2_0`, the write master to
`ONCHIP_MEMORY2_1`; the processor is connected to both, so it competes with either
master and any access can be answered by a wait request.

### The software under the program

| part | state | operations | correct when |
|---|---|---|---|
| file layer of the HAL (`alt_open.c`, `alt_close.c`, `alt_fd_lock.c`, `alt_io_redirect.c`, ...) | pool of descriptors, high-water mark, lists of devices and file systems | register, redirect the standard streams, open, close, lock and unlock a device, fcntl, return from `main` | no descriptor leaks or is lost; the streams always have a device; exclusive access is exclusive |
| system clock (`alt_tick.c`, `alt_alarm_start.c`, `alt_settod.c`, `alt_gettod.c`) | tick counter, list of alarms with their times and rollover flags | tick, start and stop an alarm (also from a callback), set and get the time of day | every callback comes on the tick it asked for, also across a rollover |
| interrupts (`alt_irq_handler.c`, `alt_iic_isr_register.c`, `sys/alt_irq.h`, `priv/alt_legacy_irq.h`) | PIE, enabled and registered interrupts, priority mask, stack of contexts | entry, dispatch loop, critical sections, single interrupts, interruptible handlers | nothing interrupts what does not allow it; no handler is called that is gone; the most urgent one is served |
| JTAG UART driver (`altera_avalon_jtag_uart_*.c`) | two ring buffers, enable bits, host timeout | init, interrupt routine, timeout, write, read, close, ioctl, in a fast and a small build | characters stay in order, nobody sleeps for ever, calls keep their promise |

`hello_world.c` prints through the standard streams, which `alt_main` redirects to the
UART before `main`. The driver exists in two builds. This BSP asks for reduced drivers
(`ALT_USE_SMALL_DRIVERS` in `public.mk`), so that the program polls the UART; a BSP without that setting
gets the build that registers an interrupt routine and an alarm. Nor has this system a
system clock (`ALT_SYS_CLK` is `none` in `system.h`), and without one an alarm is refused. The
models cover both builds, with and without a clock, since the code handles all of them.

### The other laboratories

| part | state | operations | correct when |
|---|---|---|---|
| `fsm_student_ID.v` | `current_state` | start at a chosen digit, step, reset | a run shows the number from the first occurrence of the digit to its end |
| `clock_divider.v` | `count`, `clk_out` | count, toggle, asynchronous reset | `clk_out` is an exact square wave |
| `segment7_decoder.v` | none | a constant table | (restates itself) |
| `DE2_TOP.v` | none | declares pins and two wires, instantiates nothing | |
| `median_filter.v` | three pipeline stages | take a window per edge, sort network | the output is the median of the window of three edges before |
| `image_to_grayscale.v` | output registers | weigh, add brightness, clamp | no intermediate width loses a bit |

### What is hard here

* **Interleaving**: the CPU writes registers at any time; wait requests change the
  pace of the masters independently; push and pop meet on an edge.
* **Ordering and stale state**: the write master tests for the last word before it
  looks at the wait request; the read master looks at the FIFO's level before a
  request and not when the word arrives; the slave clears `control` in the cycle
  in which it could answer DONE.
* **Limits and wrap**: positions of 8 bits, addresses of 32 bits, an end that is
  detected by equality, a FIFO that fills up with a word in flight.
* **Interrupts**: the UART's routine and the tick run between any two accesses of the
  program; handlers nest; single interrupts are switched while others are masked.
* **Partial failure**: an open that fails after it has taken a descriptor; one
  redirection out of three that fails.
* **Reset in the middle** of a transfer, with words in every part.
* **Liveness**: the slave waits for the write master without a limit.
* **Pipelines**: a new window on every edge, which the testbench (one window held
  for several edges) never does.

`PROJECT.json` lists each of these hazards at its line together with the
properties that would catch it.

## 2. Modules

```
BoundedQueue  <-- implements --  FIFO ------------\
OneShotStart  <-- implements --  control_slave ----\
                                 read_master -------+--> DMAFinal --> DMASystem --> hello_world
                                 write_master -----/                     |
                                             BlockCopy <-- implements ---/
DeviceLocks   <-- implements --  alt_file
alt_tick    alt_irq    altera_avalon_jtag_uart
fsm_student_ID    clock_divider    median_filter    image_to_grayscale
```

`MC*.tla` modules and the `.cfg` files give the constants values for TLC,
`*Proofs.tla` modules hold the theorems. Parts that share no state and no step are
checked in one run where that is convenient: `MCcircuits` (FIFO, control slave and laboratories), `MCHAL`
(descriptors and alarms) and `MChello_world` (the program, and the dispatch of
interrupts, which the DMA does not use) choose in their initial state one part
whose behaviour they follow, in the variable `part`; nothing is interleaved that the code keeps apart.

### How Verilog becomes TLA+

* One step is one edge of the common clock. A module's registers are its
  `VARIABLES`, the input ports are parameters of its operator `Edge`, and its
  combinational outputs are operators. Every branch of an always block is an
  operator with the branch condition as its guard; two always blocks of a module
  are conjuncts of `Edge`. Nonblocking assignments make "primed = function of
  unprimed" exact; where a later assignment of a branch overrides an earlier one
  (`write_master.v`, lines 57-70) the operator states the result.
* `DMAFinal` instantiates the four parts under the instance names of
  `DMAFinal.v` (`control`, `wm`, `rm`, `fi`) and conjoins their edges.
* Signals keep their names; flags that the code compares with 0 and 1 are numbers,
  the flags of the FIFO are Booleans. Registers wrap at `M` (2^32) and positions at
  `2 * HALF` (2^8).
* The accesses of the CPU are a record `bus`: the fabric selects the slave exactly
  when it reads or writes it.
* The reset is a step of its own that may come at any time. In the DMA it reaches
  every part, the interconnect and the CPU (one reset network in `System.qsys`).

### DMASystem: controller and environment

`DMASystem` adds what surrounds the controller and is not hand-written code; its
definitions are marked external in the map. An accepted read is answered in the next
cycle (the on-chip memories have a read latency of one), any access may be told to
wait, the CPU makes any access of `CpuAccess` in any cycle. Three devices keep the
model small:

* A source word is represented by its address. Every word of the source differs from
  every other, so that any mix-up of words is visible; a copy of equal words could
  hide it.
* `mem` is what was written to the destination memory since the last reset (`NoData`
  elsewhere): a write outside the block cannot hide.
* `job` is a history variable: the parameters with which the masters were started.

`BlockCopy` is what the controller promises its software, in four actions: start once
per reset, copy the words in ascending order, report the end once, be reset. The
report may come while the last word is still outstanding: this is weaker than one
would expect, and it is what the code does (see section 5).

### hello_world

The program is one more thread on `DMASystem`: a step of the program is a clock
cycle with its bus access, and any number of cycles without an access may pass
between two steps. `IORD` returns the value `oReaddata` has before the edge, because
the slave has read latency 0 in `DMA_hw.tcl` but registers its output. The C variable
`enable` survives a reset that does not load the program anew; then `main` returns
without polling. The printing
loop prints `length` bytes; a byte is represented by the word it belongs to.

### The HAL

`alt_file`: the HAL of this system has one thread, its semaphores expand to nothing and
no handler calls it, so a call is one step. Names are sequences of components. A
descriptor is its device and the flags the layer looks at. What a driver's `open()`
answers is free for those in `MayFail`. `held` is a history variable: what the program
asked of every descriptor it holds. `DeviceLocks` is what the layer promises about
exclusive access. It is weaker than the text in `alt_fd_lock.c`: the holder need not be
the only user (section 5).

`alt_tick`: a tick interrupt is `alt_tick` (count) and then one step per alarm of the
list (`Skip` or `Callback`), so that a callback may start an alarm or stop one in the
middle of the walk. A callback does not stop the very next alarm: after that the code's walk never
ends (section 5), and nothing in the repository registers such a callback. The program's calls come between ticks, as its critical sections
enforce. `left` is a history variable: the ticks until the next callback. It does not
look at the counter, so that a wrong treatment of a rollover shows. The time
of day is a pair of operators on the counter. `settimeofday()` multiplies in 32 bits, `gettimeofday()`
in 64: `TimeOfDayKept` holds on all ticks, with a drift (the same for every later reading, and less
than a second) once the product has wrapped, and without one before.

`alt_irq`: `contexts` is the stack of the program and of the handlers on top of it, each with the
values of PIE its open critical sections will restore and the mask it will restore if
it is interruptible. A function that has interrupts off from its first to its last
write is one step. Any context may register, enable, disable, open sections and answer devices;
`NestedCalls` says whether single interrupts are switched while a handler below is
interruptible (section 5).

`altera_avalon_jtag_uart`: the interrupt routine takes one step per access to a register, the program
one per access to a variable it shares with the routine; `memcpy` and the update
of the position are two steps. Both run on one processor: while the routine runs
(`isr`) the program stands still, while hardware and host go on.
`RI`, `WI`, `WSPACE`, the FIFOs, `pause_irq` and `ac` are translated from the core's Verilog
(`System_jtag_uart_0.v`). Its `fifo_AE` and `fifo_AF` are registers and lag the level by a clock; as
the processor needs several clocks between two accesses, this only means that an event of the
host on the last of them counts as one that comes after the access. What the host does through the JTAG
link is free: it sends when there is room, pauses (which is activity, and is remembered when there
is something to read) and takes what was sent (which is no activity). `ReceiveTooEarly` is the race on which the data register answers "not valid, one
available". Characters are numbers in the order they are sent. `quiet` is a history
variable: since the call began the host has been inactive for the agreed time.

### The small modules

`fsm_student_ID` keeps two histories (what was asked, what was shown) to state its
property over whole runs. `clock_divider` keeps the number of edges since the last
reset modulo a period. `median_filter` keeps the windows of the three stages.
`image_to_grayscale` writes every wire with its width. Two properties keep two questions apart:
`NoOverflow` that no wire loses a bit (weighed sum, rounding, selected bits and brightness
each fit), and `FullRange`, which the code does not keep (section 5), that the result is the
sum of 256ths divided by 256. `ShowsNumber` claims nothing of a run that is asked for 0 (section 5).

## 3. What the runs check

| run | module, instance | question |
|---|---|---|
| `circuits` | `FIFO` with `HALF = 4`; `control_slave`, any CPU, any `iMW_done`; divider 60 of 64; `fsm_student_ID`, all inputs; median of {0, 1}, all windows; grey, six values per colour, five brightnesses | registers fit; exact flags and refinement of `BoundedQueue`; status, unreadable DONE, one start per reset (`OneShotStart`); exact square wave; the number is shown and the run ends; pipelined median of nine; no wire of the grey converter loses a bit |
| `grey` | `image_to_grayscale`, the same pixels | *violated*: the grey value has the range 0 to 255 |
| `control_go` | `control_slave`, any CPU, any `iMW_done` | *violated*: GO starts an idle DMA |
| `dma` | `DMASystem`, `HALF = 2`, blocks of 1 to 3 words | nothing lost, reordered, written outside the block or rewritten under the masters, accesses held, refinement of `BlockCopy`, and under fairness that transfers end and blocks arrive |
| `dma_long` | same, blocks of 4 words | *violated*: the block arrives |
| `dma_release` | same, blocks of 1 and 3 words | *violated*: the write master stops after DONE |
| `hello` | `hello_world`, block of 3 words; `alt_irq`, three interrupts | starts what it describes, returns, prints only old or copied bytes, copy completes; sections and handlers undisturbed, no vanished handler called, the most urgent interrupt served |
| `hello_poll` | same | *violated*: what is printed is the copy |
| `irq_nested` | same, `NestedCalls = TRUE` | *violated*: only more urgent interrupts interrupt a handler |
| `hal` | `alt_file`, six descriptors, three drivers; `alt_tick`, 3-bit counter, two alarms | pool matches what the program holds, streams, one holder, refinement of `DeviceLocks`; callbacks on time and coming, time of day |
| `hal_lock` | same | *violated*: whoever gets the lock is the only user |
| `uart` | both builds, ring buffer of 3 places, hardware FIFOs of 2 | order, wake-ups, promises, calls return |

### The bounds and why they are enough

* `HALF = 4` on its own, `HALF = 2` in the system: the FIFO's arithmetic only
  distinguishes the half and the whole of its positions. Even with 2 there is a level
  between empty and full, and the positions wrap after four words. The theorems of `FIFOProofs` cover every `HALF`.
* Blocks of up to `HALF + 1` words reach the full FIFO and a full FIFO with the
  read master holding; `HALF + 2` words are the first length that can lose a word,
  and the runs `dma` and `dma_long` are on both sides of that boundary. That nothing is
  written outside the block and that accesses are held is proved for blocks of any length.
* `M = 32`: 5-bit addresses, 8 words. Destination 24 with 3 words wraps round the
  address space; the masters compare addresses for equality only. `M` has to be at
  least 16 for the bit GO of `control`; the control slave on its own has `M = 16`.
* `CpuAccess` holds writes of every register (two sources, two destinations, three
  lengths, GO), reads of the status, and idle cycles: registers are rewritten
  before, at, and during a transfer; a length of 0 is what the reset leaves.
* The median filter consists of comparisons and selections, which commute with every
  monotone threshold function: if some window of 8-bit pixels had a wrong median, the
  threshold at the right value would give a window of zeros and ones with a wrong
  median. So {0, 1} is complete, not a sample.
  The run replaces the windows by their medians in the fingerprint (`VIEW`), which
  the property cannot tell apart.
* The grey converter is one expression; the colours and brightnesses lie at the ends
  of their ranges and next to the powers of two and the clamp.
* `TOGGLE_VALUE = 60` of a counter with 64 values: the relation of 25 000 000 to 2^26.

* `ALT_MAX_FD = 6`: three descriptors besides the standard streams, so that a pool can
  be full, have gaps and have one descriptor below, at and above the one in question. Two devices, one
  of them the console and never failing, one that may fail, and a file system; four names,
  one of which nothing answers to. A device may not have registered when the streams
  are redirected.
* `ULIMIT = 8`, delays 0, 1, 3 and 6: the shortest, one in the middle and the longest allowed;
  the counter comes round while alarms are waiting, two alarms are on either side of
  it. `RATE = 2` and `ALT_US = 6` make microseconds and seconds carry and borrow, and the product in
  `settimeofday()` wraps from tick 3 on, with drifts in both directions (8 is no multiple of 6).
* `NIRQ = 3`, two nested sections per context, `MAX_DEPTH = 3` handlers: with three
  interrupts no deeper stack can come about as long as `Undisturbed` holds; in
  `irq_nested` the bound cuts off what follows the violation. `MAX_SECTIONS` and `MAX_DEPTH` are
  bounds of the model only; the theorems hold for all values.
* `BUF_LEN = 3`, `DEPTH = 2`, `THRESHOLD = 1`: a ring buffer for two characters is
  empty, half full, full and wraps; counts of 0, 1 and 3 characters fit into nothing, into each
  buffer and into neither. `Limits` bounds how many characters each side sends: four in one direction
  take the buffer round and fill everything on the way, and mixed traffic has one
  and two. `INT_MAX = 4` leaves room for a default timeout of 2, one of 3 and none.

`MAX_SECTIONS`, `MAX_DEPTH` and `Limits` are the only bounds added to the code; the other
state spaces are finite because registers and tables are.

### Fairness

`FairSpec` of `DMASystem` assumes that the clock runs and that a request that is kept
up is not told to wait for ever: the generated arbiters (`altera_merlin_arbitrator`)
are round-robin. No fairness is assumed of the reset, and none of the CPU except in
`hello_world`, where it executes its program. `fsm_student_ID` has a running clock.

`AlarmFairness`: the clock ticks and the interrupt handler is not left half-way.
`IrqFairness`: the processor takes an interrupt when it can (strongly fair, as critical
sections come and go), sections end, handlers return and handlers that made themselves interruptible
take it back (the comment at `alt_legacy_irq.h` line 108 requires it). The host need not
exist in `altera_avalon_jtag_uart` for its safety properties; `CallsReturn` is stated with a host
that takes what is sent and pauses at the end of what it sends (the core raises its
pause interrupt then), with a processor that executes program and routine. The alarm is
not fair: no call depends on a timeout. `MCHAL` and `MChello_world` assume the
fairness of the part that the behaviour follows; a part that stands still is not
enabled there.

## 4. What is proved

TLAPS checks these for every value of the constants allowed by the assumptions.

* `FIFOProofs` (`FIFOAssumption`: `HALF > 0`, `NoData` is not a word).
  `TypeCorrect`, `FlagsCorrect`, `QueueImplemented`. The arithmetic comes first: remainder
  and quotient of a position (`DivMod`), the distance of two positions
  (`DistanceIs`), and that the comparison of top and low bits tells exactly the
  distances 0 and `HALF` (`BitsTellDistance`). The inductive invariant is
  `TypeOK /\ FlagsExact`: the flags are exact only because the distance never exceeds
  `HALF`, and it never does because pushes obey the flag. `EdgeEffect` states what an
  edge does to the words between the positions; the refinement follows from it by
  cases on which of the two requests takes effect, with the library's facts on sequences.
* `control_slaveProofs` (`ControlAssumption`: registers have at least four bits, the
  CPU makes bus accesses). `ControlTypeCorrect`, `StatusCorrect`, `DoneUnreadable`,
  `OneShotImplemented`. The invariant is the conjunction of the three properties: that
  DONE is never read needs that status is 0, 1 or 2, which needs that it follows
  `state`; that the start pulse lasts one cycle needs `enable`.
* `MCcircuitsProofs` (`FIFOAssumption`, `DividerAssumption`: `TOGGLE_VALUE` fits into the
  counter, `ByteAssumption`: pixels, colours and brightnesses lie in 0 .. 255).
  - `DividerTypeCorrect`, `AccurateCorrect`. The invariant adds that `count` is the time since
    the last change of `clk_out`; without it accuracy is not inductive.
  - `NoOverflowCorrect`, for all pixels and not only for the six colours of the run. Each
    weighed colour is bounded (`Weighed`), the sum is at most 65280 because the weights add up to
    256, the selected bits are at most 63, and a wire keeps what is below its capacity
    (`WireKeeps`).
  - `ShowsNumberCorrect`. The invariant (`NumberInv`) says which digits are shown in which state:
    from the first place of the digit asked for (0 excepted) up to the one of the state, all of them in IDLE.
  - `MedianOfWindowCorrect`, for all windows. The invariant (`PipelineInv`) says that each
    stage holds what its own window calls for; that the last one is the median is then a fact
    about nine numbers. Sorting a row keeps how many of it are below and above any value
    (`SortedCounts`), the network leaves at most four on either side (`FourAtMost`), and
    `CountNine` turns these sums into the cardinalities of `IsMedian`. The argument that zeros
    and ones suffice, which the run rests on, is not needed here.
  - `RegistersFitCorrect`, about FIFO, control slave and divider side by side.
* `DMASystemProofs` (`SystemAssumption`: `M` a multiple of 4 and at least 16, `HALF > 0`,
  the CPU makes bus accesses). `TypeCorrect` and `BlockFixedCorrect`, for arbitrary lengths.
  One lemma per part says what its edge preserves; the FIFO's are cited from
  `FIFOProofs` through an instance. The invariant `SysInv` adds to the two properties that
  the flags of the FIFO are exact (otherwise `write_master` could take an entry that was
  never written, and types would break), that status follows the sequencer, and
  `StartedOnce`: a transfer is recorded exactly when `enable` is set.
  The theorems about data assume that the CPU only writes lengths of whole words
  (`OnlyWholeBlocks`; section 6 says what other lengths do). What they say depends on the length as far as the code does, and no further:
  - For any length: `StaysInBlockCorrect` (nothing is written outside the block, lost words or
    not) and `AccessHeldCorrect`.
  - For any length, in a behaviour in which no word is dropped (`[]NoWordDropped`):
    `OrderedUnlessDropped` and `CopiesUnlessDropped`. So a word that arrives at a full FIFO
    is the only way in which the copy can go wrong.
  - For at most `HALF + 1` words (`OnlyShortBlocks`): `NoWordDroppedCorrect`, and with the two
    above `WordsInOrderCorrect` and `BlockCopyImplemented`. The bound is needed: TLC refutes
    the first two for blocks of `HALF + 2` words (the state `dma_long` goes through) and the
    refinement for `HALF + 3`, where the word after the lost one is written in its place.

  The inductive invariant says that before a transfer everything is at rest (`Quiet`), and that
  during one (`During`) there is a position `w`, the words `write_master` is done with, and a
  number of words that were lost, from which both addresses and the number of words under way
  follow (`Positions`), that the words before `w` are in memory (`Written`) and
  nothing is outside the block, and what the states of the masters tell (`WriteSide`, `ReadSide`). `LossyInv` lets
  the number of lost words be anything, which is why it holds for every length; `OrderedInv` has
  it 0 and adds that every word under way is the one of its place (`Ordered`); a step keeps
  that if it drops no word. The bound enters in one place: a word that
  arrived at a full FIFO of `HALF` words would be word `HALF + 1` of the block with all
  the others still in the FIFO; but `ReadSide` says that with nothing taken yet there is at
  most one word in the FIFO and no second one on its way. Lemmas `AddressIs`,
  `NextAddress` and `AddressInjective` carry the addresses round the end of the address
  space. One lemma per master says what an edge does seen from `w` (`WriteStep`,
  `ReadStep`), `FIFOEffect` the same of the FIFO, and `RunningStep` puts them together. The
  refinement maps a clock edge to a start, one copied word (word `w`), a report, a
  copied word with a report, or nothing.

* `hello_worldProofs` (`ProgramAssumption`: a block of whole words; `AccessAssumption`: the
  CPU makes the accesses of this program and no others). `ProgramIsCpu` maps every step of program and
  controller to one of `DMASystem`, so that its theorems hold under the program;
  `OnlyWholeBlocks` is no hypothesis here, but follows (`ProgramWhole`).
  `StartedCorrect`: the invariant `Configured` follows the four writes, before the last of which
  nothing can start. `PrintedUnlessDropped` and `PrintedCorrect` (for `length` up to
  `4 * (HALF + 1)`; the program has 32 and the FIFO room for 128 words) rest on
  `OldOrCopied`: a place of the destination is as it was or holds its own word, which follows from
  `OrderedInv` at each store.

* `MCHALProofs`, descriptors (`FileAssumption`: more than three descriptors, names and devices told
  apart). `TypeCorrect`, `PoolMatchesHeldCorrect`, `StandardStreamsCorrect`,
  `OneHolderCorrect`, `LocksImplemented`. `FileInv` adds to the properties that the standard descriptors are
  always in use (so `alt_get_fd` never hands one out), that nothing is locked before
  `main`, that what is in use lies at or below the mark (`BelowMark`), and
  `OthersAbove`: whoever shares a device with the holder of its lock has a higher
  descriptor. That is why `OneHolder` holds although `alt_fd_lock` skips the descriptor at
  the mark: the one it overlooks is above the holder, and would itself see the holder,
  below the mark, when it asked for the lock.
* `MCHALProofs`, alarms (`TickAssumption`: delays of at most 2^32 - 2, a rate that divides a
  second). `AlarmTypeCorrect`, `CallbackOnTimeCorrect`, `TimeOfDayCorrect`. The first lemmas are about the
  list: `Cut` says which alarms a walk has behind it and before it, and `WithoutCut` that taking
  out an alarm other than the current one keeps that. `AlarmInv` says of every alarm that
  its time is the counter plus what is left; behind the walk its flag is set exactly when that
  sum has wrapped (`Settled`), before it when the same sum had wrapped at the previous tick (`Pending`).
  The time of day is arithmetic of products and remainders: a number of ticks is seconds and
  microseconds (`TicksAsTime`), a later tick is in no earlier second (`DivMonotone`), one borrow or one carry is enough to
  normalise the sum (`Normalised`), and a sum that the drift takes below 0 is less than a second below it and becomes 0
  (`BeforeZero`). `Drift` names what the 32-bit product loses: the witness of the drift in the property, 0 as long as
  nothing wraps.
  `HalTypeCorrect` is about both parts side by side.
* `alt_irqProofs` (`IrqAssumption`). `IrqTypeCorrect`, `HandlerThereCorrect`, and, if
  `NestedCalls` is `FALSE`, `UndisturbedCorrect`. `HandlerInv` says that what the controller lets
  through is active and registered. `NestInv` describes the stack: each context below another has let
  itself be interrupted and holds no section (`Nested`), PIE is on, or will be at the end of
  a section, only where the context is open (`StatusFits`), mask and controller follow
  from the innermost context that is open (`MaskFits`, `EnableFits`). The last is what
  `NestedCalls = TRUE` breaks.
* `altera_avalon_jtag_uartProofs` (`UartAssumption`: a ring buffer of at least two places, a
  threshold below the depth of the hardware's FIFO, a timeout of at least two and below
  `INT_MAX`). `TypeCorrect`, `InOrderCorrect`, `NoLostWakeupCorrect`, `AsPromisedCorrect`. The
  properties speak of sequences and remainders; the proofs first turn both into comparisons of
  places (`StepIs`, `DistIs`, and `Added`, `Taken`, `TakenFilled` for what an access does
  to the places from a position on). `UartInv` says place by place what the ring buffers hold
  (`Sending`, `Receiving`) and what each of the two actors may rely on while the other
  runs. The program, between reading the positions and copying, relies on room that only grows
  (`tx_in + Len(chunk)` stays below the end) and on characters that stay where they are. The routine relies on
  `isr.space <= WSPACE`, because the host only ever makes room, and on there being a character when it is
  about to receive: in the hardware's FIFO, or already in the ring buffer (`Awake`), which is why
  turning the read interrupt off after a full ring buffer leaves something to be
  read. A write that waits looked at a full ring buffer: what was taken since and what is left
  add up to `BUF_LEN - 1` (`Waiting`), so `tx_out` cannot have come round to the value it saw and
  a moved `tx_out` is always noticed. `WhoChanges` and `WhereFrom` say which steps touch what, so that
  every part of the invariant is shown to be kept by the few steps that concern it.

Every safety property and every refinement that a passing run checks is proved. Only
model-checked are the properties about liveness, since TLAPS has no rule for fairness and ENABLED
here: `RunEnds`, `TransferEnds`, `BlockArrives`, `MainReturns`, `CopyCompletes`, `UrgentServed`,
`AlarmComes`, `CallsReturn`; and, being refuted, the properties of the runs marked *violated*.

## 5. Where code and text disagree

The runs marked *violated* check a sentence of the repository that the code does not keep.

* `control_go`: "khi cpu cau hinh GO = 1 thi DMA bat dau hoat dong" (when the CPU sets
  GO = 1 the DMA starts). `enable` is set by the first transfer and cleared only by a
  reset, so a second GO is stored and never acted on.
* `dma_long`: the length of a block is not limited by any text, but from `HALF + 2`
  words (130 in the code) on a word can be lost: the read master looks at
  `FF_almostfull` before it issues a read; if the level reaches `HALF` with that read
  in flight, the word arrives at a full FIFO. The transfer then never ends. It needs
  a write master that is kept waiting, which the shared memory makes possible.
* `dma_release`: when the last write is told to wait, the write master announces the
  end, goes through state 2 and returns to state 0 with `oWM_write` still 1. The last
  word is then written again and again, also over what the CPU stores there later.
* `hello_poll`: the polling loop is left when the status is at most 2, which it always
  is; the program prints the destination while it is being written. A loop that
  waited for DONE would not end either (`DoneNeverRead`).
* `grey`: the weights of `image_to_grayscale.v` are 256ths ("0.299 * 256 ≈ 77", lines 11 to 13) and
  `gray_out` is the "Grayscale output (0-255)" (line 5), but line 17 takes bits 17 to 10 of the sum: it
  is divided by 1024, and white becomes 63. Bits 15 to 8 would be the division by 256.
* `hal_lock`: "If there are no other open file descriptors which reference the same
  device, then alt_fd_lock() will grant the lock" (`alt_fd_lock.c`, lines 43 to 44). The
  search ends before `alt_max_fd`, which is the highest descriptor in use, while
  `alt_file_locked` goes up to it. With the device open twice, the lower descriptor gets
  the lock. Two holders do not come of it (`OneHolder`).
* `irq_nested`: `alt_irq_interruptible` is "used to allow higer priority interrupts to
  interrupt the current ISR" (`alt_legacy_irq.h`, lines 103 to 104). It masks the others in
  `ienable`; but `alt_irq_enable` and `alt_irq_disable` write `alt_irq_active` there without the
  mask, so that a call above an interruptible handler lets in that handler's own
  interrupt and less urgent ones.

Further observations about the BSP without a run of their own: closing a standard stream
keeps its lock, although `alt_fd_lock.c` line 47 says `close()` releases it, since the
descriptor is never given back; a stream left on `/dev/null` has access mode read-only;
a redirection gives the temporary descriptor back without a `close()` of the device; no
call checks that a descriptor is open or below `ALT_MAX_FD`; a callback that stops the
next alarm makes `alt_tick` walk on from an element that points to itself, for ever; a delay
of 2^32 - 1 fires on the current tick; `settimeofday` multiplies in 32 bits where
`gettimeofday` uses 64, so that from 2^32 microseconds on an immediate `gettimeofday` can differ
by less than a second from what was set (`alt_settod.c`, lines 61 to 63, says it returns that value); the comment in the UART's routine that "the buffer is full" (lines
158 to 159 of `altera_avalon_jtag_uart_init.c`) does not hold when a character comes in on
the edge of the last read, which is harmless (`NoLostWakeup`); a blocking read or write of no
characters answers like a failure (`-EIO`); the small driver waits for ever without a
host.

Two further observations follow from the models without a run of their own:
`oWM_done` can come before the last word is in memory (the last disjunct of
`BlockCopy!Report` is needed because of it, as is the exception of the last word);
asked for 0 the state machine shows 0 2 0 0, whereas `tb_fsm_student_ID.v` line 71 announces
0 2 0 2 0 0, which is no end of the number: `ShowsNumber` leaves that input out.

## 6. What is not modelled

* `segment7_decoder.v`: a stateless table; a property would be the table again.
* `DE2_TOP.v`: instantiates nothing.
* Testbenches, Python conversions of image files, bitmap and hex data.
* Interconnect, Nios II and on-chip memories: what the modelled parts see of them is their
  environment. Of the UART's core the two FIFO macros and the JTAG link.
* The rest of the BSP: `alt_log_printf.c`, `alt_printf.c` (formatting), `alt_gmon.c` and
  `alt_mcount.S` (profiling, off in `public.mk`), `alt_sbrk.c` (one comparison), `alt_busy_sleep.c`, cache
  and loader loops, flash and DMA headers of devices the system does not have, `alt_instruction_exception_*`
  (a pointer that is set and called), and the system calls that only answer `ENOSYS`. What
  is left of these after formatting is taken away has no state that a step of another part could
  disturb. Most lines of the BSP are licence texts, comments and declarations of
  this kind, so that the map names a small share of all lines, though it names nearly all of the
  functions that change shared state.
* Direct drivers (`ALT_USE_DIRECT_DRIVERS`), MicroC/OS-II and an external interrupt controller:
  `system.h` selects none of them.
* The order in which an optimising compiler stores to ring buffer and position. `tx_in`,
  `rx_out` and `host_inactive` are not volatile, though the comment in `altera_avalon_jtag_uart.h` (lines 103
  to 106) relies on volatile variables; the models take the order of the source, and
  a `host_inactive` that is read every time round. With a loop that keeps it in a register
  a blocked call would not see the timeout.
* Spurious interrupts (a request that is withdrawn before `ipending` is read): the
  inner loop of `alt_irq_handler` would not end. Devices hold their requests in the model.
* Lengths that are no positive multiple of 4: they are in no run of the software; the
  masters would run round the whole address space. The properties exclude them by
  name (`WholeWords`).
* Bits WORD, HW and BYTE of `control`: the code declares and never uses them.

## 7. Plan

Done, in this order: `FIFO`, `control_slave`, the masters, `DMAFinal`/`DMASystem`,
`BlockCopy`, `hello_world`, the small modules; the software under the program: `alt_file` with
`DeviceLocks`, `alt_tick`, `alt_irq` and `altera_avalon_jtag_uart`; proofs of all safety
properties and refinements, of the DMA for blocks of any length.

What would come next:

1. How many words a long block can lose: the models show one per overflow, and how often it
   can come depends on the length.
2. `alt_file` composed with the driver: what a `close()` of the console leaves in the ring buffer
   when `main` returns.
3. `segment7_decoder` composed with the state machine.
