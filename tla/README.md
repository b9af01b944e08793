# A verification project for the matrix accelerator

TLA+ modules, TLC configurations and TLAPS proofs for the matrix accelerator of
the thesis repository: memory mapped hardware in Bluespec (BSV) on a RISC-V
system on chip (SoC), the functional units and the floating-point pipelines it
is built from, the memory controller, fabric and UART beside it, the firmware
that drives it and prints its results, and the programs of the host that
simulate it. The reference is the source; the thesis text (`src/tex/main.tex`)
is quoted only where the two disagree.

Paths below are short: `HW` is `src/src/accel_soc_hw`, `FW` is
`src/src/accel_soc_fw/src`, `MP` is `HW/src_accel/unit_design_mem_parallel/src`
(the accelerator with one memory port per unit, the latest design), `BU` is
`HW/src_bsv_units` and `TB` is `HW/src_Testbench`.

## 1. Inventory

| component | state it keeps | operations | hard behaviour |
|---|---|---|---|
| accelerator `MP/Accel_Model.bsv` | control and command registers, data memory, a pending execute, per unit: command, busy, count, done, result | bus read, bus write, reset, decode, load, latch, write back, busy map | units, bus and decoder race; commands are dropped; resets strike mid-job |
| FusedMA unit `BU/ZipReduceServer_FMA` | state, counters, accumulator, pipeline | Init, ReqOp, response, get | counts products on its own; length 0 |
| PipelinedMA unit `BU/ZipReduceServer_PMA` | as above with product registers | the same | put stays open while products are in flight; register file smaller than a job |
| PairwiseMA unit `BU/ZipReduceServer_PMPA` | buffer, remainder buffer, five counters | the same | passes in place, requests ahead of responses; odd counts; a second job |
| floating-point units `BU/DivideTest/build_dir` (the library's units as C++, with their bench) | queues between the stages of multiply-add and divide, the divider's own pipeline | stage rules, put, get; the bench asks twice for a sum and once for a quotient | rounding, subnormals, exceptions; stages that wait; reset with operations under way |
| memory controller `TB/SoC/Mem_Controller.bsv` | one cached word, merged request, raw memory FIFOs | merge, hit, miss, write back, reload, reset | posted write backs; reset with a dirty word |
| raw memory `MP/Mem_Model.bsv` | register file | read, write | none of its own |
| AXI4 transactor `TB/Fabrics/AXI4/AXI4_Types.bsv` | five FIFOs of two | enq, deq, clear | cleared by a reset while requests are in flight |
| AXI4 fabric, deburster `TB/Fabrics/AXI4` | route FIFOs, burst counters | route, join, split | write data must follow addresses; responses must find their way back; head-of-line waiting; the deburster is not in the joint reset |
| firmware, matrix test `FW/main.c`, `FW/accelerator.h` | bump allocator, command pointers, loop index | allocate, load, execute, poll, compare | polls one unit of four; reads a late busy map; allocations must not overlap |
| firmware, printing `FW/printf.c`, `FW/libc.h`, `FW/ns16550.c` | a buffer of 32 characters on the stack, the output position | one conversion per directive; the loops that print | flags, widths, precisions and rounding meet in one buffer |
| UART and console `TB/SoC/UART_Model.bsv`, `MP/SoC_Top.bsv`, `TB/Top` | registers, data-ready, queues from and to the console, transactor | bus read, bus write, receive, reset, relay | data-ready shared by two rules; a status that never says full; reset with characters queued |
| boot ROM `TB/SoC/Boot_ROM.bsv`, `TB/SoC/Boot_ROM_Generator` | three processes and two pipes; the generated functions | fork, write, compile, read, print, generate | ends of pipes; failures after part of the data |
| debug server, trace, symbols `TB/Top` (`Top_HW_Side.bsv`, `C_Imported_Functions.c`) | socket, control queues, trace buffer | listen, receive, send, write vectors, look up | bytes arrive in pieces; blocking calls; end of simulation |
| SoC reset `MP/SoC_Top.bsv` | reset state | start, complete, NDM reset | slaves reset one by one |
| timer `TB/SoC` | device registers | bus read, bus write, tick | interrupt and compare races |
| test peripheral, register accelerator `MP/Test_Model.bsv`, `HW/src_accel/unit_design` | registers | bus read, bus write | earlier designs |

How they interact: the processor's stores reach a slave through fabric,
deburster and transactor; the firmware's stores to the command registers become
commands of `mkAccel`, which hands operands from its data memory to its units,
which hand products to the floating-point pipelines; characters go to the UART
the same way and on to the host, which also feeds the debug module through two
queues. Reset requests and responses are the only other path.

What makes each correct:

- accelerator: a command that is accepted computes the dot product it names and
  stores it once, whatever the other units, the bus and resets do; the bus
  never blocks for good; software's view of busy units catches up;
- functional unit: of a job of n pairs it delivers the sum of these n products
  and nothing else, for any number of jobs;
- floating-point units: every request is answered once, in order, with the
  rounded result and its exceptions, however slowly answers are taken;
- memory controller: a memory, in spite of the cache and the posted writes; a
  reset loses at most what had not been saved;
- fabric: every request reaches one slave and is answered once, in order;
- deburster: a burst means the single accesses AXI4 says it means;
- firmware: no command it issues is dropped, results are read when stored and
  where they were put; a directive prints what C says it prints;
- UART: what is stored appears on the screen in order and whole, what is typed
  is read in order and once, but for what a reset may lose;
- boot ROM: it holds the whole tree, or there is none, and the generator ends;
- debug server: a client gets the answers to its commands, in order, whatever
  the sizes of the pieces; the trace holds whole vectors.

## 2. Modules

| module | models | state and actions against the code |
|---|---|---|
| `MatTypes` | values, addresses, commands | `MatUnitPtr`, `MatUnitArgs`; an address is a cell index, a value a member of `Value`, the FPU's operation the constant operator `Madd` |
| `FusedMA` | the FusedMA unit, one per bank | one variable per register, `fpu_madd` for the pipeline; one action per rule and method |
| `Accel` | `mkAccel` with its FusedMA units and slave port | one action per rule; `BusWrite`, `BusRead`, `ResetRequest`, ... are the environment's method calls |
| `MatUnits` | abstract: sequential coprocessors over one memory | what software may rely on |
| `AccelProofs` | theorems about `Accel` | section 6 |
| `ZipReduce` | abstract: a functional unit and its client | a value is the bag of products it sums |
| `PipelinedMA`, `PairwiseMA` | the other two units with the test bench's client | one action per rule and method; `Promise` is what the first delivers of jobs longer than its registers, too |
| `ZipReduceProofs` | theorems about the two | section 6 |
| `FloatingPoint` | the binary format, and what rounding an exact quotient of naturals means | the format as the generated code carries it; the meaning is the reference and shares nothing with it |
| `FusedMultiplyAdd`, `FloatDivide` | the stages of the two pipelines, and the integer divider | one function per stage, from what it takes out of a queue to what it puts into the next |
| `FPUnits` | the queues and the schedule of the stages | one step per clock cycle, last stage first, as the generated schedule runs them |
| `FPServer`, `DivideTest` | two clients of the units: any program of requests, and the test bench | requests put and answers taken now or later; `schedule_posedge_CLK` is the bench's cycle |
| `FPProofs` | theorems about the units and their clients | section 6 |
| `MemPort` | slave transactor FIFOs and request merging | `rl_merge_rd_req`, `rl_merge_wr_req` |
| `Memory` | abstract: a memory with saved content | what the fabric may rely on |
| `MemController` | `mkMem_Controller` and `mkMem_Model` | one action per rule |
| `MemControllerProofs` | theorems about `MemController` | section 6 |
| `Firmware` | the matrix test of `main.c`, and the accelerator's timing | one action per bus operation of the loop; all accelerator rules of a clock cycle as one step; pointers and offsets computed as in the code |
| `FirmwareProofs` | theorems about `Firmware` | section 6 |
| `Bursts` | abstract: a memory that is accessed in bursts | what the fabric may rely on |
| `Deburster` | `mkAXI4_Deburster` with its slave | one action per rule |
| `DebursterProofs` | theorems about `Deburster` | section 6 |
| `Fabric` | `mkAXI4_Fabric` between masters and slaves | one action per rule |
| `FabricProofs` | theorems about `Fabric` | section 6 |
| `Induction` | facts about naturals and sequences the proofs share | nothing of the code |
| `PrintfNumbers`, `Printf`, `LibC` | the conversions of `printf.c` and `libc.h` | one operator per C function; characters are those the C code puts, in its order |
| `PrintfReference` | abstract: what a directive prints | numerals by position and C's layout, without buffers |
| `UART` | `mkUART` with its transactor | one action per rule |
| `Console` | programs on the processor, relays, host terminal | one action per statement, bus access, relay and key |
| `DebugServer` | `Top_HW_Side.bsv` with its imported C functions, a client and the debug module's side | one action per system call and per rule; `call` is the C function the one thread is in |
| `BootRom` | generator, its child, the compiler's process, the script, and reads of the ROM | one action per system call |
| `MC...` | instances for TLC | constants, which inputs and clients there are, and the hypotheses of the theorems (`MCAssumption`), which TLC evaluates |

Conventions:

- **Rules are atomic.** BSV guarantees that a clock cycle is equivalent to its
  rules executed one at a time in some order; the models interleave single
  rules, which covers every schedule. The data memory is built of
  `mkRegFileWCF`, whose reads in the cycle of a write return the old value:
  that is the order "read first", which the rule order allows for every pair
  of rules here.
- **Implicit conditions** (FIFO not full, method ready) are conjuncts. The
  build uses `-aggressive-conditions`, so a condition guards only the branch
  that needs it: a drop in the decoder does not wait for the unit.
- **FIFOs.** The transactor's are sequences bounded by `BusDepth`; a write's
  address and data are one request, since every rule takes both or none. The
  reset FIFOs hold one element, because the SoC sends one reset at a time. In
  `MemController` the FIFOs to and from the raw memory hold one element and
  `mkMem_Model`'s own response FIFO is merged with the controller's.
- **The command register** is 20 bytes written by `memcpy`. It is modelled as
  two groups, the word with unit and count and the words with the pointers:
  enough for a command to be torn. Byte stores at odd addresses are
  `misaligned` and refused.
- **Floating point.** `Accel` is generic in `Madd`. `PipelinedMA` and
  `PairwiseMA` represent a sum by how often each product was added, so the
  order of additions, which only rounding tells apart, is left out. `FPUnits`
  computes the numbers; its format is a parameter, because 8 and 23 bits exceed
  TLC's integers.
- **Printing.** A double is an exact fraction, and a product or quotient of two
  is rounded to `DoubleDigits` digits. `PrintfReference` says what C prescribes,
  and shares with the library only what a directive is. Buffers, integer widths and limits are
  scaled down together and named after the macros and types. A literal of the
  firmware is one character.
- **Time.** `Firmware` and `FPUnits` count clock cycles: in the first the pace
  decides, in the second the generated code is a function of one cycle. In
  `Firmware` the processor is known by its bus operations, `MinGap` to `MaxGap`
  cycles apart, and a command by the cycles it takes.
- **System calls** of the host may return part of what was asked, block, or
  fail, `poll` and `close` of the debug server among them. Which one fails is a field of the session (`fault`), or in `BootRom` an
  initial choice. A byte has `Radix` values; the request of seven bytes has
  four here, and the response of four has two.
- **Exceptions** of the floating-point units are compared, all five of them.
  `RoundExact` reports underflow of a result that is tiny and inexact;
  `ProductExceptions` adds what the multiply-add pipeline reports of the product
  by itself, as overflow or underflow, although the sum may have neither.
- **Bursts and beats.** In `Fabric` the content of a beat is the burst it
  belongs to, in `Deburster` it is data. Bursts of one master that are under
  way together are told apart by a tag.
- **Undefined behaviour** (a unit number above the banks, operands outside the
  memory) is excluded by the assumption `MatTypesAssumption`; a read of a
  register beyond a `Vector` is a nondeterministic choice (`OutAt` in
  `PipelinedMA`); uninitialised cache registers are arbitrary. The directives
  printed are those `Covered` names in `PrintfReference`; section 5 lists what
  the others do.

A definition whose comment starts with "Mutation" is a plausible bug kept
beside the action it distorts. No specification uses it: each shows that a
property would notice.

## 3. Runs

| run | question | instance |
|---|---|---|
| `accel_core` | do the invariants hold, does `Accel` implement `MatUnits`, and is a finished result the dot product? | 2 units with 2 and 1 products amid commands alone, or 1 unit amid all kinds of reads and writes (`traffic`); 4 cells, 2 values |
| `accel_live` | are executes decoded, commands finished, busy bits shown? | 2 units, lengths 0 and 1 |
| `zip` | do the pairwise passes keep the sum, for every length and twice; does the pipelined unit deliver each product that has a register, and nothing else; do jobs finish? | 2 jobs, 13 lengths from 1 to 18, 16 registers; either unit |
| `pmpa_odd` | does the pairwise unit sum lengths other than powers of two? (no) | length 3 |
| `fpu` | are sums and quotients rounded, answered once and in order; does the bench sum what it asked for? | 4 exponent and 2 significand bits, 5 rounding modes; single requests over a grid, 125 programs of three, or the bench with a reset |
| `fpu_single` | is a sum the exact one, rounded once? (no) | as `fpu`, single sums |
| `mem` | is the controller a memory that loses one word at most, and are reads answered? | 2 words, 2 lanes, 2 values, resets, one refused request |
| `firmware` | is a command dropped, is the result matrix the product when it is read? | 4 units, 9 commands of 80 to 83 cycles, 4 or 5 cycles between bus operations |
| `deburst` | do the single accesses mean what the burst means? | 4 bytes, bursts of 1, 2 and 4 beats, two of them wrapping |
| `fabric` | do data and answers find their way, without a circle? | 2 masters, one of which writes, 2 slaves and an address of none |
| `console` | are directives formatted as C means them; do printed and typed characters arrive, in order, across a reset? | a grid of directives, each into buffers of 0, 1, 4 and 18 characters; three printing programs, one that reads; FIFOs of two |
| `host` | does the debug client get its answers, is the trace whole; does the ROM hold the whole tree; do both end? | sessions of 0 to 5 commands in all cuts, each failing call; a tree of 3 bytes, compiled 5, in pipes of 2 |

Where two programs do not interact, one run holds both and the initial state
says which is there (`accel_core`: the commands or all traffic; `zip`: the
pairwise or the pipelined unit; `fpu`: programs
or the bench; `host`: the generator or the simulator): the variables of the
other stay as they are.

Why the bounds are enough. Two units are the fewest that compete for the
writer and for a command; two products in one of them distinguish the first,
the last and a later product; `MCMadd` is not commutative over a job, so that
order, loss and repetition change the sum; `CounterSize = 4` lets length 0
reach the counter's wrap. The lengths of `zip` give every pattern of
remainders of three passes, and those of a fourth that differ; one job fills
the pipelined unit's registers and one is two products longer. In `mem` one word
is cached while the other is written back, with a lane written beside another.
In `firmware` nine commands (a result of three by three) take every unit
through two commands and one through a third, with polls in between; offsets of
three bits hold the largest multiple of three that is used, and the data memory
ends shortly after the last result. In `deburst` the queue of lengths holds
two, so that the request side is one burst ahead of the response side and meets
its limit; in `fabric` each master has two bursts under way, which is what it
takes to wait head of line, and there are as many slaves as it takes to answer
out of order. Writes and reads of the deburster and of the fabric use different
registers and rules, so that these two instances let only one kind be under way
at a time.

In `fpu` the format has subnormals, normals on both sides of one and overflow,
and a significand that is rounded up into the next power; the product is cut
to two digits more than the significand, as in the chip; the grid has each kind
of number in each place. Three requests are enough for a sum to wait behind a
quotient, an answer known at once behind one that takes all cycles, and for a
pipeline to fill while nobody takes its answers. In `console` integers have 6 bits
and buffers 12 characters, so that widths of 5 and precisions of 3 meet zeros,
sign and prefix, and every fraction n/1, n/8, n/32 is exact: ties, nines and
carries occur. The bus and the console queue hold two characters each, so a
text of three fills both. In `host` a socket holds a command and a byte of the
next, and a pipe less than a tree, so every process meets a full and an empty
pipe and every read may return less than was asked.

The firmware's margin is worth spelling out. The time between two commands for
unit k is the time unit 0 took plus 4(k + 1) bus operations, against the time unit
k took plus the 4k operations after which it had been started. With all commands
equally long this asks that 16 MinGap exceed 12 MaxGap by the spread of the
execution times and the cycles that decode and busy map lag: a steady pace
suffices. When the gaps vary from 3 to 6 the same model drops commands.

`CHECK_DEADLOCK FALSE` is used where the system really stops: the functional
units' client stops after `Jobs` jobs (`zip`, `pmpa_odd`), the firmware when it
has read the results, the programs of `console` at their end, and the programs
of `host` when they exit.

## 4. Fairness

A BSV rule fires in every cycle in which it is enabled and no conflicting rule
of higher urgency fires, which is weak fairness for rules without such a rival.
`rl_write_res` shares `server_busy` and the memory port with the decoder and
the bus, and prefers low units; a unit needs many cycles for a product and the
writer one cycle for a result, so a waiting unit is the lowest one again and
again and is then served: strong fairness. Nothing is assumed of the
environment: the bus may stop, resets may go on for ever (`ReadsAnswered`
excepts that case explicitly), and the fabric is only assumed to take the
memory's responses. `Fabric` assumes one weak fairness per master and one per
slave: masters send the data they announced and take their answers, slaves
serve what they are sent, and a rule of the fabric that moves a burst on fires
if it stays enabled; that a request is accepted at all is not assumed, since two
masters compete for a slave and BSV gives one of them urgency. `Deburster`
assumes the same of its rules. `Firmware` assumes that the clock ticks. In the
functional units the client's loop is fair, being an FSM or a rule (`zip`
assumes only that some rule of the unit or its client goes on).

The floating-point units assume that the clock ticks and, for
`AllAnswered`, that a cycle in which the client puts and takes comes again and
again; the bench takes answers in every cycle by its code. `Console` assumes
weak fairness of each rule of the UART, of the program, of the two relays
(methods called by rules of the top level that nothing blocks) and of the reset
under way; nobody has to type. `DebugServer` and `BootRom` assume weak fairness
per process and rule, which is what an operating system and the scheduler of
the simulation give, and none on failures. A debug client connects, sends the
whole of its commands and reads its answers: section 5 says what happens with one
that does not.

## 5. What the runs show

All properties of the passing runs hold. Two disagreements have a run. The
first is `pmpa_odd`: PairwiseMA collects remainders in `rem_buf` but accumulates from `buffer`, so
only powers of two are summed correctly. `PassesKeepSum` shows that this is
confined to the last phase: during the passes `buffer`, `rem_buf` and the adder
hold each product of the job once, for every length and job.

The second is `fpu_single`: `main.tex:1738-1745` promises a multiply-accumulate
with a single rounding step. The pipeline first cuts the product to two digits
more than the significand, the last one sticky, and saturates it; the addend
meets what is left. That is enough when they have the same sign and the addend's
last digit is not below those kept, or when the product has no more digits; if
not (`Disturbed`), the sum may differ from the one rounded once: with 4 and 2
bits, 0.875 - 0.875 * 1.75 is exactly -0.65625 and comes out as -0.75, the farther
of its neighbours, as the trace of the run shows. `MaddRounds` holds in both cases: where nothing is disturbed the
answer is the exact sum rounded once, and where something is it is that of a
product next to the exact one, on either side.

Seen while modelling, without a run of their own. In the hardware:

- The decoder drops a command when the unit it *names* is busy
  (`Accel_Model.bsv:379-391`), while `main.tex:1548-1553` speaks of all units
  being occupied. The firmware checks less than that text asks for: it looks
  at unit 0 only (see the margin above).
- The PipelinedMA unit has 32 product registers, but declares
  `max_alloc_size = 128` and its test bench asks for 128 products: those beyond
  the registers are lost, and the additions meant for them add whatever a
  register that does not exist reads as. `PipelinedDelivers` is about such jobs,
  too: it says which products are lost, and that nothing else is.
- PairwiseMA does not reset `acc` on Init: a second job starts with the result
  of the first.
- Each master of the fabric has a queue of tasks for its write data, but nothing
  orders the data of two masters at one slave (`AXI4_Fabric.bsv:251`): the
  addresses may arrive in one order and the data in the other. In this system
  only the data master writes, and `fabric` shows that one writer is safe; a
  third master that writes, for which `SoC_Map.bsv` has a number
  (`accel0_master_num`), would meet it.
- The deburster advances bursts of type FIXED like incrementing ones
  (`AXI4_Deburster.bsv:142-156`), while `AXI4_Mem_Model.bsv:96` advances for
  incrementing bursts only. `DebursterAssumption` excludes them.
- The fabric answers a write to no slave before the data of that write was
  dropped; `fabric` has this case and nothing depends on the order.
- The fabric's reset leaves `v_rg_r_err_beat_count` alone, and the joint reset
  does not reach the debursters and the boot ROM (`SoC_Top.bsv:264`). A reset
  with bursts under way is requested by the debug module only, which this build
  leaves out.
- In this design the boot ROM is a memory controller, which, unlike
  `Boot_ROM.bsv`, does not wait for its address map (`SoC_Top.bsv:143`).
- A unit number of at least the number of banks selects a register that does
  not exist (`Accel_Model.bsv:379`), and operand addresses outside the data
  memory are truncated to cells inside it (`:405`).
- `accel0_slave_num` equals `test_slave_num` in `SoC_Map.bsv:358-360`, which
  shows only in a build with `INCLUDE_ACCEL0`.
- Rounding mode 1, "nearest away", rounds everything inexact away from zero.
- The reset of the UART forgets data-ready but keeps the queue of received
  characters: it loses one key at most when it is the first, and two when it
  strikes a running system, and as many characters as the bus holds. `Console`
  notes which characters those are (`taken`, `struck`), and `ReceivedInOrder` lets
  no other be missing.
- The line status says that the transmitter is empty, always. No character is
  lost, because a full queue blocks the bus; a driver gains nothing by polling.

In the firmware's `printf.c`, outside of `Covered`:

- Precisions: a negative one given by `*` is taken for 0 and not as omitted, so
  that `%.*s` prints nothing; `%-8.4d` ignores its precision; one of 42 or more
  reads behind the table of powers.
- `%hhd` and `%hhi` print an unsigned character, which `char` is on RISC-V, but
  `signed char` is what C says: -1 is printed as 255.
- Prefixes are put over digits already there: `%#4x` of 0x1234 prints `0x34`,
  `%#3o` loses a digit, `%#0Nb` is one too long; `%#.No` gains a zero when the
  precision gave one already, and of 0 with precision 0 prints none.
- Numbers longer than the buffer of 32 characters lose sign or digits.
- Decimals: `%.1f` of 0.95 carries into no whole part when a tie and a fraction of
  nines meet. A fraction so close to a half that scaling it in doubles takes it to
  the half, or over it, is rounded from there.
- `%e` of 0 prints `0.000000e-308`; a mantissa that is rounded up to ten is printed
  as `10.00...`; and below a negative power of ten the exponent is estimated one
  too large, which gives mantissas of `0.9...`.
- `%F`, `%E` and `%G` write infinities and NaN in small letters; zeros pad them, a
  blank for a sign is left out, and NaN gets a plus.
- `%g` of finite numbers is left out of the comparison as a whole.
- `libc.h`: the loop bound `i>>2 - 1` means `i>>1`, which is right by accident;
  `itoa` of the smallest integer prints characters that are no digits.

In the programs of the host:

- A client that closes without `SHUTDOWN` makes `request_recv` loop for ever on
  a `read` of 0 bytes, and one that sends half a request stalls the simulation.
  `SHUTDOWN` sent before the answer to a `READ` was taken loses the answer.
  A client that never reads while it sends deadlocks with the server once both
  directions of the socket are full.
- `c_get_symbol_val` compares only as many characters as the symbol has, so an
  earlier longer symbol of the same beginning is taken for it, against the
  comment in `C_Imported_Functions.h`.
- The failure to open the trace file ends the simulation only after a client
  has connected; `rl_tv_vb_out` does not look at the status of the write.

## 6. Proofs

`AccelProofs` proves, for every number of units, memory size, value set,
`Madd`, command set and FIFO depth that satisfies the named assumptions
(`MatTypesAssumption`, `FusedMAAssumption`, `AccelAssumption`):

- `TypeCorrect`: `Spec => []TypeOK`;
- `InductiveInvariant`: `Spec => []IInv`, and from it `IdleUnitsAreClean`,
  `ProductsAreAccounted`, `DoneIsCompleteAlways`.

`IInv` is needed because none of the three is inductive: that the decoder's
`put` meets a READY unit depends on the writer having freed it only after its
result was latched, which depends on the unit having completed exactly with the
last product of its loader, which in turn depends on the two counters agreeing
in each phase. `BusyUnit` lists these phases (waiting for the loader, product
in flight, complete, result latched), and each rule moves a unit between them.

The same module proves `Refinement`: `Spec => ImplementsMatUnits`. Under the
mapping, a decode is `Accept`, a load is `Accumulate`, a write back is
`Finish`, a bus store is `Store`, and every other rule is a stutter; the last
needs `IInv`, since the mapped sum moves from the pipeline to the accumulator to
the result register without changing.

It also proves `ResultsAreDotProducts`: `Spec => []ResultIsDotProduct`.
`DotProduct` is defined by the recursive function `Sums`, which adds the
products of a command one by one. The invariant `SumsKept` says that the sum of
the refinement is `Sums` at the number of products loaded so far, for commands
whose operands are `Undisturbed` (no command puts its result there and the bus
stores nothing there): a load adds the next product to both, and no rule changes
a cell that a sum has read.

`ZipReduceProofs` proves, from `PairwiseMAAssumption`, for every size of the
buffers, depth of the adder, and all lengths and numbers of jobs:

- `PassesStayInPlace`: `Spec => []PassInPlace`, that no response of a pass
  overwrites an element that its requests have yet to read. `PassInPlace`
  compares two counters and is not inductive. `PassInv` adds that between
  passes the counters are reset (`Between`), and that within one requests and
  responses go in pairs of elements: what was requested is what was answered
  plus what is in flight, and the flag that the next address is free says
  whether the two counters differ (`InPass`);
- `NothingLost`: `Spec => []PassesKeepSum`, if there is a remainder cell for
  each binary digit of the buffer's size (`RemRoom`; the code has 128 cells and
  33 for remainders). It is about places: a request moves two cells of the buffer
  to one place in the adder's pipeline, a response moves the oldest place to a
  cell, a remainder moves the last cell to `rem_buf`, and each keeps every
  product in one place (`Merged`, `Moved`). `KeepInv` adds what must be known
  for the first pass to start with it (`Received`: which product is in which
  cell or stage while the client feeds) and for no pass to run out of remainder
  cells (`Room`: elements left, doubled once per remainder taken, never exceed
  the buffer);
- `PowersAreRight`: `Spec => []PowersDelivered`, under the same hypothesis. A
  power of two stays one when it is halved and is odd only when it is one
  (`PowerInv`), so the only remainder is the sum itself, which is also in
  `buffer[0]`. The laws of powers, which the provers do not know and which
  induction would give, are proved by counting the subsets of 1 .. n
  (`PowerCounts`, `PowerDoubles`).

It also proves, for any number of registers and jobs of every length, from
`OutAssumption` (that there are registers, or none) besides:

- `PipelinedImplements`: `P!Spec => P!Promise`, the pipelined unit with its client
  keeps its promise. `SumsUp(j, n, x)` says what x may be after n additions of
  job j: each product with a register is in it, those without are not, nothing
  of another job is, and a product is repeated at most once for each addition that
  found no register;
- `PromiseWhenRegistersDo`: what the unit may deliver is the sum asked for, that of
  `ZipReduce`, exactly when the job fits the registers;
- `PipelinedKeepsPromise`: the first as `zip` states it (`PipelinedDelivers`).

`PipelinedInv` says in which state which products are where: while `put` is
open, received and flying products are those fed, in order; while
accumulating, `acc` or the one sum in the adder is what the first `m_count`
additions make; and a product is added without a register only when all
registers hold products of the same job. In states READY and COMPLETE nothing flies, which is what lets `Init`
leave the pipelines alone.

`FirmwareProofs` proves, from `FirmwareAssumption`, for any number of units and
commands, any matrices and any timing:

- `NothingDropped`: `Spec => []NoCommandDropped`, if the timing leaves the
  `Margin` of section 3. The state has no clock, so the invariant has one:
  there are, in each state, a cycle `now`, for each command the cycle `at` of its
  execute and its length `len`, such that `Order` and `Rounds` bound the
  distances of executes by the bus operations between them, `Pace` says how long
  ago the last one was, and `Stages` derives from these where each unit is
  (`Stage`: running, done, written back, shown busy). What a poll of unit 0
  shows of the others is then arithmetic (`RoundMargin`, `NextUse`: the unit of
  the next command was free before its decode);
- `MatrixIsComplete`: `Spec => []MatrixComplete`, if the matrices fit as well
  (`Fits`): the pointers of command n are row n / cw and column n % cw of the
  operands (`RightCells`), what a unit stores is their product and lands in no
  cell of an operand or of another result (`RightResult`, `ResultCell`), and the
  loop that waits for all units to be idle does not end while a command is
  still to be decoded (`Finished`).

`MemControllerProofs` proves, from `MemPortAssumption` and
`MemControllerAssumption`, for all words, lanes, values and requests and every
depth of the transactor:

- `Phases`: `Spec => []IInv`. While the controller is `READY`, only a write back
  of the word that is *still* cached may be on its way to the raw memory, and a
  clean word is what the raw memory will hold; a reload is one read, asked or
  answered; around a reset nothing is on its way;
- `CacheIsCoherent`, `OneWordIsAtRisk`, from it;
- `Refinement`: `Spec => ImplementsMemory`. `Current` and `Written` are the
  abstract memory and its saved part: a write back is `Save` as soon as it is
  posted, since nothing can overtake it, a served write is `Post`, the two steps
  of a reset are `Reset`, and hits, misses and the raw memory's own rules are
  stutters.

`FabricProofs` proves, from `FabricAssumption`, for any number of masters and
slaves, any bursts and any capacities:

- `ReadsMatch`, `WritesMatch`: the invariants of the two directions. A master
  keeps the numbers of the slaves it waits for, a slave those of the masters,
  and nothing in the fabric says that the two agree. `Linked` says it: there
  are, per slave, a sequence of the bursts its notes stand for and, per master, one
  of the bursts *its* notes stand for, and for each pair the bursts of that pair
  are the same ones in the same order (`Match`). `MasterNotes` and `Split` say
  that what a master asked is what it was answered, then what its notes stand
  for, then what waits; `Stream` that the beats in a channel of read data are
  those of the bursts that come next, and `Positions` that the beat counter of
  the fabric is that of the master that is being served. The sequences exist in each
  state; no rule keeps them;
- `MastersAnswered`: `Spec => []AnswersInOrder`, from both;
- `DataStaysWithAddress`: `Spec => []DataFollowsAddress`, if one master writes
  to each slave (`OneWriter`; the finding above says what happens otherwise).
  `Due` says of a master that its data, passed on or not, is that of the bursts
  its tasks stand for and then of those whose addresses have not entered the
  fabric; `Owed` of a slave that its data is that of its addresses, and then a
  part of the burst it is owed next. That the two parts meet is `Counts`: what
  a slave has of a burst (`pos`) is what the beat counter of the master with a
  task for it says, which `OneWriter` makes a single one.

`DebursterProofs` proves, from `DebursterAssumption`, for all bursts, data and
depths of the queues:

- `InStep`: `Spec => []IInv`, and `CountsAgree` from it. `BeatsMatched` adds up
  lengths in a queue and is not inductive. `Sides` says where each side stands:
  the last length noted is that of the burst that the request side is in, and
  its last address that of the beat before; the count of the response side is
  within the oldest length; and what was noted is what was answered, what is under
  way and what is unsent;
- `Refinement`: `Spec => ImplementsBursts`. The beats of `Bursts` are those on
  their way to the slave, then those still to be sent. The request rules move
  a beat from the second part to the first: its address, computed from the one
  before, is the one AXI4 names (`BeatAddresses`, from facts about remainders:
  the total of a wrapping burst is a power of two times its size, and the mask
  a remainder), and its last flag is the one the queue of lengths will give it
  (`FlagsLast`). The response rules leave what the responses mean as it is
  (`JoinedHead`, `JoinedTaken`, `JoinedLonger`: a response that is counted now or
  later, with answers taken or lengths noted in between, gives the same
  answers). The slave's steps are `Store` and `Fetch`.

`FPProofs` proves, from `FormatAssumption`, for every format, all programs of
requests and any client:

- `UnitsInOrder`: `ServerSpec => []InRequestOrder`. The k-th answer of a unit is
  its k-th request as its stages make it, were it alone (`MaddItems`,
  `DivItems`, `CoreItems`). `Order` says that a pipeline holds, from its last
  queue to its first, the requests after the last one answered, each in one
  queue (`who` numbers them), and `Holds` that each queue holds what the stages
  up to it have made of its own. `PipelineNext` shows that a cycle keeps both
  for any set of rules that fire into queues which are, or get, empty (`Flows`);
  that the rules of both units do is `MovesFlow` and `DivFlows`. In the divider
  a quotient is made of queue 2 and of the integer divider, which could be
  those of two requests: `CoreHolds` says that while an unknown answer is in
  queue 2 exactly one request is in the integer divider, that one, and
  otherwise none, so that an answer known at once can pass without taking what
  another waits for;
- `SumsAreRounded`, `QuotientsAreRounded`: `ServerSpec => []MaddRounds` and
  `[]DivRounds`, if the stages round each request alone as they should
  (`StagesRound`). This hypothesis is about numbers, not about cycles: `fpu`
  checks it of each operand of its grid, by asking each request alone;
- `BenchIsRight`: `BenchSpec => []RunningSum`, and `BenchSumsAreRight`:
  `MCSpec => []BenchSums`, for every format in which the stages compute its two
  sums (`BenchAdds`) and any number of resets at any time. `BenchInv` says for
  each value of the counters which sum is in the unit; that at cycle 0 the
  divider accepts, so that the first cycle does put what the bench never puts
  again, is part of it.

`Induction` proves that a set of naturals with a member has a least one, and
from it induction over an interval and the recursion of functions defined over
one (`RecursiveFunction`), which is how the values of `Sums`, `Addresses`,
`Joined` and of flattened sequences are reasoned about; facts about joined
sequences (`MoveOne`, `HeadOfTwo`: an element goes from the head of one to the
end of another) and about quotients and remainders.

The hypotheses `RemRoom`, `Margin`, `Fits` and `OneWriter`, and
`Callable`, `Something` (what a stage makes is not the mark of an empty queue)
and `BenchAdds`, are satisfied by the instances of the runs: `MCZipReduce`,
`MCFirmware`, `MCFabric` and `MCFPUnits` assume them, and TLC evaluates that.

Only model-checked: liveness (out of the prover's reach), and

- `FormatsText`: the library functions behind `printf` and its reference compute
  digits with a `RECURSIVE` operator (`LibC`), which closes a module to the SMT
  backend;
- `ConsoleShows` and `ReceivedInOrder`: `Console` prints what these operators
  compute, so no theorem can be about it;
- `StagesRound`, that one request alone is rounded as it should be: arithmetic
  on powers of two and quotients over all formats, which the provers do not do;
- `StreamsWhole` and `RomComplete`: both are about values that `FoldLeft` and
  `SelectSeq` compute of sequences of any length, operators the provers know
  nothing of and whose laws need induction over data;
- that `PairwiseMA` implements `ZipReduce` is false (`pmpa_odd`).

## 7. Not modelled

The Piccolo core (not in the repository) is known by its bus operations.
AXI4-Lite and its adapters are not part of the build. The timer and the UART's
interrupt line are not reached: no program here enables interrupts. The test
peripheral and the accelerator with registers are earlier designs. The other
tests in `main.c` are never called. Debug print-outs, timing functions and wave
dumps have no effect on what is modelled; functions of the host that nothing calls
are left out. The controller's zeroing FSM is compiled out. Address maps are
constants: requests before `set_addr_map` are not considered. The debug module
and the device tree compiler are external and known by what is sent to them and
comes back; the trace and the debug connection are there only in builds with
`INCLUDE_TANDEM_VERIF` and `INCLUDE_GDB_CONTROL`. `BU/MultiRWTest/build_dir`
holds the same files as `BU/DivideTest/build_dir`, byte by byte.

## 8. Plan

Done: the accelerator and its proofs, the three functional units, the
floating-point pipelines, the memory controller, the firmware's test with its
allocations and its printing, the deburster, the fabric, UART and console, boot
ROM and debug server; the proofs of accelerator, pairwise and pipelined unit,
floating-point units, memory controller, fabric, deburster and the firmware's test. What would
come next:

1. `SoCReset`: the joint reset of `SoC_Top`, with slaves that answer in any
   order, and what a reset while bursts are under way would leave behind.
2. `Timer`: interrupts against register accesses.
3. The register accelerator and the test peripheral.
4. The fabric with a debug master, once its ordering is settled.
5. The UART apart from the programs that print, so that what it promises them can
   be proved.
