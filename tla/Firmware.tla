------------------------------ MODULE Firmware -----------------------------
(***************************************************************************)
(* The firmware's command loop (accel_unbuffered_test) against the         *)
(* accelerator, clock cycle by clock cycle.  Whether a command is dropped  *)
(* is a matter of time here: the firmware asks for the state of unit 0     *)
(* alone, before every ACCEL_UNITS-th command, and relies on the other     *)
(* units to be done by the time it comes to them.                          *)
(*                                                                         *)
(* The processor is known by its bus operations, of which two are MinGap   *)
(* to MaxGap cycles apart when they reach the accelerator.  All commands   *)
(* have the same length and take MinCycles to MaxCycles: in a cycle with a *)
(* decode no operands are loaded.  Addresses are cells of the accelerator's *)
(* data memory; a result is known by the pairs of cells it multiplies and  *)
(* adds up, and at the start the operands are already copied into them.    *)
(***************************************************************************)
EXTENDS Naturals

CONSTANTS
    ACCEL_UNITS,      \* functional units (4)
    Commands,         \* elements of the result matrix (16)
    count,            \* columns of the left matrix, rows of the right (64)
    cw,               \* columns of the right matrix and of the result (4)
    OffsetRange,      \* values of an offset, a uint8_t (256)
    HeapStart,        \* where ACCEL_HW_DATA_ADDR is in the data memory (224)
    DataCells,        \* cells of the data memory (4096)
    MinCycles, MaxCycles,   \* cycles from accepting a command to its result
    MinGap, MaxGap    \* cycles between two bus operations

\* A write is decoded in the cycle after it arrived (rl_decode_command reads
\* the registers that rl_process_wr_req writes), and shown two cycles later.
ASSUME FirmwareAssumption ==
    /\ ACCEL_UNITS \in Nat \ {0} /\ Commands \in Nat
    /\ count \in Nat \ {0} /\ cw \in Nat \ {0}
    /\ OffsetRange \in Nat \ {0} /\ HeapStart \in Nat /\ DataCells \in Nat \ {0}
    /\ MinCycles \in Nat \ {0} /\ MaxCycles \in Nat /\ MinCycles <= MaxCycles
    /\ MinGap \in Nat /\ MaxGap \in Nat
    /\ 3 <= MinGap /\ MinGap <= MaxGap

Units == 0 .. ACCEL_UNITS - 1

\* What the firmware relies on when it looks at unit 0 alone: the lengths of
\* two commands, and the ways of the processor through a round of the units,
\* differ by less than one more command takes to load.
Margin ==
    /\ MaxCycles + 4 * ((ACCEL_UNITS - 1) * (MaxGap - MinGap)) <= MinCycles + 4 * MinGap + 1
    /\ MaxCycles + 2 <= MinCycles + 4 * MinGap

VARIABLES
    pc,         \* the bus operation the firmware does next
    i,          \* loop counter
    gap,        \* cycles since the last bus operation
    command,    \* command register, [unit, ptrs]
    exec,       \* is an execute waiting for the decoder?
    phase,      \* per unit: "idle", "run", or "done" when its result waits
    left,       \* per unit: cycles until the result
    ptrs,       \* per unit: the pointers of the command it executes
    busy_map,   \* the units shown busy
    memory,     \* what cells hold since the operands were copied
    dropped     \* pointers of the commands dropped

processor == <<pc, i, gap, command>>
accelerator == <<exec, phase, left, ptrs, busy_map, memory, dropped>>
vars == <<processor, accelerator>>

\* Before command n the firmware polls, or goes on to load it, or is through.
Before(n) ==
    IF n = Commands THEN "drain" ELSE IF n % ACCEL_UNITS = 0 THEN "poll" ELSE "head"

\* The next allocation, after so many cells; it is never checked against
\* the end of the data memory.
accel_malloc(malloc_ptr) == HeapStart + malloc_ptr

rows == Commands \div cw
ptr_a_addr == accel_malloc(0)
ptr_b_addr == accel_malloc(rows * count)
ptr_c_addr == accel_malloc(rows * count + count * cw)

\* Mutation: the right matrix is read along its rows.
Pointers_rows(n) ==
    [a |-> [addr |-> ptr_a_addr, offset |-> (count * (n \div cw)) % OffsetRange, stride |-> 1],
     b |-> [addr |-> ptr_b_addr, offset |-> n % cw, stride |-> 1],
     c |-> ptr_c_addr + n]

\* The pointers of command n: row n / cw times column n % cw.
Pointers(n) ==
    [a |-> [addr |-> ptr_a_addr, offset |-> (count * (n \div cw)) % OffsetRange, stride |-> 1],
     b |-> [addr |-> ptr_b_addr, offset |-> n % cw, stride |-> cw],
     c |-> ptr_c_addr + n]

\* The matrices have whole rows, the offset of the last row fits in its type
\* and all of them in the data memory.
Fits ==
    /\ Commands = rows * cw
    /\ rows > 0 => count * (rows - 1) < OffsetRange
    /\ ptr_c_addr + Commands <= DataCells

\* A command register or unit without a command.
NoPtr == [addr |-> 0, offset |-> 0, stride |-> 0]
NoPtrs == [a |-> NoPtr, b |-> NoPtr, c |-> 0]

Init ==
    /\ pc = Before(0)
    /\ i = 0
    /\ gap = MinGap
    /\ command = [unit |-> 0, ptrs |-> NoPtrs]
    /\ exec = FALSE
    /\ phase = [u \in Units |-> "idle"]
    /\ left = [u \in Units |-> 0]
    /\ ptrs = [u \in Units |-> NoPtrs]
    /\ busy_map = {}
    /\ memory = [c \in ptr_c_addr .. ptr_c_addr + Commands - 1 |-> {}]
    /\ dropped = {}
-----------------------------------------------------------------------------
(* The processor: one bus operation, or none in this cycle.                 *)

\* Mutation: the busy bit is not tested.
Poll_blind ==
    /\ pc = "poll"
    /\ pc' = "head"
    /\ UNCHANGED <<i, command>>

\* while (busy_bits & (1 << (i % ACCEL_UNITS)) > 0), where i % ACCEL_UNITS
\* is 0: > binds tighter than &, which leaves bit 0.
Poll ==
    /\ pc = "poll"
    /\ pc' = IF 0 \in busy_map THEN "poll" ELSE "head"
    /\ UNCHANGED <<i, command>>

\* accel_load_command: the word with unit and count, then the pointers.
LoadHead ==
    /\ pc = "head"
    /\ command' = [command EXCEPT !.unit = i % ACCEL_UNITS]
    /\ pc' = "ptrs"
    /\ UNCHANGED i

LoadPtrs ==
    /\ pc = "ptrs"
    /\ command' = [command EXCEPT !.ptrs = Pointers(i)]
    /\ pc' = "stat"
    /\ UNCHANGED i

\* accel_exec_command: *p = *p | 1
ReadStat ==
    /\ pc = "stat"
    /\ pc' = "exec"
    /\ UNCHANGED <<i, command>>

Execute ==
    /\ pc = "exec"
    /\ i' = i + 1
    /\ pc' = Before(i + 1)
    /\ UNCHANGED command

\* while (busy_bits = *busy != 0)
Drain ==
    /\ pc = "drain"
    /\ pc' = IF busy_map # {} THEN "drain" ELSE "print"
    /\ UNCHANGED <<i, command>>

BusOperation ==
    /\ gap >= MinGap
    /\ gap' = 1
    /\ Poll \/ LoadHead \/ LoadPtrs \/ ReadStat \/ Execute \/ Drain

Compute ==
    /\ pc # "print"
    /\ gap < MaxGap
    /\ gap' = gap + 1
    /\ UNCHANGED <<pc, i, command>>
-----------------------------------------------------------------------------
(* The accelerator, all rules of one cycle together.                        *)

Issue == exec /\ phase[command.unit] = "idle"
Drop == exec /\ phase[command.unit] # "idle"

\* Mutation: the last unit's result is never stored.
Writes_short(u) == phase[u] = "done" /\ u # ACCEL_UNITS - 1 /\ ~exec

\* rl_write_res stores the result of the lowest unit; rl_decode_command, which
\* also writes server_busy, goes first.
Writes(u) ==
    /\ phase[u] = "done"
    /\ \A v \in Units : v < u => phase[v] # "done"
    /\ ~exec

\* The cell of element k of an operand.
ElemCell(p, k) == (p.addr + p.offset + p.stride * k) % DataCells

\* What a unit makes of its operands: the products it adds up.
Result(p) == {<<ElemCell(p.a, k), ElemCell(p.b, k)>> : k \in 0 .. count - 1}

\* The cell stored to, if there is one.
StoreCells == {ptrs[u].c % DataCells : u \in {v \in Units : Writes(v)}}

\* The next state of unit u, if a command it accepts takes n cycles.
UnitCycle(u, n) ==
    CASE Issue /\ u = command.unit -> [phase |-> "run", left |-> n - 1]
      [] phase[u] = "run" -> IF left[u] = 0 THEN [phase |-> "done", left |-> 0]
                                            ELSE [phase |-> "run", left |-> left[u] - 1]
      [] Writes(u) -> [phase |-> "idle", left |-> 0]
      [] OTHER -> [phase |-> phase[u], left |-> left[u]]

AcceleratorCycle ==
    /\ exec' = (pc = "exec" /\ pc' # "exec")
    /\ \E n \in IF Issue THEN MinCycles .. MaxCycles ELSE {MaxCycles} :
          /\ phase' = [u \in Units |-> UnitCycle(u, n).phase]
          /\ left' = [u \in Units |-> UnitCycle(u, n).left]
    /\ ptrs' = IF Issue THEN [ptrs EXCEPT ![command.unit] = command.ptrs] ELSE ptrs
    /\ busy_map' = {u \in Units : phase[u] # "idle"}
    /\ memory' = [c \in DOMAIN memory \cup StoreCells |->
                    IF c \in StoreCells THEN Result(ptrs[CHOOSE u \in Units : Writes(u)])
                                        ELSE memory[c]]
    /\ dropped' = IF Drop THEN dropped \cup {command.ptrs} ELSE dropped

Next == (BusOperation \/ Compute) /\ AcceleratorCycle

\* The clock ticks until the results are read.
Spec == Init /\ [][Next]_vars /\ WF_vars(Next)
-----------------------------------------------------------------------------
(* Properties.                                                              *)

\* No command is dropped, as the thesis asks of the firmware, although the
\* firmware looks at one unit only and at an old picture of it.
NoCommandDropped == dropped = {}

\* Row by column, as mat_test computes it in software.
Product(row, column) ==
    {<<ptr_a_addr + row * count + k, ptr_b_addr + k * cw + column>> : k \in 0 .. count - 1}

\* When the firmware reads the result matrix, each element is the product of
\* its row and column, and nothing else in the data memory was overwritten:
\* the allocations do not overlap, the eight bits of an offset are enough,
\* and the last command has been stored although the firmware waits with a
\* late picture of the busy units.
MatrixComplete ==
    pc = "print" =>
        memory = [c \in ptr_c_addr .. ptr_c_addr + Commands - 1 |->
                    Product((c - ptr_c_addr) \div cw, (c - ptr_c_addr) % cw)]

\* The firmware gets there: none of its waiting loops goes on for ever.
Finishes == <>(pc = "print")
=============================================================================
