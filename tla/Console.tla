------------------------------ MODULE Console ------------------------------
(***************************************************************************)
(* Characters between the firmware and the terminal: the processor runs a  *)
(* program of calls of printf.c, libc.h and ns16550.c, the UART takes what *)
(* it stores over the bus, and the host relays the UART's queues to the    *)
(* screen and from the keyboard.  A reset restarts the program.            *)
(***************************************************************************)
EXTENDS UART, LibC, PrintfReference

CONSTANTS
    Scripts,        \* what may happen: [program, typed, closed, reset]
    BufferSize      \* characters of the buffer that programs format into

VARIABLES
    script,     \* the one that happens, with what its statements print or
                \* format (chars) and the texts it means (shows)
    pc,         \* the statement that is executed next, or being executed
    phase,      \* "reset", "next", or where the statement waits
    out,        \* the characters it has still to print
    left,       \* the characters it has still to read
    buffer, ret,    \* what it formatted
    keys,       \* the keys not yet read by the host
    screen,     \* what the host has written
    \* History:
    received,   \* the characters read by the program
    sent,       \* how many characters were stored to the UART since the reset
    cut,        \* <<>>, or <<sent before the reset>>
    taken,      \* how many characters rl_receive has taken
    struck      \* which of them a reset found not yet read by the program

cpu == <<pc, phase, out, left, buffer, ret>>
strikes == <<taken, struck>>
history == <<received, sent, cut, strikes>>
consoleVars == <<uart, script, cpu, keys, screen, history>>

THR == 0 \* and RBR, byte addresses
LSR == 20
EOF == "0xFF"
Blank == "blank"

\* The characters a statement prints, or formats.  The conversions of libc.h
\* do not look at their parameter len.
Output(s) ==
    CASE s.op = "printf" -> vsnprintf_console(vsnprintf(s.format))
      [] s.op = "snprintf" -> vsnprintf(s.format)
      [] s.op = "print" -> s.text
      [] s.op = "println" -> Append(s.text, "\n")
      [] s.op = "convert" /\ s.fn = "itoa" -> itoa(s.arg.int, s.base)
      [] s.op = "convert" /\ s.fn = "utoa" -> utoa(s.arg.int, s.base)
      [] s.op = "convert" /\ s.fn = "intToStr" -> intToStr(s.arg.int, s.base)
      [] s.op = "convert" /\ s.fn = "ftoa" -> ftoaLibC(s.arg.real, s.base)
      [] OTHER -> <<>>

-----------------------------------------------------------------------------
(* What a statement should print or leave in the buffer.                    *)

ConversionReference(s) ==
    LET negative == s.arg.int < 0
        magnitude == IF negative THEN - s.arg.int ELSE s.arg.int
        numeral(v, base, least) ==
            Numeral(v, base, More(NumeralLength(v, base), least), UpperDigits)
    IN  CASE s.fn \in {"itoa", "utoa"} ->
                SignOf(negative, {}) \o numeral(magnitude, s.base, 1)
          [] s.fn = "intToStr" -> numeral(s.arg.int, 10, s.base)
\* A decimal is cut, and has no zero in front of its point.
DecimalReference(v, prec) ==
    LET value == (v.n * 10^prec) \div v.d
        whole == IF v.n < v.d THEN 0 ELSE NumeralLength(v.n \div v.d, 10)
        digits == Numeral(value, 10, whole + prec, LowerDigits)
    IN  SubSeq(digits, 1, whole) \o (IF prec = 0 THEN <<>> ELSE <<".">>)
            \o SubSeq(digits, whole + 1, whole + prec)

FormatReferences(format) ==
    LET step(texts, d) == {text \o next : text \in texts, next \in References(d)}
    IN  FoldLeft(step, {<<>>}, format)

StatementCovered(s) ==
    CASE s.op \in {"printf", "snprintf"} -> \A k \in DOMAIN s.format : Covered(s.format[k])
      [] s.op = "convert" -> IF s.fn = "intToStr" THEN s.arg.int > 0 \/ s.base > 0
                             ELSE s.fn = "itoa" => s.arg.int # Smallest
      [] OTHER -> TRUE
StatementReferences(s) ==
    CASE s.op \in {"printf", "snprintf"} -> FormatReferences(s.format)
      [] s.op = "convert" -> {IF s.fn = "ftoa" THEN DecimalReference(s.arg.real, s.base)
                              ELSE ConversionReference(s)}
      [] s.op = "print" -> {s.text}
      [] s.op = "println" -> {Append(s.text, "\n")}
      [] OTHER -> {<<>>}

\* The text of a program, without what it formats into the buffer.
ProgramReferences(program) ==
    LET step(texts, s) ==
            IF s.op \in {"snprintf", "convert"} THEN texts
            ELSE {text \o SelectSeq(next, LAMBDA c : c # NUL) :
                    text \in texts, next \in StatementReferences(s)}
    IN  FoldLeft(step, {<<>>}, program)
-----------------------------------------------------------------------------
\* The initial reset has been requested.
ConsoleInit ==
    /\ \E sc \in Scripts :
            script = sc @@ [chars |-> [k \in DOMAIN sc.program |-> Output(sc.program[k])],
                            shows |-> ProgramReferences(sc.program)]
    /\ UARTInit
    /\ pc = 1 /\ phase = "reset" /\ out = <<>> /\ left = 0 /\ ret = 0
    /\ buffer = [i \in 0 .. BufferSize - 1 |-> Blank]
    /\ keys = script.typed /\ screen = <<>>
    /\ received = <<>> /\ sent = 0 /\ cut = <<>> /\ taken = 0 /\ struck = {}
-----------------------------------------------------------------------------
(* The firmware.                                                            *)

Statement == script.program[pc]
Returns == pc' = pc + 1 /\ phase' = "next"
Starts(op) == phase = "next" /\ pc <= Len(script.program) /\ Statement.op = op

Prints ==
    /\ \E op \in {"printf", "print", "println"} : Starts(op)
    /\ out' = script.chars[pc] /\ phase' = "put"
    /\ UNCHANGED <<uart, script, pc, left, buffer, ret, keys, screen, history>>

\* A conversion writes as much as it has, like sprintf.
Formats ==
    /\ \E op \in {"snprintf", "convert"} : Starts(op)
    /\ LET count == IF Statement.op = "snprintf" THEN Statement.count ELSE Unlimited
           result == vsnprintf_buffer(buffer, count, script.chars[pc])
       IN  buffer' = result.buffer /\ ret' = result.ret
    /\ Returns
    /\ UNCHANGED <<uart, script, out, left, keys, screen, history>>

\* A store to a register of the UART, without waiting.
Stores ==
    /\ Starts("store") /\ Len(wr) < BusDepth
    /\ wr' = Append(wr, [addr |-> Statement.addr, data |-> Statement.data])
    /\ Returns
    /\ UNCHANGED <<rg_state, rg_rbr, regs, data_ready, rd_addr, rd_data, wr_resp,
                   f_from_console, f_to_console, f_reset_reqs, f_reset_rsps, script, out,
                   left, buffer, ret, keys, screen, history>>

\* Reading characters: poll LSR.DR, then load RBR.
Reads ==
    /\ Starts("read")
    /\ left' = Statement.count /\ phase' = "get"
    /\ UNCHANGED <<uart, script, pc, out, buffer, ret, keys, screen, history>>

Finished == (phase = "put" /\ out = <<>>) \/ (phase = "get" /\ left = 0)
StatementEnds ==
    /\ Finished /\ Returns
    /\ UNCHANGED <<uart, script, out, left, buffer, ret, keys, screen, history>>

\* A load from the UART, and what the program does with the answer.
Load(addr, next) ==
    /\ Len(rd_addr) < BusDepth
    /\ rd_addr' = Append(rd_addr, addr) /\ phase' = next
    /\ UNCHANGED <<rg_state, rg_rbr, regs, data_ready, rd_data, wr, wr_resp, f_from_console,
                   f_to_console, f_reset_reqs, f_reset_rsps, script, pc, out, left, buffer,
                   ret, keys, screen, history>>
Loaded(next) ==
    /\ rd_data # <<>>
    /\ rd_data' = Tail(rd_data) /\ phase' = next
    /\ UNCHANGED <<rg_state, rg_rbr, regs, data_ready, rd_addr, wr, wr_resp, f_from_console,
                   f_to_console, f_reset_reqs, f_reset_rsps, script, pc, out, buffer, ret,
                   keys, screen, sent, cut, strikes>>

\* readb of LSR
ReadStatus == phase \in {"put", "get"} /\ ~ Finished
              /\ Load(LSR, IF phase = "put" THEN "thre" ELSE "dr")
StatusRead ==
    /\ phase \in {"thre", "dr"}
    /\ LET status == Head(rd_data).data
       IN  IF phase = "thre" THEN Loaded(IF "THRE" \in status THEN "thr" ELSE "put")
           ELSE Loaded(IF "DR" \in status THEN "rbr" ELSE "get")
    /\ UNCHANGED <<left, received>>

\* writeb to THR
WriteTHR ==
    /\ phase = "thr" /\ Len(wr) < BusDepth
    /\ wr' = Append(wr, [addr |-> THR, data |-> Head(out)])
    /\ out' = Tail(out) /\ sent' = sent + 1 /\ phase' = "put"
    /\ UNCHANGED <<rg_state, rg_rbr, regs, data_ready, rd_addr, rd_data, wr_resp,
                   f_from_console, f_to_console, f_reset_reqs, f_reset_rsps, script, pc,
                   left, buffer, ret, keys, screen, received, cut, strikes>>

ReadRBR == phase = "rbr" /\ Load(THR, "char")
CharRead ==
    /\ phase = "char" /\ Loaded("get")
    /\ LET ch == Head(rd_data).data
       IN  /\ received' = Append(received, ch)
           /\ left' = IF ch = EOF THEN 0 ELSE left - 1

WriteAnswered ==
    /\ wr_resp # <<>> /\ wr_resp' = Tail(wr_resp)
    /\ UNCHANGED <<rg_state, rg_rbr, regs, data_ready, rd_addr, rd_data, wr, f_from_console,
                   f_to_console, f_reset_reqs, f_reset_rsps, script, cpu, keys, screen,
                   history>>

Program == Prints \/ Formats \/ Stores \/ Reads \/ StatementEnds
              \/ ReadStatus \/ StatusRead \/ WriteTHR \/ ReadRBR \/ CharRead
-----------------------------------------------------------------------------
(* Reset: rl_reset_start_initial or the debug module's, and their end.      *)

rl_reset_start ==
    /\ \/ rg_state = "START" /\ f_reset_reqs = 0 /\ f_reset_rsps = 0 /\ cut' = cut
       \/ phase # "reset" /\ cut = <<>> /\ script.reset /\ cut' = <<sent>>
    /\ f_reset_reqs' = f_reset_reqs + 1
    /\ phase' = "reset" /\ pc' = 1 /\ out' = <<>> /\ left' = 0 /\ sent' = 0
    /\ UNCHANGED <<rg_state, rg_rbr, regs, data_ready, xactor, f_from_console, f_to_console,
                   f_reset_rsps, script, buffer, ret, keys, screen, received, strikes>>

rl_reset_complete ==
    /\ f_reset_rsps > 0
    /\ f_reset_rsps' = f_reset_rsps - 1
    /\ phase' = "next"
    /\ UNCHANGED <<rg_state, rg_rbr, regs, data_ready, xactor, f_from_console, f_to_console,
                   f_reset_reqs, script, pc, out, left, buffer, ret, keys, screen, history>>
-----------------------------------------------------------------------------
(* The host.                                                                *)

rl_relay_console_out ==
    /\ f_to_console # <<>>
    /\ screen' = Append(screen, Head(f_to_console))
    /\ f_to_console' = Tail(f_to_console)
    /\ UNCHANGED <<rg_state, rg_rbr, regs, data_ready, xactor, f_from_console, f_reset_reqs,
                   f_reset_rsps, script, cpu, keys, history>>

\* The next key, NUL when there is none yet, and at the end of the input, or
\* on an error, again and again the same character.
c_trygetchar == IF keys = <<>> THEN (IF script.closed THEN EOF ELSE NUL) ELSE Head(keys)

\* Polls only with room for the character.
rl_relay_console_in ==
    /\ Len(f_from_console) < ConsoleDepth
    /\ keys # <<>> \/ script.closed
    /\ keys' = IF keys = <<>> THEN <<>> ELSE Tail(keys)
    /\ f_from_console' = IF c_trygetchar = NUL THEN f_from_console
                         ELSE Append(f_from_console, c_trygetchar)
    /\ UNCHANGED <<rg_state, rg_rbr, regs, data_ready, xactor, f_to_console, f_reset_reqs,
                   f_reset_rsps, script, cpu, screen, history>>

-----------------------------------------------------------------------------
(* The rules of the UART.                                                   *)

Unchanged == UNCHANGED <<script, cpu, keys, screen, history>>
Receives ==
    /\ rl_receive /\ taken' = taken + 1
    /\ UNCHANGED <<script, cpu, keys, screen, received, sent, cut, struck>>
\* The characters in RBR and in an answer are gone.
Clears ==
    /\ rl_reset
    /\ struck' = struck \cup (Len(received) + Cardinality(struck) + 1 .. taken)
    /\ UNCHANGED <<script, cpu, keys, screen, received, sent, cut, taken>>

ConsoleNext ==
    \/ Clears \/ Receives
    \/ (rl_process_rd_req \/ rl_process_wr_req) /\ Unchanged
    \/ Program \/ WriteAnswered
    \/ rl_reset_start \/ rl_reset_complete
    \/ rl_relay_console_out \/ rl_relay_console_in

ConsoleFairness ==
    /\ WF_consoleVars(Clears)
    /\ WF_consoleVars(Receives)
    /\ WF_consoleVars(rl_process_rd_req /\ Unchanged)
    /\ WF_consoleVars(rl_process_wr_req /\ Unchanged)
    /\ WF_consoleVars(Program) /\ WF_consoleVars(WriteAnswered)
    /\ WF_consoleVars(rg_state = "START" /\ rl_reset_start)
    /\ WF_consoleVars(rl_reset_complete)
    /\ WF_consoleVars(rl_relay_console_out) /\ WF_consoleVars(rl_relay_console_in)
ConsoleSpec == ConsoleInit /\ [][ConsoleNext]_consoleVars /\ ConsoleFairness
-----------------------------------------------------------------------------
(***************************************************************************)
(* A formatted buffer holds the text the directives mean, cut at the count *)
(* and ended by a null within it; nothing is written behind, and the       *)
(* length returned is that of the whole text.                              *)
(***************************************************************************)
FormatsText ==
    LET s == script.program[pc - 1]
        count == IF s.op = "snprintf" THEN s.count ELSE BufferSize
    IN  (pc > 1 /\ s.op \in {"snprintf", "convert"} /\ StatementCovered(s)) =>
            \E text \in StatementReferences(s) :
                LET kept == IF Len(text) < count THEN Len(text) ELSE More(count, 1) - 1
                IN  /\ ret = Len(text)
                    /\ buffer = [i \in DOMAIN buffer |->
                            CASE i < kept -> text[i + 1]
                              [] i = kept /\ count > 0 -> NUL [] OTHER -> Blank]

\* What may be on the screen when all is over: after a reset, what was still
\* on the bus is missing at the end of the first text.
Screens(text) ==
    IF cut = <<>> THEN {text}
    ELSE {SubSeq(text, 1, kept) \o text : kept \in (cut[1] - BusDepth .. cut[1]) \cap Nat}

(***************************************************************************)
(* The screen shows the text of the program, every character once and in   *)
(* order, although the status register never tells the firmware to wait;   *)
(* a reset costs at most the characters on the bus.                        *)
(***************************************************************************)
ConsoleShows ==
    \E text \in script.shows : \E all \in Screens(text) : IsPrefix(screen, all)

(***************************************************************************)
(* The program reads every key that was typed, in order and without the    *)
(* nulls, but for those that were on their way from the queue to it when a *)
(* reset came: at most one, in RBR, at the initial reset and at most two,  *)
(* in RBR and in an answer, at a later one.                                *)
(***************************************************************************)
ReceivedInOrder ==
    LET expected == SelectSeq(script.typed, LAMBDA c : c # NUL)
                        \o (IF script.closed THEN Copies(EOF, 5) ELSE <<>>)
        spared == SelectSeq([i \in DOMAIN expected |-> i], LAMBDA i : i \notin struck)
    IN  /\ Len(received) <= Len(spared)
        /\ \A k \in DOMAIN received : received[k] = expected[spared[k]]
        /\ Cardinality(struck) <= IF cut = <<>> THEN 1 ELSE 3

(***************************************************************************)
(* The program ends, and its whole text gets to the screen.                *)
(***************************************************************************)
EverythingShown ==
    <>[](pc > Len(script.program)
         /\ \E text \in script.shows : screen \in Screens(text))
=============================================================================
