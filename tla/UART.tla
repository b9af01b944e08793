-------------------------------- MODULE UART --------------------------------
(***************************************************************************)
(* The UART (mkUART): registers at stride 4 behind a slave transactor, one *)
(* received character in RBR under the data-ready bit, queues of           *)
(* characters from and to the console.                                     *)
(***************************************************************************)
EXTENDS Naturals, Sequences

CONSTANTS
    BusDepth,       \* requests, or answers, the transactor holds per channel (2)
    ConsoleDepth    \* characters a queue from or to the console holds (2)

ASSUME UARTAssumption == BusDepth \in Nat \ {0} /\ ConsoleDepth \in Nat \ {0}

VARIABLES
    rg_state,           \* "START" or "READY"
    rg_rbr,             \* the character received last
    regs,               \* the other registers that are stored
    data_ready,         \* LSR.DR, the one bit of LSR that changes
    rd_addr, rd_data, wr, wr_resp,      \* the transactor's queues
    f_from_console, f_to_console,
    f_reset_reqs, f_reset_rsps          \* tokens waiting

xactor == <<rd_addr, rd_data, wr, wr_resp>>
uart == <<rg_state, rg_rbr, regs, data_ready, xactor, f_from_console, f_to_console,
          f_reset_reqs, f_reset_rsps>>

\* A register holds the set of its bits, or a divisor.
Stored == {"dll", "dlm", "ier", "fcr", "lcr", "mcr", "msr", "scr"}
Cleared == [r \in Stored |-> {}]

UARTInit ==
    /\ rg_state = "START" /\ rg_rbr = "arbitrary"
    /\ regs = Cleared /\ data_ready = FALSE
    /\ rd_addr = <<>> /\ rd_data = <<>> /\ wr = <<>> /\ wr_resp = <<>>
    /\ f_from_console = <<>> /\ f_to_console = <<>>
    /\ f_reset_reqs = 0 /\ f_reset_rsps = 0

dlab == "DLAB" \in regs["lcr"]
lsr == {"TEMT", "THRE"} \cup (IF data_ready THEN {"DR"} ELSE {})
fn_iir == CASE "ERBFI" \in regs["ier"] /\ data_ready -> "rda"
            [] ~ ("ERBFI" \in regs["ier"] /\ data_ready) /\ "ETBEI" \in regs["ier"] -> "thre"
            [] OTHER -> "none"
-----------------------------------------------------------------------------
\* Mutation: a reset leaves the state alone, so the rules never start.
rl_reset_stays ==
    /\ f_reset_reqs > 0
    /\ f_reset_reqs' = f_reset_reqs - 1
    /\ f_reset_rsps' = f_reset_rsps + 1
    /\ regs' = Cleared /\ data_ready' = FALSE
    /\ rd_addr' = <<>> /\ rd_data' = <<>> /\ wr' = <<>> /\ wr_resp' = <<>>
    /\ UNCHANGED <<rg_state, rg_rbr, f_from_console, f_to_console>>

\* rule rl_reset: the queues of characters and RBR keep their content.
rl_reset ==
    /\ f_reset_reqs > 0
    /\ f_reset_reqs' = f_reset_reqs - 1
    /\ f_reset_rsps' = f_reset_rsps + 1
    /\ regs' = Cleared /\ data_ready' = FALSE
    /\ rd_addr' = <<>> /\ rd_data' = <<>> /\ wr' = <<>> /\ wr_resp' = <<>>
    /\ rg_state' = "READY"
    /\ UNCHANGED <<rg_rbr, f_from_console, f_to_console>>

\* Mutation: a character is received over one that was not read.
rl_receive_overruns ==
    /\ f_from_console # <<>>
    /\ rg_rbr' = Head(f_from_console)
    /\ f_from_console' = Tail(f_from_console)
    /\ data_ready' = TRUE
    /\ UNCHANGED <<rg_state, regs, xactor, f_to_console, f_reset_reqs, f_reset_rsps>>

\* rule rl_receive; when it fires in the cycle of rl_reset, either may be the
\* one whose data-ready stays.
rl_receive ==
    /\ ~ data_ready /\ f_from_console # <<>>
    /\ rg_rbr' = Head(f_from_console)
    /\ f_from_console' = Tail(f_from_console)
    /\ data_ready' = TRUE
    /\ UNCHANGED <<rg_state, regs, xactor, f_to_console, f_reset_reqs, f_reset_rsps>>

\* The register read or written at an offset.
ReadAt(offset) ==
    CASE offset = 0 -> IF dlab THEN "dll" ELSE "rbr"
      [] offset = 1 -> IF dlab THEN "dlm" ELSE "ier"
      [] OTHER -> << "iir", "lcr", "mcr", "lsr", "msr", "scr">>[offset - 1]
WrittenAt(offset) ==
    CASE offset = 0 -> IF dlab THEN "dll" ELSE "thr"
      [] offset = 1 -> IF dlab THEN "dlm" ELSE "ier"
      [] OTHER -> <<"fcr", "lcr", "mcr", "lsr", "msr", "scr">>[offset - 1]

\* An address outside of the UART's range, below or above, is answered as one
\* without a register is.
Response(addr) == CASE addr % 4 # 0 -> "slverr"
                    [] addr % 4 = 0 /\ addr \div 4 > 7 -> "decerr" [] OTHER -> "okay"

\* rule rl_process_rd_req, less urgent than rl_receive
rl_process_rd_req ==
    LET addr == Head(rd_addr)
        ok == Response(addr) = "okay"
        register == IF ok THEN ReadAt(addr \div 4) ELSE "error"
        data == CASE register = "error" -> "0" [] register = "rbr" -> rg_rbr
                  [] register = "lsr" -> lsr [] register = "iir" -> fn_iir
                  [] OTHER -> regs[register]
    IN  /\ rg_state = "READY" /\ rd_addr # <<>> /\ Len(rd_data) < BusDepth
        /\ data_ready \/ f_from_console = <<>>
        /\ rd_addr' = Tail(rd_addr)
        /\ rd_data' = Append(rd_data, [data |-> data, resp |-> Response(addr)])
        /\ data_ready' = (data_ready /\ register # "rbr")
        /\ UNCHANGED <<rg_state, rg_rbr, regs, wr, wr_resp, f_from_console, f_to_console,
                       f_reset_reqs, f_reset_rsps>>

\* Mutation: a write to THR does not wait for room, and the character is lost.
rl_process_wr_req_lossy ==
    LET addr == Head(wr).addr
        ok == Response(addr) = "okay"
        register == IF ok THEN WrittenAt(addr \div 4) ELSE "error"
    IN  /\ rg_state = "READY" /\ wr # <<>> /\ Len(wr_resp) < BusDepth
        /\ wr' = Tail(wr)
        /\ wr_resp' = Append(wr_resp, Response(addr))
        /\ f_to_console' = IF register = "thr" /\ Len(f_to_console) < ConsoleDepth
                           THEN Append(f_to_console, Head(wr).data) ELSE f_to_console
        /\ regs' = IF register \in Stored \ {"msr"}
                   THEN [regs EXCEPT ![register] = Head(wr).data] ELSE regs
        /\ UNCHANGED <<rg_state, rg_rbr, data_ready, rd_addr, rd_data, f_from_console,
                       f_reset_reqs, f_reset_rsps>>

\* rule rl_process_wr_req: a write to THR waits for room, which LSR never tells.
rl_process_wr_req ==
    LET addr == Head(wr).addr
        ok == Response(addr) = "okay"
        register == IF ok THEN WrittenAt(addr \div 4) ELSE "error"
    IN  /\ rg_state = "READY" /\ wr # <<>> /\ Len(wr_resp) < BusDepth
        /\ register = "thr" => Len(f_to_console) < ConsoleDepth
        /\ wr' = Tail(wr)
        /\ wr_resp' = Append(wr_resp, Response(addr))
        /\ f_to_console' = IF register = "thr" THEN Append(f_to_console, Head(wr).data)
                           ELSE f_to_console
        /\ regs' = IF register \in Stored \ {"msr"}
                   THEN [regs EXCEPT ![register] = Head(wr).data] ELSE regs
        /\ UNCHANGED <<rg_state, rg_rbr, data_ready, rd_addr, rd_data, f_from_console,
                       f_reset_reqs, f_reset_rsps>>
=============================================================================
