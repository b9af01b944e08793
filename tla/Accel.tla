------------------------------- MODULE Accel -------------------------------
(***************************************************************************)
(* The matrix accelerator mkAccel (Accel_Model.bsv of                      *)
(* unit_design_mem_parallel) with its FusedMA functional units.  Software  *)
(* reaches it through an AXI4 slave port: it stores operands in the data   *)
(* memory, writes a command into the command register, and starts it by    *)
(* writing byte 0 of the control region.  The decoder hands the command to *)
(* the unit it names, or drops it if that unit is busy.  Each busy unit    *)
(* loads its operands and latches its result on its own; one writer stores *)
(* results and frees units, lowest index first.                            *)
(*                                                                         *)
(* One action per Bluespec rule or method: rules are atomic, and every     *)
(* clock cycle is equivalent to some sequence of them.                     *)
(***************************************************************************)
EXTENDS FusedMA, FiniteSets

CONSTANTS
    BusDepth,   \* capacity of the slave transactor's FIFOs (2)
    Writes,     \* write requests the bus may bring, a subset of WrReq
    Reads       \* read requests the bus may bring, a subset of RdReq

VARIABLES
    rg_state,       \* "START" or "READY"
    f_reset_reqs,   \* is a reset request waiting?
    f_reset_rsps,   \* is a reset response waiting?
    wr_reqs, wr_rsps, rd_reqs, rd_rsps,   \* the transactor's FIFOs
    control,        \* bits 1:0 of rgv_control[0]: busy, exec
    busy_map,       \* rgv_control[4] and [5]: the units shown busy
    rgv_command,    \* the command register, [head, ptrs]
    rgv_data,       \* the data memory, the same in every bank
    f_write_exec,   \* is an execute waiting for the decoder?
    server_cmd, server_busy, server_count,   \* scheduling
    server_done, server_result               \* write back

busVars == <<rg_state, f_reset_reqs, f_reset_rsps, wr_reqs, wr_rsps, rd_reqs, rd_rsps>>
serverVars == <<server_cmd, server_busy, server_count, server_done, server_result>>
vars == <<busVars, control, busy_map, rgv_command, rgv_data, f_write_exec,
          serverVars, fmaVars>>
-----------------------------------------------------------------------------
(* Bus requests, by the branch of the handlers they take.                   *)

WrReq ==
    [region : {"outside", "misaligned"}]
        \cup [region : {"stat"}, data : 0 .. 3]
        \cup [region : {"busy"}, data : SUBSET Units]
        \cup [region : {"head"}, data : Heads]
        \cup [region : {"ptrs"}, data : Operands]
        \cup [region : {"data"}, cell : Cells, data : Value, full : BOOLEAN]
RdReq ==
    [region : {"outside", "misaligned", "stat", "busy", "command"}]
        \cup [region : {"data"}, cell : Cells]

Resp == {"OKAY", "SLVERR", "DECERR"}

ASSUME AccelAssumption ==
    /\ BusDepth \in Nat \ {0}
    /\ Writes \subseteq WrReq
    /\ Reads \subseteq RdReq

Init ==
    /\ rg_state = "START"
    /\ f_reset_reqs = FALSE /\ f_reset_rsps = FALSE
    /\ wr_reqs = <<>> /\ wr_rsps = <<>> /\ rd_reqs = <<>> /\ rd_rsps = <<>>
    /\ control = 0
    /\ busy_map = {}
    /\ rgv_command = [head |-> ZeroHead, ptrs |-> ZeroOperands]
    /\ rgv_data \in [Cells -> Value]
    /\ f_write_exec = FALSE
    /\ server_cmd = [u \in Units |-> Args(ZeroHead, ZeroOperands)]
    /\ server_busy = [u \in Units |-> FALSE]
    /\ server_count = [u \in Units |-> 0]
    /\ server_done = [u \in Units |-> FALSE]
    /\ server_result = [u \in Units |-> Zero]
    /\ FMAInit
-----------------------------------------------------------------------------
(* The fabric and the reset controller, to which the methods belong.        *)

BusWrite(req) ==
    /\ Len(wr_reqs) < BusDepth
    /\ wr_reqs' = Append(wr_reqs, req)
    /\ UNCHANGED <<rg_state, f_reset_reqs, f_reset_rsps, wr_rsps, rd_reqs, rd_rsps, control,
                   busy_map, rgv_command, rgv_data, f_write_exec, serverVars, fmaVars>>

BusRead(req) ==
    /\ Len(rd_reqs) < BusDepth
    /\ rd_reqs' = Append(rd_reqs, req)
    /\ UNCHANGED <<rg_state, f_reset_reqs, f_reset_rsps, wr_reqs, wr_rsps, rd_rsps, control,
                   busy_map, rgv_command, rgv_data, f_write_exec, serverVars, fmaVars>>

BusWriteResp ==
    /\ wr_rsps # <<>>
    /\ wr_rsps' = Tail(wr_rsps)
    /\ UNCHANGED <<rg_state, f_reset_reqs, f_reset_rsps, wr_reqs, rd_reqs, rd_rsps, control,
                   busy_map, rgv_command, rgv_data, f_write_exec, serverVars, fmaVars>>

BusReadData ==
    /\ rd_rsps # <<>>
    /\ rd_rsps' = Tail(rd_rsps)
    /\ UNCHANGED <<rg_state, f_reset_reqs, f_reset_rsps, wr_reqs, wr_rsps, rd_reqs, control,
                   busy_map, rgv_command, rgv_data, f_write_exec, serverVars, fmaVars>>

\* server_reset.request.put and response.get
ResetRequest ==
    /\ ~f_reset_reqs
    /\ f_reset_reqs' = TRUE
    /\ UNCHANGED <<rg_state, f_reset_rsps, wr_reqs, wr_rsps, rd_reqs, rd_rsps, control,
                   busy_map, rgv_command, rgv_data, f_write_exec, serverVars, fmaVars>>

ResetResponse ==
    /\ f_reset_rsps
    /\ f_reset_rsps' = FALSE
    /\ UNCHANGED <<rg_state, f_reset_reqs, wr_reqs, wr_rsps, rd_reqs, rd_rsps, control,
                   busy_map, rgv_command, rgv_data, f_write_exec, serverVars, fmaVars>>
-----------------------------------------------------------------------------
(* Rules of the slave port.                                                 *)

\* The units, the pending execute and the command register are not reset.
rl_reset ==
    /\ f_reset_reqs /\ ~f_reset_rsps
    /\ f_reset_reqs' = FALSE /\ f_reset_rsps' = TRUE
    /\ wr_reqs' = <<>> /\ wr_rsps' = <<>> /\ rd_reqs' = <<>> /\ rd_rsps' = <<>>
    /\ control' = 0
    /\ busy_map' = {}
    /\ rg_state' = "READY"
    /\ UNCHANGED <<rgv_command, rgv_data, f_write_exec, serverVars, fmaVars>>

ReadResult(req) ==
    CASE req.region = "outside" -> [resp |-> "DECERR"]
      [] req.region = "misaligned" -> [resp |-> "SLVERR"]
      [] req.region = "stat" -> [resp |-> "OKAY", stat |-> control]
      [] req.region = "busy" -> [resp |-> "OKAY", busy |-> busy_map]
      [] req.region = "command" -> [resp |-> "OKAY", command |-> rgv_command]
      [] req.region = "data" -> [resp |-> "OKAY", data |-> rgv_data[req.cell]]

rl_process_rd_req ==
    /\ rg_state = "READY"
    /\ rd_reqs # <<>>
    /\ Len(rd_rsps) < BusDepth
    /\ rd_reqs' = Tail(rd_reqs)
    /\ rd_rsps' = Append(rd_rsps, ReadResult(Head(rd_reqs)))
    /\ UNCHANGED <<rg_state, f_reset_reqs, f_reset_rsps, wr_reqs, wr_rsps, control,
                   busy_map, rgv_command, rgv_data, f_write_exec, serverVars, fmaVars>>

\* Any write to byte 0 of the control region is an execute, whatever its
\* bits; it waits while an earlier execute waits for the decoder.
WriteStat(req) ==
    /\ req.region = "stat"
    /\ ~f_write_exec
    /\ f_write_exec' = TRUE
    /\ control' = req.data
    /\ UNCHANGED <<busy_map, rgv_command, rgv_data>>

WriteBusy(req) ==
    /\ req.region = "busy"
    /\ busy_map' = req.data
    /\ UNCHANGED <<control, rgv_command, rgv_data, f_write_exec>>

WriteCommand(req) ==
    /\ req.region \in {"head", "ptrs"}
    /\ rgv_command' = [rgv_command EXCEPT ![req.region] = req.data]
    /\ UNCHANGED <<control, busy_map, rgv_data, f_write_exec>>

\* A store of less than a word is refused.
WriteData(req) ==
    /\ req.region = "data"
    /\ rgv_data' = IF req.full THEN [rgv_data EXCEPT ![req.cell] = req.data] ELSE rgv_data
    /\ UNCHANGED <<control, busy_map, rgv_command, f_write_exec>>

WriteNothing(req) ==
    /\ req.region \in {"outside", "misaligned"}
    /\ UNCHANGED <<control, busy_map, rgv_command, rgv_data, f_write_exec>>

WriteResp(req) ==
    CASE req.region = "outside" -> "DECERR"
      [] req.region = "misaligned" -> "SLVERR"
      [] req.region = "data" -> IF req.full THEN "OKAY" ELSE "SLVERR"
      [] OTHER -> "OKAY"

rl_process_wr_req ==
    /\ rg_state = "READY"
    /\ wr_reqs # <<>>
    /\ Len(wr_rsps) < BusDepth
    /\ LET req == Head(wr_reqs)
       IN  /\ \/ WriteStat(req)
              \/ WriteBusy(req)
              \/ WriteCommand(req)
              \/ WriteData(req)
              \/ WriteNothing(req)
           /\ wr_rsps' = Append(wr_rsps, WriteResp(req))
    /\ wr_reqs' = Tail(wr_reqs)
    /\ UNCHANGED <<rg_state, f_reset_reqs, f_reset_rsps, rd_reqs, rd_rsps, serverVars, fmaVars>>
-----------------------------------------------------------------------------
(* Rules of the decoder, the units and the writer.                          *)

Decoded == Args(rgv_command.head, rgv_command.ptrs)

\* Mutation: server_count is not reset.
DecodeIssue_keepsCount ==
    LET u == Decoded.unit
    IN  /\ f_write_exec
        /\ ~server_busy[u]
        /\ server_busy' = [server_busy EXCEPT ![u] = TRUE]
        /\ server_cmd' = [server_cmd EXCEPT ![u] = Decoded]
        /\ put_Init(u, Decoded.count)
        /\ UNCHANGED <<server_count, server_done, server_result>>

\* COMMAND ISSUED
DecodeIssue ==
    LET u == Decoded.unit
    IN  /\ f_write_exec
        /\ ~server_busy[u]
        /\ server_busy' = [server_busy EXCEPT ![u] = TRUE]
        /\ server_cmd' = [server_cmd EXCEPT ![u] = Decoded]
        /\ server_count' = [server_count EXCEPT ![u] = 0]
        /\ put_Init(u, Decoded.count)
        /\ UNCHANGED <<server_done, server_result>>

\* Mutation: a command waits for its unit instead of being dropped.
DecodeDrop_waits == FALSE

\* COMMAND DROPPED
DecodeDrop ==
    /\ f_write_exec
    /\ server_busy[Decoded.unit]
    /\ UNCHANGED <<serverVars, fmaVars>>

rl_decode_command ==
    /\ DecodeIssue \/ DecodeDrop
    /\ f_write_exec' = FALSE
    /\ control' = 0
    /\ UNCHANGED <<busVars, busy_map, rgv_command, rgv_data>>

\* Mutation: one operand pair too many.
rl_load_mem_inclusive(u) ==
    LET args == server_cmd[u]
        n == server_count[u]
    IN  /\ server_busy[u]
        /\ n <= args.count
        /\ put_ReqOp(u, rgv_data[ElemCell(args.a, n)], rgv_data[ElemCell(args.b, n)])
        /\ server_count' = [server_count EXCEPT ![u] = n + 1]
        /\ UNCHANGED <<busVars, control, busy_map, rgv_command, rgv_data, f_write_exec,
                       server_cmd, server_busy, server_done, server_result>>

rl_load_mem(u) ==
    LET args == server_cmd[u]
        n == server_count[u]
    IN  /\ server_busy[u]
        /\ n < args.count
        /\ put_ReqOp(u, rgv_data[ElemCell(args.a, n)], rgv_data[ElemCell(args.b, n)])
        /\ server_count' = [server_count EXCEPT ![u] = n + 1]
        /\ UNCHANGED <<busVars, control, busy_map, rgv_command, rgv_data, f_write_exec,
                       server_cmd, server_busy, server_done, server_result>>

rl_write_res_mem(u) ==
    /\ server_busy[u]
    /\ ~server_done[u]
    /\ response_get(u)
    /\ server_result' = [server_result EXCEPT ![u] = acc[u]]
    /\ server_done' = [server_done EXCEPT ![u] = TRUE]
    /\ UNCHANGED <<busVars, control, busy_map, rgv_command, rgv_data, f_write_exec,
                   server_cmd, server_busy, server_count>>

\* The lowest finished unit, findIndex (id, sd), goes first.  The offset and
\* the stride of ptr_c are not used.
rl_write_res(u) ==
    /\ server_done[u]
    /\ \A v \in Units : v < u => ~server_done[v]
    /\ rgv_data' = [rgv_data EXCEPT ![server_cmd[u].c] = server_result[u]]
    /\ server_done' = [server_done EXCEPT ![u] = FALSE]
    /\ server_busy' = [server_busy EXCEPT ![u] = FALSE]
    /\ UNCHANGED <<busVars, control, busy_map, rgv_command, f_write_exec,
                   server_cmd, server_count, server_result, fmaVars>>

\* Mutation: the last unit is not shown.
rl_busy_map_short ==
    /\ busy_map' = {u \in 0 .. Banks - 2 : server_busy[u]}
    /\ UNCHANGED <<busVars, control, rgv_command, rgv_data, f_write_exec, serverVars, fmaVars>>

\* Fires in every cycle: software sees the busy bits one cycle late.
rl_busy_map ==
    /\ busy_map' = {u \in Units : server_busy[u]}
    /\ UNCHANGED <<busVars, control, rgv_command, rgv_data, f_write_exec, serverVars, fmaVars>>

UnitResponse(u) ==
    /\ rl_pipe_response_madd(u)
    /\ UNCHANGED <<busVars, control, busy_map, rgv_command, rgv_data, f_write_exec, serverVars>>
-----------------------------------------------------------------------------
Fabric ==
    \/ \E req \in Writes : BusWrite(req)
    \/ \E req \in Reads : BusRead(req)
    \/ BusWriteResp
    \/ BusReadData
    \/ ResetRequest
    \/ ResetResponse

Rules ==
    \/ rl_reset
    \/ rl_process_rd_req
    \/ rl_process_wr_req
    \/ rl_decode_command
    \/ rl_busy_map
    \/ \E u \in Units :
          \/ rl_load_mem(u)
          \/ UnitResponse(u)
          \/ rl_write_res_mem(u)
          \/ rl_write_res(u)

Next == Fabric \/ Rules

Spec == Init /\ [][Next]_vars

\* A rule that stays enabled fires: the scheduler skips it in a cycle only
\* when a conflicting rule fires, and bus writes and decodes, which win, leave
\* cycles free.  Results are stored one per cycle while a unit needs several
\* cycles for one product, so a unit waiting to write back is the lowest done
\* unit again and again.
Fairness ==
    /\ WF_vars(rl_reset)
    /\ WF_vars(rl_process_rd_req)
    /\ WF_vars(rl_process_wr_req)
    /\ WF_vars(rl_decode_command)
    /\ WF_vars(rl_busy_map)
    /\ \A u \in Units :
          /\ WF_vars(rl_load_mem(u))
          /\ WF_vars(UnitResponse(u))
          /\ WF_vars(rl_write_res_mem(u))
          /\ SF_vars(rl_write_res(u))

FairSpec == Spec /\ Fairness
-----------------------------------------------------------------------------
(* Properties.                                                              *)

TypeOK ==
    /\ rg_state \in {"START", "READY"}
    /\ f_reset_reqs \in BOOLEAN
    /\ f_reset_rsps \in BOOLEAN
    /\ wr_reqs \in Seq(Writes)
    /\ wr_rsps \in Seq(Resp)
    /\ rd_reqs \in Seq(Reads)
    /\ control \in 0 .. 3
    /\ busy_map \in SUBSET Units
    /\ rgv_command \in [head : Heads \cup {ZeroHead}, ptrs : Operands \cup {ZeroOperands}]
    /\ rgv_data \in [Cells -> Value]
    /\ f_write_exec \in BOOLEAN
    /\ server_cmd \in [Units -> Command]
    /\ server_busy \in [Units -> BOOLEAN]
    /\ server_count \in [Units -> 0 .. MaxCount]
    /\ server_done \in [Units -> BOOLEAN]
    /\ server_result \in [Units -> Value]
    /\ FMATypeOK

\* A unit that is not busy is READY, has an empty pipeline and no result to
\* store, whatever resets and commands came before: the decoder's put is
\* never blocked, and a new job never meets a product of an old one.
UnitClean(u) == state[u] = "READY" /\ fpu_madd[u] = <<>> /\ ~server_done[u]
IdleUnitsClean == \A u \in Units : ~server_busy[u] => UnitClean(u)

\* Every product a busy unit's loader put is in the accumulator or in the
\* pipeline, once: none is lost and none is added twice while the loader and
\* the unit count on their own.
ProductsAccounted ==
    \A u \in Units : server_busy[u] /\ ~server_done[u] =>
        IF state[u] = "COMPLETE"
        THEN server_count[u] = server_cmd[u].count
        ELSE server_count[u] = m_count[u] + Len(fpu_madd[u])

\* A result waits for the writer only when all products of its command are
\* in it and the unit is still reserved for that command.
DoneIsComplete ==
    \A u \in Units : server_done[u] =>
        /\ server_busy[u]
        /\ server_count[u] = server_cmd[u].count
        /\ server_count[u] > 0

\* The phases of a busy unit, which the three invariants above follow from.
BusyUnit(u) ==
    LET n == server_count[u]
        len == server_cmd[u].count
    IN  /\ alloc_size[u] = len
        /\ n <= len
        /\ \/ /\ state[u] = "READY" /\ server_done[u]
              /\ fpu_madd[u] = <<>> /\ n = len /\ n > 0
           \/ /\ state[u] = "READY" /\ ~server_done[u]
              /\ fpu_madd[u] = <<>> /\ m_count[u] = n
              /\ n < len \/ len = 0
           \/ /\ state[u] = "LOCK" /\ ~server_done[u]
              /\ Len(fpu_madd[u]) = 1 /\ n = m_count[u] + 1
           \/ /\ state[u] = "COMPLETE" /\ ~server_done[u]
              /\ fpu_madd[u] = <<>> /\ n = len /\ n > 0

IInv ==
    /\ TypeOK
    /\ IdleUnitsClean
    /\ \A u \in Units : server_busy[u] => BusyUnit(u)

\* The accelerator implements sequential coprocessors: the sum of a unit is
\* what its pipeline, its accumulator or its result register holds.
UnitSum(u) ==
    CASE ~server_busy[u] -> Zero
      [] server_busy[u] /\ server_done[u] -> server_result[u]
      [] server_busy[u] /\ ~server_done[u] /\ fpu_madd[u] # <<>> -> Head(fpu_madd[u])
      [] OTHER -> acc[u]

MU == INSTANCE MatUnits WITH
    mem <- rgv_data,
    busy <- server_busy,
    cmd <- server_cmd,
    k <- [u \in Units |-> IF server_busy[u] THEN server_count[u] ELSE 0],
    sum <- [u \in Units |-> UnitSum(u)]

ImplementsMatUnits == MU!Spec

\* An execute is decoded, and so never blocks the bus for good: also after a
\* reset, and also when the unit it names is busy.
ExecuteDecoded == f_write_exec ~> ~f_write_exec

\* A unit that accepted a command with at least one product stores its
\* result and becomes free again, even if the accelerator is reset and other
\* units compete for the writer.
CommandsFinish ==
    \A u \in Units : (server_busy[u] /\ server_cmd[u].count > 0) ~> ~server_busy[u]

\* What software reads catches up, also after a reset or a store of software
\* to the busy map: a unit that stays busy is shown busy.
BusyIsShown ==
    \A u \in Units : server_busy[u] ~> (u \in busy_map \/ ~server_busy[u])

\* A command is undisturbed when no command stores into its operands and
\* software does not either.
Undisturbed(args) ==
    \A n \in 0 .. args.count - 1 :
        LET cells == {ElemCell(args.a, n), ElemCell(args.b, n)}
        IN  /\ \A other \in Command : other.c \notin cells
            /\ \A req \in Writes : req.region = "data" => req.cell \notin cells

\* The sums of the first products of operands in data, in the order of the
\* elements.
Sums(data, args) ==
    LET dot[n \in 0 .. args.count] ==
            IF n = 0 THEN Zero
            ELSE Madd(dot[n - 1], data[ElemCell(args.a, n - 1)],
                                  data[ElemCell(args.b, n - 1)])
    IN  dot
DotProduct(args) == Sums(rgv_data, args)[args.count]

\* The result that waits for the writer is the dot product of the vectors
\* the command names, whatever the other units, the bus and resets did
\* meanwhile.
ResultIsDotProduct ==
    \A u \in Units : server_done[u] /\ Undisturbed(server_cmd[u])
                        => server_result[u] = DotProduct(server_cmd[u])
=============================================================================
