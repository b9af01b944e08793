---------------------------- MODULE AccelProofs ----------------------------
(***************************************************************************)
(* Proofs about Accel for any number of banks, any memory size, any set of *)
(* values and any fused multiply-accumulate.                               *)
(***************************************************************************)
EXTENDS Accel, Induction, SequenceTheorems, TLAPS

-----------------------------------------------------------------------------
(* Consequences of the assumptions on the constants.                        *)

LEMMA ConstantFacts ==
    /\ Zero \in Value
    /\ 0 \in Units
    /\ 0 \in Cells
    /\ MaxCount \in Nat
    /\ CounterSize \in Nat
    /\ 0 .. MaxCount \subseteq 0 .. CounterSize - 2
    /\ 0 .. MaxCount \subseteq Counter
BY MatTypesAssumption, FusedMAAssumption DEF Units, Cells, Counter

LEMMA MaddType == \A c, a, b \in Value : Madd(c, a, b) \in Value
BY MatTypesAssumption

LEMMA CounterType == \A n \in Counter : Succ(n) \in Counter /\ Pred(n) \in Counter
BY FusedMAAssumption, ConstantFacts DEF Succ, Pred, Counter

LEMMA ZeroCommand == Args(ZeroHead, ZeroOperands) \in Command
BY DEF Command

\* What commands are made of: the decoder only assembles commands whose
\* fields have their types and whose operands lie in the data memory.
LEMMA CommandFields ==
    ASSUME NEW c \in Command
    PROVE  /\ c.unit \in Units
           /\ c.count \in 0 .. MaxCount
           /\ c.c \in Cells
           /\ \A n \in 0 .. MaxCount - 1 :
                 ElemCell(c.a, n) \in Cells /\ ElemCell(c.b, n) \in Cells
<1>1. PICK h \in Heads \cup {ZeroHead}, o \in Operands \cup {ZeroOperands} : c = Args(h, o)
  BY DEF Command
<1>2. /\ c.unit = h.unit /\ c.count = h.count
      /\ c.a = o.a /\ c.b = o.b /\ c.c = o.c
  BY <1>1 DEF Args
<1>3. h.unit \in Units /\ h.count \in 0 .. MaxCount
  BY MatTypesAssumption, ConstantFacts DEF HeadType, ZeroHead
<1>4. o.c \in Cells
  BY MatTypesAssumption, ConstantFacts DEF OperandType, ZeroOperands
<1>5. \A n \in 0 .. MaxCount - 1 : ElemCell(o.a, n) \in Cells /\ ElemCell(o.b, n) \in Cells
  BY MatTypesAssumption
<1>6. QED
  BY <1>2, <1>3, <1>4, <1>5

\* The payload of a request has the type of the register it goes to.
LEMMA RequestFields ==
    ASSUME NEW req \in Writes
    PROVE  /\ req.region = "stat" => req.data \in 0 .. 3
           /\ req.region = "busy" => req.data \in SUBSET Units
           /\ req.region = "head" => req.data \in Heads
           /\ req.region = "ptrs" => req.data \in Operands
           /\ req.region = "data" => req.cell \in Cells /\ req.data \in Value
<1>1. req \in WrReq
  BY AccelAssumption
<1>2. QED
  BY <1>1 DEF WrReq
-----------------------------------------------------------------------------
(* Type correctness.                                                        *)

LEMMA FMAInitType == FMAInit => FMATypeOK
BY ConstantFacts, EmptySeq DEF FMAInit, FMATypeOK, AccState

LEMMA InitType == Init => TypeOK
<1> SUFFICES ASSUME Init PROVE TypeOK
  OBVIOUS
<1>1. FMATypeOK
  BY FMAInitType DEF Init
<1>2. server_cmd \in [Units -> Command]
  BY ZeroCommand DEF Init
<1>3. QED
  BY <1>1, <1>2, ConstantFacts, EmptySeq DEF Init, TypeOK

\* The unit keeps its types when it is started, fed and answered.
LEMMA FMARequestType ==
    ASSUME FMATypeOK, NEW u \in Units, NEW n \in 0 .. MaxCount, put_Init(u, n)
    PROVE  FMATypeOK'
BY ConstantFacts DEF FMATypeOK, put_Init

LEMMA FMAReqOpType ==
    ASSUME FMATypeOK, NEW u \in Units, NEW a \in Value, NEW b \in Value, put_ReqOp(u, a, b)
    PROVE  FMATypeOK'
<1>1. Madd(acc[u], a, b) \in Value
  BY MaddType DEF FMATypeOK
<1>2. Append(fpu_madd[u], Madd(acc[u], a, b)) \in Seq(Value)
  BY <1>1, AppendProperties DEF FMATypeOK
<1>3. QED
  BY <1>2 DEF FMATypeOK, put_ReqOp, AccState

LEMMA FMAResponseType ==
    ASSUME FMATypeOK, NEW u \in Units, rl_pipe_response_madd(u)
    PROVE  FMATypeOK'
<1>1. fpu_madd[u] \in Seq(Value) /\ fpu_madd[u] # <<>>
  BY DEF FMATypeOK, rl_pipe_response_madd
<1>2. Head(fpu_madd[u]) \in Value /\ Tail(fpu_madd[u]) \in Seq(Value)
  BY <1>1, HeadTailProperties
<1>3. Succ(m_count[u]) \in Counter /\ 0 \in Counter
  BY CounterType, ConstantFacts DEF FMATypeOK
<1>4. QED
  BY <1>2, <1>3 DEF FMATypeOK, rl_pipe_response_madd, AccState

LEMMA FMAGetType ==
    ASSUME FMATypeOK, NEW u \in Units, response_get(u)
    PROVE  FMATypeOK'
BY DEF FMATypeOK, response_get, AccState

\* The bus side: requests enter, responses leave, reset clears the port.
LEMMA FabricType == ASSUME TypeOK, Fabric PROVE TypeOK'
<1>1. CASE \E req \in Writes : BusWrite(req)
  <2>1. PICK req \in Writes : BusWrite(req)
    BY <1>1
  <2>2. wr_reqs' \in Seq(Writes)
    BY <2>1, AppendProperties DEF BusWrite, TypeOK
  <2>3. QED
    BY <2>1, <2>2 DEF BusWrite, TypeOK, FMATypeOK, serverVars, fmaVars
<1>2. CASE \E req \in Reads : BusRead(req)
  <2>1. PICK req \in Reads : BusRead(req)
    BY <1>2
  <2>2. rd_reqs' \in Seq(Reads)
    BY <2>1, AppendProperties DEF BusRead, TypeOK
  <2>3. QED
    BY <2>1, <2>2 DEF BusRead, TypeOK, FMATypeOK, serverVars, fmaVars
<1>3. CASE BusWriteResp
  <2>1. wr_rsps' \in Seq(Resp)
    BY <1>3, HeadTailProperties DEF BusWriteResp, TypeOK
  <2>2. QED
    BY <1>3, <2>1 DEF BusWriteResp, TypeOK, FMATypeOK, serverVars, fmaVars
<1>4. CASE BusReadData
  BY <1>4 DEF BusReadData, TypeOK, FMATypeOK, serverVars, fmaVars
<1>5. CASE ResetRequest
  BY <1>5 DEF ResetRequest, TypeOK, FMATypeOK, serverVars, fmaVars
<1>6. CASE ResetResponse
  BY <1>6 DEF ResetResponse, TypeOK, FMATypeOK, serverVars, fmaVars
<1>7. QED
  BY <1>1, <1>2, <1>3, <1>4, <1>5, <1>6 DEF Fabric

LEMMA WriteType == ASSUME TypeOK, rl_process_wr_req PROVE TypeOK'
<1> DEFINE req == Head(wr_reqs)
<1>1. req \in Writes /\ wr_reqs' \in Seq(Writes)
  BY HeadTailProperties DEF rl_process_wr_req, TypeOK
<1>2. wr_rsps' \in Seq(Resp)
  <2>1. WriteResp(req) \in Resp
    BY DEF WriteResp, Resp
  <2>2. QED
    BY <2>1, AppendProperties DEF rl_process_wr_req, TypeOK
<1>3. /\ control' \in 0 .. 3
      /\ busy_map' \in SUBSET Units
      /\ rgv_command' \in [head : Heads \cup {ZeroHead}, ptrs : Operands \cup {ZeroOperands}]
      /\ rgv_data' \in [Cells -> Value]
      /\ f_write_exec' \in BOOLEAN
  <2> HIDE DEF req
  <2>1. WriteStat(req) \/ WriteBusy(req) \/ WriteCommand(req) \/ WriteData(req) \/ WriteNothing(req)
    BY DEF rl_process_wr_req, req
  <2>2. CASE WriteStat(req)
    BY <1>1, <2>2, RequestFields DEF WriteStat, TypeOK
  <2>3. CASE WriteBusy(req)
    BY <1>1, <2>3, RequestFields DEF WriteBusy, TypeOK
  <2>4. CASE WriteCommand(req)
    BY <1>1, <2>4, RequestFields DEF WriteCommand, TypeOK
  <2>5. CASE WriteData(req)
    BY <1>1, <2>5, RequestFields DEF WriteData, TypeOK
  <2>6. CASE WriteNothing(req)
    BY <2>6 DEF WriteNothing, TypeOK
  <2>7. QED
    BY <2>1, <2>2, <2>3, <2>4, <2>5, <2>6
<1>4. QED
  BY <1>1, <1>2, <1>3 DEF rl_process_wr_req, TypeOK, FMATypeOK, serverVars, fmaVars

LEMMA DecodeType == ASSUME TypeOK, rl_decode_command PROVE TypeOK'
<1> DEFINE c == Decoded
<1>1. c \in Command
  <2>1. /\ rgv_command.head \in Heads \cup {ZeroHead}
        /\ rgv_command.ptrs \in Operands \cup {ZeroOperands}
    BY DEF TypeOK
  <2>2. QED
    BY <2>1 DEF Decoded, Command
<1>2. c.unit \in Units /\ c.count \in 0 .. MaxCount
  BY <1>1, CommandFields
<1>3. server_cmd' \in [Units -> Command] /\ server_busy' \in [Units -> BOOLEAN]
      /\ server_count' \in [Units -> 0 .. MaxCount] /\ server_done' \in [Units -> BOOLEAN]
      /\ server_result' \in [Units -> Value] /\ FMATypeOK'
  <2>1. CASE DecodeIssue
    <3>1. FMATypeOK'
      BY <2>1, <1>2, FMARequestType DEF DecodeIssue, TypeOK
    <3>2. 0 \in 0 .. MaxCount
      BY ConstantFacts
    <3>3. QED
      BY <2>1, <1>1, <1>2, <3>1, <3>2 DEF DecodeIssue, TypeOK
  <2>2. CASE DecodeDrop
    BY <2>2 DEF DecodeDrop, TypeOK, serverVars, fmaVars, FMATypeOK
  <2>3. QED
    BY <2>1, <2>2 DEF rl_decode_command
<1>4. f_write_exec' \in BOOLEAN
  BY Zenon DEF rl_decode_command
<1>5. control' \in 0 .. 3
  BY SMT DEF rl_decode_command
<1>6. QED
  BY <1>3, <1>4, <1>5 DEF rl_decode_command, TypeOK, busVars

LEMMA LoadType == ASSUME TypeOK, NEW u \in Units, rl_load_mem(u) PROVE TypeOK'
<1> DEFINE args == server_cmd[u]
           n == server_count[u]
           va == rgv_data[ElemCell(args.a, n)]
           vb == rgv_data[ElemCell(args.b, n)]
<1>1. args \in Command /\ n \in 0 .. MaxCount
  BY DEF TypeOK
<1>2. args.count \in 0 .. MaxCount
  BY <1>1, CommandFields
<1>3. n \in 0 .. MaxCount - 1 /\ n + 1 \in 0 .. MaxCount
  BY <1>1, <1>2, ConstantFacts DEF rl_load_mem
<1>4. ElemCell(args.a, n) \in Cells /\ ElemCell(args.b, n) \in Cells
  BY <1>1, <1>3, CommandFields
<1>5. va \in Value /\ vb \in Value
  BY <1>4 DEF TypeOK
<1>6. put_ReqOp(u, va, vb) /\ server_count' = [server_count EXCEPT ![u] = n + 1]
  BY DEF rl_load_mem
<1>7. FMATypeOK'
  BY <1>5, <1>6, FMAReqOpType DEF TypeOK
<1>8. server_count' \in [Units -> 0 .. MaxCount]
  BY <1>3, <1>6 DEF TypeOK
<1>9. QED
  BY <1>7, <1>8 DEF rl_load_mem, TypeOK, busVars

LEMMA WriteResType == ASSUME TypeOK, NEW u \in Units, rl_write_res(u) PROVE TypeOK'
<1>1. server_cmd[u].c \in Cells
  BY CommandFields DEF TypeOK
<1>2. QED
  BY <1>1 DEF rl_write_res, TypeOK, FMATypeOK, busVars, fmaVars

LEMMA StepType == TypeOK /\ [Next]_vars => TypeOK'
<1> SUFFICES ASSUME TypeOK, [Next]_vars PROVE TypeOK'
  OBVIOUS
<1>1. CASE Fabric
  BY <1>1, FabricType
<1>2. CASE rl_reset
  <2>1. /\ wr_reqs' \in Seq(Writes) /\ wr_rsps' \in Seq(Resp) /\ rd_reqs' \in Seq(Reads)
        /\ control' \in 0 .. 3 /\ busy_map' \in SUBSET Units
    BY <1>2, EmptySeq, SMT DEF rl_reset
  <2>2. /\ f_reset_reqs' \in BOOLEAN /\ f_reset_rsps' \in BOOLEAN
        /\ rg_state' \in {"START", "READY"}
    BY <1>2, Zenon DEF rl_reset
  <2>3. QED
    BY <1>2, <2>1, <2>2 DEF rl_reset, TypeOK, FMATypeOK, serverVars, fmaVars
<1>3. CASE rl_process_rd_req
  <2>1. rd_reqs' \in Seq(Reads)
    BY <1>3, HeadTailProperties DEF rl_process_rd_req, TypeOK
  <2>2. QED
    BY <1>3, <2>1 DEF rl_process_rd_req, TypeOK, FMATypeOK, serverVars, fmaVars
<1>4. CASE rl_process_wr_req
  BY <1>4, WriteType
<1>5. CASE rl_decode_command
  BY <1>5, DecodeType
<1>6. CASE rl_busy_map
  BY <1>6 DEF rl_busy_map, TypeOK, FMATypeOK, busVars, serverVars, fmaVars
<1>7. ASSUME NEW u \in Units, rl_load_mem(u) PROVE TypeOK'
  BY <1>7, LoadType
<1>8. ASSUME NEW u \in Units, UnitResponse(u) PROVE TypeOK'
  BY <1>8, FMAResponseType DEF UnitResponse, TypeOK, busVars, serverVars
<1>9. ASSUME NEW u \in Units, rl_write_res_mem(u) PROVE TypeOK'
  <2>1. FMATypeOK' /\ acc[u] \in Value
    BY <1>9, FMAGetType DEF rl_write_res_mem, TypeOK, FMATypeOK
  <2>2. QED
    BY <1>9, <2>1 DEF rl_write_res_mem, TypeOK, busVars
<1>10. ASSUME NEW u \in Units, rl_write_res(u) PROVE TypeOK'
  BY <1>10, WriteResType
<1>11. CASE UNCHANGED vars
  BY <1>11 DEF vars, TypeOK, FMATypeOK, busVars, serverVars, fmaVars
<1>12. QED
  BY <1>1, <1>2, <1>3, <1>4, <1>5, <1>6, <1>7, <1>8, <1>9, <1>10, <1>11 DEF Next, Rules

\* Every register and FIFO of the accelerator keeps its type; in particular
\* the loaders never count past the largest length and the decoder never
\* names a missing unit or an operand outside the data memory.
THEOREM TypeCorrect == Spec => []TypeOK
<1>1. QED
  BY InitType, StepType, PTL DEF Spec
-----------------------------------------------------------------------------
(* The inductive invariant: every unit is clean, or in one of the phases of *)
(* BusyUnit.                                                                *)

UnitOK(u) == IF server_busy[u] THEN BusyUnit(u) ELSE UnitClean(u)

LEMMA IInvUnits == IInv <=> TypeOK /\ \A u \in Units : UnitOK(u)
BY DEF IInv, IdleUnitsClean, UnitOK

\* Sequences of at most one element, as the pipeline of a locked unit.
LEMMA OneElement ==
    ASSUME NEW S, NEW s \in Seq(S)
    PROVE  /\ s = <<>> <=> Len(s) = 0
           /\ Len(s) = 1 => Tail(s) = <<>>
           /\ \A x \in S : s = <<>> => Len(Append(s, x)) = 1 /\ Head(Append(s, x)) = x
<1>1. s = <<>> <=> Len(s) = 0
  BY EmptySeq
<1>2. ASSUME Len(s) = 1 PROVE Tail(s) = <<>>
  <2>1. Tail(s) \in Seq(S) /\ Len(Tail(s)) = 0
    BY <1>1, <1>2, HeadTailProperties
  <2>2. QED
    BY <2>1, EmptySeq
<1>3. ASSUME NEW x \in S, s = <<>> PROVE Len(Append(s, x)) = 1 /\ Head(Append(s, x)) = x
  BY <1>1, <1>3, AppendProperties, HeadTailAppend
<1>4. QED
  BY <1>1, <1>2, <1>3

\* A unit none of whose registers changes stays as it is.
LEMMA UnitFrame ==
    ASSUME NEW u \in Units, UnitOK(u),
           UNCHANGED <<state[u], m_count[u], alloc_size[u], fpu_madd[u], server_cmd[u],
                       server_busy[u], server_count[u], server_done[u]>>
    PROVE  UnitOK(u)'
BY DEF UnitOK, BusyUnit, UnitClean

LEMMA InitUnits == Init => \A u \in Units : UnitOK(u)
BY DEF Init, FMAInit, UnitOK, UnitClean

\* The decoder finds the unit clean and leaves it at the start of its job.
LEMMA IssueUnits ==
    ASSUME IInv, DecodeIssue, NEW v \in Units
    PROVE  UnitOK(v)'
<1> DEFINE u == Decoded.unit
<1>1. Decoded \in Command
  <2>1. /\ rgv_command.head \in Heads \cup {ZeroHead}
        /\ rgv_command.ptrs \in Operands \cup {ZeroOperands}
    BY DEF IInv, TypeOK
  <2>2. QED
    BY <2>1 DEF Decoded, Command
<1>2. u \in Units /\ Decoded.count \in Nat
  BY <1>1, CommandFields, ConstantFacts
<1>3. UnitOK(v)
  BY IInvUnits
<1>4. CASE v = u
  <2>1. UnitClean(v) /\ TypeOK
    BY <1>3, <1>4 DEF DecodeIssue, UnitOK, IInv
  <2>2. /\ server_busy'[v] = TRUE /\ server_done'[v] = server_done[v]
        /\ server_cmd'[v].count = Decoded.count /\ server_count'[v] = 0
        /\ alloc_size'[v] = Decoded.count /\ m_count'[v] = 0
        /\ state'[v] = state[v] /\ fpu_madd'[v] = fpu_madd[v]
    BY <2>1, <1>2, <1>4 DEF DecodeIssue, put_Init, TypeOK, FMATypeOK
  <2>3. QED
    BY <2>1, <2>2, <1>2 DEF UnitOK, UnitClean, BusyUnit
<1>5. CASE v # u
  <2>1. TypeOK
    BY DEF IInv
  <2>2. UNCHANGED <<state[v], m_count[v], alloc_size[v], fpu_madd[v], server_cmd[v],
                    server_busy[v], server_count[v], server_done[v]>>
    BY <1>5, <2>1 DEF DecodeIssue, put_Init, TypeOK, FMATypeOK
  <2>3. QED
    BY <1>3, <2>2, UnitFrame
<1>6. QED
  BY <1>4, <1>5

\* The loader locks the unit: one more product is loaded and in the pipeline.
LEMMA LoadUnits ==
    ASSUME IInv, NEW u \in Units, rl_load_mem(u), NEW v \in Units
    PROVE  UnitOK(v)'
<1> DEFINE args == server_cmd[u]
           n == server_count[u]
           x == Madd(acc[u], rgv_data[ElemCell(args.a, n)], rgv_data[ElemCell(args.b, n)])
<1>0. TypeOK /\ FMATypeOK
  BY DEF IInv, TypeOK
<1>1. UnitOK(v) /\ UnitOK(u)
  BY IInvUnits
<1>2. n \in Nat /\ args.count \in 0 .. MaxCount /\ n \in 0 .. MaxCount - 1
  BY <1>0, CommandFields, ConstantFacts DEF TypeOK, rl_load_mem
<1>3. x \in Value
  BY <1>0, <1>2, CommandFields, MaddType DEF TypeOK, FMATypeOK
<1>4. CASE v = u
  <2>1. BusyUnit(u)
    BY <1>1 DEF rl_load_mem, UnitOK
  <2>2. /\ state[u] = "READY" /\ ~server_done[u] /\ fpu_madd[u] = <<>> /\ m_count[u] = n
        /\ alloc_size[u] = args.count
    BY <2>1, <1>2 DEF BusyUnit, rl_load_mem, put_ReqOp
  <2> HIDE DEF x
  <2>3. fpu_madd'[u] = Append(fpu_madd[u], x) /\ Len(fpu_madd'[u]) = 1
    <3>1. fpu_madd'[u] = Append(fpu_madd[u], x)
      BY <1>0 DEF rl_load_mem, put_ReqOp, FMATypeOK, x
    <3>2. QED
      BY <3>1, <2>2, <1>3, <1>0, OneElement DEF FMATypeOK
  <2>4. /\ state'[u] = "LOCK" /\ server_done'[u] = server_done[u]
        /\ server_busy'[u] = server_busy[u] /\ server_cmd'[u] = args
        /\ server_count'[u] = n + 1 /\ m_count'[u] = n /\ alloc_size'[u] = args.count
    BY <1>0, <2>2 DEF rl_load_mem, put_ReqOp, TypeOK, FMATypeOK
  <2>5. QED
    BY <1>2, <1>4, <2>2, <2>3, <2>4 DEF UnitOK, BusyUnit, rl_load_mem
<1>5. CASE v # u
  <2>1. UNCHANGED <<state[v], m_count[v], alloc_size[v], fpu_madd[v], server_cmd[v],
                    server_busy[v], server_count[v], server_done[v]>>
    BY <1>5, <1>0 DEF rl_load_mem, put_ReqOp, TypeOK, FMATypeOK
  <2>2. QED
    BY <1>1, <2>1, UnitFrame
<1>6. QED
  BY <1>4, <1>5

\* A response empties the pipeline and ends the job exactly when the loader
\* has loaded all of it.
LEMMA ResponseUnits ==
    ASSUME IInv, NEW u \in Units, UnitResponse(u), NEW v \in Units
    PROVE  UnitOK(v)'
<1>0. TypeOK /\ FMATypeOK
  BY DEF IInv, TypeOK
<1>1. UnitOK(v) /\ UnitOK(u)
  BY IInvUnits
<1>2. CASE v = u
  <2>1. state[u] = "LOCK"
    BY DEF UnitResponse, rl_pipe_response_madd
  <2>2. server_busy[u] /\ BusyUnit(u)
    BY <1>1, <2>1 DEF UnitOK, UnitClean
  <2>3. /\ ~server_done[u] /\ Len(fpu_madd[u]) = 1 /\ server_count[u] = m_count[u] + 1
        /\ alloc_size[u] = server_cmd[u].count /\ server_count[u] <= server_cmd[u].count
    BY <2>1, <2>2 DEF BusyUnit
  <2>4. fpu_madd'[u] = <<>>
    <3>1. fpu_madd'[u] = Tail(fpu_madd[u])
      BY <1>0 DEF UnitResponse, rl_pipe_response_madd, FMATypeOK
    <3>2. QED
      BY <3>1, <2>3, <1>0, OneElement DEF FMATypeOK
  <2>5. /\ server_count[u] \in 1 .. MaxCount /\ m_count[u] \in 0 .. MaxCount - 1
        /\ server_cmd[u].count \in 1 .. MaxCount
    BY <2>3, <1>0, CommandFields, ConstantFacts DEF TypeOK, FMATypeOK, Counter
  <2>6. Pred(alloc_size[u]) = server_cmd[u].count - 1 /\ Succ(m_count[u]) = m_count[u] + 1
    BY <2>3, <2>5, ConstantFacts DEF Pred, Succ
  <2>7. /\ server_done'[u] = server_done[u] /\ server_busy'[u] = server_busy[u]
        /\ server_cmd'[u] = server_cmd[u] /\ server_count'[u] = server_count[u]
        /\ alloc_size'[u] = alloc_size[u]
    BY DEF UnitResponse, rl_pipe_response_madd, serverVars
  <2>8. CASE m_count[u] = Pred(alloc_size[u])
    <3>1. state'[u] = "COMPLETE"
      BY <2>8, <1>0 DEF UnitResponse, rl_pipe_response_madd, FMATypeOK
    <3>2. QED
      BY <1>2, <2>2, <2>3, <2>4, <2>5, <2>6, <2>7, <2>8, <3>1 DEF UnitOK, BusyUnit
  <2>9. CASE m_count[u] # Pred(alloc_size[u])
    <3>1. state'[u] = "READY" /\ m_count'[u] = Succ(m_count[u])
      BY <2>9, <1>0 DEF UnitResponse, rl_pipe_response_madd, FMATypeOK
    <3>2. QED
      BY <1>2, <2>2, <2>3, <2>4, <2>5, <2>6, <2>7, <2>9, <3>1 DEF UnitOK, BusyUnit
  <2>10. QED
    BY <2>8, <2>9
<1>3. CASE v # u
  <2>1. UNCHANGED <<state[v], m_count[v], alloc_size[v], fpu_madd[v], server_cmd[v],
                    server_busy[v], server_count[v], server_done[v]>>
    BY <1>3, <1>0 DEF UnitResponse, rl_pipe_response_madd, serverVars, TypeOK, FMATypeOK
  <2>2. QED
    BY <1>1, <2>1, UnitFrame
<1>4. QED
  BY <1>2, <1>3

\* Latching the result takes the unit from COMPLETE to done.
LEMMA LatchUnits ==
    ASSUME IInv, NEW u \in Units, rl_write_res_mem(u), NEW v \in Units
    PROVE  UnitOK(v)'
<1>0. TypeOK /\ FMATypeOK
  BY DEF IInv, TypeOK
<1>1. UnitOK(v) /\ UnitOK(u)
  BY IInvUnits
<1>2. CASE v = u
  <2>1. server_busy[u] /\ state[u] = "COMPLETE" /\ BusyUnit(u)
    BY <1>1 DEF rl_write_res_mem, response_get, UnitOK
  <2>2. /\ state'[u] = "READY" /\ server_done'[u] = TRUE
        /\ UNCHANGED <<m_count[u], alloc_size[u], fpu_madd[u], server_cmd[u],
                       server_busy[u], server_count[u]>>
    BY <1>0 DEF rl_write_res_mem, response_get, TypeOK, FMATypeOK
  <2>3. QED
    BY <1>2, <2>1, <2>2 DEF UnitOK, BusyUnit
<1>3. CASE v # u
  <2>1. UNCHANGED <<state[v], m_count[v], alloc_size[v], fpu_madd[v], server_cmd[v],
                    server_busy[v], server_count[v], server_done[v]>>
    BY <1>3, <1>0 DEF rl_write_res_mem, response_get, TypeOK, FMATypeOK
  <2>2. QED
    BY <1>1, <2>1, UnitFrame
<1>4. QED
  BY <1>2, <1>3

\* Storing the result frees a unit that is clean.
LEMMA StoreUnits ==
    ASSUME IInv, NEW u \in Units, rl_write_res(u), NEW v \in Units
    PROVE  UnitOK(v)'
<1>0. TypeOK /\ FMATypeOK
  BY DEF IInv, TypeOK
<1>1. UnitOK(v) /\ UnitOK(u)
  BY IInvUnits
<1>2. CASE v = u
  <2>1. server_done[u] /\ server_busy[u] /\ BusyUnit(u)
    BY <1>1 DEF rl_write_res, UnitOK, UnitClean
  <2>2. state[u] = "READY" /\ fpu_madd[u] = <<>>
    BY <2>1 DEF BusyUnit
  <2>3. server_busy'[u] = FALSE /\ server_done'[u] = FALSE /\ UNCHANGED <<state[u], fpu_madd[u]>>
    BY <1>0 DEF rl_write_res, fmaVars, TypeOK
  <2>4. QED
    BY <1>2, <2>2, <2>3 DEF UnitOK, UnitClean
<1>3. CASE v # u
  <2>1. UNCHANGED <<state[v], m_count[v], alloc_size[v], fpu_madd[v], server_cmd[v],
                    server_busy[v], server_count[v], server_done[v]>>
    BY <1>3, <1>0 DEF rl_write_res, fmaVars, TypeOK
  <2>2. QED
    BY <1>1, <2>1, UnitFrame
<1>4. QED
  BY <1>2, <1>3

LEMMA StepIInv == IInv /\ [Next]_vars => IInv'
<1> SUFFICES ASSUME IInv, [Next]_vars PROVE IInv'
  OBVIOUS
<1>1. TypeOK'
  BY StepType DEF IInv
<1> SUFFICES ASSUME NEW v \in Units PROVE UnitOK(v)'
  BY <1>1 DEF IInv, IdleUnitsClean, UnitOK
<1>2. UnitOK(v)
  BY IInvUnits
<1>3. CASE UNCHANGED <<serverVars, fmaVars>>
  BY <1>2, <1>3, UnitFrame DEF serverVars, fmaVars
<1>4. CASE DecodeIssue
  BY <1>4, IssueUnits
<1>5. ASSUME NEW u \in Units,
             rl_load_mem(u) \/ UnitResponse(u) \/ rl_write_res_mem(u) \/ rl_write_res(u)
      PROVE  UnitOK(v)'
  BY <1>5, LoadUnits, ResponseUnits, LatchUnits, StoreUnits
<1>6. Fabric => UNCHANGED <<serverVars, fmaVars>>
  BY DEF Fabric, BusWrite, BusRead, BusWriteResp, BusReadData, ResetRequest, ResetResponse
<1>7. rl_reset \/ rl_process_rd_req \/ rl_process_wr_req \/ rl_busy_map
         => UNCHANGED <<serverVars, fmaVars>>
  BY DEF rl_reset, rl_process_rd_req, rl_process_wr_req, rl_busy_map
<1>8. rl_decode_command => DecodeIssue \/ UNCHANGED <<serverVars, fmaVars>>
  BY DEF rl_decode_command, DecodeDrop
<1>9. UNCHANGED vars => UNCHANGED <<serverVars, fmaVars>>
  BY DEF vars
<1>10. QED
  BY <1>3, <1>4, <1>5, <1>6, <1>7, <1>8, <1>9 DEF Next, Rules

\* Every reachable state satisfies the inductive invariant.
THEOREM InductiveInvariant == Spec => []IInv
<1>1. Init => IInv
  BY InitType, InitUnits, IInvUnits
<1>2. QED
  BY <1>1, StepIInv, PTL DEF Spec

\* The decoder always finds an idle unit ready, with nothing left over from
\* an earlier job: no command blocks the decoder and no product leaks into
\* the next job.
THEOREM IdleUnitsAreClean == Spec => []IdleUnitsClean
<1>1. IInv => IdleUnitsClean
  BY DEF IInv
<1>2. QED
  BY <1>1, InductiveInvariant, PTL

\* No product of a running job is lost or counted twice between the loader,
\* the pipeline and the accumulator.
THEOREM ProductsAreAccounted == Spec => []ProductsAccounted
<1>1. ASSUME IInv PROVE ProductsAccounted
  <2> SUFFICES ASSUME NEW u \in Units, server_busy[u], ~server_done[u]
               PROVE  IF state[u] = "COMPLETE"
                      THEN server_count[u] = server_cmd[u].count
                      ELSE server_count[u] = m_count[u] + Len(fpu_madd[u])
    BY DEF ProductsAccounted
  <2>1. BusyUnit(u) /\ m_count[u] \in Nat /\ fpu_madd[u] \in Seq(Value)
    BY <1>1 DEF IInv, TypeOK, FMATypeOK, Counter
  <2>2. fpu_madd[u] = <<>> => Len(fpu_madd[u]) = 0
    BY EmptySeq
  <2>3. CASE state[u] = "READY"
    BY <2>1, <2>2, <2>3 DEF BusyUnit
  <2>4. CASE state[u] = "LOCK"
    BY <2>1, <2>4 DEF BusyUnit
  <2>5. CASE state[u] = "COMPLETE"
    BY <2>1, <2>5 DEF BusyUnit
  <2>6. QED
    BY <2>1, <2>3, <2>4, <2>5 DEF BusyUnit
<1>2. QED
  BY <1>1, InductiveInvariant, PTL

\* A result is stored only when it holds every product of its command, and
\* the unit is reserved until then.
THEOREM DoneIsCompleteAlways == Spec => []DoneIsComplete
<1>1. IInv => DoneIsComplete
  BY DEF IInv, IdleUnitsClean, UnitClean, DoneIsComplete, BusyUnit
<1>2. QED
  BY <1>1, InductiveInvariant, PTL
-----------------------------------------------------------------------------
(* The refinement: every step of the accelerator is a step of the           *)
(* sequential coprocessors or leaves their state unchanged.                 *)

\* The state of the coprocessors that the accelerator implements.
MUk == [u \in Units |-> IF server_busy[u] THEN server_count[u] ELSE 0]
MUsum == [u \in Units |-> UnitSum(u)]
MUstate == <<rgv_data, server_busy, server_cmd, MUk, MUsum>>

LEMMA MUOperators ==
    /\ MU!Units = Units /\ MU!Cells = Cells /\ MU!Command = Command
    /\ \A p, n : MU!ElemCell(p, n) = ElemCell(p, n)
    /\ MU!Args(MU!ZeroHead, MU!ZeroOperands) = Args(ZeroHead, ZeroOperands)
<1>1. /\ MU!ZeroHead = ZeroHead /\ MU!ZeroOperands = ZeroOperands
      /\ \A h, o : MU!Args(h, o) = Args(h, o)
  BY DEF MU!ZeroHead, ZeroHead, MU!ZeroOperands, ZeroOperands, MU!ZeroPtr, ZeroPtr,
         MU!Args, Args
<1>2. MU!Command = Command
  BY <1>1 DEF MU!Command, Command
<1>3. QED
  BY <1>1, <1>2 DEF MU!Units, Units, MU!Cells, Cells, MU!ElemCell, ElemCell

LEMMA MUStutter == UNCHANGED MUstate => UNCHANGED MU!vars
BY DEF MU!vars, MUstate, MUk, MUsum, MU!Units, Units

\* Finish, over the names above.
LEMMA MUFinish ==
    ASSUME NEW u, server_busy[u], MUk[u] = server_cmd[u].count, MUk[u] # 0,
           rgv_data' = [rgv_data EXCEPT ![server_cmd[u].c] = MUsum[u]],
           server_busy' = [server_busy EXCEPT ![u] = FALSE],
           MUk' = [MUk EXCEPT ![u] = 0],
           MUsum' = [MUsum EXCEPT ![u] = Zero],
           server_cmd' = server_cmd
    PROVE  MU!Finish(u)
BY Zenon DEF MU!Finish, MUk, MUsum, MU!Units, Units

LEMMA RefinesInit == Init => MU!Init
<1> SUFFICES ASSUME Init PROVE MU!Init
  OBVIOUS
<1>1. MUk = [u \in Units |-> 0] /\ MUsum = [u \in Units |-> Zero]
  BY DEF Init, MUk, MUsum, UnitSum
<1>2. QED
  BY <1>1, MUOperators DEF Init, MU!Init, MUk, MUsum

\* Rules and methods that touch neither the units nor the memory.
LEMMA RefinesStutter ==
    ASSUME UNCHANGED <<rgv_data, serverVars, fmaVars>>
    PROVE  UNCHANGED MUstate
BY DEF MUstate, MUk, MUsum, UnitSum, serverVars, fmaVars

\* A store of software to the data memory is a Store.
LEMMA RefinesWrite ==
    ASSUME IInv, rl_process_wr_req
    PROVE  MU!Next \/ UNCHANGED MUstate
<1> DEFINE req == Head(wr_reqs)
<1>1. req \in Writes
  BY HeadTailProperties DEF rl_process_wr_req, IInv, TypeOK
<1> HIDE DEF req
<1>2. UNCHANGED <<serverVars, fmaVars>>
  BY DEF rl_process_wr_req
<1>3. UNCHANGED <<server_busy, server_cmd, MUk, MUsum>>
  BY <1>2 DEF MUk, MUsum, UnitSum, serverVars, fmaVars
<1>4. CASE rgv_data' = rgv_data
  BY <1>3, <1>4 DEF MUstate
<1>5. CASE WriteData(req) /\ req.full
  <2>1. req.cell \in Cells /\ req.data \in Value
    BY <1>1, <1>5, RequestFields DEF WriteData
  <2>2. rgv_data' = [rgv_data EXCEPT ![req.cell] = req.data]
    BY <1>5 DEF WriteData
  <2>3. MU!Store(req.cell, req.data)
    BY <1>3, <2>2 DEF MU!Store, MUk, MUsum, MU!Units, Units
  <2>4. QED
    BY <2>1, <2>3, MUOperators DEF MU!Next
<1>6. rgv_data' = rgv_data \/ (WriteData(req) /\ req.full)
  BY DEF rl_process_wr_req, WriteStat, WriteBusy, WriteCommand, WriteData, WriteNothing, req
<1>7. QED
  BY <1>4, <1>5, <1>6

\* Issuing a command is an Accept.
LEMMA RefinesIssue ==
    ASSUME IInv, rl_decode_command, DecodeIssue
    PROVE  MU!Next
<1> DEFINE u == Decoded.unit
<1>0. TypeOK /\ FMATypeOK
  BY DEF IInv, TypeOK
<1>1. Decoded \in Command
  <2>1. /\ rgv_command.head \in Heads \cup {ZeroHead}
        /\ rgv_command.ptrs \in Operands \cup {ZeroOperands}
    BY <1>0 DEF TypeOK
  <2>2. QED
    BY <2>1 DEF Decoded, Command
<1>2. u \in Units
  BY <1>1, CommandFields
<1>3. ~server_busy[u] /\ UnitClean(u)
  BY <1>2 DEF DecodeIssue, IInv, IdleUnitsClean
<1>4. MUk' = MUk
  BY <1>0, <1>2, <1>3 DEF DecodeIssue, MUk, TypeOK
<1>5. MUsum' = MUsum
  <2>1. ASSUME NEW v \in Units PROVE UnitSum(v)' = UnitSum(v)
    <3>1. CASE v = u
      <4>1. UnitSum(v) = Zero
        BY <1>3, <3>1 DEF UnitSum
      <4>2. server_busy'[u] /\ ~server_done'[u] /\ fpu_madd'[u] = <<>> /\ acc'[u] = Zero
        BY <1>0, <1>2, <1>3 DEF DecodeIssue, put_Init, UnitClean, TypeOK, FMATypeOK
      <4>3. QED
        BY <3>1, <4>1, <4>2 DEF UnitSum
    <3>2. CASE v # u
      BY <1>0, <1>2, <3>2 DEF UnitSum, DecodeIssue, put_Init, TypeOK, FMATypeOK
    <3>3. QED
      BY <3>1, <3>2
  <2>2. QED
    BY <2>1 DEF MUsum
<1>6. MU!Accept(u)
  <2>1. /\ server_busy' = [server_busy EXCEPT ![u] = TRUE]
        /\ server_cmd' = [server_cmd EXCEPT ![u] = Decoded]
        /\ rgv_data' = rgv_data
    BY DEF rl_decode_command, DecodeIssue
  <2>2. \E c \in MU!Command : c.unit = u /\ server_cmd' = [server_cmd EXCEPT ![u] = c]
    BY <2>1, <1>1, MUOperators
  <2>3. QED
    BY <1>3, <1>4, <1>5, <2>1, <2>2 DEF MU!Accept, MUk, MUsum, MU!Units, Units
<1>7. QED
  BY <1>2, <1>6, MUOperators DEF MU!Next

\* Loading an operand pair is an Accumulate: the product is in the sum from
\* the moment it enters the pipeline.
LEMMA RefinesLoad ==
    ASSUME IInv, NEW u \in Units, rl_load_mem(u)
    PROVE  MU!Next
<1> DEFINE args == server_cmd[u]
           n == server_count[u]
           x == Madd(acc[u], rgv_data[ElemCell(args.a, n)], rgv_data[ElemCell(args.b, n)])
<1>0. TypeOK /\ FMATypeOK
  BY DEF IInv, TypeOK
<1>1. BusyUnit(u) /\ server_busy[u] /\ n < args.count /\ state[u] = "READY"
  BY DEF IInv, rl_load_mem, put_ReqOp
<1>2. n \in Nat /\ args.count \in Nat /\ n \in 0 .. MaxCount - 1
  BY <1>0, <1>1, CommandFields, ConstantFacts DEF TypeOK
<1>3. ~server_done[u] /\ fpu_madd[u] = <<>>
  BY <1>1, <1>2 DEF BusyUnit
<1>4. UnitSum(u) = acc[u]
  BY <1>1, <1>3 DEF UnitSum
<1>5. x \in Value
  BY <1>0, <1>2, CommandFields, MaddType DEF TypeOK, FMATypeOK
<1>6. fpu_madd'[u] # <<>> /\ Head(fpu_madd'[u]) = x
  <2> HIDE DEF x
  <2>1. fpu_madd'[u] = Append(fpu_madd[u], x)
    BY <1>0 DEF rl_load_mem, put_ReqOp, FMATypeOK, x
  <2>2. QED
    BY <2>1, <1>0, <1>3, <1>5, OneElement, AppendProperties DEF FMATypeOK
<1>7. MUk' = [MUk EXCEPT ![u] = MUk[u] + 1]
  BY <1>0, <1>1 DEF MUk, rl_load_mem, TypeOK
<1>8. MUsum' = [MUsum EXCEPT ![u] = x]
  <2>1. UnitSum(u)' = x
    BY <1>1, <1>3, <1>6 DEF UnitSum, rl_load_mem
  <2>2. ASSUME NEW v \in Units, v # u PROVE UnitSum(v)' = UnitSum(v)
    BY <1>0, <2>2 DEF UnitSum, rl_load_mem, put_ReqOp, FMATypeOK
  <2>3. QED
    BY <2>1, <2>2 DEF MUsum
<1>9. MU!Accumulate(u)
  <2>1. MUk[u] = n /\ MUsum[u] = acc[u]
    BY <1>1, <1>4 DEF MUk, MUsum
  <2>2. UNCHANGED <<rgv_data, server_busy, server_cmd>>
    BY DEF rl_load_mem
  <2>3. x = Madd(MUsum[u], rgv_data[MU!ElemCell(args.a, MUk[u])],
                           rgv_data[MU!ElemCell(args.b, MUk[u])])
    BY <2>1, MUOperators
  <2> HIDE DEF x
  <2>4. QED
    BY <1>1, <1>7, <1>8, <2>1, <2>2, <2>3 DEF MU!Accumulate, MUk, MUsum, MU!Units, Units
<1>10. QED
  BY <1>9, MUOperators DEF MU!Next

\* The pipeline's response moves the sum into the accumulator.
LEMMA RefinesResponse ==
    ASSUME IInv, NEW u \in Units, UnitResponse(u)
    PROVE  UNCHANGED MUstate
<1>0. TypeOK /\ FMATypeOK
  BY DEF IInv, TypeOK
<1>1. state[u] = "LOCK" /\ fpu_madd[u] # <<>>
  BY DEF UnitResponse, rl_pipe_response_madd
<1>2. server_busy[u] /\ ~server_done[u] /\ Len(fpu_madd[u]) = 1
  BY <1>1 DEF IInv, IdleUnitsClean, UnitClean, BusyUnit
<1>3. fpu_madd'[u] = <<>> /\ acc'[u] = Head(fpu_madd[u])
  BY <1>0, <1>2, OneElement DEF UnitResponse, rl_pipe_response_madd, FMATypeOK
<1>4. UNCHANGED <<rgv_data, serverVars>>
  BY DEF UnitResponse
<1>5. UnitSum(u)' = UnitSum(u)
  BY <1>1, <1>2, <1>3, <1>4 DEF UnitSum, serverVars
<1>6. ASSUME NEW v \in Units, v # u PROVE UnitSum(v)' = UnitSum(v)
  BY <1>0, <1>4, <1>6 DEF UnitSum, UnitResponse, rl_pipe_response_madd, FMATypeOK, serverVars
<1>7. MUsum' = MUsum
  BY <1>5, <1>6 DEF MUsum
<1>8. QED
  BY <1>4, <1>7 DEF MUstate, MUk, serverVars

\* Latching moves it on into the result register.
LEMMA RefinesLatch ==
    ASSUME IInv, NEW u \in Units, rl_write_res_mem(u)
    PROVE  UNCHANGED MUstate
<1>0. TypeOK /\ FMATypeOK
  BY DEF IInv, TypeOK
<1>1. state[u] = "COMPLETE" /\ server_busy[u] /\ ~server_done[u] /\ fpu_madd[u] = <<>>
  BY DEF rl_write_res_mem, response_get, IInv, BusyUnit
<1>2. UnitSum(u) = acc[u]
  BY <1>1 DEF UnitSum
<1>3. UNCHANGED <<rgv_data, server_busy, server_cmd, server_count>>
  BY DEF rl_write_res_mem
<1>4. server_done'[u] = TRUE /\ server_result'[u] = acc[u]
  BY <1>0 DEF rl_write_res_mem, TypeOK
<1>5. UnitSum(u)' = acc[u]
  BY <1>1, <1>3, <1>4 DEF UnitSum
<1>6. ASSUME NEW v \in Units, v # u PROVE UnitSum(v)' = UnitSum(v)
  BY <1>0, <1>6 DEF UnitSum, rl_write_res_mem, response_get, TypeOK
<1>7. MUsum' = MUsum
  BY <1>2, <1>5, <1>6 DEF MUsum
<1>8. QED
  BY <1>3, <1>7 DEF MUstate, MUk

\* Storing the result is a Finish.
LEMMA RefinesFinish ==
    ASSUME IInv, NEW u \in Units, rl_write_res(u)
    PROVE  MU!Next
<1>0. TypeOK /\ FMATypeOK
  BY DEF IInv, TypeOK
<1>1. server_done[u] /\ server_busy[u] /\ BusyUnit(u)
  BY DEF rl_write_res, IInv, IdleUnitsClean, UnitClean
<1>2. server_count[u] = server_cmd[u].count /\ server_count[u] > 0 /\ server_count[u] \in Nat
  BY <1>0, <1>1 DEF BusyUnit, TypeOK
<1>3. UnitSum(u) = server_result[u]
  BY <1>1 DEF UnitSum
<1>4. MUk' = [MUk EXCEPT ![u] = 0]
  BY <1>0 DEF MUk, rl_write_res, TypeOK
<1>5. MUsum' = [MUsum EXCEPT ![u] = Zero]
  <2>1. UnitSum(u)' = Zero
    BY <1>0 DEF UnitSum, rl_write_res, TypeOK
  <2>2. ASSUME NEW v \in Units, v # u PROVE UnitSum(v)' = UnitSum(v)
    BY <1>0, <2>2 DEF UnitSum, rl_write_res, fmaVars, TypeOK
  <2>3. QED
    BY <2>1, <2>2 DEF MUsum
<1>6. MU!Finish(u)
  <2>1. MUk[u] = server_count[u] /\ MUsum[u] = server_result[u]
    BY <1>1, <1>3 DEF MUk, MUsum
  <2>2. /\ rgv_data' = [rgv_data EXCEPT ![server_cmd[u].c] = server_result[u]]
        /\ server_busy' = [server_busy EXCEPT ![u] = FALSE]
        /\ server_cmd' = server_cmd
    BY DEF rl_write_res
  <2>3. MUk[u] = server_cmd[u].count /\ MUk[u] # 0
    BY <1>2, <2>1
  <2>4. rgv_data' = [rgv_data EXCEPT ![server_cmd[u].c] = MUsum[u]]
    BY <2>1, <2>2
  <2>5. QED
    BY <1>1, <1>4, <1>5, <2>2, <2>3, <2>4, MUFinish, Zenon
<1>7. QED
  BY <1>6, MUOperators DEF MU!Next

LEMMA RefinesNext == IInv /\ [Next]_vars => MU!Next \/ UNCHANGED MUstate
<1> SUFFICES ASSUME IInv, [Next]_vars PROVE MU!Next \/ UNCHANGED MUstate
  OBVIOUS
<1>1. ASSUME NEW u \in Units,
             rl_load_mem(u) \/ UnitResponse(u) \/ rl_write_res_mem(u) \/ rl_write_res(u)
      PROVE  MU!Next \/ UNCHANGED MUstate
  BY <1>1, RefinesLoad, RefinesResponse, RefinesLatch, RefinesFinish
<1>2. CASE rl_process_wr_req
  BY <1>2, RefinesWrite
<1>3. CASE rl_decode_command
  <2>1. CASE DecodeIssue
    BY <1>3, <2>1, RefinesIssue
  <2>2. CASE DecodeDrop
    BY <1>3, <2>2, RefinesStutter DEF rl_decode_command, DecodeDrop
  <2>3. QED
    BY <1>3, <2>1, <2>2 DEF rl_decode_command
<1>4. CASE Fabric
  <2>1. UNCHANGED <<rgv_data, serverVars, fmaVars>>
    BY <1>4 DEF Fabric, BusWrite, BusRead, BusWriteResp, BusReadData, ResetRequest, ResetResponse
  <2>2. QED
    BY <2>1, RefinesStutter
<1>5. CASE rl_reset \/ rl_process_rd_req \/ rl_busy_map \/ UNCHANGED vars
  <2>1. UNCHANGED <<rgv_data, serverVars, fmaVars>>
    BY <1>5 DEF rl_reset, rl_process_rd_req, rl_busy_map, vars
  <2>2. QED
    BY <2>1, RefinesStutter
<1>6. QED
  BY <1>1, <1>2, <1>3, <1>4, <1>5 DEF Next, Rules

LEMMA RefinesStep == IInv /\ [Next]_vars => [MU!Next]_(MU!vars)
BY RefinesNext, MUStutter

\* The accelerator implements its specification: whatever the interleaving
\* of bus traffic, resets, loaders, pipelines and the writer, each accepted
\* command adds its products in order and is stored once, at its
\* destination, by the step that frees its unit.
THEOREM Refinement == Spec => ImplementsMatUnits
<1>1. Spec => []IInv
  BY InductiveInvariant
<1>2. QED
  BY <1>1, RefinesInit, RefinesStep, PTL DEF Spec, MU!Spec, ImplementsMatUnits
-----------------------------------------------------------------------------
(* The result of a command is the dot product of its operands.              *)

\* The recursive function Sums is well defined.
LEMMA SumsDef ==
    ASSUME NEW data \in [Cells -> Value], NEW args \in Command
    PROVE  /\ Sums(data, args)[0] = Zero
           /\ \A n \in 0 .. args.count - 1 :
                 Sums(data, args)[n + 1] = Madd(Sums(data, args)[n],
                     data[ElemCell(args.a, n)], data[ElemCell(args.b, n)])
<1> DEFINE count == args.count
           NextSum(n, x) == Madd(x, data[ElemCell(args.a, n - 1)], data[ElemCell(args.b, n - 1)])
           step == [p \in (1 .. count) \X Value |-> NextSum(p[1], p[2])]
           Dot(f) == [n \in 0 .. count |-> IF n = 0 THEN Zero ELSE NextSum(n, f[n - 1])]
<1>1. count \in Nat /\ count <= MaxCount
  BY CommandFields, ConstantFacts
<1>2. ASSUME NEW n \in 1 .. count, NEW x \in Value PROVE NextSum(n, x) \in Value
  <2>1. n - 1 \in 0 .. MaxCount - 1
    BY <1>1, ConstantFacts
  <2>2. ElemCell(args.a, n - 1) \in Cells /\ ElemCell(args.b, n - 1) \in Cells
    BY <2>1, CommandFields
  <2>3. QED
    BY <2>2, MaddType
<1> HIDE DEF NextSum
<1>3. step \in [(1 .. count) \X Value -> Value]
  BY <1>2
<1>4. \E f : f = Dot(f)
  <2>1. PICK f \in [0 .. count -> Value] : Follows(f, count, Zero, step)
    <3>1. Zero \in Value /\ count \in Nat
      BY <1>1, ConstantFacts
    <3> HIDE DEF step, count
    <3>2. QED
      BY <3>1, <1>3, RecursiveFunction
  <2>2. ASSUME NEW n \in 0 .. count
        PROVE  f[n] = IF n = 0 THEN Zero ELSE NextSum(n, f[n - 1])
    <3>1. n # 0 => n - 1 \in 0 .. count /\ <<n, f[n - 1]>> \in (1 .. count) \X Value
      BY <1>1
    <3>2. QED
      BY <2>1, <3>1 DEF Follows
  <2>3. f = Dot(f)
    BY <2>1, <2>2
  <2>4. QED
    BY <2>3
<1>5. Sums(data, args) = CHOOSE f : f = Dot(f)
  BY DEF Sums, NextSum
<1>6. Sums(data, args) = Dot(Sums(data, args))
  <2> HIDE DEF Dot
  <2>1. QED
    BY <1>4, <1>5
<1> DEFINE s == Sums(data, args)
<1>7. \A n \in 0 .. count : s[n] = IF n = 0 THEN Zero ELSE NextSum(n, s[n - 1])
  <2> HIDE DEF s
  <2>1. s = Dot(s)
    BY <1>6 DEF s
  <2>2. QED
    BY <2>1
<1>8. ASSUME NEW n \in 0 .. count - 1
      PROVE  s[n + 1] = NextSum(n + 1, s[n])
  <2>1. n + 1 \in 0 .. count /\ n + 1 # 0 /\ n + 1 - 1 = n
    BY <1>1
  <2> HIDE DEF s
  <2>2. QED
    BY <1>7, <2>1
<1>9. s[0] = Zero
  <2> HIDE DEF s
  <2>1. QED
    BY <1>7, <1>1
<1>10. QED
  BY <1>8, <1>9 DEF NextSum

\* The sums depend on the cells of the operands only.
LEMMA SumsSame ==
    ASSUME NEW data \in [Cells -> Value], NEW other \in [Cells -> Value], NEW args \in Command,
           \A n \in 0 .. args.count - 1 :
              /\ other[ElemCell(args.a, n)] = data[ElemCell(args.a, n)]
              /\ other[ElemCell(args.b, n)] = data[ElemCell(args.b, n)]
    PROVE  \A n \in 0 .. args.count : Sums(other, args)[n] = Sums(data, args)[n]
<1> DEFINE S == {n \in 0 .. args.count : Sums(other, args)[n] = Sums(data, args)[n]}
<1>1. args.count \in Nat
  BY CommandFields, ConstantFacts
<1>2. 0 \in S
  BY <1>1, SumsDef
<1>3. ASSUME NEW n \in 1 .. args.count, n - 1 \in S PROVE n \in S
  <2>1. n - 1 \in 0 .. args.count - 1 /\ (n - 1) + 1 = n
    BY <1>1
  <2>2. /\ Sums(data, args)[(n - 1) + 1] = Madd(Sums(data, args)[n - 1],
               data[ElemCell(args.a, n - 1)], data[ElemCell(args.b, n - 1)])
        /\ Sums(other, args)[(n - 1) + 1] = Madd(Sums(other, args)[n - 1],
               other[ElemCell(args.a, n - 1)], other[ElemCell(args.b, n - 1)])
    BY <2>1, SumsDef
  <2>3. QED
    BY <1>3, <2>1, <2>2
<1>4. 0 .. args.count \subseteq S
  <2> HIDE DEF S
  <2>1. QED
    BY <1>1, <1>2, <1>3, IntervalInduction
<1>5. QED
  BY <1>4

\* A cell changes by a store of software or by the result of a command.
LEMMA DataFrame ==
    ASSUME IInv, [Next]_vars, NEW c \in Cells, rgv_data'[c] # rgv_data[c]
    PROVE  \/ \E req \in Writes : req.region = "data" /\ req.cell = c
           \/ \E other \in Command : other.c = c
<1>1. TypeOK
  BY DEF IInv
<1>2. CASE rl_process_wr_req
  <2> DEFINE req == Head(wr_reqs)
  <2>1. req \in Writes
    BY <1>1, <1>2, HeadTailProperties DEF rl_process_wr_req, TypeOK
  <2> HIDE DEF req
  <2>2. WriteData(req)
    BY <1>2 DEF rl_process_wr_req, WriteStat, WriteBusy, WriteCommand, WriteNothing, req
  <2>3. req.region = "data" /\ req.cell = c
    BY <1>1, <2>2 DEF WriteData, TypeOK
  <2>4. QED
    BY <2>1, <2>3
<1>3. ASSUME NEW u \in Units, rl_write_res(u)
      PROVE  \E other \in Command : other.c = c
  <2>1. server_cmd[u] \in Command /\ server_cmd[u].c = c
    BY <1>1, <1>3 DEF rl_write_res, TypeOK
  <2>2. QED
    BY <2>1
<1>4. Fabric => UNCHANGED rgv_data
  BY DEF Fabric, BusWrite, BusRead, BusWriteResp, BusReadData, ResetRequest, ResetResponse
<1>5. rl_reset \/ rl_process_rd_req \/ rl_decode_command \/ rl_busy_map \/ UNCHANGED vars
         => UNCHANGED rgv_data
  BY DEF rl_reset, rl_process_rd_req, rl_decode_command, rl_busy_map, vars
<1>6. \A u \in Units : rl_load_mem(u) \/ UnitResponse(u) \/ rl_write_res_mem(u)
         => UNCHANGED rgv_data
  BY DEF rl_load_mem, UnitResponse, rl_write_res_mem
<1>7. QED
  BY <1>2, <1>3, <1>4, <1>5, <1>6 DEF Next, Rules

\* The operands of an undisturbed command stay as they are.
LEMMA OperandsKept ==
    ASSUME IInv, IInv', [Next]_vars, NEW args \in Command, Undisturbed(args)
    PROVE  \A n \in 0 .. args.count : Sums(rgv_data', args)[n] = Sums(rgv_data, args)[n]
<1>1. rgv_data \in [Cells -> Value] /\ rgv_data' \in [Cells -> Value]
  BY DEF IInv, TypeOK
<1>2. ASSUME NEW n \in 0 .. args.count - 1
      PROVE  /\ rgv_data'[ElemCell(args.a, n)] = rgv_data[ElemCell(args.a, n)]
             /\ rgv_data'[ElemCell(args.b, n)] = rgv_data[ElemCell(args.b, n)]
  <2>1. n \in 0 .. MaxCount - 1
    BY CommandFields, ConstantFacts
  <2>2. ElemCell(args.a, n) \in Cells /\ ElemCell(args.b, n) \in Cells
    BY <2>1, CommandFields
  <2>3. ASSUME NEW c \in {ElemCell(args.a, n), ElemCell(args.b, n)}
        PROVE  rgv_data'[c] = rgv_data[c]
    <3>1. c \in Cells
      BY <2>2
    <3>2. /\ \A other \in Command : other.c # c
          /\ \A req \in Writes : req.region = "data" => req.cell # c
      BY DEF Undisturbed
    <3>3. QED
      BY <3>1, <3>2, DataFrame
  <2>4. QED
    BY <2>3
<1>3. QED
  BY <1>1, <1>2, SumsSame

\* The steps of MatUnits, over the names above.
LEMMA MUSteps ==
    ASSUME MU!Next
    PROVE  \/ \E u \in Units, c \in Command :
                 /\ ~server_busy[u]
                 /\ server_cmd' = [server_cmd EXCEPT ![u] = c]
                 /\ server_busy' = [server_busy EXCEPT ![u] = TRUE]
                 /\ UNCHANGED <<rgv_data, MUk, MUsum>>
           \/ \E u \in Units :
                 /\ server_busy[u] /\ MUk[u] < server_cmd[u].count
                 /\ MUsum' = [MUsum EXCEPT ![u] = Madd(MUsum[u],
                                 rgv_data[ElemCell(server_cmd[u].a, MUk[u])],
                                 rgv_data[ElemCell(server_cmd[u].b, MUk[u])])]
                 /\ MUk' = [MUk EXCEPT ![u] = MUk[u] + 1]
                 /\ UNCHANGED <<rgv_data, server_busy, server_cmd>>
           \/ \E u \in Units :
                 /\ server_busy' = [server_busy EXCEPT ![u] = FALSE]
                 /\ MUk' = [MUk EXCEPT ![u] = 0]
                 /\ MUsum' = [MUsum EXCEPT ![u] = Zero]
                 /\ UNCHANGED server_cmd
           \/ UNCHANGED <<server_busy, server_cmd, MUk, MUsum>>
<1>1. ASSUME NEW u \in Units, MU!Accept(u)
      PROVE  \E c \in Command :
                 /\ ~server_busy[u]
                 /\ server_cmd' = [server_cmd EXCEPT ![u] = c]
                 /\ server_busy' = [server_busy EXCEPT ![u] = TRUE]
                 /\ UNCHANGED <<rgv_data, MUk, MUsum>>
  BY <1>1, MUOperators, Zenon DEF MU!Accept, MUk, MUsum, MU!Units, Units
<1>2. ASSUME NEW u \in Units, MU!Accumulate(u)
      PROVE  /\ server_busy[u] /\ MUk[u] < server_cmd[u].count
             /\ MUsum' = [MUsum EXCEPT ![u] = Madd(MUsum[u],
                             rgv_data[ElemCell(server_cmd[u].a, MUk[u])],
                             rgv_data[ElemCell(server_cmd[u].b, MUk[u])])]
             /\ MUk' = [MUk EXCEPT ![u] = MUk[u] + 1]
             /\ UNCHANGED <<rgv_data, server_busy, server_cmd>>
  BY <1>2, Zenon DEF MU!Accumulate, MUk, MUsum, MU!Units, Units, MU!ElemCell, ElemCell
<1>3. ASSUME NEW u \in Units, MU!Finish(u)
      PROVE  /\ server_busy' = [server_busy EXCEPT ![u] = FALSE]
             /\ MUk' = [MUk EXCEPT ![u] = 0]
             /\ MUsum' = [MUsum EXCEPT ![u] = Zero]
             /\ UNCHANGED server_cmd
  BY <1>3, Zenon DEF MU!Finish, MUk, MUsum, MU!Units, Units
<1>4. ASSUME NEW a, NEW v, MU!Store(a, v)
      PROVE  UNCHANGED <<server_busy, server_cmd, MUk, MUsum>>
  BY <1>4, Zenon DEF MU!Store, MUk, MUsum, MU!Units, Units
<1>5. QED
  BY <1>1, <1>2, <1>3, <1>4, MUOperators DEF MU!Next

\* The sum of an undisturbed command is that of the products added so far.
SumsKept ==
    \A u \in Units : server_busy[u] /\ Undisturbed(server_cmd[u])
                        => MUsum[u] = Sums(rgv_data, server_cmd[u])[MUk[u]]

LEMMA StepSums == IInv /\ IInv' /\ SumsKept /\ [Next]_vars => SumsKept'
<1> SUFFICES ASSUME IInv, IInv', SumsKept, [Next]_vars,
                    NEW v \in Units, server_busy'[v], Undisturbed(server_cmd'[v])
             PROVE  MUsum'[v] = Sums(rgv_data', server_cmd'[v])[MUk'[v]]
  BY DEF SumsKept, Undisturbed
<1>0. TypeOK /\ TypeOK'
  BY DEF IInv
<1>1. /\ MUk = [u \in Units |-> IF server_busy[u] THEN server_count[u] ELSE 0]
      /\ MUsum = [u \in Units |-> UnitSum(u)]
  BY DEF MUk, MUsum
<1>2. /\ server_cmd \in [Units -> Command] /\ server_busy \in [Units -> BOOLEAN]
      /\ rgv_data \in [Cells -> Value] /\ rgv_data' \in [Cells -> Value]
      /\ server_cmd'[v] \in Command
  BY <1>0 DEF TypeOK
<1>3. server_busy[v] => MUk[v] \in 0 .. server_cmd[v].count /\ server_cmd[v].count \in Nat
  <2>1. server_cmd[v].count \in Nat /\ server_count[v] \in Nat
    BY <1>0, CommandFields, ConstantFacts DEF TypeOK
  <2>2. server_busy[v] => server_count[v] <= server_cmd[v].count
    BY DEF IInv, BusyUnit
  <2>3. QED
    BY <1>1, <2>1, <2>2
<1>4. CASE UNCHANGED <<server_busy[v], server_cmd[v], MUk[v], MUsum[v]>>
  <2>1. server_busy[v] /\ Undisturbed(server_cmd[v]) /\ server_cmd[v] \in Command
    BY <1>2, <1>4
  <2>2. MUsum[v] = Sums(rgv_data, server_cmd[v])[MUk[v]]
    BY <2>1 DEF SumsKept
  <2>3. Sums(rgv_data', server_cmd[v])[MUk[v]] = Sums(rgv_data, server_cmd[v])[MUk[v]]
    BY <2>1, <1>3, OperandsKept
  <2>4. QED
    BY <1>4, <2>2, <2>3
<1>5. ASSUME NEW u \in Units, NEW c \in Command,
             ~server_busy[u],
             server_cmd' = [server_cmd EXCEPT ![u] = c],
             server_busy' = [server_busy EXCEPT ![u] = TRUE],
             UNCHANGED <<rgv_data, MUk, MUsum>>
      PROVE  MUsum'[v] = Sums(rgv_data', server_cmd'[v])[MUk'[v]]
  <2>1. CASE v = u
    <3>1. MUk[v] = 0 /\ MUsum[v] = Zero
      BY <1>1, <1>5, <2>1 DEF UnitSum
    <3>2. Sums(rgv_data', server_cmd'[v])[0] = Zero
      BY <1>2, SumsDef
    <3>3. QED
      BY <1>5, <3>1, <3>2
  <2>2. CASE v # u
    BY <1>2, <1>4, <1>5, <2>2
  <2>3. QED
    BY <2>1, <2>2
<1>6. ASSUME NEW u \in Units,
             server_busy[u], MUk[u] < server_cmd[u].count,
             MUsum' = [MUsum EXCEPT ![u] = Madd(MUsum[u],
                             rgv_data[ElemCell(server_cmd[u].a, MUk[u])],
                             rgv_data[ElemCell(server_cmd[u].b, MUk[u])])],
             MUk' = [MUk EXCEPT ![u] = MUk[u] + 1],
             UNCHANGED <<rgv_data, server_busy, server_cmd>>
      PROVE  MUsum'[v] = Sums(rgv_data', server_cmd'[v])[MUk'[v]]
  <2>1. CASE v = u
    <3>1. MUk[v] \in 0 .. server_cmd[v].count - 1
      BY <1>3, <1>6, <2>1
    <3>2. MUk'[v] = MUk[v] + 1
      BY <1>1, <1>6, <2>1
    <3>3. MUsum'[v] = Madd(MUsum[v], rgv_data[ElemCell(server_cmd[v].a, MUk[v])],
                                     rgv_data[ElemCell(server_cmd[v].b, MUk[v])])
      BY <1>1, <1>6, <2>1
    <3>4. MUsum[v] = Sums(rgv_data, server_cmd[v])[MUk[v]]
      BY <1>6 DEF SumsKept
    <3>5. Sums(rgv_data, server_cmd[v])[MUk[v] + 1] =
             Madd(Sums(rgv_data, server_cmd[v])[MUk[v]],
                  rgv_data[ElemCell(server_cmd[v].a, MUk[v])],
                  rgv_data[ElemCell(server_cmd[v].b, MUk[v])])
      BY <1>2, <3>1, SumsDef
    <3>6. QED
      BY <1>6, <3>2, <3>3, <3>4, <3>5
  <2>2. CASE v # u
    BY <1>1, <1>4, <1>6, <2>2
  <2>3. QED
    BY <2>1, <2>2
<1>7. ASSUME NEW u \in Units,
             server_busy' = [server_busy EXCEPT ![u] = FALSE],
             MUk' = [MUk EXCEPT ![u] = 0],
             MUsum' = [MUsum EXCEPT ![u] = Zero],
             UNCHANGED server_cmd
      PROVE  MUsum'[v] = Sums(rgv_data', server_cmd'[v])[MUk'[v]]
  <2>1. v # u
    BY <1>2, <1>7
  <2>2. QED
    BY <1>1, <1>2, <1>4, <1>7, <2>1
<1>8. MU!Next \/ UNCHANGED MUstate
  BY RefinesNext
<1>9. QED
  BY <1>4, <1>5, <1>6, <1>7, <1>8, MUSteps DEF MUstate

\* The result that waits for the writer is the dot product of the vectors
\* its command names, whatever other units, the bus and resets did meanwhile.
THEOREM ResultsAreDotProducts == Spec => []ResultIsDotProduct
<1>1. Init => SumsKept
  BY DEF Init, SumsKept
<1>2. ASSUME IInv, SumsKept PROVE ResultIsDotProduct
  <2> SUFFICES ASSUME NEW u \in Units, server_done[u], Undisturbed(server_cmd[u])
               PROVE  server_result[u] = DotProduct(server_cmd[u])
    BY DEF ResultIsDotProduct
  <2>1. server_busy[u] /\ server_count[u] = server_cmd[u].count
    BY <1>2 DEF IInv, IdleUnitsClean, UnitClean, BusyUnit
  <2>2. MUsum[u] = server_result[u] /\ MUk[u] = server_cmd[u].count
    BY <2>1 DEF MUsum, MUk, UnitSum
  <2>3. QED
    BY <1>2, <2>1, <2>2 DEF SumsKept, DotProduct
<1>3. Spec => []IInv
  BY InductiveInvariant
<1>4. QED
  BY <1>1, <1>2, <1>3, StepSums, PTL DEF Spec
=============================================================================
