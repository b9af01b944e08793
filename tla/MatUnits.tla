------------------------------ MODULE MatUnits -----------------------------
(***************************************************************************)
(* What the accelerator promises its software: a set of sequential         *)
(* coprocessors over one data memory.  A unit accepts a command when it is *)
(* idle, adds the products of the command's operands to its sum one at a   *)
(* time and in order, reading both operands of a product at one moment,    *)
(* and, once all are added, writes the sum to the command's destination    *)
(* and is idle again.  Pipelines, locks, result registers and the state of *)
(* the servers do not appear.                                              *)
(***************************************************************************)
EXTENDS MatTypes

VARIABLES
    mem,    \* the data memory
    busy,   \* does the unit hold a command?
    cmd,    \* the command it holds, or held last
    k,      \* products added so far, 0 when idle
    sum     \* their sum, Zero when idle

vars == <<mem, busy, cmd, k, sum>>

Init ==
    /\ mem \in [Cells -> Value]
    /\ busy = [u \in Units |-> FALSE]
    /\ cmd = [u \in Units |-> Args(ZeroHead, ZeroOperands)]
    /\ k = [u \in Units |-> 0]
    /\ sum = [u \in Units |-> Zero]

Accept(u) ==
    /\ ~busy[u]
    /\ busy' = [busy EXCEPT ![u] = TRUE]
    /\ \E c \in Command : c.unit = u /\ cmd' = [cmd EXCEPT ![u] = c]
    /\ UNCHANGED <<mem, k, sum>>

Accumulate(u) ==
    /\ busy[u]
    /\ k[u] < cmd[u].count
    /\ sum' = [sum EXCEPT ![u] = Madd(sum[u], mem[ElemCell(cmd[u].a, k[u])],
                                              mem[ElemCell(cmd[u].b, k[u])])]
    /\ k' = [k EXCEPT ![u] = k[u] + 1]
    /\ UNCHANGED <<mem, busy, cmd>>

\* A command of length zero is never finished.
Finish(u) ==
    /\ busy[u]
    /\ k[u] = cmd[u].count
    /\ k[u] # 0
    /\ mem' = [mem EXCEPT ![cmd[u].c] = sum[u]]
    /\ busy' = [busy EXCEPT ![u] = FALSE]
    /\ k' = [k EXCEPT ![u] = 0]
    /\ sum' = [sum EXCEPT ![u] = Zero]
    /\ UNCHANGED cmd

\* Software stores into the data memory at any time.
Store(a, v) ==
    /\ mem' = [mem EXCEPT ![a] = v]
    /\ UNCHANGED <<busy, cmd, k, sum>>

Next ==
    \/ \E u \in Units : Accept(u) \/ Accumulate(u) \/ Finish(u)
    \/ \E a \in Cells, v \in Value : Store(a, v)

Spec == Init /\ [][Next]_vars
=============================================================================
