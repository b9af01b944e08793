---------------------------- MODULE PipelinedMA ----------------------------
(***************************************************************************)
(* The pipelined multiply, then add functional unit (mkZipReduceServer of  *)
(* ZipReduceServer_PMA) and its client: the accelerator's loader or the    *)
(* test bench mkMain, which put Init(n), then n operand pairs, and get the *)
(* result.  Products leave the multiplier in order for the registers out;  *)
(* when all have, they are added to acc one by one.  A job may be longer   *)
(* than there are registers: the bench asks for 128 products of the 32.    *)
(***************************************************************************)
EXTENDS Naturals, Sequences

CONSTANTS Jobs, Lens,
    MaxAllocSize,   \* max_alloc_size (128), alloc_size before the first job
    OutSize,    \* registers in out (32)
    FpuDepth    \* operations the multiplier's pipeline holds

VARIABLES
    job, len, fed, busy, result,   \* the client, see ZipReduce
    state, r_count, m_count, alloc_size, acc, out,
    fpu_madd,   \* products in the multiplier's pipeline, oldest first
    fpu_add     \* the sum in the adder's pipeline, if any

ZR == INSTANCE ZipReduce

client == <<job, len, fed, busy, result>>
unit == <<state, r_count, m_count, alloc_size, acc, out, fpu_madd, fpu_add>>
vars == <<client, unit>>

Init ==
    /\ ZR!Init
    /\ state = "READY"
    /\ r_count = 0 /\ m_count = 0
    /\ alloc_size = MaxAllocSize
    /\ acc = ZR!NoTerm
    /\ out = [i \in 0 .. OutSize - 1 |-> ZR!NoTerm]
    /\ fpu_madd = <<>> /\ fpu_add = <<>>
-----------------------------------------------------------------------------
\* A write to a register that does not exist is lost.
rl_pipe_response_mul ==
    /\ state = "MULTIPLY"
    /\ m_count < alloc_size
    /\ fpu_madd # <<>>
    /\ out' = [i \in DOMAIN out |-> IF i = m_count THEN Head(fpu_madd) ELSE out[i]]
    /\ fpu_madd' = Tail(fpu_madd)
    /\ m_count' = m_count + 1
    /\ UNCHANGED <<client, state, r_count, alloc_size, acc, fpu_add>>

rl_end_multiply ==
    /\ state = "MULTIPLY"
    /\ m_count = alloc_size
    /\ m_count' = 0
    /\ state' = "ACCUMULATE"
    /\ UNCHANGED <<client, r_count, alloc_size, acc, out, fpu_madd, fpu_add>>

\* What out[i] can be read as: undefined when there is no such register.
OutAt(i) ==
    IF i \in DOMAIN out THEN {out[i]} ELSE {out[j] : j \in DOMAIN out} \cup {ZR!NoTerm}

rl_start_acc ==
    /\ state = "ACCUMULATE"
    /\ fpu_add = <<>>
    /\ \E x \in OutAt(m_count) : fpu_add' = <<ZR!Plus(acc, x)>>
    /\ state' = "ADDING"
    /\ m_count' = m_count + 1
    /\ UNCHANGED <<client, r_count, alloc_size, acc, out, fpu_madd>>

rl_pipe_response_add ==
    /\ state = "ADDING"
    /\ fpu_add # <<>>
    /\ acc' = Head(fpu_add)
    /\ fpu_add' = <<>>
    /\ IF m_count = alloc_size
       THEN state' = "COMPLETE" /\ r_count' = 0 /\ m_count' = 0
       ELSE state' = "ACCUMULATE" /\ UNCHANGED <<r_count, m_count>>
    /\ UNCHANGED <<client, alloc_size, out, fpu_madd>>

Accepting == state \in {"READY", "MULTIPLY"}

\* Mutation: Init leaves acc.
put_Init_keepsAcc(n) ==
    /\ Accepting
    /\ alloc_size' = n
    /\ r_count' = 0 /\ m_count' = 0
    /\ state' = "MULTIPLY"
    /\ UNCHANGED <<acc, out, fpu_madd, fpu_add>>

\* request.put (tagged Init n)
put_Init(n) ==
    /\ Accepting
    /\ alloc_size' = n
    /\ acc' = ZR!NoTerm
    /\ r_count' = 0 /\ m_count' = 0
    /\ state' = "MULTIPLY"
    /\ UNCHANGED <<out, fpu_madd, fpu_add>>

\* request.put (tagged ReqOp), whose product is x
put_ReqOp(x) ==
    /\ Accepting
    /\ Len(fpu_madd) < FpuDepth
    /\ fpu_madd' = Append(fpu_madd, x)
    /\ r_count' = r_count + 1
    /\ UNCHANGED <<state, m_count, alloc_size, acc, out, fpu_add>>

response_get ==
    /\ state = "COMPLETE"
    /\ state' = "READY"
    /\ UNCHANGED <<r_count, m_count, alloc_size, acc, out, fpu_madd, fpu_add>>
-----------------------------------------------------------------------------
(* The client.                                                              *)

ClientInit(n) == ZR!Start(n) /\ put_Init(n)
ClientReqOp == ZR!Feed /\ put_ReqOp(ZR!Product(job, fed))
ClientGet ==
    /\ busy
    /\ response_get
    /\ result' = acc
    /\ busy' = FALSE
    /\ UNCHANGED <<job, len, fed>>

Rules == rl_pipe_response_mul \/ rl_end_multiply \/ rl_start_acc \/ rl_pipe_response_add

Next == (\E n \in Lens : ClientInit(n)) \/ ClientReqOp \/ ClientGet \/ Rules

Spec == Init /\ [][Next]_vars
-----------------------------------------------------------------------------
(* What the unit promises its client, whatever the length of the job.       *)

\* Of the first n additions, those that find no register.
Beyond(n) == IF n > OutSize THEN n - OutSize ELSE 0

\* x is what the first n additions of job j make: each of its first n
\* products with a register once, and once more at most for an addition that
\* found none; no product without a register, and none of another job.
SumsUp(j, n, x) ==
    /\ x \in [ZR!Terms -> Nat]
    /\ \A t \in ZR!Terms :
         IF t[1] = j /\ t[2] < n /\ t[2] < OutSize
         THEN x[t] \in 1 .. 1 + Beyond(n)
         ELSE x[t] = 0

Deliver ==
    /\ busy
    /\ fed = len
    /\ SumsUp(job, len, result')
    /\ busy' = FALSE
    /\ UNCHANGED <<job, len, fed>>

Promised == (\E n \in Lens : ZR!Start(n)) \/ ZR!Feed \/ Deliver

Promise == ZR!Init /\ [][Promised]_client
=============================================================================
