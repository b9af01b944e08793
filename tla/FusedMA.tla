------------------------------ MODULE FusedMA ------------------------------
(***************************************************************************)
(* The fused multiply-accumulate functional unit (mkZipReduceServer of     *)
(* ZipReduceServer_FMA), one instance per element of Units.  A client      *)
(* puts Init(n) and then n operand pairs; each pair is folded into acc by  *)
(* one pass through the floating point pipeline, during which the unit is  *)
(* locked; the n-th response completes the job and get hands acc over.     *)
(***************************************************************************)
EXTENDS MatTypes, Sequences

CONSTANT CounterSize   \* m_count and alloc_size are modulo this (2^32)

ASSUME FusedMAAssumption == CounterSize \in Nat /\ CounterSize > MaxCount + 1

VARIABLES
    state,       \* "READY", "LOCK" or "COMPLETE"
    m_count,     \* responses folded into acc so far
    alloc_size,  \* length of the job
    acc,         \* the accumulator
    fpu_madd     \* results inside the floating point pipeline, oldest first

fmaVars == <<state, m_count, alloc_size, acc, fpu_madd>>

AccState == {"READY", "LOCK", "COMPLETE"}
Counter == 0 .. CounterSize - 1

\* Unsigned decrement and increment of a counter register.
Pred(n) == IF n = 0 THEN CounterSize - 1 ELSE n - 1
Succ(n) == IF n = CounterSize - 1 THEN 0 ELSE n + 1

FMAInit ==
    /\ state = [u \in Units |-> "READY"]
    /\ m_count = [u \in Units |-> 0]
    /\ alloc_size = [u \in Units |-> 0]
    /\ acc = [u \in Units |-> Zero]
    /\ fpu_madd = [u \in Units |-> <<>>]

\* Mutation: the last response is expected one too early.
rl_pipe_response_madd_early(u) ==
    /\ state[u] = "LOCK"
    /\ fpu_madd[u] # <<>>
    /\ acc' = [acc EXCEPT ![u] = Head(fpu_madd[u])]
    /\ fpu_madd' = [fpu_madd EXCEPT ![u] = Tail(fpu_madd[u])]
    /\ IF Succ(m_count[u]) = Pred(alloc_size[u])
       THEN /\ state' = [state EXCEPT ![u] = "COMPLETE"]
            /\ m_count' = [m_count EXCEPT ![u] = 0]
       ELSE /\ state' = [state EXCEPT ![u] = "READY"]
            /\ m_count' = [m_count EXCEPT ![u] = Succ(m_count[u])]
    /\ UNCHANGED alloc_size

\* Mutation: alloc_size where alloc_size - 1 is meant.
rl_pipe_response_madd_late(u) ==
    /\ state[u] = "LOCK"
    /\ fpu_madd[u] # <<>>
    /\ acc' = [acc EXCEPT ![u] = Head(fpu_madd[u])]
    /\ fpu_madd' = [fpu_madd EXCEPT ![u] = Tail(fpu_madd[u])]
    /\ IF m_count[u] = alloc_size[u]
       THEN /\ state' = [state EXCEPT ![u] = "COMPLETE"]
            /\ m_count' = [m_count EXCEPT ![u] = 0]
       ELSE /\ state' = [state EXCEPT ![u] = "READY"]
            /\ m_count' = [m_count EXCEPT ![u] = Succ(m_count[u])]
    /\ UNCHANGED alloc_size

\* rule rl_pipe_response_madd: the response goes to acc and ends the job
\* when it is the last one.  A job of length 0 compares with CounterSize - 1.
rl_pipe_response_madd(u) ==
    /\ state[u] = "LOCK"
    /\ fpu_madd[u] # <<>>
    /\ acc' = [acc EXCEPT ![u] = Head(fpu_madd[u])]
    /\ fpu_madd' = [fpu_madd EXCEPT ![u] = Tail(fpu_madd[u])]
    /\ IF m_count[u] = Pred(alloc_size[u])
       THEN /\ state' = [state EXCEPT ![u] = "COMPLETE"]
            /\ m_count' = [m_count EXCEPT ![u] = 0]
       ELSE /\ state' = [state EXCEPT ![u] = "READY"]
            /\ m_count' = [m_count EXCEPT ![u] = Succ(m_count[u])]
    /\ UNCHANGED alloc_size

\* Mutation: Init leaves acc.
put_Init_keepsAcc(u, n) ==
    /\ state[u] = "READY"
    /\ alloc_size' = [alloc_size EXCEPT ![u] = n]
    /\ m_count' = [m_count EXCEPT ![u] = 0]
    /\ UNCHANGED <<acc, state, fpu_madd>>

\* request.put (tagged Init n)
put_Init(u, n) ==
    /\ state[u] = "READY"
    /\ alloc_size' = [alloc_size EXCEPT ![u] = n]
    /\ acc' = [acc EXCEPT ![u] = Zero]
    /\ m_count' = [m_count EXCEPT ![u] = 0]
    /\ UNCHANGED <<state, fpu_madd>>

\* request.put (tagged ReqOp tuple2(a, b))
put_ReqOp(u, a, b) ==
    /\ state[u] = "READY"
    /\ fpu_madd' = [fpu_madd EXCEPT ![u] = Append(@, Madd(acc[u], a, b))]
    /\ state' = [state EXCEPT ![u] = "LOCK"]
    /\ UNCHANGED <<m_count, alloc_size, acc>>

\* response.get; the value returned is acc[u].
response_get(u) ==
    /\ state[u] = "COMPLETE"
    /\ state' = [state EXCEPT ![u] = "READY"]
    /\ UNCHANGED <<m_count, alloc_size, acc, fpu_madd>>

FMATypeOK ==
    /\ state \in [Units -> AccState]
    /\ m_count \in [Units -> Counter]
    /\ alloc_size \in [Units -> Counter]
    /\ acc \in [Units -> Value]
    /\ fpu_madd \in [Units -> Seq(Value)]
=============================================================================
