---------------------------- MODULE PairwiseMA -----------------------------
(***************************************************************************)
(* The pipelined multiply, then pairwise add functional unit               *)
(* (mkZipReduceServer of ZipReduceServer_PMPA) and its client.  Products   *)
(* fill buffer; passes add neighbours in place, halving m_count, until one *)
(* sum is left; an odd element of a pass moves to rem_buf first.  The      *)
(* requests of a pass run ahead of its responses in the adder's pipeline.  *)
(***************************************************************************)
EXTENDS Naturals, Sequences

CONSTANTS Jobs, Lens,
    BufSize,    \* cells of buffer (128)
    RemSize,    \* cells of rem_buf (33)
    FpuDepth    \* operations a floating point pipeline holds

ASSUME PairwiseMAAssumption ==
    /\ Jobs \in Nat
    /\ BufSize \in Nat \ {0} /\ RemSize \in Nat \ {0} /\ FpuDepth \in Nat \ {0}
    /\ Lens \subseteq 1 .. BufSize

\* There is a remainder cell for each binary digit of a length: what the
\* proofs about the sums assume of the sizes.
RemRoom == BufSize <= 2 ^ RemSize

VARIABLES
    job, len, fed, busy, result,   \* the client, see ZipReduce
    state, m_count, acc, alloc_size, buffer, rem_buf, rem_count,
    a_count,    \* next element of the pass to request
    a_free,     \* are there requests of the pass left?
    rem_free,   \* may the next remainder be requested?
    ar_count,   \* next element of the pass to receive
    r_count, fpu_mult, fpu_add

ZR == INSTANCE ZipReduce

client == <<job, len, fed, busy, result>>
unit == <<state, m_count, acc, alloc_size, buffer, rem_buf, rem_count, a_count, a_free,
          rem_free, ar_count, r_count, fpu_mult, fpu_add>>
vars == <<client, unit>>

\* What the register files hold at first is arbitrary; NoTerm stands for it.
Init ==
    /\ ZR!Init
    /\ state = "READY"
    /\ m_count = 0 /\ r_count = 0 /\ alloc_size = 0
    /\ a_count = 0 /\ a_free = TRUE /\ ar_count = 0
    /\ rem_count = 0 /\ rem_free = FALSE
    /\ acc = ZR!NoTerm
    /\ buffer = [i \in 0 .. BufSize - 1 |-> ZR!NoTerm]
    /\ rem_buf = [i \in 0 .. RemSize - 1 |-> ZR!NoTerm]
    /\ fpu_mult = <<>> /\ fpu_add = <<>>
-----------------------------------------------------------------------------
rl_pipe_response_mult ==
    /\ state \in {"READY", "MULT"}
    /\ m_count < alloc_size
    /\ fpu_mult # <<>>
    /\ buffer' = [buffer EXCEPT ![m_count] = Head(fpu_mult)]
    /\ fpu_mult' = Tail(fpu_mult)
    /\ state' = IF m_count = alloc_size - 1 THEN "ADD" ELSE state
    /\ m_count' = m_count + 1
    /\ UNCHANGED <<client, acc, alloc_size, rem_buf, rem_count, a_count, a_free, rem_free,
                   ar_count, r_count, fpu_add>>

PairwiseReady == state = "ADD" /\ a_free /\ a_count + 2 <= m_count

\* Mutation: the remainder is taken one cell too high.
PairwiseRemainder_above ==
    /\ PairwiseReady
    /\ m_count % 2 = 1
    /\ m_count' = m_count - 1
    /\ rem_buf' = [rem_buf EXCEPT ![rem_count] = buffer[m_count % BufSize]]
    /\ rem_count' = rem_count + 1
    /\ UNCHANGED <<client, state, acc, alloc_size, buffer, a_count, a_free, rem_free,
                   ar_count, r_count, fpu_mult, fpu_add>>

\* rule rl_pairwise_add_req, m_count odd: REMAINDER
PairwiseRemainder ==
    /\ PairwiseReady
    /\ m_count % 2 = 1
    /\ m_count' = m_count - 1
    /\ rem_buf' = [rem_buf EXCEPT ![rem_count] = buffer[m_count - 1]]
    /\ rem_count' = rem_count + 1
    /\ UNCHANGED <<client, state, acc, alloc_size, buffer, a_count, a_free, rem_free,
                   ar_count, r_count, fpu_mult, fpu_add>>

\* rule rl_pairwise_add_req, m_count even: ADD
PairwiseAdd ==
    /\ PairwiseReady
    /\ m_count % 2 = 0
    /\ Len(fpu_add) < FpuDepth
    /\ fpu_add' = Append(fpu_add, ZR!Plus(buffer[a_count], buffer[a_count + 1]))
    /\ a_count' = a_count + 2
    /\ a_free' = (a_count # m_count - 2)
    /\ UNCHANGED <<client, state, m_count, acc, alloc_size, buffer, rem_buf, rem_count,
                   rem_free, ar_count, r_count, fpu_mult>>

rl_pairwise_end ==
    /\ state = "ADD"
    /\ a_free
    /\ m_count = 1
    /\ rem_buf' = [rem_buf EXCEPT ![rem_count] = buffer[0]]
    /\ rem_count' = rem_count + 1
    /\ state' = "REM"
    /\ rem_free' = TRUE
    /\ UNCHANGED <<client, m_count, acc, alloc_size, buffer, a_count, a_free, ar_count,
                   r_count, fpu_mult, fpu_add>>

\* Mutation: ar_count is not reset between passes.
rl_pairwise_add_resp_keepsArCount ==
    /\ state = "ADD"
    /\ fpu_add # <<>>
    /\ fpu_add' = Tail(fpu_add)
    /\ buffer' = [buffer EXCEPT ![ar_count \div 2] = Head(fpu_add)]
    /\ IF ar_count = m_count - 2
       THEN a_free' = TRUE /\ m_count' = m_count \div 2 /\ a_count' = 0 /\ UNCHANGED ar_count
       ELSE ar_count' = ar_count + 2 /\ UNCHANGED <<a_free, m_count, a_count>>
    /\ UNCHANGED <<client, state, acc, alloc_size, rem_buf, rem_count, rem_free, r_count,
                   fpu_mult>>

\* Mutation: the next pass is not allowed to start.
rl_pairwise_add_resp_notFree ==
    /\ state = "ADD"
    /\ fpu_add # <<>>
    /\ fpu_add' = Tail(fpu_add)
    /\ buffer' = [buffer EXCEPT ![ar_count \div 2] = Head(fpu_add)]
    /\ IF ar_count = m_count - 2
       THEN UNCHANGED a_free /\ m_count' = m_count \div 2 /\ a_count' = 0 /\ ar_count' = 0
       ELSE ar_count' = ar_count + 2 /\ UNCHANGED <<a_free, m_count, a_count>>
    /\ UNCHANGED <<client, state, acc, alloc_size, rem_buf, rem_count, rem_free, r_count,
                   fpu_mult>>

rl_pairwise_add_resp ==
    /\ state = "ADD"
    /\ fpu_add # <<>>
    /\ fpu_add' = Tail(fpu_add)
    /\ buffer' = [buffer EXCEPT ![ar_count \div 2] = Head(fpu_add)]
    /\ IF ar_count = m_count - 2
       THEN a_free' = TRUE /\ m_count' = m_count \div 2 /\ a_count' = 0 /\ ar_count' = 0
       ELSE ar_count' = ar_count + 2 /\ UNCHANGED <<a_free, m_count, a_count>>
    /\ UNCHANGED <<client, state, acc, alloc_size, rem_buf, rem_count, rem_free, r_count,
                   fpu_mult>>

\* Mutation: the remainder is taken one cell too high.
rl_rem_add_req_above ==
    /\ state = "REM"
    /\ rem_free
    /\ rem_count >= 1
    /\ fpu_add' = Append(fpu_add, ZR!Plus(buffer[rem_count], acc))
    /\ rem_free' = FALSE
    /\ rem_count' = rem_count - 1
    /\ UNCHANGED <<client, state, m_count, acc, alloc_size, buffer, rem_buf, a_count, a_free,
                   ar_count, r_count, fpu_mult>>

\* The remainders were put in rem_buf, but the operand is read from buffer.
rl_rem_add_req ==
    /\ state = "REM"
    /\ rem_free
    /\ rem_count >= 1
    /\ fpu_add' = Append(fpu_add, ZR!Plus(buffer[rem_count - 1], acc))
    /\ rem_free' = FALSE
    /\ rem_count' = rem_count - 1
    /\ UNCHANGED <<client, state, m_count, acc, alloc_size, buffer, rem_buf, a_count, a_free,
                   ar_count, r_count, fpu_mult>>

rl_rem_add_resp ==
    /\ state = "REM"
    /\ ~rem_free
    /\ fpu_add # <<>>
    /\ acc' = Head(fpu_add)
    /\ fpu_add' = Tail(fpu_add)
    /\ IF rem_count = 0
       THEN state' = "COMPLETE" /\ UNCHANGED rem_free
       ELSE rem_free' = TRUE /\ UNCHANGED state
    /\ UNCHANGED <<client, m_count, alloc_size, buffer, rem_buf, rem_count, a_count, a_free,
                   ar_count, r_count, fpu_mult>>

\* request.put (tagged Init n) does not reset acc.
put_Init(n) ==
    /\ state = "READY"
    /\ alloc_size' = n
    /\ m_count' = 0 /\ r_count' = 0 /\ a_count' = 0
    /\ UNCHANGED <<state, acc, buffer, rem_buf, rem_count, a_free, rem_free, ar_count,
                   fpu_mult, fpu_add>>

\* request.put (tagged ReqOp), whose product is x
put_ReqOp(x) ==
    /\ state = "READY"
    /\ Len(fpu_mult) < FpuDepth
    /\ fpu_mult' = Append(fpu_mult, x)
    /\ state' = IF r_count = alloc_size - 1 THEN "MULT" ELSE state
    /\ r_count' = r_count + 1
    /\ UNCHANGED <<m_count, acc, alloc_size, buffer, rem_buf, rem_count, a_count, a_free,
                   rem_free, ar_count, fpu_add>>

response_get ==
    /\ state = "COMPLETE"
    /\ state' = "READY"
    /\ UNCHANGED <<m_count, acc, alloc_size, buffer, rem_buf, rem_count, a_count, a_free,
                   rem_free, ar_count, r_count, fpu_mult, fpu_add>>
-----------------------------------------------------------------------------
(* The client.                                                              *)

ClientInit(n) == ZR!Start(n) /\ put_Init(n)
ClientReqOp == ZR!Feed /\ put_ReqOp(ZR!Product(job, fed))
ClientGet ==
    /\ busy
    /\ response_get
    /\ result' = acc
    /\ busy' = FALSE
    /\ UNCHANGED <<job, len, fed>>

Rules ==
    \/ rl_pipe_response_mult
    \/ PairwiseRemainder
    \/ PairwiseAdd
    \/ rl_pairwise_end
    \/ rl_pairwise_add_resp
    \/ rl_rem_add_req
    \/ rl_rem_add_resp

Next == (\E n \in Lens : ClientInit(n)) \/ ClientReqOp \/ ClientGet \/ Rules

Spec == Init /\ [][Next]_vars

\* Responses are taken in the cycle they appear, and a rule or the client's
\* loop that can run is never kept from running for good.
FairSpec == Spec /\ WF_vars(Rules) /\ WF_vars(ClientReqOp) /\ WF_vars(ClientGet)
-----------------------------------------------------------------------------
(* Properties.                                                              *)

\* A pass reduces in place: the responses stay behind the requests by what
\* the adder's pipeline holds, so that no response overwrites an element
\* that its pass has yet to read, and no pass starts while an addition of
\* the pass before is in flight.
PassInPlace ==
    state = "ADD" =>
        /\ ar_count + 2 * Len(fpu_add) = a_count
        /\ a_count <= m_count
        /\ a_count > 0 => ar_count \div 2 < a_count /\ m_count % 2 = 0
        /\ a_free \/ a_count = m_count

\* Where the sums are that the passes have got so far: in the cells of buffer
\* already received or still to be read, in the cells of rem_buf, and in the
\* adder's pipeline.
Places ==
    ({"buffer"} \X {c \in 0 .. m_count - 1 : c < ar_count \div 2 \/ c >= a_count})
        \cup ({"rem_buf"} \X (0 .. rem_count - 1))
        \cup ({"adder"} \X (1 .. Len(fpu_add)))

Held == [p \in Places |-> CASE p[1] = "buffer" -> buffer[p[2]]
                            [] p[1] = "rem_buf" -> rem_buf[p[2]]
                            [] p[1] = "adder" -> fpu_add[p[2]]]

\* The sums held at these places have each product of job j in one place,
\* once, and no product of another job.
EachOnce(places, held, j, n) ==
    \A t \in ZR!Terms :
        IF ZR!SumOf(j, n)[t] = 1
        THEN \E p \in places : held[p][t] = 1 /\ \A q \in places \ {p} : held[q][t] = 0
        ELSE \A p \in places : held[p][t] = 0

\* Nothing is lost or added twice on the way to the remainders: what is left
\* in buffer, in the adder and in rem_buf is the whole job during the passes,
\* of every length and of every job.
PassesKeepSum == state = "ADD" => EachOnce(Places, Held, job, len)

\* Although rem_buf is ignored in the end, the first job is delivered right
\* when its length is a power of two: the one sum left is then both in
\* rem_buf and in buffer.
PowersDelivered ==
    job = 1 /\ ~busy /\ (\E k \in 0 .. len : len = 2 ^ k) => result = ZR!SumOf(1, len)

\* The unit keeps the promise of a functional unit: no, see the findings.
ImplementsZipReduce == ZR!Spec

\* Every job is delivered.
JobsFinish == busy ~> ~busy
=============================================================================
